-------------------------- MODULE ThreadPoolProofs --------------------------
(***************************************************************************)
(* Safety of the thread pool, for any number of workers, clients, queues,  *)
(* priorities, tasks and calls.                                            *)
(*                                                                         *)
(* The state that matters is in the stacks.  The inductive invariant says  *)
(* where on a stack a call may be, that every task has one place, what the *)
(* counters count, who holds a flag up, and what the destructors have      *)
(* reached.  Every step changes the top of one stack: it calls, goes on or *)
(* returns, and may wake a worker.                                         *)
(***************************************************************************)
EXTENDS ThreadPool, FiniteSetTheorems, TLAPS

(***************************************************************************)
(* The calls a stack may hold: at the bottom what the thread does by       *)
(* itself, above it the calls of the pool and the tasks they run.          *)
(***************************************************************************)
WorkerPlaces == {"loop", "rest", "asleep", "gone"}
MainPlaces   == {"outside", "notify_all", "joining", "gone"}
Upper        == {"scan"} \cup Working \cup Awaiting

Bottom(t) == IF t \in Workers THEN WorkerPlaces
             ELSE IF t = Main THEN MainPlaces ELSE {"outside"}

FrameType == [at : WorkerPlaces \cup MainPlaces \cup Upper, arg : Queues \cup Nat]

FrameIn(f, known) ==
  \/ f.at \in WorkerPlaces \cup MainPlaces /\ f.arg = 0
  \/ f.at = "scan" /\ f.arg \in 0 .. Lowest
  \/ f.at \in Working /\ f.arg \in known
  \/ f.at \in Awaiting /\ f.arg \in Queues \ {Static}

\* cancel() and the destructors are called from outside, wait() also by tasks.
Stacks ==
  /\ stack \in [Threads -> Seq(FrameType)]
  /\ \A t \in Threads : stack[t] # <<>>
  /\ \A t \in Threads : \A i \in DOMAIN stack[t] :
       /\ FrameIn(stack[t][i], DOMAIN queueOf)
       /\ stack[t][i].at \in (IF i = 1 THEN Bottom(t) ELSE Upper)
       /\ stack[t][i].at \in {"cancel", "lower", "destroy"} => i = 2
       /\ stack[t][i].at = "destroy" => t = Main

Typed ==
  /\ queueOf \in Seq(Queues) /\ Len(queueOf) <= MaxTasks
  /\ tasks \in [0 .. Lowest -> SUBSET DOMAIN queueOf]
  /\ counter \in [Queues -> Int] /\ cancelled \in [Queues -> BOOLEAN]
  /\ stop \in BOOLEAN /\ gone \subseteq Queues \ {Static}
  /\ ran \subseteq DOMAIN queueOf /\ dropped \subseteq DOMAIN queueOf
  /\ overruled \subseteq Threads /\ calls \in 0 .. MaxCalls

\* The i-th call on the stack of t has the task x.
Works(t, i, x) ==
  i \in DOMAIN stack[t] /\ stack[t][i].at \in Working /\ stack[t][i].arg = x

InHand(x) == \E t \in Threads : \E i \in DOMAIN stack[t] : Works(t, i, x)
Queued(x) == \E p \in 0 .. Lowest : x \in tasks[p]

\* No two calls have the same task.
Apart ==
  \A t, u \in Threads : \A i \in DOMAIN stack[t], j \in DOMAIN stack[u] :
    Works(u, j, stack[t][i].arg) /\ stack[t][i].at \in Working => t = u /\ i = j

\* Every task has one place, and is lost nowhere.
Placed ==
  /\ Apart
  /\ \A p \in 0 .. Lowest : \A x \in tasks[p] :
       p = PriorityOf[queueOf[x]] /\ ~InHand(x) /\ x \notin ran \cup dropped
  /\ \A t \in Threads : \A i \in DOMAIN stack[t] :
       /\ stack[t][i].at \in {"push", "taken", "run"} => stack[t][i].arg \notin ran \cup dropped
       /\ stack[t][i].at = "count" => stack[t][i].arg \in ran \cup dropped
  /\ ran \cap dropped = {}
  /\ \A x \in DOMAIN queueOf : InHand(x) \/ Queued(x) \/ x \in ran \cup dropped

\* A thread that is in cancel() has its flag up, unless another has lowered it.
Flags ==
  /\ FlagsAreLowered
  /\ \A q \in Queues : \A t \in Cancelling(q) : cancelled[q] \/ t \in overruled

\* The i-th call on the stack of t waits for the tasks of q.
Awaits(t, i, q) ==
  i \in DOMAIN stack[t] /\ stack[t][i].at \in Awaiting /\ stack[t][i].arg = q

\* A queue that is being destroyed is left to its own tasks, one that is gone to
\* nobody.
Destroyed ==
  /\ \A q \in gone : counter[q] = 0
  /\ \A q \in gone : \A t \in Threads : \A i \in DOMAIN stack[t] : ~Awaits(t, i, q)
  /\ \A i \in DOMAIN stack[Main] : stack[Main][i].at = "destroy" =>
       /\ stack[Main][i].arg \notin gone
       /\ \A t \in Threads : \A j \in DOMAIN stack[t] :
            Awaits(t, j, stack[Main][i].arg) => t = Main /\ j = i

\* When the pool is being destroyed, nobody else is left outside.
Closed ==
  /\ Closing => /\ Len(stack[Main]) = 1
                /\ \A c \in Clients \ {Main} : stack[c] = <<Outside>>
  /\ IsAt(Main, "gone") => \A w \in Workers : stack[w] = <<Frame("gone", 0)>>

IInv == Typed /\ Stacks /\ Placed /\ CounterCounts /\ Flags /\ Destroyed /\ Closed

(***************************************************************************)
(* What a step does to the calls that have a task or wait for a queue: the *)
(* k-th call of t is now f, or is no such call, and all others stay.       *)
(***************************************************************************)
Busy(f) == f.at \in Working \cup Awaiting

Step(t, k, f) ==
  /\ \A u \in Threads : \A i \in DOMAIN stack[u] :
       ~(u = t /\ i = k) /\ Busy(stack[u][i]) =>
         i \in DOMAIN stack'[u] /\ stack'[u][i] = stack[u][i]
  /\ \A u \in Threads : \A i \in DOMAIN stack'[u] :
       ~(u = t /\ i = k) /\ Busy(stack'[u][i]) =>
         i \in DOMAIN stack[u] /\ stack[u][i] = stack'[u][i]
  /\ k \in DOMAIN stack'[t] /\ Busy(stack'[t][k]) => stack'[t][k] = f
  /\ Busy(f) => k \in DOMAIN stack'[t] /\ stack'[t][k] = f

\* Nobody but a sleeping worker is changed besides t.
OthersStay(t) ==
  \A u \in Threads \ {t} :
    stack'[u] = stack[u] \/ (u \in Workers /\ IsAt(u, "asleep") /\ stack'[u] = <<Loop>>)
-----------------------------------------------------------------------------
(***************************************************************************)
(* Stacks.                                                                 *)
(***************************************************************************)
LEMMA TopOfStack ==
  ASSUME Stacks, NEW t \in Threads
  PROVE  /\ stack[t] \in Seq(FrameType) /\ Len(stack[t]) \in Nat /\ Len(stack[t]) >= 1
         /\ Len(stack[t]) \in DOMAIN stack[t]
         /\ Top(t) = stack[t][Len(stack[t])]
         /\ Top(t) \in FrameType /\ Top(t) \in Frames(t) /\ FrameIn(Top(t), DOMAIN queueOf)
         /\ Top(t).at \in Upper => Len(stack[t]) > 1
         /\ Top(t).at \notin Upper => Len(stack[t]) = 1 /\ Top(t).at \in Bottom(t)
<1>1. stack[t] \in Seq(FrameType) /\ stack[t] # <<>>
  BY DEF Stacks
<1>2. Len(stack[t]) \in Nat /\ Len(stack[t]) >= 1 /\ Len(stack[t]) \in DOMAIN stack[t]
  BY <1>1
<1>3. Top(t) = stack[t][Len(stack[t])]
  BY DEF Top, Last
<1>4. Top(t) \in FrameType /\ Top(t) \in Frames(t)
  BY <1>1, <1>2, <1>3 DEF Frames
<1>5. /\ FrameIn(Top(t), DOMAIN queueOf)
      /\ Top(t).at \in (IF Len(stack[t]) = 1 THEN Bottom(t) ELSE Upper)
  BY <1>2, <1>3 DEF Stacks
<1>6. Bottom(t) \cap Upper = {}
  BY DEF Bottom, Upper, WorkerPlaces, MainPlaces, Working, Awaiting
<1>7. /\ Top(t).at \in Upper => Len(stack[t]) > 1
      /\ Top(t).at \notin Upper => Len(stack[t]) = 1 /\ Top(t).at \in Bottom(t)
  <2>1. CASE Len(stack[t]) = 1
    BY <1>5, <1>6, <2>1
  <2>2. CASE Len(stack[t]) > 1
    BY <1>5, <2>2
  <2>3. Len(stack[t]) = 1 \/ Len(stack[t]) > 1
    <3>1. ASSUME NEW n \in Nat, n >= 1 PROVE n = 1 \/ n > 1
      BY <3>1
    <3> QED BY <1>2, <3>1, Zenon
  <2> QED BY <2>1, <2>2, <2>3, Zenon
<1> QED BY <1>1, <1>2, <1>3, <1>4, <1>5, <1>7

LEMMA MoreThanOne ==
  ASSUME Stacks, NEW t \in Threads, Top(t).at \in Upper
  PROVE  Len(stack[t]) # 1 /\ 1 \in DOMAIN stack[t]
<1>1. stack[t] \in Seq(FrameType) /\ Len(stack[t]) \in Nat /\ Len(stack[t]) > 1
  BY TopOfStack
<1>2. \A n \in Nat : n > 1 => n # 1
  OBVIOUS
<1>3. Len(stack[t]) # 1
  BY <1>1, <1>2, Zenon
<1>4. 1 \in DOMAIN stack[t]
  BY <1>1
<1> QED BY <1>3, <1>4

\* A new call on the stack of t.
LEMMA StackCalls ==
  ASSUME Stacks, NEW t \in Threads, NEW at \in Upper, NEW arg \in Queues \cup Nat,
         Call(t, at, arg), FrameIn(Frame(at, arg), DOMAIN queueOf'),
         DOMAIN queueOf \subseteq DOMAIN queueOf',
         at \in {"cancel", "lower", "destroy"} => Len(stack[t]) = 1,
         at = "destroy" => t = Main
  PROVE  /\ Stacks' /\ OthersStay(t)
         /\ Step(t, Len(stack[t]) + 1, Frame(at, arg))
         /\ \A i \in DOMAIN stack[t] : i \in DOMAIN stack'[t] /\ stack'[t][i] = stack[t][i]
<1> DEFINE f == Frame(at, arg)
           n == Len(stack[t])
<1>1. f \in FrameType /\ f.at = at /\ f.arg = arg
  BY DEF Frame, FrameType, Upper
<1>2. stack[t] \in Seq(FrameType) /\ n \in Nat /\ n >= 1 /\ DOMAIN stack[t] = 1 .. n
  BY TopOfStack
<1>3. /\ stack' \in [Threads -> Seq(FrameType)]
      /\ stack'[t] = Append(stack[t], f)
      /\ \A u \in Threads \ {t} : stack'[u] = stack[u]
  BY <1>1, <1>2 DEF Stacks, Call
<1> HIDE DEF f
<1>4. /\ Len(stack'[t]) = n + 1 /\ DOMAIN stack'[t] = 1 .. (n + 1)
      /\ \A i \in 1 .. n : stack'[t][i] = stack[t][i]
      /\ stack'[t][n + 1] = f
  BY <1>1, <1>2, <1>3
<1> HIDE DEF n
<1>5. Stacks'
  <2>1. \A u \in Threads : stack'[u] # <<>>
    BY <1>2, <1>3, <1>4 DEF Stacks
  <2>2. ASSUME NEW u \in Threads, NEW i \in DOMAIN stack'[u]
        PROVE  /\ FrameIn(stack'[u][i], DOMAIN queueOf')
               /\ stack'[u][i].at \in (IF i = 1 THEN Bottom(u) ELSE Upper)
               /\ stack'[u][i].at \in {"cancel", "lower", "destroy"} => i = 2
               /\ stack'[u][i].at = "destroy" => u = Main
    <3>1. CASE u = t /\ i = n + 1
      BY <1>1, <1>2, <1>4, <3>1 DEF f, n
    <3>2. CASE ~(u = t /\ i = n + 1)
      <4>1. i \in DOMAIN stack[u] /\ stack'[u][i] = stack[u][i]
        BY <1>2, <1>3, <1>4, <3>2
      <4> QED BY <4>1 DEF Stacks, FrameIn
    <3> QED BY <3>1, <3>2
  <2> QED BY <1>3, <2>1, <2>2 DEF Stacks, Bottom
<1>6. OthersStay(t)
  BY <1>3 DEF OthersStay
<1>7. Step(t, n + 1, f)
  <2>1. ASSUME NEW u \in Threads, NEW i \in DOMAIN stack[u], ~(u = t /\ i = n + 1)
        PROVE  i \in DOMAIN stack'[u] /\ stack'[u][i] = stack[u][i]
    <3>1. CASE u = t
      <4>1. i \in 1 .. n /\ i \in 1 .. n + 1
        BY <1>2, <2>1, <3>1
      <4> QED BY <1>4, <3>1, <4>1
    <3>2. CASE u # t
      <4>1. stack'[u] = stack[u]
        BY <1>3, <3>2
      <4> QED BY <4>1
    <3> QED BY <3>1, <3>2
  <2>2. ASSUME NEW u \in Threads, NEW i \in DOMAIN stack'[u], ~(u = t /\ i = n + 1)
        PROVE  i \in DOMAIN stack[u] /\ stack[u][i] = stack'[u][i]
    <3>1. CASE u = t
      <4>1. i \in 1 .. n
        BY <1>2, <1>4, <2>2, <3>1
      <4> QED BY <1>2, <1>4, <3>1, <4>1
    <3>2. CASE u # t
      <4>1. stack'[u] = stack[u]
        BY <1>3, <3>2
      <4> QED BY <4>1
    <3> QED BY <3>1, <3>2
  <2>3. n + 1 \in DOMAIN stack'[t]
    BY <1>2, <1>4
  <2> QED BY <1>4, <2>1, <2>2, <2>3 DEF Step
<1> QED BY <1>2, <1>4, <1>5, <1>6, <1>7 DEF f, n

\* The innermost call of t goes on as another one.
LEMMA StackGoes ==
  ASSUME Stacks, NEW t \in Threads, NEW at \in Upper, NEW arg \in Queues \cup Nat,
         Go(t, at, arg), FrameIn(Frame(at, arg), DOMAIN queueOf'),
         DOMAIN queueOf \subseteq DOMAIN queueOf',
         Top(t).at \in Upper,
         at \in {"cancel", "lower", "destroy"} => Top(t).at \in {"cancel", "lower"},
         at # "destroy"
  PROVE  /\ Stacks' /\ OthersStay(t)
         /\ Step(t, Len(stack[t]), Frame(at, arg))
         /\ DOMAIN stack'[t] = DOMAIN stack[t]
         /\ \A i \in DOMAIN stack[t] \ {Len(stack[t])} : stack'[t][i] = stack[t][i]
<1> DEFINE f == Frame(at, arg)
           n == Len(stack[t])
<1>1. f \in FrameType /\ f.at = at /\ f.arg = arg
  BY DEF Frame, FrameType, Upper
<1>2. stack[t] \in Seq(FrameType) /\ n \in Nat /\ n > 1 /\ DOMAIN stack[t] = 1 .. n
  BY TopOfStack
<1>3. /\ stack' \in [Threads -> Seq(FrameType)]
      /\ stack'[t] = Append(SubSeq(stack[t], 1, n - 1), f)
      /\ \A u \in Threads \ {t} : stack'[u] = stack[u]
  BY <1>1, <1>2 DEF Stacks, Go, Front
<1>4. Top(t) = stack[t][n]
  BY TopOfStack
<1> HIDE DEF f
<1>5. /\ Len(stack'[t]) = n /\ DOMAIN stack'[t] = 1 .. n
      /\ \A i \in 1 .. n : i # n => stack'[t][i] = stack[t][i]
      /\ stack'[t][n] = f
  BY <1>1, <1>2, <1>3
<1> HIDE DEF n
<1>6. Stacks'
  <2>1. \A u \in Threads : stack'[u] # <<>>
    BY <1>2, <1>3, <1>5 DEF Stacks
  <2>2. ASSUME NEW u \in Threads, NEW i \in DOMAIN stack'[u]
        PROVE  /\ FrameIn(stack'[u][i], DOMAIN queueOf')
               /\ stack'[u][i].at \in (IF i = 1 THEN Bottom(u) ELSE Upper)
               /\ stack'[u][i].at \in {"cancel", "lower", "destroy"} => i = 2
               /\ stack'[u][i].at = "destroy" => u = Main
    <3>1. CASE u = t /\ i = n
      <4>1. i \in DOMAIN stack[u] /\ (at \in {"cancel", "lower", "destroy"} => i = 2)
        BY <1>2, <1>4, <3>1 DEF Stacks
      <4> QED BY <1>1, <1>2, <1>5, <3>1, <4>1 DEF f
    <3>2. CASE ~(u = t /\ i = n)
      <4>1. i \in DOMAIN stack[u] /\ stack'[u][i] = stack[u][i]
        BY <1>2, <1>3, <1>5, <3>2
      <4> QED BY <4>1 DEF Stacks, FrameIn
    <3> QED BY <3>1, <3>2
  <2> QED BY <1>3, <2>1, <2>2 DEF Stacks, Bottom
<1>7. OthersStay(t)
  BY <1>3 DEF OthersStay
<1>8. Step(t, n, f)
  <2>1. ASSUME NEW u \in Threads, NEW i \in DOMAIN stack[u], ~(u = t /\ i = n)
        PROVE  i \in DOMAIN stack'[u] /\ stack'[u][i] = stack[u][i]
    BY <1>2, <1>3, <1>5, <2>1
  <2>2. ASSUME NEW u \in Threads, NEW i \in DOMAIN stack'[u], ~(u = t /\ i = n)
        PROVE  i \in DOMAIN stack[u] /\ stack[u][i] = stack'[u][i]
    BY <1>2, <1>3, <1>5, <2>2
  <2>3. n \in DOMAIN stack'[t]
    BY <1>2, <1>5
  <2> QED BY <1>5, <2>1, <2>2, <2>3 DEF Step
<1> QED BY <1>2, <1>5, <1>6, <1>7, <1>8 DEF f, n

\* The innermost call of t returns, and a sleeping worker may be woken.
LEMMA StackReturns ==
  ASSUME Stacks, NEW t \in Threads, ReturnNotifying(t) \/ Return(t),
         DOMAIN queueOf' = DOMAIN queueOf, Top(t).at \in Upper
  PROVE  /\ Stacks' /\ OthersStay(t)
         /\ Step(t, Len(stack[t]), Outside)
         /\ Len(stack[t]) \notin DOMAIN stack'[t]
         /\ \A i \in DOMAIN stack'[t] : i \in DOMAIN stack[t] /\ stack'[t][i] = stack[t][i]
<1> DEFINE n == Len(stack[t])
<1>1. stack[t] \in Seq(FrameType) /\ n \in Nat /\ n > 1 /\ DOMAIN stack[t] = 1 .. n
  BY TopOfStack
<1>2. Top(t) = stack[t][n]
  BY TopOfStack
<1>3. /\ stack' \in [Threads -> Seq(FrameType)]
      /\ stack'[t] = SubSeq(stack[t], 1, n - 1)
      /\ OthersStay(t)
  <2>1. /\ Loop \in FrameType
        /\ stack \in [Threads -> Seq(FrameType)]
        /\ Front(stack[t]) = SubSeq(stack[t], 1, n - 1)
        /\ SubSeq(stack[t], 1, n - 1) \in Seq(FrameType)
    <3>1. Loop \in FrameType
      BY DEF Loop, Frame, FrameType, WorkerPlaces
    <3>2. SubSeq(stack[t], 1, n - 1) \in Seq(FrameType)
      BY <1>1
    <3> QED BY <3>1, <3>2 DEF Stacks, Front
  <2>2. CASE Return(t)
    BY <2>1, <2>2 DEF Return, OthersStay
  <2>3. ASSUME NEW w \in Workers, IsAt(w, "asleep"),
               stack' = [stack EXCEPT ![t] = Front(@), ![w] = <<Loop>>]
        PROVE  /\ stack' \in [Threads -> Seq(FrameType)]
               /\ stack'[t] = SubSeq(stack[t], 1, n - 1)
               /\ OthersStay(t)
    <3>1. w # t /\ w \in Threads
      BY <2>3 DEF IsAt, Upper, Working, Awaiting, Threads
    <3>2. <<Loop>> \in Seq(FrameType)
      BY <2>1
    <3>3. stack' \in [Threads -> Seq(FrameType)] /\ stack'[t] = Front(stack[t])
          /\ stack'[w] = <<Loop>>
          /\ \A u \in Threads \ {t, w} : stack'[u] = stack[u]
      BY <2>1, <2>3, <3>1, <3>2
    <3> QED BY <2>1, <2>3, <3>1, <3>3 DEF OthersStay
  <2> QED BY <2>2, <2>3 DEF ReturnNotifying, Sleepers
<1>4. /\ Len(stack'[t]) = n - 1 /\ DOMAIN stack'[t] = 1 .. n - 1
      /\ \A i \in 1 .. n - 1 : stack'[t][i] = stack[t][i]
  BY <1>1, <1>3
<1> HIDE DEF n
<1>5. ASSUME NEW w \in Workers, stack'[w] = <<Loop>>, IsAt(w, "asleep")
      PROVE  /\ DOMAIN stack'[w] = {1} /\ stack'[w][1] = Loop
             /\ DOMAIN stack[w] = {1} /\ stack[w][1].at = "asleep"
  <2>1. w \in Threads /\ Top(w).at = "asleep"
    BY <1>5 DEF Threads, IsAt
  <2>2. Len(stack[w]) = 1 /\ Top(w) = stack[w][Len(stack[w])] /\ stack[w] \in Seq(FrameType)
    <3>1. Top(w).at \notin Upper
      BY <2>1 DEF Upper, Working, Awaiting
    <3> QED BY <2>1, <3>1, TopOfStack
  <2> QED BY <1>5, <2>1, <2>2
<1>6. Stacks'
  <2>1. \A u \in Threads : stack'[u] # <<>>
    <3>1. stack'[t] # <<>>
      <4>1. Len(stack'[t]) # 0
        BY <1>1, <1>4
      <4> QED BY <4>1
    <3>2. \A u \in Threads \ {t} : stack'[u] # <<>>
      <4>1. <<Loop>> # <<>>
        OBVIOUS
      <4> QED BY <1>3, <4>1 DEF Stacks, OthersStay
    <3> QED BY <3>1, <3>2
  <2>2. ASSUME NEW u \in Threads, NEW i \in DOMAIN stack'[u]
        PROVE  /\ FrameIn(stack'[u][i], DOMAIN queueOf')
               /\ stack'[u][i].at \in (IF i = 1 THEN Bottom(u) ELSE Upper)
               /\ stack'[u][i].at \in {"cancel", "lower", "destroy"} => i = 2
               /\ stack'[u][i].at = "destroy" => u = Main
    <3>1. CASE i \in DOMAIN stack[u] /\ stack'[u][i] = stack[u][i]
      BY <3>1 DEF Stacks
    <3>2. CASE u \in Workers /\ stack'[u] = <<Loop>> /\ IsAt(u, "asleep")
      <4>1. i = 1 /\ stack'[u][i].at = "loop" /\ stack'[u][i].arg = 0
        BY <1>5, <3>2 DEF Loop, Frame
      <4> QED BY <3>2, <4>1 DEF FrameIn, WorkerPlaces, Bottom
    <3>3. CASE u = t
      <4>1. i \in 1 .. n - 1
        BY <1>4, <2>2, <3>3
      <4>2. i \in 1 .. n
        BY <1>1, <4>1
      <4> QED BY <1>1, <1>4, <3>1, <3>3, <4>1, <4>2
    <3>4. CASE u # t
      <4>1. stack'[u] = stack[u] \/ (u \in Workers /\ IsAt(u, "asleep") /\ stack'[u] = <<Loop>>)
        BY <1>3, <3>4 DEF OthersStay
      <4> QED BY <2>2, <3>1, <3>2, <4>1
    <3> QED BY <3>3, <3>4
  <2> QED BY <1>3, <2>1, <2>2 DEF Stacks, Bottom
<1>7. Step(t, n, Outside)
  <2>1. ASSUME NEW u \in Threads, NEW i \in DOMAIN stack[u], ~(u = t /\ i = n),
               Busy(stack[u][i])
        PROVE  i \in DOMAIN stack'[u] /\ stack'[u][i] = stack[u][i]
    <3>1. CASE u = t \/ stack'[u] = stack[u]
      BY <1>1, <1>4, <2>1, <3>1
    <3>2. CASE u \in Workers /\ stack'[u] = <<Loop>> /\ IsAt(u, "asleep")
      BY <1>5, <2>1, <3>2 DEF Busy, Working, Awaiting
    <3> QED BY <1>3, <3>1, <3>2 DEF OthersStay
  <2>2. ASSUME NEW u \in Threads, NEW i \in DOMAIN stack'[u], ~(u = t /\ i = n),
               Busy(stack'[u][i])
        PROVE  i \in DOMAIN stack[u] /\ stack[u][i] = stack'[u][i]
    <3>1. CASE u = t \/ stack'[u] = stack[u]
      BY <1>1, <1>4, <2>2, <3>1
    <3>2. CASE u \in Workers /\ stack'[u] = <<Loop>> /\ IsAt(u, "asleep")
      BY <1>5, <2>2, <3>2 DEF Busy, Working, Awaiting, Loop, Frame
    <3> QED BY <1>3, <3>1, <3>2 DEF OthersStay
  <2>3. n \notin DOMAIN stack'[t]
    BY <1>1, <1>4
  <2>4. ~Busy(Outside)
    BY DEF Busy, Outside, Frame, Working, Awaiting
  <2> QED BY <2>1, <2>2, <2>3, <2>4 DEF Step
<1> QED BY <1>1, <1>3, <1>4, <1>6, <1>7 DEF n

\* Threads that are in no call that counts go on with something else by themselves.
Resets(u) ==
  /\ \A i \in DOMAIN stack[u] : ~Busy(stack[u][i])
  /\ \E at \in Bottom(u) : stack'[u] = <<Frame(at, 0)>>

LEMMA StackResets ==
  ASSUME Stacks, DOMAIN stack' = Threads, stack' = [u \in Threads |-> stack'[u]],
         DOMAIN queueOf' = DOMAIN queueOf,
         \A u \in Threads : stack'[u] = stack[u] \/ Resets(u)
  PROVE  Stacks' /\ \A t \in Threads : Step(t, 1, Outside)
<1>1. ASSUME NEW u \in Threads, NEW at \in Bottom(u), stack'[u] = <<Frame(at, 0)>>
      PROVE  /\ stack'[u] \in Seq(FrameType) /\ DOMAIN stack'[u] = {1}
             /\ stack'[u][1] = Frame(at, 0) /\ Frame(at, 0).at = at
             /\ ~Busy(Frame(at, 0)) /\ FrameIn(Frame(at, 0), DOMAIN queueOf)
  <2>1. at \in WorkerPlaces \cup MainPlaces
    BY DEF Bottom, WorkerPlaces, MainPlaces
  <2>2. Frame(at, 0) \in FrameType /\ Frame(at, 0).at = at /\ Frame(at, 0).arg = 0
    BY <2>1 DEF Frame, FrameType
  <2>3. ~Busy(Frame(at, 0))
    BY <2>1, <2>2 DEF Busy, Working, Awaiting, WorkerPlaces, MainPlaces
  <2> QED BY <1>1, <2>1, <2>2, <2>3 DEF FrameIn
<1>2. Stacks'
  <2>1. \A u \in Threads : stack'[u] \in Seq(FrameType) /\ stack'[u] # <<>>
    <3> SUFFICES ASSUME NEW u \in Threads
                 PROVE  stack'[u] \in Seq(FrameType) /\ stack'[u] # <<>>
      OBVIOUS
    <3>1. CASE stack'[u] = stack[u]
      BY <3>1 DEF Stacks
    <3>2. CASE Resets(u)
      <4>1. stack'[u] \in Seq(FrameType) /\ DOMAIN stack'[u] = {1}
        BY <1>1, <3>2 DEF Resets
      <4> QED BY <4>1
    <3> QED BY <3>1, <3>2
  <2>2. ASSUME NEW u \in Threads, NEW i \in DOMAIN stack'[u]
        PROVE  /\ FrameIn(stack'[u][i], DOMAIN queueOf')
               /\ stack'[u][i].at \in (IF i = 1 THEN Bottom(u) ELSE Upper)
               /\ stack'[u][i].at \in {"cancel", "lower", "destroy"} => i = 2
               /\ stack'[u][i].at = "destroy" => u = Main
    <3>1. CASE stack'[u] = stack[u]
      BY <3>1 DEF Stacks
    <3>2. CASE Resets(u)
      <4>1. PICK at \in Bottom(u) : stack'[u] = <<Frame(at, 0)>>
        BY <3>2 DEF Resets
      <4>2. i = 1 /\ stack'[u][i] = Frame(at, 0) /\ Frame(at, 0).at = at
            /\ ~Busy(Frame(at, 0)) /\ FrameIn(Frame(at, 0), DOMAIN queueOf)
        BY <1>1, <4>1
      <4> QED BY <4>2 DEF Busy, Awaiting
    <3> QED BY <3>1, <3>2
  <2>3. stack' \in [Threads -> Seq(FrameType)]
    BY <2>1
  <2> QED BY <2>1, <2>2, <2>3 DEF Stacks, Bottom
<1>3. ASSUME NEW t \in Threads PROVE Step(t, 1, Outside)
  <2>1. ASSUME NEW u \in Threads, Resets(u), NEW i \in DOMAIN stack'[u]
        PROVE  ~Busy(stack'[u][i])
    BY <1>1, <2>1 DEF Resets
  <2>2. ~Busy(Outside)
    BY DEF Busy, Outside, Frame, Working, Awaiting
  <2>3. ASSUME NEW u \in Threads, NEW i \in DOMAIN stack[u], Busy(stack[u][i])
        PROVE  i \in DOMAIN stack'[u] /\ stack'[u][i] = stack[u][i]
    BY <2>3 DEF Resets
  <2>4. ASSUME NEW u \in Threads, NEW i \in DOMAIN stack'[u], Busy(stack'[u][i])
        PROVE  i \in DOMAIN stack[u] /\ stack[u][i] = stack'[u][i]
    BY <2>1, <2>4
  <2>5. 1 \in DOMAIN stack'[t] => ~Busy(stack'[t][1])
    <3>1. ASSUME 1 \in DOMAIN stack'[t], Busy(stack'[t][1]) PROVE FALSE
      <4>1. 1 \in DOMAIN stack[t] /\ Busy(stack[t][1])
        BY <2>4, <3>1
      <4>2. stack[t][1].at \in Bottom(t)
        BY <4>1 DEF Stacks
      <4> QED BY <4>1, <4>2 DEF Bottom, Busy, Working, Awaiting, WorkerPlaces, MainPlaces
    <3> QED BY <3>1
  <2> QED BY <2>2, <2>3, <2>4, <2>5 DEF Step
<1> QED BY <1>2, <1>3

\* A thread whose innermost call is none of the pool's has no other.
LEMMA BottomGoes ==
  ASSUME Stacks, NEW t \in Threads, NEW at \in Bottom(t), Go(t, at, 0),
         Top(t).at \notin Upper, DOMAIN queueOf' = DOMAIN queueOf
  PROVE  /\ Stacks' /\ OthersStay(t) /\ Step(t, 1, Outside)
         /\ stack'[t] = <<Frame(at, 0)>> /\ \A u \in Threads \ {t} : stack'[u] = stack[u]
<1>1. Len(stack[t]) = 1 /\ stack[t] \in Seq(FrameType) /\ Top(t) = stack[t][Len(stack[t])]
  BY TopOfStack
<1>2. ~Busy(Top(t))
  BY DEF Busy, Upper
<1>3. stack'[t] = <<Frame(at, 0)>> /\ \A u \in Threads \ {t} : stack'[u] = stack[u]
  <2>1. Front(stack[t]) = <<>>
    BY <1>1 DEF Front
  <2>2. Append(Front(stack[t]), Frame(at, 0)) = <<Frame(at, 0)>>
    BY <2>1
  <2> QED BY <2>2 DEF Go, Stacks
<1>4. \A u \in Threads : stack'[u] = stack[u] \/ Resets(u)
  <2>1. Resets(t)
    BY <1>1, <1>2, <1>3 DEF Resets
  <2> QED BY <1>3, <2>1
<1>5. DOMAIN stack' = Threads /\ stack' = [u \in Threads |-> stack'[u]]
  BY DEF Go, Stacks
<1> QED BY <1>3, <1>4, <1>5, StackResets DEF OthersStay
-----------------------------------------------------------------------------
(***************************************************************************)
(* Tasks.                                                                  *)
(***************************************************************************)
LEMMA WorksAfter ==
  ASSUME NEW t \in Threads, NEW k, NEW f, Step(t, k, f)
  PROVE  \A u \in Threads : \A i, x :
           Works(u, i, x)' <=> IF u = t /\ i = k THEN f.at \in Working /\ f.arg = x
                               ELSE Works(u, i, x)
<1> SUFFICES ASSUME NEW u \in Threads, NEW i, NEW x
             PROVE  Works(u, i, x)' <=> IF u = t /\ i = k THEN f.at \in Working /\ f.arg = x
                                        ELSE Works(u, i, x)
  OBVIOUS
<1>1. CASE u = t /\ i = k
  BY <1>1 DEF Step, Works, Busy
<1>2. CASE ~(u = t /\ i = k)
  BY <1>2 DEF Step, Works, Busy
<1> QED BY <1>1, <1>2

LEMMA AwaitsAfter ==
  ASSUME NEW t \in Threads, NEW k, NEW f, Step(t, k, f)
  PROVE  \A u \in Threads : \A i, q :
           Awaits(u, i, q)' <=> IF u = t /\ i = k THEN f.at \in Awaiting /\ f.arg = q
                                ELSE Awaits(u, i, q)
<1> SUFFICES ASSUME NEW u \in Threads, NEW i, NEW q
             PROVE  Awaits(u, i, q)' <=> IF u = t /\ i = k THEN f.at \in Awaiting /\ f.arg = q
                                         ELSE Awaits(u, i, q)
  OBVIOUS
<1>1. CASE u = t /\ i = k
  BY <1>1 DEF Step, Awaits, Busy
<1>2. CASE ~(u = t /\ i = k)
  BY <1>2 DEF Step, Awaits, Busy
<1> QED BY <1>1, <1>2

\* The tasks that a counter counts.
LEMMA HeldTasks ==
  \A x : x \in Held <=> InHand(x)
<1> SUFFICES ASSUME NEW x PROVE x \in Held <=> InHand(x)
  OBVIOUS
<1>1. x \in Held <=> \E t \in Threads : \E f \in Frames(t) : f.at \in Working /\ f.arg = x
  BY DEF Held
<1> QED BY <1>1 DEF Frames, InHand, Works

LEMMA OpenTasks ==
  \A q : \A x : x \in Open(q) <=> (InHand(x) \/ Queued(x)) /\ queueOf[x] = q
<1> SUFFICES ASSUME NEW q, NEW x
             PROVE  x \in Open(q) <=> (InHand(x) \/ Queued(x)) /\ queueOf[x] = q
  OBVIOUS
<1>1. x \in Held <=> InHand(x)
  BY HeldTasks
<1>2. x \in UNION {tasks[p] : p \in 0 .. Lowest} <=> Queued(x)
  BY DEF Queued
<1> QED BY <1>1, <1>2 DEF Open

LEMMA OpenTasksAfter ==
  (\A q : \A x : x \in Open(q) <=> (InHand(x) \/ Queued(x)) /\ queueOf[x] = q)'
BY OpenTasks, PTL

LEMMA TasksInHand ==
  \A x : InHand(x) <=> \E t \in Threads : \E i : Works(t, i, x)
BY DEF InHand, Works

LEMMA TasksInHandAfter ==
  (\A x : InHand(x) <=> \E t \in Threads : \E i : Works(t, i, x))'
BY TasksInHand, PTL

\* Only what was enqueued is anywhere, so the counters count finite sets.
LEMMA OpenIsFinite ==
  ASSUME Typed, Stacks
  PROVE  /\ \A u \in Threads : \A i, x : Works(u, i, x) => x \in DOMAIN queueOf
         /\ \A x : InHand(x) \/ Queued(x) => x \in DOMAIN queueOf
         /\ \A q : Open(q) \subseteq DOMAIN queueOf /\ IsFiniteSet(Open(q))
<1>1. \A u \in Threads : \A i, x : Works(u, i, x) => x \in DOMAIN queueOf
  BY DEF Works, Stacks, FrameIn, WorkerPlaces, MainPlaces, Working, Awaiting
<1>2. \A x : InHand(x) \/ Queued(x) => x \in DOMAIN queueOf
  BY <1>1, TasksInHand DEF Queued, Typed
<1>3. \A q : Open(q) \subseteq DOMAIN queueOf
  BY <1>2, OpenTasks
<1>4. IsFiniteSet(DOMAIN queueOf)
  BY FS_Interval DEF Typed
<1> QED BY <1>1, <1>2, <1>3, <1>4, FS_Subset

LEMMA TasksApart ==
  Apart <=> \A t, u \in Threads : \A i, j, x :
              Works(t, i, x) /\ Works(u, j, x) => t = u /\ i = j
BY DEF Apart, Works

LEMMA TasksApartAfter ==
  (Apart <=> \A t, u \in Threads : \A i, j, x :
               Works(t, i, x) /\ Works(u, j, x) => t = u /\ i = j)'
BY TasksApart, PTL

\* A step in which no task moves, though the one in hand may come to its end.
LEMMA TasksStay ==
  ASSUME Typed, Placed, CounterCounts,
         NEW t \in Threads, NEW k, NEW f, Step(t, k, f),
         UNCHANGED <<tasks, queueOf, counter>>,
         \A x : Works(t, k, x) <=> f.at \in Working /\ f.arg = x,
         ran \subseteq ran', dropped \subseteq dropped', ran' \cap dropped' = {},
         \A x \in ran' \cup dropped' : x \in ran \cup dropped \/ (f.at = "count" /\ x = f.arg),
         f.at \in {"push", "taken", "run"} => f.arg \notin ran' \cup dropped',
         f.at = "count" => f.arg \in ran' \cup dropped'
  PROVE  Placed' /\ CounterCounts'
<1>1. \A u \in Threads : \A i, x : Works(u, i, x)' <=> Works(u, i, x)
  BY WorksAfter
<1>2. \A x : InHand(x)' <=> InHand(x)
  BY <1>1, TasksInHand, TasksInHandAfter
<1>3. \A x : Queued(x)' <=> Queued(x)
  BY DEF Queued
<1>4. CounterCounts'
  <2>1. ASSUME NEW q \in Queues PROVE Open(q)' = Open(q)
    <3>1. \A x : x \in Open(q)' <=> x \in Open(q)
      BY <1>2, <1>3, OpenTasks, OpenTasksAfter
    <3> QED BY <3>1
  <2> QED BY <2>1 DEF CounterCounts
<1>5. Apart'
  BY <1>1, TasksApart, TasksApartAfter DEF Placed
<1>6. \A x : f.at = "count" /\ x = f.arg => InHand(x)
  BY TasksInHand DEF Working
<1>7. ASSUME NEW p \in 0 .. Lowest, NEW x \in tasks'[p]
      PROVE  p = PriorityOf[queueOf'[x]] /\ ~InHand(x)' /\ x \notin ran' \cup dropped'
  <2>1. p = PriorityOf[queueOf[x]] /\ ~InHand(x) /\ x \notin ran \cup dropped
    BY <1>7 DEF Placed
  <2> QED BY <1>2, <1>6, <2>1
<1>8. ASSUME NEW u \in Threads, NEW i \in DOMAIN stack'[u],
             stack'[u][i].at \in {"push", "taken", "run"}
      PROVE  stack'[u][i].arg \notin ran' \cup dropped'
  <2>1. Busy(stack'[u][i]) /\ stack'[u][i].at \in Working
    BY <1>8 DEF Busy, Working
  <2>2. CASE u = t /\ i = k
    BY <1>8, <2>1, <2>2 DEF Step
  <2>3. CASE ~(u = t /\ i = k)
    <3>1. i \in DOMAIN stack[u] /\ stack'[u][i] = stack[u][i]
      BY <2>1, <2>3 DEF Step
    <3>2. stack[u][i].arg \notin ran \cup dropped
      BY <1>8, <3>1 DEF Placed
    <3>3. f.at = "count" => stack[u][i].arg # f.arg
      <4>1. Works(u, i, stack[u][i].arg)
        BY <2>1, <3>1 DEF Works
      <4>2. f.at = "count" => Works(t, k, f.arg)
        BY DEF Working
      <4> QED BY <2>3, <4>1, <4>2, TasksApart DEF Placed
    <3> QED BY <3>1, <3>2, <3>3
  <2> QED BY <2>2, <2>3
<1>11. ASSUME NEW u \in Threads, NEW i \in DOMAIN stack'[u], stack'[u][i].at = "count"
       PROVE  stack'[u][i].arg \in ran' \cup dropped'
  <2>1. Busy(stack'[u][i])
    BY <1>11 DEF Busy, Working
  <2>2. CASE u = t /\ i = k
    BY <1>11, <2>1, <2>2 DEF Step
  <2>3. CASE ~(u = t /\ i = k)
    <3>1. i \in DOMAIN stack[u] /\ stack'[u][i] = stack[u][i]
      BY <2>1, <2>3 DEF Step
    <3> QED BY <1>11, <3>1 DEF Placed
  <2> QED BY <2>2, <2>3
<1>9. ASSUME NEW x \in DOMAIN queueOf'
      PROVE  InHand(x)' \/ Queued(x)' \/ x \in ran' \cup dropped'
  BY <1>2, <1>3 DEF Placed
<1>10. Placed'
  BY <1>5, <1>7, <1>8, <1>9, <1>11 DEF Placed
<1> QED BY <1>4, <1>10

\* enqueue(): the counter is raised for a task that nobody had.
LEMMA TaskAppears ==
  ASSUME Typed, Placed, CounterCounts, Stacks,
         NEW t \in Threads, NEW k, NEW q \in Queues,
         Step(t, k, Frame("push", Len(queueOf) + 1)), \A x : ~Works(t, k, x),
         queueOf' = Append(queueOf, q), counter' = [counter EXCEPT ![q] = @ + 1],
         UNCHANGED <<tasks, ran, dropped>>
  PROVE  Placed' /\ CounterCounts'
<1> DEFINE new == Len(queueOf) + 1
           f == Frame("push", new)
<1>1. /\ Len(queueOf) \in Nat /\ new \in Nat /\ DOMAIN queueOf = 1 .. Len(queueOf)
      /\ DOMAIN queueOf' = DOMAIN queueOf \cup {new} /\ queueOf'[new] = q
      /\ \A x \in DOMAIN queueOf : queueOf'[x] = queueOf[x]
      /\ new \notin DOMAIN queueOf
  BY DEF Typed
<1>2. f.at = "push" /\ f.arg = new
  BY DEF Frame
<1>3. \A u \in Threads : \A i, x :
        Works(u, i, x)' <=> Works(u, i, x) \/ (u = t /\ i = k /\ x = new)
  BY <1>2, WorksAfter DEF Working
<1>4. \A u \in Threads : \A i, x : Works(u, i, x) => x \in DOMAIN queueOf
  BY OpenIsFinite
<1>5. k \in DOMAIN stack'[t] /\ stack'[t][k] = f
  BY <1>2 DEF Step, Busy, Working
<1> HIDE DEF f, new
<1>6. \A x : InHand(x)' <=> InHand(x) \/ x = new
  BY <1>3, TasksInHand, TasksInHandAfter
<1>7. \A x : Queued(x)' <=> Queued(x)
  BY DEF Queued
<1>8. \A x : InHand(x) \/ Queued(x) \/ x \in ran \cup dropped => x \in DOMAIN queueOf
  BY OpenIsFinite DEF Typed
<1>9. CounterCounts'
  <2>1. ASSUME NEW r \in Queues
        PROVE  Open(r)' = (IF r = q THEN Open(r) \cup {new} ELSE Open(r))
    <3>1. \A x : x \in Open(r)' <=> x \in Open(r) \/ (x = new /\ r = q)
      BY <1>1, <1>6, <1>7, <1>8, OpenTasks, OpenTasksAfter
    <3> QED BY <3>1
  <2>2. ASSUME NEW r \in Queues PROVE counter'[r] = Cardinality(Open(r)')
    <3>1. IsFiniteSet(Open(r)) /\ new \notin Open(r)
      BY <1>1, OpenIsFinite
    <3>2. Cardinality(Open(r) \cup {new}) = Cardinality(Open(r)) + 1
      BY <3>1, FS_AddElement
    <3>3. counter[r] = Cardinality(Open(r))
      BY DEF CounterCounts
    <3> QED BY <2>1, <3>2, <3>3 DEF Typed
  <2> QED BY <2>2 DEF CounterCounts
<1>10. Apart'
  BY <1>1, <1>3, <1>4, TasksApart, TasksApartAfter DEF Placed
<1>11. ASSUME NEW p \in 0 .. Lowest, NEW x \in tasks'[p]
       PROVE  p = PriorityOf[queueOf'[x]] /\ ~InHand(x)' /\ x \notin ran' \cup dropped'
  <2>1. p = PriorityOf[queueOf[x]] /\ ~InHand(x) /\ x \notin ran \cup dropped
    BY <1>11 DEF Placed
  <2>2. x \in DOMAIN queueOf
    BY <1>8, <1>11 DEF Queued
  <2> QED BY <1>1, <1>6, <2>1, <2>2
<1>12. ASSUME NEW u \in Threads, NEW i \in DOMAIN stack'[u],
              stack'[u][i].at \in {"push", "taken", "run"}
       PROVE  stack'[u][i].arg \notin ran' \cup dropped'
  <2>1. Busy(stack'[u][i])
    BY <1>12 DEF Busy, Working
  <2>2. CASE u = t /\ i = k
    BY <1>1, <1>2, <1>5, <1>8, <2>2
  <2>3. CASE ~(u = t /\ i = k)
    BY <1>12, <2>1, <2>3 DEF Step, Placed
  <2> QED BY <2>2, <2>3
<1>16. ASSUME NEW u \in Threads, NEW i \in DOMAIN stack'[u], stack'[u][i].at = "count"
       PROVE  stack'[u][i].arg \in ran' \cup dropped'
  <2>1. Busy(stack'[u][i])
    BY <1>16 DEF Busy, Working
  <2>2. ~(u = t /\ i = k)
    BY <1>2, <1>5, <1>16
  <2> QED BY <1>16, <2>1, <2>2 DEF Step, Placed
<1>13. ASSUME NEW x \in DOMAIN queueOf'
       PROVE  InHand(x)' \/ Queued(x)' \/ x \in ran' \cup dropped'
  BY <1>1, <1>6, <1>7 DEF Placed
<1>14. ran' \cap dropped' = {}
  BY DEF Placed
<1>15. Placed'
  BY <1>10, <1>11, <1>12, <1>13, <1>14, <1>16 DEF Placed
<1> QED BY <1>9, <1>15

\* The task of a call that ends is where it was put, or has ended.
LEMMA TaskLeavesHand ==
  ASSUME Typed, Stacks, Placed, NEW t \in Threads, NEW k \in DOMAIN stack[t], NEW x,
         Works(t, k, x), Step(t, k, Outside), UNCHANGED <<ran, dropped, queueOf>>,
         \A p \in 0 .. Lowest : \A y \in tasks'[p] :
           y \in tasks[p] \/ (y = x /\ p = PriorityOf[queueOf[x]] /\ x \notin ran \cup dropped),
         \A p \in 0 .. Lowest : tasks[p] \subseteq tasks'[p],
         Queued(x)' \/ x \in ran \cup dropped
  PROVE  Placed' /\ \A y : InHand(y)' <=> InHand(y) /\ y # x
<1>1. \A u \in Threads : \A i, y : Works(u, i, y)' <=> Works(u, i, y) /\ ~(u = t /\ i = k)
  <2>1. Outside.at \notin Working
    BY DEF Outside, Frame, Working
  <2> QED BY <2>1, WorksAfter
<1>2. \A y : InHand(y)' <=> InHand(y) /\ y # x
  <2>1. \A u \in Threads : \A i : Works(u, i, x) => u = t /\ i = k
    BY TasksApart DEF Placed
  <2>2. \A y : Works(t, k, y) => y = x
    BY DEF Works
  <2> QED BY <1>1, <2>1, <2>2, TasksInHand, TasksInHandAfter
<1>3. Apart'
  BY <1>1, TasksApart, TasksApartAfter DEF Placed
<1>4. ASSUME NEW p \in 0 .. Lowest, NEW y \in tasks'[p]
      PROVE  p = PriorityOf[queueOf'[y]] /\ ~InHand(y)' /\ y \notin ran' \cup dropped'
  BY <1>2, <1>4 DEF Placed
<1>5. ASSUME NEW u \in Threads, NEW i \in DOMAIN stack'[u], Busy(stack'[u][i])
      PROVE  /\ stack'[u][i].at \in {"push", "taken", "run"}
                  => stack'[u][i].arg \notin ran' \cup dropped'
             /\ stack'[u][i].at = "count" => stack'[u][i].arg \in ran' \cup dropped'
  <2>1. ~Busy(Outside)
    BY DEF Outside, Frame, Busy, Working, Awaiting
  <2>2. i \in DOMAIN stack[u] /\ stack'[u][i] = stack[u][i]
    BY <1>5, <2>1 DEF Step
  <2> QED BY <2>2 DEF Placed
<1>6. ASSUME NEW y \in DOMAIN queueOf'
      PROVE  InHand(y)' \/ Queued(y)' \/ y \in ran' \cup dropped'
  <2>1. InHand(y) \/ Queued(y) \/ y \in ran \cup dropped
    BY DEF Placed
  <2>2. Queued(y) => Queued(y)'
    BY DEF Queued
  <2> QED BY <1>2, <2>1, <2>2
<1>7. \A u \in Threads : \A i \in DOMAIN stack'[u] :
        stack'[u][i].at \in {"push", "taken", "run", "count"} => Busy(stack'[u][i])
  BY DEF Busy, Working
<1>8. Placed'
  BY <1>3, <1>4, <1>5, <1>6, <1>7 DEF Placed
<1> QED BY <1>2, <1>8

\* The push makes the task visible.
LEMMA TaskPushed ==
  ASSUME Typed, Stacks, Placed, CounterCounts,
         NEW t \in Threads, NEW k \in DOMAIN stack[t], NEW x,
         stack[t][k] = Frame("push", x), Step(t, k, Outside),
         tasks' = [tasks EXCEPT ![PriorityOf[queueOf[x]]] = @ \cup {x}],
         UNCHANGED <<ran, dropped, queueOf, counter>>
  PROVE  Placed' /\ CounterCounts'
<1> DEFINE prio == PriorityOf[queueOf[x]]
<1>1. Works(t, k, x) /\ x \notin ran \cup dropped /\ x \in DOMAIN queueOf
  <2>1. stack[t][k].at = "push" /\ stack[t][k].arg = x
    BY DEF Frame
  <2> QED BY <2>1 DEF Works, Working, Placed, Stacks, FrameIn, WorkerPlaces, MainPlaces,
                      Awaiting
<1>2. prio \in 0 .. Lowest
  BY <1>1, ThreadPoolAssumption DEF Typed
<1>3. /\ tasks'[prio] = tasks[prio] \cup {x}
      /\ \A p \in 0 .. Lowest : p # prio => tasks'[p] = tasks[p]
  BY <1>2 DEF Typed
<1> HIDE DEF prio
<1>4. \A y : Queued(y)' <=> Queued(y) \/ y = x
  BY <1>2, <1>3 DEF Queued
<1>5. Placed' /\ \A y : InHand(y)' <=> InHand(y) /\ y # x
  <2>1. \A p \in 0 .. Lowest : \A y \in tasks'[p] :
          y \in tasks[p] \/ (y = x /\ p = prio /\ x \notin ran \cup dropped)
    BY <1>1, <1>3
  <2>2. \A p \in 0 .. Lowest : tasks[p] \subseteq tasks'[p]
    BY <1>3
  <2> QED BY <1>1, <1>4, <2>1, <2>2, TaskLeavesHand DEF prio
<1>6. ASSUME NEW q \in Queues PROVE Open(q)' = Open(q)
  <2>1. InHand(x)
    BY <1>1, TasksInHand
  <2>2. \A y : y \in Open(q)' <=> y \in Open(q)
    BY <1>4, <1>5, <2>1, OpenTasks, OpenTasksAfter
  <2> QED BY <2>2
<1> QED BY <1>5, <1>6 DEF CounterCounts

\* A task that has ended is counted off.
LEMMA TaskCounted ==
  ASSUME Typed, Stacks, Placed, CounterCounts,
         NEW t \in Threads, NEW k \in DOMAIN stack[t], NEW x,
         stack[t][k] = Frame("count", x), Step(t, k, Outside),
         counter' = [counter EXCEPT ![queueOf[x]] = @ - 1],
         UNCHANGED <<ran, dropped, queueOf, tasks>>
  PROVE  Placed' /\ CounterCounts'
<1>1. Works(t, k, x) /\ x \in ran \cup dropped /\ x \in DOMAIN queueOf
  <2>1. stack[t][k].at = "count" /\ stack[t][k].arg = x
    BY DEF Frame
  <2> QED BY <2>1 DEF Works, Working, Placed, Stacks, FrameIn, WorkerPlaces, MainPlaces,
                      Awaiting
<1>2. Placed' /\ \A y : InHand(y)' <=> InHand(y) /\ y # x
  BY <1>1, TaskLeavesHand
<1>3. /\ \A y : Queued(y)' <=> Queued(y)
      /\ InHand(x) /\ ~Queued(x)
  BY <1>1, TasksInHand DEF Queued, Placed
<1>4. ASSUME NEW q \in Queues PROVE counter'[q] = Cardinality(Open(q)')
  <2>1. \A y : y \in Open(q)' <=> y \in Open(q) /\ y # x
    BY <1>2, <1>3, OpenTasks, OpenTasksAfter
  <2>2. Open(q)' = Open(q) \ {x} /\ (x \in Open(q) <=> queueOf[x] = q)
    BY <1>3, <2>1, OpenTasks
  <2>3. IsFiniteSet(Open(q))
    BY OpenIsFinite
  <2>4. Cardinality(Open(q) \ {x}) = IF x \in Open(q) THEN Cardinality(Open(q)) - 1
                                     ELSE Cardinality(Open(q))
    BY <2>3, FS_RemoveElement
  <2>5. counter[q] = Cardinality(Open(q)) /\ counter[q] \in Int /\ queueOf[x] \in Queues
    BY <1>1 DEF CounterCounts, Typed
  <2> QED BY <2>2, <2>4, <2>5 DEF Typed
<1> QED BY <1>2, <1>4 DEF CounterCounts

\* A thread takes a task.
LEMMA TaskTaken ==
  ASSUME Typed, Stacks, Placed, CounterCounts,
         NEW t \in Threads, NEW k, NEW p \in 0 .. Lowest, NEW x \in tasks[p],
         Step(t, k, Frame("taken", x)), \A y : ~Works(t, k, y),
         tasks' = [tasks EXCEPT ![p] = @ \ {x}],
         UNCHANGED <<ran, dropped, queueOf, counter>>
  PROVE  Placed' /\ CounterCounts'
<1> DEFINE f == Frame("taken", x)
<1>1. f.at = "taken" /\ f.arg = x
  BY DEF Frame
<1>2. \A u \in Threads : \A i, y :
        Works(u, i, y)' <=> Works(u, i, y) \/ (u = t /\ i = k /\ y = x)
  BY <1>1, WorksAfter DEF Working
<1>3. k \in DOMAIN stack'[t] /\ stack'[t][k] = f
  BY <1>1 DEF Step, Busy, Working
<1> HIDE DEF f
<1>4. \A y : InHand(y)' <=> InHand(y) \/ y = x
  BY <1>2, TasksInHand, TasksInHandAfter
<1>5. /\ tasks'[p] = tasks[p] \ {x}
      /\ \A r \in 0 .. Lowest : r # p => tasks'[r] = tasks[r]
  BY DEF Typed
<1>6. /\ p = PriorityOf[queueOf[x]] /\ ~InHand(x) /\ x \notin ran \cup dropped
      /\ \A r \in 0 .. Lowest : x \in tasks[r] => r = p
  BY DEF Placed
<1>7. \A y : Queued(y)' <=> Queued(y) /\ y # x
  BY <1>5, <1>6 DEF Queued
<1>8. ASSUME NEW q \in Queues PROVE Open(q)' = Open(q)
  <2>1. Queued(x)
    BY DEF Queued
  <2>2. \A y : y \in Open(q)' <=> y \in Open(q)
    BY <1>4, <1>7, <2>1, OpenTasks, OpenTasksAfter
  <2> QED BY <2>2
<1>9. Apart'
  BY <1>2, <1>6, TasksInHand, TasksApart, TasksApartAfter DEF Placed
<1>10. ASSUME NEW r \in 0 .. Lowest, NEW y \in tasks'[r]
       PROVE  r = PriorityOf[queueOf'[y]] /\ ~InHand(y)' /\ y \notin ran' \cup dropped'
  <2>1. y \in tasks[r] /\ y # x
    BY <1>5, <1>6, <1>10
  <2> QED BY <1>4, <2>1 DEF Placed
<1>11. ASSUME NEW u \in Threads, NEW i \in DOMAIN stack'[u], Busy(stack'[u][i])
       PROVE  /\ stack'[u][i].at \in {"push", "taken", "run"}
                   => stack'[u][i].arg \notin ran' \cup dropped'
              /\ stack'[u][i].at = "count" => stack'[u][i].arg \in ran' \cup dropped'
  <2>1. CASE u = t /\ i = k
    BY <1>1, <1>3, <1>6, <2>1
  <2>2. CASE ~(u = t /\ i = k)
    <3>1. i \in DOMAIN stack[u] /\ stack'[u][i] = stack[u][i]
      BY <1>11, <2>2 DEF Step
    <3> QED BY <3>1 DEF Placed
  <2> QED BY <2>1, <2>2
<1>12. \A u \in Threads : \A i \in DOMAIN stack'[u] :
         stack'[u][i].at \in {"push", "taken", "run", "count"} => Busy(stack'[u][i])
  BY DEF Busy, Working
<1>13. ASSUME NEW y \in DOMAIN queueOf'
       PROVE  InHand(y)' \/ Queued(y)' \/ y \in ran' \cup dropped'
  BY <1>4, <1>7 DEF Placed
<1>14. ran' \cap dropped' = {}
  BY DEF Placed
<1>15. Placed'
  BY <1>9, <1>10, <1>11, <1>12, <1>13, <1>14 DEF Placed
<1> QED BY <1>8, <1>15 DEF CounterCounts

\* A task in hand is counted, so its queue is not drained.
LEMMA HandIsCounted ==
  ASSUME Typed, Stacks, CounterCounts, NEW x, InHand(x)
  PROVE  x \in DOMAIN queueOf /\ queueOf[x] \in Queues /\ counter[queueOf[x]] > 0
<1>1. x \in DOMAIN queueOf /\ queueOf[x] \in Queues
  BY OpenIsFinite DEF Typed
<1>2. IsFiniteSet(Open(queueOf[x])) /\ x \in Open(queueOf[x])
  BY OpenIsFinite, OpenTasks
<1>3. Cardinality(Open(queueOf[x])) \in Nat /\ Cardinality(Open(queueOf[x])) # 0
  BY <1>2, FS_CardinalityType, FS_EmptySet
<1> QED BY <1>1, <1>3 DEF CounterCounts
-----------------------------------------------------------------------------
(***************************************************************************)
(* Flags.                                                                  *)
(***************************************************************************)
\* The i-th call on the stack of t is a cancel() of q.
Cancels(t, i, q) ==
  i \in DOMAIN stack[t] /\ stack[t][i].at \in {"cancel", "lower"} /\ stack[t][i].arg = q

LEMMA CancelsAfter ==
  ASSUME NEW t \in Threads, NEW k, NEW f, Step(t, k, f)
  PROVE  \A u \in Threads : \A i, q :
           Cancels(u, i, q)' <=> IF u = t /\ i = k THEN f.at \in {"cancel", "lower"} /\ f.arg = q
                                 ELSE Cancels(u, i, q)
<1> SUFFICES ASSUME NEW u \in Threads, NEW i, NEW q
             PROVE  Cancels(u, i, q)' <=>
                      IF u = t /\ i = k THEN f.at \in {"cancel", "lower"} /\ f.arg = q
                      ELSE Cancels(u, i, q)
  OBVIOUS
<1>1. CASE u = t /\ i = k
  BY <1>1 DEF Step, Cancels, Busy, Awaiting
<1>2. CASE ~(u = t /\ i = k)
  BY <1>2 DEF Step, Cancels, Busy, Awaiting
<1> QED BY <1>1, <1>2

LEMMA CancellingIs ==
  \A q : \A t : t \in Cancelling(q) <=> t \in Threads /\ \E i : Cancels(t, i, q)
BY DEF Cancelling, Frames, Cancels

LEMMA CancellingIsAfter ==
  (\A q : \A t : t \in Cancelling(q) <=> t \in Threads /\ \E i : Cancels(t, i, q))'
BY CancellingIs, PTL

\* Nobody enters or leaves cancel().
LEMMA FlagsStay ==
  ASSUME Flags, NEW t \in Threads, NEW k, NEW f, Step(t, k, f),
         \A q : Cancels(t, k, q) <=> f.at \in {"cancel", "lower"} /\ f.arg = q,
         UNCHANGED <<cancelled, overruled>>
  PROVE  Flags'
<1>1. \A u \in Threads : \A i, q : Cancels(u, i, q)' <=> Cancels(u, i, q)
  BY CancelsAfter
<1>2. \A q : \A u : u \in Cancelling(q)' <=> u \in Cancelling(q)
  BY <1>1, CancellingIs, CancellingIsAfter
<1>3. FlagsAreLowered'
  <2>1. \A q : Cancelling(q)' = {} <=> Cancelling(q) = {}
    BY <1>2
  <2> QED BY <2>1 DEF Flags, FlagsAreLowered
<1>4. \A q \in Queues : \A u \in Cancelling(q)' : cancelled'[q] \/ u \in overruled'
  BY <1>2 DEF Flags
<1> QED BY <1>3, <1>4 DEF Flags

\* cancel() raises the flag.
LEMMA FlagIsRaised ==
  ASSUME Typed, Flags, NEW t \in Threads, NEW k, NEW q \in Queues, Step(t, k, Frame("cancel", q)),
         \A r : ~Cancels(t, k, r),
         cancelled' = [cancelled EXCEPT ![q] = TRUE], UNCHANGED overruled
  PROVE  Flags'
<1> DEFINE f == Frame("cancel", q)
<1>1. f.at = "cancel" /\ f.arg = q
  BY DEF Frame
<1>2. \A u \in Threads : \A i, r :
        Cancels(u, i, r)' <=> Cancels(u, i, r) \/ (u = t /\ i = k /\ r = q)
  BY <1>1, CancelsAfter
<1>3. \A r : \A u : u \in Cancelling(r)' <=> u \in Cancelling(r) \/ (u = t /\ r = q)
  BY <1>2, CancellingIs, CancellingIsAfter
<1>4. \A r \in Queues : cancelled'[r] = (cancelled[r] \/ r = q)
  BY DEF Typed
<1>5. \A r \in Queues : cancelled'[r] => Cancelling(r)' # {}
  <2> SUFFICES ASSUME NEW r \in Queues, cancelled'[r] PROVE Cancelling(r)' # {}
    OBVIOUS
  <2>1. CASE r = q
    <3>1. t \in Cancelling(r)'
      BY <1>3, <2>1
    <3> QED BY <3>1
  <2>2. CASE r # q
    <3>1. Cancelling(r) # {}
      BY <1>4, <2>2 DEF Flags, FlagsAreLowered
    <3> QED BY <1>3, <3>1
  <2> QED BY <2>1, <2>2
<1>6. \A r \in Queues : \A u \in Cancelling(r)' : cancelled'[r] \/ u \in overruled'
  BY <1>3, <1>4 DEF Flags
<1> QED BY <1>5, <1>6 DEF Flags, FlagsAreLowered

\* cancel() ends, and lowers the flag also for the other ones of the queue.
LEMMA FlagIsLowered ==
  ASSUME Typed, Stacks, Flags, NEW t \in Threads, NEW k \in DOMAIN stack[t], NEW q \in Queues,
         stack[t][k].at = "lower", stack[t][k].arg = q, Step(t, k, Outside),
         cancelled' = [cancelled EXCEPT ![q] = FALSE],
         overruled' = (overruled \cup Cancelling(q)) \ {t}
  PROVE  Flags'
<1>1. \A u \in Threads : \A i, r : Cancels(u, i, r)' <=> Cancels(u, i, r) /\ ~(u = t /\ i = k)
  <2>1. Outside.at \notin {"cancel", "lower"}
    BY DEF Outside, Frame
  <2> QED BY <2>1, CancelsAfter
<1>2. \A i, r : Cancels(t, i, r) => i = k /\ r = q
  BY DEF Cancels, Stacks
<1>3. \A r : \A u : u \in Cancelling(r)' <=> u \in Cancelling(r) /\ u # t
  BY <1>1, <1>2, CancellingIs, CancellingIsAfter
<1>4. \A r : t \in Cancelling(r) => r = q
  BY <1>2, CancellingIs
<1>5. \A r \in Queues : cancelled'[r] = (cancelled[r] /\ r # q)
  BY DEF Typed
<1>6. \A r \in Queues : cancelled'[r] => Cancelling(r)' # {}
  <2> SUFFICES ASSUME NEW r \in Queues, cancelled'[r] PROVE Cancelling(r)' # {}
    OBVIOUS
  <2>1. Cancelling(r) # {} /\ r # q
    BY <1>5 DEF Flags, FlagsAreLowered
  <2> QED BY <1>3, <1>4, <2>1
<1>7. \A r \in Queues : \A u \in Cancelling(r)' : cancelled'[r] \/ u \in overruled'
  <2> SUFFICES ASSUME NEW r \in Queues, NEW u \in Cancelling(r)'
               PROVE  cancelled'[r] \/ u \in overruled'
    OBVIOUS
  <2>1. u \in Cancelling(r) /\ u # t
    BY <1>3
  <2>2. CASE r = q
    BY <2>1, <2>2
  <2>3. CASE r # q
    BY <1>5, <2>1, <2>3 DEF Flags
  <2> QED BY <2>2, <2>3
<1> QED BY <1>6, <1>7 DEF Flags, FlagsAreLowered
-----------------------------------------------------------------------------
(***************************************************************************)
(* Destructors.                                                            *)
(***************************************************************************)
\* Nobody begins or ends to destroy a queue, nor to wait for one that is.
LEMMA DestroyedStays ==
  ASSUME Stacks, Stacks', Destroyed, NEW t \in Threads, NEW k, NEW f, Step(t, k, f),
         gone' = gone, \A q \in gone : counter'[q] = counter[q],
         f.at \in Awaiting =>
           f.at # "destroy" /\ (~Destroying(f.arg) \/ (Awaits(t, k, f.arg) /\ stack[t][k].at # "destroy"))
  PROVE  Destroyed'
<1>1. \A u \in Threads : \A i, q :
        Awaits(u, i, q)' => Awaits(u, i, q) \/ (u = t /\ i = k /\ f.at \in Awaiting /\ q = f.arg)
  BY AwaitsAfter
<1>2. Main \in Threads
  BY ThreadPoolAssumption DEF Threads
<1>3. ASSUME NEW i \in DOMAIN stack'[Main], stack'[Main][i].at = "destroy"
      PROVE  /\ i \in DOMAIN stack[Main] /\ stack'[Main][i] = stack[Main][i]
             /\ ~(Main = t /\ i = k)
  <2>1. Busy(stack'[Main][i])
    BY <1>3 DEF Busy, Awaiting
  <2>2. ~(Main = t /\ i = k)
    BY <1>3, <2>1 DEF Step, Awaiting
  <2> QED BY <1>2, <2>1, <2>2 DEF Step
<1>4. ASSUME NEW i \in DOMAIN stack[Main], stack[Main][i].at = "destroy"
      PROVE  stack[Main][i].arg \notin gone /\ Destroying(stack[Main][i].arg)
  <2>1. stack[Main][i] = Frame("destroy", stack[Main][i].arg)
    <3>1. stack[Main][i] \in FrameType
      BY <1>2 DEF Stacks
    <3> QED BY <1>4, <3>1 DEF FrameType, Frame
  <2> QED BY <1>4, <2>1 DEF Destroyed, Destroying, Frames
<1>5. ASSUME NEW q \in gone', NEW u \in Threads, NEW i \in DOMAIN stack'[u] PROVE ~Awaits(u, i, q)'
  <2>1. ~Awaits(u, i, q)
    BY <1>5 DEF Destroyed, Awaits
  <2>2. Awaits(t, k, q) => FALSE
    BY <1>5 DEF Destroyed, Awaits
  <2>3. Destroying(q)
    BY <1>5 DEF Destroying
  <2> QED BY <1>1, <2>1, <2>2, <2>3
<1>6. ASSUME NEW i \in DOMAIN stack'[Main], stack'[Main][i].at = "destroy",
             NEW u \in Threads, NEW j \in DOMAIN stack'[u],
             stack'[u][j].at \in Awaiting, stack'[u][j].arg = stack'[Main][i].arg
      PROVE  u = Main /\ j = i
  <2> DEFINE q == stack[Main][i].arg
  <2>1. i \in DOMAIN stack[Main] /\ stack[Main][i].at = "destroy" /\ stack'[Main][i].arg = q
        /\ ~(Main = t /\ i = k)
    BY <1>3, <1>6
  <2>2. Destroying(q)
    BY <1>4, <2>1
  <2>3. \A v \in Threads : \A l : Awaits(v, l, q) => v = Main /\ l = i
    BY <2>1 DEF Destroyed, Awaits
  <2>4. Awaits(u, j, q)'
    BY <1>6, <2>1 DEF Awaits
  <2> QED BY <1>1, <2>1, <2>2, <2>3, <2>4
<1>7. \A q \in gone' : counter'[q] = 0
  BY DEF Destroyed
<1>8. ASSUME NEW i \in DOMAIN stack'[Main], stack'[Main][i].at = "destroy"
      PROVE  stack'[Main][i].arg \notin gone'
  BY <1>3, <1>4, <1>8
<1> QED BY <1>5, <1>6, <1>7, <1>8 DEF Destroyed, Awaits

\* ~Concurrent_queue begins, when nobody waits for the queue.
LEMMA DestroyBegins ==
  ASSUME Stacks, Stacks', Destroyed, NEW k, NEW q, Step(Main, k, Frame("destroy", q)),
         ~Destroying(q), Unused(q), \A r : ~Awaits(Main, k, r), UNCHANGED <<gone, counter>>
  PROVE  Destroyed'
<1> DEFINE f == Frame("destroy", q)
<1>1. f.at = "destroy" /\ f.arg = q /\ Main \in Threads
  BY ThreadPoolAssumption DEF Frame, Threads
<1>2. k \in DOMAIN stack'[Main] /\ stack'[Main][k] = f
  BY <1>1 DEF Step, Busy, Awaiting
<1>3. \A u \in Threads : \A i, r :
        Awaits(u, i, r)' <=> Awaits(u, i, r) \/ (u = Main /\ i = k /\ r = q)
  BY <1>1, AwaitsAfter DEF Awaiting
<1> HIDE DEF f
<1>4. \A u \in Threads : \A i : ~Awaits(u, i, q)
  BY DEF Unused, InCall, Frames, Awaits
<1>5. q \notin gone
  BY DEF Destroying
<1>6. \A i \in DOMAIN stack'[Main] : stack'[Main][i].at = "destroy" => i = k
  BY <1>1, <1>2 DEF Stacks
<1>7. ASSUME NEW r \in gone', NEW u \in Threads, NEW i \in DOMAIN stack'[u] PROVE ~Awaits(u, i, r)'
  <2>1. ~Awaits(u, i, r)
    BY <1>7 DEF Destroyed, Awaits
  <2> QED BY <1>3, <1>5, <2>1
<1>8. ASSUME NEW i \in DOMAIN stack'[Main], stack'[Main][i].at = "destroy"
      PROVE  /\ stack'[Main][i].arg \notin gone'
             /\ \A u \in Threads : \A j \in DOMAIN stack'[u] :
                  stack'[u][j].at \in Awaiting /\ stack'[u][j].arg = stack'[Main][i].arg
                    => u = Main /\ j = i
  <2>1. i = k /\ stack'[Main][i].arg = q
    BY <1>1, <1>2, <1>6, <1>8
  <2>2. \A u \in Threads : \A j : Awaits(u, j, q)' => u = Main /\ j = i
    BY <1>3, <1>4, <2>1
  <2> QED BY <1>5, <2>1, <2>2 DEF Awaits
<1> QED BY <1>7, <1>8 DEF Destroyed, Awaits

\* ~Concurrent_queue ends, when the counter is down.
LEMMA DestroyEnds ==
  ASSUME Stacks, Stacks', Destroyed, NEW t \in Threads, NEW k \in DOMAIN stack[t], NEW q,
         stack[t][k].at = "destroy", stack[t][k].arg = q, Step(t, k, Outside),
         counter[q] = 0, UNCHANGED counter, gone' = gone \cup {q}
  PROVE  Destroyed'
<1>1. t = Main /\ Main \in Threads
  BY ThreadPoolAssumption DEF Stacks, Threads
<1>2. \A u \in Threads : \A i, r : Awaits(u, i, r)' <=> Awaits(u, i, r) /\ ~(u = t /\ i = k)
  <2>1. Outside.at \notin Awaiting
    BY DEF Outside, Frame, Awaiting
  <2> QED BY <2>1, AwaitsAfter
<1>3. \A u \in Threads : \A i : Awaits(u, i, q) => u = t /\ i = k
  BY <1>1 DEF Destroyed, Awaits
<1>4. \A i \in DOMAIN stack'[Main] : stack'[Main][i].at # "destroy"
  <2> SUFFICES ASSUME NEW i \in DOMAIN stack'[Main], stack'[Main][i].at = "destroy" PROVE FALSE
    OBVIOUS
  <2>1. i = 2 /\ k = 2
    BY <1>1 DEF Stacks
  <2>2. ~Busy(stack'[Main][i])
    BY <1>1, <2>1 DEF Step, Busy, Outside, Frame, Working, Awaiting
  <2> QED BY <2>2 DEF Busy, Awaiting
<1>5. ASSUME NEW r \in gone', NEW u \in Threads, NEW i \in DOMAIN stack'[u] PROVE ~Awaits(u, i, r)'
  <2>1. CASE r = q
    BY <1>2, <1>3, <2>1
  <2>2. CASE r \in gone
    <3>1. ~Awaits(u, i, r)
      BY <2>2 DEF Destroyed, Awaits
    <3> QED BY <1>2, <3>1
  <2> QED BY <1>5, <2>1, <2>2
<1>6. \A r \in gone' : counter'[r] = 0
  BY DEF Destroyed
<1> QED BY <1>4, <1>5, <1>6 DEF Destroyed

\* t is in the pool, or may still call it.
Live(t) ==
  \/ Top(t).at \in Upper
  \/ t \in Clients /\ ~Closing
  \/ t \in Workers /\ Top(t).at # "gone"

LEMMA ClosingIs ==
  Stacks => (Closing <=> stack[Main][1].at \in {"notify_all", "joining", "gone"})
<1> SUFFICES ASSUME Stacks
             PROVE  Closing <=> stack[Main][1].at \in {"notify_all", "joining", "gone"}
  OBVIOUS
<1>1. Main \in Threads
  BY ThreadPoolAssumption DEF Threads
<1>2. 1 \in DOMAIN stack[Main]
  BY <1>1, TopOfStack
<1>3. \A i \in DOMAIN stack[Main] : i # 1 => stack[Main][i].at \in Upper
  BY <1>1 DEF Stacks
<1>4. \A i \in DOMAIN stack[Main] :
        stack[Main][i].at \in {"notify_all", "joining", "gone"} => i = 1
  BY <1>3 DEF Upper, Working, Awaiting
<1> QED BY <1>2, <1>4 DEF Closing, Frames

LEMMA ClosingIsAfter ==
  (Stacks => (Closing <=> stack[Main][1].at \in {"notify_all", "joining", "gone"}))'
BY ClosingIs, PTL

\* ~Thread_pool has come to its end.
LEMMA GoneIsClosing ==
  Stacks => (IsAt(Main, "gone") => Closing)
<1>1. Main \in Threads
  BY ThreadPoolAssumption DEF Threads
<1> QED BY <1>1, TopOfStack DEF Closing, IsAt

LEMMA GoneIsClosingAfter ==
  (Stacks => (IsAt(Main, "gone") => Closing))'
BY GoneIsClosing, PTL

\* The destructor of the pool goes on only by itself.
LEMMA ClosedStays ==
  ASSUME Stacks, Stacks', Closed, NEW t \in Threads, Live(t), OthersStay(t),
         t \in Clients => stack'[t][1] = stack[t][1]
  PROVE  Closed'
<1>1. /\ Main \in Clients /\ Main \notin Workers /\ Main \in Threads
      /\ Clients \cap Workers = {} /\ Clients \subseteq Threads /\ Workers \subseteq Threads
  BY ThreadPoolAssumption DEF Threads
<1>2. CASE t \in Clients
  <2>1. ~Closing
    <3>1. CASE Top(t).at \in Upper
      <4>1. Len(stack[t]) # 1
        BY <3>1, MoreThanOne
      <4>2. stack[t] # <<Outside>>
        <5>1. Len(<<Outside>>) = 1
          OBVIOUS
        <5> QED BY <4>1, <5>1, Zenon
      <4> QED BY <1>2, <4>1, <4>2 DEF Closed
    <3> QED BY <1>1, <1>2, <3>1 DEF Live
  <2>2. stack'[Main][1] = stack[Main][1]
    <3>1. CASE t = Main
      BY <1>2, <3>1
    <3>2. CASE t # Main
      BY <1>1, <3>2 DEF OthersStay
    <3> QED BY <3>1, <3>2
  <2>3. ~Closing'
    BY <2>1, <2>2, ClosingIs, ClosingIsAfter
  <2> QED BY <2>3, GoneIsClosingAfter DEF Closed
<1>3. CASE t \in Workers
  <2>1. \A c \in Clients : stack'[c] = stack[c]
    BY <1>1, <1>3 DEF OthersStay
  <2>2. Closing' <=> Closing
    BY <1>1, <2>1, ClosingIs, ClosingIsAfter
  <2>3. IsAt(Main, "gone")' <=> IsAt(Main, "gone")
    BY <1>1, <2>1 DEF IsAt, Top
  <2>4. ~IsAt(Main, "gone")
    <3> SUFFICES ASSUME IsAt(Main, "gone") PROVE FALSE
      OBVIOUS
    <3>1. stack[t] = <<Frame("gone", 0)>>
      BY <1>3 DEF Closed
    <3>2. Top(t).at = "gone"
      BY <3>1 DEF Top, Last, Frame
    <3> QED BY <1>1, <1>3, <3>2 DEF Live, Upper, Working, Awaiting
  <2> QED BY <1>1, <2>1, <2>2, <2>3, <2>4 DEF Closed
<1> QED BY <1>2, <1>3 DEF Threads
-----------------------------------------------------------------------------
(***************************************************************************)
(* The three things a step does to the stack of t, with what they leave    *)
(* alone.                                                                  *)
(***************************************************************************)
LEMMA PoolCalls ==
  ASSUME Stacks, Closed, NEW t \in Threads, Live(t),
         NEW at \in Upper, NEW arg \in Queues \cup Nat,
         Call(t, at, arg), FrameIn(Frame(at, arg), DOMAIN queueOf'),
         DOMAIN queueOf \subseteq DOMAIN queueOf',
         at \in {"cancel", "lower", "destroy"} => Len(stack[t]) = 1,
         at = "destroy" => t = Main
  PROVE  /\ Stacks' /\ Closed' /\ Step(t, Len(stack[t]) + 1, Frame(at, arg))
         /\ \A x : /\ ~Works(t, Len(stack[t]) + 1, x) /\ ~Cancels(t, Len(stack[t]) + 1, x)
                   /\ ~Awaits(t, Len(stack[t]) + 1, x)
<1>1. /\ Stacks' /\ OthersStay(t) /\ Step(t, Len(stack[t]) + 1, Frame(at, arg))
      /\ \A i \in DOMAIN stack[t] : i \in DOMAIN stack'[t] /\ stack'[t][i] = stack[t][i]
  BY StackCalls
<1>2. stack[t] \in Seq(FrameType) /\ Len(stack[t]) \in Nat /\ Len(stack[t]) >= 1
  BY TopOfStack
<1>3. 1 \in DOMAIN stack[t] /\ Len(stack[t]) + 1 \notin DOMAIN stack[t]
  BY <1>2
<1>4. Closed'
  BY <1>1, <1>3, ClosedStays
<1> QED BY <1>1, <1>3, <1>4 DEF Works, Cancels, Awaits

LEMMA TopIs ==
  ASSUME Stacks, NEW t \in Threads
  PROVE  /\ Len(stack[t]) \in DOMAIN stack[t] /\ stack[t][Len(stack[t])] = Top(t)
         /\ \A x : /\ Works(t, Len(stack[t]), x) <=> Top(t).at \in Working /\ Top(t).arg = x
                   /\ Awaits(t, Len(stack[t]), x) <=> Top(t).at \in Awaiting /\ Top(t).arg = x
                   /\ Cancels(t, Len(stack[t]), x) <=>
                        Top(t).at \in {"cancel", "lower"} /\ Top(t).arg = x
BY TopOfStack DEF Works, Awaits, Cancels

LEMMA PoolGoes ==
  ASSUME Stacks, Closed, NEW t \in Threads, NEW at \in Upper, NEW arg \in Queues \cup Nat,
         Go(t, at, arg), FrameIn(Frame(at, arg), DOMAIN queueOf), queueOf' = queueOf,
         Top(t).at \in Upper,
         at \in {"cancel", "lower", "destroy"} => Top(t).at \in {"cancel", "lower"},
         at # "destroy"
  PROVE  Stacks' /\ Closed' /\ Step(t, Len(stack[t]), Frame(at, arg))
<1>1. /\ Stacks' /\ OthersStay(t) /\ Step(t, Len(stack[t]), Frame(at, arg))
      /\ DOMAIN stack'[t] = DOMAIN stack[t]
      /\ \A i \in DOMAIN stack[t] \ {Len(stack[t])} : stack'[t][i] = stack[t][i]
  BY StackGoes
<1>3. stack'[t][1] = stack[t][1]
  <2>1. 1 \in DOMAIN stack[t] /\ 1 # Len(stack[t])
    BY MoreThanOne
  <2> QED BY <1>1, <2>1
<1>4. Closed'
  BY <1>1, <1>3, ClosedStays DEF Live
<1> QED BY <1>1, <1>4

LEMMA PoolReturns ==
  ASSUME Stacks, Closed, NEW t \in Threads, ReturnNotifying(t) \/ Return(t),
         queueOf' = queueOf, Top(t).at \in Upper
  PROVE  Stacks' /\ Closed' /\ Step(t, Len(stack[t]), Outside)
<1>1. /\ Stacks' /\ OthersStay(t) /\ Step(t, Len(stack[t]), Outside)
      /\ \A i \in DOMAIN stack'[t] : i \in DOMAIN stack[t] /\ stack'[t][i] = stack[t][i]
  BY StackReturns
<1>2. 1 \in DOMAIN stack'[t]
  <2>1. stack'[t] \in Seq(FrameType) /\ stack'[t] # <<>>
    BY <1>1 DEF Stacks
  <2> QED BY <2>1
<1>3. Closed'
  BY <1>1, <1>2, ClosedStays DEF Live
<1> QED BY <1>1, <1>3
-----------------------------------------------------------------------------
(***************************************************************************)
(* Every step keeps the invariant.                                         *)
(***************************************************************************)
\* A step of a thread that has no task in its innermost call and is not in cancel().
LEMMA NothingMoves ==
  ASSUME IInv, Stacks', NEW t \in Threads, NEW k, NEW f, Step(t, k, f), ~Busy(f),
         \A x : ~Works(t, k, x) /\ ~Cancels(t, k, x),
         UNCHANGED <<tasks, counter, cancelled, gone, queueOf, ran, dropped, overruled>>,
         stop' \in BOOLEAN, calls' \in 0 .. MaxCalls
  PROVE  Typed' /\ Placed' /\ CounterCounts' /\ Flags' /\ Destroyed'
<1>1. Typed'
  BY DEF IInv, Typed
<1>2. f.at \notin Working /\ f.at \notin Awaiting /\ f.at \notin {"cancel", "lower", "count"}
  BY DEF Busy, Working, Awaiting
<1>3. Placed' /\ CounterCounts'
  <2>1. f.at \notin {"push", "taken", "run"}
    BY <1>2 DEF Working
  <2>2. ran' \cap dropped' = {} /\ ran \subseteq ran' /\ dropped \subseteq dropped'
        /\ \A x \in ran' \cup dropped' : x \in ran \cup dropped
    BY DEF IInv, Placed
  <2> QED BY <1>2, <2>1, <2>2, TasksStay DEF IInv
<1>4. Flags'
  BY <1>2, FlagsStay DEF IInv
<1>5. Destroyed'
  BY <1>2, DestroyedStays DEF IInv
<1> QED BY <1>1, <1>3, <1>4, <1>5

LEMMA BottomIdle ==
  ASSUME Stacks, NEW t \in Threads
  PROVE  \A x : ~Works(t, 1, x) /\ ~Cancels(t, 1, x) /\ ~Awaits(t, 1, x)
BY DEF Stacks, Works, Cancels, Awaits, Bottom, Working, Awaiting, WorkerPlaces, MainPlaces

LEMMA EnqueueKeeps ==
  ASSUME IInv, NEW t \in Threads, NEW q \in Queues, Live(t), q \notin gone, Enqueue(t, q)
  PROVE  IInv'
<1> DEFINE k == Len(stack[t]) + 1
           new == Len(queueOf) + 1
<1>1. /\ new \in Nat /\ Len(queueOf) \in Nat /\ Len(queueOf') = Len(queueOf) + 1
      /\ DOMAIN queueOf \subseteq DOMAIN queueOf' /\ new \in DOMAIN queueOf'
      /\ queueOf' \in Seq(Queues)
  BY DEF IInv, Typed, Enqueue
<1>2. FrameIn(Frame("push", new), DOMAIN queueOf')
  BY <1>1 DEF FrameIn, Frame, Working
<1>3. /\ Stacks' /\ Closed' /\ Step(t, k, Frame("push", new))
      /\ \A x : ~Works(t, k, x) /\ ~Cancels(t, k, x) /\ ~Awaits(t, k, x)
  <2>1. "push" \in Upper /\ Call(t, "push", new) /\ new \in Queues \cup Nat
    BY <1>1 DEF Upper, Working, Enqueue
  <2> QED BY <1>1, <1>2, <2>1, PoolCalls DEF IInv
<1>4. Placed' /\ CounterCounts'
  BY <1>3, TaskAppears DEF IInv, Enqueue
<1>5. Typed'
  <2>1. Len(queueOf') <= MaxTasks
    BY <1>1, ThreadPoolAssumption DEF Enqueue
  <2>2. counter' \in [Queues -> Int]
    BY DEF IInv, Typed, Enqueue
  <2>3. tasks' \in [0 .. Lowest -> SUBSET DOMAIN queueOf']
    BY <1>1 DEF IInv, Typed, Enqueue
  <2>4. ran' \subseteq DOMAIN queueOf' /\ dropped' \subseteq DOMAIN queueOf'
    BY <1>1 DEF IInv, Typed, Enqueue
  <2> QED BY <1>1, <2>1, <2>2, <2>3, <2>4 DEF IInv, Typed, Enqueue
<1>6. Frame("push", new).at \notin Awaiting /\ Frame("push", new).at \notin {"cancel", "lower"}
  BY DEF Frame, Awaiting
<1>7. Flags'
  BY <1>3, <1>6, FlagsStay DEF IInv, Enqueue
<1>8. Destroyed'
  <2>1. \A r \in gone : counter'[r] = counter[r]
    BY DEF IInv, Typed, Enqueue
  <2>2. gone' = gone
    BY DEF Enqueue
  <2> QED BY <1>3, <1>6, <2>1, <2>2, DestroyedStays DEF IInv
<1> QED BY <1>3, <1>4, <1>5, <1>7, <1>8 DEF IInv

LEMMA PushKeeps ==
  ASSUME IInv, NEW t \in Threads, Push(t)
  PROVE  IInv'
<1> DEFINE k == Len(stack[t])
           x == Top(t).arg
<1>1. Top(t).at = "push" /\ Top(t).at \in Upper /\ Top(t).at \in Working
  BY DEF Push, IsAt, Upper, Working
<1>2. /\ k \in DOMAIN stack[t] /\ stack[t][k] = Top(t) /\ Works(t, k, x)
      /\ \A y : ~Cancels(t, k, y) /\ ~Awaits(t, k, y)
  BY <1>1, TopIs DEF IInv, Awaiting
<1>3. Stacks' /\ Closed' /\ Step(t, k, Outside)
  BY <1>1, PoolReturns DEF IInv, Push, history
<1>4. stack[t][k] = Frame("push", x)
  <2>1. Top(t) \in FrameType
    BY TopOfStack DEF IInv
  <2> QED BY <1>1, <1>2, <2>1 DEF FrameType, Frame
<1>5. /\ tasks' = [tasks EXCEPT ![PriorityOf[queueOf[x]]] = @ \cup {x}]
      /\ UNCHANGED <<counter, cancelled, stop, gone, queueOf, ran, dropped, overruled, calls>>
  BY DEF Push, history
<1>6. Placed' /\ CounterCounts'
  BY <1>2, <1>3, <1>4, <1>5, TaskPushed DEF IInv
<1>7. Typed'
  <2>1. x \in DOMAIN queueOf
    BY <1>2, OpenIsFinite DEF IInv
  <2>2. tasks' \in [0 .. Lowest -> SUBSET DOMAIN queueOf]
    BY <1>5, <2>1 DEF IInv, Typed
  <2> QED BY <1>5, <2>2 DEF IInv, Typed
<1>8. Outside.at \notin Awaiting /\ Outside.at \notin {"cancel", "lower"}
  BY DEF Outside, Frame, Awaiting
<1>9. Flags'
  BY <1>2, <1>3, <1>5, <1>8, FlagsStay DEF IInv
<1>10. Destroyed'
  BY <1>3, <1>5, <1>8, DestroyedStays DEF IInv
<1> QED BY <1>3, <1>6, <1>7, <1>9, <1>10 DEF IInv

LEMMA CountOffKeeps ==
  ASSUME IInv, NEW t \in Threads, CountOff(t)
  PROVE  IInv'
<1> DEFINE k == Len(stack[t])
           x == Top(t).arg
<1>1. Top(t).at = "count" /\ Top(t).at \in Upper /\ Top(t).at \in Working
  BY DEF CountOff, IsAt, Upper, Working
<1>2. /\ k \in DOMAIN stack[t] /\ stack[t][k] = Top(t) /\ Works(t, k, x)
      /\ \A y : ~Cancels(t, k, y) /\ ~Awaits(t, k, y)
  BY <1>1, TopIs DEF IInv, Awaiting
<1>3. Stacks' /\ Closed' /\ Step(t, k, Outside)
  BY <1>1, PoolReturns DEF IInv, CountOff, history
<1>4. stack[t][k] = Frame("count", x)
  <2>1. Top(t) \in FrameType
    BY TopOfStack DEF IInv
  <2> QED BY <1>1, <1>2, <2>1 DEF FrameType, Frame
<1>5. /\ counter' = [counter EXCEPT ![queueOf[x]] = @ - 1]
      /\ UNCHANGED <<tasks, cancelled, stop, gone, queueOf, ran, dropped, overruled, calls>>
  BY DEF CountOff, history
<1>6. Placed' /\ CounterCounts'
  BY <1>2, <1>3, <1>4, <1>5, TaskCounted DEF IInv
<1>7. Typed'
  <2>1. counter[queueOf[x]] \in Int
    BY <1>2, HandIsCounted, TasksInHand DEF IInv, Typed
  <2>2. counter[queueOf[x]] - 1 \in Int
    BY <2>1
  <2>3. counter' \in [Queues -> Int]
    BY <1>5, <2>2 DEF IInv, Typed
  <2> QED BY <1>5, <2>3 DEF IInv, Typed
<1>8. Outside.at \notin Awaiting /\ Outside.at \notin {"cancel", "lower"}
  BY DEF Outside, Frame, Awaiting
<1>9. Flags'
  BY <1>2, <1>3, <1>5, <1>8, FlagsStay DEF IInv
<1>10. Destroyed'
  <2>1. queueOf[x] \notin gone
    <3>1. counter[queueOf[x]] > 0
      BY <1>2, HandIsCounted, TasksInHand DEF IInv
    <3> QED BY <3>1 DEF IInv, Destroyed
  <2>2. \A q \in gone : counter'[q] = counter[q]
    BY <1>5, <2>1 DEF IInv, Typed
  <2> QED BY <1>3, <1>5, <1>8, <2>2, DestroyedStays DEF IInv
<1> QED BY <1>3, <1>6, <1>7, <1>9, <1>10 DEF IInv

LEMMA TakeKeeps ==
  ASSUME IInv, NEW t \in Threads, Take(t)
  PROVE  IInv'
<1> DEFINE k == Len(stack[t])
           p == Top(t).arg
<1>1. Top(t).at = "scan" /\ Top(t).at \in Upper /\ Top(t).at \notin Working
      /\ Top(t).at \notin {"cancel", "lower"}
  BY DEF Take, IsAt, Upper, Working
<1>2. p \in 0 .. Lowest
  <2>1. FrameIn(Top(t), DOMAIN queueOf)
    BY TopOfStack DEF IInv
  <2> QED BY <1>1, <2>1 DEF FrameIn, WorkerPlaces, MainPlaces, Working, Awaiting
<1>3. PICK x \in tasks[p] : tasks' = [tasks EXCEPT ![p] = @ \ {x}] /\ Go(t, "taken", x)
  BY DEF Take
<1>4. UNCHANGED <<counter, cancelled, stop, gone, queueOf, ran, dropped, overruled, calls>>
  BY DEF Take, history
<1>5. x \in DOMAIN queueOf /\ x \in Nat
  BY <1>2 DEF IInv, Typed
<1>6. \A y : ~Works(t, k, y) /\ ~Cancels(t, k, y)
  BY <1>1, TopIs DEF IInv
<1>7. Stacks' /\ Closed' /\ Step(t, k, Frame("taken", x))
  <2>1. FrameIn(Frame("taken", x), DOMAIN queueOf) /\ "taken" \in Upper
    BY <1>5 DEF FrameIn, Frame, Working, Upper
  <2> QED BY <1>1, <1>3, <1>4, <1>5, <2>1, PoolGoes DEF IInv
<1>8. Placed' /\ CounterCounts'
  BY <1>2, <1>3, <1>4, <1>6, <1>7, TaskTaken DEF IInv
<1>9. Typed'
  <2>1. tasks' \in [0 .. Lowest -> SUBSET DOMAIN queueOf]
    BY <1>3 DEF IInv, Typed
  <2> QED BY <1>4, <2>1 DEF IInv, Typed
<1>10. Frame("taken", x).at \notin Awaiting /\ Frame("taken", x).at \notin {"cancel", "lower"}
  BY DEF Frame, Awaiting
<1>11. Flags'
  BY <1>4, <1>6, <1>7, <1>10, FlagsStay DEF IInv
<1>12. Destroyed'
  BY <1>4, <1>7, <1>10, DestroyedStays DEF IInv
<1> QED BY <1>7, <1>8, <1>9, <1>11, <1>12 DEF IInv

\* Nothing is left at the last priority: the loop of thread() looks at the clock,
\* who helps or steals returns.
LEMMA LastMissReturns ==
  ASSUME Stacks, Closed, NEW t \in Threads, Top(t).at = "scan", queueOf' = queueOf,
         stack' = [stack EXCEPT ![t] = Missed(Front(@))]
  PROVE  /\ Stacks' /\ Closed'
         /\ \E k \in {1, Len(stack[t])} : Step(t, k, Outside)
<1> DEFINE s == stack[t]
           n == Len(s)
<1>1. Top(t).at \in Upper /\ ~Busy(Top(t))
  BY DEF Upper, Busy, Working, Awaiting
<1>2. s \in Seq(FrameType) /\ n \in Nat /\ n > 1 /\ Top(t) = s[n]
  BY <1>1, TopOfStack
<1>3. CASE Last(Front(s)) = Loop
  <2>1. Front(s) \in Seq(FrameType) /\ Len(Front(s)) = n - 1
        /\ \A i \in 1 .. n - 1 : Front(s)[i] = s[i]
    BY <1>2 DEF Front
  <2>2. Last(Front(s)) = s[n - 1]
    <3>1. n - 1 \in 1 .. n - 1
      BY <1>2
    <3> QED BY <2>1, <3>1 DEF Last
  <2>3. n - 1 \in DOMAIN s
    BY <1>2
  <2>4. s[n - 1].at = "loop"
    BY <1>3, <2>2 DEF Loop, Frame
  <2>5. n - 1 = 1 /\ "loop" \in Bottom(t)
    <3>1. s[n - 1].at \notin Upper
      BY <2>4 DEF Upper, Working, Awaiting
    <3>2. n - 1 = 1
      BY <2>3, <3>1 DEF Stacks
    <3> QED BY <2>3, <2>4, <3>2 DEF Stacks
  <2>6. t \in Workers
    BY <2>5 DEF Bottom, MainPlaces
  <2>7. Front(Front(s)) = <<>>
    <3>1. Len(Front(s)) = 1
      BY <2>1, <2>5
    <3>2. \A u \in Seq(FrameType) : Len(u) = 1 => Front(u) = <<>>
      BY DEF Front
    <3> QED BY <2>1, <3>1, <3>2, Zenon
  <2>8. stack'[t] = <<Frame("rest", 0)>>
    <3>1. Missed(Front(s)) = Append(Front(Front(s)), Frame("rest", 0))
      BY <1>3 DEF Missed
    <3>2. Append(<<>>, Frame("rest", 0)) = <<Frame("rest", 0)>>
      OBVIOUS
    <3> QED BY <2>7, <3>1, <3>2 DEF Stacks
  <2>9. Resets(t)
    <3>1. "rest" \in Bottom(t)
      BY <2>6 DEF Bottom, WorkerPlaces
    <3>2. ASSUME NEW i \in DOMAIN s PROVE ~Busy(s[i])
      <4>1. i = n - 1 \/ i = n
        BY <1>2, <2>5
      <4>2. ~Busy(s[n - 1])
        BY <2>4 DEF Busy, Working, Awaiting
      <4> QED BY <1>1, <1>2, <4>1, <4>2
    <3> QED BY <2>8, <3>1, <3>2 DEF Resets
  <2>10. \A u \in Threads \ {t} : stack'[u] = stack[u]
    BY DEF Stacks
  <2>11. DOMAIN stack' = Threads /\ stack' = [u \in Threads |-> stack'[u]]
    BY DEF Stacks
  <2>12. Stacks' /\ Step(t, 1, Outside)
    BY <2>9, <2>10, <2>11, StackResets
  <2>13. Closed'
    <3>1. OthersStay(t) /\ t \notin Clients /\ Live(t)
      BY <1>1, <2>6, <2>10, ThreadPoolAssumption DEF OthersStay, Live
    <3> QED BY <2>12, <3>1, ClosedStays
  <2> QED BY <2>12, <2>13
<1>4. CASE Last(Front(s)) # Loop
  <2>1. Return(t)
    BY <1>4 DEF Missed, Return, Stacks
  <2> QED BY <1>1, <2>1, PoolReturns
<1> QED BY <1>3, <1>4

LEMMA MissKeeps ==
  ASSUME IInv, NEW t \in Threads, Miss(t)
  PROVE  IInv'
<1> DEFINE k == Len(stack[t])
           p == Top(t).arg
<1>1. Top(t).at = "scan" /\ Top(t).at \in Upper /\ Top(t).at \notin Working
      /\ Top(t).at \notin {"cancel", "lower"}
  BY DEF Miss, IsAt, Upper, Working
<1>2. p \in 0 .. Lowest
  <2>1. FrameIn(Top(t), DOMAIN queueOf)
    BY TopOfStack DEF IInv
  <2> QED BY <1>1, <2>1 DEF FrameIn, WorkerPlaces, MainPlaces, Working, Awaiting
<1>3. UNCHANGED <<tasks, counter, cancelled, stop, gone, queueOf, ran, dropped, overruled, calls>>
  BY DEF Miss, history
<1>4. stop' \in BOOLEAN /\ calls' \in 0 .. MaxCalls
  BY <1>3 DEF IInv, Typed
<1>5. /\ \A x : ~Works(t, k, x) /\ ~Cancels(t, k, x)
      /\ \A x : ~Works(t, 1, x) /\ ~Cancels(t, 1, x)
  BY <1>1, TopIs, BottomIdle DEF IInv
<1>6. CASE p < Lowest
  <2>1. /\ p + 1 \in 0 .. Lowest /\ p + 1 \in Nat /\ FrameIn(Frame("scan", p + 1), DOMAIN queueOf)
        /\ "scan" \in Upper /\ ~Busy(Frame("scan", p + 1))
    <3>1. p + 1 \in 0 .. Lowest /\ p + 1 \in Nat
      BY <1>2, <1>6, ThreadPoolAssumption
    <3> QED BY <3>1 DEF FrameIn, Frame, Upper, Busy, Working, Awaiting
  <2>2. Stacks' /\ Closed' /\ Step(t, k, Frame("scan", p + 1))
    BY <1>1, <1>3, <1>6, <2>1, PoolGoes DEF IInv, Miss
  <2>3. Typed' /\ Placed' /\ CounterCounts' /\ Flags' /\ Destroyed'
    BY <1>3, <1>4, <1>5, <2>1, <2>2, NothingMoves
  <2> QED BY <2>2, <2>3 DEF IInv
<1>7. CASE ~(p < Lowest)
  <2>1. /\ Stacks' /\ Closed'
        /\ \E j \in {1, k} : Step(t, j, Outside)
    BY <1>1, <1>3, <1>7, LastMissReturns DEF IInv, Miss
  <2>2. ~Busy(Outside)
    BY DEF Busy, Outside, Frame, Working, Awaiting
  <2>3. Typed' /\ Placed' /\ CounterCounts' /\ Flags' /\ Destroyed'
    BY <1>3, <1>4, <1>5, <2>1, <2>2, NothingMoves
  <2> QED BY <2>1, <2>3 DEF IInv
<1> QED BY <1>6, <1>7

\* A task in hand goes on.
LEMMA TaskGoes ==
  ASSUME IInv, NEW t \in Threads, NEW at \in {"run", "count"}, Go(t, at, Top(t).arg),
         Top(t).at \in {"taken", "run"},
         ran \subseteq ran', dropped \subseteq dropped', ran' \cap dropped' = {},
         \A x \in ran' \cup dropped' : x \in ran \cup dropped \/ (at = "count" /\ x = Top(t).arg),
         at = "run" => Top(t).arg \notin ran' \cup dropped',
         at = "count" => Top(t).arg \in ran' \cup dropped',
         UNCHANGED <<tasks, counter, cancelled, stop, gone, queueOf, overruled, calls>>
  PROVE  IInv'
<1> DEFINE k == Len(stack[t])
           x == Top(t).arg
           f == Frame(at, x)
<1>1. Top(t).at \in Upper /\ Top(t).at \in Working /\ Top(t).at \notin {"cancel", "lower"}
      /\ at \in Upper /\ at \in Working
  BY DEF Upper, Working
<1>2. x \in DOMAIN queueOf /\ x \in Nat
  <2>1. FrameIn(Top(t), DOMAIN queueOf)
    BY TopOfStack DEF IInv
  <2>2. x \in DOMAIN queueOf
    BY <1>1, <2>1 DEF FrameIn, WorkerPlaces, MainPlaces, Working, Awaiting
  <2> QED BY <2>2 DEF IInv, Typed
<1>3. f.at = at /\ f.arg = x
  BY DEF Frame
<1>4. f.at \notin Awaiting /\ f.at \notin {"cancel", "lower"}
  BY <1>3 DEF Awaiting
<1>5. /\ \A y : Works(t, k, y) <=> f.at \in Working /\ f.arg = y
      /\ \A y : ~Cancels(t, k, y)
  BY <1>1, <1>3, TopIs DEF IInv
<1>6. Stacks' /\ Closed' /\ Step(t, k, f)
  <2>1. FrameIn(Frame(at, x), DOMAIN queueOf)
    BY <1>1, <1>2 DEF FrameIn, Frame
  <2> QED BY <1>1, <1>2, <2>1, PoolGoes DEF IInv
<1> HIDE DEF f
<1>7. Placed' /\ CounterCounts'
  BY <1>3, <1>5, <1>6, TasksStay DEF IInv
<1>8. Typed'
  <2>1. ran' \subseteq DOMAIN queueOf /\ dropped' \subseteq DOMAIN queueOf
    BY <1>2 DEF IInv, Typed
  <2> QED BY <2>1 DEF IInv, Typed
<1>9. Flags'
  BY <1>4, <1>5, <1>6, FlagsStay DEF IInv
<1>10. Destroyed'
  BY <1>4, <1>6, DestroyedStays DEF IInv
<1> QED BY <1>6, <1>7, <1>8, <1>9, <1>10 DEF IInv

LEMMA TaskInHandIsOpen ==
  ASSUME IInv, NEW t \in Threads, Top(t).at \in {"taken", "run"}
  PROVE  Top(t).arg \notin ran \cup dropped /\ ran \cap dropped = {}
BY TopIs DEF IInv, Placed

LEMMA ProcessKeeps ==
  ASSUME IInv, NEW t \in Threads, Process(t)
  PROVE  IInv'
<1>1. CASE Take(t)
  BY <1>1, TakeKeeps
<1>2. CASE Miss(t)
  BY <1>2, MissKeeps
<1>3. CASE Start(t)
  <2>1. Top(t).at = "taken"
    BY <1>3 DEF Start, IsAt
  <2>2. /\ Go(t, "run", Top(t).arg)
        /\ UNCHANGED <<tasks, counter, cancelled, stop, gone, queueOf, ran, dropped, overruled,
                       calls>>
    BY <1>3 DEF Start, history
  <2> QED BY <2>1, <2>2, TaskInHandIsOpen, TaskGoes
<1>4. CASE Drop(t)
  <2>1. Top(t).at = "taken"
    BY <1>4 DEF Drop, IsAt
  <2>2. /\ Go(t, "count", Top(t).arg) /\ dropped' = dropped \cup {Top(t).arg}
        /\ UNCHANGED <<tasks, counter, cancelled, stop, gone, queueOf, ran, overruled, calls>>
    BY <1>4 DEF Drop
  <2> QED BY <2>1, <2>2, TaskInHandIsOpen, TaskGoes
<1>5. CASE Finish(t)
  <2>1. Top(t).at = "run"
    BY <1>5 DEF Finish, IsAt
  <2>2. /\ Go(t, "count", Top(t).arg) /\ ran' = ran \cup {Top(t).arg}
        /\ UNCHANGED <<tasks, counter, cancelled, stop, gone, queueOf, dropped, overruled, calls>>
    BY <1>5 DEF Finish
  <2> QED BY <2>1, <2>2, TaskInHandIsOpen, TaskGoes
<1>6. CASE CountOff(t)
  BY <1>6, CountOffKeeps
<1> QED BY <1>1, <1>2, <1>3, <1>4, <1>5, <1>6 DEF Process

\* A helper, a thief or a worker begins to look for a task.
LEMMA ScanKeeps ==
  ASSUME IInv, NEW t \in Threads, Live(t), Call(t, "scan", 0),
         UNCHANGED <<tasks, counter, cancelled, stop, gone, queueOf, ran, dropped, overruled>>,
         calls' \in 0 .. MaxCalls
  PROVE  IInv'
<1>1. /\ FrameIn(Frame("scan", 0), DOMAIN queueOf') /\ "scan" \in Upper
      /\ ~Busy(Frame("scan", 0))
  BY ThreadPoolAssumption DEF FrameIn, Frame, Upper, Busy, Working, Awaiting
<1>2. /\ Stacks' /\ Closed' /\ Step(t, Len(stack[t]) + 1, Frame("scan", 0))
      /\ \A x : /\ ~Works(t, Len(stack[t]) + 1, x) /\ ~Cancels(t, Len(stack[t]) + 1, x)
  BY <1>1, PoolCalls DEF IInv
<1>3. stop' \in BOOLEAN
  BY DEF IInv, Typed
<1>4. Typed' /\ Placed' /\ CounterCounts' /\ Flags' /\ Destroyed'
  BY <1>1, <1>2, <1>3, NothingMoves
<1> QED BY <1>2, <1>4 DEF IInv

LEMMA OneMoreCall ==
  ASSUME Typed, calls < MaxCalls, calls' = calls + 1
  PROVE  calls' \in 0 .. MaxCalls
BY ThreadPoolAssumption DEF Typed

LEMMA StealKeeps ==
  ASSUME IInv, NEW t \in Threads, Live(t), Steal(t)
  PROVE  IInv'
<1>1. calls' \in 0 .. MaxCalls
  BY OneMoreCall DEF IInv, Steal
<1> QED BY <1>1, ScanKeeps DEF Steal

LEMMA WaitHelpsKeeps ==
  ASSUME IInv, NEW t \in Threads, WaitHelps(t)
  PROVE  IInv'
<1>1. Live(t)
  BY DEF WaitHelps, Live, Upper, Awaiting
<1>2. calls' \in 0 .. MaxCalls
  BY DEF IInv, Typed, WaitHelps, history
<1> QED BY <1>1, <1>2, ScanKeeps DEF WaitHelps, history

\* What a thread does by itself, with nothing on its stack but that.
LEMMA BottomKeeps ==
  ASSUME IInv, NEW t \in Threads, NEW at \in Bottom(t), Go(t, at, 0), Top(t).at \notin Upper,
         UNCHANGED <<tasks, counter, cancelled, gone, queueOf, ran, dropped, overruled, calls>>,
         stop' \in BOOLEAN
  PROVE  /\ Typed' /\ Placed' /\ CounterCounts' /\ Flags' /\ Destroyed' /\ Stacks'
         /\ OthersStay(t) /\ stack'[t] = <<Frame(at, 0)>>
         /\ \A u \in Threads \ {t} : stack'[u] = stack[u]
<1>1. /\ Stacks' /\ OthersStay(t) /\ Step(t, 1, Outside)
      /\ stack'[t] = <<Frame(at, 0)>> /\ \A u \in Threads \ {t} : stack'[u] = stack[u]
  BY BottomGoes DEF IInv
<1>2. ~Busy(Outside)
  BY DEF Busy, Outside, Frame, Working, Awaiting
<1>3. \A x : ~Works(t, 1, x) /\ ~Cancels(t, 1, x)
  BY BottomIdle DEF IInv
<1>4. calls' \in 0 .. MaxCalls
  BY DEF IInv, Typed
<1>5. Typed' /\ Placed' /\ CounterCounts' /\ Flags' /\ Destroyed'
  BY <1>1, <1>2, <1>3, <1>4, NothingMoves
<1> QED BY <1>1, <1>5

LEMMA WorkerRestsKeeps ==
  ASSUME IInv, NEW w \in Workers, WorkerRests(w)
  PROVE  IInv'
<1>1. /\ w \in Threads /\ w \notin Clients /\ Bottom(w) = WorkerPlaces
      /\ UNCHANGED <<tasks, counter, cancelled, stop, gone, queueOf, ran, dropped, overruled,
                     calls>>
  BY ThreadPoolAssumption
     DEF Threads, Bottom, WorkerRests, WorkerLoops, WorkerYields, WorkerSleeps, SleepEnds, history
<1>2. Top(w).at \in {"loop", "rest", "asleep"}
  BY DEF WorkerRests, WorkerLoops, WorkerYields, WorkerSleeps, SleepEnds, IsAt
<1>3. Top(w).at \notin Upper /\ Live(w)
  BY <1>2 DEF Upper, Working, Awaiting, Live
<1>4. stop' \in BOOLEAN /\ calls' \in 0 .. MaxCalls
  BY <1>1 DEF IInv, Typed
<1>5. CASE Call(w, "scan", 0)
  BY <1>1, <1>3, <1>4, <1>5, ScanKeeps
<1>6. ASSUME NEW at \in {"gone", "loop", "asleep"}, Go(w, at, 0) PROVE IInv'
  <2>1. at \in Bottom(w)
    BY <1>1 DEF WorkerPlaces
  <2>2. /\ Typed' /\ Placed' /\ CounterCounts' /\ Flags' /\ Destroyed' /\ Stacks'
        /\ OthersStay(w)
    BY <1>1, <1>3, <1>4, <1>6, <2>1, BottomKeeps
  <2>3. Closed'
    BY <1>1, <1>3, <2>2, ClosedStays DEF IInv
  <2> QED BY <2>2, <2>3 DEF IInv
<1>7. Call(w, "scan", 0) \/ \E at \in {"gone", "loop", "asleep"} : Go(w, at, 0)
  BY DEF WorkerRests, WorkerLoops, WorkerYields, WorkerSleeps, SleepEnds
<1> QED BY <1>5, <1>6, <1>7

\* A thread enters wait() or the destructor of a queue.
LEMMA WaitKeeps ==
  ASSUME IInv, NEW t \in Threads, NEW q \in Queues \ {Static}, Live(t), ~Destroying(q),
         Wait(t, q)
  PROVE  IInv'
<1> DEFINE k == Len(stack[t]) + 1
           f == Frame("wait", q)
<1>1. /\ FrameIn(f, DOMAIN queueOf) /\ "wait" \in Upper /\ f.at = "wait" /\ f.arg = q
      /\ f.at \notin Working /\ f.at \notin {"cancel", "lower"} /\ f.at # "destroy"
  BY DEF FrameIn, Frame, Upper, Awaiting, Working
<1>2. calls' \in 0 .. MaxCalls
  BY OneMoreCall DEF IInv, Wait
<1>3. /\ Call(t, "wait", q)
      /\ UNCHANGED <<tasks, counter, cancelled, stop, gone, queueOf, ran, dropped, overruled>>
  BY DEF Wait
<1>4. /\ Stacks' /\ Closed' /\ Step(t, k, f)
      /\ \A x : ~Works(t, k, x) /\ ~Cancels(t, k, x) /\ ~Awaits(t, k, x)
  BY <1>1, <1>3, PoolCalls DEF IInv
<1> HIDE DEF f, k
<1>5. Typed'
  BY <1>2, <1>3 DEF IInv, Typed
<1>6. Placed' /\ CounterCounts'
  <2>1. ran' \cap dropped' = {} /\ f.at \notin {"push", "taken", "run", "count"}
    BY <1>1, <1>3 DEF IInv, Placed
  <2> QED BY <1>1, <1>3, <1>4, <2>1, TasksStay DEF IInv
<1>7. Flags'
  BY <1>1, <1>3, <1>4, FlagsStay DEF IInv
<1>8. Destroyed'
  BY <1>1, <1>3, <1>4, DestroyedStays DEF IInv
<1> QED BY <1>4, <1>5, <1>6, <1>7, <1>8 DEF IInv

LEMMA CancelKeeps ==
  ASSUME IInv, NEW c \in Clients, NEW q \in Queues \ {Static}, IsAt(c, "outside"), ~Closing,
         ~Destroying(q), Cancel(c, q)
  PROVE  IInv'
<1> DEFINE k == Len(stack[c]) + 1
           f == Frame("cancel", q)
<1>1. /\ FrameIn(f, DOMAIN queueOf) /\ "cancel" \in Upper /\ f.at = "cancel" /\ f.arg = q
      /\ f.at \notin Working /\ f.at # "destroy"
  BY DEF FrameIn, Frame, Upper, Awaiting, Working
<1>2. calls' \in 0 .. MaxCalls
  BY OneMoreCall DEF IInv, Cancel
<1>3. /\ Call(c, "cancel", q) /\ cancelled' = [cancelled EXCEPT ![q] = TRUE]
      /\ UNCHANGED <<tasks, counter, stop, gone, queueOf, ran, dropped, overruled>>
  BY DEF Cancel
<1>4. c \in Threads /\ Live(c) /\ Len(stack[c]) = 1
  <2>1. c \in Threads /\ Top(c).at \notin Upper
    BY DEF Threads, IsAt, Upper, Working, Awaiting
  <2> QED BY <2>1, TopOfStack DEF IInv, Live
<1>5. /\ Stacks' /\ Closed' /\ Step(c, k, f)
      /\ \A x : ~Works(c, k, x) /\ ~Cancels(c, k, x) /\ ~Awaits(c, k, x)
  BY <1>1, <1>3, <1>4, PoolCalls DEF IInv
<1> HIDE DEF k
<1>6. Typed'
  BY <1>2, <1>3 DEF IInv, Typed
<1>7. Flags'
  BY <1>3, <1>4, <1>5, FlagIsRaised DEF IInv
<1> HIDE DEF f
<1>8. Placed' /\ CounterCounts'
  <2>1. ran' \cap dropped' = {} /\ f.at \notin {"push", "taken", "run", "count"}
    BY <1>1, <1>3 DEF IInv, Placed
  <2> QED BY <1>1, <1>3, <1>4, <1>5, <2>1, TasksStay DEF IInv
<1>9. Destroyed'
  BY <1>1, <1>3, <1>4, <1>5, DestroyedStays DEF IInv
<1> QED BY <1>5, <1>6, <1>7, <1>8, <1>9 DEF IInv

LEMMA DestroyQueueKeeps ==
  ASSUME IInv, NEW q \in Queues \ {Static}, DestroyQueue(q)
  PROVE  IInv'
<1> DEFINE k == Len(stack[Main]) + 1
           f == Frame("destroy", q)
<1>1. /\ FrameIn(f, DOMAIN queueOf) /\ "destroy" \in Upper /\ f.at = "destroy" /\ f.arg = q
      /\ f.at \notin Working
  BY DEF FrameIn, Frame, Upper, Awaiting, Working
<1>2. /\ Call(Main, "destroy", q) /\ ~Destroying(q) /\ Unused(q)
      /\ UNCHANGED <<tasks, counter, cancelled, stop, gone, queueOf, ran, dropped, overruled,
                     calls>>
  BY DEF DestroyQueue, history
<1>3. Main \in Threads /\ Main \in Clients /\ Len(stack[Main]) = 1 /\ ~Closing
  <2>1. Main \in Threads /\ Main \in Clients /\ Top(Main).at = "outside"
    BY ThreadPoolAssumption DEF Threads, DestroyQueue, IsAt
  <2>2. Top(Main).at \notin Upper
    BY <2>1 DEF Upper, Working, Awaiting
  <2>3. Len(stack[Main]) = 1 /\ Top(Main) = stack[Main][Len(stack[Main])]
    BY <2>1, <2>2, TopOfStack DEF IInv
  <2>4. ~Closing
    BY <2>1, <2>3, ClosingIs DEF IInv
  <2> QED BY <2>1, <2>3, <2>4
<1>4. Live(Main)
  BY <1>3 DEF Live
<1>5. /\ Stacks' /\ Closed' /\ Step(Main, k, f)
      /\ \A x : ~Works(Main, k, x) /\ ~Cancels(Main, k, x) /\ ~Awaits(Main, k, x)
  BY <1>1, <1>2, <1>3, <1>4, PoolCalls DEF IInv
<1> HIDE DEF k
<1>6. Typed'
  BY <1>2 DEF IInv, Typed
<1>7. Destroyed'
  BY <1>2, <1>5, DestroyBegins DEF IInv
<1> HIDE DEF f
<1>8. Placed' /\ CounterCounts'
  <2>1. ran' \cap dropped' = {} /\ f.at \notin {"push", "taken", "run", "count"}
    BY <1>1, <1>2 DEF IInv, Placed
  <2> QED BY <1>1, <1>2, <1>3, <1>5, <2>1, TasksStay DEF IInv
<1>9. Flags'
  BY <1>1, <1>2, <1>3, <1>5, FlagsStay DEF IInv
<1> QED BY <1>5, <1>6, <1>7, <1>8, <1>9 DEF IInv

\* The counter is never below 0.
LEMMA CounterIsNat ==
  ASSUME Typed, Stacks, CounterCounts, NEW q \in Queues
  PROVE  counter[q] \in Nat /\ (counter[q] = 0 => Open(q) = {})
<1>1. IsFiniteSet(Open(q)) /\ counter[q] = Cardinality(Open(q))
  BY OpenIsFinite DEF CounterCounts
<1> QED BY <1>1, FS_CardinalityType, FS_EmptySet

LEMMA WaitReturnsKeeps ==
  ASSUME IInv, NEW t \in Threads, WaitReturns(t)
  PROVE  IInv'
<1> DEFINE k == Len(stack[t])
           q == Top(t).arg
<1>1. /\ Top(t).at \in {"wait", "cancel", "destroy"} /\ Top(t).at \in Awaiting
      /\ Top(t).at \in Upper /\ Top(t).at \notin Working
  BY DEF WaitReturns, Upper, Awaiting, Working
<1>2. /\ k \in DOMAIN stack[t] /\ stack[t][k] = Top(t) /\ Awaits(t, k, q)
      /\ \A x : ~Works(t, k, x)
      /\ \A x : Cancels(t, k, x) <=> Top(t).at \in {"cancel", "lower"} /\ q = x
  BY <1>1, TopIs DEF IInv
<1>3. q \in Queues \ {Static}
  <2>1. FrameIn(Top(t), DOMAIN queueOf)
    BY TopOfStack DEF IInv
  <2> QED BY <1>1, <2>1 DEF FrameIn, WorkerPlaces, MainPlaces, Working
<1>4. /\ UNCHANGED <<tasks, counter, cancelled, stop, queueOf, ran, dropped, overruled, calls>>
      /\ counter[q] <= 0
      /\ gone' = gone \cup (IF Top(t).at = "destroy" THEN {q} ELSE {})
  BY DEF WaitReturns, history, IsAt
<1>5. ran' \cap dropped' = {}
  BY <1>4 DEF IInv, Placed
<1>6. CASE Top(t).at = "cancel"
  <2> DEFINE f == Frame("lower", q)
  <2>1. /\ f.at = "lower" /\ f.arg = q /\ f.at \notin Working /\ f.at # "destroy"
        /\ FrameIn(f, DOMAIN queueOf) /\ "lower" \in Upper
    BY <1>3 DEF Frame, FrameIn, Awaiting, Upper, Working
  <2>2. gone' = gone
    BY <1>4, <1>6
  <2>3. Stacks' /\ Closed' /\ Step(t, k, f)
    <3>1. Go(t, "lower", q)
      BY <1>6 DEF WaitReturns, IsAt
    <3> QED BY <1>1, <1>3, <1>4, <1>6, <2>1, <3>1, PoolGoes DEF IInv
  <2> HIDE DEF f, q, k
  <2>4. Placed' /\ CounterCounts'
    <3>1. f.at \notin {"push", "taken", "run", "count"}
      BY <2>1
    <3> QED BY <1>2, <1>4, <1>5, <2>1, <2>3, <3>1, TasksStay DEF IInv
  <2>5. Typed'
    BY <1>4, <2>2 DEF IInv, Typed
  <2>6. Flags'
    BY <1>2, <1>4, <1>6, <2>1, <2>3, FlagsStay DEF IInv
  <2>7. Destroyed'
    <3>1. stack[t][k].at # "destroy"
      BY <1>2, <1>6
    <3> QED BY <1>2, <1>4, <2>1, <2>2, <2>3, <3>1, DestroyedStays DEF IInv
  <2> QED BY <2>3, <2>4, <2>5, <2>6, <2>7 DEF IInv
<1>7. CASE Top(t).at # "cancel"
  <2>1. Stacks' /\ Closed' /\ Step(t, k, Outside)
    <3>1. Return(t)
      BY <1>7 DEF WaitReturns, IsAt
    <3> QED BY <1>1, <1>4, <3>1, PoolReturns DEF IInv
  <2>2. /\ Outside.at \notin Working /\ Outside.at \notin Awaiting
        /\ Outside.at \notin {"cancel", "lower"}
        /\ Outside.at \notin {"push", "taken", "run", "count"}
    BY DEF Outside, Frame, Working, Awaiting
  <2> HIDE DEF q, k
  <2>3. Placed' /\ CounterCounts'
    BY <1>2, <1>4, <1>5, <2>1, <2>2, TasksStay DEF IInv
  <2>4. Flags'
    BY <1>1, <1>2, <1>4, <1>7, <2>1, <2>2, FlagsStay DEF IInv
  <2>5. CASE Top(t).at = "destroy"
    <3>1. gone' = gone \cup {q} /\ counter[q] = 0
      <4>1. counter[q] \in Nat
        BY <1>3, CounterIsNat DEF IInv
      <4>2. counter[q] = 0
        BY <1>4, <4>1
      <4> QED BY <1>4, <2>5, <4>2
    <3>2. Destroyed'
      <4>1. stack[t][k].at = "destroy" /\ stack[t][k].arg = q
        BY <1>2, <2>5 DEF Awaits
      <4> QED BY <1>2, <1>4, <2>1, <3>1, <4>1, DestroyEnds DEF IInv
    <3>3. q # Static
      BY <1>3
    <3>4. Typed'
      BY <1>3, <1>4, <3>1, <3>3 DEF IInv, Typed
    <3> QED BY <2>1, <2>3, <2>4, <3>2, <3>4 DEF IInv
  <2>6. CASE Top(t).at # "destroy"
    <3>1. gone' = gone
      BY <1>4, <2>6
    <3>2. Typed'
      BY <1>4, <3>1 DEF IInv, Typed
    <3>3. Destroyed'
      BY <1>4, <2>1, <2>2, <3>1, DestroyedStays DEF IInv
    <3> QED BY <2>1, <2>3, <2>4, <3>2, <3>3 DEF IInv
  <2> QED BY <2>5, <2>6
<1> QED BY <1>6, <1>7

LEMMA LowerFlagKeeps ==
  ASSUME IInv, NEW t \in Threads, LowerFlag(t)
  PROVE  IInv'
<1> DEFINE k == Len(stack[t])
           q == Top(t).arg
<1>1. Top(t).at = "lower" /\ Top(t).at \in Upper /\ Top(t).at \in Awaiting
      /\ Top(t).at \notin Working
  BY DEF LowerFlag, IsAt, Upper, Awaiting, Working
<1>2. /\ k \in DOMAIN stack[t] /\ stack[t][k] = Top(t)
      /\ \A x : ~Works(t, k, x)
  BY <1>1, TopIs DEF IInv
<1>3. q \in Queues \ {Static}
  <2>1. FrameIn(Top(t), DOMAIN queueOf)
    BY TopOfStack DEF IInv
  <2> QED BY <1>1, <2>1 DEF FrameIn, WorkerPlaces, MainPlaces, Working
<1>4. /\ Return(t) /\ cancelled' = [cancelled EXCEPT ![q] = FALSE]
      /\ overruled' = (overruled \cup Cancelling(q)) \ {t}
      /\ UNCHANGED <<tasks, counter, stop, gone, queueOf, ran, dropped, calls>>
  BY DEF LowerFlag
<1>5. Stacks' /\ Closed' /\ Step(t, k, Outside)
  BY <1>1, <1>4, PoolReturns DEF IInv
<1>6. /\ Outside.at \notin Working /\ Outside.at \notin Awaiting
      /\ Outside.at \notin {"push", "taken", "run", "count"}
  BY DEF Outside, Frame, Working, Awaiting
<1> HIDE DEF q, k
<1>7. Typed'
  <2>1. Cancelling(q) \subseteq Threads
    BY DEF Cancelling
  <2> QED BY <1>4, <2>1 DEF IInv, Typed
<1>8. Placed' /\ CounterCounts'
  <2>1. ran' \cap dropped' = {}
    BY <1>4 DEF IInv, Placed
  <2> QED BY <1>2, <1>4, <1>5, <1>6, <2>1, TasksStay DEF IInv
<1>9. Flags'
  BY <1>1, <1>2, <1>3, <1>4, <1>5, FlagIsLowered DEF IInv, q
<1>10. Destroyed'
  BY <1>4, <1>5, <1>6, DestroyedStays DEF IInv
<1> QED BY <1>5, <1>7, <1>8, <1>9, <1>10 DEF IInv

LEMMA DestroyPoolKeeps ==
  ASSUME IInv, DestroyPool
  PROVE  IInv'
<1>1. /\ Main \in Threads /\ Main \in Clients /\ "notify_all" \in Bottom(Main)
      /\ Clients \subseteq Threads
  BY ThreadPoolAssumption DEF Threads, Bottom, MainPlaces
<1>2. /\ \A c \in Clients : Top(c).at = "outside"
      /\ Go(Main, "notify_all", 0) /\ stop' = TRUE
      /\ UNCHANGED <<tasks, counter, cancelled, gone, queueOf, ran, dropped, overruled, calls>>
  BY DEF DestroyPool, IsAt, history
<1>3. Top(Main).at \notin Upper
  BY <1>1, <1>2 DEF Upper, Working, Awaiting
<1>4. /\ Typed' /\ Placed' /\ CounterCounts' /\ Flags' /\ Destroyed' /\ Stacks'
      /\ stack'[Main] = <<Frame("notify_all", 0)>>
      /\ \A u \in Threads \ {Main} : stack'[u] = stack[u]
  BY <1>1, <1>2, <1>3, BottomKeeps
<1>5. ASSUME NEW c \in Clients PROVE stack[c] = <<Outside>>
  <2>1. Top(c).at = "outside" /\ Top(c).at \notin Upper /\ c \in Threads
    BY <1>1, <1>2 DEF Upper, Working, Awaiting
  <2>2. /\ Len(stack[c]) = 1 /\ stack[c] \in Seq(FrameType)
        /\ stack[c][1] = Top(c) /\ FrameIn(Top(c), DOMAIN queueOf)
    BY <2>1, TopOfStack DEF IInv
  <2>3. Top(c) = Outside
    <3>1. Top(c).arg = 0 /\ Top(c) \in FrameType
      BY <2>1, <2>2, TopOfStack DEF IInv, FrameIn, Working, Awaiting
    <3> QED BY <2>1, <3>1 DEF FrameType, Outside, Frame
  <2> QED BY <2>2, <2>3
<1>6. Closed'
  <2>1. Len(stack'[Main]) = 1
    BY <1>4
  <2>2. \A c \in Clients \ {Main} : stack'[c] = <<Outside>>
    BY <1>1, <1>4, <1>5
  <2>3. ~IsAt(Main, "gone")'
    BY <1>4 DEF IsAt, Top, Last, Frame
  <2> QED BY <2>1, <2>2, <2>3 DEF Closed
<1> QED BY <1>4, <1>6 DEF IInv

LEMMA JoinKeeps ==
  ASSUME IInv, Join
  PROVE  IInv'
<1>1. /\ Main \in Threads /\ Main \in Clients /\ "gone" \in Bottom(Main)
      /\ Clients \subseteq Threads /\ Workers \subseteq Threads /\ Main \notin Workers
  BY ThreadPoolAssumption DEF Threads, Bottom, MainPlaces
<1>2. /\ Top(Main).at = "joining" /\ \A w \in Workers : Top(w).at = "gone"
      /\ Go(Main, "gone", 0) /\ stop' \in BOOLEAN
      /\ UNCHANGED <<tasks, counter, cancelled, gone, queueOf, ran, dropped, overruled, calls>>
  BY DEF Join, IsAt, history, IInv, Typed
<1>3. Top(Main).at \notin Upper
  BY <1>2 DEF Upper, Working, Awaiting
<1>4. /\ Typed' /\ Placed' /\ CounterCounts' /\ Flags' /\ Destroyed' /\ Stacks'
      /\ stack'[Main] = <<Frame("gone", 0)>>
      /\ \A u \in Threads \ {Main} : stack'[u] = stack[u]
  BY <1>1, <1>2, <1>3, BottomKeeps
<1>5. ASSUME NEW w \in Workers PROVE stack[w] = <<Frame("gone", 0)>>
  <2>1. Top(w).at = "gone" /\ Top(w).at \notin Upper /\ w \in Threads
    BY <1>1, <1>2 DEF Upper, Working, Awaiting
  <2>2. /\ Len(stack[w]) = 1 /\ stack[w] \in Seq(FrameType)
        /\ stack[w][1] = Top(w) /\ FrameIn(Top(w), DOMAIN queueOf)
    BY <2>1, TopOfStack DEF IInv
  <2>3. Top(w) = Frame("gone", 0)
    <3>1. Top(w).arg = 0 /\ Top(w) \in FrameType
      BY <2>1, <2>2, TopOfStack DEF IInv, FrameIn, Working, Awaiting
    <3> QED BY <2>1, <3>1 DEF FrameType, Frame
  <2> QED BY <2>2, <2>3
<1>6. Closed'
  <2>1. Len(stack'[Main]) = 1
    BY <1>4
  <2>2. \A c \in Clients \ {Main} : stack'[c] = <<Outside>>
    <3>1. Closing
      <4>1. Top(Main) \in Frames(Main)
        BY <1>1, TopOfStack DEF IInv
      <4> QED BY <1>2, <4>1 DEF Closing
    <3> QED BY <1>1, <1>4, <3>1 DEF IInv, Closed
  <2>3. \A w \in Workers : stack'[w] = <<Frame("gone", 0)>>
    BY <1>1, <1>4, <1>5
  <2> QED BY <2>1, <2>2, <2>3 DEF Closed
<1> QED BY <1>4, <1>6 DEF IInv

LEMMA NotifyAllKeeps ==
  ASSUME IInv, NotifyAll
  PROVE  IInv'
<1>1. /\ Main \in Threads /\ Main \in Clients /\ Main \notin Workers
      /\ Clients \subseteq Threads /\ Workers \subseteq Threads
      /\ Clients \cap Workers = {}
  BY ThreadPoolAssumption DEF Threads
<1>2. /\ Top(Main).at = "notify_all"
      /\ stack' = [t \in Threads |-> IF t \in Sleepers THEN <<Loop>>
                                     ELSE IF t = Main THEN <<Frame("joining", 0)>>
                                     ELSE stack[t]]
      /\ UNCHANGED <<tasks, counter, cancelled, stop, gone, queueOf, ran, dropped, overruled,
                     calls>>
  BY DEF NotifyAll, IsAt, history
<1>3. ASSUME NEW u \in Threads, Top(u).at \in {"notify_all", "asleep"}
      PROVE  \A i \in DOMAIN stack[u] : ~Busy(stack[u][i])
  <2>1. Top(u).at \notin Upper
    BY <1>3 DEF Upper, Working, Awaiting
  <2>2. Len(stack[u]) = 1 /\ stack[u] \in Seq(FrameType) /\ stack[u][1] = Top(u)
    BY <2>1, TopOfStack DEF IInv
  <2> QED BY <2>1, <2>2 DEF Busy, Upper
<1>4. /\ stack'[Main] = <<Frame("joining", 0)>>
      /\ \A u \in Sleepers : u \in Workers /\ Top(u).at = "asleep" /\ stack'[u] = <<Loop>>
      /\ \A u \in Threads \ ({Main} \cup Sleepers) : stack'[u] = stack[u]
  BY <1>1, <1>2 DEF Sleepers, IsAt
<1>5. \A u \in Threads : stack'[u] = stack[u] \/ Resets(u)
  <2>1. Resets(Main)
    <3>1. "joining" \in Bottom(Main)
      BY <1>1 DEF Bottom, MainPlaces
    <3> QED BY <1>1, <1>2, <1>3, <1>4, <3>1 DEF Resets
  <2>2. ASSUME NEW u \in Sleepers PROVE Resets(u)
    <3>1. "loop" \in Bottom(u) /\ Loop = Frame("loop", 0)
      BY <1>4 DEF Bottom, WorkerPlaces, Loop
    <3> QED BY <1>1, <1>3, <1>4, <3>1 DEF Resets
  <2> QED BY <1>4, <2>1, <2>2
<1>6. Stacks' /\ Step(Main, 1, Outside)
  BY <1>1, <1>2, <1>5, StackResets DEF IInv
<1>7. ~Busy(Outside) /\ \A x : ~Works(Main, 1, x) /\ ~Cancels(Main, 1, x)
  BY <1>1, BottomIdle DEF IInv, Busy, Outside, Frame, Working, Awaiting
<1>8. Typed' /\ Placed' /\ CounterCounts' /\ Flags' /\ Destroyed'
  <2>1. stop' \in BOOLEAN /\ calls' \in 0 .. MaxCalls
    BY <1>2 DEF IInv, Typed
  <2> QED BY <1>1, <1>2, <1>6, <1>7, <2>1, NothingMoves
<1>9. Closed'
  <2>1. Len(stack'[Main]) = 1
    BY <1>4
  <2>2. \A c \in Clients \ {Main} : stack'[c] = <<Outside>>
    <3>1. Closing
      <4>1. Top(Main) \in Frames(Main)
        BY <1>1, TopOfStack DEF IInv
      <4> QED BY <1>2, <4>1 DEF Closing
    <3> QED BY <1>1, <1>4, <3>1 DEF IInv, Closed
  <2>3. ~IsAt(Main, "gone")'
    BY <1>4 DEF IsAt, Top, Last, Frame
  <2> QED BY <2>1, <2>2, <2>3 DEF Closed
<1> QED BY <1>6, <1>8, <1>9 DEF IInv

\* A thread outside the pool calls it.
LEMMA ClientCallsKeep ==
  ASSUME IInv, NEW c \in Clients, ClientCalls(c)
  PROVE  IInv'
<1>1. c \in Threads /\ Live(c) /\ IsAt(c, "outside") /\ ~Closing
  BY DEF Threads, ClientCalls, Live
<1>2. ASSUME NEW q \in Queues, ~Destroying(q), Enqueue(c, q) PROVE IInv'
  BY <1>1, <1>2, EnqueueKeeps DEF Destroying
<1>3. ASSUME NEW q \in Queues \ {Static}, ~Destroying(q), Wait(c, q) PROVE IInv'
  BY <1>1, <1>3, WaitKeeps
<1>4. ASSUME NEW q \in Queues \ {Static}, ~Destroying(q), Cancel(c, q) PROVE IInv'
  BY <1>1, <1>4, CancelKeeps
<1>5. CASE Steal(c)
  BY <1>1, <1>5, StealKeeps
<1> QED BY <1>2, <1>3, <1>4, <1>5 DEF ClientCalls

\* A task calls the pool: its own queue is not gone, for the task still counts.
LEMMA TaskCallsKeep ==
  ASSUME IInv, NEW t \in Threads, TaskCalls(t)
  PROVE  IInv'
<1> DEFINE own == queueOf[Top(t).arg]
<1>1. Top(t).at = "run" /\ Live(t)
  BY DEF TaskCalls, IsAt, Live, Upper, Working
<1>2. own \in Queues /\ own \notin gone
  <2>1. InHand(Top(t).arg)
    BY <1>1, TopIs, TasksInHand DEF IInv, Working
  <2>2. own \in Queues /\ counter[own] > 0
    BY <2>1, HandIsCounted DEF IInv
  <2> QED BY <2>2 DEF IInv, Destroyed
<1>3. ASSUME NEW q \in Queues, q = own \/ ~Destroying(q), Enqueue(t, q) PROVE IInv'
  <2>1. q \notin gone
    BY <1>2, <1>3 DEF Destroying
  <2> QED BY <1>1, <1>3, <2>1, EnqueueKeeps
<1>4. ASSUME NEW q \in Queues, <<own, q>> \in MayWait, ~Destroying(q), Wait(t, q) PROVE IInv'
  <2>1. q \in Queues \ {Static}
    BY <1>4, ThreadPoolAssumption
  <2> QED BY <1>1, <1>4, <2>1, WaitKeeps
<1> QED BY <1>3, <1>4 DEF TaskCalls

LEMMA GoOnKeeps ==
  ASSUME IInv, NEW t \in Threads, GoOn(t)
  PROVE  IInv'
BY PushKeeps, ProcessKeeps, WaitHelpsKeeps, WaitReturnsKeeps, LowerFlagKeeps DEF GoOn

LEMMA NextKeeps ==
  ASSUME IInv, [Next]_vars
  PROVE  IInv'
<1>1. ASSUME NEW c \in Clients, ClientCalls(c) PROVE IInv'
  BY <1>1, ClientCallsKeep
<1>2. ASSUME NEW t \in Threads, TaskCalls(t) \/ GoOn(t) PROVE IInv'
  BY <1>2, TaskCallsKeep, GoOnKeeps
<1>3. ASSUME NEW w \in Workers, WorkerRests(w) PROVE IInv'
  BY <1>3, WorkerRestsKeeps
<1>4. ASSUME NEW q \in Queues, DestroyQueue(q) PROVE IInv'
  BY <1>4, DestroyQueueKeeps DEF DestroyQueue
<1>5. CASE DestroyPool \/ NotifyAll \/ Join
  BY <1>5, DestroyPoolKeeps, NotifyAllKeeps, JoinKeeps
<1>6. CASE UNCHANGED vars
  <2>1. UNCHANGED <<tasks, counter, cancelled, stop, stack, gone, queueOf, ran, dropped,
                    overruled, calls>>
    BY <1>6 DEF vars, history
  <2>2. Typed' /\ Stacks'
    <3>1. Typed'
      BY <2>1 DEF IInv, Typed
    <3>2. Stacks'
      BY <2>1 DEF IInv, Stacks
    <3> QED BY <3>1, <3>2
  <2>3. Placed' /\ CounterCounts'
    <3>1. Placed'
      BY <2>1 DEF IInv, Placed, Apart, InHand, Queued, Works
    <3>2. CounterCounts'
      BY <2>1 DEF IInv, CounterCounts, Open, Held, Frames
    <3> QED BY <3>1, <3>2
  <2>4. Flags' /\ Closed'
    BY <2>1 DEF IInv, Flags, FlagsAreLowered, Cancelling, Closed, Closing, Frames, IsAt, Top
  <2>5. Destroyed'
    BY <2>1 DEF IInv, Destroyed, Awaits
  <2> QED BY <2>2, <2>3, <2>4, <2>5 DEF IInv
<1> QED BY <1>1, <1>2, <1>3, <1>4, <1>5, <1>6 DEF Next

LEMMA InitKeeps ==
  ASSUME Init
  PROVE  IInv
<1>1. /\ Main \in Clients /\ Main \in Threads /\ Main \notin Workers
      /\ Clients \cap Workers = {} /\ Clients \subseteq Threads /\ Workers \subseteq Threads
  BY ThreadPoolAssumption DEF Threads
<1>2. ASSUME NEW t \in Threads
      PROVE  /\ stack[t] \in Seq(FrameType) /\ stack[t] # <<>> /\ DOMAIN stack[t] = {1}
             /\ stack[t][1].at \in Bottom(t) /\ stack[t][1].arg = 0
             /\ stack[t][1].at \in {"loop", "outside"}
  <2>1. Loop \in FrameType /\ Outside \in FrameType
    BY DEF Loop, Outside, Frame, FrameType, WorkerPlaces, MainPlaces
  <2>2. CASE t \in Workers
    BY <2>1, <2>2 DEF Init, Loop, Frame, Bottom, WorkerPlaces
  <2>3. CASE t \notin Workers
    BY <2>1, <2>3 DEF Init, Outside, Frame, Bottom, MainPlaces
  <2> QED BY <2>2, <2>3
<1>3. Stacks
  <2>1. stack \in [Threads -> Seq(FrameType)]
    BY <1>2 DEF Init
  <2>2. ASSUME NEW t \in Threads, NEW i \in DOMAIN stack[t]
        PROVE  /\ FrameIn(stack[t][i], DOMAIN queueOf)
               /\ stack[t][i].at \in (IF i = 1 THEN Bottom(t) ELSE Upper)
               /\ stack[t][i].at \notin {"cancel", "lower", "destroy"}
    <3>1. i = 1 /\ stack[t][i].at \in {"loop", "outside"} /\ stack[t][i].arg = 0
          /\ stack[t][i].at \in Bottom(t)
      BY <1>2
    <3> QED BY <3>1 DEF FrameIn, WorkerPlaces, MainPlaces
  <2> QED BY <1>2, <2>1, <2>2 DEF Stacks
<1>4. Typed
  <2>1. queueOf = <<>> /\ <<>> \in Seq(Queues) /\ Len(queueOf) = 0
    BY DEF Init
  <2>2. /\ tasks \in [0 .. Lowest -> SUBSET DOMAIN queueOf]
        /\ counter \in [Queues -> Int] /\ cancelled \in [Queues -> BOOLEAN]
    BY DEF Init
  <2>3. 0 <= MaxTasks /\ 0 \in 0 .. MaxCalls
    BY ThreadPoolAssumption
  <2>4. /\ stop \in BOOLEAN /\ gone \subseteq Queues \ {Static}
        /\ ran \subseteq DOMAIN queueOf /\ dropped \subseteq DOMAIN queueOf
        /\ overruled \subseteq Threads /\ calls = 0
    BY DEF Init
  <2> QED BY <2>1, <2>2, <2>3, <2>4 DEF Typed
<1>5. \A t \in Threads : \A i \in DOMAIN stack[t] : ~Busy(stack[t][i])
  BY <1>2 DEF Busy, Working, Awaiting
<1>6. \A x : ~InHand(x) /\ ~Queued(x)
  BY <1>5 DEF InHand, Works, Busy, Queued, Init
<1>7. Placed
  <2>1. Apart
    BY <1>5 DEF Apart, Busy
  <2>2. \A t \in Threads : \A i \in DOMAIN stack[t] :
          stack[t][i].at \notin {"push", "taken", "run", "count"}
    BY <1>5 DEF Busy, Working
  <2>3. DOMAIN queueOf = {} /\ ran = {} /\ dropped = {}
    BY DEF Init
  <2> QED BY <1>6, <2>1, <2>2, <2>3 DEF Placed, Queued
<1>8. CounterCounts
  <2>1. \A q : Open(q) = {}
    BY <1>6, OpenTasks
  <2> QED BY <2>1, FS_EmptySet DEF CounterCounts, Init
<1>9. Flags
  <2>1. \A q : Cancelling(q) = {}
    BY <1>5, CancellingIs DEF Cancels, Busy, Awaiting
  <2> QED BY <2>1 DEF Flags, FlagsAreLowered, Init
<1>10. Destroyed
  <2>1. gone = {}
    BY DEF Init
  <2> QED BY <1>1, <1>5, <2>1 DEF Destroyed, Busy, Awaiting
<1>11. Closed
  <2>1. stack[Main][1].at = "outside"
    BY <1>1 DEF Init, Outside, Frame
  <2>2. ~Closing
    BY <1>3, <2>1, ClosingIs
  <2> QED BY <1>3, <2>2, GoneIsClosing DEF Closed
<1> QED BY <1>3, <1>4, <1>7, <1>8, <1>9, <1>10, <1>11 DEF IInv

(***************************************************************************)
(* The inductive invariant: where the calls of wait(), cancel(), enqueue() *)
(* and the destructors may be on the stacks, one place for every task,     *)
(* counters that count, flags that are held up, and queues that nobody     *)
(* uses once they are gone (thread_pool.cpp:39-158).                       *)
(***************************************************************************)
THEOREM Invariance == Spec => []IInv
<1>1. Init => IInv
  BY InitKeeps
<1>2. IInv /\ [Next]_vars => IInv'
  BY NextKeeps
<1> QED BY <1>1, <1>2, PTL DEF Spec

\* What the counter counts is no more than was enqueued.
LEMMA TypesHold ==
  ASSUME IInv
  PROVE  TypeOK
<1>1. ASSUME NEW q \in Queues PROVE counter[q] \in 0 .. MaxTasks
  <2>1. Len(queueOf) \in Nat /\ Len(queueOf) <= MaxTasks /\ DOMAIN queueOf = 1 .. Len(queueOf)
    BY DEF IInv, Typed
  <2>2. IsFiniteSet(1 .. Len(queueOf)) /\ Cardinality(1 .. Len(queueOf)) <= Len(queueOf)
    BY <2>1, FS_Interval
  <2>3. Open(q) \in SUBSET (1 .. Len(queueOf))
    BY <2>1, OpenIsFinite DEF IInv
  <2>4. Cardinality(Open(q)) <= Cardinality(1 .. Len(queueOf))
    BY <2>2, <2>3, FS_Subset
  <2>5. counter[q] = Cardinality(Open(q)) /\ counter[q] \in Nat
    BY CounterIsNat DEF IInv, CounterCounts
  <2>6. Cardinality(1 .. Len(queueOf)) \in Nat
    BY <2>2, FS_CardinalityType
  <2> QED BY <2>1, <2>2, <2>4, <2>5, <2>6, ThreadPoolAssumption
<1>2. counter \in [Queues -> 0 .. MaxTasks]
  BY <1>1 DEF IInv, Typed
<1>3. ASSUME NEW t \in Threads, NEW f \in Frames(t) PROVE FrameOK(f)
  <2>1. FrameIn(f, DOMAIN queueOf)
    BY DEF IInv, Stacks, Frames
  <2> QED BY <2>1 DEF FrameIn, FrameOK, WorkerPlaces, MainPlaces
<1>4. DOMAIN stack = Threads /\ \A t \in Threads : stack[t] # <<>>
  BY DEF IInv, Stacks
<1> QED BY <1>2, <1>3, <1>4 DEF IInv, Typed, TypeOK

LEMMA TasksRunOnce ==
  ASSUME IInv
  PROVE  RunsOnce
<1>1. ASSUME NEW x PROVE Cardinality(TaskFrames(x)) <= 1
  <2>1. \A t \in Threads : \A i : <<t, i>> \in TaskFrames(x) <=> Works(t, i, x)
    BY DEF TaskFrames, Works
  <2>2. \A p \in TaskFrames(x) : \E t \in Threads : \E i : p = <<t, i>> /\ Works(t, i, x)
    BY DEF TaskFrames, Works
  <2>3. \A p, r \in TaskFrames(x) : p = r
    BY <2>2, TasksApart DEF IInv, Placed
  <2>4. CASE TaskFrames(x) = {}
    BY <2>4, FS_EmptySet
  <2>5. CASE TaskFrames(x) # {}
    <3>1. PICK p \in TaskFrames(x) : TRUE
      BY <2>5
    <3>2. TaskFrames(x) = {p}
      BY <2>3, <3>1
    <3>3. Cardinality({p}) = 1
      BY FS_Singleton
    <3> QED BY <3>2, <3>3
  <2> QED BY <2>4, <2>5
<1>2. ASSUME NEW x \in DOMAIN queueOf, NEW p \in 0 .. Lowest, x \in tasks[p]
      PROVE  p = PriorityOf[queueOf[x]] /\ x \notin Held \cup ran \cup dropped
  <2>1. p = PriorityOf[queueOf[x]] /\ ~InHand(x) /\ x \notin ran \cup dropped
    BY <1>2 DEF IInv, Placed
  <2> QED BY <2>1, HeldTasks
<1>3. ASSUME NEW f \in UNION {Frames(u) : u \in Threads}, f.at \in {"taken", "run"}
      PROVE  f.arg \notin ran \cup dropped
  BY <1>3 DEF IInv, Placed, Frames
<1>4. ran \cap dropped = {}
  BY DEF IInv, Placed
<1> QED BY <1>1, <1>2, <1>3, <1>4 DEF RunsOnce

(***************************************************************************)
(* The counter that wait() tests is the number of tasks of the queue that  *)
(* have not ended, wherever they are; no task runs twice or after it was   *)
(* dropped; no flag stays up when nobody is in cancel()                    *)
(* (thread_pool.cpp:112-158).                                              *)
(***************************************************************************)
THEOREM Accounted == Spec => []TasksAccounted
<1>1. IInv => TasksAccounted
  BY TypesHold, TasksRunOnce DEF IInv, Flags, TasksAccounted
<1> QED BY Invariance, <1>1, PTL

(***************************************************************************)
(* A destroyed queue has no task left in the pool or in a thread's hands,  *)
(* and nobody waits in it; when ~Thread_pool has returned, no thread is in *)
(* the pool (concurrent_queue.cpp:17-20, thread_pool.cpp:63-71).           *)
(***************************************************************************)
THEOREM DestroyedUnused == Spec => []NoUseAfterDestroy
<1>1. IInv => NoUseAfterDestroy
  <2> SUFFICES ASSUME IInv PROVE NoUseAfterDestroy
    OBVIOUS
  <2>1. ASSUME NEW q \in gone PROVE Open(q) = {}
    <3>1. q \in Queues /\ counter[q] = 0
      BY DEF IInv, Typed, Destroyed
    <3> QED BY <3>1, CounterIsNat DEF IInv
  <2>2. ASSUME NEW q \in gone, NEW t \in Threads PROVE ~InCall(t, q)
    BY DEF IInv, Destroyed, Awaits, InCall, Frames
  <2>3. ASSUME IsAt(Main, "gone")
        PROVE  /\ \A w \in Workers : stack[w] = <<Frame("gone", 0)>>
               /\ \A c \in Clients \ {Main} : stack[c] = <<Outside>>
    BY <2>3, GoneIsClosing DEF IInv, Closed
  <2> QED BY <2>1, <2>2, <2>3 DEF NoUseAfterDestroy
<1> QED BY Invariance, <1>1, PTL

(***************************************************************************)
(* wait() returns only when every task of the queue has ended, also those  *)
(* that other threads took and those that were enqueued while it waited    *)
(* (thread_pool.cpp:142-151).                                              *)
(***************************************************************************)
THEOREM WaitIsSound == Spec => WaitDrains
<1> DEFINE Sound == \A t \in Threads : WaitReturns(t) =>
                      \A x \in DOMAIN queueOf : queueOf[x] = Top(t).arg => x \in ran \cup dropped
<1>1. IInv /\ [Next]_vars => [Sound]_vars
  <2> SUFFICES ASSUME IInv, NEW t \in Threads, WaitReturns(t),
                      NEW x \in DOMAIN queueOf, queueOf[x] = Top(t).arg
               PROVE  x \in ran \cup dropped
    OBVIOUS
  <2>1. queueOf[x] \in Queues /\ counter[queueOf[x]] <= 0
    BY DEF WaitReturns, IInv, Typed
  <2>2. counter[queueOf[x]] \in Nat
    BY <2>1, CounterIsNat DEF IInv
  <2>3. counter[queueOf[x]] = 0
    BY <2>1, <2>2
  <2>4. Open(queueOf[x]) = {}
    BY <2>1, <2>3, CounterIsNat DEF IInv
  <2>5. ~InHand(x) /\ ~Queued(x)
    BY <2>4, OpenTasks
  <2> QED BY <2>5 DEF IInv, Placed
<1> QED BY Invariance, <1>1, PTL DEF Spec, WaitDrains

(***************************************************************************)
(* While a thread is in cancel(), no task of the queue starts, unless the  *)
(* end of another cancel() has lowered the flag for it as well             *)
(* (thread_pool.cpp:131-140, 153-158).                                     *)
(***************************************************************************)
THEOREM CancelIsSound == Spec => CancelDrops
<1> DEFINE Sound == \A t \in Threads :
                      Start(t) => Cancelling(queueOf[Top(t).arg]) \subseteq overruled
<1>1. IInv /\ [Next]_vars => [Sound]_vars
  <2> SUFFICES ASSUME IInv, NEW t \in Threads, Start(t)
               PROVE  Cancelling(queueOf[Top(t).arg]) \subseteq overruled
    OBVIOUS
  <2>1. Top(t).at = "taken" /\ ~cancelled[queueOf[Top(t).arg]]
    BY DEF Start, IsAt
  <2>2. InHand(Top(t).arg)
    BY <2>1, TopIs, TasksInHand DEF IInv, Working
  <2>3. queueOf[Top(t).arg] \in Queues
    BY <2>2, HandIsCounted DEF IInv
  <2> QED BY <2>1, <2>3 DEF IInv, Flags
<1> QED BY Invariance, <1>1, PTL DEF Spec, CancelDrops
=============================================================================
