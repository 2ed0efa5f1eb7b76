------------------------ MODULE ThreadsManagerProofs ------------------------
(***************************************************************************)
(* Proofs about ThreadsManager, for every size of the queues, every limit  *)
(* on the threads and any number of tasks, workers and sessions.           *)
(***************************************************************************)
EXTENDS ThreadsManagerStacks

-----------------------------------------------------------------------------
(* The invariant. First, the workers: each live one is in one stack, once, *)
(* or is being joined, and its mutex and its data say which.               *)

StacksOK ==
  /\ Distinct(busy_threads) /\ Distinct(idle_threads)
  /\ InStack(busy_threads) \cap InStack(idle_threads) = {}
  /\ joined \notin InStack(busy_threads) \cup InStack(idle_threads)
  /\ Alive = InStack(busy_threads) \cup InStack(idle_threads)
             \cup ({joined} \ {0})
  /\ Alive \subseteq 1 .. created

MonitorOK ==
  /\ caller = "stopped" <=> monitor = "none"
  /\ joined # 0 <=> monitor \in {"reaping", "joining"}
  /\ monitor = "reaping" => busy_threads # <<>>
  /\ list_lock = Monitor <=> monitor \in {"reaping", "stopping", "joining"}
  /\ task # 0 <=> monitor \in {"task", "reaping", "wait_idle", "wake_idle",
                               "crashed"}

(* The worker that gets the task when the one being reaped is gone. *)
Chosen(w) == monitor = "reaping" /\ w = Head(busy_threads)

Resting(w) == data[w] = Itself /\ mutex[w]

(* In q_in.signal(), with threads_list_lock.                               *)
Signalling(w) == worker[w] \in {"signal", "broadcast"}

WorkerOK(w) ==
  /\ Signalling(w) <=> list_lock = w
  /\ worker[w] = "none" => data[w] = Itself
  /\ w \in InStack(idle_threads) =>
       Resting(w) /\ (worker[w] = "wait" \/ Signalling(w))
  /\ w \in InStack(busy_threads) /\ Chosen(w) =>
       Resting(w) /\ worker[w] = "wait"
  /\ w \in InStack(busy_threads) /\ ~Chosen(w) =>
       /\ data[w] # Itself
       /\ \/ worker[w] = "wait" /\ ~mutex[w]
          \/ worker[w] \in {"work", "deliver", "finish"} /\ mutex[w]
  /\ w = joined =>
       /\ data[w] = Itself
       /\ \/ worker[w] = "wait" /\ ~mutex[w]
          \/ worker[w] = "exited"

PoolInv == StacksOK /\ MonitorOK /\ \A w \in Workers : WorkerOK(w)

-----------------------------------------------------------------------------
(* Then, the tasks: an accepted one is in one place at a time, and its     *)
(* result too.                                                             *)

Queued(t) == t \in InStack(contents)
Carried(t) == \E w \in Workers : data[w] = t
NoResult(t) == collected[t] = 0 /\ t \notin InStack(out)

TaskOK(t) ==
  /\ Queued(t) => t # task /\ ~Carried(t)
  /\ t = task => ~Carried(t)
  /\ Queued(t) \/ t = task => runs[t] = 0
  /\ t \in accepted <=>
       Queued(t) \/ t = task \/ Carried(t) \/ runs[t] = 1
  /\ runs[t] \in {0, 1}
  /\ runs[t] = 0 => NoResult(t)
  /\ collected[t] \in {0, 1}
  /\ collected[t] = 1 => t \notin InStack(out)
  /\ OutSize > 0 /\ runs[t] = 1 /\ NoResult(t) =>
       \E w \in Workers : data[w] = t /\ worker[w] = "deliver"

CarriedOK(w) ==
  data[w] # Itself =>
    /\ \A v \in Workers : data[v] = data[w] => v = w
    /\ worker[w] \in {"wait", "work"} => runs[data[w]] = 0
    /\ worker[w] \in {"deliver", "finish"} => runs[data[w]] = 1
    /\ worker[w] = "deliver" => NoResult(data[w])

TaskInv ==
  /\ Distinct(contents) /\ Distinct(out)
  /\ \A t \in Tasks : TaskOK(t)
  /\ \A w \in Workers : CarriedOK(w)

-----------------------------------------------------------------------------
(* Last, the sessions, when nobody pushes before start() has returned.     *)

Closing == {"ended", "stopping", "joining", "wait_busy", "wake_busy", "exited"}

SessionInv ==
  /\ running <=> caller \in {"started", "stop_urgency", "stop_wake",
                              "stop_join"}
  /\ monitor \in {"none", "exited"} => Alive = {}
  /\ caller \in {"start_count", "start_report"} =>
       /\ Alive = {} /\ monitor \in Popping
       /\ contents = <<>> /\ is_open /\ ~signal
  /\ caller \notin {"stopped", "start_count"} => threads = Cardinality(Alive)
  /\ caller \in {"stop_urgency", "stop_wake", "stop_join"} => ~is_open
  /\ urgent_close => urged
  /\ ~urged /\ monitor \in Closing => contents = <<>> /\ ~is_open
  /\ ~urged /\ monitor = "none" => contents = <<>>

-----------------------------------------------------------------------------
(* What the names of threads, the empty task and the places stand for.     *)
LEMMA Names ==
  /\ 0 \notin Workers /\ Monitor \notin Workers /\ Monitor # 0
  /\ 0 \notin Tasks
  /\ Workers \subseteq Nat /\ Tasks \subseteq Nat
BY BoundsAssumption DEF Workers, Tasks, Monitor

(* A worker that finishes its task is in the stack of busy workers.        *)
LEMMA FinishingIsBusy ==
  ASSUME TypeOK, PoolInv, NEW w \in Workers,
         worker[w] \in {"work", "deliver", "finish"}
  PROVE  w \in InStack(busy_threads) /\ ~Chosen(w) /\ data[w] # Itself
         /\ mutex[w] /\ w \notin InStack(idle_threads) /\ w # joined
<1>1. w \in Alive
  BY DEF Alive
<1>2. WorkerOK(w)
  BY DEF PoolInv
<1>3. w \in InStack(busy_threads) \cup InStack(idle_threads) \/ w = joined
  BY <1>1 DEF PoolInv, StacksOK
<1>4. QED
  BY <1>2, <1>3 DEF Signalling, WorkerOK, PoolInv, StacksOK

(* The monitor hands the task over, to whatever worker.                    *)
LEMMA HandedType ==
  ASSUME TypeOK, NEW w, Handed(w)
  PROVE  /\ data' \in [Workers -> {Itself} \cup Tasks]
         /\ mutex' \in [Workers -> BOOLEAN]
         /\ busy' \in BOOLEAN /\ reported' \in {"idle", "busy"}
         /\ task' \in {0} \cup Tasks
         /\ list_lock' \in {Nobody, Monitor} \cup Workers
         /\ monitor' \in MonitorPlaces
<1>1. busy' \in BOOLEAN
  BY Zenon DEF Handed
<1>2. mutex' \in [Workers -> BOOLEAN]
  BY DEF Handed, TypeOK
<1>3. data' \in [Workers -> {Itself} \cup Tasks]
  BY DEF Handed, TypeOK, Itself
<1>4. QED
  BY <1>1, <1>2, <1>3 DEF Handed, TypeOK, MonitorPlaces, Popping

(* A worker that was joined is gone and counted no more.                   *)
LEMMA JoinedType ==
  ASSUME TypeOK, Joined
  PROVE  /\ worker' \in [Workers -> WorkerPlaces]
         /\ joined' \in {0} \cup Workers
         /\ threads' \in 0 .. SizeT - 1
<1>1. threads' \in 0 .. SizeT - 1
  BY SizeTArithmetic DEF Joined, OneThreadLess, TypeOK
<1>2. QED
  BY <1>1 DEF Joined, TypeOK, WorkerPlaces

(* Every variable keeps its type. The steps are split as in Next.          *)
LEMMA TypeStep ==
  ASSUME TypeOK, PoolInv, [Next]_vars
  PROVE  TypeOK'
<1> USE DEF TypeOK, Q!TypeOK, queue, stacks, workers, bounds, output, history,
        CallerPlaces, MonitorPlaces, Popping, WorkerPlaces
<1>0. /\ QueueSize \in Nat /\ OutSize \in Nat
      /\ MaxCreated \in Nat /\ MaxFailures \in Nat /\ MaxSpurious \in Nat
      /\ MaxSessions \in Nat /\ SizeT \in Nat \ {0}
      /\ \A n \in 1 .. MaxCreated : n \in Workers
  BY BoundsAssumption DEF Workers
<1>1. ASSUME NEW t \in Tasks, Push(t), UNCHANGED output
      PROVE  TypeOK'
  BY <1>0, <1>1 DEF Push, Q!Put, Roused
<1>2. ASSUME StartOpen, UNCHANGED output
      PROVE  TypeOK'
  <2>1. is_open' \in BOOLEAN /\ signal' \in BOOLEAN /\ busy' \in BOOLEAN
    BY <1>2, Zenon DEF StartOpen, Q!Open
  <2>2. QED
    BY <1>0, <1>2, <2>1 DEF StartOpen, Q!Open
<1>3. ASSUME StartFails, UNCHANGED output
      PROVE  TypeOK'
  <2>1. is_open' \in BOOLEAN /\ signal' \in BOOLEAN
    BY <1>3, Zenon DEF StartFails, Q!Open
  <2>2. QED
    BY <1>0, <1>3, <2>1 DEF StartFails, Q!Open
<1>4. ASSUME StartCount, UNCHANGED output
      PROVE  TypeOK'
  BY <1>0, <1>4 DEF StartCount
<1>5. ASSUME StartReport, UNCHANGED output
      PROVE  TypeOK'
  BY <1>0, <1>5 DEF StartReport
<1>6. ASSUME StopShut, UNCHANGED output
      PROVE  TypeOK'
  <2>1. is_open' \in BOOLEAN
    BY <1>6, Zenon DEF StopShut, Q!Shut
  <2>2. QED
    BY <1>0, <1>6, <2>1 DEF StopShut, Q!Shut
<1>7. ASSUME StopJoin, UNCHANGED output
      PROVE  TypeOK'
  BY <1>0, <1>7 DEF StopJoin
<1>8. ASSUME PopTask, UNCHANGED output
      PROVE  TypeOK'
  BY <1>0, <1>8 DEF PopTask, Q!Take
<1>9. ASSUME PopSignal, UNCHANGED output
      PROVE  TypeOK'
  <2>1. signal' \in BOOLEAN
    BY <1>9, Zenon DEF PopSignal, Q!TakeSignal
  <2>2. QED
    BY <1>0, <1>9, <2>1 DEF PopSignal, Q!TakeSignal
<1>10. ASSUME PopEnd, UNCHANGED output
      PROVE  TypeOK'
  BY <1>0, <1>10 DEF PopEnd, Q!NothingToTake, Q!vars
<1>11. ASSUME Signalled, UNCHANGED output
      PROVE  TypeOK'
  <2>1. busy' \in BOOLEAN /\ reported' \in {"idle", "busy"}
    BY <1>11, Zenon DEF Signalled, ReportIfIdle
  <2>2. QED
    BY <1>0, <1>11, <2>1 DEF Signalled
<1>12. ASSUME TaskToIdle, UNCHANGED output
      PROVE  TypeOK'
  <2>1. Handed(Head(idle_threads))
    BY <1>12 DEF TaskToIdle
  <2>2. /\ Head(idle_threads) \in Workers
        /\ Tail(idle_threads) \in Seq(Workers)
    BY <1>12, PoppedStack DEF TaskToIdle
  <2>3. busy_threads' \in Seq(Workers) /\ idle_threads' \in Seq(Workers)
    BY <1>12, <2>2, PushedStack DEF TaskToIdle
  <2>4. QED
    BY <1>0, <1>12, <2>1, <2>3, HandedType DEF TaskToIdle
<1>13. ASSUME TaskAndReap, UNCHANGED output
      PROVE  TypeOK'
  <2>1. idle_threads # <<>>
    BY <1>13 DEF TaskAndReap
  <2>2. /\ Head(idle_threads) \in Workers
        /\ Bottom(idle_threads) \in Workers
        /\ Tail(idle_threads) \in Seq(Workers) /\ Tail(idle_threads) # <<>>
    BY <1>13, <2>1, PoppedStack, BottomOfStack, BothEndsOfStack
       DEF TaskAndReap, PoolInv, StacksOK
  <2>3. busy_threads' \in Seq(Workers) /\ idle_threads' \in Seq(Workers)
    BY <1>13, <2>2, PushedStack, BottomOfStack DEF TaskAndReap
  <2>4. joined' \in Workers
    BY <1>13, <2>2 DEF TaskAndReap
  <2>5. mutex' \in [Workers -> BOOLEAN]
    BY <1>13 DEF TaskAndReap
  <2>6. QED
    BY <1>0, <1>13, <2>3, <2>4, <2>5 DEF TaskAndReap
<1>14. ASSUME Reaped, UNCHANGED output
      PROVE  TypeOK'
  <2>1. Handed(Head(busy_threads)) /\ Joined
    BY <1>14 DEF Reaped
  <2>2. QED
    BY <1>0, <1>14, <2>1, HandedType, JoinedType DEF Reaped
<1>15. ASSUME TaskToNew, UNCHANGED output
      PROVE  TypeOK'
  <2>1. created' \in Workers /\ Handed(created')
    BY <1>0, <1>15 DEF TaskToNew
  <2>2. busy_threads' \in Seq(Workers)
    BY <1>15, <2>1, PushedStack DEF TaskToNew
  <2>3. threads' \in 0 .. SizeT - 1
    BY <1>15, SizeTArithmetic DEF TaskToNew
  <2>4. created' \in 0 .. MaxCreated
    BY <1>0, <1>15 DEF TaskToNew
  <2>5. worker' \in [Workers -> WorkerPlaces]
    BY <1>15 DEF TaskToNew
  <2>6. QED
    BY <1>0, <1>15, <2>1, <2>2, <2>3, <2>4, <2>5, HandedType DEF TaskToNew
<1>16. ASSUME TaskMustWait, UNCHANGED output
      PROVE  TypeOK'
  BY <1>0, <1>16 DEF TaskMustWait
<1>17. ASSUME TaskAfterWait, UNCHANGED output
      PROVE  TypeOK'
  <2>1. CASE idle_threads = <<>>
    BY <1>0, <1>17, <2>1 DEF TaskAfterWait
  <2>2. CASE idle_threads # <<>>
    <3>1. Handed(Head(idle_threads))
      BY <1>17, <2>2 DEF TaskAfterWait
    <3>2. /\ Head(idle_threads) \in Workers
          /\ Tail(idle_threads) \in Seq(Workers)
      BY <2>2, PoppedStack
    <3>n. /\ busy_threads' = Pushed(busy_threads, Head(idle_threads))
          /\ idle_threads' = Tail(idle_threads)
      BY <1>17, <2>2 DEF TaskAfterWait
    <3>3. busy_threads' \in Seq(Workers) /\ idle_threads' \in Seq(Workers)
      BY <3>n, <3>2, PushedStack
    <3>4. QED
      BY <1>0, <1>17, <3>1, <3>3, HandedType DEF TaskAfterWait
  <2>3. QED
    BY <2>1, <2>2
<1>18. ASSUME Ended, UNCHANGED output
      PROVE  TypeOK'
  BY <1>0, <1>18 DEF Ended
<1>19. ASSUME StopIdle, UNCHANGED output
      PROVE  TypeOK'
  <2>1. /\ idle_threads' \in Seq(Workers)
        /\ joined' \in Workers
    BY <1>19, BottomOfStack DEF StopIdle
  <2>2. mutex' \in [Workers -> BOOLEAN]
    BY <1>19 DEF StopIdle
  <2>3. QED
    BY <1>0, <1>19, <2>1, <2>2 DEF StopIdle
<1>20. ASSUME Stopped, UNCHANGED output
      PROVE  TypeOK'
  <2>1. Joined
    BY <1>20 DEF Stopped
  <2>2. QED
    BY <1>0, <1>20, <2>1, JoinedType DEF Stopped
<1>21. ASSUME StopMustWait, UNCHANGED output
      PROVE  TypeOK'
  BY <1>0, <1>21 DEF StopMustWait
<1>22. ASSUME StopAfterWait, UNCHANGED output
      PROVE  TypeOK'
  <2>1. busy' \in BOOLEAN /\ reported' \in {"idle", "busy"}
    BY <1>22, Zenon DEF StopAfterWait, ReportIfIdle
  <2>2. QED
    BY <1>0, <1>22, <2>1 DEF StopAfterWait
<1>23. ASSUME Exit, UNCHANGED output
      PROVE  TypeOK'
  BY <1>0, <1>23 DEF Exit
<1>24. ASSUME SpuriousWake, UNCHANGED output
      PROVE  TypeOK'
  BY <1>0, <1>24 DEF SpuriousWake, Woken
<1>25. ASSUME Collect PROVE TypeOK'
  BY <1>0, <1>25 DEF Collect
<1>26. ASSUME NEW w \in Workers, WorkerWake(w), UNCHANGED output
      PROVE  TypeOK'
  BY <1>0, <1>26 DEF WorkerWake
<1>27. ASSUME NEW w \in Workers, WorkerRun(w), UNCHANGED output
      PROVE  TypeOK'
  <2>n. data[w] \in Tasks
    BY <1>27, FinishingIsBusy DEF WorkerRun
  <2>1. runs' \in [Tasks -> Nat]
    BY <1>27, <2>n DEF WorkerRun
  <2>2. worker' \in [Workers -> WorkerPlaces]
    BY <1>27 DEF WorkerRun
  <2>3. QED
    BY <1>0, <1>27, <2>1, <2>2 DEF WorkerRun
<1>28. ASSUME NEW w \in Workers, WorkerDeliver(w) PROVE TypeOK'
  <2>1. data[w] \in Tasks
    BY <1>28, FinishingIsBusy DEF WorkerDeliver
  <2>2. out' \in Seq(Tasks) /\ Len(out') <= OutSize
    BY <1>0, <1>28, <2>1, AppendedQueue DEF WorkerDeliver
  <2>3. QED
    BY <1>0, <1>28, <2>2 DEF WorkerDeliver
<1>29. ASSUME NEW w \in Workers, WorkerFinish(w), UNCHANGED output
      PROVE  TypeOK'
  <2>1. w \in InStack(busy_threads)
    BY <1>29, FinishingIsBusy DEF WorkerFinish
  <2>2. busy_threads' \in Seq(Workers) /\ idle_threads' \in Seq(Workers)
    BY <1>29, <2>1, RemovedFromStack, PushedStack
       DEF WorkerFinish, PoolInv, StacksOK
  <2>3. monitor' \in MonitorPlaces
    BY <1>29 DEF WorkerFinish, Woken
  <2>4. worker' \in [Workers -> WorkerPlaces]
    BY <1>29 DEF WorkerFinish
  <2>5. data' \in [Workers -> {Itself} \cup Tasks]
    BY <1>29 DEF WorkerFinish
  <2>6. list_lock' \in {Nobody, Monitor} \cup Workers
    BY <1>29 DEF WorkerFinish
  <2>7. QED
    BY <1>0, <1>29, <2>2, <2>3, <2>4, <2>5, <2>6 DEF WorkerFinish
<1>30. ASSUME NEW w \in Workers, WorkerSignal(w), UNCHANGED output
      PROVE  TypeOK'
  BY <1>0, <1>30 DEF WorkerSignal, Q!Signal
<1>31. ASSUME NEW urgent \in BOOLEAN, StopUrgency(urgent), UNCHANGED output
      PROVE  TypeOK'
  BY <1>0, <1>31 DEF StopUrgency, Q!ChooseUrgency
<1>32. ASSUME PopTest, UNCHANGED output
      PROVE  TypeOK'
  BY <1>0, <1>32 DEF PopTest
<1>33. ASSUME PopSleep, UNCHANGED output
      PROVE  TypeOK'
  BY <1>0, <1>33 DEF PopSleep
<1>34. ASSUME StopWake, UNCHANGED output
      PROVE  TypeOK'
  BY <1>0, <1>34 DEF StopWake, Roused
<1>35. ASSUME NEW w \in Workers, WorkerBroadcast(w), UNCHANGED output
      PROVE  TypeOK'
  BY <1>0, <1>35 DEF WorkerBroadcast, Roused
<1>36. ASSUME UNCHANGED vars PROVE TypeOK'
  BY <1>36 DEF vars
<1>37. QED
  BY <1>1, <1>2, <1>3, <1>4, <1>5, <1>6, <1>7, <1>8, <1>9, <1>10, <1>11, <1>12, <1>13, <1>14, <1>15, <1>16, <1>17, <1>18, <1>19, <1>20, <1>21, <1>22, <1>23, <1>24, <1>25, <1>26, <1>27, <1>28, <1>29, <1>30, <1>31, <1>32, <1>33, <1>34, <1>35, <1>36 DEF Next, StartStep, StopStep, MonitorStep, WorkerStep

-----------------------------------------------------------------------------
(* The pool. A step of the monitor, the clients or stop() that moves no    *)
(* worker and no stack only has to leave the monitor well placed.          *)
LEMMA PoolUnmoved ==
  ASSUME TypeOK, PoolInv, MonitorOK',
         UNCHANGED <<busy_threads, idle_threads, workers, joined, created>>,
         list_lock' = list_lock \/ {list_lock, list_lock'} \subseteq {Nobody, Monitor},
         monitor' = monitor \/ "reaping" \notin {monitor, monitor'}
  PROVE  PoolInv'
<1>1. /\ InStack(busy_threads)' = InStack(busy_threads)
      /\ InStack(idle_threads)' = InStack(idle_threads)
      /\ Distinct(busy_threads)' /\ Distinct(idle_threads)'
  BY DEF PoolInv, StacksOK
<1>2. Alive' = Alive
  BY DEF Alive, workers
<1>3. StacksOK'
  BY <1>1, <1>2 DEF StacksOK, PoolInv
<1>4. ASSUME NEW w \in Workers PROVE WorkerOK(w)'
  <2>1. WorkerOK(w)
    BY DEF PoolInv
  <2>2. Chosen(w)' <=> Chosen(w)
    BY DEF Chosen
  <2>3. Resting(w)' <=> Resting(w)
    BY DEF Resting, workers
  <2>4. /\ Signalling(w)' <=> list_lock' = w
        /\ Signalling(w)' <=> Signalling(w)
    BY <2>1, Names DEF Signalling, WorkerOK, workers, Nobody
  <2>5. QED
    BY <2>1, <2>2, <2>3, <2>4, <1>1 DEF Signalling, WorkerOK, workers
<1>5. QED
  BY <1>3, <1>4 DEF PoolInv

(* A worker that is alive before and after a step, in the same stack.      *)
LEMMA StacksUnmoved ==
  ASSUME TypeOK, PoolInv,
         UNCHANGED <<busy_threads, idle_threads, joined, created>>,
         \A v \in Workers : worker[v] = "none" <=> worker'[v] = "none"
  PROVE  /\ StacksOK'
         /\ InStack(busy_threads)' = InStack(busy_threads)
         /\ InStack(idle_threads)' = InStack(idle_threads)
<1>1. /\ InStack(busy_threads)' = InStack(busy_threads)
      /\ InStack(idle_threads)' = InStack(idle_threads)
      /\ Distinct(busy_threads)' /\ Distinct(idle_threads)'
  BY DEF PoolInv, StacksOK
<1>2. Alive' = Alive
  BY DEF Alive
<1>3. QED
  BY <1>1, <1>2 DEF StacksOK, PoolInv

(* The steps of a worker between two visits to the stacks.                 *)
LEMMA WorkerPool ==
  ASSUME TypeOK, PoolInv, NEW w \in Workers,
         \/ WorkerWake(w) \/ WorkerRun(w) \/ WorkerDeliver(w)
         \/ WorkerSignal(w) \/ WorkerBroadcast(w)
  PROVE  PoolInv'
<1> USE DEF WorkerWake, WorkerRun, WorkerDeliver, WorkerSignal,
            WorkerBroadcast, stacks
<1>0. /\ worker \in [Workers -> WorkerPlaces]
      /\ mutex \in [Workers -> BOOLEAN]
  BY DEF TypeOK
<1>1. /\ UNCHANGED <<busy_threads, idle_threads, joined, created, task, caller,
                     data>>
      /\ monitor' = monitor \/ monitor' = Roused
  BY DEF bounds
<1>2. \A v \in Workers : worker[v] = "none" <=> worker'[v] = "none"
  BY <1>0
<1>3. /\ StacksOK'
      /\ InStack(busy_threads)' = InStack(busy_threads)
      /\ InStack(idle_threads)' = InStack(idle_threads)
  BY <1>1, <1>2, StacksUnmoved
<1>4. MonitorOK /\ WorkerOK(w)
  BY DEF PoolInv
<1>5. list_lock' = list_lock \/ (list_lock = w /\ list_lock' = Nobody)
  BY <1>4 DEF Signalling, WorkerOK
<1>6. MonitorOK'
  BY <1>1, <1>4, <1>5, Names DEF MonitorOK, Nobody, Roused
<1>7. ASSUME NEW v \in Workers PROVE WorkerOK(v)'
  <2>1. WorkerOK(v)
    BY DEF PoolInv
  <2>2. Chosen(v)' <=> Chosen(v)
    BY <1>1 DEF Chosen, Roused
  <2>3. CASE v # w
    <3>1. worker'[v] = worker[v] /\ mutex'[v] = mutex[v]
      BY <1>0, <2>3
    <3>2. Signalling(v)' <=> list_lock' = v
      BY <2>1, <2>3, <3>1, <1>5, Names DEF Signalling, WorkerOK, Nobody
    <3>3. QED
      BY <1>1, <1>3, <2>1, <2>2, <3>1, <3>2 DEF Signalling, WorkerOK, Resting
  <2>4. CASE v = w /\ WorkerWake(w)
    <3>1. /\ worker'[w] = IF data[w] = Itself THEN "exited" ELSE "work"
          /\ mutex'[w] /\ ~mutex[w] /\ worker[w] = "wait"
          /\ list_lock' = list_lock
      BY <1>0, <2>4
    <3>2. w \in InStack(busy_threads) \cup InStack(idle_threads) \/ w = joined
      BY <3>1 DEF PoolInv, StacksOK, Alive
    <3>3. QED
      BY <1>1, <1>3, <2>1, <2>2, <2>4, <3>1, <3>2
         DEF Signalling, WorkerOK, Resting, PoolInv, StacksOK
  <2>5. CASE v = w /\ (WorkerRun(w) \/ WorkerDeliver(w))
    <3>1. /\ worker'[w] \in {"deliver", "finish"}
          /\ worker[w] \in {"work", "deliver"}
          /\ mutex'[w] = mutex[w] /\ list_lock' = list_lock
      BY <1>0, <2>5
    <3>2. QED
      BY <1>1, <1>3, <2>1, <2>2, <2>5, <3>1, FinishingIsBusy
         DEF Signalling, WorkerOK, Resting
  <2>6. CASE v = w /\ WorkerSignal(w)
    <3>1. /\ worker'[w] = "broadcast" /\ worker[w] = "signal"
          /\ mutex'[w] = mutex[w] /\ list_lock' = list_lock
      BY <1>0, <2>6
    <3>2. w \in InStack(busy_threads) \cup InStack(idle_threads) \/ w = joined
      BY <3>1 DEF PoolInv, StacksOK, Alive
    <3>3. QED
      BY <1>1, <1>3, <2>1, <2>2, <2>6, <3>1, <3>2
         DEF Signalling, WorkerOK, Resting
  <2>7. CASE v = w /\ WorkerBroadcast(w)
    <3>1. /\ worker'[w] = "wait" /\ worker[w] = "broadcast"
          /\ mutex'[w] = mutex[w] /\ list_lock' = Nobody
      BY <1>0, <2>7
    <3>2. w \in InStack(busy_threads) \cup InStack(idle_threads) \/ w = joined
      BY <3>1 DEF PoolInv, StacksOK, Alive
    <3>3. w # Nobody
      BY Names DEF Nobody
    <3>4. QED
      BY <1>1, <1>3, <2>1, <2>2, <2>7, <3>1, <3>2, <3>3
         DEF Signalling, WorkerOK, Resting
  <2>8. QED
    BY <2>3, <2>4, <2>5, <2>6, <2>7
<1>8. QED
  BY <1>3, <1>6, <1>7 DEF PoolInv

(* A worker done with its task becomes the latest idle one, and signals    *)
(* whoever waits for one.                                                  *)
LEMMA FinishPool ==
  ASSUME TypeOK, PoolInv, NEW w \in Workers, WorkerFinish(w)
  PROVE  PoolInv'
<1> USE DEF WorkerFinish
<1>0. /\ worker \in [Workers -> WorkerPlaces]
      /\ data \in [Workers -> {Itself} \cup Tasks]
      /\ busy_threads \in Seq(Workers) /\ idle_threads \in Seq(Workers)
      /\ UNCHANGED <<joined, created, task, caller, mutex>>
  BY DEF TypeOK, bounds
<1>1. /\ w \in InStack(busy_threads) /\ w \notin InStack(idle_threads)
      /\ mutex[w] /\ w # joined
  BY FinishingIsBusy
<1>2. /\ InStack(busy_threads)' = InStack(busy_threads) \ {w}
      /\ InStack(idle_threads)' = InStack(idle_threads) \cup {w}
      /\ Distinct(busy_threads)' /\ Distinct(idle_threads)'
  <2>1. Distinct(busy_threads) /\ Distinct(idle_threads)
    BY DEF PoolInv, StacksOK
  <2>2. /\ InStack(Removed(busy_threads, w)) = InStack(busy_threads) \ {w}
        /\ Distinct(Removed(busy_threads, w))
    BY <1>0, <1>1, <2>1, RemovedFromStack
  <2>3. /\ InStack(Pushed(idle_threads, w)) = InStack(idle_threads) \cup {w}
        /\ Distinct(Pushed(idle_threads, w))
    <3>1. idle_threads \in Seq(Workers) /\ w \notin InStack(idle_threads)
          /\ Distinct(idle_threads)
      BY <1>0, <1>1, <2>1
    <3> HIDE DEF WorkerFinish
    <3>2. QED
      BY <3>1, PushedStack
  <2>4. QED
    BY <2>2, <2>3
<1>3. /\ worker'[w] = IF is_open THEN "signal" ELSE "wait"
      /\ data'[w] = Itself
      /\ \A v \in Workers : v # w => worker'[v] = worker[v] /\ data'[v] = data[v]
  BY <1>0
<1>4. Alive' = Alive
  BY <1>3 DEF Alive
<1>5. StacksOK'
  BY <1>0, <1>1, <1>2, <1>4 DEF StacksOK, PoolInv
<1>6. list_lock' # Monitor /\ list_lock # Monitor
  BY Names DEF Nobody
<1>7. MonitorOK'
  BY <1>0, <1>6 DEF MonitorOK, PoolInv, Woken
<1>8. monitor # "reaping" /\ monitor' # "reaping"
  BY <1>6, <1>7 DEF MonitorOK, PoolInv
<1>9. ASSUME NEW v \in Workers PROVE WorkerOK(v)'
  <2>1. WorkerOK(v)
    BY DEF PoolInv
  <2>2. ~Chosen(v)' /\ ~Chosen(v)
    BY <1>8 DEF Chosen
  <2>3. Signalling(v)' <=> list_lock' = v
    <3>1. v # Nobody
      BY Names DEF Nobody
    <3>2. QED
      BY <2>1, <1>3, <3>1 DEF Signalling, WorkerOK
  <2>4. QED
    BY <1>0, <1>1, <1>2, <1>3, <2>1, <2>2, <2>3 DEF Signalling, WorkerOK, Resting
<1>10. QED
  BY <1>5, <1>7, <1>9 DEF PoolInv

(* The latest idle worker gets the task, at once or after the wait.        *)
LEMMA HandPool ==
  ASSUME TypeOK, PoolInv, monitor \in {"task", "wake_idle"},
         list_lock = Nobody, idle_threads # <<>>,
         busy_threads' = Pushed(busy_threads, Head(idle_threads)),
         idle_threads' = Tail(idle_threads),
         Handed(Head(idle_threads)),
         UNCHANGED <<joined, worker, created, caller>>
  PROVE  PoolInv'
<1> DEFINE h == Head(idle_threads)
<1>0. /\ worker \in [Workers -> WorkerPlaces]
      /\ mutex \in [Workers -> BOOLEAN]
      /\ data \in [Workers -> {Itself} \cup Tasks]
      /\ busy_threads \in Seq(Workers) /\ idle_threads \in Seq(Workers)
      /\ Distinct(busy_threads) /\ Distinct(idle_threads)
  BY DEF TypeOK, PoolInv, StacksOK
<1>1. /\ h \in Workers /\ h \in InStack(idle_threads)
      /\ Distinct(idle_threads)'
      /\ InStack(idle_threads)' = InStack(idle_threads) \ {h}
  BY <1>0, PoppedStack
<1>2. h \notin InStack(busy_threads) /\ h # joined
  BY <1>1 DEF PoolInv, StacksOK
<1>3. /\ InStack(busy_threads)' = InStack(busy_threads) \cup {h}
      /\ Distinct(busy_threads)'
  <2> HIDE DEF h
  <2>1. /\ InStack(Pushed(busy_threads, h)) = InStack(busy_threads) \cup {h}
        /\ Distinct(Pushed(busy_threads, h))
    BY <1>0, <1>1, <1>2, PushedStack
  <2>2. QED
    BY <2>1 DEF h
<1> HIDE DEF h
<1>4. StacksOK'
  <2>1. Alive' = Alive
    BY DEF Alive
  <2>2. QED
    BY <1>1, <1>2, <1>3, <2>1 DEF StacksOK, PoolInv
<1>5. /\ monitor' = "pop" /\ task' = 0 /\ list_lock' = Nobody
      /\ data'[h] = task /\ ~mutex'[h]
      /\ \A v \in Workers : v # h => data'[v] = data[v] /\ mutex'[v] = mutex[v]
  BY <1>0, <1>1 DEF Handed, h
<1>6. MonitorOK /\ task # 0 /\ joined = 0
  BY DEF PoolInv, MonitorOK
<1>7. MonitorOK'
  BY <1>5, <1>6, Names DEF MonitorOK, Nobody
<1>8. ~Chosen(h) /\ \A v \in Workers : ~Chosen(v)' /\ ~Chosen(v)
  BY <1>5 DEF Chosen
<1>9. worker[h] = "wait" /\ worker' = worker
  <2>1. WorkerOK(h) /\ h # list_lock
    BY <1>1, Names DEF PoolInv, Nobody
  <2>2. QED
    BY <2>1, <1>1 DEF Signalling, WorkerOK
<1>10. ASSUME NEW v \in Workers PROVE WorkerOK(v)'
  <2>1. WorkerOK(v)
    BY DEF PoolInv
  <2>2. CASE v = h
    BY <1>1, <1>2, <1>3, <1>5, <1>6, <1>8, <1>9, <2>1, <2>2, Names
       DEF Signalling, WorkerOK, Resting, Itself, Nobody
  <2>3. CASE v # h
    BY <1>1, <1>2, <1>3, <1>5, <1>6, <1>8, <1>9, <2>1, <2>3
       DEF Signalling, WorkerOK, Resting
  <2>4. QED
    BY <2>2, <2>3
<1>11. QED
  BY <1>4, <1>7, <1>10 DEF PoolInv

(* Both ends of the stack of idle workers leave it: the latest is chosen   *)
(* for the task, the oldest is told to exit.                               *)
LEMMA ReapPool ==
  ASSUME TypeOK, PoolInv, TaskAndReap
  PROVE  PoolInv'
<1> DEFINE h == Head(idle_threads)
           j == Bottom(idle_threads)
<1> USE DEF TaskAndReap
<1>0. /\ mutex \in [Workers -> BOOLEAN]
      /\ busy_threads \in Seq(Workers) /\ idle_threads \in Seq(Workers)
      /\ Distinct(busy_threads) /\ Distinct(idle_threads)
      /\ UNCHANGED <<caller, worker, data, created, task>>
      /\ Len(idle_threads) > 1 /\ idle_threads # <<>>
      /\ busy_threads' = Pushed(busy_threads, h)
      /\ idle_threads' = WithoutBottom(Tail(idle_threads))
      /\ joined' = j /\ monitor = "task" /\ monitor' = "reaping"
      /\ mutex' = [mutex EXCEPT ![j] = FALSE]
      /\ list_lock = Nobody /\ list_lock' = Monitor
  BY DEF TypeOK, PoolInv, StacksOK, bounds
<1> HIDE DEF TaskAndReap, h, j
<1>1. /\ h \in Workers /\ h \in InStack(idle_threads)
      /\ Tail(idle_threads) \in Seq(Workers) /\ Distinct(Tail(idle_threads))
      /\ InStack(Tail(idle_threads)) = InStack(idle_threads) \ {h}
  BY <1>0, PoppedStack DEF h
<1>2. /\ j \in Workers /\ j \in InStack(idle_threads)
  BY <1>0, BottomOfStack DEF j
<1>3. /\ Tail(idle_threads) # <<>> /\ Bottom(Tail(idle_threads)) = j
      /\ h # j
  BY <1>0, BothEndsOfStack DEF h, j
<1>4. /\ Distinct(idle_threads)'
      /\ InStack(idle_threads)' = InStack(idle_threads) \ {h, j}
  <2>1. /\ Distinct(WithoutBottom(Tail(idle_threads)))
        /\ InStack(WithoutBottom(Tail(idle_threads)))
             = InStack(Tail(idle_threads)) \ {j}
    BY <1>1, <1>3, BottomOfStack
  <2>2. QED
    BY <2>1, <1>0, <1>1
<1>5. h \notin InStack(busy_threads) /\ j \notin InStack(busy_threads)
  BY <1>1, <1>2 DEF PoolInv, StacksOK
<1>6. /\ InStack(busy_threads)' = InStack(busy_threads) \cup {h}
      /\ Distinct(busy_threads)' /\ busy_threads' # <<>>
      /\ Head(busy_threads') = h
  <2>1. /\ busy_threads \in Seq(Workers) /\ h \in Workers
        /\ Distinct(busy_threads) /\ h \notin InStack(busy_threads)
    BY <1>0, <1>1, <1>5
  <2>2. /\ InStack(Pushed(busy_threads, h)) = InStack(busy_threads) \cup {h}
        /\ Distinct(Pushed(busy_threads, h))
        /\ Pushed(busy_threads, h) # <<>>
        /\ Head(Pushed(busy_threads, h)) = h
    BY <2>1, PushedStack
  <2>3. QED
    BY <2>2, <1>0
<1>7. MonitorOK /\ task # 0 /\ joined = 0 /\ j # 0
  BY <1>0, <1>2, Names DEF PoolInv, MonitorOK
<1>8. StacksOK'
  <2>1. Alive' = Alive
    BY <1>0 DEF Alive
  <2>2. QED
    BY <1>0, <1>1, <1>2, <1>3, <1>4, <1>5, <1>6, <1>7, <2>1
       DEF StacksOK, PoolInv
<1>9. MonitorOK'
  BY <1>0, <1>6, <1>7 DEF MonitorOK
<1>10. \A v \in Workers : /\ v # Nobody /\ v # Monitor /\ v # 0
                          /\ (~Chosen(v)) /\ (Chosen(v)' <=> v = h)
                          /\ ~Signalling(v)
                          /\ v # j => mutex'[v] = mutex[v]
                          /\ v = j => ~mutex'[v]
  BY <1>0, <1>6, Names DEF Chosen, Nobody, PoolInv, Signalling, WorkerOK
<1>11. ASSUME NEW v \in Workers PROVE WorkerOK(v)'
  <2>1. WorkerOK(v)
    BY DEF PoolInv
  <2>2. CASE v = h
    BY <1>0, <1>1, <1>3, <1>4, <1>5, <1>6, <1>10, <2>1, <2>2
       DEF Signalling, WorkerOK, Resting
  <2>3. CASE v = j
    BY <1>0, <1>2, <1>3, <1>4, <1>5, <1>6, <1>10, <2>1, <2>3
       DEF Signalling, WorkerOK, Resting
  <2>4. CASE v # h /\ v # j
    BY <1>0, <1>4, <1>6, <1>10, <2>1, <2>4 DEF Signalling, WorkerOK, Resting
  <2>5. QED
    BY <2>2, <2>3, <2>4
<1>12. QED
  BY <1>8, <1>9, <1>11 DEF PoolInv

(* The reaped worker is gone and the chosen one gets the task.             *)
LEMMA ReapedPool ==
  ASSUME TypeOK, PoolInv, Reaped
  PROVE  PoolInv'
<1> DEFINE h == Head(busy_threads)
<1>0. /\ worker \in [Workers -> WorkerPlaces]
      /\ mutex \in [Workers -> BOOLEAN]
      /\ data \in [Workers -> {Itself} \cup Tasks]
      /\ busy_threads \in Seq(Workers)
      /\ UNCHANGED <<busy_threads, idle_threads, created, caller>>
      /\ monitor = "reaping" /\ worker[joined] = "exited"
      /\ worker' = [worker EXCEPT ![joined] = "none"]
      /\ joined' = 0 /\ Handed(h)
  BY DEF TypeOK, Reaped, Joined, bounds
<1>1. /\ MonitorOK /\ joined # 0 /\ joined \in Workers /\ busy_threads # <<>>
      /\ task # 0
  BY <1>0 DEF MonitorOK, PoolInv, TypeOK
<1>2. h \in Workers /\ h \in InStack(busy_threads)
  BY <1>0, <1>1, PoppedStack
<1> HIDE DEF h
<1>3. h # joined /\ h \notin InStack(idle_threads)
  BY <1>2 DEF PoolInv, StacksOK
<1>4. /\ InStack(busy_threads)' = InStack(busy_threads)
      /\ InStack(idle_threads)' = InStack(idle_threads)
      /\ Distinct(busy_threads)' /\ Distinct(idle_threads)'
  BY <1>0 DEF PoolInv, StacksOK
<1>5. Alive' = Alive \ {joined}
  BY <1>0, <1>1 DEF Alive
<1>6. StacksOK'
  BY <1>0, <1>1, <1>4, <1>5, Names DEF StacksOK, PoolInv
<1>7. /\ monitor' = "pop" /\ task' = 0 /\ list_lock' = Nobody
      /\ data'[h] = task /\ ~mutex'[h]
      /\ \A v \in Workers : v # h => data'[v] = data[v] /\ mutex'[v] = mutex[v]
  BY <1>0, <1>2 DEF Handed
<1>8. MonitorOK'
  BY <1>0, <1>1, <1>7, Names DEF MonitorOK, Nobody
<1>9. list_lock = Monitor
  BY <1>0, <1>1 DEF MonitorOK
<1>10. \A v \in Workers : /\ v # Nobody /\ v # Monitor /\ v # 0
                          /\ (Chosen(v) <=> v = h) /\ (~Chosen(v)')
  BY <1>0, <1>7, Names DEF Chosen, Nobody, h
<1>11. ASSUME NEW v \in Workers PROVE WorkerOK(v)'
  <2>1. WorkerOK(v)
    BY DEF PoolInv
  <2>2. CASE v = h
    BY <1>0, <1>1, <1>2, <1>3, <1>4, <1>7, <1>9, <1>10, <2>1, <2>2
       DEF Signalling, WorkerOK, Resting, Itself
  <2>3. CASE v = joined
    <3>1. /\ v \notin InStack(busy_threads) \cup InStack(idle_threads)
          /\ worker'[v] = "none" /\ data'[v] = Itself
      BY <1>0, <1>1, <1>3, <1>7, <2>1, <2>3 DEF Signalling, WorkerOK, PoolInv, StacksOK
    <3>2. QED
      BY <1>0, <1>4, <1>7, <1>10, <3>1 DEF Signalling, WorkerOK
  <2>4. CASE v # h /\ v # joined
    <3>1. worker'[v] = worker[v] /\ ~Signalling(v)
      BY <1>0, <1>9, <1>10, <2>1, <2>4 DEF Signalling, WorkerOK
    <3>2. QED
      BY <1>0, <1>4, <1>7, <1>10, <2>1, <2>4, <3>1 DEF Signalling, WorkerOK, Resting
  <2>5. QED
    BY <2>2, <2>3, <2>4
<1>12. QED
  BY <1>6, <1>8, <1>11 DEF PoolInv

(* A worker that was never there before is created for the task.           *)
LEMMA NewPool ==
  ASSUME TypeOK, PoolInv, TaskToNew
  PROVE  PoolInv'
<1> DEFINE h == created + 1
<1>0. /\ worker \in [Workers -> WorkerPlaces]
      /\ mutex \in [Workers -> BOOLEAN]
      /\ data \in [Workers -> {Itself} \cup Tasks]
      /\ busy_threads \in Seq(Workers)
      /\ Distinct(busy_threads)
      /\ UNCHANGED <<idle_threads, caller, joined>>
      /\ monitor = "task" /\ list_lock = Nobody
      /\ created \in Nat /\ created' = h /\ h \in Workers
      /\ worker' = [worker EXCEPT ![h] = "wait"]
      /\ busy_threads' = Pushed(busy_threads, h)
      /\ Handed(h)
  BY BoundsAssumption DEF TypeOK, TaskToNew, PoolInv, StacksOK, Workers
<1>1. h \notin Alive /\ worker[h] = "none"
  BY <1>0 DEF PoolInv, StacksOK, Alive
<1>2. MonitorOK /\ task # 0 /\ joined = 0
  BY <1>0 DEF MonitorOK, PoolInv
<1>3. /\ h \notin InStack(busy_threads) /\ h \notin InStack(idle_threads)
      /\ h # joined
  BY <1>0, <1>1, <1>2, Names DEF PoolInv, StacksOK
<1>a. 1 .. created \subseteq 1 .. h /\ h \in 1 .. h
  BY <1>0
<1> HIDE DEF h
<1>4. /\ InStack(busy_threads)' = InStack(busy_threads) \cup {h}
      /\ Distinct(busy_threads)'
      /\ InStack(idle_threads)' = InStack(idle_threads)
      /\ Distinct(idle_threads)'
  <2>1. /\ InStack(Pushed(busy_threads, h)) = InStack(busy_threads) \cup {h}
        /\ Distinct(Pushed(busy_threads, h))
    <3>1. /\ busy_threads \in Seq(Workers) /\ h \in Workers
          /\ Distinct(busy_threads) /\ h \notin InStack(busy_threads)
      BY <1>0, <1>3
    <3>2. QED
      BY <3>1, PushedStack
  <2>2. QED
    BY <2>1, <1>0 DEF PoolInv, StacksOK
<1>5. Alive' = Alive \cup {h}
  BY <1>0 DEF Alive
<1>6. StacksOK'
  <2>1. Alive' \subseteq 1 .. created'
    BY <1>0, <1>a, <1>5 DEF StacksOK, PoolInv
  <2>2. QED
    BY <1>0, <1>3, <1>4, <1>5, <2>1 DEF StacksOK, PoolInv
<1>7. /\ monitor' = "pop" /\ task' = 0 /\ list_lock' = Nobody
      /\ data'[h] = task /\ ~mutex'[h]
      /\ \A v \in Workers : v # h => data'[v] = data[v] /\ mutex'[v] = mutex[v]
  BY <1>0 DEF Handed
<1>8. MonitorOK'
  BY <1>0, <1>2, <1>7, Names DEF MonitorOK, Nobody
<1>9. \A v \in Workers : /\ v # Nobody
                         /\ (~Chosen(v)) /\ (~Chosen(v)')
  BY <1>0, <1>7, Names DEF Chosen, Nobody
<1>10. ASSUME NEW v \in Workers PROVE WorkerOK(v)'
  <2>1. WorkerOK(v)
    BY DEF PoolInv
  <2>2. CASE v = h
    <3>1. worker'[v] = "wait"
      BY <1>0, <2>2
    <3>2. QED
      BY <1>0, <1>2, <1>3, <1>4, <1>7, <1>9, <2>2, <3>1 DEF Signalling, WorkerOK, Itself
  <2>3. CASE v # h
    <3>1. worker'[v] = worker[v]
      BY <1>0, <2>3
    <3>2. QED
      BY <1>0, <1>4, <1>7, <1>9, <2>1, <2>3, <3>1 DEF Signalling, WorkerOK, Resting
  <2>4. QED
    BY <2>2, <2>3
<1>11. QED
  BY <1>6, <1>8, <1>10 DEF PoolInv

(* The monitor ends: the oldest idle worker is told to exit.               *)
LEMMA StopIdlePool ==
  ASSUME TypeOK, PoolInv, StopIdle
  PROVE  PoolInv'
<1> DEFINE j == Bottom(idle_threads)
<1>0. /\ mutex \in [Workers -> BOOLEAN]
      /\ idle_threads \in Seq(Workers) /\ Distinct(idle_threads)
      /\ UNCHANGED <<caller, worker, data, created, task, list_lock,
                     busy_threads>>
      /\ idle_threads # <<>>
      /\ idle_threads' = WithoutBottom(idle_threads)
      /\ joined' = j /\ monitor = "stopping" /\ monitor' = "joining"
      /\ mutex' = [mutex EXCEPT ![j] = FALSE]
  BY DEF TypeOK, PoolInv, StacksOK, bounds, StopIdle
<1>1. /\ j \in Workers /\ j \in InStack(idle_threads)
      /\ Distinct(idle_threads)'
      /\ InStack(idle_threads)' = InStack(idle_threads) \ {j}
  BY <1>0, BottomOfStack
<1> HIDE DEF j
<1>2. j \notin InStack(busy_threads)
  BY <1>1 DEF PoolInv, StacksOK
<1>3. MonitorOK /\ joined = 0 /\ j # 0 /\ list_lock = Monitor
  BY <1>0, <1>1, Names DEF PoolInv, MonitorOK
<1>4. /\ InStack(busy_threads)' = InStack(busy_threads)
      /\ Distinct(busy_threads)'
  BY <1>0 DEF PoolInv, StacksOK
<1>5. StacksOK'
  <2>1. Alive' = Alive
    BY <1>0 DEF Alive
  <2>2. QED
    BY <1>0, <1>1, <1>2, <1>3, <1>4, <2>1 DEF StacksOK, PoolInv
<1>6. MonitorOK'
  BY <1>0, <1>3 DEF MonitorOK
<1>7. \A v \in Workers : /\ v # Monitor /\ v # 0
                         /\ (~Chosen(v)) /\ (~Chosen(v)')
                         /\ ~Signalling(v)
                         /\ v # j => mutex'[v] = mutex[v]
                         /\ v = j => ~mutex'[v]
  BY <1>0, <1>3, Names DEF Chosen, PoolInv, Signalling, WorkerOK
<1>8. ASSUME NEW v \in Workers PROVE WorkerOK(v)'
  <2>1. WorkerOK(v)
    BY DEF PoolInv
  <2>2. CASE v = j
    BY <1>0, <1>1, <1>2, <1>3, <1>4, <1>7, <2>1, <2>2 DEF Signalling, WorkerOK, Resting
  <2>3. CASE v # j
    BY <1>0, <1>1, <1>3, <1>4, <1>7, <2>1, <2>3 DEF Signalling, WorkerOK, Resting
  <2>4. QED
    BY <2>2, <2>3
<1>9. QED
  BY <1>5, <1>6, <1>8 DEF PoolInv

(* That worker is gone.                                                    *)
LEMMA StoppedPool ==
  ASSUME TypeOK, PoolInv, Stopped
  PROVE  PoolInv'
<1>0. /\ worker \in [Workers -> WorkerPlaces]
      /\ UNCHANGED <<busy_threads, idle_threads, created, caller, task,
                     list_lock, mutex, data>>
      /\ monitor = "joining" /\ monitor' = "stopping"
      /\ worker[joined] = "exited"
      /\ worker' = [worker EXCEPT ![joined] = "none"]
      /\ joined' = 0
  BY DEF TypeOK, Stopped, Joined, bounds
<1>1. MonitorOK /\ joined \in Workers /\ joined # 0
  BY <1>0 DEF MonitorOK, PoolInv, TypeOK
<1>2. /\ InStack(busy_threads)' = InStack(busy_threads)
      /\ InStack(idle_threads)' = InStack(idle_threads)
      /\ Distinct(busy_threads)' /\ Distinct(idle_threads)'
  BY <1>0 DEF PoolInv, StacksOK
<1>3. Alive' = Alive \ {joined}
  BY <1>0, <1>1 DEF Alive
<1>4. StacksOK'
  BY <1>0, <1>1, <1>2, <1>3, Names DEF StacksOK, PoolInv
<1>5. MonitorOK'
  BY <1>0, <1>1 DEF MonitorOK
<1>6. \A v \in Workers : v # 0 /\ (~Chosen(v)) /\ (~Chosen(v)')
  BY <1>0, Names DEF Chosen
<1>7. ASSUME NEW v \in Workers PROVE WorkerOK(v)'
  <2>1. WorkerOK(v)
    BY DEF PoolInv
  <2>2. CASE v = joined
    <3>1. /\ v \notin InStack(busy_threads) \cup InStack(idle_threads)
          /\ worker'[v] = "none" /\ data'[v] = Itself /\ list_lock' # v
      BY <1>0, <1>1, <2>1, <2>2 DEF Signalling, WorkerOK, PoolInv, StacksOK
    <3>2. QED
      BY <1>0, <1>2, <1>6, <3>1 DEF Signalling, WorkerOK
  <2>3. CASE v # joined
    <3>1. worker'[v] = worker[v]
      BY <1>0, <2>3
    <3>2. QED
      BY <1>0, <1>2, <1>6, <2>1, <2>3, <3>1 DEF Signalling, WorkerOK, Resting
  <2>4. QED
    BY <2>2, <2>3
<1>8. QED
  BY <1>4, <1>5, <1>7 DEF PoolInv

(* Every step keeps the pool in order.                                     *)
LEMMA PoolStep ==
  ASSUME TypeOK, PoolInv, [Next]_vars
  PROVE  PoolInv'
<1> USE DEF MonitorOK, stacks, workers, bounds
<1>0. /\ MonitorOK /\ list_lock \in {Nobody, Monitor} \cup Workers
      /\ Monitor # Nobody
  BY Names DEF PoolInv, TypeOK, Nobody
<1>1. ASSUME NEW t \in Tasks, Push(t) PROVE PoolInv'
  BY <1>0, <1>1, PoolUnmoved DEF Push, Roused
<1>2. ASSUME NEW urgent \in BOOLEAN, StopUrgency(urgent) PROVE PoolInv'
  BY <1>0, <1>2, PoolUnmoved DEF StopUrgency
<1>3. ASSUME StartOpen PROVE PoolInv'
  BY <1>0, <1>3, PoolUnmoved DEF StartOpen
<1>4. ASSUME StartFails PROVE PoolInv'
  BY <1>0, <1>4, PoolUnmoved DEF StartFails
<1>5. ASSUME StartCount PROVE PoolInv'
  BY <1>0, <1>5, PoolUnmoved DEF StartCount
<1>6. ASSUME StartReport PROVE PoolInv'
  BY <1>0, <1>6, PoolUnmoved DEF StartReport
<1>7. ASSUME StopShut PROVE PoolInv'
  BY <1>0, <1>7, PoolUnmoved DEF StopShut
<1>8. ASSUME StopJoin PROVE PoolInv'
  BY <1>0, <1>8, PoolUnmoved DEF StopJoin
<1>9. ASSUME PopTask PROVE PoolInv'
  <2>1. task' # 0
    BY <1>9, PoppedStack, Names DEF PopTask, Q!Take, TypeOK, Q!TypeOK
  <2>2. QED
    BY <1>0, <1>9, <2>1, PoolUnmoved DEF PopTask
<1>10. ASSUME PopSignal PROVE PoolInv'
  BY <1>0, <1>10, PoolUnmoved DEF PopSignal
<1>11. ASSUME PopEnd PROVE PoolInv'
  BY <1>0, <1>11, PoolUnmoved DEF PopEnd
<1>12. ASSUME Signalled PROVE PoolInv'
  BY <1>0, <1>12, PoolUnmoved DEF Signalled
<1>13. ASSUME TaskMustWait PROVE PoolInv'
  BY <1>0, <1>13, PoolUnmoved DEF TaskMustWait
<1>14. ASSUME Ended PROVE PoolInv'
  BY <1>0, <1>14, PoolUnmoved DEF Ended
<1>15. ASSUME StopMustWait PROVE PoolInv'
  BY <1>0, <1>15, PoolUnmoved DEF StopMustWait
<1>16. ASSUME StopAfterWait PROVE PoolInv'
  BY <1>0, <1>16, PoolUnmoved DEF StopAfterWait
<1>17. ASSUME Exit PROVE PoolInv'
  BY <1>0, <1>17, PoolUnmoved DEF Exit
<1>18. ASSUME SpuriousWake PROVE PoolInv'
  BY <1>0, <1>18, PoolUnmoved DEF SpuriousWake, Woken
<1>19. ASSUME TaskToIdle PROVE PoolInv'
  BY <1>19, HandPool DEF TaskToIdle
<1>20. ASSUME TaskAfterWait PROVE PoolInv'
  <2>1. CASE idle_threads = <<>>
    BY <1>0, <1>20, <2>1, PoolUnmoved DEF TaskAfterWait
  <2>2. CASE idle_threads # <<>>
    BY <1>20, <2>2, HandPool DEF TaskAfterWait
  <2>3. QED
    BY <2>1, <2>2
<1>21. ASSUME Collect PROVE PoolInv'
  BY <1>0, <1>21, PoolUnmoved DEF Collect
<1>22. ASSUME NEW w \in Workers, WorkerStep(w) PROVE PoolInv'
  BY <1>22, WorkerPool, FinishPool DEF WorkerStep
<1>23. ASSUME PopTest PROVE PoolInv'
  BY <1>0, <1>23, PoolUnmoved DEF PopTest
<1>24. ASSUME PopSleep PROVE PoolInv'
  BY <1>0, <1>24, PoolUnmoved DEF PopSleep
<1>25. ASSUME StopWake PROVE PoolInv'
  BY <1>0, <1>25, PoolUnmoved DEF StopWake, Roused
<1>26. ASSUME UNCHANGED vars PROVE PoolInv'
  BY <1>0, <1>26, PoolUnmoved DEF vars
<1>27. QED
  BY <1>1, <1>2, <1>3, <1>4, <1>5, <1>6, <1>7, <1>8, <1>9, <1>10, <1>11, <1>12, <1>13, <1>14, <1>15, <1>16, <1>17, <1>18, <1>19, <1>20, <1>21, <1>22, <1>23, <1>24, <1>25, <1>26,
     ReapPool, ReapedPool, NewPool, StopIdlePool, StoppedPool
     DEF Next, StartStep, StopStep, MonitorStep

LEMMA PoolInit == Init => TypeOK /\ PoolInv
<1> SUFFICES ASSUME Init PROVE TypeOK /\ PoolInv
  OBVIOUS
<1>1. TypeOK
  <2>1. is_open \in BOOLEAN /\ running \in BOOLEAN /\ busy \in BOOLEAN
        /\ signal \in BOOLEAN /\ urgent_close \in BOOLEAN
        /\ urged \in BOOLEAN
    BY Zenon DEF Init
  <2>2. QED
    BY <2>1, BoundsAssumption
       DEF Init, TypeOK, Q!TypeOK, CallerPlaces, MonitorPlaces, Popping,
           WorkerPlaces
<1>2. /\ InStack(busy_threads) = {} /\ InStack(idle_threads) = {}
      /\ Distinct(busy_threads) /\ Distinct(idle_threads)
  BY EmptyStack DEF Init
<1>3. Alive = {}
  BY DEF Init, Alive
<1>4. StacksOK
  BY <1>2, <1>3 DEF Init, StacksOK
<1>5. MonitorOK
  BY Names DEF Init, MonitorOK, Nobody
<1>6. \A w \in Workers : WorkerOK(w)
  BY <1>2, Names DEF Init, Signalling, WorkerOK, Nobody
<1>7. QED
  BY <1>1, <1>4, <1>5, <1>6 DEF PoolInv

(* Every variable keeps its type, and the pool stays in order.             *)
LEMMA PoolAlways == Spec => [](TypeOK /\ PoolInv)
<1>1. TypeOK /\ PoolInv /\ [Next]_vars => TypeOK' /\ PoolInv'
  BY TypeStep, PoolStep
<1>2. QED
  BY PoolInit, <1>1, PTL DEF Spec

(* threads_manager.cpp: every variable has its type in every state; the    *)
(* number of threads, a size_t, does too, whatever the sessions do to it.  *)
THEOREM TypeCorrect == Spec => []TypeOK
BY PoolAlways, PTL

-----------------------------------------------------------------------------
(* The tasks. A step that moves none, and no worker that carries one       *)
(* except to start running it.                                             *)
LEMMA TasksUnmoved ==
  ASSUME TypeOK, TaskInv,
         UNCHANGED <<contents, out, collected, accepted, runs, task, data>>,
         \A w \in Workers : data[w] # Itself =>
           worker'[w] = worker[w] \/ (worker[w] = "wait" /\ worker'[w] = "work")
  PROVE  TaskInv'
<1>1. /\ \A t \in Tasks : /\ (Queued(t)' <=> Queued(t))
                          /\ (Carried(t)' <=> Carried(t))
                          /\ (NoResult(t)' <=> NoResult(t))
      /\ Distinct(contents)' /\ Distinct(out)'
      /\ \A t \in Tasks : t \in InStack(out)' <=> t \in InStack(out)
  BY DEF TaskInv, Queued, Carried, NoResult
<1>2. ASSUME NEW t \in Tasks PROVE TaskOK(t)'
  <2>1. TaskOK(t)
    BY DEF TaskInv
  <2>2. t # Itself
    BY Names DEF Itself
  <2>3. (OutSize > 0 /\ runs[t] = 1 /\ NoResult(t)) =>
          \E w \in Workers : data'[w] = t /\ worker'[w] = "deliver"
    BY <2>1, <2>2 DEF TaskOK
  <2>4. QED
    BY <1>1, <2>1, <2>3 DEF TaskOK
<1>3. ASSUME NEW w \in Workers PROVE CarriedOK(w)'
  <2>1. CarriedOK(w)
    BY DEF TaskInv
  <2>2. data[w] # Itself => data[w] \in Tasks
    BY DEF TypeOK
  <2>3. QED
    BY <1>1, <2>1, <2>2 DEF CarriedOK
<1>4. QED
  BY <1>1, <1>2, <1>3 DEF TaskInv

(* A client's task enters the queue.                                       *)
LEMMA PushTask ==
  ASSUME TypeOK, TaskInv, NEW t \in Tasks, Push(t), UNCHANGED output
  PROVE  TaskInv'
<1>0. /\ contents \in Seq(Tasks) /\ contents' = Append(contents, t)
      /\ accepted' = accepted \cup {t} /\ t \notin accepted
      /\ UNCHANGED <<out, collected, runs, task, data, worker>>
  BY DEF TypeOK, Q!TypeOK, Push, Q!Put, output, workers
<1>1. /\ TaskOK(t) /\ (~Queued(t)) /\ t # task /\ (~Carried(t)) /\ runs[t] = 0
  BY <1>0 DEF TaskInv, TaskOK
<1>2. /\ Distinct(contents)' /\ Distinct(out)'
      /\ \A u \in Tasks : Queued(u)' <=> (Queued(u) \/ u = t)
  <2>1. /\ InStack(Append(contents, t)) = InStack(contents) \cup {t}
        /\ Distinct(Append(contents, t))
    BY <1>0, <1>1, AppendedQueue DEF TaskInv, Queued
  <2>2. QED
    BY <1>0, <2>1 DEF TaskInv, Queued
<1>3. /\ \A u \in Tasks : /\ (Carried(u)' <=> Carried(u))
                          /\ (NoResult(u)' <=> NoResult(u))
      /\ InStack(out)' = InStack(out)
  BY <1>0 DEF Carried, NoResult
<1>4. ASSUME NEW u \in Tasks PROVE TaskOK(u)'
  <2>1. TaskOK(u)
    BY DEF TaskInv
  <2>2. QED
    BY <1>0, <1>1, <1>2, <1>3, <2>1 DEF TaskOK
<1>5. ASSUME NEW w \in Workers PROVE CarriedOK(w)'
  <2>1. CarriedOK(w) /\ (data[w] # Itself => data[w] \in Tasks)
    BY DEF TaskInv, TypeOK
  <2>2. QED
    BY <1>0, <1>3, <2>1 DEF CarriedOK
<1>6. QED
  BY <1>2, <1>4, <1>5 DEF TaskInv

(* The monitor takes it out; it held none.                                 *)
LEMMA PopTaskTask ==
  ASSUME TypeOK, PoolInv, TaskInv, PopTask, UNCHANGED output
  PROVE  TaskInv'
<1> DEFINE t == Head(contents)
<1>0. /\ contents \in Seq(Tasks) /\ contents # <<>>
      /\ contents' = Tail(contents) /\ Distinct(contents)
      /\ task' = t /\ monitor = "pop"
      /\ UNCHANGED <<out, collected, accepted, runs, data, worker>>
  BY DEF TypeOK, Q!TypeOK, PopTask, Q!Take, output, workers, history, TaskInv
<1>1. /\ t \in Tasks /\ Queued(t) /\ Distinct(contents)'
      /\ InStack(contents)' = InStack(contents) \ {t}
  BY <1>0, PoppedStack DEF Queued
<1> HIDE DEF t
<1>2. /\ \A u \in Tasks : /\ (Queued(u)' <=> (Queued(u) /\ u # t))
                          /\ (Carried(u)' <=> Carried(u))
                          /\ (NoResult(u)' <=> NoResult(u))
      /\ InStack(out)' = InStack(out) /\ Distinct(out)'
  BY <1>0, <1>1 DEF Queued, Carried, NoResult, TaskInv
<1>3. task = 0
  BY <1>0 DEF PoolInv, MonitorOK
<1>4. ASSUME NEW u \in Tasks PROVE TaskOK(u)'
  <2>1. TaskOK(u) /\ u # task
    BY <1>3, Names DEF TaskInv
  <2>2. QED
    BY <1>0, <1>1, <1>2, <2>1 DEF TaskOK
<1>5. ASSUME NEW w \in Workers PROVE CarriedOK(w)'
  <2>1. CarriedOK(w) /\ (data[w] # Itself => data[w] \in Tasks)
    BY DEF TaskInv, TypeOK
  <2>2. QED
    BY <1>0, <1>2, <2>1 DEF CarriedOK
<1>6. QED
  BY <1>1, <1>2, <1>4, <1>5 DEF TaskInv

(* The monitor hands it to a worker that carries none and waits.           *)
LEMMA HandTask ==
  ASSUME TypeOK, TaskInv, task # 0, NEW h \in Workers, data[h] = Itself,
         Handed(h), worker'[h] = "wait",
         \A v \in Workers : data[v] # Itself => worker'[v] = worker[v],
         UNCHANGED <<contents, out, collected, accepted, runs>>
  PROVE  TaskInv'
<1>0. /\ task \in Tasks /\ data \in [Workers -> {Itself} \cup Tasks]
      /\ data'[h] = task /\ task' = 0 /\ task # Itself
      /\ \A v \in Workers : v # h => data'[v] = data[v]
  BY Names DEF TypeOK, Handed, Itself
<1>1. /\ Distinct(contents)' /\ Distinct(out)' /\ InStack(out)' = InStack(out)
      /\ \A u \in Tasks : /\ (Queued(u)' <=> Queued(u))
                          /\ (NoResult(u)' <=> NoResult(u))
  BY DEF TaskInv, Queued, NoResult
<1>2. \A u \in Tasks : /\ Carried(u)' <=> (Carried(u) \/ u = task)
                       /\ u # 0 /\ u # Itself
  BY <1>0, Names DEF Carried, Itself
<1>3. TaskOK(task)
  BY <1>0 DEF TaskInv
<1>4. ~Carried(task) /\ runs[task] = 0
  BY <1>3 DEF TaskOK
<1>5. ASSUME NEW u \in Tasks PROVE TaskOK(u)'
  <2>1. TaskOK(u)
    BY DEF TaskInv
  <2>2. (OutSize > 0 /\ runs[u] = 1 /\ NoResult(u)) =>
          \E w \in Workers : data'[w] = u /\ worker'[w] = "deliver"
    BY <1>0, <1>2, <2>1 DEF TaskOK
  <2>3. QED
    BY <1>0, <1>1, <1>2, <1>3, <2>1, <2>2 DEF TaskOK
<1>6. ASSUME NEW w \in Workers PROVE CarriedOK(w)'
  <2>1. /\ CarriedOK(w) /\ (data[w] # Itself => data[w] \in Tasks)
        /\ \A v \in Workers : data[v] # task
    BY <1>4 DEF TaskInv, TypeOK, Carried
  <2>2. CASE w = h
    BY <1>0, <1>4, <2>1, <2>2 DEF CarriedOK
  <2>3. CASE w # h
    BY <1>0, <1>1, <2>1, <2>3 DEF CarriedOK
  <2>4. QED
    BY <2>2, <2>3
<1>7. QED
  BY <1>1, <1>5, <1>6 DEF TaskInv

(* The worker runs it.                                                     *)
LEMMA RunTask ==
  ASSUME TypeOK, PoolInv, TaskInv, NEW w \in Workers, WorkerRun(w),
         UNCHANGED output
  PROVE  TaskInv'
<1> DEFINE d == data[w]
<1>0. /\ worker \in [Workers -> WorkerPlaces] /\ runs \in [Tasks -> Nat]
      /\ worker[w] = "work"
      /\ worker' = [worker EXCEPT ![w] =
                      IF OutSize > 0 THEN "deliver" ELSE "finish"]
      /\ runs' = [runs EXCEPT ![d] = @ + 1]
      /\ UNCHANGED <<contents, out, collected, accepted, task, data>>
  BY DEF TypeOK, WorkerRun, queue, output
<1>1. d # Itself /\ d \in Tasks
  BY <1>0, FinishingIsBusy DEF TypeOK
<1>2. CarriedOK(w) /\ runs[d] = 0 /\ TaskOK(d) /\ Carried(d)
  BY <1>0, <1>1 DEF TaskInv, CarriedOK, Carried
<1>3. /\ NoResult(d) /\ (~Queued(d)) /\ d # task
      /\ \A v \in Workers : data[v] = d => v = w
  BY <1>1, <1>2 DEF TaskOK, CarriedOK
<1>4. /\ runs'[d] = 1 /\ \A u \in Tasks : u # d => runs'[u] = runs[u]
      /\ worker'[w] = IF OutSize > 0 THEN "deliver" ELSE "finish"
      /\ \A v \in Workers : v # w => worker'[v] = worker[v]
  BY <1>0, <1>1, <1>2
<1>d. data'[w] = d
  BY <1>0
<1> HIDE DEF d
<1>5. /\ Distinct(contents)' /\ Distinct(out)' /\ InStack(out)' = InStack(out)
      /\ \A u \in Tasks : /\ (Queued(u)' <=> Queued(u))
                          /\ (Carried(u)' <=> Carried(u))
                          /\ (NoResult(u)' <=> NoResult(u))
  BY <1>0 DEF TaskInv, Queued, Carried, NoResult
<1>6. ASSUME NEW u \in Tasks PROVE TaskOK(u)'
  <2>1. TaskOK(u)
    BY DEF TaskInv
  <2>2. (OutSize > 0 /\ runs'[u] = 1 /\ NoResult(u)) =>
          \E v \in Workers : data'[v] = u /\ worker'[v] = "deliver"
    <3>1. CASE u = d
      BY <3>1, <1>4, <1>d
    <3>2. CASE u # d
      BY <3>2, <1>0, <1>4, <1>d, <2>1 DEF TaskOK
    <3>3. QED
      BY <3>1, <3>2
  <2>3. CASE u = d
    BY <1>0, <1>2, <1>3, <1>4, <1>5, <2>1, <2>2, <2>3 DEF TaskOK
  <2>4. CASE u # d
    BY <1>0, <1>4, <1>5, <2>1, <2>2, <2>4 DEF TaskOK
  <2>5. QED
    BY <2>3, <2>4
<1>7. ASSUME NEW v \in Workers PROVE CarriedOK(v)'
  <2>1. CarriedOK(v) /\ (data[v] # Itself => data[v] \in Tasks)
    BY DEF TaskInv, TypeOK
  <2>2. CASE v = w
    BY <1>0, <1>1, <1>3, <1>4, <1>5, <1>d, <2>1, <2>2 DEF CarriedOK
  <2>3. CASE v # w
    <3>1. data[v] # d /\ worker'[v] = worker[v]
      BY <2>3, <1>3, <1>4
    <3>2. QED
      BY <1>0, <1>4, <1>5, <2>1, <3>1 DEF CarriedOK
  <2>4. QED
    BY <2>2, <2>3
<1>8. QED
  BY <1>5, <1>6, <1>7 DEF TaskInv

(* The worker pushes the result.                                           *)
LEMMA DeliverTask ==
  ASSUME TypeOK, PoolInv, TaskInv, NEW w \in Workers, WorkerDeliver(w)
  PROVE  TaskInv'
<1> DEFINE d == data[w]
<1>0. /\ worker \in [Workers -> WorkerPlaces] /\ out \in Seq(Tasks)
      /\ worker[w] = "deliver" /\ out' = Append(out, d)
      /\ worker' = [worker EXCEPT ![w] = "finish"]
      /\ UNCHANGED <<contents, collected, accepted, runs, task, data>>
  BY DEF TypeOK, WorkerDeliver, queue, history
<1>1. d # Itself /\ d \in Tasks
  BY <1>0, FinishingIsBusy DEF TypeOK
<1>2. /\ CarriedOK(w) /\ TaskOK(d) /\ runs[d] = 1 /\ NoResult(d)
      /\ \A v \in Workers : data[v] = d => v = w
  BY <1>0, <1>1 DEF TaskInv, CarriedOK
<1>3. /\ worker'[w] = "finish"
      /\ \A v \in Workers : v # w => worker'[v] = worker[v]
  BY <1>0
<1>d. data'[w] = d
  BY <1>0
<1> HIDE DEF d
<1>4. /\ Distinct(contents)' /\ Distinct(out)'
      /\ InStack(out)' = InStack(out) \cup {d}
  <2>1. /\ InStack(Append(out, d)) = InStack(out) \cup {d}
        /\ Distinct(Append(out, d))
    <3>1. d \notin InStack(out) /\ Distinct(out)
      BY <1>2 DEF NoResult, TaskInv
    <3>2. QED
      BY <1>0, <1>1, <3>1, AppendedQueue
  <2>2. QED
    BY <1>0, <2>1 DEF TaskInv
<1>5. \A u \in Tasks : /\ (Queued(u)' <=> Queued(u))
                       /\ (Carried(u)' <=> Carried(u))
                       /\ u # d => (NoResult(u)' <=> NoResult(u))
                       /\ u = d => ~NoResult(u)'
  BY <1>0, <1>4 DEF Queued, Carried, NoResult
<1>6. ASSUME NEW u \in Tasks PROVE TaskOK(u)'
  <2>1. TaskOK(u)
    BY DEF TaskInv
  <2>2. (OutSize > 0 /\ runs[u] = 1 /\ NoResult(u)') =>
          \E v \in Workers : data'[v] = u /\ worker'[v] = "deliver"
    <3>1. CASE u = d
      BY <3>1, <1>5
    <3>2. CASE u # d
      BY <3>2, <1>0, <1>3, <1>5, <1>d, <2>1 DEF TaskOK
    <3>3. QED
      BY <3>1, <3>2
  <2>3. CASE u = d
    BY <1>0, <1>2, <1>4, <1>5, <2>1, <2>2, <2>3 DEF TaskOK, NoResult
  <2>4. CASE u # d
    BY <1>0, <1>4, <1>5, <2>1, <2>2, <2>4 DEF TaskOK
  <2>5. QED
    BY <2>3, <2>4
<1>7. ASSUME NEW v \in Workers PROVE CarriedOK(v)'
  <2>1. CarriedOK(v) /\ (data[v] # Itself => data[v] \in Tasks)
    BY DEF TaskInv, TypeOK
  <2>2. CASE v = w
    BY <1>0, <1>2, <1>3, <1>5, <1>d, <2>1, <2>2 DEF CarriedOK
  <2>3. CASE v # w
    <3>1. data[v] # d /\ worker'[v] = worker[v]
      BY <2>3, <1>2, <1>3
    <3>2. QED
      BY <1>0, <1>5, <2>1, <3>1 DEF CarriedOK
  <2>4. QED
    BY <2>2, <2>3
<1>8. QED
  BY <1>4, <1>6, <1>7 DEF TaskInv

(* The worker forgets the task it has run.                                 *)
LEMMA FinishTask ==
  ASSUME TypeOK, PoolInv, TaskInv, NEW w \in Workers, WorkerFinish(w),
         UNCHANGED output
  PROVE  TaskInv'
<1> DEFINE d == data[w]
<1>0. /\ worker \in [Workers -> WorkerPlaces]
      /\ data \in [Workers -> {Itself} \cup Tasks]
      /\ worker[w] = "finish"
      /\ data' = [data EXCEPT ![w] = Itself]
      /\ worker' = [worker EXCEPT ![w] = IF is_open THEN "signal" ELSE "wait"]
      /\ UNCHANGED <<contents, out, collected, accepted, runs, task>>
  BY DEF TypeOK, WorkerFinish, queue, output, history
<1>1. d # Itself /\ d \in Tasks
  BY <1>0, FinishingIsBusy DEF TypeOK
<1>2. /\ CarriedOK(w) /\ TaskOK(d) /\ runs[d] = 1
      /\ \A v \in Workers : data[v] = d => v = w
  BY <1>0, <1>1 DEF TaskInv, CarriedOK
<1>3. OutSize > 0 => ~NoResult(d)
  BY <1>0, <1>2 DEF TaskOK
<1>4. /\ data'[w] = Itself
      /\ \A v \in Workers : v # w => /\ worker'[v] = worker[v]
                                     /\ data'[v] = data[v]
  BY <1>0
<1> HIDE DEF d
<1>5. /\ Distinct(contents)' /\ Distinct(out)' /\ InStack(out)' = InStack(out)
      /\ \A u \in Tasks : /\ (Queued(u)' <=> Queued(u))
                          /\ (NoResult(u)' <=> NoResult(u))
  BY <1>0 DEF TaskInv, Queued, NoResult
<1>6. \A u \in Tasks : u # Itself /\ (Carried(u)' <=> (Carried(u) /\ u # d))
  BY <1>2, <1>4, Names DEF Carried, Itself, d
<1>7. ASSUME NEW u \in Tasks PROVE TaskOK(u)'
  <2>1. TaskOK(u)
    BY DEF TaskInv
  <2>2. (OutSize > 0 /\ runs[u] = 1 /\ NoResult(u)) =>
          \E v \in Workers : data'[v] = u /\ worker'[v] = "deliver"
    <3>1. CASE u = d
      BY <3>1, <1>3
    <3>2. CASE u # d
      <4>1. SUFFICES ASSUME OutSize > 0, runs[u] = 1, NoResult(u)
                     PROVE  \E v \in Workers : data'[v] = u
                                               /\ worker'[v] = "deliver"
        OBVIOUS
      <4>2. PICK v \in Workers : data[v] = u /\ worker[v] = "deliver"
        BY <4>1, <2>1 DEF TaskOK
      <4>3. v # w
        BY <4>2, <1>0
      <4>4. QED
        BY <4>2, <4>3, <1>4
    <3>3. QED
      BY <3>1, <3>2
  <2>3. QED
    BY <1>0, <1>2, <1>5, <1>6, <2>1, <2>2 DEF TaskOK
<1>8. ASSUME NEW v \in Workers PROVE CarriedOK(v)'
  <2>1. CarriedOK(v) /\ (data[v] # Itself => data[v] \in Tasks)
    BY DEF TaskInv, TypeOK
  <2>2. CASE v = w
    BY <1>4, <2>2 DEF CarriedOK
  <2>3. CASE v # w
    BY <1>0, <1>4, <1>5, <2>1, <2>3 DEF CarriedOK
  <2>4. QED
    BY <2>2, <2>3
<1>9. QED
  BY <1>5, <1>7, <1>8 DEF TaskInv

(* The client takes a result.                                              *)
LEMMA CollectTask ==
  ASSUME TypeOK, TaskInv, Collect
  PROVE  TaskInv'
<1> DEFINE d == Head(out)
<1>0. /\ out \in Seq(Tasks) /\ out # <<>> /\ Distinct(out)
      /\ collected \in [Tasks -> Nat]
      /\ out' = Tail(out) /\ collected' = [collected EXCEPT ![d] = @ + 1]
      /\ UNCHANGED <<contents, accepted, runs, task, data, worker>>
  BY DEF TypeOK, Collect, queue, workers, history, TaskInv
<1>1. /\ d \in Tasks /\ d \in InStack(out) /\ Distinct(out)'
      /\ InStack(out)' = InStack(out) \ {d}
  BY <1>0, PoppedStack
<1> HIDE DEF d
<1>2. /\ TaskOK(d) /\ collected[d] = 0 /\ runs[d] = 1 /\ ~NoResult(d)
  BY <1>1 DEF TaskInv, TaskOK, NoResult
<1>3. /\ collected'[d] = 1
      /\ \A u \in Tasks : u # d => collected'[u] = collected[u]
  BY <1>0, <1>1, <1>2
<1>4. /\ Distinct(contents)'
      /\ \A u \in Tasks : /\ (Queued(u)' <=> Queued(u))
                          /\ (Carried(u)' <=> Carried(u))
                          /\ (NoResult(u)' <=> NoResult(u))
  BY <1>0, <1>1, <1>2, <1>3 DEF TaskInv, Queued, Carried, NoResult
<1>5. ASSUME NEW u \in Tasks PROVE TaskOK(u)'
  <2>1. TaskOK(u)
    BY DEF TaskInv
  <2>2. CASE u = d
    BY <1>0, <1>1, <1>2, <1>3, <1>4, <2>1, <2>2 DEF TaskOK
  <2>3. CASE u # d
    BY <1>0, <1>1, <1>3, <1>4, <2>1, <2>3 DEF TaskOK
  <2>4. QED
    BY <2>2, <2>3
<1>6. ASSUME NEW w \in Workers PROVE CarriedOK(w)'
  <2>1. CarriedOK(w) /\ (data[w] # Itself => data[w] \in Tasks)
    BY DEF TaskInv, TypeOK
  <2>2. QED
    BY <1>0, <1>4, <2>1 DEF CarriedOK
<1>7. QED
  BY <1>1, <1>4, <1>5, <1>6 DEF TaskInv

(* An idle worker carries nothing and, unless it holds the lock to signal, *)
(* waits.                                                                  *)
LEMMA IdleIsFree ==
  ASSUME TypeOK, PoolInv, idle_threads # <<>>, list_lock = Nobody
  PROVE  /\ Head(idle_threads) \in Workers
         /\ data[Head(idle_threads)] = Itself
         /\ worker[Head(idle_threads)] = "wait"
<1> DEFINE h == Head(idle_threads)
<1>1. h \in Workers /\ h \in InStack(idle_threads)
  BY PoppedStack DEF TypeOK
<1> HIDE DEF h
<1>2. WorkerOK(h) /\ h # list_lock
  BY <1>1, Names DEF PoolInv, Nobody
<1>3. QED
  BY <1>1, <1>2 DEF Signalling, WorkerOK, Resting, h

(* Every step keeps each task, and its result, in one place.               *)
LEMMA TaskStep ==
  ASSUME TypeOK, PoolInv, TaskInv, [Next]_vars
  PROVE  TaskInv'
<1> USE DEF queue, stacks, workers, bounds, output, history
<1>0. worker \in [Workers -> WorkerPlaces]
  BY DEF TypeOK
<1>1. ASSUME NEW t \in Tasks, Push(t), UNCHANGED output PROVE TaskInv'
  BY <1>1, PushTask
<1>2. ASSUME NEW urgent \in BOOLEAN, StopUrgency(urgent), UNCHANGED output
      PROVE  TaskInv'
  BY <1>2, TasksUnmoved DEF StopUrgency, Q!ChooseUrgency
<1>3. ASSUME PopTask, UNCHANGED output PROVE TaskInv'
  BY <1>3, PopTaskTask
<1>4. ASSUME TaskToIdle, UNCHANGED output PROVE TaskInv'
  <2>1. data[Head(idle_threads)] = Itself /\ Head(idle_threads) \in Workers
        /\ worker[Head(idle_threads)] = "wait"
    BY <1>4, IdleIsFree DEF TaskToIdle
  <2>2. task # 0
    BY <1>4 DEF TaskToIdle, PoolInv, MonitorOK
  <2>3. QED
    BY <1>4, <2>1, <2>2, HandTask DEF TaskToIdle
<1>5. ASSUME TaskAfterWait, UNCHANGED output PROVE TaskInv'
  <2>1. CASE idle_threads = <<>>
    BY <1>5, <2>1, TasksUnmoved DEF TaskAfterWait
  <2>2. CASE idle_threads # <<>>
    <3>1. data[Head(idle_threads)] = Itself /\ Head(idle_threads) \in Workers
          /\ worker[Head(idle_threads)] = "wait"
      BY <1>5, <2>2, IdleIsFree DEF TaskAfterWait
    <3>2. task # 0
      BY <1>5 DEF TaskAfterWait, PoolInv, MonitorOK
    <3>3. Handed(Head(idle_threads))
      BY <1>5, <2>2 DEF TaskAfterWait
    <3>4. QED
      BY <1>5, <3>1, <3>2, <3>3, HandTask DEF TaskAfterWait
  <2>3. QED
    BY <2>1, <2>2
<1>6. ASSUME Reaped, UNCHANGED output PROVE TaskInv'
  <2> DEFINE h == Head(busy_threads)
  <2>1. busy_threads # <<>> /\ task # 0 /\ joined # 0 /\ joined \in Workers
    BY <1>6 DEF Reaped, PoolInv, MonitorOK, TypeOK
  <2>2. h \in Workers /\ h \in InStack(busy_threads) /\ Chosen(h)
    BY <1>6, <2>1, PoppedStack DEF Reaped, TypeOK, Chosen
  <2>3. WorkerOK(h) /\ WorkerOK(joined) /\ h # joined
    BY <2>1, <2>2 DEF PoolInv, StacksOK
  <2>4. /\ data[h] = Itself /\ worker[h] = "wait" /\ data[joined] = Itself
    BY <2>2, <2>3 DEF Signalling, WorkerOK, Resting
  <2>5. /\ Handed(h)
        /\ UNCHANGED <<contents, out, collected, accepted, runs>>
        /\ worker' = [worker EXCEPT ![joined] = "none"]
    BY <1>6 DEF Reaped, Joined
  <2> HIDE DEF h
  <2>6. /\ worker'[h] = "wait"
        /\ \A v \in Workers : data[v] # Itself => worker'[v] = worker[v]
    BY <1>0, <2>2, <2>3, <2>4, <2>5
  <2>7. QED
    BY <2>1, <2>2, <2>4, <2>5, <2>6, HandTask
<1>7. ASSUME TaskToNew, UNCHANGED output PROVE TaskInv'
  <2> DEFINE h == created + 1
  <2>1. /\ h \in Workers /\ Handed(h) /\ monitor = "task"
        /\ worker' = [worker EXCEPT ![h] = "wait"]
        /\ UNCHANGED <<contents, out, collected, accepted, runs>>
        /\ created \in Nat
    BY <1>7, BoundsAssumption DEF TaskToNew, TypeOK, Workers
  <2>2. task # 0
    BY <2>1 DEF PoolInv, MonitorOK
  <2>3. h \notin Alive
    BY <2>1 DEF PoolInv, StacksOK
  <2> HIDE DEF h
  <2>4. data[h] = Itself
    BY <2>1, <2>3 DEF PoolInv, Signalling, WorkerOK, Alive
  <2>5. /\ worker'[h] = "wait"
        /\ \A v \in Workers : data[v] # Itself => worker'[v] = worker[v]
    BY <1>0, <2>1, <2>4
  <2>6. QED
    BY <2>1, <2>2, <2>4, <2>5, HandTask
<1>8. ASSUME Stopped, UNCHANGED output PROVE TaskInv'
  <2>1. joined # 0 /\ joined \in Workers
    BY <1>8 DEF Stopped, PoolInv, MonitorOK, TypeOK
  <2>2. data[joined] = Itself
    BY <2>1 DEF PoolInv, Signalling, WorkerOK
  <2>3. \A v \in Workers : data[v] # Itself => worker'[v] = worker[v]
    BY <1>0, <1>8, <2>2 DEF Stopped, Joined
  <2>4. QED
    BY <1>8, <2>3, TasksUnmoved DEF Stopped
<1>9. ASSUME NEW w \in Workers, WorkerWake(w), UNCHANGED output PROVE TaskInv'
  <2>1. \A v \in Workers : data[v] # Itself =>
          \/ worker'[v] = worker[v]
          \/ worker[v] = "wait" /\ worker'[v] = "work"
    BY <1>0, <1>9 DEF WorkerWake
  <2>2. QED
    BY <1>9, <2>1, TasksUnmoved DEF WorkerWake
<1>10. ASSUME NEW w \in Workers, WorkerSignal(w) \/ WorkerBroadcast(w),
              UNCHANGED output
       PROVE  TaskInv'
  <2>1. Signalling(w) /\ worker[w] # "none" /\ WorkerOK(w)
    BY <1>10 DEF WorkerSignal, WorkerBroadcast, PoolInv, Signalling
  <2>2. w \in InStack(busy_threads) \cup InStack(idle_threads) \/ w = joined
    BY <2>1 DEF PoolInv, StacksOK, Alive
  <2>3. data[w] = Itself
    BY <2>1, <2>2 DEF Signalling, WorkerOK, Resting
  <2>4. \A v \in Workers : data[v] # Itself => worker'[v] = worker[v]
    BY <1>0, <1>10, <2>3 DEF WorkerSignal, WorkerBroadcast
  <2>5. QED
    BY <1>10, <2>4, TasksUnmoved DEF WorkerSignal, Q!Signal, WorkerBroadcast
<1>11. ASSUME StartOpen, UNCHANGED output PROVE TaskInv'
  BY <1>11, TasksUnmoved DEF StartOpen, Q!Open
<1>12. ASSUME StartFails, UNCHANGED output PROVE TaskInv'
  BY <1>12, TasksUnmoved DEF StartFails, Q!Open
<1>13. ASSUME StartCount, UNCHANGED output PROVE TaskInv'
  BY <1>13, TasksUnmoved DEF StartCount
<1>14. ASSUME StartReport, UNCHANGED output PROVE TaskInv'
  BY <1>14, TasksUnmoved DEF StartReport
<1>15. ASSUME StopShut, UNCHANGED output PROVE TaskInv'
  BY <1>15, TasksUnmoved DEF StopShut, Q!Shut
<1>16. ASSUME StopJoin, UNCHANGED output PROVE TaskInv'
  BY <1>16, TasksUnmoved DEF StopJoin
<1>17. ASSUME PopSignal, UNCHANGED output PROVE TaskInv'
  BY <1>17, TasksUnmoved DEF PopSignal, Q!TakeSignal
<1>18. ASSUME PopEnd, UNCHANGED output PROVE TaskInv'
  BY <1>18, TasksUnmoved DEF PopEnd, Q!NothingToTake, Q!vars
<1>19. ASSUME Signalled, UNCHANGED output PROVE TaskInv'
  BY <1>19, TasksUnmoved DEF Signalled
<1>20. ASSUME TaskAndReap, UNCHANGED output PROVE TaskInv'
  BY <1>20, TasksUnmoved DEF TaskAndReap
<1>21. ASSUME TaskMustWait, UNCHANGED output PROVE TaskInv'
  BY <1>21, TasksUnmoved DEF TaskMustWait
<1>22. ASSUME Ended, UNCHANGED output PROVE TaskInv'
  BY <1>22, TasksUnmoved DEF Ended
<1>23. ASSUME StopIdle, UNCHANGED output PROVE TaskInv'
  BY <1>23, TasksUnmoved DEF StopIdle
<1>24. ASSUME StopMustWait, UNCHANGED output PROVE TaskInv'
  BY <1>24, TasksUnmoved DEF StopMustWait
<1>25. ASSUME StopAfterWait, UNCHANGED output PROVE TaskInv'
  BY <1>25, TasksUnmoved DEF StopAfterWait
<1>26. ASSUME Exit, UNCHANGED output PROVE TaskInv'
  BY <1>26, TasksUnmoved DEF Exit
<1>27. ASSUME SpuriousWake, UNCHANGED output PROVE TaskInv'
  BY <1>27, TasksUnmoved DEF SpuriousWake
<1>28. ASSUME PopTest \/ PopSleep \/ StopWake, UNCHANGED output
       PROVE  TaskInv'
  BY <1>28, TasksUnmoved DEF PopTest, PopSleep, StopWake
<1>29. ASSUME UNCHANGED vars PROVE TaskInv'
  BY <1>29, TasksUnmoved DEF vars
<1>30. QED
  BY <1>1, <1>2, <1>3, <1>4, <1>5, <1>6, <1>7, <1>8, <1>9, <1>10, <1>11, <1>12, <1>13, <1>14, <1>15, <1>16, <1>17, <1>18, <1>19, <1>20, <1>21, <1>22, <1>23, <1>24, <1>25, <1>26, <1>27, <1>28, <1>29,
     RunTask, DeliverTask, FinishTask, CollectTask
     DEF Next, StartStep, StopStep, MonitorStep, WorkerStep

LEMMA TaskInit == Init => TaskInv
<1> SUFFICES ASSUME Init PROVE TaskInv
  OBVIOUS
<1>1. /\ InStack(contents) = {} /\ InStack(out) = {}
      /\ Distinct(contents) /\ Distinct(out)
  BY EmptyStack DEF Init
<1>2. \A t \in Tasks : /\ (~Queued(t)) /\ (~Carried(t)) /\ NoResult(t)
                       /\ t # task
  BY <1>1, Names DEF Init, Queued, Carried, NoResult, Itself
<1>3. \A t \in Tasks : TaskOK(t)
  BY <1>1, <1>2 DEF Init, TaskOK
<1>4. \A w \in Workers : CarriedOK(w)
  BY DEF Init, CarriedOK
<1>5. QED
  BY <1>1, <1>3, <1>4 DEF TaskInv

(* What every step preserves, whatever the clients do.                     *)
LEMMA TasksAlways == Spec => [](TypeOK /\ PoolInv /\ TaskInv)
<1>1. Init => TypeOK /\ PoolInv /\ TaskInv
  BY PoolInit, TaskInit
<1>2. TypeOK /\ PoolInv /\ TaskInv /\ [Next]_vars
        => TypeOK' /\ PoolInv' /\ TaskInv'
  BY TypeStep, PoolStep, TaskStep
<1>3. QED
  BY <1>1, <1>2, PTL DEF Spec

(* A task's results: those collected and the one still in q_out.           *)
LEMMA ResultsOf ==
  ASSUME TypeOK, TaskInv, NEW t \in Tasks
  PROVE  /\ NoResult(t) => Results(t) = 0
         /\ (~NoResult(t)) => Results(t) = 1
<1>1. Cardinality({i \in 1 .. Len(out) : out[i] = t})
        = IF t \in InStack(out) THEN 1 ELSE 0
  BY CountedOnce DEF TypeOK, TaskInv
<1>2. TaskOK(t)
  BY DEF TaskInv
<1>3. QED
  BY <1>1, <1>2 DEF TaskOK, NoResult, Results

(* No task is run twice and no result comes out twice, or before the run:  *)
(* whoever pushes, even before start() has returned, and whatever happens  *)
(* to the workers.                                                         *)
THEOREM NothingRunsTwice == Spec => []RunsOnce
<1>1. TypeOK /\ TaskInv => RunsOnce
  <2>1. SUFFICES ASSUME TypeOK, TaskInv, NEW t \in Tasks
                 PROVE  Results(t) <= runs[t] /\ runs[t] <= 1
    BY DEF RunsOnce
  <2>2. TaskOK(t)
    BY <2>1 DEF TaskInv
  <2>3. CASE NoResult(t)
    BY <2>1, <2>2, <2>3, ResultsOf DEF TaskOK
  <2>4. CASE ~NoResult(t)
    BY <2>1, <2>2, <2>4, ResultsOf DEF TaskOK
  <2>5. QED
    BY <2>3, <2>4
<1>2. QED
  BY <1>1, TasksAlways, PTL

-----------------------------------------------------------------------------
(* The sessions. There are never more workers alive than were created.     *)
LEMMA AliveCount ==
  ASSUME TypeOK, PoolInv
  PROVE  /\ IsFiniteSet(Alive) /\ Cardinality(Alive) \in Nat
         /\ Cardinality(Alive) <= created
         /\ Cardinality(Alive) = 0 <=> Alive = {}
<1>1. created \in Nat /\ 1 \in Int
  BY DEF TypeOK
<1>2. IsFiniteSet(1 .. created) /\ Cardinality(1 .. created) <= created
  BY <1>1, FS_Interval
<1>3. Alive \in SUBSET (1 .. created)
  BY DEF PoolInv, StacksOK
<1>4. /\ IsFiniteSet(Alive)
      /\ Cardinality(Alive) <= Cardinality(1 .. created)
  BY <1>2, <1>3, FS_Subset
<1>5. Cardinality(Alive) \in Nat /\ Cardinality(1 .. created) \in Nat
  BY <1>2, <1>4, FS_CardinalityType
<1>6. QED
  BY <1>1, <1>2, <1>4, <1>5, FS_EmptySet

(* A worker that was joined is counted no more.                            *)
LEMMA JoinedCount ==
  ASSUME TypeOK, PoolInv, Joined, joined # 0, threads = Cardinality(Alive)
  PROVE  threads' = Cardinality(Alive)'
<1>1. joined \in Alive /\ Alive' = Alive \ {joined}
  BY DEF TypeOK, Joined, Alive
<1>2. Cardinality(Alive)' = Cardinality(Alive) - 1
  BY <1>1, AliveCount, FS_RemoveElement
<1>3. threads > 0 /\ threads \in 0 .. SizeT - 1
  BY <1>1, AliveCount DEF TypeOK
<1>4. threads' = threads - 1
  BY <1>3, SizeTArithmetic DEF Joined, OneThreadLess
<1>5. QED
  BY <1>2, <1>4

(* Every step keeps a session in order.                                    *)
LEMMA SessionStep ==
  ASSUME EarlyPush = FALSE, TypeOK, PoolInv, SessionInv, [Next]_vars
  PROVE  SessionInv'
<1> USE DEF SessionInv, MonitorOK, queue, stacks, workers, bounds, Closing,
            Popping
<1>0. MonitorOK /\ worker \in [Workers -> WorkerPlaces]
  BY DEF PoolInv, TypeOK
<1>a. (UNCHANGED worker) => Alive' = Alive
  BY DEF Alive
<1>b. \A w \in Workers : worker[w] # "none" => Alive # {}
  BY DEF Alive
<1>1. ASSUME NEW t \in Tasks, Push(t) PROVE SessionInv'
  BY <1>0, <1>a, <1>1 DEF Push, Q!Put, Roused
<1>2. ASSUME NEW urgent \in BOOLEAN, StopUrgency(urgent) PROVE SessionInv'
  BY <1>0, <1>a, <1>2 DEF StopUrgency, Q!ChooseUrgency
<1>3. ASSUME StartOpen PROVE SessionInv'
  BY <1>0, <1>a, <1>3 DEF StartOpen, Q!Open, history
<1>4. ASSUME StartFails PROVE SessionInv'
  BY <1>0, <1>a, <1>4 DEF StartFails, Q!Open, history
<1>5. ASSUME StartCount PROVE SessionInv'
  BY <1>0, <1>a, <1>5, AliveCount DEF StartCount, history
<1>6. ASSUME StartReport PROVE SessionInv'
  BY <1>0, <1>a, <1>6 DEF StartReport, history
<1>7. ASSUME StopShut PROVE SessionInv'
  BY <1>0, <1>a, <1>7 DEF StopShut, Q!Shut, history
<1>8. ASSUME StopJoin PROVE SessionInv'
  BY <1>0, <1>a, <1>8 DEF StopJoin, history
<1>9. ASSUME PopTask PROVE SessionInv'
  BY <1>0, <1>a, <1>9 DEF PopTask, Q!Take, history
<1>10. ASSUME PopSignal PROVE SessionInv'
  BY <1>0, <1>a, <1>10 DEF PopSignal, Q!TakeSignal, history
<1>11. ASSUME PopEnd PROVE SessionInv'
  BY <1>0, <1>a, <1>11 DEF PopEnd, Q!NothingToTake, Q!vars, history
<1>12. ASSUME Signalled PROVE SessionInv'
  BY <1>0, <1>a, <1>12 DEF Signalled, history
<1>13. ASSUME TaskToIdle PROVE SessionInv'
  BY <1>0, <1>a, <1>13 DEF TaskToIdle, Handed, history
<1>14. ASSUME TaskAndReap PROVE SessionInv'
  BY <1>0, <1>a, <1>14 DEF TaskAndReap, history
<1>15. ASSUME TaskMustWait PROVE SessionInv'
  BY <1>0, <1>a, <1>15 DEF TaskMustWait, history
<1>16. ASSUME TaskAfterWait PROVE SessionInv'
  BY <1>0, <1>a, <1>16 DEF TaskAfterWait, Handed, history
<1>17. ASSUME Ended PROVE SessionInv'
  BY <1>0, <1>a, <1>17 DEF Ended, history
<1>18. ASSUME StopIdle PROVE SessionInv'
  BY <1>0, <1>a, <1>18 DEF StopIdle, history
<1>19. ASSUME StopMustWait PROVE SessionInv'
  BY <1>0, <1>a, <1>19 DEF StopMustWait, history
<1>20. ASSUME StopAfterWait PROVE SessionInv'
  BY <1>0, <1>a, <1>20 DEF StopAfterWait, history
<1>21. ASSUME Exit PROVE SessionInv'
  BY <1>0, <1>a, <1>21, AliveCount DEF Exit, history
<1>22. ASSUME SpuriousWake PROVE SessionInv'
  BY <1>0, <1>a, <1>22 DEF SpuriousWake, Woken, history
<1>23. ASSUME Collect PROVE SessionInv'
  BY <1>0, <1>a, <1>23 DEF Collect, history
<1>24. ASSUME TaskToNew PROVE SessionInv'
  <2> DEFINE h == created + 1
  <2>1. /\ h \in Workers /\ created \in Nat /\ h < SizeT
        /\ worker' = [worker EXCEPT ![h] = "wait"]
        /\ threads' = (threads + 1) % SizeT /\ threads \in 0 .. SizeT - 1
        /\ UNCHANGED <<contents, is_open, signal, urgent_close, running,
                       caller, urged>>
        /\ monitor = "task" /\ monitor' = "pop"
    BY <1>24, BoundsAssumption
       DEF TaskToNew, Handed, TypeOK, Workers, history
  <2>2. h \notin Alive
    BY <2>1 DEF PoolInv, StacksOK
  <2>3. Alive' = Alive \cup {h}
    <3> HIDE DEF h
    <3>1. QED
      BY <2>1, <1>0 DEF Alive
  <2>4. Cardinality(Alive)' = Cardinality(Alive) + 1
    BY <2>2, <2>3, AliveCount, FS_AddElement
  <2>5. threads = Cardinality(Alive)
    BY <1>0, <2>1
  <2>6. threads + 1 < SizeT
    BY <2>1, <2>5, AliveCount, BoundsAssumption
  <2>7. threads' = Cardinality(Alive)'
    BY <2>1, <2>4, <2>5, <2>6, SizeTArithmetic
  <2>8. QED
    BY <1>0, <2>1, <2>7
<1>25. ASSUME Reaped PROVE SessionInv'
  <2>1. /\ Joined /\ joined # 0 /\ monitor' \in {"pop", "stopping"}
        /\ monitor \in {"reaping", "joining"}
        /\ monitor' = "stopping" <=> monitor = "joining"
        /\ UNCHANGED <<contents, is_open, signal, urgent_close, running,
                       caller, urged>>
    BY <1>0, <1>25 DEF Reaped, Handed, history
  <2>2. threads = Cardinality(Alive)
    BY <1>0, <2>1
  <2>3. threads' = Cardinality(Alive)'
    BY <2>1, <2>2, JoinedCount
  <2>4. QED
    BY <1>0, <2>1, <2>3
<1>26. ASSUME Stopped PROVE SessionInv'
  <2>1. /\ Joined /\ joined # 0 /\ monitor' \in {"pop", "stopping"}
        /\ monitor \in {"reaping", "joining"}
        /\ monitor' = "stopping" <=> monitor = "joining"
        /\ UNCHANGED <<contents, is_open, signal, urgent_close, running,
                       caller, urged>>
    BY <1>0, <1>26 DEF Stopped, Handed, history
  <2>2. threads = Cardinality(Alive)
    BY <1>0, <2>1
  <2>3. threads' = Cardinality(Alive)'
    BY <2>1, <2>2, JoinedCount
  <2>4. QED
    BY <1>0, <2>1, <2>3
<1>27. ASSUME NEW w \in Workers,
              WorkerWake(w) \/ WorkerRun(w) \/ WorkerDeliver(w)
              \/ WorkerFinish(w) \/ WorkerSignal(w) \/ WorkerBroadcast(w)
       PROVE  SessionInv'
  <2>1. /\ worker[w] # "none"
        /\ \A v \in Workers : worker'[v] = "none" <=> worker[v] = "none"
        /\ UNCHANGED <<contents, is_open, urgent_close, running, caller, urged,
                       threads>>
        /\ monitor' \in {monitor, Woken, Roused}
    BY <1>0, <1>27 DEF WorkerWake, WorkerRun, WorkerDeliver, WorkerFinish,
                     WorkerSignal, Q!Signal, WorkerBroadcast, history
  <2>2. Alive' = Alive /\ Alive # {}
    BY <2>1, <1>b DEF Alive
  <2>3. QED
    BY <1>0, <2>1, <2>2 DEF Woken, Roused
<1>28. ASSUME PopTest \/ PopSleep PROVE SessionInv'
  BY <1>0, <1>a, <1>28 DEF PopTest, PopSleep, history
<1>29. ASSUME StopWake PROVE SessionInv'
  BY <1>0, <1>a, <1>29 DEF StopWake, Roused, history
<1>30. ASSUME UNCHANGED vars PROVE SessionInv'
  BY <1>0, <1>a, <1>30 DEF vars, history
<1>31. QED
  BY <1>1, <1>2, <1>3, <1>4, <1>5, <1>6, <1>7, <1>8, <1>9, <1>10, <1>11, <1>12, <1>13, <1>14, <1>15, <1>16, <1>17, <1>18, <1>19, <1>20, <1>21, <1>22, <1>23, <1>24, <1>25, <1>26, <1>27, <1>28, <1>29, <1>30
     DEF Next, StartStep, StopStep, MonitorStep, WorkerStep

LEMMA SessionInit == Init => SessionInv
<1> SUFFICES ASSUME Init PROVE SessionInv
  OBVIOUS
<1>1. Alive = {}
  BY DEF Init, Alive
<1>2. QED
  BY <1>1 DEF Init, SessionInv, Closing

(* What every step preserves when nobody pushes before start() returned.   *)
LEMMA SessionsAlways ==
  ASSUME EarlyPush = FALSE
  PROVE  Spec => [](TypeOK /\ PoolInv /\ TaskInv /\ SessionInv)
<1>1. Init => TypeOK /\ PoolInv /\ TaskInv /\ SessionInv
  BY PoolInit, TaskInit, SessionInit
<1>2. TypeOK /\ PoolInv /\ TaskInv /\ SessionInv /\ [Next]_vars
        => TypeOK' /\ PoolInv' /\ TaskInv' /\ SessionInv'
  BY TypeStep, PoolStep, TaskStep, SessionStep
<1>3. QED
  BY <1>1, <1>2, PTL DEF Spec

(* Every live worker is in one place, and threads counts the live workers, *)
(* so that the monitor's last loop joins them all: without a limit on the  *)
(* threads or with one, reaping or not, for any number of sessions.        *)
THEOREM WorkersCounted ==
  ASSUME EarlyPush = FALSE
  PROVE  Spec => []WorkersAccountedFor
<1>1. TypeOK /\ PoolInv /\ SessionInv => WorkersAccountedFor
  <2>1. SUFFICES ASSUME TypeOK, PoolInv, SessionInv
                 PROVE  WorkersAccountedFor
    OBVIOUS
  <2> DEFINE B == InStack(busy_threads)
             I == InStack(idle_threads)
             J == {joined} \ {0}
  <2>2. /\ IsFiniteSet(B) /\ Cardinality(B) = Len(busy_threads)
        /\ IsFiniteSet(I) /\ Cardinality(I) = Len(idle_threads)
    BY <2>1, StackCount DEF TypeOK, PoolInv, StacksOK
  <2>3. IsFiniteSet(J) /\ Cardinality(J) \in Nat
    <3>1. CASE joined = 0
      BY <3>1, FS_EmptySet
    <3>2. CASE joined # 0
      <4>1. J = {joined}
        BY <3>2
      <4>2. IsFiniteSet({joined}) /\ Cardinality({joined}) = 1
        BY FS_Singleton
      <4> HIDE DEF J
      <4>3. QED
        BY <4>1, <4>2
    <3>3. QED
      BY <3>1, <3>2
  <2>4. /\ Alive = B \cup I \cup J
        /\ B \cap I = {} /\ (B \cup I) \cap J = {}
    BY <2>1 DEF PoolInv, StacksOK
  <2> HIDE DEF B, I, J
  <2>5. /\ IsFiniteSet(B \cup I)
        /\ Cardinality(B \cup I) = Cardinality(B) + Cardinality(I)
    BY <2>2, <2>4, DisjointCount
  <2>6. Cardinality(Alive)
          = Cardinality(B) + Cardinality(I) + Cardinality(J)
    BY <2>3, <2>4, <2>5, DisjointCount
  <2>7. caller \notin {"start_count", "start_report", "stopped"}
          => threads = Cardinality(Alive)
    BY <2>1 DEF SessionInv
  <2>8. QED
    BY <2>2, <2>4, <2>6, <2>7 DEF WorkersAccountedFor, B, I, J
<1>2. QED
  BY <1>1, SessionsAlways, PTL

(* When stop() has returned the monitor and all the workers are gone.      *)
THEOREM StopLeavesNoThread ==
  ASSUME EarlyPush = FALSE
  PROVE  Spec => []NoThreadLeft
<1>1. PoolInv /\ SessionInv => NoThreadLeft
  BY DEF PoolInv, MonitorOK, SessionInv, NoThreadLeft
<1>2. QED
  BY <1>1, SessionsAlways, PTL

(* A stop that is not urgent has run what was accepted and passed on the   *)
(* results.                                                                *)
THEOREM StopFinishes ==
  ASSUME EarlyPush = FALSE
  PROVE  Spec => []StopFinishesWork
<1>1. TypeOK /\ PoolInv /\ TaskInv /\ SessionInv => StopFinishesWork
  <2>1. SUFFICES ASSUME TypeOK, PoolInv, TaskInv, SessionInv,
                        caller = "stopped", ~urged, NEW t \in accepted
                 PROVE  runs[t] = 1 /\ (OutSize > 0 => Results(t) = 1)
    BY DEF StopFinishesWork
  <2>2. t \in Tasks /\ TaskOK(t)
    BY <2>1 DEF TypeOK, TaskInv
  <2>3. /\ monitor = "none" /\ task = 0 /\ Alive = {} /\ contents = <<>>
    BY <2>1 DEF PoolInv, MonitorOK, SessionInv
  <2>4. \A w \in Workers : worker[w] = "none" /\ data[w] = Itself
    BY <2>1, <2>3 DEF Alive, PoolInv, Signalling, WorkerOK
  <2>5. /\ ~Queued(t) /\ t # task /\ ~Carried(t)
    BY <2>2, <2>3, <2>4, EmptyStack, Names DEF Queued, Carried, Itself
  <2>6. runs[t] = 1
    BY <2>1, <2>2, <2>5 DEF TaskOK
  <2>7. OutSize > 0 => ~NoResult(t)
    BY <2>2, <2>4, <2>6 DEF TaskOK
  <2>8. QED
    BY <2>1, <2>2, <2>6, <2>7, ResultsOf
<1>2. QED
  BY <1>1, SessionsAlways, PTL

-----------------------------------------------------------------------------
(* The wait for an idle worker, which is not in a loop.                    *)
GotIdle ==
  /\ monitor = "wake_idle" => idle_threads # <<>>
  /\ monitor # "crashed"

(* If that wait never ends for no reason, somebody is idle when it ends:   *)
(* what the code's missing loop relies on, and all that it relies on.      *)
THEOREM WakesToAnIdleWorker ==
  ASSUME "wait_idle" \notin SpuriousPlaces
  PROVE  Spec => []ThreadGotIdle
<1>1. Init => GotIdle
  BY DEF Init, GotIdle
<1>2. TypeOK /\ GotIdle /\ [Next]_vars => GotIdle'
  <2> USE DEF GotIdle, stacks
  <2>1. SUFFICES ASSUME TypeOK, GotIdle, [Next]_vars PROVE GotIdle'
    OBVIOUS
  <2>2. CASE \E w \in Workers : WorkerStep(w)
    <3>1. PICK w \in Workers : WorkerStep(w)
      BY <2>2
    <3>2. CASE WorkerFinish(w)
      <4>1. idle_threads' # <<>>
        BY <2>1, <3>2, PushedStack DEF WorkerFinish, TypeOK
      <4>2. monitor' # "crashed"
        BY <2>1, <3>2 DEF WorkerFinish, Woken
      <4>3. QED
        BY <4>1, <4>2
    <3>3. CASE ~WorkerFinish(w)
      BY <2>1, <3>1, <3>3
         DEF WorkerStep, WorkerDeliver, WorkerWake, WorkerRun, WorkerSignal,
             WorkerBroadcast, Roused
    <3>4. QED
      BY <3>2, <3>3
  <2>3. CASE SpuriousWake
    BY <2>1, <2>3 DEF SpuriousWake, Woken, TypeOK
  <2>4. CASE MonitorStep
    BY <2>1, <2>4
       DEF MonitorStep, PopTest, PopSleep, PopTask, PopSignal, PopEnd, Signalled, TaskToIdle,
           TaskAndReap, Reaped, TaskToNew, TaskMustWait, TaskAfterWait,
           Handed, Ended, StopIdle, Stopped, StopMustWait, StopAfterWait, Exit
  <2>5. CASE \/ \E t \in Tasks : Push(t)
             \/ StartOpen \/ StartFails \/ StartStep \/ StopShut \/ StopStep
             \/ Collect \/ UNCHANGED vars
    BY <2>1, <2>5
       DEF Push, StartOpen, StartFails, StartStep, StartCount, StartReport,
           StopShut, StopStep, StopJoin, StopUrgency, StopWake, Roused,
           Collect, vars
  <2>6. QED
    BY <2>1, <2>2, <2>3, <2>4, <2>5 DEF Next
<1>3. GotIdle => ThreadGotIdle
  BY DEF GotIdle, ThreadGotIdle
<1>4. QED
  BY <1>1, <1>2, <1>3, TypeCorrect, PTL DEF Spec

=============================================================================
