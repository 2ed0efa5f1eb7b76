--------------------------- MODULE ThreadsManager ---------------------------
(***************************************************************************)
(* The thread pool of src/src/threads_manager.cpp. Clients push tasks into *)
(* q_in; a monitor thread takes them out and hands each to an idle worker, *)
(* to a new one, or waits for one to become idle; workers report back with *)
(* q_in.signal(), upon which the monitor tells an observer whether the     *)
(* pool is busy or idle. stop() closes q_in and joins the monitor, which   *)
(* joins the workers.                                                      *)
(*                                                                         *)
(* q_in is the channel of QueueSpec, which Queue implements, and how the   *)
(* monitor sleeps in pop() is modelled next to it: signal() and close()    *)
(* broadcast without queue_lock, so that the monitor can miss them between *)
(* its test and its sleep (queue.cpp:152-154), but no push(), which has    *)
(* the lock. The stacks of workers are sequences, head first. What happens *)
(* with threads_list_lock held and waits for nothing is one step. The age  *)
(* of an idle worker is left open: at any time the oldest may or may not   *)
(* have exceeded time_out.                                                 *)
(*                                                                         *)
(* q_out, if there is one, is open before start() and until stop() has     *)
(* returned, and the client collects results from it when it likes. The    *)
(* result of a task has its name.                                          *)
(***************************************************************************)
EXTENDS Integers, Sequences, FiniteSets

CONSTANTS
  QueueSize,        \* q_in_size
  OutSize,          \* the size of q_out, 0 if there is none
  MaxThreads,       \* max_threads of start(), 0 for no limit
  SizeT,            \* number of values of a size_t
  EarlyPush,        \* may a client push before start() has returned?
  SpuriousPlaces,   \* waits of the monitor that may end for no reason
  MaxTasks,         \* bounds: tasks pushed,
  MaxCreated,       \* workers created,
  MaxFailures,      \* failures of pthread_create(),
  MaxSpurious,      \* ends of a wait for no reason,
  MaxSessions       \* and calls to start()

Tasks == 1 .. MaxTasks
Workers == 1 .. MaxCreated

ASSUME BoundsAssumption ==
  /\ QueueSize \in Nat \ {0}
  /\ OutSize \in Nat
  /\ MaxThreads \in Nat
  /\ SizeT \in Nat \ {0} /\ MaxCreated < SizeT
  /\ MaxTasks <= MaxCreated
  /\ EarlyPush \in BOOLEAN
  /\ SpuriousPlaces \subseteq {"pop_asleep", "wait_idle", "wait_busy"}
  /\ {MaxTasks, MaxCreated, MaxFailures, MaxSpurious, MaxSessions} \subseteq Nat

VARIABLES
  contents, is_open, signal, urgent_close,      \* q_in
  out,              \* q_out
  list_lock,        \* holder of threads_list_lock
  threads,          \* number of workers, a size_t
  busy_threads,
  idle_threads,
  running,
  caller,           \* where start() or stop() is
  monitor,          \* where the monitor thread is
  task,             \* data_in, or 0
  joined,           \* the worker the monitor is joining
  busy,             \* local of the monitor: what it reported last
  reported,         \* what the observer was told last
  worker,           \* where each worker is
  mutex,            \* WorkerThreadData::mutex, TRUE when locked
  data,             \* WorkerThreadData::data: a task, or Itself
  created, failures, spurious, sessions,        \* bounds
  accepted,         \* tasks a push() has stored
  runs,             \* how many times each task was run
  collected,        \* how many times its result was taken from q_out
  urged             \* has urgent_close ever been set?

queue == <<contents, is_open, signal, urgent_close>>
stacks == <<threads, busy_threads, idle_threads>>
workers == <<worker, mutex, data>>
bounds == <<created, failures, spurious, sessions>>
output == <<out, collected>>
history == <<accepted, runs, urged>>
vars == <<queue, list_lock, stacks, running, caller, monitor, task, joined,
          busy, reported, workers, bounds, history, output>>

Q == INSTANCE QueueSpec WITH MaxSize <- QueueSize, Objects <- Tasks

Itself == 0       \* data == this: the worker must exit
Nobody == 0       \* threads_list_lock is free
Monitor == -1     \* the monitor has it, a worker's number stands for the worker

CallerPlaces == {"stopped", "start_count", "start_report", "started",
                 "stop_urgency", "stop_wake", "stop_join"}

(* In pop(): about to test, about to sleep and asleep; the last two also    *)
(* with a broadcast that came in between and woke nobody.                  *)
Popping == {"pop", "pop_sleep", "pop_missed", "pop_asleep", "pop_deaf"}
MonitorPlaces == Popping \cup
                 {"none", "signalled", "task", "reaping", "wait_idle",
                  "wake_idle", "ended", "stopping", "joining", "wait_busy",
                  "wake_busy", "exited", "crashed"}
WorkerPlaces == {"none", "wait", "work", "deliver", "finish", "signal",
                 "broadcast", "exited"}

TypeOK ==
  /\ Q!TypeOK
  /\ out \in Seq(Tasks) /\ Len(out) <= OutSize
  /\ list_lock \in {Nobody, Monitor} \cup Workers
  /\ threads \in 0 .. SizeT - 1
  /\ busy_threads \in Seq(Workers)
  /\ idle_threads \in Seq(Workers)
  /\ running \in BOOLEAN
  /\ caller \in CallerPlaces
  /\ monitor \in MonitorPlaces
  /\ task \in {0} \cup Tasks
  /\ joined \in {0} \cup Workers
  /\ busy \in BOOLEAN
  /\ reported \in {"idle", "busy"}
  /\ worker \in [Workers -> WorkerPlaces]
  /\ mutex \in [Workers -> BOOLEAN]
  /\ data \in [Workers -> {Itself} \cup Tasks]
  /\ created \in 0 .. MaxCreated
  /\ failures \in 0 .. MaxFailures
  /\ spurious \in 0 .. MaxSpurious
  /\ sessions \in 0 .. MaxSessions
  /\ accepted \subseteq Tasks
  /\ runs \in [Tasks -> Nat]
  /\ collected \in [Tasks -> Nat]
  /\ urged \in BOOLEAN

(* No constructor sets threads; Queue does not set urgent_close. *)
Init ==
  /\ contents = <<>> /\ is_open = FALSE /\ signal = FALSE
  /\ urgent_close \in BOOLEAN
  /\ list_lock = Nobody
  /\ threads \in 0 .. SizeT - 1
  /\ busy_threads = <<>>
  /\ idle_threads = <<>>
  /\ running = FALSE
  /\ caller = "stopped"
  /\ monitor = "none"
  /\ task = 0
  /\ joined = 0
  /\ busy = FALSE
  /\ reported = "idle"
  /\ worker = [w \in Workers |-> "none"]
  /\ mutex = [w \in Workers |-> TRUE]
  /\ data = [w \in Workers |-> Itself]
  /\ created = 0 /\ failures = 0 /\ spurious = 0 /\ sessions = 0
  /\ accepted = {}
  /\ runs = [t \in Tasks |-> 0]
  /\ out = <<>>
  /\ collected = [t \in Tasks |-> 0]
  /\ urged = urgent_close

-----------------------------------------------------------------------------
(* Stack: push() and pop() at the head, bottom() is the tail.              *)

Pushed(stack, w) == <<w>> \o stack
Bottom(stack) == stack[Len(stack)]
WithoutBottom(stack) == SubSeq(stack, 1, Len(stack) - 1)
Removed(stack, w) ==
  LET i == CHOOSE j \in 1 .. Len(stack) : stack[j] = w
  IN  SubSeq(stack, 1, i - 1) \o SubSeq(stack, i + 1, Len(stack))

-----------------------------------------------------------------------------
(* Clients                                                                 *)

(* pthread_cond_broadcast() on pop_cond: the monitor is the only one that  *)
(* waits on it, and misses it before it sleeps.                            *)
Roused ==
  IF monitor \in {"pop_asleep", "pop_deaf"} THEN "pop"
  ELSE IF monitor = "pop_sleep" THEN "pop_missed" ELSE monitor

(* push() of an object the queue accepts; it blocks while the queue is     *)
(* full and does nothing when it is closed. The monitor has queue_lock     *)
(* between its test and its sleep.                                         *)
Push(t) ==
  /\ running \/ EarlyPush
  /\ monitor \notin {"pop_sleep", "pop_missed"}
  /\ t \notin accepted
  /\ \A u \in Tasks : u < t => u \in accepted
  /\ Q!Put(t)
  /\ accepted' = accepted \cup {t}
  /\ monitor' = Roused
  /\ UNCHANGED <<list_lock, stacks, running, caller, task, joined, busy,
                 reported, workers, bounds, runs, urged>>

(* start(): open the queue and create the monitor. A queue that an urgent  *)
(* stop() left objects in is not started again (see Queue).                *)
StartOpen ==
  /\ caller = "stopped"
  /\ sessions < MaxSessions
  /\ contents = <<>>
  /\ Q!Open
  /\ sessions' = sessions + 1
  /\ monitor' = "pop"
  /\ busy' = FALSE
  /\ caller' = "start_count"
  /\ UNCHANGED <<list_lock, stacks, running, task, joined, reported, workers,
                 created, failures, spurious, history>>

(* The monitor cannot be created: the queue stays open. *)
StartFails ==
  /\ caller = "stopped"
  /\ sessions < MaxSessions
  /\ failures < MaxFailures
  /\ contents = <<>>
  /\ Q!Open
  /\ sessions' = sessions + 1
  /\ failures' = failures + 1
  /\ UNCHANGED <<list_lock, stacks, running, caller, monitor, task, joined,
                 busy, reported, workers, created, spurious, history>>

(* Without the lock, while the monitor already runs. *)
StartCount ==
  /\ caller = "start_count"
  /\ threads' = 0
  /\ caller' = "start_report"
  /\ UNCHANGED <<queue, list_lock, busy_threads, idle_threads, running,
                 monitor, task, joined, busy, reported, workers, bounds,
                 history>>

StartReport ==
  /\ caller = "start_report"
  /\ reported' = "idle"
  /\ running' = TRUE
  /\ caller' = "started"
  /\ UNCHANGED <<queue, list_lock, stacks, monitor, task, joined, busy,
                 workers, bounds, history>>

(* stop(urgent): close() the queue, two assignments and a broadcast that   *)
(* no lock groups. *)
StopShut ==
  /\ caller = "started"
  /\ Q!Shut
  /\ caller' = "stop_urgency"
  /\ UNCHANGED <<list_lock, stacks, running, monitor, task, joined, busy,
                 reported, workers, bounds, history>>

StopUrgency(urgent) ==
  /\ caller = "stop_urgency"
  /\ Q!ChooseUrgency(urgent)
  /\ urged' = (urged \/ urgent)
  /\ caller' = "stop_wake"
  /\ UNCHANGED <<list_lock, stacks, running, monitor, task, joined, busy,
                 reported, workers, bounds, accepted, runs>>

StopWake ==
  /\ caller = "stop_wake"
  /\ monitor' = Roused
  /\ caller' = "stop_join"
  /\ UNCHANGED <<queue, list_lock, stacks, running, task, joined, busy,
                 reported, workers, bounds, history>>

(* A mistake the checks notice: stop() does not wait for the monitor. *)
StopWithoutJoin ==
  /\ caller = "stop_join"
  /\ running' = FALSE
  /\ caller' = "stopped"
  /\ UNCHANGED <<queue, list_lock, stacks, monitor, task, joined, busy,
                 reported, workers, bounds, history>>

StopJoin ==
  /\ caller = "stop_join"
  /\ monitor = "exited"
  /\ monitor' = "none"
  /\ running' = FALSE
  /\ caller' = "stopped"
  /\ UNCHANGED <<queue, list_lock, stacks, task, joined, busy, reported,
                 workers, bounds, history>>

-----------------------------------------------------------------------------
(* The monitor: pop(). The test and the sleep are two steps: queue_lock    *)
(* keeps push() out from one to the other, and nobody else.                *)

PopTest ==
  /\ monitor = "pop"
  /\ contents = <<>> /\ is_open /\ ~signal
  /\ monitor' = "pop_sleep"
  /\ UNCHANGED <<queue, list_lock, stacks, running, caller, task, joined, busy,
                 reported, workers, bounds, history>>

PopSleep ==
  /\ monitor \in {"pop_sleep", "pop_missed"}
  /\ monitor' = IF monitor = "pop_sleep" THEN "pop_asleep" ELSE "pop_deaf"
  /\ UNCHANGED <<queue, list_lock, stacks, running, caller, task, joined, busy,
                 reported, workers, bounds, history>>

PopTask ==
  /\ monitor = "pop"
  /\ Q!Take
  /\ task' = Head(contents)
  /\ monitor' = "task"
  /\ UNCHANGED <<list_lock, stacks, running, caller, joined, busy, reported,
                 workers, bounds, history>>

PopSignal ==
  /\ monitor = "pop"
  /\ Q!TakeSignal
  /\ monitor' = "signalled"
  /\ UNCHANGED <<list_lock, stacks, running, caller, task, joined, busy,
                 reported, workers, bounds, history>>

(* A mistake the checks notice: a closed queue delivers nothing more. *)
PopEndAtClose ==
  /\ monitor = "pop"
  /\ ~signal /\ ~is_open
  /\ monitor' = "ended"
  /\ UNCHANGED <<queue, list_lock, stacks, running, caller, task, joined, busy,
                 reported, workers, bounds, history>>

(* The monitor takes -1 for "queue closed". *)
PopEnd ==
  /\ monitor = "pop"
  /\ Q!NothingToTake
  /\ monitor' = "ended"
  /\ UNCHANGED <<list_lock, stacks, running, caller, task, joined, busy,
                 reported, workers, bounds, history>>

-----------------------------------------------------------------------------
(* The monitor: activity report                                            *)

ReportIfIdle ==
  IF busy /\ busy_threads = <<>>
  THEN busy' = FALSE /\ reported' = "idle"
  ELSE UNCHANGED <<busy, reported>>

Signalled ==
  /\ monitor = "signalled"
  /\ list_lock = Nobody
  /\ ReportIfIdle
  /\ monitor' = "pop"
  /\ UNCHANGED <<queue, list_lock, stacks, running, caller, task, joined,
                 workers, bounds, history>>

-----------------------------------------------------------------------------
(* The monitor: a task                                                     *)

(* WorkerThreadData::push() and the report of the first busy worker; the   *)
(* monitor releases the lock and goes back to pop().                       *)
Handed(w) ==
  /\ data' = [data EXCEPT ![w] = task]
  /\ mutex' = [mutex EXCEPT ![w] = FALSE]
  /\ busy' = TRUE
  /\ reported' = IF busy THEN reported ELSE "busy"
  /\ task' = 0
  /\ list_lock' = Nobody
  /\ monitor' = "pop"

(* The latest idle worker gets the task; the oldest stays. *)
TaskToIdle ==
  /\ monitor = "task"
  /\ list_lock = Nobody
  /\ idle_threads # <<>>
  /\ busy_threads' = Pushed(busy_threads, Head(idle_threads))
  /\ idle_threads' = Tail(idle_threads)
  /\ Handed(Head(idle_threads))
  /\ UNCHANGED <<queue, threads, running, caller, joined, worker, bounds,
                 history>>

(* The oldest idle worker is too old: it is told to exit, and the monitor  *)
(* waits for it with the lock held.                                        *)
TaskAndReap ==
  /\ monitor = "task"
  /\ list_lock = Nobody
  /\ Len(idle_threads) > 1
  /\ busy_threads' = Pushed(busy_threads, Head(idle_threads))
  /\ idle_threads' = WithoutBottom(Tail(idle_threads))
  /\ joined' = Bottom(idle_threads)
  /\ mutex' = [mutex EXCEPT ![joined'] = FALSE]
  /\ list_lock' = Monitor
  /\ monitor' = "reaping"
  /\ UNCHANGED <<queue, threads, running, caller, task, busy, reported,
                 worker, data, bounds, history>>

(* A mistake the checks notice: a reaped worker is still counted. *)
SameThreads == UNCHANGED threads

(* --threads, on a size_t *)
OneThreadLess == threads' = (threads + SizeT - 1) % SizeT

(* pthread_join() returned: delete the worker. *)
Joined ==
  /\ worker[joined] = "exited"
  /\ worker' = [worker EXCEPT ![joined] = "none"]
  /\ joined' = 0
  /\ OneThreadLess

Reaped ==
  /\ monitor = "reaping"
  /\ Joined
  /\ Handed(Head(busy_threads))
  /\ UNCHANGED <<queue, busy_threads, idle_threads, running, caller, bounds,
                 history>>

MayCreate == MaxThreads = 0 \/ threads < MaxThreads

TaskToNew ==
  /\ monitor = "task"
  /\ list_lock = Nobody
  /\ idle_threads = <<>>
  /\ MayCreate
  /\ created < MaxCreated
  /\ created' = created + 1
  /\ worker' = [worker EXCEPT ![created'] = "wait"]
  /\ busy_threads' = Pushed(busy_threads, created')
  /\ threads' = (threads + 1) % SizeT
  /\ Handed(created')
  /\ UNCHANGED <<queue, idle_threads, running, caller, joined, failures,
                 spurious, sessions, history>>

(* All workers are busy, or the new one could not be created, even if it   *)
(* were the first: wait for one to get idle.                               *)
TaskMustWait ==
  /\ monitor = "task"
  /\ list_lock = Nobody
  /\ idle_threads = <<>>
  /\ IF MayCreate
     THEN failures < MaxFailures /\ failures' = failures + 1
     ELSE UNCHANGED failures
  /\ monitor' = "wait_idle"
  /\ UNCHANGED <<queue, list_lock, stacks, running, caller, task, joined,
                 busy, reported, workers, created, spurious, sessions, history>>

(* The wait is not in a loop: without an idle worker the monitor follows a *)
(* null pointer.                                                           *)
TaskAfterWait ==
  /\ monitor = "wake_idle"
  /\ list_lock = Nobody
  /\ IF idle_threads = <<>>
     THEN /\ monitor' = "crashed"
          /\ UNCHANGED <<list_lock, busy_threads, idle_threads, task, busy,
                         reported, mutex, data>>
     ELSE /\ busy_threads' = Pushed(busy_threads, Head(idle_threads))
          /\ idle_threads' = Tail(idle_threads)
          /\ Handed(Head(idle_threads))
  /\ UNCHANGED <<queue, threads, running, caller, joined, worker, bounds,
                 history>>

-----------------------------------------------------------------------------
(* The monitor: the queue is closed                                        *)

Ended ==
  /\ monitor = "ended"
  /\ list_lock = Nobody
  /\ list_lock' = Monitor
  /\ monitor' = "stopping"
  /\ UNCHANGED <<queue, stacks, running, caller, task, joined, busy, reported,
                 workers, bounds, history>>

StopIdle ==
  /\ monitor = "stopping"
  /\ threads > 0
  /\ idle_threads # <<>>
  /\ joined' = Bottom(idle_threads)
  /\ idle_threads' = WithoutBottom(idle_threads)
  /\ mutex' = [mutex EXCEPT ![joined'] = FALSE]
  /\ monitor' = "joining"
  /\ UNCHANGED <<queue, list_lock, threads, busy_threads, running, caller,
                 task, busy, reported, worker, data, bounds, history>>

Stopped ==
  /\ monitor = "joining"
  /\ Joined
  /\ monitor' = "stopping"
  /\ UNCHANGED <<queue, list_lock, busy_threads, idle_threads, running, caller,
                 task, busy, reported, mutex, data, bounds, history>>

StopMustWait ==
  /\ monitor = "stopping"
  /\ threads > 0
  /\ idle_threads = <<>>
  /\ list_lock' = Nobody
  /\ monitor' = "wait_busy"
  /\ UNCHANGED <<queue, stacks, running, caller, task, joined, busy, reported,
                 workers, bounds, history>>

StopAfterWait ==
  /\ monitor = "wake_busy"
  /\ list_lock = Nobody
  /\ list_lock' = Monitor
  /\ ReportIfIdle
  /\ monitor' = "stopping"
  /\ UNCHANGED <<queue, stacks, running, caller, task, joined, workers, bounds,
                 history>>

Exit ==
  /\ monitor = "stopping"
  /\ threads = 0
  /\ list_lock' = Nobody
  /\ monitor' = "exited"
  /\ UNCHANGED <<queue, stacks, running, caller, task, joined, busy, reported,
                 workers, bounds, history>>

(* idle_cond: the monitor is the only one that waits on it. *)
Woken ==
  IF monitor = "wait_idle" THEN "wake_idle"
  ELSE IF monitor = "wait_busy" THEN "wake_busy" ELSE monitor

SpuriousWake ==
  /\ monitor \in SpuriousPlaces
  /\ spurious < MaxSpurious
  /\ spurious' = spurious + 1
  /\ monitor' = IF monitor = "pop_asleep" THEN "pop" ELSE Woken
  /\ UNCHANGED <<queue, list_lock, stacks, running, caller, task, joined, busy,
                 reported, workers, created, failures, sessions, history>>

-----------------------------------------------------------------------------
(* The workers                                                             *)

WorkerWake(w) ==
  /\ worker[w] = "wait"
  /\ ~mutex[w]
  /\ mutex' = [mutex EXCEPT ![w] = TRUE]
  /\ worker' = [worker EXCEPT ![w] =
                  IF data[w] = Itself THEN "exited" ELSE "work"]
  /\ UNCHANGED <<queue, list_lock, stacks, running, caller, monitor, task,
                 joined, busy, reported, data, bounds, history>>

WorkerRun(w) ==
  /\ worker[w] = "work"
  /\ runs' = [runs EXCEPT ![data[w]] = @ + 1]
  /\ worker' = [worker EXCEPT ![w] = IF OutSize > 0 THEN "deliver" ELSE "finish"]
  /\ UNCHANGED <<queue, list_lock, stacks, running, caller, monitor, task,
                 joined, busy, reported, mutex, data, bounds, accepted, urged>>

(* q_out->push(), which sleeps while there is no room. *)
WorkerDeliver(w) ==
  /\ worker[w] = "deliver"
  /\ Len(out) < OutSize
  /\ out' = Append(out, data[w])
  /\ worker' = [worker EXCEPT ![w] = "finish"]
  /\ UNCHANGED <<collected, queue, list_lock, stacks, running, caller, monitor,
                 task, joined, busy, reported, mutex, data, bounds, history>>

(* The client takes a result. *)
Collect ==
  /\ out # <<>>
  /\ out' = Tail(out)
  /\ collected' = [collected EXCEPT ![Head(out)] = @ + 1]
  /\ UNCHANGED <<queue, list_lock, stacks, running, caller, monitor, task,
                 joined, busy, reported, workers, bounds, history>>

(* A mistake the checks notice: the worker does not wake the monitor. *)
WorkerFinishSilent(w) ==
  /\ worker[w] = "finish"
  /\ list_lock = Nobody
  /\ busy_threads' = Removed(busy_threads, w)
  /\ idle_threads' = Pushed(idle_threads, w)
  /\ data' = [data EXCEPT ![w] = Itself]
  /\ worker' = [worker EXCEPT ![w] = IF is_open THEN "signal" ELSE "wait"]
  /\ list_lock' = IF is_open THEN w ELSE Nobody
  /\ UNCHANGED <<queue, threads, running, caller, monitor, task, joined, busy,
                 reported, mutex, bounds, history>>

(* A mistake the checks notice: data keeps the task that was run. *)
WorkerFinishKeepsData(w) ==
  /\ worker[w] = "finish"
  /\ list_lock = Nobody
  /\ busy_threads' = Removed(busy_threads, w)
  /\ idle_threads' = Pushed(idle_threads, w)
  /\ monitor' = Woken
  /\ worker' = [worker EXCEPT ![w] = IF is_open THEN "signal" ELSE "wait"]
  /\ list_lock' = IF is_open THEN w ELSE Nobody
  /\ UNCHANGED <<queue, threads, running, caller, task, joined, busy, reported,
                 mutex, data, bounds, history>>

(* Under the lock: idle again, idle_cond signalled, ready to exit, and     *)
(* q_in.signal() finds the queue open or returns.                          *)
WorkerFinish(w) ==
  /\ worker[w] = "finish"
  /\ list_lock = Nobody
  /\ busy_threads' = Removed(busy_threads, w)
  /\ idle_threads' = Pushed(idle_threads, w)
  /\ monitor' = Woken
  /\ data' = [data EXCEPT ![w] = Itself]
  /\ worker' = [worker EXCEPT ![w] = IF is_open THEN "signal" ELSE "wait"]
  /\ list_lock' = IF is_open THEN w ELSE Nobody
  /\ UNCHANGED <<queue, threads, running, caller, task, joined, busy, reported,
                 mutex, bounds, history>>

(* q_in.signal() goes on: somebody may have closed the queue since. It has *)
(* threads_list_lock, which pop() does without, and not queue_lock.        *)
WorkerSignal(w) ==
  /\ worker[w] = "signal"
  /\ Q!Signal
  /\ worker' = [worker EXCEPT ![w] = "broadcast"]
  /\ UNCHANGED <<list_lock, stacks, running, caller, monitor, task, joined,
                 busy, reported, mutex, data, bounds, history>>

(* A mistake the checks notice: the monitor is not woken. *)
WorkerBroadcastNot(w) ==
  /\ worker[w] = "broadcast"
  /\ worker' = [worker EXCEPT ![w] = "wait"]
  /\ list_lock' = Nobody
  /\ UNCHANGED <<queue, stacks, running, caller, monitor, task, joined, busy,
                 reported, mutex, data, bounds, history>>

WorkerBroadcast(w) ==
  /\ worker[w] = "broadcast"
  /\ monitor' = Roused
  /\ worker' = [worker EXCEPT ![w] = "wait"]
  /\ list_lock' = Nobody
  /\ UNCHANGED <<queue, stacks, running, caller, task, joined, busy, reported,
                 mutex, data, bounds, history>>

-----------------------------------------------------------------------------
StartStep == StartCount \/ StartReport
StopStep == StopJoin \/ StopWake \/ \E urgent \in BOOLEAN : StopUrgency(urgent)
MonitorStep ==
  \/ PopTest \/ PopSleep \/ PopTask \/ PopSignal \/ PopEnd \/ Signalled
  \/ TaskToIdle \/ TaskAndReap \/ Reaped
  \/ TaskToNew \/ TaskMustWait \/ TaskAfterWait
  \/ Ended \/ StopIdle \/ Stopped \/ StopMustWait \/ StopAfterWait \/ Exit
WorkerStep(w) ==
  \/ WorkerDeliver(w)
  \/ /\ UNCHANGED output
     /\ \/ WorkerWake(w) \/ WorkerRun(w) \/ WorkerFinish(w)
        \/ WorkerSignal(w) \/ WorkerBroadcast(w)

Next ==
  \/ /\ UNCHANGED output
     /\ \/ \E t \in Tasks : Push(t)
        \/ StartOpen \/ StartFails \/ StartStep
        \/ StopShut \/ StopStep
        \/ MonitorStep \/ SpuriousWake
  \/ \E w \in Workers : WorkerStep(w)
  \/ Collect

Spec == Init /\ [][Next]_vars

(* Every thread that can go on does; nobody has to push, start or stop. *)
FairSpec ==
  /\ Spec
  /\ WF_vars(StartStep /\ UNCHANGED output)
  /\ WF_vars(StopStep /\ UNCHANGED output)
  /\ WF_vars(MonitorStep /\ UNCHANGED output)
  /\ \A w \in Workers : WF_vars(WorkerStep(w))

-----------------------------------------------------------------------------
InStack(stack) == {stack[i] : i \in 1 .. Len(stack)}
Alive == {w \in Workers : worker[w] # "none"}

(* Once start() has returned, every live worker is in exactly one place:   *)
(* one of the two stacks, once, or being joined; and threads counts them   *)
(* all, which is what the monitor's last loop relies on to end.            *)
WorkersAccountedFor ==
  caller \notin {"start_count", "start_report"} =>
    /\ Alive = InStack(busy_threads) \cup InStack(idle_threads)
               \cup ({joined} \ {0})
    /\ Len(busy_threads) + Len(idle_threads) + Cardinality({joined} \ {0})
         = Cardinality(Alive)
    /\ caller # "stopped" => threads = Cardinality(Alive)

(* A task is run at most once, though its worker, the mutex used as a      *)
(* semaphore and the task's slot are reused; and its result comes out at   *)
(* most once, after it.                                                    *)
Results(t) == collected[t] + Cardinality({i \in 1 .. Len(out) : out[i] = t})
RunsOnce == \A t \in Tasks : Results(t) <= runs[t] /\ runs[t] <= 1

(* A stop that is not urgent finishes what was accepted, when no urgent    *)
(* one came before it, and the results are out.                            *)
StopFinishesWork ==
  caller = "stopped" /\ ~urged =>
    \A t \in accepted : runs[t] = 1 /\ (OutSize > 0 => Results(t) = 1)

(* threads_manager.cpp:302, "Stop all threads": nothing runs after stop(). *)
NoThreadLeft == caller = "stopped" => monitor = "none" /\ Alive = {}

(* threads_manager.cpp:280, "wait for a thread to get idle": when the wait *)
(* is over, a thread is idle.                                              *)
ThreadGotIdle == monitor # "crashed"

(* The first worker could not be created: nobody will ever get idle.       *)
Stranded == monitor = "wait_idle" /\ Alive = {}

(* A worker waits for room in q_out. *)
Blocked == Len(out) = OutSize /\ \E w \in Workers : worker[w] = "deliver"

(* What pop() waits for is there and the monitor sleeps, because the       *)
(* broadcast came between its test and its sleep (queue.cpp:104, 180).     *)
Overslept == monitor = "pop_deaf" /\ (signal \/ ~is_open)

(* stop() returns, whatever the workers and clients are doing, unless the  *)
(* monitor missed the broadcast of close(), or the client leaves a worker  *)
(* waiting for room in q_out (183).                                        *)
StopReturns ==
  caller = "stop_join" ~>
    (caller = "stopped" \/ Stranded \/ []Blocked \/ []Overslept)

(* Nothing is queued, held by the monitor or being run. *)
Quiet ==
  /\ is_open /\ contents = <<>> /\ task = 0
  /\ \A w \in Workers : worker[w] \in {"none", "wait"} /\ mutex[w]

(* While the pool is open, the observer hears of the end of the activity,  *)
(* although signals coalesce and overtake each other, unless the monitor   *)
(* missed the broadcast of the last one: then it does not hear of it       *)
(* before the next push(), signal() or close().                            *)
IdleIsReported ==
  (Quiet /\ monitor \in Popping) ~>
    (reported = "idle" \/ ~Quiet \/ []Overslept)

=============================================================================
