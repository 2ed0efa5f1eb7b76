-------------------------------- MODULE Queue --------------------------------
(***************************************************************************)
(* The blocking queue of src/src/queue.cpp: a ring of MaxSize pointers, a  *)
(* mutex and two conditions. push(), pop() and wait() work under the mutex *)
(* while open(), close() and signal() write the flags without taking it,   *)
(* so that their assignments fall between any two reads of the flags.      *)
(*                                                                         *)
(* A thread that is inside an operation has a program counter. A step is   *)
(* the code between two points where another thread can make a difference: *)
(* what a thread does with the lock held, on data only the lock's holder   *)
(* touches, is one step; two reads of a flag that is written without the   *)
(* lock are two steps, and so are the test of a waiting loop and the       *)
(* moment the thread sleeps on the condition.                              *)
(*                                                                         *)
(* Who calls what follows the code's users (threads_manager.cpp and        *)
(* queue_test.cpp): producers push() distinct objects, consumers pop()     *)
(* until they are told -1 and then leave, an owner opens the queue when no *)
(* consumer is inside (the monitor thread is created after open() and      *)
(* joined after close()) and closes it at any time.                        *)
(***************************************************************************)
EXTENDS Integers, Sequences

CONSTANTS
  MaxSize,          \* capacity of the ring
  Pushers,          \* threads that call push()
  Poppers,          \* threads that call pop() until it returns -1
  Waiters,          \* threads that call wait()
  Signalers,        \* threads that call signal()
  Owner,            \* the thread that calls open() and close()
  Nobody,           \* the holder of a mutex that is free
  UrgentGarbage,    \* what urgent_close, set by no constructor, may hold
  LeftoverReopen,   \* may the owner open() a queue that holds objects?
  MaxPushes,        \* bounds: number of calls to push(),
  MaxSignals,       \* to signal(),
  MaxOpens,         \* to open()
  MaxSpurious       \* and of returns of pthread_cond_wait() for no reason

Threads == Pushers \cup Poppers \cup Waiters \cup Signalers \cup {Owner}

ASSUME MaxSizeAssumption == MaxSize \in Nat \ {0}
ASSUME BoundsAssumption ==
  /\ MaxPushes \in Nat
  /\ MaxSignals \in Nat
  /\ MaxOpens \in Nat
  /\ MaxSpurious \in Nat
ASSUME FlagsAssumption ==
  /\ UrgentGarbage \subseteq BOOLEAN
  /\ LeftoverReopen \in BOOLEAN
ASSUME ThreadsAssumption ==
  /\ Pushers \cap Poppers = {}
  /\ Pushers \cap Waiters = {}
  /\ Pushers \cap Signalers = {}
  /\ Poppers \cap Waiters = {}
  /\ Poppers \cap Signalers = {}
  /\ Waiters \cap Signalers = {}
  /\ Owner \notin Pushers \cup Poppers \cup Waiters \cup Signalers
  /\ Nobody \notin Threads

VARIABLES
  objects,          \* the ring; 0 stands for memory nobody wrote to
  reader,           \* where push() stores (the code's name for it)
  writer,           \* where pop() loads
  size,
  is_open,
  signal,
  urgent_close,
  queue_lock,       \* the holder of the mutex, or Nobody
  pc,               \* where each thread is
  item,             \* the argument of the current push(), 0 outside
  rc,               \* what the last push() returned
  sent,             \* bounds and history: calls to push(),
  signals,          \* to signal(),
  opens,            \* to open(),
  spurious,         \* spurious wake-ups,
  pushed,           \* the objects stored in the ring, in order,
  popped,           \* the objects pop() returned, in order,
  stored,           \* did the thread's last push() store its object?
  reopened          \* was open() called during the thread's last push()?

ring == <<objects, reader, writer, size>>
flags == <<is_open, signal, urgent_close>>
bounds == <<sent, signals, opens, spurious>>
history == <<pushed, popped, stored, reopened>>
vars == <<ring, flags, queue_lock, pc, item, rc, bounds, history>>

Slots == 0 .. MaxSize - 1

(* The places of each operation. "_blocked" is the wait of the loop, with  *)
(* the lock still held; "_asleep" is inside pthread_cond_wait().           *)
PushPlaces == {"idle", "push_enter", "push_blocked", "push_asleep",
               "push_store", "push_rc"}
PopPlaces == {"idle", "pop_enter", "pop_blocked", "pop_asleep", "pop_take",
              "done"}
WaitPlaces == {"idle", "wait_enter", "wait_asleep"}
SignalPlaces == {"idle", "signal_set", "signal_wake"}
OwnerPlaces == {"idle", "open_signal", "close_urgent", "close_wake"}

Places == PushPlaces \cup PopPlaces \cup WaitPlaces \cup SignalPlaces
          \cup OwnerPlaces

(* Places where the thread owns queue_lock. *)
LockedPlaces == {"push_blocked", "push_store", "pop_blocked", "pop_take"}

(* A thread is only ever inside the operation it calls. *)
PlacesOK ==
  /\ \A t \in Pushers : pc[t] \in PushPlaces
  /\ \A t \in Poppers : pc[t] \in PopPlaces
  /\ \A t \in Waiters : pc[t] \in WaitPlaces
  /\ \A t \in Signalers : pc[t] \in SignalPlaces
  /\ pc[Owner] \in OwnerPlaces

TypeOK ==
  /\ objects \in [Slots -> Nat]
  /\ reader \in Slots
  /\ writer \in Slots
  /\ size \in Nat
  /\ is_open \in BOOLEAN
  /\ signal \in BOOLEAN
  /\ urgent_close \in BOOLEAN
  /\ queue_lock \in Threads \cup {Nobody}
  /\ pc \in [Threads -> Places]
  /\ PlacesOK
  /\ item \in [Pushers -> Nat]
  /\ rc \in [Pushers -> {0, 1}]
  /\ sent \in Nat /\ signals \in Nat /\ opens \in Nat /\ spurious \in Nat
  /\ pushed \in Seq(Nat)
  /\ popped \in Seq(Nat)
  /\ stored \in [Pushers -> BOOLEAN]
  /\ reopened \in [Pushers -> BOOLEAN]

(* The constructor: only is_open, max_size and size are initialised; the   *)
(* pointers and signal are set by open(), urgent_close by close() alone.   *)
(* No consumer runs before the first open().                               *)
Init ==
  /\ objects = [i \in Slots |-> 0]
  /\ reader = 0
  /\ writer = 0
  /\ size = 0
  /\ is_open = FALSE
  /\ signal = FALSE
  /\ urgent_close \in UrgentGarbage
  /\ queue_lock = Nobody
  /\ pc = [t \in Threads |-> IF t \in Poppers THEN "done" ELSE "idle"]
  /\ item = [t \in Pushers |-> 0]
  /\ rc = [t \in Pushers |-> 0]
  /\ sent = 0 /\ signals = 0 /\ opens = 0 /\ spurious = 0
  /\ pushed = <<>>
  /\ popped = <<>>
  /\ stored = [t \in Pushers |-> TRUE]
  /\ reopened = [t \in Pushers |-> FALSE]

-----------------------------------------------------------------------------
(* Helpers of the operations.                                              *)

Goto(t, place) == pc' = [pc EXCEPT ![t] = place]

(* A mistake the checks notice: the ring does not wrap around. *)
AfterWithoutWrap(p) == p + 1

(* The ring pointer after p: the code compares with end after the step.    *)
After(p) == IF p + 1 = MaxSize THEN 0 ELSE p + 1

(* Returning from pthread_cond_wait() means going for the lock again. *)
Asleep == {"push_asleep", "pop_asleep", "wait_asleep"}
Reenter(place) ==
  IF place = "push_asleep" THEN "push_enter"
  ELSE IF place = "pop_asleep" THEN "pop_enter" ELSE "wait_enter"

(* pthread_cond_broadcast() by thread t, which moves on to place. *)
WakeAll(sleepers, t, place) ==
  pc' = [u \in Threads |-> IF u = t THEN place
                           ELSE IF pc[u] \in sleepers THEN Reenter(pc[u])
                           ELSE pc[u]]

WakePoppers(t, place) == WakeAll({"pop_asleep"}, t, place)

(* A mistake the checks notice: wait() is not woken with the producers. *)
WakeOnlyPushers(t, place) == WakeAll({"push_asleep"}, t, place)

(* Both push() and wait() sleep on push_cond. *)
WakePushers(t, place) == WakeAll({"push_asleep", "wait_asleep"}, t, place)

Acquire(t) == queue_lock = Nobody /\ queue_lock' = t
Release(t) == queue_lock = t /\ queue_lock' = Nobody

-----------------------------------------------------------------------------
(* open(), close(), signal(): no lock.                                     *)

(* A mistake the checks notice: open() rewinds one end of the ring only. *)
OpenRewindsReader ==
  /\ pc[Owner] = "idle"
  /\ opens < MaxOpens
  /\ ~is_open
  /\ \A t \in Poppers : pc[t] = "done"
  /\ LeftoverReopen \/ size = 0
  /\ reader' = 0
  /\ is_open' = TRUE
  /\ opens' = opens + 1
  /\ Goto(Owner, "open_signal")
  /\ reopened' = [t \in Pushers |-> pc[t] # "idle" \/ reopened[t]]
  /\ UNCHANGED <<objects, writer, size, signal, urgent_close, queue_lock, item, rc,
                 sent, signals, spurious, pushed, popped, stored>>

(* open(): the ring, is_open, then signal. size and urgent_close are left  *)
(* as they are.                                                            *)
Open ==
  /\ pc[Owner] = "idle"
  /\ opens < MaxOpens
  /\ ~is_open
  /\ \A t \in Poppers : pc[t] = "done"
  /\ LeftoverReopen \/ size = 0
  /\ reader' = 0
  /\ writer' = 0
  /\ is_open' = TRUE
  /\ opens' = opens + 1
  /\ Goto(Owner, "open_signal")
  /\ reopened' = [t \in Pushers |-> pc[t] # "idle" \/ reopened[t]]
  /\ UNCHANGED <<objects, size, signal, urgent_close, queue_lock, item, rc, sent,
                 signals, spurious, pushed, popped, stored>>

(* open() is about to return: the consumers of the new session start.      *)
OpenSignal ==
  /\ pc[Owner] = "open_signal"
  /\ signal' = FALSE
  /\ pc' = [t \in Threads |-> IF t \in Poppers \cup {Owner} THEN "idle"
                             ELSE pc[t]]
  /\ UNCHANGED <<ring, is_open, urgent_close, queue_lock, item, rc, bounds,
                 history>>

(* close(urgent): is_open, then urgent_close, then the broadcast.          *)
CloseShut ==
  /\ pc[Owner] = "idle"
  /\ is_open
  /\ is_open' = FALSE
  /\ Goto(Owner, "close_urgent")
  /\ UNCHANGED <<ring, signal, urgent_close, queue_lock, item, rc, bounds,
                 history>>

CloseUrgency(urgent) ==
  /\ pc[Owner] = "close_urgent"
  /\ urgent_close' = urgent
  /\ Goto(Owner, "close_wake")
  /\ UNCHANGED <<ring, is_open, signal, queue_lock, item, rc, bounds, history>>

CloseWake ==
  /\ pc[Owner] = "close_wake"
  /\ WakePoppers(Owner, "idle")
  /\ UNCHANGED <<ring, flags, queue_lock, item, rc, bounds, history>>

(* signal(): nothing when closed, else the flag and the broadcast. *)
SignalTest(t) ==
  /\ pc[t] = "idle"
  /\ signals < MaxSignals
  /\ is_open
  /\ signals' = signals + 1
  /\ Goto(t, "signal_set")
  /\ UNCHANGED <<ring, flags, queue_lock, item, rc, sent, opens, spurious,
                 history>>

SignalSet(t) ==
  /\ pc[t] = "signal_set"
  /\ signal' = TRUE
  /\ Goto(t, "signal_wake")
  /\ UNCHANGED <<ring, is_open, urgent_close, queue_lock, item, rc, bounds,
                 history>>

SignalWake(t) ==
  /\ pc[t] = "signal_wake"
  /\ WakePoppers(t, "idle")
  /\ UNCHANGED <<ring, flags, queue_lock, item, rc, bounds, history>>

-----------------------------------------------------------------------------
(* push()                                                                  *)

PushCall(t) ==
  /\ pc[t] = "idle"
  /\ sent < MaxPushes
  /\ sent' = sent + 1
  /\ item' = [item EXCEPT ![t] = sent + 1]
  /\ stored' = [stored EXCEPT ![t] = FALSE]
  /\ reopened' = [reopened EXCEPT ![t] = FALSE]
  /\ Goto(t, "push_enter")
  /\ UNCHANGED <<ring, flags, queue_lock, rc, signals, opens, spurious,
                 pushed, popped>>

(* A mistake the checks notice: the loop lets one object too many in. *)
PushTestOffByOne(t) ==
  /\ pc[t] = "push_enter"
  /\ Acquire(t)
  /\ Goto(t, IF size > MaxSize /\ is_open THEN "push_blocked" ELSE "push_store")
  /\ UNCHANGED <<ring, flags, item, rc, bounds, history>>

(* Take the lock (first call or return of the wait) and test the loop. *)
PushTest(t) ==
  /\ pc[t] = "push_enter"
  /\ Acquire(t)
  /\ Goto(t, IF size = MaxSize /\ is_open THEN "push_blocked" ELSE "push_store")
  /\ UNCHANGED <<ring, flags, item, rc, bounds, history>>

PushSleep(t) ==
  /\ pc[t] = "push_blocked"
  /\ Release(t)
  /\ Goto(t, "push_asleep")
  /\ UNCHANGED <<ring, flags, item, rc, bounds, history>>

(* A mistake the checks notice: the consumers are not woken. *)
PushStoreSilent(t) ==
  /\ pc[t] = "push_store"
  /\ is_open
  /\ Release(t)
  /\ objects' = [objects EXCEPT ![reader] = item[t]]
  /\ reader' = After(reader)
  /\ size' = size + 1
  /\ pushed' = Append(pushed, item[t])
  /\ stored' = [stored EXCEPT ![t] = TRUE]
  /\ Goto(t, "push_rc")
  /\ UNCHANGED <<writer, flags, item, rc, bounds, popped, reopened>>

(* The queue is still open: store, wake the consumers, unlock. *)
PushStore(t) ==
  /\ pc[t] = "push_store"
  /\ is_open
  /\ Release(t)
  /\ objects' = [objects EXCEPT ![reader] = item[t]]
  /\ reader' = After(reader)
  /\ size' = size + 1
  /\ pushed' = Append(pushed, item[t])
  /\ stored' = [stored EXCEPT ![t] = TRUE]
  /\ WakePoppers(t, "push_rc")
  /\ UNCHANGED <<writer, flags, item, rc, bounds, popped, reopened>>

PushRefused(t) ==
  /\ pc[t] = "push_store"
  /\ ~is_open
  /\ Release(t)
  /\ Goto(t, "push_rc")
  /\ UNCHANGED <<ring, flags, item, rc, bounds, history>>

(* A mistake the checks notice: push() always reports success. *)
PushReturnZero(t) ==
  /\ pc[t] = "push_rc"
  /\ rc' = [rc EXCEPT ![t] = 0]
  /\ item' = [item EXCEPT ![t] = 0]
  /\ Goto(t, "idle")
  /\ UNCHANGED <<ring, flags, queue_lock, bounds, history>>

(* The return code is read from is_open after the lock was released. *)
PushReturn(t) ==
  /\ pc[t] = "push_rc"
  /\ rc' = [rc EXCEPT ![t] = IF is_open THEN 0 ELSE 1]
  /\ item' = [item EXCEPT ![t] = 0]
  /\ Goto(t, "idle")
  /\ UNCHANGED <<ring, flags, queue_lock, bounds, history>>

-----------------------------------------------------------------------------
(* pop()                                                                   *)

PopCall(t) ==
  /\ pc[t] = "idle"
  /\ Goto(t, "pop_enter")
  /\ UNCHANGED <<ring, flags, queue_lock, item, rc, bounds, history>>

PopTest(t) ==
  /\ pc[t] = "pop_enter"
  /\ Acquire(t)
  /\ Goto(t, IF size = 0 /\ is_open /\ ~signal THEN "pop_blocked"
             ELSE "pop_take")
  /\ UNCHANGED <<ring, flags, item, rc, bounds, history>>

PopSleep(t) ==
  /\ pc[t] = "pop_blocked"
  /\ Release(t)
  /\ Goto(t, "pop_asleep")
  /\ UNCHANGED <<ring, flags, item, rc, bounds, history>>

(* rc = 1 *)
PopSignal(t) ==
  /\ pc[t] = "pop_take"
  /\ signal
  /\ Release(t)
  /\ signal' = FALSE
  /\ Goto(t, "idle")
  /\ UNCHANGED <<ring, is_open, urgent_close, item, rc, bounds, history>>

(* A mistake the checks notice: the youngest object is returned. *)
PopYoungest(t) ==
  /\ pc[t] = "pop_take"
  /\ ~signal
  /\ size > 0
  /\ ~urgent_close
  /\ Release(t)
  /\ reader' = IF reader = 0 THEN MaxSize - 1 ELSE reader - 1
  /\ size' = size - 1
  /\ popped' = Append(popped, objects[reader'])
  /\ WakePushers(t, "idle")
  /\ UNCHANGED <<objects, writer, flags, item, rc, bounds, pushed, stored,
                 reopened>>

(* rc = 0 *)
PopObject(t) ==
  /\ pc[t] = "pop_take"
  /\ ~signal
  /\ size > 0
  /\ ~urgent_close
  /\ Release(t)
  /\ writer' = After(writer)
  /\ size' = size - 1
  /\ popped' = Append(popped, objects[writer])
  /\ WakePushers(t, "idle")
  /\ UNCHANGED <<objects, reader, flags, item, rc, bounds, pushed, stored,
                 reopened>>

(* A mistake the checks notice: a closed queue delivers nothing more. *)
PopEndAtClose(t) ==
  /\ pc[t] = "pop_take"
  /\ ~signal
  /\ size = 0 \/ urgent_close \/ ~is_open
  /\ Release(t)
  /\ IF is_open THEN Goto(t, "done") ELSE WakePushers(t, "done")
  /\ UNCHANGED <<ring, flags, item, rc, bounds, history>>

(* A mistake the checks notice: a leaving consumer wakes no producer. *)
PopEndSilent(t) ==
  /\ pc[t] = "pop_take"
  /\ ~signal
  /\ size = 0 \/ urgent_close
  /\ Release(t)
  /\ Goto(t, "done")
  /\ UNCHANGED <<ring, flags, item, rc, bounds, history>>

(* rc = -1: the consumer leaves. Producers are woken only if closed. *)
PopEnd(t) ==
  /\ pc[t] = "pop_take"
  /\ ~signal
  /\ size = 0 \/ urgent_close
  /\ Release(t)
  /\ IF is_open THEN Goto(t, "done") ELSE WakePushers(t, "done")
  /\ UNCHANGED <<ring, flags, item, rc, bounds, history>>

-----------------------------------------------------------------------------
(* wait() reads nothing but size, under the lock: testing and sleeping are *)
(* one step.                                                               *)

WaitCall(t) ==
  /\ pc[t] = "idle"
  /\ Goto(t, "wait_enter")
  /\ UNCHANGED <<ring, flags, queue_lock, item, rc, bounds, history>>

WaitTest(t) ==
  /\ pc[t] = "wait_enter"
  /\ queue_lock = Nobody
  /\ Goto(t, IF size > 0 THEN "wait_asleep" ELSE "idle")
  /\ UNCHANGED <<ring, flags, queue_lock, item, rc, bounds, history>>

(* pthread_cond_wait() may return without a broadcast. *)
SpuriousWake(t) ==
  /\ spurious < MaxSpurious
  /\ spurious' = spurious + 1
  /\ pc[t] \in Asleep
  /\ Goto(t, Reenter(pc[t]))
  /\ UNCHANGED <<ring, flags, queue_lock, item, rc, sent, signals, opens,
                 history>>

-----------------------------------------------------------------------------
(* What a thread inside an operation does next; a thread outside is free   *)
(* to stay there, except a consumer, which loops.                          *)

OwnerStep ==
  OpenSignal \/ CloseWake \/ \E urgent \in BOOLEAN : CloseUrgency(urgent)
SignalStep(t) == SignalSet(t) \/ SignalWake(t)
PushStep(t) ==
  PushTest(t) \/ PushSleep(t) \/ PushStore(t) \/ PushRefused(t) \/ PushReturn(t)
PopStep(t) ==
  \/ PopCall(t) \/ PopTest(t) \/ PopSleep(t)
  \/ PopSignal(t) \/ PopObject(t) \/ PopEnd(t)

Next ==
  \/ Open \/ CloseShut \/ OwnerStep
  \/ \E t \in Signalers : SignalTest(t) \/ SignalStep(t)
  \/ \E t \in Pushers : PushCall(t) \/ PushStep(t)
  \/ \E t \in Poppers : PopStep(t)
  \/ \E t \in Waiters : WaitCall(t) \/ WaitTest(t)
  \/ \E t \in Threads : SpuriousWake(t)

Fairness ==
  /\ WF_vars(OwnerStep)
  /\ \A t \in Signalers : WF_vars(SignalStep(t))
  /\ \A t \in Pushers : WF_vars(PushStep(t))
  /\ \A t \in Poppers : WF_vars(PopStep(t))
  /\ \A t \in Waiters : WF_vars(WaitTest(t))

Spec == Init /\ [][Next]_vars
FairSpec == Spec /\ Fairness

-----------------------------------------------------------------------------
(* The queued objects, oldest first, as the ring holds them.               *)
Slot(i) == IF writer + i < MaxSize THEN writer + i ELSE writer + i - MaxSize
Contents == [i \in 1 .. size |-> objects[Slot(i - 1)]]

Channel == INSTANCE QueueSpec WITH contents <- Contents,
                                   Objects <- 1 .. MaxPushes

(* queue.cpp:59, "Must not be full!": a thread about to store, having left *)
(* the waiting loop, finds room, although is_open is read twice (131, 136) *)
(* and may have changed in between.                                        *)
RoomToStore ==
  \A t \in Pushers : pc[t] = "push_store" /\ is_open => size < MaxSize

(* No object is lost, duplicated or reordered by the ring, its wrap-around *)
(* and the interleavings of push() and pop(): what was returned so far,    *)
(* then what the ring holds, is what was stored, in order.                 *)
Fifo ==
  /\ Len(pushed) = Len(popped) + size
  /\ \A i \in 1 .. Len(popped) : popped[i] = pushed[i]
  /\ \A i \in 1 .. size :
       objects[Slot(i - 1)] = pushed[Len(popped) + i]

(* push() re-reads is_open without the lock (143) to tell what it did      *)
(* under it (136). A push() that returns 0 has stored its object unless    *)
(* the queue was reopened while it was running.                            *)
PushToldTruth ==
  \A t \in Pushers :
    pc[t] = "idle" /\ rc[t] = 0 /\ ~reopened[t] => stored[t]

(* Until a second open(), and if urgent_close happened to start as FALSE,  *)
(* a consumer that was sent away by a plain close() left nothing behind,   *)
(* whatever producers were doing when the queue closed.                    *)
PlainCloseDrains ==
  (/\ opens <= 1 /\ pc[Owner] # "open_signal"
   /\ TRUE \notin UrgentGarbage /\ ~urgent_close) =>
    \A t \in Poppers : pc[t] = "done" => size = 0 /\ ~is_open

(* The ring implements the channel of QueueSpec. *)
ImplementsChannel == Channel!Spec

(* close() wakes no producer: one that sleeps on a full queue depends on   *)
(* the consumers for its release, with or without urgency.                 *)
PushersReleased ==
  \A t \in Pushers : pc[t] = "push_asleep" ~> pc[t] = "idle"

(* Everything stored comes out, unless the owner asked to leave it. *)
Drained == size > 0 ~> size = 0 \/ urgent_close

(* wait() sleeps on the producers' condition and must see the last pop(). *)
WaitReturns ==
  \A t \in Waiters : pc[t] = "wait_asleep" ~> pc[t] = "idle" \/ urgent_close

(* threads_manager.cpp:301 takes -1 for "queue closed", and                *)
(* queue_test.cpp:38-41 expects an open queue to give its objects back: a  *)
(* consumer is sent away from a closed queue only.                         *)
SentAwayOnlyIfClosed ==
  is_open /\ pc[Owner] # "open_signal" => \A t \in Poppers : pc[t] # "done"

(* threads_manager.cpp:392-394, "Stop monitoring thread", joins a consumer *)
(* after close(): every consumer is sent away once close() has returned.   *)
CloseReleasesPoppers ==
  \A t \in Poppers :
    (~is_open /\ opens > 0 /\ pc[Owner] = "idle") ~> pc[t] = "done"

=============================================================================
