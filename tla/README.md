# htoolbox in TLA+

A verification development of htoolbox, a C++ library of system building
blocks: blocking queues and a thread pool, chains of reader/writers, TLV
messages over sockets, reporting, and helpers for files, configuration and
hashes. The modules model its concurrent core, its messages over sockets, its
reports and its stand-alone parts as of this repository. TLC checks them on
small instances, and TLAPS proves the safety properties of the queue, of the
thread pool and of the copier for every size and every number of threads, that
the queue implements its abstract specification, and safety properties of the
console and of the log files of the reports, of lines read through a buffer, of the
tree of hashes, of the lock between processes (as far as two of them have the same
address, which one name does not make sure) and of the share.

Paths below are relative to the repository; `queue.cpp` is `src/queue.cpp`,
`queue.h` is `include/queue.h`, and so on.

## 1. The system

### Components

| Component | State | Operations | Hard behaviours |
|---|---|---|---|
| **Queue** (`queue.cpp`) | ring of pointers, size, `is_open`, `signal`, `urgent_close`, one mutex, two conditions | open, close(urgent), push, pop, wait, signal | flags written without the lock, lost wake-ups, wrap-around, reopening |
| **ThreadsManager** (`threads_manager.cpp`) | input queue, stacks of busy and idle workers, their number, the monitor thread, per worker a mutex and a data pointer | start, stop(urgent), push, the monitor's loop, the workers' loop, activity callback | hand-over through a mutex used as a semaphore, reaping, waiting for an idle worker, orderly stop, start/monitor race |
| **AsyncWriter** (`asyncwriter.cpp`) | buffer, `failed`, `closing`, two mutexes locked by one thread and unlocked by the other | open, put, close, the writing thread | data used after put() returned, failures that happen in the background |
| **MultiWriter** (`multiwriter.cpp`) | list of children | open, put, close over all of them | one child of several fails |
| **Copier** (`copier.cpp`) | two buffers, a source, a MultiWriter of AsyncWriters | open, read/get, put, close | double buffering against background writers |
| **Socket** (`socket.cpp`) | listening and connected descriptors, shared address data | listen, open, close, release, get, put | partial transfers, retries |
| **TLV messages** (`tlv.cpp`) | `_started`, `_failed` of the sender | start, check, write, end, error; receive | a stream that ends inside a message |
| **TLV managers** (`tlv_helper.cpp`) | list of objects, how far each was sent or received | add, remove, submit, receive, send | blobs in parts, re-arming, chained managers, failure half-way |
| **Observer** (`observer.cpp`) | two lists that mirror each other | register, unregister, notify, destructors | notification during destruction |
| **Report** (`report.cpp`) | outputs, filters, levels; files and their backups | log, levels, filters, rotate, zip | level propagation, crash or failure inside a rotation |
| **ProcessMutex** (`process_mutex.cpp`) | a bound socket | lock, unlock | several processes, failed bind |
| **HashTree** (`hash_tree.h`) | a 16-way tree keyed by hexadecimal digits | add, find, remove, next | iteration with and without a hint, pruning |
| **LineReaderWriter** (`linereaderwriter.cpp`) | a buffer over a child stream | read, get, getLine, putLine | delimiters across buffers |
| **Zipper, Hasher** | zlib's or libcrypto's state | stream filters | external libraries |
| **FileReaderWriter, NullWriter, StackHelper, IReaderWriter** | a descriptor | the stream interface | - |
| **Configuration, Criticality, Files, Filesystem, SharedPath, Share** | trees, paths, metadata | parsing, formatting, system calls | sequential |

### Interactions

* ThreadsManager owns a Queue. Clients push into it, the monitor is its only
  consumer, workers call `signal()` on it, `stop()` closes it.
* Copier puts every buffer it reads into a MultiWriter, whose children are
  AsyncWriters, each with a thread of its own that writes into a destination.
* A FileOutput of Report zips a backup through an AsyncWriter over a Zipper.
* Report is an Observer of its outputs and filters, which are Observees.
* TLV managers drive Sender and Receiver, which read and write any
  IReaderWriter, a Socket in practice.

### What makes each one correct

* Queue: no object lost, duplicated or reordered; capacity respected; push()
  tells whether it stored; a plain close drains; nobody sleeps for ever.
* ThreadsManager: a task runs exactly once; every worker is in exactly one
  place and counted; stop() finishes the work, leaves no thread and returns;
  the observer hears of the end of activity.
* AsyncWriter, MultiWriter, Copier: destinations get the source's data, in
  order; a buffer is not refilled while it is in use; close() reports every
  failure and leaves nothing open; calls return.
* TLV: the receiver gets the messages the sender sent or an error; blobs are
  reassembled. Socket: put() sends the given bytes once.
* Observer and Report: the lists mirror each other, the report's level is that
  of its most verbose open output, a rotation loses no backup it should keep.
* ProcessMutex: one process at a time, and a lock that failed is not held. The code
  gives the first for each address that it makes of a name, not for each name (below).
* HashTree, LineReaderWriter: they agree with an ordered set and with the text.

`PROJECT.json` has the full list of hazards, each at its line.

## 2. The modules

| Module | Models | Composition |
|---|---|---|
| `QueueSpec` | the queue as its users see it: a bounded channel with a signal and two flags | - |
| `Queue` | `queue.cpp`, at the grain of its accesses to shared flags | implements `QueueSpec` (`ImplementsChannel`) |
| `MCQueue` | symmetry for TLC | EXTENDS `Queue` |
| `QueueProofs` | theorems about `Queue`, among them that it implements `QueueSpec` | EXTENDS `Queue`, `TLAPS` |
| `ThreadsManager` | `threads_manager.cpp` | INSTANCE of `QueueSpec` for `q_in` |
| `ThreadsManagerStacks` | lemmas about its stacks, queues and counter | EXTENDS `ThreadsManager`, `TLAPS` |
| `ThreadsManagerProofs` | theorems about `ThreadsManager` | EXTENDS `ThreadsManagerStacks` |
| `AsyncWriter` | `asyncwriter.cpp`: operations of a family of writers | - |
| `Copier` | `copier.cpp` over `multiwriter.cpp` | EXTENDS `AsyncWriter` |
| `MCCopier` | two destinations for TLC | EXTENDS `Copier` |
| `CopierProofs` | theorems about `Copier` and `AsyncWriter` | EXTENDS `Copier`, `TLAPS` |
| `Socket` | `socket.cpp`: two ends of a connection that may be cut or closed at any byte | - |
| `Tlv` | `tlv.cpp`: Sender and Receiver | EXTENDS `Socket` |
| `TlvManagers` | `tlv_helper.cpp`, and the TLV output and manager of `report.cpp` | EXTENDS `Tlv` |
| `MCTlv` | lists of objects for TLC | EXTENDS `TlvManagers` |
| `TlvProofs` | theorems about `Socket`, `Tlv` and `TlvManagers` | EXTENDS `TlvManagers`, `TLAPS` |
| `ConsoleOutput` | the columns of a terminal in `report.cpp` | - |
| `FileOutput` | log files and their rotation in `report.cpp`, `Node::findExtension()` | - |
| `OutputProofs` | theorems about `ConsoleOutput` and `FileOutput` | EXTENDS both, `TLAPS` |
| `Report` | filters, levels and who is notified: `report.cpp`, `observer.cpp` | - |
| `Reports` | the three side by side | EXTENDS all three |
| `MCReports` | conditions and messages for TLC | EXTENDS `Reports` |
| `LineReaderWriter` | `linereaderwriter.cpp` over `filereaderwriter.cpp` | - |
| `HashTree` | `hash_tree.h` | - |
| `ProcessMutex` | `process_mutex.cpp`, in several processes | - |
| `Share` | `share.cpp` and the mount point | - |
| `Configuration` | `configuration.cpp` | - |
| `Utilities` | the five side by side | EXTENDS all five |
| `MCUtilities` | delimiters, shares, syntax and lines for TLC | EXTENDS `Utilities` |
| `UtilitiesProofs` | theorems about `HashTree`, `ProcessMutex` and `Share`, in `Utilities` | EXTENDS `Utilities`, `TLAPS` |
| `LineProofs` | a theorem about `LineReaderWriter`, in `Utilities` | EXTENDS `UtilitiesProofs` |

`Reports` and `Utilities` put parts next to each other that share nothing: in
each behaviour `part`, chosen at the start, is the only one that moves.

An operator whose comment begins with "A mistake the checks notice" is a faulty
variant of the definition that follows it. Nothing uses these: they serve to
make sure that each property can fail, by putting the variant in the place of
the definition (`PROJECT.json`, "mutants").

### Queue

`objects`, `reader`, `writer`, `size`, `is_open`, `signal`, `urgent_close` and
`queue_lock` are the fields of `Queue::Private` (pointers are indexes into the
ring; as in the code, push() stores at `reader` and pop() loads at `writer`).
`pc` is where each thread is:

* push(): `push_enter` (129) -> the test of the loop (131) -> `push_blocked`
  (lock held, about to sleep) -> `push_asleep` (133), or `push_store` (136)
  -> `push_rc` (143) -> `idle`.
* pop(): `pop_enter` (150) -> `pop_blocked` -> `pop_asleep` (154), or `pop_take`
  (158-170) -> `idle` if it got an object or a signal, `done` if it got -1.
* wait(): `wait_enter` -> `wait_asleep` (113) or `idle`.
* signal(): `idle` -> `signal_set` (179) -> `signal_wake` (180) -> `idle`.
* open(): `idle` -> `open_signal` (53) -> `idle`; close(): `idle` ->
  `close_urgent` (57) -> `close_wake` (104) -> `idle`.

open(), close() and signal() take no lock, so each of their assignments is a
step. What push() and pop() do under the lock is split at every read of a flag
that those write, and between the test of a loop and the sleep. Where the order
of two reads cannot be told from outside they share a step: pop()'s test reads
`is_open` then `signal`, and a change in between has the effect of one just
before or just after. A thread in the middle of lines 136-142 while the owner
closes *and* reopens the queue is not distinguished from one just before or
just after; neither is a reader of a torn pointer.

Assumptions about callers, taken from `threads_manager.cpp` and
`queue_test.cpp`: one owner opens and closes; a consumer leaves when told -1 and
comes back with the next open(); open() is called when no consumer is inside.
`LeftoverReopen = FALSE` further says that an owner does not reopen a queue that
still holds objects, which open() does not support (it rewinds the ends and not
`size`). `UrgentGarbage` is what `urgent_close` may hold before the first
close(): no constructor sets it.

### ThreadsManager

`contents`, `is_open`, `signal`, `urgent_close` are `q_in`, changed by the
actions of `QueueSpec` only. What `QueueSpec` does not say is which calls wake the
monitor: close() and signal() set their flag and broadcast without `queue_lock`
(`queue.cpp:100-106`, 179-180), so that both can fall between pop()'s test (152) and its
sleep (154). `PopTest` and `PopSleep` are these two, `WorkerSignal` and
`WorkerBroadcast` the halves of a worker's `q_in.signal()`, and `Roused` says what a
broadcast does: a monitor asleep gets up, and one about to sleep (`pop_sleep`) will
have missed it (`pop_missed`) and sleeps although it has something to do (`pop_deaf`)
until the next broadcast. push() takes the lock and misses nobody. `busy_threads` and `idle_threads` are the two
stacks as sequences, head first; `threads` is the counter, a `size_t` modulo
`SizeT`; `worker`, `mutex`, `data` are the workers (`data = Itself` is the
code's `data == this`, the order to exit). `monitor` and `caller` are the
places of `monitor_thread()` and of start()/stop(). A section with
`threads_list_lock` held is one step unless it waits: a join (`reaping`,
`joining`) keeps the lock, and so does a worker inside `q_in.signal()`. Time is
abstracted: the oldest idle worker may be too old at any moment. The routine is
one step; `runs` counts its calls. `out` is the output queue, of which the client
takes results at any time or never (`collected`); it is open throughout, as in
`threads_manager_test.cpp`, and absent where `OutSize` is 0.

Clients push once start() has returned; `EarlyPush` lifts that. `SpuriousPlaces`
says which of the monitor's two waits may end for no reason.

### AsyncWriter and Copier

`buffer_lock` and `thread_lock` are booleans: each is locked by one thread and
unlocked by another. `content[b]` is the number of the chunk a buffer holds, and
a background write appends what the buffer holds *when the write ends*, so that
refilling a buffer in use shows up as a wrong chunk. `written[w]` is what the
destination received. Every operation of the source and of the destinations may
fail. `place` and `dest` are where the single caller is and which child
MultiWriter's loop has reached. `given` is the buffer that is being put, the
current one in read() and `Mine`, the caller's, in put(); a caller uses its own
buffer again only after another one was put. `rejected[w]` is the chunk that
destination `w` refused in this session, or 0; the caller then closes, or reads on.

### Socket, Tlv and TlvManagers

A connection is the bytes written to it and not yet taken; each end may be
closed, and trouble may cut it between any two bytes. As the sender only appends
and the receiver only takes, a put() or a receive() is one step, and the places
where it could stop are its outcomes. `Turns` enumerates those of put()'s loop
(`socket.cpp`, 286-307): complete, or failed after some bytes, or resumed after a
short send, which sends the *whole* length again from where it got
to. What follows a resumed send is garbage, which is not what
`ireaderwriter.h:37-38` promises; `torn` marks such a connection, and the properties
except it: nothing is said of what the partial sends of `socket.cpp:293` bring about.

`Tlv` has messages as a header of four bytes and the bytes of a value, and the
sender's `started` and `failed`, which check() sets anew. A header cut after three
bytes is accepted by receive() (`tlv.cpp:130`). Every connection that is cut, by a put() that
failed or by the network, is judged: where END loses its last byte, receive()
says that it is complete, and `CompleteIsFaithful` finds all objects there; where the
header of a value does, the value is empty, which `LogsArrive` allows for the last line
only, and no receive() completes over it.

`TlvManagers` has the objects of each kind (`objects` at
the sending end with `tx`, how far each was sent; `rx`, the receiver's variables),
blobs in parts of `MaxLength` ended by a shorter one, values that do not fit,
refusals, chains of managers and log lines. `wrote` records, per object, the
messages that the socket took in the pass under way through the list, and
`OkMeansWritten` compares these with what the object is made of. What the code does not
recover from is named and excepted, and so is not covered by the properties:

* `torn`: garbage after a partial send, above.
* `tainted`: connections over which a sender went on after a failure. The
  failure alone does not taint. A send() that stopped in the middle leaves positions where they are
  (`tlv_helper.cpp:188`), and the next one goes on from there over the same stream.
* `rx_stale`: a receiving manager used again after its own failure.
* `forgiven`: start() or check() was called while some object was half sent.
  Both forget the error (`tlv.cpp:46`, 57). The object that was refused has been given out by
  ready() already, so the next send() skips it (`tlv_helper.h:168-176`), writes END and
  returns 0. The exception is needed: without it TLC finds `OkMeansWritten` violated.
* A chain of managers. send() goes through *its own* objects once per manager
  (`tlv_helper.cpp:184`), and those of the chained managers are never sent. The
  properties are about the manager's own objects.
* `stranded`: a connect() that fails keeps its descriptor; excepted in `Owned`.

### ConsoleOutput, FileOutput and Report

`ConsoleOutput` has the columns that the terminal shows and what the output
believes of them (temporary and continued messages), with widths for texts.

`FileOutput` has the files of a log by number and extension (`disk`, where
`"plain"` is the file without one), each with the generation of its contents, and a rotation as its sequence of renames, zips and
removals (`job`, `step`, `slot`), each of which may be the last thing the program
does; renames, zips and opens may fail, and somebody may move the log away. Its caller
ignores the failure of a rotation and opens the file for writing, which empties
it: `spoilt`. Each of the `setbacks` (a process that died, a rename that failed)
costs the oldest backup. After fopen() failed in log() the report stops calling the output. The
thread of the zip may itself log, and then waits for the report's mutex; that is
not modelled.

`Report` has outputs, filters with conditions, the level of each, and the two lists
of every observer and observee, which must mirror each other. Opening and closing
a FileOutput tells nobody: `silent`, excepted in `Heard`, as is a filter whose
output it deleted (`touched`). No caller destroys an output below a filter that
still needs it.

### The stand-alone parts

* `LineReaderWriter`: `ahead` is the buffer from reader to its end, `position` how
  much the file gave and `offset` the field; the text is read by any mix of
  getLine(), read() and get(), with a delimiter of one or two characters. `latest`
  is what the last call returned, compared with the text. Where a first delimiter
  stands without the second, nothing is said of lines (`Regular`: 157 takes the
  byte after it for granted, `linereaderwriter.h:54` expects the second there),
  nor once the file failed, when read() adds -1 to its offset.
* `HashTree`: `nodes` are the paths of the nodes, `slots` the objects by the path of
  their slot, over hashes of `HashLength` digits in `Base`; all hashes have one
  length. next() from a hash that is not there and whose slot holds another one
  returns that one (176), as `WalkInOrder` says.
* `ProcessMutex`: each process has an object, all with the same name. `lock` is the
  field of each, `address` the last byte of its address and `bound` the process that has
  bound each address. That byte is part of the model because it is not part of
  the name: the length counts one byte more than strcpy() writes
  (`process_mutex.cpp:45-49`), and the byte is whatever malloc() returned. Two
  processes with one name may thus bind two addresses and both be told that they hold
  the lock, which the model does. The constructor is where the byte is fixed,
  so two objects either share an address for as long as they live or never do. The
  destructor closes nothing. A bind() that fails leaves the socket, so that the
  next lock() is refused (EBUSY) though the address may be free, until unlock().
  A close() that fails (86-89) returns -1 and `lock_` stays, for a descriptor that
  is "gone": that object never locks again.
* `Share`: `mounted` and `kind` are the fields, `point` what is really mounted. The
  string of a share does not tell nfs from ssh, and the kind is recorded before the
  previous share is unmounted by it, and forgotten by "file" (`share.cpp`, 48, 104):
  `astray` marks what follows.
* `Configuration`: lines of one-character keywords and parameters, a syntax as a
  function of paths, extractParams() as an automaton, the tree and the objects
  that read() makes, and write() as a cursor that advances. `past` names what the
  properties except: a read of a tree not cleared (`again`), a last line without
  a line feed, which skips the final checks (`cut`), a write() after one that
  failed, which continues in the middle (`torn`) or on a cleared tree
  (`dangling`). write() escapes nothing: `Rewritable` says exactly which
  parameters survive. Writing an empty tree is undefined and guarded.

## 3. What the runs check

Passing runs:

* **queue_safety** - ring of 2, two producers, two consumers, one signaler,
  3 pushes, 2 sessions. A ring of 2 with 3 pushes wraps around with the ends
  apart; two threads of each kind are enough for one to act between any two
  steps of the other; 2 sessions reach every stale flag.
  `TypeOK`, `RoomToStore`, `Fifo`, `PushToldTruth`, `PlainCloseDrains`, and
  `ImplementsChannel`: each step is a step of `QueueSpec` or changes nothing
  that it shows. `PushToldTruth` has one direction: 0 means stored. The other does
  not hold, as push() tests `is_open` again after it stored (143) and then returns 1
  for an object that is in the queue. Producers and consumers are interchangeable (symmetry), which
  is sound as no liveness is checked.
* **queue_live** - ring of 1, two producers, one consumer, one waiter, one
  spurious wake-up, under fairness. `PushersReleased`: although close() wakes
  no producer, none is left asleep, as the consumer wakes them when it leaves.
  `Drained`, `WaitReturns`.
* **copier_safety** - two destinations, up to 5 chunks (each buffer is reused
  twice), read or put, 2 sessions, any operation failing. `FilledIsFree` and
  `DestinationsGetChunks` are the double buffering, also when the caller puts its
  own buffer between two reads; both except a caller that reads on after a refused
  put, as read() then fills the same buffer again, which the destinations before
  may still be writing (`copier.cpp:123`): those hold a later chunk in the place of
  the refused one. `CloseReportsFailure` is
  about a write that fails after the last put(); `NothingLeftOpen` covers
  opens that fail half-way; `CallsReturn` holds except for a kept lock (below).
* **threads_manager_pool** - 284 thousand states. Queue of 1, output queue of 1, 3 tasks,
  at most 2 workers at a time and 3 creations, one failed
  pthread_create, expired workers, a spurious wake-up of the monitor,
  2 sessions with plain and urgent stops; `threads` starts with any value. Three tasks are
  one that runs, one in the queue and one that finds it full; three creations replace an
  expired worker while the other one works.
  `WorkersAccountedFor`, `RunsOnce`, `StopFinishesWork`, `NoThreadLeft`,
  `StopReturns`, `IdleIsReported`. Both except `Overslept`: the monitor
  sleeps for ever on a queue that is closed or signalled, as it missed the broadcast.
  `IdleIsReported` therefore says that the end of activity is reported unless the workers'
  signal was missed and nothing is pushed or closed later; `queue_lost_wakeup` shows the
  missed broadcast of close() in the queue itself, and signal() makes the same one.
  `StopReturns` has two more exceptions. `Stranded`: if the first
  worker cannot be created the monitor waits for a worker that does not exist, and
  stop() for the monitor. `Blocked` for ever: nobody takes results from a full
  output queue, in which a worker sleeps (`threads_manager.cpp:183`); no fairness is
  assumed of the client.
* **tlv_wire** - 1.4 million states. Two connections, 9 lists of objects (every
  kind, blobs of 0 to 4 bytes in parts of 2 into 3 bytes of room: both sides of a
  part's and of the room's limit), two send() and two receive() calls, one trouble and one piece of garbage.
  `CompleteIsFaithful`: a receive() that says it is complete has the objects that
  were sent, wherever the stream was cut. `OkMeansWritten`: when a send() says so, the socket
  took every part of every object of the manager, in order and each once, and END
  last, also when an earlier send() had stopped in the middle of an object; except for what
  `forgiven` and `torn` name. `SentIsRearmed`: after a send() that succeeded every object can be
  sent again. `LogsArrive`: log lines come out as they were given, in
  their order; the last one may have lost its message if the connection was cut in the
  header of it. `Owned`: each descriptor is closed once or is some object's.
  `NeverStuck`: no receive() waits for what cannot come any more, which stands for
  liveness: what blocks is only the wait for the peer. The second connection has no
  calls of its own beyond those of managers that are used again, and garbage only
  meets the shortest list, as it makes the same difference to the others. The message of a
  log line has one byte: those that `report.cpp:721-724` sends in parts are not exercised.
* **reports** - 620 thousand states. Four messages with widths 0, 1 and 3 on the
  terminal (a text shorter, equal or longer than the one before): `LineIsClean`.
  Up to 2 backups, 4 generations, 2 setbacks, 1 failure: `InOrder` (backups are
  numbered by age at every step of a rotation, unless a second setback came, and
  none is there twice, unless a first one did),
  `Kept` (the last ones are there, whole, but those `moved` or `spoilt`). Three levels, conditions of the
  three modes of which at most 2 are given, a second filter, outputs opened,
  closed and destroyed in any order: `Mirrored` and `Heard` (no level cuts off a
  message that an output would show), but for what `touched` and `silent` name:
  the filter that keeps an output which it deleted is not covered.
* **utilities** - 1.65 million states. A buffer of 3 over texts of 5 characters (a
  delimiter of two straddles the buffer): `LinesAreWhole`. Three hashes of four
  binary digits: `TreeInOrder`. Three processes and two values of the last byte, so that two objects
  may share an address that a third does not: `HolderBelieved`, which is about an address
  (who was told that it has the lock has its address, which is nobody else's; an address
  that is taken belongs to one who was told or whose object was destroyed), and
  says nothing of two addresses made of one name, nor of an object that is refused with EBUSY. Six requests,
  among them two shares with the same name: `PointBelieved`. Files of 3 lines out
  of 7, 4 sets of flags, two reads and writes: `ReadTold` (read() reports every
  error, and builds what the file says) and `Rewritten` (what write() wrote reads
  back).

Runs that find the code at odds with what it says:

* **queue_sticky** - `urgent_close` survives into the next session: the reopened
  queue tells a consumer that it is closed (`queue.cpp:49-54`).
* **queue_lost_wakeup** - close() broadcasts without the mutex, and a consumer
  between its test and its sleep never leaves (`queue.cpp:100-106`); stop() of a
  thread pool, which joins that consumer, then hangs.
* **copier_close_hangs** - AsyncWriter::put() returns -1 with `buffer_lock`
  taken, and close() waits for it (`asyncwriter.cpp:121-123`, 93).
* **threads_manager_early_push** - start() zeroes the number of workers after it
  created the monitor (`threads_manager.cpp:380`).
* **threads_manager_spurious** - the wait for an idle worker is not in a loop
  (`threads_manager.cpp:281`).

The missed broadcasts of close() and of signal() are in `ThreadsManager` too, where
`StopReturns` and `IdleIsReported` except a monitor that sleeps through one.

Deadlock is not checked (`CHECK_DEADLOCK FALSE`): the bounds on calls stop every
model, and callers may stop calling. The liveness properties say what must not
get stuck.

### Fairness

Weak fairness of the steps of an operation under way, per thread: a thread that
can run is eventually scheduled. Starting an operation is never fair (nobody has
to push, open or stop), except for a consumer, which loops on pop(), as the
monitor does. Weak fairness is enough where a mutex is contended because in the
checked instances the other threads run out of calls.

## 4. What is proved

Each theorem is about every value of the constants that the `ASSUME`s of its
module allow, and is proved from an invariant that is inductive, which the
property alone seldom is. Three hypotheses restrict some of them to what callers or
the platform do:

* `~LeftoverReopen`: open() is not called on a queue that holds objects.
  open() rewinds the ends and not `size`, so that the ring would deliver old slots;
  `StartOpen` of `ThreadsManager` says the same of its queue after an urgent stop.
* `EarlyPush = FALSE`: push() is called once start() has returned, as
  `threads_manager_test.cpp` does (`threads_manager_early_push` lifts it).
* `"wait_idle" \notin SpuriousPlaces`: the wait of `threads_manager.cpp:281` does
  not return spuriously (`threads_manager_spurious` lifts it).

### Queue

`QueueProofs`, for every `MaxSize`, every set of threads and any bounds, from the
assumptions of `Queue`:

* `TypeCorrect`: `Spec => []TypeOK`. `GotoType` and `WakeType` give the program
  counters; one step per action gives the rest.
* `FifoHolds`, `RoomHolds`: `Spec => []Fifo` and `Spec => []RoomToStore` if
  `~LeftoverReopen`. `Fifo` is not inductive: the proof needs that `reader` is
  the slot after the youngest object and that the ring is not over-full
  (`RingInv`), for which push() must find room although it reads `is_open`
  twice (`RoomToStore`), for which only the holder of the lock may be about to
  store (`LockInv`). `IInv` is their conjunction. `SlotsDiffer`, `SlotAfter` and
  `SlotShift` are the arithmetic of the wrap-around; `StoreKeepsOrder`,
  `TakeKeepsOrder` and `OpenKeepsOrder` the three actions that touch the ring.
* `PushTellsTruth`: `Spec => []PushToldTruth`, without any assumption on
  reopening. `RefusedInv` strengthens it: a thread whose object was refused, with
  no open() since, will find the queue closed at line 143.
* `NothingLeftBehind`: `Spec => []PlainCloseDrains` if `~LeftoverReopen`.
  `DrainInv` strengthens it, for the first session: a consumer about to take found
  an object, a signal or a closed queue (`ConsumerInv`), and at each place of the
  owner what it has set is still so (`OwnerInv`).
* `Implementation`: `Spec => ImplementsChannel` if `~LeftoverReopen`, the safety
  part of the refinement. `RefineInv` adds to `IInv`
  that a producer inside push() has an object to store (`ItemInv`); `ContentsOK` says
  that the objects between the ends of the ring are the contents of the channel, and
  one lemma per operation that its step is one of the channel's or none.

### ThreadsManager

`ThreadsManagerStacks` has the lemmas about pushing on a stack, taking from it at
any depth, sequences without repetition, and the `size_t` counter.
`ThreadsManagerProofs`, for any number of workers, tasks, sessions, failed
creations and spurious wake-ups, with or without an output queue:

* `TypeCorrect`: `Spec => []TypeOK`, with `PoolInv`, as the steps of the monitor
  only keep types if the stacks are in order: the two share no worker and no stack
  has one twice (`StacksOK`), the monitor's own worker is where its place says
  (`MonitorOK`), and each worker's stack, `data` and mutex agree (`WorkerOK`).
* `NothingRunsTwice`: `Spec => []RunsOnce`, without a hypothesis, early pushes
  included. `TaskInv` is that a task is in one place: not pushed, queued, carried
  by one worker, or done, and that its `runs` and results follow from which.
* `WorkersCounted`, `StopLeavesNoThread`, `StopFinishes`:
  `WorkersAccountedFor`, `NoThreadLeft` and `StopFinishesWork` if
  `EarlyPush = FALSE`. `SessionInv` relates the caller to the monitor: what the
  counter is and whether the queue is open, at each of the places of both.
* `WakesToAnIdleWorker`: `Spec => []ThreadGotIdle` if the unlooped wait never
  returns for no reason. This is the property that `threads_manager_spurious`
  refutes: the theorem says that a spurious return is the only cause.

### Copier and AsyncWriter

`CopierProofs`, for any number of destinations, chunks and sessions, without a
hypothesis. `Inv` is `TypeOK`, `ThreadInv` (per destination: which of its locks
may be free where its thread is, and what a refusal leaves) and `DataInv` (per
destination: how many chunks it has or is about to have, which buffers those are
in, and what it was given).

* `TypeCorrect`, `Invariance`: `Spec => []TypeOK`, `Spec => []Inv`.
* `FillsFreeBuffers`: `Spec => FilledIsFree`, the action property.
* `ChunksInOrder`: `Spec => []DestinationsGetChunks`.
* `SuccessIsComplete`: `Spec => []CloseReportsFailure`.
* `ClosedIsClean`: `Spec => []NothingLeftOpen`.

`DestinationsGetChunks` was first stated with a set of the destinations that had
refused, and held with the two of the run; the proof does not go through with four,
nor does the property: two destinations may refuse, at different chunks, and the
one between them is disturbed from the chunk of the later destination on, not from
the first one refused. `rejected` therefore has the number of the chunk.

### Socket, Tlv and TlvManagers

`TlvProofs`, for any lists of objects, chains of managers, lengths, room and numbers
of connections, from `TlvAssumption` (the three tags that managers and log
lines use are tags, a garbled header reads as some header, what is sent is of a kind
that a manager has):

* `OwnedAlways`: `Spec => []Owned`. `LifeOK` counts the descriptors; `LifeSteps` is
  that only `Lifecycle`, the two close() and a cut touch the sockets.
* `SentIsRearmedAlways`: `Spec => []SentIsRearmed`. `SendOK` is inductive: per
  object, what it sent and whether it is underway (`SendData`, `SendFlags`), and where
  send() is in the list and in the chain: the objects before that place are armed,
  and all of them are when send() said that it worked (`SendLinks`). `ReadyMoves` is what
  `ready()` and `value()` do to an object.
* `NeverStuckAlways`: `Spec => []NeverStuck`. A receive() runs on a connection
  (`Waiting`), and once nothing more can come on it what is there has an answer, a
  message or an error (`OverAnswers`).
* `OkMeansWrittenAlways`: `Spec => OkMeansWritten`, the action property. `WriteOutcome`
  is what each way in which a put() may end leaves in the stream; a send() that
  succeeded ended with the END of its list. That the objects are whole comes from
  `WroteOK`, which is inductive with `SendOK`: while a message is under way with which
  the Sender is content and nothing was `forgiven` (`Trusted`), the objects before the
  place of send() are wholly written, the one there as far as its position says, and
  those after it not at all (`InOrder`); and if an object was left in the middle, the
  Sender remembers why or was made to forget it (`Remembered`).
  `ReadyGivesNext` is that ready() and value() give the message after those written,
  `PartLength` and `PartBeyond` say where a blob's last part is, and `WriteAdds` that a
  write() that succeeded put exactly its message on the stream.
* `TypeOKAlways`: `Spec => []TypeOK`, from the above, `ReceiveOK` (what submit() leaves
  in a variable stays of its kind, whatever bytes came: `SubmitRoom`, `GrowRoom`) and
  `Ranges`.

### ConsoleOutput and FileOutput

`OutputProofs`:

* `NothingShinesThrough`: `ConsoleSpec => []LineIsClean`, for any widths of texts
  and prefixes. `Believed` is that the numbers of columns the output keeps are
  those of the messages on the row, and that the cursor is behind them.
  `RowRecovered` is what the first half of log() does to the row (what is beyond
  the columns about to be overwritten is clean), `DrawFromCursor` what printing does.
* `BackupsByAge`: `FileSpec => []InOrder`, for any number of backups and
  generations and any limit on lines. `InOrder` speaks of the file that rotate()
  finds in each slot; the inductive `ByAge` speaks of every file, since a plain file
  that goes may uncover a zipped one; both also say that without a setback no log
  is there under two numbers. `Cursor` is that the slot above the one that
  rotate() is at has no plain file, so that nothing is overwritten that was not
  moved, and `Twins` that two files of one slot are the same one, and only after a
  setback, unless a zip is under way; one rename that failed may leave a
  zipped copy in the slot about to be zipped into, which is removed (`step = "zip"`).
  One lemma per action. The hypothesis `setbacks <= 1` is `InOrder`'s own.
* `LogsKept`: `FileSpec => []Kept`, for any number of backups, generations, setbacks
  and failures, without a hypothesis. `Kept` counts the logs newer than one that was
  removed, so the inductive `KeptInv` counts them for those that are there: a backup is no
  further up than the number of newer logs and setbacks explains, plus one once a
  rotation has moved it and not yet the log (`Placed`, `Pending`); a log that is not
  to be found in a slot that the step under way leaves alone (`Held`, `Apart`) is
  `Droppable`; and the log is the last generation, nowhere else, and open only as
  what it is (`LogKnown`). `NewerNext` counts: a log that becomes a backup is one
  more that is newer than all others. `BackupsStay`, `BackupsMove`, `LogStays` and
  `LogMoves` are what the actions are made of. TLC agrees on `KeptInv` with four backups
  and three setbacks.

### LineReaderWriter

`LineProofs`, about `Utilities`, from `LineAssumption` (delimiters are characters, the
second of which may be missing; the buffer has room for at least one):

* `WholeLinesRead`: `Spec => []LinesAreWhole`, for any text, any pieces and a buffer of
  any size. `LineInv` is inductive: while nothing failed, the buffer is the text from the
  offset to what the child gave (`Buffered`).
  The loop of getLine() is the recursive function `Turns`. That there is such a
  function is `Repeated` (a step that is repeated until it is time to stop ends somewhere
  or nowhere, and one function says where), and what it ends in is an induction on
  what remains (`Remaining`, `LessRemains`, `ScanEnds`): each turn takes bytes from the
  buffer, and each filling takes bytes from the text. What a scan keeps is that its
  line and the buffer are the text (`OfText`) and that the line did not end before
  (`UpToHere`), which is where both delimiters matter: the second one is the byte that
  follows, in this buffer (`FirstDelimiter`) or in the next one (`SecondDelimiter`).
  `EndsIs` and `EndIsFound` relate that to `EndOfLine`. The condition `Regular` on texts
  is that of the property.

### HashTree, ProcessMutex and Share

`UtilitiesProofs`, about these modules' own specifications and about `Utilities`,
where one part moves in each behaviour (`PartsMove`):

* `WalksInOrder`: `Spec => []TreeInOrder`, for any base and length of the hashes,
  from `TreeAssumption` (both are positive). `TreeInv` is inductive: a node's parents
  are nodes and so is the node of every slot (`NodesOK`), every slot is a prefix of its
  object and its node has no child where it stands (`SlotsOK`), objects are hashes of full
  length (`ObjectsOK`), and every node but the root has something below it
  (`NodesUsed`), which is what remove() must keep and what makes next() find an object
  whenever it goes down. `OnlySlot` is that a hash has no other slot than the one where the
  search for it ends, so that no object is there twice; `AddToTakenSlot` is the
  add() that splits a slot, `RemoveKeeps` the remove() that gives nodes back. For the
  walk, `BeforeOneWay`, `BeforeTotal` and `SmallestExists` are that the digits order the
  hashes and that there is a first one in any set of them, `SlotBefore` that slots
  come in the order of their objects, and `AtLevel` and `SearchAfter` follow next()
  down and back up the tree. `LeastOf` (a non-empty set of numbers has a least one)
  stands for induction, and comes from the library's theorem about finite sets.
* `OneHolderOfAnAddress`: `MutexSpec => []HolderBelieved`, for any set of processes and
  of last bytes, from `NobodyIsNone`. It is mutual exclusion of the objects that share an
  address, which is all that the code gives; equal names need not share one. `MutexInv` is
  inductive: an object's socket is bound exactly if its address is that process's, who was told that
  it has the lock has its address, as long as its object exists, and who has an address
  has no other. One lemma per operation
  (`LockKeeps`, `UnlockKeeps`, `DestroyKeeps`, `RestartKeeps`).
* `OnlyThatShare`: `ShareSpec => []PointBelieved`, for any requests and any bound on
  mounts. `ShareInv` says the same of the stack of mounts, in a form that the steps
  keep: it is empty, or has the one share that the object holds (`OneShare`).
  `UnmountedIsEmpty` is that a command to unmount that works leaves an empty point,
  `MountOnEmpty` what a mount makes of it.
* `ShareAmongParts` and `LockAmongParts`: `Spec => []PointBelieved` and
  `Spec => []HolderBelieved`, with `Spec` that of `Utilities`, which is what the run checks.

### Only model-checked

* Liveness under fairness (`PushersReleased`, `Drained`, `WaitReturns`,
  `StopReturns`, `IdleIsReported`, `CallsReturn`), which is out of the prover's
  reach.
* `CompleteIsFaithful` and `LogsArrive` of `TlvManagers`: that the receiver takes a
  stream of bytes apart at the places where the sender put messages together is an
  induction over the stream.
* `Report` and `Configuration`, whose definitions recur over lists of observers and
  lines. The theorems about `ConsoleOutput` and
  `FileOutput` are about those modules' own specifications, and the run about the same
  modules next to `Report`.

## 5. Not modelled

* An output queue that is closed while the pool runs, or that is another pool's
  input queue. A destination added to an open MultiWriter.
* Socket::read(), which nothing modelled calls, and the timeouts of a socket,
  which open() sets on the listening descriptor and not on the connection
  (`socket.cpp`, 217-241).
* The layout of log lines, the mutex of log(), and the thread of the zip of a log
  file.
* Configuration: show(), and iterations over two objects at a time, which share
  static iterators.
* Zipper and Hasher are filters around zlib and libcrypto, whose state is those
  libraries'. NullWriter and StackHelper have no behaviour. Files, Filesystem and
  Criticality are sequential code about paths, text and system calls, where a
  model would restate the code; findExtension() and the levels are in the modules
  that depend on them.
* No liveness is stated for the messages, the reports and the stand-alone parts:
  their operations are calls that end, except receive(), for which `NeverStuck`
  says when it may not end.

`PROJECT.json` says which components are modelled in part, and lists every hazard
with the properties about it.

## 6. Plan

Done: `QueueSpec`, `Queue`, `ThreadsManager`, `AsyncWriter`, `Copier`; `Socket`, `Tlv`,
`TlvManagers`; `ConsoleOutput`, `FileOutput`, `Report`; `LineReaderWriter`, `HashTree`,
`ProcessMutex`, `Share`, `Configuration`; proofs about `Queue` with its refinement,
`ThreadsManager`, `Copier`, `Socket`, `Tlv` and `TlvManagers`, `ConsoleOutput`,
`FileOutput`, `LineReaderWriter`, `HashTree`, `ProcessMutex` and `Share`.

Left, proofs:

1. `Mirrored` and `Heard` of `Report`, whose RECURSIVE operators first become recursive
   functions or folds.
