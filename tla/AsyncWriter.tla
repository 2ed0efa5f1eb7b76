----------------------------- MODULE AsyncWriter -----------------------------
(***************************************************************************)
(* The background writer of src/src/asyncwriter.cpp, one per member of     *)
(* Writers. open() starts a thread that waits for a buffer, put() hands it *)
(* one and returns at once, close() sends it away and joins it.            *)
(*                                                                         *)
(* Two mutexes, each locked by one thread and unlocked by the other, do    *)
(* the synchronisation: whoever holds buffer_lock may hand over a buffer,  *)
(* the thread runs when it gets thread_lock. They are therefore booleans   *)
(* here. The module has the operations only; Copier says who calls them.   *)
(*                                                                         *)
(* The child stream is any IReaderWriter: each of its operations may fail. *)
(* Its put() is a step of its own, as long as the program likes, and it    *)
(* stores what the buffer holds when it is done.                           *)
(***************************************************************************)
EXTENDS Integers, Sequences

CONSTANTS
  Writers,        \* the destination streams, each behind an AsyncWriter
  Buffers,        \* what put() may be given
  MaxChunks       \* bound: pieces of data read in a session

VARIABLES
  content,        \* what each buffer holds: the number of a chunk, 0 at first
  thread,         \* where each background thread is
  buffer,         \* the buffer handed to the thread
  failed,         \* a child put() has failed
  closing,
  buffer_lock,    \* TRUE: locked
  thread_lock,
  child_open,     \* is the child stream open?
  written         \* what each child stream received since it was opened

writerVars == <<thread, buffer, failed, closing, buffer_lock, thread_lock,
                child_open, written>>

(* "none": not created or joined. *)
ThreadPlaces == {"none", "wait", "write", "release", "test", "exited"}

WriterTypeOK ==
  /\ content \in [Buffers -> 0 .. MaxChunks]
  /\ thread \in [Writers -> ThreadPlaces]
  /\ buffer \in [Writers -> Buffers]
  /\ failed \in [Writers -> BOOLEAN]
  /\ closing \in [Writers -> BOOLEAN]
  /\ buffer_lock \in [Writers -> BOOLEAN]
  /\ thread_lock \in [Writers -> BOOLEAN]
  /\ child_open \in [Writers -> BOOLEAN]
  /\ written \in [Writers -> Seq(0 .. MaxChunks)]

(* The constructor initialises the child only; open() does the rest. *)
WriterInit ==
  /\ content = [b \in Buffers |-> 0]
  /\ thread = [w \in Writers |-> "none"]
  /\ buffer \in {[w \in Writers |-> b] : b \in Buffers}
  /\ failed = [w \in Writers |-> FALSE]
  /\ closing = [w \in Writers |-> FALSE]
  /\ buffer_lock = [w \in Writers |-> FALSE]
  /\ thread_lock = [w \in Writers |-> FALSE]
  /\ child_open = [w \in Writers |-> FALSE]
  /\ written = [w \in Writers |-> <<>>]

-----------------------------------------------------------------------------
(* open()                                                                  *)

OpenOk(w) ==
  /\ child_open' = [child_open EXCEPT ![w] = TRUE]
  /\ failed' = [failed EXCEPT ![w] = FALSE]
  /\ closing' = [closing EXCEPT ![w] = FALSE]
  /\ buffer_lock' = [buffer_lock EXCEPT ![w] = FALSE]
  /\ thread_lock' = [thread_lock EXCEPT ![w] = TRUE]
  /\ thread' = [thread EXCEPT ![w] = "wait"]
  /\ written' = [written EXCEPT ![w] = <<>>]
  /\ UNCHANGED <<content, buffer>>

(* The child cannot be opened. *)
OpenChildFails(w) == UNCHANGED <<content, writerVars>>

(* A mutex or the thread cannot be created: the child is closed again. The *)
(* mutexes are initialised anew by the next open().                        *)
OpenThreadFails(w) ==
  /\ failed' = [failed EXCEPT ![w] = FALSE]
  /\ closing' = [closing EXCEPT ![w] = FALSE]
  /\ written' = [written EXCEPT ![w] = <<>>]
  /\ UNCHANGED <<content, thread, buffer, buffer_lock, thread_lock, child_open>>

-----------------------------------------------------------------------------
(* put(b): wait for the thread to be done with the previous buffer.        *)

CanPut(w) == ~buffer_lock[w]

PutAccepted(w, b) ==
  /\ CanPut(w)
  /\ ~failed[w]
  /\ ~closing[w]
  /\ buffer_lock' = [buffer_lock EXCEPT ![w] = TRUE]
  /\ buffer' = [buffer EXCEPT ![w] = b]
  /\ thread_lock' = [thread_lock EXCEPT ![w] = FALSE]
  /\ UNCHANGED <<content, thread, failed, closing, child_open, written>>

(* put() returns -1, and keeps the lock it took. *)
PutRefused(w) ==
  /\ CanPut(w)
  /\ failed[w] \/ closing[w]
  /\ buffer_lock' = [buffer_lock EXCEPT ![w] = TRUE]
  /\ UNCHANGED <<content, thread, buffer, failed, closing, thread_lock,
                 child_open, written>>

-----------------------------------------------------------------------------
(* close(): wait for the data to be written, then for the thread to end.   *)

CloseTellThread(w) ==
  /\ ~buffer_lock[w]
  /\ buffer_lock' = [buffer_lock EXCEPT ![w] = TRUE]
  /\ closing' = [closing EXCEPT ![w] = TRUE]
  /\ thread_lock' = [thread_lock EXCEPT ![w] = FALSE]
  /\ UNCHANGED <<content, thread, buffer, failed, child_open, written>>

(* pthread_join() returned; the child is closed, which may fail. *)
CloseJoin(w) ==
  /\ thread[w] = "exited"
  /\ thread' = [thread EXCEPT ![w] = "none"]
  /\ child_open' = [child_open EXCEPT ![w] = FALSE]
  /\ UNCHANGED <<content, buffer, failed, closing, buffer_lock, thread_lock,
                 written>>

-----------------------------------------------------------------------------
(* _write_thread()                                                         *)

(* A mistake the checks notice: the buffer is given back before its use. *)
ThreadStartEarlyRelease(w) ==
  /\ thread[w] = "wait"
  /\ ~thread_lock[w]
  /\ thread_lock' = [thread_lock EXCEPT ![w] = TRUE]
  /\ thread' = [thread EXCEPT ![w] = IF closing[w] THEN "release" ELSE "write"]
  /\ buffer_lock' = [buffer_lock EXCEPT ![w] = FALSE]
  /\ UNCHANGED <<content, buffer, failed, closing, child_open, written>>

(* thread_lock obtained. closing is only written by close() before it      *)
(* unlocks thread_lock, so reading it is part of the step.                 *)
ThreadStart(w) ==
  /\ thread[w] = "wait"
  /\ ~thread_lock[w]
  /\ thread_lock' = [thread_lock EXCEPT ![w] = TRUE]
  /\ thread' = [thread EXCEPT ![w] = IF closing[w] THEN "release" ELSE "write"]
  /\ UNCHANGED <<content, buffer, failed, closing, buffer_lock, child_open,
                 written>>

ThreadWrite(w) ==
  /\ thread[w] = "write"
  /\ thread' = [thread EXCEPT ![w] = "release"]
  /\ written' = [written EXCEPT ![w] = Append(@, content[buffer[w]])]
  /\ UNCHANGED <<content, buffer, failed, closing, buffer_lock, thread_lock,
                 child_open>>

(* A mistake the checks notice: buffer_lock is not given back on failure. *)
ThreadWriteFailsLocked(w) ==
  /\ thread[w] = "write"
  /\ thread' = [thread EXCEPT ![w] = "test"]
  /\ failed' = [failed EXCEPT ![w] = TRUE]
  /\ UNCHANGED <<content, buffer, closing, buffer_lock, thread_lock,
                 child_open, written>>

ThreadWriteFails(w) ==
  /\ thread[w] = "write"
  /\ thread' = [thread EXCEPT ![w] = "release"]
  /\ failed' = [failed EXCEPT ![w] = TRUE]
  /\ UNCHANGED <<content, buffer, closing, buffer_lock, thread_lock,
                 child_open, written>>

ThreadRelease(w) ==
  /\ thread[w] = "release"
  /\ thread' = [thread EXCEPT ![w] = "test"]
  /\ buffer_lock' = [buffer_lock EXCEPT ![w] = FALSE]
  /\ UNCHANGED <<content, buffer, failed, closing, thread_lock, child_open,
                 written>>

(* while (! closing): close() may have set it already. *)
ThreadTest(w) ==
  /\ thread[w] = "test"
  /\ thread' = [thread EXCEPT ![w] = IF closing[w] THEN "exited" ELSE "wait"]
  /\ UNCHANGED <<content, buffer, failed, closing, buffer_lock, thread_lock,
                 child_open, written>>

ThreadStep(w) ==
  \/ ThreadStart(w) \/ ThreadWrite(w) \/ ThreadWriteFails(w)
  \/ ThreadRelease(w) \/ ThreadTest(w)

(* The thread has been handed the buffer and has not written it yet. *)
InUse(w, b) ==
  /\ buffer[w] = b
  /\ \/ thread[w] = "write"
     \/ thread[w] \in {"wait", "test"} /\ ~thread_lock[w] /\ ~closing[w]

=============================================================================
