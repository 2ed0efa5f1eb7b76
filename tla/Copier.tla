------------------------------- MODULE Copier -------------------------------
(***************************************************************************)
(* src/src/copier.cpp over src/src/multiwriter.cpp: reading from the       *)
(* copier reads its source into one of two buffers and puts that buffer    *)
(* into every destination, in the order in which they were added, each     *)
(* through an AsyncWriter that goes on writing while the next read fills   *)
(* the other buffer.                                                       *)
(*                                                                         *)
(* One caller drives the copier: it opens, reads, puts data of its own     *)
(* between two reads, and closes. place is where that caller is and dest   *)
(* the child that MultiWriter's loop has reached. A caller whose read() or *)
(* put() was refused closes the copier, or reads on.                       *)
(***************************************************************************)
EXTENDS AsyncWriter

CONSTANTS
  Order,          \* the destinations, in the order of MultiWriter's list
  Buffer1,        \* the two buffers of the copier
  Buffer2,
  Mine,           \* the buffer that the caller gives to put()
  MaxSessions     \* bound: number of open()

ASSUME OrderAssumption ==
  /\ Order \in Seq(Writers)
  /\ Len(Order) > 0
  /\ \A w \in Writers : \E i \in 1 .. Len(Order) : Order[i] = w
  /\ \A i, j \in 1 .. Len(Order) : Order[i] = Order[j] => i = j
ASSUME BuffersAssumption ==
  /\ Buffers = {Buffer1, Buffer2, Mine}
  /\ Buffer1 # Buffer2 /\ Mine \notin {Buffer1, Buffer2}
ASSUME BoundsAssumption == MaxChunks \in Nat /\ MaxSessions \in Nat

VARIABLES
  place,
  dest,           \* iterator over Order in MultiWriter's loops
  current,        \* Copier::Private::buffer
  given,          \* the buffer that MultiWriter::put() has, or had last
  rejected,       \* the chunk each destination refused in this session, or 0
  copier_failed,  \* Copier::Private::failed
  writer_failed,  \* the local failed of MultiWriter::close()
  source_open,
  chunks,         \* pieces of data read, or given to put(), in this session
  sessions

copierVars == <<place, dest, current, given, rejected, copier_failed,
                writer_failed, source_open, chunks, sessions>>
vars == <<content, writerVars, copierVars>>

Places == {"shut", "opening", "undo", "undo_join", "ready", "putting",
           "refused", "closing", "joining", "close_source"}

TypeOK ==
  /\ WriterTypeOK
  /\ place \in Places
  /\ dest \in 1 .. Len(Order)
  /\ current \in {Buffer1, Buffer2}
  /\ given \in Buffers
  /\ rejected \in [Writers -> 0 .. MaxChunks]
  /\ copier_failed \in BOOLEAN
  /\ writer_failed \in BOOLEAN
  /\ source_open \in BOOLEAN
  /\ chunks \in 0 .. MaxChunks
  /\ sessions \in 0 .. MaxSessions

Init ==
  /\ WriterInit
  /\ place = "shut"
  /\ dest = 1
  /\ current = Buffer1
  /\ given = Buffer2
  /\ rejected = [w \in Writers |-> 0]
  /\ copier_failed = FALSE
  /\ writer_failed = FALSE
  /\ source_open = FALSE
  /\ chunks = 0
  /\ sessions = 0

(* The buffer of the copier that is not the current one.                   *)
Swapped == IF current = Buffer1 THEN Buffer2 ELSE Buffer1

-----------------------------------------------------------------------------
(* open(): the source, then the destinations; on failure what was opened   *)
(* is closed again, the destinations last to first.                        *)

OpenSource ==
  /\ place = "shut"
  /\ sessions < MaxSessions
  /\ sessions' = sessions + 1
  /\ copier_failed' = FALSE
  /\ source_open' = TRUE
  /\ place' = "opening"
  /\ dest' = 1
  /\ chunks' = 0
  /\ given' = Swapped
  /\ rejected' = [w \in Writers |-> 0]
  /\ UNCHANGED <<content, writerVars, current, writer_failed>>

OpenSourceFails ==
  /\ place = "shut"
  /\ sessions < MaxSessions
  /\ sessions' = sessions + 1
  /\ copier_failed' = TRUE
  /\ UNCHANGED <<content, writerVars, place, dest, current, given, rejected,
                 writer_failed, source_open, chunks>>

OpenDest ==
  /\ place = "opening"
  /\ OpenOk(Order[dest])
  /\ IF dest = Len(Order)
     THEN place' = "ready" /\ dest' = 1
     ELSE place' = "opening" /\ dest' = dest + 1
  /\ UNCHANGED <<current, given, rejected, copier_failed, writer_failed,
                 source_open, chunks, sessions>>

(* A mistake the checks notice: nothing is undone. *)
AbandonOpen ==
  /\ place' = "shut"
  /\ source_open' = FALSE
  /\ copier_failed' = TRUE
  /\ dest' = 1

(* Back to the destination before, or to the source if there is none. *)
UndoOpen ==
  IF dest = 1
  THEN /\ place' = "shut"
       /\ source_open' = FALSE
       /\ copier_failed' = TRUE
       /\ dest' = 1
  ELSE /\ place' = "undo"
       /\ dest' = dest - 1
       /\ UNCHANGED <<source_open, copier_failed>>

OpenDestFails ==
  /\ place = "opening"
  /\ OpenChildFails(Order[dest]) \/ OpenThreadFails(Order[dest])
  /\ UndoOpen
  /\ UNCHANGED <<current, given, rejected, writer_failed, chunks, sessions>>

UndoTell ==
  /\ place = "undo"
  /\ CloseTellThread(Order[dest])
  /\ place' = "undo_join"
  /\ UNCHANGED <<dest, current, given, rejected, copier_failed, writer_failed,
                 source_open, chunks, sessions>>

UndoJoin ==
  /\ place = "undo_join"
  /\ CloseJoin(Order[dest])
  /\ UndoOpen
  /\ UNCHANGED <<current, given, rejected, writer_failed, chunks, sessions>>

-----------------------------------------------------------------------------
(* read(): fill the current buffer, put it everywhere, change buffers.     *)
(* put(): put the caller's buffer everywhere.                              *)

CanGoOn == place \in {"ready", "refused"}

(* The next piece of data is in b, on its way to the first destination. *)
Give(b) ==
  /\ chunks < MaxChunks
  /\ chunks' = chunks + 1
  /\ content' = [content EXCEPT ![b] = chunks + 1]
  /\ given' = b
  /\ place' = "putting"
  /\ dest' = 1
  /\ UNCHANGED <<writerVars, current, rejected, copier_failed, writer_failed,
                 source_open, sessions>>

ReadChunk == CanGoOn /\ Give(current)

(* The caller uses its own buffer and those of read() alternately, and not *)
(* after a refusal. *)
PutChunk == place = "ready" /\ given # Mine /\ Give(Mine)

(* size < 0; an end of file, size = 0, changes nothing. *)
ReadFails ==
  /\ CanGoOn
  /\ copier_failed' = TRUE
  /\ UNCHANGED <<content, writerVars, place, dest, current, given, rejected,
                 writer_failed, source_open, chunks, sessions>>

(* A mistake the checks notice: the loop goes past the last child. *)
PutDestTooFar ==
  /\ place = "putting"
  /\ PutAccepted(Order[dest], given)
  /\ IF dest > Len(Order)
     THEN place' = "ready" /\ dest' = 1 /\ current' = Swapped
     ELSE dest' = dest + 1 /\ UNCHANGED <<place, current>>
  /\ UNCHANGED <<given, rejected, copier_failed, writer_failed, source_open,
                 chunks, sessions>>

(* A mistake the checks notice: one buffer for everything. *)
PutDestOneBuffer ==
  /\ place = "putting"
  /\ PutAccepted(Order[dest], given)
  /\ IF dest = Len(Order)
     THEN place' = "ready" /\ dest' = 1
     ELSE dest' = dest + 1 /\ UNCHANGED place
  /\ UNCHANGED <<current, given, rejected, copier_failed, writer_failed,
                 source_open, chunks, sessions>>

(* MultiWriter::put(), one child; after the last one read() changes        *)
(* buffers, and put() returns.                                             *)
PutDest ==
  /\ place = "putting"
  /\ PutAccepted(Order[dest], given)
  /\ IF dest = Len(Order)
     THEN /\ place' = "ready"
          /\ dest' = 1
          /\ current' = IF given = current THEN Swapped ELSE current
     ELSE dest' = dest + 1 /\ UNCHANGED <<place, current>>
  /\ UNCHANGED <<given, rejected, copier_failed, writer_failed, source_open,
                 chunks, sessions>>

(* The children that follow do not get the buffer, and it stays current.   *)
(* Only read() takes note of it.                                           *)
PutDestRefused ==
  /\ place = "putting"
  /\ PutRefused(Order[dest])
  /\ rejected' = [rejected EXCEPT ![Order[dest]] = chunks]
  /\ copier_failed' = (copier_failed \/ given = current)
  /\ place' = "refused"
  /\ UNCHANGED <<dest, current, given, writer_failed, source_open, chunks,
                 sessions>>

-----------------------------------------------------------------------------
(* close(): every destination, whatever the ones before it say.            *)

CloseCall ==
  /\ place \in {"ready", "refused"}
  /\ place' = "closing"
  /\ dest' = 1
  /\ writer_failed' = FALSE
  /\ UNCHANGED <<content, writerVars, current, given, rejected, copier_failed,
                 source_open, chunks, sessions>>

CloseDest ==
  /\ place = "closing"
  /\ CloseTellThread(Order[dest])
  /\ place' = "joining"
  /\ UNCHANGED <<dest, current, given, rejected, copier_failed, writer_failed,
                 source_open, chunks, sessions>>

(* A mistake the checks notice: only the child's close() is reported. *)
JoinDestForgetful(childFails) ==
  /\ place = "joining"
  /\ CloseJoin(Order[dest])
  /\ writer_failed' = (writer_failed \/ childFails)
  /\ IF dest = Len(Order)
     THEN place' = "close_source" /\ dest' = 1
     ELSE place' = "closing" /\ dest' = dest + 1
  /\ UNCHANGED <<current, given, rejected, copier_failed, source_open, chunks,
                 sessions>>

JoinDest(childFails) ==
  /\ place = "joining"
  /\ CloseJoin(Order[dest])
  /\ writer_failed' = (writer_failed \/ childFails \/ failed[Order[dest]])
  /\ IF dest = Len(Order)
     THEN place' = "close_source" /\ dest' = 1
     ELSE place' = "closing" /\ dest' = dest + 1
  /\ UNCHANGED <<current, given, rejected, copier_failed, source_open, chunks,
                 sessions>>

CloseSource(sourceFails) ==
  /\ place = "close_source"
  /\ source_open' = FALSE
  /\ copier_failed' = (copier_failed \/ writer_failed \/ sourceFails)
  /\ place' = "shut"
  /\ UNCHANGED <<content, writerVars, dest, current, given, rejected,
                 writer_failed, chunks, sessions>>

-----------------------------------------------------------------------------
(* The steps of a call under way. *)
CallStep ==
  \/ OpenDest \/ OpenDestFails \/ UndoTell \/ UndoJoin
  \/ PutDest \/ PutDestRefused
  \/ CloseDest
  \/ \E fails \in BOOLEAN : JoinDest(fails) \/ CloseSource(fails)

Next ==
  \/ OpenSource \/ OpenSourceFails
  \/ ReadChunk \/ PutChunk \/ ReadFails
  \/ CloseCall
  \/ CallStep
  \/ \E w \in Writers : ThreadStep(w) /\ UNCHANGED copierVars

Spec == Init /\ [][Next]_vars

(* A call under way and the threads go on; the caller may stop calling. *)
FairSpec ==
  /\ Spec
  /\ WF_vars(CallStep)
  /\ \A w \in Writers : WF_vars(ThreadStep(w) /\ UNCHANGED copierVars)

-----------------------------------------------------------------------------
(* The position of a destination in MultiWriter's list. *)
Position(w) == CHOOSE i \in 1 .. Len(Order) : Order[i] = w

(* asyncwriter.h:31-33: the buffer given to put() stays in use after it    *)
(* returned, "so you should use two buffers alternatively". No buffer of   *)
(* read() or put() is filled while a thread of a destination uses it; but  *)
(* a read() whose put() was refused leaves current the buffer that the     *)
(* destinations before have, which a caller that reads on fills            *)
(* (copier.cpp:123).                                                       *)
FilledIsFree ==
  [][content' # content =>
       \A w \in Writers :
         InUse(w, given') =>
           /\ place = "refused" /\ given' = given
           /\ \E r \in Writers :
                rejected[r] > 0 /\ Position(w) < Position(r)]_vars

(* Each destination receives the chunks in order, each one once and as it  *)
(* was read, however slowly its thread writes. If the caller reads on      *)
(* after a refusal, this is not so of the destinations before the one that *)
(* refused, from the chunk that was refused on: a later one may be in its  *)
(* place.                                                                  *)
DestinationsGetChunks ==
  \A w \in Writers : \A i \in 1 .. Len(written[w]) :
    \/ written[w][i] = i
    \/ /\ written[w][i] > i
       /\ \E r \in Writers :
            rejected[r] \in 1 .. i /\ Position(w) < Position(r)

(* ireaderwriter.h:42, "The close() method should report an error if any   *)
(* previous call failed": when close() returns 0 (failed is false), every  *)
(* destination holds everything that was read, though the writes happened  *)
(* in the background and the last of them after the last put().            *)
CloseReportsFailure ==
  place = "shut" /\ ~copier_failed /\ sessions > 0 =>
    \A w \in Writers : Len(written[w]) = chunks

(* A copier that is not open, because it was closed or because one of its  *)
(* streams could not be opened, holds no stream open and has no thread.    *)
NothingLeftOpen ==
  place = "shut" =>
    /\ ~source_open
    /\ \A w \in Writers : ~child_open[w] /\ thread[w] = "none"

(* The lock that a refused put() took and that nobody will give back. *)
KeptLock(w) ==
  rejected[w] > 0 /\ buffer_lock[w] /\ thread[w] = "wait" /\ thread_lock[w]

(* Every call returns, unless a refused put() left its destination locked. *)
CallsReturn ==
  (place \notin {"shut", "ready"}) ~>
    \/ place \in {"shut", "ready", "refused"}
    \/ \E w \in Writers : KeptLock(w)

(* asyncwriter.h:29, "A call to close() will block until all the data has  *)
(* been written": then it returns.                                         *)
CloseReturns == place = "closing" ~> place = "shut"

=============================================================================
