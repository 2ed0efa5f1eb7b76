---------------------------- MODULE CopierProofs ----------------------------
(***************************************************************************)
(* Proofs about Copier, for any number of destinations in any order, any   *)
(* number of chunks and of sessions, and threads as slow as they like.     *)
(***************************************************************************)
EXTENDS Copier, TLAPS

Positions == 1 .. Len(Order)

-----------------------------------------------------------------------------
(* The invariant. First, the threads and their two locks.                  *)

(* The destination at position i has a thread and an open stream.          *)
Opened(i) ==
  \/ place \in {"ready", "putting", "refused"}
  \/ place = "opening" /\ i < dest
  \/ place \in {"undo", "undo_join"} /\ i <= dest
  \/ place \in {"closing", "joining"} /\ i >= dest

(* close() was called for it. *)
Told(i) == place \in {"undo_join", "joining"} /\ i = dest

(* Which of the two locks may be free depends on where the thread is; both *)
(* are taken between two steps of an idle thread only after a refusal.     *)
LocksOK(w) ==
  /\ thread[w] \in {"write", "release"} => buffer_lock[w] /\ thread_lock[w]
  /\ thread[w] \in {"wait", "test"} => buffer_lock[w] \/ thread_lock[w]
  /\ thread[w] \in {"wait", "test"} /\ buffer_lock[w] /\ thread_lock[w] =>
       rejected[w] > 0
  /\ thread[w] = "wait" /\ closing[w] => ~thread_lock[w]
  /\ thread[w] = "write" => ~closing[w]
  /\ thread[w] = "exited" => closing[w]

(* After a refusal, the lock is kept, so that neither put() nor close()    *)
(* gets past this destination.                                             *)
RefusalOK(i) ==
  rejected[Order[i]] > 0 =>
    /\ place \in {"refused", "putting", "closing", "joining"}
    /\ dest <= i
    /\ thread[Order[i]] \in {"wait", "test"}
    /\ buffer_lock[Order[i]] /\ thread_lock[Order[i]] /\ ~closing[Order[i]]

ThreadOK(i) ==
  /\ (thread[Order[i]] # "none") <=> Opened(i)
  /\ child_open[Order[i]] <=> Opened(i)
  /\ Opened(i) => (closing[Order[i]] <=> Told(i))
  /\ LocksOK(Order[i])
  /\ RefusalOK(i)

ThreadInv ==
  /\ source_open <=> place # "shut"
  /\ place \in {"putting", "refused"} => chunks > 0
  /\ place = "refused" => rejected[Order[dest]] = chunks
  /\ \A i \in Positions : ThreadOK(i)

-----------------------------------------------------------------------------
(* Then, the data.                                                         *)

(* The thread was handed a buffer that it has not written. *)
Busy(w) == InUse(w, buffer[w])

(* The pieces of data that w accepted in this session and did not drop. *)
Taken(w) == Len(written[w]) + (IF Busy(w) THEN 1 ELSE 0)

(* A destination after position i refused the chunk n, or one before it. *)
CutAfter(i, n) == \E j \in Positions : i < j /\ rejected[Order[j]] \in 1 .. n

(* No destination up to position i refused anything. *)
Uncut(i) == \A j \in Positions : j <= i => rejected[Order[j]] = 0

(* The chunk numbers that belong at place n of destination i. *)
Fits(i, n, c) == c = n \/ (c > n /\ CutAfter(i, n))

(* The destinations that were opened in this session. *)
InSession(i) == Opened(i) \/ place \in {"closing", "joining", "close_source"}

(* Each destination has as many pieces as were read, or waits for the last.*)
CountOK(i) ==
  InSession(i) =>
    /\ Taken(Order[i]) <= chunks
    /\ ~failed[Order[i]] /\ Uncut(i) =>
         Taken(Order[i]) =
           IF place = "putting" /\ i >= dest THEN chunks - 1 ELSE chunks

(* The buffers in use. *)
BufferOK(i) ==
  Busy(Order[i]) =>
    /\ ~failed[Order[i]]
    /\ Fits(i, Taken(Order[i]), content[buffer[Order[i]]])
    /\ place = "ready" => buffer[Order[i]] = given
    /\ place \in {"putting", "refused"} =>
         IF i < dest
         THEN buffer[Order[i]] = given
         ELSE \/ buffer[Order[i]] \notin {given, current}
              \/ given = current /\ CutAfter(i, Taken(Order[i]))

(* What the streams hold. *)
WrittenOK(i) ==
  \A n \in 1 .. Len(written[Order[i]]) : Fits(i, n, written[Order[i]][n])

(* Failed writes are on their way to the result of close(). *)
ReportOK ==
  /\ place \in {"closing", "joining"} /\ ~writer_failed =>
       \A i \in Positions : i < dest => ~failed[Order[i]]
  /\ place = "close_source" /\ ~writer_failed =>
       \A i \in Positions : ~failed[Order[i]]
  /\ place = "shut" /\ ~copier_failed /\ sessions > 0 =>
       \A i \in Positions : Len(written[Order[i]]) = chunks

DataInv ==
  /\ place \in {"opening", "undo", "undo_join"} => chunks = 0
  /\ place \in {"opening", "ready"} => given # current
  /\ place \in {"putting", "refused"} =>
       /\ given \in {current, Mine}
       /\ content[given] = chunks
  /\ ReportOK
  /\ \A i \in Positions : CountOK(i) /\ BufferOK(i) /\ WrittenOK(i)

Inv == TypeOK /\ ThreadInv /\ DataInv

-----------------------------------------------------------------------------
(* Every destination has exactly one position.                             *)
LEMMA OrderFacts ==
  /\ Len(Order) \in Nat /\ 1 \in Positions /\ Len(Order) \in Positions
  /\ \A i \in Positions : Order[i] \in Writers
  /\ \A i, j \in Positions : Order[i] = Order[j] => i = j
  /\ \A w \in Writers : \E i \in Positions : Order[i] = w
BY OrderAssumption DEF Positions

LEMMA PositionIs ==
  ASSUME NEW i \in Positions
  PROVE  Position(Order[i]) = i
<1>1. Order[i] = Order[Position(Order[i])] /\ Position(Order[i]) \in Positions
  BY DEF Position, Positions
<1>2. QED
  BY <1>1, OrderFacts

-----------------------------------------------------------------------------
(* Every variable keeps its type; dest stays a position of the list, so    *)
(* that no loop goes past the last child or before the first.              *)
LEMMA TypeInit == Init => TypeOK
<1> SUFFICES ASSUME Init PROVE TypeOK
  OBVIOUS
<1>1. WriterTypeOK
  BY BoundsAssumption DEF Init, WriterInit, WriterTypeOK, ThreadPlaces
<1>2. rejected \in [Writers -> 0 .. MaxChunks]
  BY BoundsAssumption DEF Init
<1>3. dest \in 1 .. Len(Order)
  BY OrderFacts DEF Init, Positions
<1>4. /\ place \in Places /\ current \in {Buffer1, Buffer2}
      /\ given \in Buffers
      /\ copier_failed \in BOOLEAN /\ writer_failed \in BOOLEAN
      /\ source_open \in BOOLEAN
  BY BuffersAssumption, Zenon DEF Init, Places
<1>5. chunks \in 0 .. MaxChunks /\ sessions \in 0 .. MaxSessions
  BY BoundsAssumption DEF Init
<1>6. QED
  BY <1>1, <1>2, <1>3, <1>4, <1>5 DEF TypeOK

LEMMA WriterTypeStep ==
  ASSUME WriterTypeOK, NEW w \in Writers,
         \/ ThreadStep(w)
         \/ OpenOk(w) \/ OpenChildFails(w) \/ OpenThreadFails(w)
         \/ \E b \in Buffers : PutAccepted(w, b)
         \/ PutRefused(w) \/ CloseTellThread(w) \/ CloseJoin(w)
  PROVE  WriterTypeOK'
<1> USE DEF WriterTypeOK, ThreadPlaces
<1>1. CASE ThreadStart(w)
  BY <1>1 DEF ThreadStart
<1>2. CASE ThreadWrite(w)
  <2>1. content[buffer[w]] \in 0 .. MaxChunks
    OBVIOUS
  <2>2. Append(written[w], content[buffer[w]]) \in Seq(0 .. MaxChunks)
    BY <2>1
  <2>3. written' \in [Writers -> Seq(0 .. MaxChunks)]
    BY <1>2, <2>2, Zenon DEF ThreadWrite
  <2>4. QED
    BY <1>2, <2>3 DEF ThreadWrite
<1>3. CASE ThreadWriteFails(w)
  BY <1>3 DEF ThreadWriteFails
<1>4. CASE ThreadRelease(w)
  BY <1>4 DEF ThreadRelease
<1>5. CASE ThreadTest(w)
  BY <1>5 DEF ThreadTest
<1>6. CASE OpenOk(w)
  BY <1>6 DEF OpenOk
<1>7. CASE OpenChildFails(w)
  BY <1>7 DEF OpenChildFails, writerVars
<1>8. CASE OpenThreadFails(w)
  BY <1>8 DEF OpenThreadFails
<1>9. ASSUME NEW b \in Buffers, PutAccepted(w, b) PROVE WriterTypeOK'
  BY <1>9 DEF PutAccepted
<1>10. CASE PutRefused(w)
  BY <1>10 DEF PutRefused
<1>11. CASE CloseTellThread(w)
  BY <1>11 DEF CloseTellThread
<1>12. CASE CloseJoin(w)
  BY <1>12 DEF CloseJoin
<1>13. QED
  BY <1>1, <1>2, <1>3, <1>4, <1>5, <1>6, <1>7, <1>8, <1>9, <1>10, <1>11,
     <1>12 DEF ThreadStep

LEMMA TypeStep ==
  ASSUME TypeOK, [Next]_vars
  PROVE  TypeOK'
<1> USE OrderFacts, BuffersAssumption, BoundsAssumption
<1> USE DEF TypeOK, Places, Positions
<1>d. Order[dest] \in Writers
  OBVIOUS
<1>c. UNCHANGED <<content, writerVars>> => WriterTypeOK'
  BY DEF WriterTypeOK, writerVars
<1>u. ASSUME UndoOpen
      PROVE  /\ place' \in Places /\ dest' \in 1 .. Len(Order)
             /\ source_open' \in BOOLEAN /\ copier_failed' \in BOOLEAN
  <2>1. CASE dest = 1
    BY <1>u, <2>1 DEF UndoOpen
  <2>2. CASE dest # 1
    <3>1. place' = "undo" /\ dest' = dest - 1
      BY <1>u, <2>2 DEF UndoOpen
    <3>2. source_open' = source_open /\ copier_failed' = copier_failed
      BY <1>u, <2>2, Zenon DEF UndoOpen
    <3>3. QED
      BY <2>2, <3>1, <3>2
  <2>3. QED
    BY <2>1, <2>2
<1>1. CASE OpenSource
  <2>1. rejected' \in [Writers -> 0 .. MaxChunks]
    BY <1>1 DEF OpenSource
  <2>2. given' \in Buffers
    BY <1>1 DEF OpenSource, Swapped
  <2>3. source_open' \in BOOLEAN /\ copier_failed' \in BOOLEAN
    BY <1>1, Zenon DEF OpenSource
  <2>4. QED
    BY <1>1, <1>c, <2>1, <2>2, <2>3 DEF OpenSource
<1>2. CASE OpenSourceFails
  BY <1>2, <1>c DEF OpenSourceFails
<1>3. CASE OpenDest
  BY <1>3, <1>d, WriterTypeStep DEF OpenDest
<1>4. CASE OpenDestFails
  <2>1. WriterTypeOK'
    BY <1>4, <1>d, WriterTypeStep DEF OpenDestFails
  <2>2. QED
    BY <1>4, <1>u, <2>1 DEF OpenDestFails
<1>5. CASE UndoTell
  BY <1>5, <1>d, WriterTypeStep DEF UndoTell
<1>6. CASE UndoJoin
  <2>1. WriterTypeOK'
    BY <1>6, <1>d, WriterTypeStep DEF UndoJoin
  <2>2. QED
    BY <1>6, <1>u, <2>1 DEF UndoJoin
<1>7. ASSUME NEW b \in Buffers, Give(b) PROVE TypeOK'
  <2>1. WriterTypeOK'
    BY <1>7 DEF Give, WriterTypeOK, writerVars
  <2>2. QED
    BY <1>7, <2>1 DEF Give
<1>8. CASE ReadFails
  BY <1>8, <1>c DEF ReadFails
<1>9. CASE PutDest
  <2>1. WriterTypeOK'
    BY <1>9, <1>d, WriterTypeStep DEF PutDest
  <2>2. QED
    BY <1>9, <2>1 DEF PutDest, Swapped
<1>10. CASE PutDestRefused
  <2>1. WriterTypeOK'
    BY <1>10, <1>d, WriterTypeStep DEF PutDestRefused
  <2>2. QED
    BY <1>10, <2>1 DEF PutDestRefused
<1>11. CASE CloseCall
  BY <1>11, <1>c DEF CloseCall
<1>12. CASE CloseDest
  BY <1>12, <1>d, WriterTypeStep DEF CloseDest
<1>13. ASSUME NEW fails \in BOOLEAN, JoinDest(fails) PROVE TypeOK'
  <2>1. WriterTypeOK'
    BY <1>13, <1>d, WriterTypeStep DEF JoinDest
  <2>2. QED
    BY <1>13, <2>1 DEF JoinDest
<1>14. ASSUME NEW fails \in BOOLEAN, CloseSource(fails) PROVE TypeOK'
  BY <1>14, <1>c DEF CloseSource
<1>15. ASSUME NEW w \in Writers, ThreadStep(w), UNCHANGED copierVars
       PROVE  TypeOK'
  BY <1>15, WriterTypeStep DEF copierVars
<1>16. CASE UNCHANGED vars
  BY <1>16, <1>c DEF vars, copierVars
<1>17. QED
  BY <1>1, <1>2, <1>3, <1>4, <1>5, <1>6, <1>7, <1>8, <1>9, <1>10, <1>11,
     <1>12, <1>13, <1>14, <1>15, <1>16
     DEF Next, CallStep, ReadChunk, PutChunk

(* copier.cpp and multiwriter.cpp: every variable has its type in every    *)
(* state, whatever the number of destinations; dest is always one of them. *)
THEOREM TypeCorrect == Spec => []TypeOK
<1>1. QED
  BY TypeInit, TypeStep, PTL DEF Spec

-----------------------------------------------------------------------------
(* The threads and the locks: what each step does to the destination at    *)
(* position i, which is the one of the step or another.                    *)
LEMMA ThreadInit == Init => ThreadInv
BY OrderFacts DEF Init, WriterInit, ThreadInv, ThreadOK, LocksOK, RefusalOK,
                  Opened

LEMMA ThreadInvStep ==
  ASSUME TypeOK, ThreadInv, [Next]_vars
  PROVE  ThreadInv'
<1> USE OrderFacts
<1> USE DEF ThreadInv, ThreadOK, LocksOK, RefusalOK, Opened, Told
<1>t. /\ dest \in Positions /\ place \in Places /\ chunks \in Nat
      /\ thread \in [Writers -> ThreadPlaces]
      /\ closing \in [Writers -> BOOLEAN]
      /\ buffer_lock \in [Writers -> BOOLEAN]
      /\ thread_lock \in [Writers -> BOOLEAN]
      /\ child_open \in [Writers -> BOOLEAN]
      /\ rejected \in [Writers -> Nat]
  BY BoundsAssumption DEF TypeOK, WriterTypeOK, Positions
<1>1. CASE OpenSource
  BY <1>1, <1>t DEF OpenSource, writerVars, Positions
<1>2. CASE OpenSourceFails
  BY <1>2, <1>t DEF OpenSourceFails, writerVars
<1>3. CASE OpenDest
  BY <1>3, <1>t DEF OpenDest, OpenOk, Positions
<1>4. CASE OpenDestFails
  <2>1. /\ place = "opening"
        /\ UNCHANGED <<thread, child_open, buffer_lock, thread_lock, rejected,
                       chunks>>
        /\ \A w \in Writers : w # Order[dest] => closing'[w] = closing[w]
        /\ thread[Order[dest]] = "none"
    <3>1. CASE OpenChildFails(Order[dest])
      BY <1>4, <3>1, <1>t DEF OpenDestFails, OpenChildFails, writerVars,
                                 Positions
    <3>2. CASE OpenThreadFails(Order[dest])
      BY <1>4, <3>2, <1>t DEF OpenDestFails, OpenThreadFails, Positions
    <3>3. QED
      BY <1>4, <3>1, <3>2 DEF OpenDestFails
  <2>2. CASE dest = 1
    <3>1. place' = "shut" /\ ~source_open'
      BY <1>4, <2>2, Zenon DEF OpenDestFails, UndoOpen
    <3>2. \A i \in Positions :
            thread'[Order[i]] = "none" /\ ~child_open'[Order[i]]
            /\ ~(rejected'[Order[i]] > 0)
      BY <2>1, <2>2, <1>t DEF Positions
    <3>3. QED
      BY <3>1, <3>2
  <2>3. CASE dest # 1
    <3>1. place' = "undo" /\ dest' = dest - 1
      BY <1>4, <2>3 DEF OpenDestFails, UndoOpen
    <3>2. source_open'
      BY <1>4, <2>1, <2>3 DEF OpenDestFails, UndoOpen
    <3>3. QED
      BY <2>1, <2>3, <3>1, <3>2, <1>t DEF Positions
  <2>4. QED
    BY <2>2, <2>3
<1>5. CASE UndoTell
  BY <1>5, <1>t DEF UndoTell, CloseTellThread
<1>6. CASE UndoJoin
  <2>1. /\ place = "undo_join"
        /\ thread' = [thread EXCEPT ![Order[dest]] = "none"]
        /\ child_open' = [child_open EXCEPT ![Order[dest]] = FALSE]
        /\ UNCHANGED <<closing, buffer_lock, thread_lock, rejected, chunks>>
    BY <1>6 DEF UndoJoin, CloseJoin
  <2>2. CASE dest = 1
    <3>1. place' = "shut" /\ ~source_open'
      BY <1>6, <2>2, Zenon DEF UndoJoin, UndoOpen
    <3>2. QED
      BY <2>1, <2>2, <3>1, <1>t DEF Positions
  <2>3. CASE dest # 1
    <3>1. place' = "undo" /\ dest' = dest - 1
      BY <1>6, <2>3 DEF UndoJoin, UndoOpen
    <3>2. source_open'
      BY <1>6, <2>1, <2>3 DEF UndoJoin, UndoOpen
    <3>3. QED
      BY <2>1, <2>3, <3>1, <3>2, <1>t DEF Positions
  <2>4. QED
    BY <2>2, <2>3
<1>7. ASSUME NEW b \in Buffers, Give(b), CanGoOn PROVE ThreadInv'
  BY <1>7, <1>t DEF Give, CanGoOn, writerVars, Positions
<1>8. CASE ReadFails
  BY <1>8, <1>t DEF ReadFails, writerVars
<1>9. CASE PutDest
  BY <1>9, <1>t DEF PutDest, PutAccepted, CanPut, Positions
<1>10. CASE PutDestRefused
  <2>1. /\ place = "putting" /\ place' = "refused"
        /\ ~buffer_lock[Order[dest]]
        /\ buffer_lock' = [buffer_lock EXCEPT ![Order[dest]] = TRUE]
        /\ rejected' = [rejected EXCEPT ![Order[dest]] = chunks]
        /\ UNCHANGED <<dest, thread, closing, thread_lock, child_open, chunks,
                       source_open>>
    BY <1>10 DEF PutDestRefused, PutRefused, CanPut
  <2>2. /\ thread[Order[dest]] \in {"wait", "test"}
        /\ thread_lock[Order[dest]] /\ ~closing[Order[dest]]
        /\ chunks > 0
    BY <2>1, <1>t DEF ThreadPlaces
  <2>3. ASSUME NEW i \in Positions PROVE ThreadOK(i)'
    <3>1. CASE i = dest
      BY <2>1, <2>2, <3>1, <1>t DEF Positions
    <3>2. CASE i # dest
      BY <2>1, <3>2, <1>t DEF Positions
    <3>3. QED
      BY <3>1, <3>2
  <2>4. QED
    BY <2>1, <2>3, <1>t
<1>11. CASE CloseCall
  BY <1>11, <1>t DEF CloseCall, writerVars, Positions
<1>12. CASE CloseDest
  BY <1>12, <1>t DEF CloseDest, CloseTellThread
<1>13. ASSUME NEW fails \in BOOLEAN, JoinDest(fails) PROVE ThreadInv'
  BY <1>13, <1>t DEF JoinDest, CloseJoin, Positions
<1>14. ASSUME NEW fails \in BOOLEAN, CloseSource(fails) PROVE ThreadInv'
  BY <1>14, <1>t DEF CloseSource, writerVars
<1>15. ASSUME NEW w \in Writers, ThreadStep(w), UNCHANGED copierVars
       PROVE  ThreadInv'
  <2>1. CASE ThreadStart(w)
    BY <1>15, <2>1, <1>t DEF ThreadStart, copierVars
  <2>2. CASE ThreadWrite(w)
    BY <1>15, <2>2, <1>t DEF ThreadWrite, copierVars
  <2>3. CASE ThreadWriteFails(w)
    BY <1>15, <2>3, <1>t DEF ThreadWriteFails, copierVars
  <2>4. CASE ThreadRelease(w)
    BY <1>15, <2>4, <1>t DEF ThreadRelease, copierVars
  <2>5. CASE ThreadTest(w)
    <3>1. /\ thread[w] = "test"
          /\ thread' = [thread EXCEPT
                          ![w] = IF closing[w] THEN "exited" ELSE "wait"]
          /\ UNCHANGED <<closing, buffer_lock, thread_lock, child_open>>
          /\ UNCHANGED <<place, dest, source_open, rejected, chunks>>
      BY <1>15, <2>5 DEF ThreadTest, copierVars
    <3>2. ASSUME NEW i \in Positions PROVE ThreadOK(i)'
      <4>1. CASE Order[i] = w /\ closing[w]
        BY <3>1, <4>1, <1>t
      <4>2. CASE Order[i] = w /\ ~closing[w]
        BY <3>1, <4>2, <1>t
      <4>3. CASE Order[i] # w
        BY <3>1, <4>3, <1>t
      <4>4. QED
        BY <4>1, <4>2, <4>3
    <3>3. QED
      BY <3>1, <3>2
  <2>6. QED
    BY <1>15, <2>1, <2>2, <2>3, <2>4, <2>5 DEF ThreadStep
<1>16. CASE UNCHANGED vars
  BY <1>16 DEF vars, writerVars, copierVars
<1>17. QED
  BY <1>1, <1>2, <1>3, <1>4, <1>5, <1>6, <1>7, <1>8, <1>9, <1>10, <1>11,
     <1>12, <1>13, <1>14, <1>15, <1>16, BuffersAssumption
     DEF Next, CallStep, ReadChunk, PutChunk, CanGoOn, TypeOK

-----------------------------------------------------------------------------
(* Taken and Busy of a destination that a step leaves alone.               *)
LEMMA Types ==
  ASSUME TypeOK
  PROVE  /\ dest \in 1 .. Len(Order) /\ Len(Order) \in Nat
         /\ chunks \in Nat /\ rejected \in [Writers -> Nat]
         /\ content \in [Buffers -> Nat]
         /\ thread \in [Writers -> ThreadPlaces]
         /\ buffer \in [Writers -> Buffers]
         /\ failed \in [Writers -> BOOLEAN]
         /\ closing \in [Writers -> BOOLEAN]
         /\ buffer_lock \in [Writers -> BOOLEAN]
         /\ thread_lock \in [Writers -> BOOLEAN]
         /\ written \in [Writers -> Seq(0 .. MaxChunks)]
         /\ \A w \in Writers : Taken(w) \in Nat /\ Len(written[w]) \in Nat
<1>1. ASSUME NEW w \in Writers
      PROVE  Len(written[w]) \in Nat /\ Taken(w) \in Nat
  <2>1. written[w] \in Seq(0 .. MaxChunks)
    BY DEF TypeOK, WriterTypeOK
  <2>2. Len(written[w]) \in Nat
    BY <2>1
  <2>3. CASE Busy(w)
    BY <2>2, <2>3 DEF Taken
  <2>4. CASE ~Busy(w)
    BY <2>2, <2>4 DEF Taken
  <2>5. QED
    BY <2>2, <2>3, <2>4
<1>2. QED
  BY <1>1, BoundsAssumption, OrderFacts DEF TypeOK, WriterTypeOK

LEMMA Unmoved ==
  ASSUME NEW w \in Writers,
         thread'[w] = thread[w], buffer'[w] = buffer[w],
         closing'[w] = closing[w], thread_lock'[w] = thread_lock[w],
         written'[w] = written[w]
  PROVE  (Busy(w)' <=> Busy(w)) /\ Taken(w)' = Taken(w)
BY DEF Busy, InUse, Taken

(* Whoever can take the lock finds the thread without a buffer. *)
LEMMA FreeIsIdle ==
  ASSUME NEW w \in Writers, LocksOK(w), ~buffer_lock[w]
  PROVE  ~Busy(w)
BY DEF LocksOK, Busy, InUse

LEMMA SameCuts ==
  ASSUME rejected' = rejected, NEW i, NEW n, NEW c
  PROVE  /\ CutAfter(i, n)' <=> CutAfter(i, n)
         /\ Fits(i, n, c)' <=> Fits(i, n, c)
BY DEF CutAfter, Uncut, Fits

(* Without a refusal, everything is in its place. *)
LEMMA NoCut ==
  ASSUME TypeOK, \A j \in Positions : ~(rejected[Order[j]] > 0)
  PROVE  /\ \A i, n : ~CutAfter(i, n)
         /\ \A i : Uncut(i)
BY Types, OrderFacts DEF CutAfter, Uncut

-----------------------------------------------------------------------------
(* Filling a buffer: a thread that still uses it is one before a           *)
(* destination that refused what the buffer held.                          *)
LEMMA GiveInv ==
  ASSUME TypeOK, ThreadInv, DataInv, NEW b, Give(b),
         \/ place = "ready" /\ b \in {current, Mine} \ {given}
         \/ place = "refused" /\ b = current
  PROVE  /\ DataInv'
         /\ \A i \in Positions : Busy(Order[i]) /\ buffer[Order[i]] = b =>
              /\ place = "refused" /\ b = given
              /\ CutAfter(i, Taken(Order[i]))
<1> USE OrderFacts
<1>1. /\ place' = "putting" /\ dest' = 1 /\ given' = b
      /\ chunks' = chunks + 1 /\ content' = [content EXCEPT ![b] = chunks + 1]
      /\ UNCHANGED <<thread, buffer, failed, closing, buffer_lock, thread_lock,
                     child_open, written, current, rejected>>
  BY DEF Give, writerVars
<1>2. b \in Buffers /\ chunks \in Nat
  BY Types, BuffersAssumption DEF TypeOK
<1>3. ASSUME NEW i \in Positions
      PROVE  /\ Busy(Order[i])' <=> Busy(Order[i])
             /\ Taken(Order[i])' = Taken(Order[i])
             /\ Taken(Order[i]) \in Nat
  BY <1>1, Unmoved, Types
<1>4. ASSUME NEW i \in Positions
      PROVE  /\ Taken(Order[i]) <= chunks
             /\ ~failed[Order[i]] /\ Uncut(i) => Taken(Order[i]) = chunks
  BY DEF DataInv, CountOK, InSession, Opened
<1>5. ASSUME NEW i \in Positions, Busy(Order[i])
      PROVE  /\ buffer[Order[i]] = b =>
                   /\ place = "refused" /\ b = given
                   /\ CutAfter(i, Taken(Order[i]))
             /\ \/ buffer[Order[i]] # current
                \/ b = current /\ CutAfter(i, Taken(Order[i]))
  <2>1. BufferOK(i)
    BY DEF DataInv
  <2>2. CASE place = "ready"
    BY <1>5, <2>1, <2>2 DEF BufferOK, DataInv
  <2>3. CASE place = "refused" /\ i < dest
    <3>1. b = current /\ buffer[Order[i]] = given /\ ~failed[Order[i]]
      BY <1>5, <2>1, <2>3 DEF BufferOK
    <3>2. Uncut(i)
      <4> SUFFICES ASSUME NEW j \in Positions, j <= i
                   PROVE  rejected[Order[j]] = 0
        BY DEF Uncut
      <4>1. ~(dest <= j)
        BY <2>3, Types DEF Positions
      <4>2. RefusalOK(j)
        BY DEF ThreadInv, ThreadOK
      <4>3. QED
        BY <4>1, <4>2, Types DEF RefusalOK
    <3>3. Taken(Order[i]) = chunks
      BY <3>1, <3>2, <1>4
    <3>4. CutAfter(i, Taken(Order[i]))
      <4>1. rejected[Order[dest]] = chunks /\ chunks > 0
        BY <2>3 DEF ThreadInv
      <4>2. dest \in Positions
        BY Types DEF Positions
      <4>3. rejected[Order[dest]] \in 1 .. Taken(Order[i])
        BY <3>3, <4>1, Types
      <4>4. QED
        BY <2>3, <4>2, <4>3 DEF CutAfter
    <3>5. QED
      BY <3>1, <3>4, <2>3
  <2>4. CASE place = "refused" /\ ~(i < dest)
    BY <1>5, <2>1, <2>4 DEF BufferOK
  <2>5. QED
    BY <2>2, <2>3, <2>4
<1>6. given' \in {current', Mine} /\ content'[given'] = chunks'
  BY <1>1, <1>2, Types
<1>7. ASSUME NEW i \in Positions PROVE CountOK(i)'
  BY <1>1, <1>3, <1>4, Types DEF CountOK, Uncut, Positions
<1>8. ASSUME NEW i \in Positions PROVE BufferOK(i)'
  <2> SUFFICES ASSUME Busy(Order[i])
               PROVE  BufferOK(i)'
    BY <1>3 DEF BufferOK
  <2>1. BufferOK(i)
    BY DEF DataInv
  <2>2. Fits(i, Taken(Order[i]), content[buffer[Order[i]]])'
    <3>1. CASE buffer[Order[i]] = b
      <4>1. content'[b] = chunks + 1
        BY <1>1, <1>2, Types
      <4>2. chunks + 1 > Taken(Order[i]) /\ CutAfter(i, Taken(Order[i]))
        BY <1>3, <1>4, <1>5, <3>1, <1>2
      <4>3. QED
        BY <1>1, <1>3, <3>1, <4>1, <4>2 DEF Fits, CutAfter
    <3>2. CASE buffer[Order[i]] # b
      <4>1. content'[buffer[Order[i]]] = content[buffer[Order[i]]]
        BY <1>1, <3>2, Types
      <4>2. QED
        BY <1>1, <1>3, <2>1, <4>1 DEF BufferOK, Fits, CutAfter
    <3>3. QED
      BY <3>1, <3>2
  <2>3. ~(i < dest')
    BY <1>1 DEF Positions
  <2>4. \/ buffer[Order[i]] \notin {given', current'}
        \/ given' = current' /\ CutAfter(i, Taken(Order[i]))'
    BY <1>1, <1>3, <1>5 DEF CutAfter
  <2>5. QED
    BY <1>1, <1>3, <2>1, <2>2, <2>3, <2>4 DEF BufferOK
<1>9. ASSUME NEW i \in Positions PROVE WrittenOK(i)'
  BY <1>1, SameCuts DEF DataInv, WrittenOK
<1>10. ReportOK'
  BY <1>1 DEF ReportOK
<1>11. DataInv'
  BY <1>1, <1>6, <1>7, <1>8, <1>9, <1>10 DEF DataInv
<1>12. QED
  BY <1>5, <1>11

-----------------------------------------------------------------------------
(* While the copier is opened, no thread has a buffer and no stream data.  *)
LEMMA OpeningIdle ==
  ASSUME TypeOK, ThreadInv, DataInv, NEW i \in Positions,
         place \in {"shut", "opening", "undo", "undo_join"}
  PROVE  /\ ~Busy(Order[i])
         /\ InSession(i) => Len(written[Order[i]]) = 0
<1>1. CASE Opened(i)
  <2>1. Taken(Order[i]) <= 0
    BY <1>1 DEF DataInv, CountOK, InSession, Opened
  <2>2. Len(written[Order[i]]) \in Nat
    BY Types, OrderFacts
  <2>3. ~Busy(Order[i])
    <3>1. CASE Busy(Order[i])
      <4>1. Taken(Order[i]) = Len(written[Order[i]]) + 1
        BY <3>1 DEF Taken
      <4>2. QED
        BY <2>1, <2>2, <4>1
    <3>2. QED
      BY <3>1
  <2>4. Taken(Order[i]) = Len(written[Order[i]])
    BY <2>2, <2>3 DEF Taken
  <2>5. QED
    BY <2>1, <2>2, <2>3, <2>4
<1>2. CASE ~Opened(i)
  BY <1>2 DEF ThreadInv, ThreadOK, Busy, InUse, InSession
<1>3. QED
  BY <1>1, <1>2

LEMMA OpeningCut ==
  ASSUME TypeOK, ThreadInv,
         place \notin {"refused", "putting", "closing", "joining"}
  PROVE  \A i, n : ~CutAfter(i, n)
<1>1. ASSUME NEW j \in Positions PROVE ~(rejected[Order[j]] > 0)
  BY DEF ThreadInv, ThreadOK, RefusalOK
<1>2. QED
  BY <1>1, NoCut

(* A step of open() before there is any data. *)
LEMMA OpeningStep ==
  ASSUME TypeOK, TypeOK', ThreadInv, DataInv,
         place \in {"shut", "opening", "undo", "undo_join"},
         place' \in {"shut", "opening", "undo", "undo_join", "ready"},
         place' # "shut" => chunks' = 0,
         place' = "shut" => copier_failed',
         place' \in {"opening", "ready"} => given' # current',
         \A i, n : ~CutAfter(i, n)',
         \A i \in Positions :
           /\ ~Busy(Order[i])'
           /\ \/ written'[Order[i]] = written[Order[i]]
              \/ Len(written'[Order[i]]) = 0
           /\ InSession(i)' => Len(written'[Order[i]]) = 0
  PROVE  DataInv'
<1>1. ASSUME NEW i \in Positions PROVE CountOK(i)'
  <2> SUFFICES ASSUME InSession(i)' PROVE CountOK(i)'
    BY DEF CountOK
  <2>1. Taken(Order[i])' = 0
    <3>1. ~Busy(Order[i])' /\ Len(written'[Order[i]]) = 0
      OBVIOUS
    <3>2. QED
      BY <3>1 DEF Taken
  <2>2. chunks' = 0
    BY DEF InSession, Opened
  <2>3. place' # "putting"
    OBVIOUS
  <2>4. QED
    BY <2>1, <2>2, <2>3 DEF CountOK
<1>2. ASSUME NEW i \in Positions PROVE BufferOK(i)'
  BY DEF BufferOK
<1>3. ASSUME NEW i \in Positions PROVE WrittenOK(i)'
  <2> SUFFICES ASSUME NEW n \in 1 .. Len(written'[Order[i]])
               PROVE  written'[Order[i]][n] = n
    BY DEF WrittenOK, Fits
  <2>1. written'[Order[i]] = written[Order[i]]
    OBVIOUS
  <2>2. Fits(i, n, written[Order[i]][n]) /\ ~CutAfter(i, n)
    BY <2>1, OpeningCut DEF DataInv, WrittenOK
  <2>3. QED
    BY <2>1, <2>2 DEF Fits
<1>4. ReportOK'
  BY DEF ReportOK
<1>5. QED
  BY <1>1, <1>2, <1>3, <1>4 DEF DataInv

LEMMA OpenInv ==
  ASSUME TypeOK, TypeOK', ThreadInv, ThreadInv', DataInv,
         \/ OpenSource \/ OpenDest \/ OpenDestFails \/ UndoTell \/ UndoJoin
  PROVE  DataInv'
<1> USE OrderFacts
<1>p. place \in {"shut", "opening", "undo", "undo_join"}
  BY DEF OpenSource, OpenDest, OpenDestFails, UndoTell, UndoJoin
<1>c. \A i, n : ~CutAfter(i, n)
  BY <1>p, OpeningCut
<1>k. rejected' = rejected => \A i, n : ~CutAfter(i, n)'
  BY <1>c DEF CutAfter
<1>i. ASSUME NEW i \in Positions
      PROVE  /\ ~Busy(Order[i])
             /\ InSession(i) => Len(written[Order[i]]) = 0
  BY <1>p, OpeningIdle
<1>z. place # "shut" => chunks = 0
  BY <1>p DEF DataInv
<1>g. place = "opening" => given # current
  BY DEF DataInv
<1>1. CASE OpenSource
  <2>1. /\ place' = "opening" /\ dest' = 1 /\ chunks' = 0 /\ given' = Swapped
        /\ UNCHANGED <<thread, buffer, closing, thread_lock, written, current>>
    BY <1>1 DEF OpenSource, writerVars
  <2>2. given' # current'
    BY <2>1, BuffersAssumption DEF Swapped, TypeOK
  <2>3. \A i, n : ~CutAfter(i, n)'
    BY <1>1 DEF OpenSource, CutAfter
  <2>4. ASSUME NEW i \in Positions
        PROVE  ~Busy(Order[i])' /\ ~InSession(i)'
    BY <2>1, <1>i, Unmoved DEF InSession, Opened, Positions
  <2>5. QED
    BY <2>1, <2>2, <2>3, <2>4, <1>p, OpeningStep
<1>2. CASE OpenDest
  <2>1. /\ place = "opening" /\ place' \in {"opening", "ready"}
        /\ place' = "opening" => dest' = dest + 1
        /\ thread' = [thread EXCEPT ![Order[dest]] = "wait"]
        /\ thread_lock' = [thread_lock EXCEPT ![Order[dest]] = TRUE]
        /\ closing' = [closing EXCEPT ![Order[dest]] = FALSE]
        /\ written' = [written EXCEPT ![Order[dest]] = <<>>]
        /\ place' = "ready" => dest = Len(Order)
        /\ UNCHANGED <<buffer, current, given, chunks, rejected>>
    BY <1>2 DEF OpenDest, OpenOk
  <2>2. ASSUME NEW i \in Positions
        PROVE  /\ ~Busy(Order[i])'
               /\ \/ written'[Order[i]] = written[Order[i]]
                  \/ Len(written'[Order[i]]) = 0
               /\ InSession(i)' => Len(written'[Order[i]]) = 0
    <3>1. CASE i = dest
      <4>1. thread'[Order[i]] = "wait" /\ thread_lock'[Order[i]]
        BY <2>1, <3>1, Types
      <4>2. ~Busy(Order[i])'
        BY <4>1 DEF Busy, InUse
      <4>3. written'[Order[i]] = <<>>
        BY <2>1, <3>1, Types
      <4>4. QED
        BY <4>2, <4>3
    <3>2. CASE i # dest
      <4>1. Order[i] # Order[dest]
        BY <3>2, Types DEF Positions
      <4>2. written'[Order[i]] = written[Order[i]]
        BY <2>1, <4>1, Types
      <4>3. Busy(Order[i])' <=> Busy(Order[i])
        BY <2>1, <4>1, Types, Unmoved
      <4>4. InSession(i)' => InSession(i)
        BY <2>1, <3>2, Types DEF InSession, Opened, Positions
      <4>5. QED
        BY <4>2, <4>3, <4>4, <1>i
    <3>3. QED
      BY <3>1, <3>2
  <2>3. QED
    BY <2>1, <2>2, <1>g, <1>k, <1>p, <1>z, OpeningStep
<1>3. CASE OpenDestFails
  <2>1. /\ place = "opening"
        /\ UNCHANGED <<thread, buffer, thread_lock, current, given, chunks,
                       rejected>>
    BY <1>3 DEF OpenDestFails, OpenChildFails, OpenThreadFails, writerVars
  <2>2. /\ place' \in {"shut", "undo"}
        /\ place' = "shut" => copier_failed'
        /\ place' = "undo" => dest' = dest - 1
    BY <1>3 DEF OpenDestFails, UndoOpen
  <2>3. ASSUME NEW i \in Positions
        PROVE  /\ ~Busy(Order[i])'
               /\ \/ written'[Order[i]] = written[Order[i]]
                  \/ Len(written'[Order[i]]) = 0
               /\ InSession(i)' => Len(written'[Order[i]]) = 0
    <3>1. CASE i = dest
      <4>1. thread'[Order[i]] = "none"
        BY <2>1, <3>1, Types DEF ThreadInv, ThreadOK, Opened, Positions
      <4>2. ~Busy(Order[i])'
        BY <4>1 DEF Busy, InUse
      <4>3. ~InSession(i)'
        BY <2>2, <3>1, Types DEF InSession, Opened
      <4>4. \/ written'[Order[i]] = written[Order[i]]
            \/ written'[Order[i]] = <<>>
        BY <1>3, <3>1, Types
           DEF OpenDestFails, OpenChildFails, OpenThreadFails, writerVars
      <4>5. QED
        BY <4>2, <4>3, <4>4
    <3>2. CASE i # dest
      <4>1. Order[i] # Order[dest]
        BY <3>2, Types DEF Positions
      <4>2. /\ written'[Order[i]] = written[Order[i]]
            /\ closing'[Order[i]] = closing[Order[i]]
        BY <1>3, <4>1, Types
           DEF OpenDestFails, OpenChildFails, OpenThreadFails, writerVars
      <4>3. Busy(Order[i])' <=> Busy(Order[i])
        BY <2>1, <4>2, Types, Unmoved
      <4>4. InSession(i)' => InSession(i)
        BY <2>1, <2>2, <3>2, Types DEF InSession, Opened, Positions
      <4>5. QED
        BY <4>2, <4>3, <4>4, <1>i
    <3>3. QED
      BY <3>1, <3>2
  <2>4. QED
    BY <2>1, <2>2, <2>3, <1>k, <1>p, <1>z, OpeningStep
<1>4. CASE UndoTell \/ UndoJoin
  <2>1. /\ place \in {"undo", "undo_join"}
        /\ UNCHANGED <<buffer, written, current, given, chunks, rejected>>
    BY <1>4 DEF UndoTell, CloseTellThread, UndoJoin, CloseJoin
  <2>2. /\ place' \in {"shut", "undo", "undo_join"}
        /\ place' = "shut" => copier_failed'
        /\ place' = "undo" => dest' = dest - 1
        /\ place' = "undo_join" => dest' = dest
    BY <1>4 DEF UndoTell, UndoJoin, UndoOpen
  <2>3. ASSUME NEW i \in Positions
        PROVE  ~Busy(Order[i])' /\ (InSession(i)' => InSession(i))
    <3>1. InSession(i)' => InSession(i)
      BY <2>1, <2>2, Types DEF InSession, Opened, Positions
    <3>2. ~Busy(Order[i])'
      <4>1. CASE i = dest
        <5>1. CASE UndoJoin
          BY <5>1, <4>1, Types DEF UndoJoin, CloseJoin, Busy, InUse
        <5>2. CASE UndoTell
          <6>1. thread[Order[i]] # "write"
            BY <5>2, <4>1
               DEF UndoTell, CloseTellThread, ThreadInv, ThreadOK, LocksOK
          <6>2. closing'[Order[i]] /\ thread'[Order[i]] = thread[Order[i]]
            BY <5>2, <4>1, Types DEF UndoTell, CloseTellThread
          <6>3. QED
            BY <6>1, <6>2 DEF Busy, InUse
        <5>3. QED
          BY <1>4, <5>1, <5>2
      <4>2. CASE i # dest
        <5>1. Order[i] # Order[dest]
          BY <4>2, Types DEF Positions
        <5>2. Busy(Order[i])' <=> Busy(Order[i])
          BY <1>4, <5>1, Types, Unmoved
             DEF UndoTell, CloseTellThread, UndoJoin, CloseJoin
        <5>3. QED
          BY <5>2, <1>i
      <4>3. QED
        BY <4>1, <4>2
    <3>3. QED
      BY <3>1, <3>2
  <2>4. QED
    BY <2>1, <2>2, <2>3, <1>i, <1>k, <1>p, <1>z, OpeningStep
<1>5. QED
  BY <1>1, <1>2, <1>3, <1>4

-----------------------------------------------------------------------------
(* The counts of a destination, with and without a buffer under way.       *)
LEMMA TakenIs ==
  ASSUME NEW w \in Writers
  PROVE  /\ Busy(w) => Taken(w) = Len(written[w]) + 1
         /\ ~Busy(w) => Taken(w) = Len(written[w]) + 0
<1>1. CASE Busy(w)
  BY <1>1 DEF Taken
<1>2. CASE ~Busy(w)
  BY <1>2 DEF Taken
<1>3. QED
  BY <1>1, <1>2

(* MultiWriter::put() hands the buffer to a child that has done with the   *)
(* one before.                                                             *)
LEMMA PutInv ==
  ASSUME TypeOK, TypeOK', ThreadInv, DataInv, PutDest
  PROVE  DataInv'
<1> USE OrderFacts
<1>0. PICK d \in Writers : d = Order[dest]
  BY Types DEF Positions
<1>1. /\ place = "putting"
      /\ ~buffer_lock[d] /\ ~failed[d] /\ ~closing[d]
      /\ buffer' = [buffer EXCEPT ![d] = given]
      /\ thread_lock' = [thread_lock EXCEPT ![d] = FALSE]
      /\ UNCHANGED <<content, thread, failed, closing, written, given, rejected,
                     writer_failed, copier_failed, chunks, sessions>>
  BY <1>0 DEF PutDest, PutAccepted, CanPut
<1>2. \/ /\ dest = Len(Order) /\ place' = "ready" /\ dest' = 1
         /\ current' = IF given = current THEN Swapped ELSE current
      \/ dest # Len(Order) /\ place' = "putting" /\ dest' = dest + 1
         /\ current' = current
  BY <1>1, Zenon DEF PutDest
<1>3. dest \in Positions /\ d \in Writers
  BY Types DEF Positions
<1> USE <1>0
<1>4. LocksOK(d) /\ rejected[d] = 0 /\ thread[d] \in {"wait", "test"}
  <2>1. ThreadOK(dest)
    BY <1>3 DEF ThreadInv
  <2>2. LocksOK(d) /\ ~(rejected[d] > 0)
    BY <1>1, <2>1 DEF ThreadOK, RefusalOK
  <2>3. thread[d] \notin {"none", "write", "release", "exited"}
    BY <1>1, <2>1, <2>2 DEF ThreadOK, LocksOK, Opened
  <2>4. QED
    BY <1>3, <2>2, <2>3, Types DEF ThreadPlaces
<1>5. \A i \in Positions : i <= dest => Uncut(i)
  <2> SUFFICES ASSUME NEW j \in Positions, j <= dest
               PROVE  rejected[Order[j]] = 0
    BY <1>3, Types DEF Uncut, Positions
  <2>1. CASE j = dest
    BY <1>4, <2>1
  <2>2. CASE j # dest
    <3>1. ~(dest <= j)
      BY <2>2, Types DEF Positions
    <3>2. RefusalOK(j)
      BY DEF ThreadInv, ThreadOK
    <3>3. QED
      BY <3>1, <3>2, Types DEF RefusalOK
  <2>3. QED
    BY <2>1, <2>2
<1>6. chunks > 0 /\ given \in {current, Mine} /\ content[given] = chunks
  BY <1>1 DEF DataInv, ThreadInv
<1>7. /\ ~Busy(d) /\ Busy(d)'
      /\ Taken(d) = chunks - 1 /\ Taken(d)' = chunks
  <2>1. ~Busy(d)
    BY <1>1, <1>3, <1>4, FreeIsIdle
  <2>2. thread_lock'[d] = FALSE /\ buffer'[d] = given
    BY <1>1, <1>3, Types
  <2>3. Busy(d)'
    BY <1>1, <1>4, <2>2 DEF Busy, InUse
  <2>4. Taken(d) = chunks - 1
    BY <1>1, <1>3, <1>5, Types DEF DataInv, CountOK, InSession, Opened, Positions
  <2>5. Taken(d)' = Len(written[d]) + 1
    BY <1>1, <2>3 DEF Taken
  <2>6. QED
    BY <1>3, <2>1, <2>3, <2>4, <2>5, TakenIs, Types
<1>8. ASSUME NEW i \in Positions, i # dest
      PROVE  /\ Order[i] # d /\ buffer'[Order[i]] = buffer[Order[i]]
             /\ Busy(Order[i])' <=> Busy(Order[i])
             /\ Taken(Order[i])' = Taken(Order[i])
  <2>1. Order[i] # d
    BY <1>3, <1>8
  <2>2. QED
    BY <1>1, <2>1, Types, Unmoved
<1>9. ASSUME NEW i \in Positions PROVE CountOK(i)'
  <2>1. CASE i = dest
    BY <1>1, <1>2, <1>7, <2>1, Types DEF CountOK
  <2>2. CASE i # dest
    <3>1. CountOK(i) /\ InSession(i)
      BY <1>1 DEF DataInv, InSession, Opened
    <3>2. Uncut(i)' <=> Uncut(i)
      BY <1>1 DEF Uncut
    <3>3. (place' = "putting" /\ i >= dest') <=> (place = "putting" /\ i >= dest)
      BY <1>1, <1>2, <2>2, Types DEF Positions
    <3>4. QED
      BY <1>1, <1>8, <2>2, <3>1, <3>2, <3>3 DEF CountOK
  <2>3. QED
    BY <2>1, <2>2
<1>10. ASSUME NEW i \in Positions, Busy(Order[i])' PROVE BufferOK(i)'
  <2>1. CASE i = dest
    <3>1. buffer'[d] = given
      BY <1>1, <1>3, Types
    <3>2. Fits(i, Taken(Order[i]), content[buffer[Order[i]]])'
      BY <1>1, <1>6, <1>7, <2>1, <3>1 DEF Fits
    <3>3. place' \in {"putting", "refused"} => i < dest'
      BY <1>2, <2>1, Types
    <3>4. QED
      BY <1>1, <2>1, <3>1, <3>2, <3>3 DEF BufferOK
  <2>2. CASE i # dest
    <3>1. BufferOK(i) /\ Busy(Order[i])
      BY <1>8, <1>10, <2>2 DEF DataInv
    <3>2. Fits(i, Taken(Order[i]), content[buffer[Order[i]]])'
      BY <1>1, <1>8, <2>2, <3>1 DEF BufferOK, Fits, CutAfter
    <3>3. place' = "ready" => i < dest
      BY <1>2, <2>2, Types DEF Positions
    <3>4. place' = "ready" => buffer'[Order[i]] = given'
      BY <1>1, <1>8, <2>2, <3>1, <3>3 DEF BufferOK
    <3>5. place' \in {"putting", "refused"} =>
            /\ i < dest' <=> i < dest
            /\ current' = current
      BY <1>2, <2>2, Types DEF Positions
    <3>6. place' \in {"putting", "refused"} =>
            IF i < dest'
            THEN buffer'[Order[i]] = given'
            ELSE \/ buffer'[Order[i]] \notin {given', current'}
                 \/ given' = current' /\ CutAfter(i, Taken(Order[i]))'
      BY <1>1, <1>8, <2>2, <3>1, <3>5 DEF BufferOK, CutAfter
    <3>7. QED
      BY <1>1, <3>1, <3>2, <3>4, <3>6 DEF BufferOK
  <2>3. QED
    BY <2>1, <2>2
<1>11. ASSUME NEW i \in Positions PROVE BufferOK(i)'
  BY <1>10 DEF BufferOK
<1>12. ASSUME NEW i \in Positions PROVE WrittenOK(i)'
  BY <1>1, SameCuts DEF DataInv, WrittenOK
<1>13. place' \in {"putting", "ready"}
  BY <1>2
<1>14. place' = "ready" => given' # current'
  BY <1>1, <1>2, <1>6, BuffersAssumption DEF Swapped, TypeOK
<1>15. place' \in {"putting", "refused"} =>
         given' \in {current', Mine} /\ content'[given'] = chunks'
  BY <1>1, <1>2, <1>6
<1>16. QED
  BY <1>9, <1>11, <1>12, <1>13, <1>14, <1>15 DEF DataInv, ReportOK

(* A child refuses: it is the first of those that miss the chunk.          *)
LEMMA RefuseInv ==
  ASSUME TypeOK, TypeOK', ThreadInv, DataInv, PutDestRefused
  PROVE  DataInv'
<1> USE OrderFacts
<1>1. /\ place = "putting" /\ place' = "refused"
      /\ ~buffer_lock[Order[dest]]
      /\ rejected' = [rejected EXCEPT ![Order[dest]] = chunks]
      /\ UNCHANGED <<content, thread, buffer, failed, closing, thread_lock,
                     written, dest, current, given, chunks>>
  BY DEF PutDestRefused, PutRefused, CanPut
<1>2. dest \in Positions /\ chunks > 0
  BY <1>1, Types DEF Positions, ThreadInv
<1>3. ASSUME NEW i \in Positions
      PROVE  /\ Busy(Order[i])' <=> Busy(Order[i])
             /\ Taken(Order[i])' = Taken(Order[i])
  BY <1>1, Unmoved
<1>4. ~(rejected[Order[dest]] > 0)
  BY <1>1, <1>2 DEF ThreadInv, ThreadOK, RefusalOK
<1>5. \A i, n : CutAfter(i, n) =>
        \E j \in Positions : i < j /\ rejected'[Order[j]] \in 1 .. n
  <2> SUFFICES ASSUME NEW i, NEW n, NEW j \in Positions,
                      i < j, rejected[Order[j]] \in 1 .. n
               PROVE  rejected'[Order[j]] \in 1 .. n
    BY DEF CutAfter
  <2>1. j # dest
    BY <1>4
  <2>2. Order[j] # Order[dest]
    BY <1>2, <2>1
  <2>3. QED
    BY <1>1, <2>2, Types
<1>6. ASSUME NEW i \in Positions PROVE CountOK(i)'
  <2>1. CountOK(i) /\ InSession(i)
    BY <1>1 DEF DataInv, InSession, Opened
  <2>2. Uncut(i)' => Uncut(i) /\ i < dest
    <3>1. rejected'[Order[dest]] = chunks
      BY <1>1, <1>2, Types
    <3>2. Uncut(i)' => i < dest
      BY <1>2, <3>1, Types DEF Uncut, Positions
    <3>3. ASSUME i < dest, NEW j \in Positions, j <= i
          PROVE  rejected'[Order[j]] = rejected[Order[j]]
      <4>1. j # dest
        BY <3>3, Types DEF Positions
      <4>2. Order[j] # Order[dest]
        BY <1>2, <4>1
      <4>3. QED
        BY <1>1, <4>2, Types
    <3>4. QED
      BY <3>2, <3>3 DEF Uncut
  <2>3. QED
    BY <1>1, <1>3, <2>1, <2>2, Types DEF CountOK, Positions
<1>7. ASSUME NEW i \in Positions PROVE BufferOK(i)'
  <2> SUFFICES ASSUME Busy(Order[i]) PROVE BufferOK(i)'
    BY <1>3 DEF BufferOK
  <2>1. BufferOK(i)
    BY DEF DataInv
  <2>2. Fits(i, Taken(Order[i]), content[buffer[Order[i]]])'
    BY <1>1, <1>3, <1>5, <2>1 DEF BufferOK, Fits, CutAfter
  <2>3. IF i < dest'
        THEN buffer'[Order[i]] = given'
        ELSE \/ buffer'[Order[i]] \notin {given', current'}
             \/ given' = current' /\ CutAfter(i, Taken(Order[i]))'
    BY <1>1, <1>3, <1>5, <2>1 DEF BufferOK, CutAfter
  <2>4. QED
    BY <1>1, <1>3, <2>1, <2>2, <2>3 DEF BufferOK
<1>8. ASSUME NEW i \in Positions PROVE WrittenOK(i)'
  BY <1>1, <1>5 DEF DataInv, WrittenOK, Fits, CutAfter
<1>9. given' \in {current', Mine} /\ content'[given'] = chunks'
  BY <1>1 DEF DataInv
<1>10. QED
  BY <1>1, <1>6, <1>7, <1>8, <1>9 DEF DataInv, ReportOK

-----------------------------------------------------------------------------
(* A step that moves no thread and no data, and starts no call of put():   *)
(* what matters is which destinations it leaves in the session.            *)
LEMMA QuietStep ==
  ASSUME TypeOK, DataInv,
         UNCHANGED <<content, writerVars, current, given, rejected, chunks>>,
         \A i \in Positions : InSession(i)' => InSession(i),
         place' \notin {"opening", "undo", "undo_join", "putting"},
         place # "putting",
         place' \in {"ready", "refused"} => place' = place /\ dest' = dest,
         ReportOK'
  PROVE  DataInv'
<1> USE OrderFacts DEF writerVars
<1>1. ASSUME NEW i \in Positions
      PROVE  /\ Busy(Order[i])' <=> Busy(Order[i])
             /\ Taken(Order[i])' = Taken(Order[i])
  BY Unmoved
<1>2. ASSUME NEW i \in Positions PROVE CountOK(i)'
  BY <1>1 DEF DataInv, CountOK, Uncut
<1>3. ASSUME NEW i \in Positions PROVE BufferOK(i)'
  <2> SUFFICES ASSUME Busy(Order[i]) PROVE BufferOK(i)'
    BY <1>1 DEF BufferOK
  <2>1. BufferOK(i)
    BY DEF DataInv
  <2>2. Fits(i, Taken(Order[i]), content[buffer[Order[i]]])'
    BY <1>1, <2>1 DEF BufferOK, Fits, CutAfter
  <2>3. CutAfter(i, Taken(Order[i]))' <=> CutAfter(i, Taken(Order[i]))
    BY <1>1 DEF CutAfter
  <2>4. QED
    BY <1>1, <2>1, <2>2, <2>3 DEF BufferOK
<1>4. ASSUME NEW i \in Positions PROVE WrittenOK(i)'
  BY SameCuts DEF DataInv, WrittenOK
<1>5. QED
  BY <1>2, <1>3, <1>4 DEF DataInv

LEMMA FlagInv ==
  ASSUME TypeOK, DataInv, OpenSourceFails \/ ReadFails \/ CloseCall
  PROVE  DataInv'
<1>1. CASE OpenSourceFails
  BY <1>1, QuietStep DEF OpenSourceFails, InSession, Opened, ReportOK
<1>2. CASE ReadFails
  BY <1>2, QuietStep DEF ReadFails, CanGoOn, InSession, Opened, ReportOK
<1>3. CASE CloseCall
  <2>1. /\ place \in {"ready", "refused"} /\ place' = "closing" /\ dest' = 1
        /\ UNCHANGED <<content, writerVars, current, given, rejected, chunks>>
    BY <1>3 DEF CloseCall
  <2>2. ReportOK'
    BY <2>1 DEF ReportOK, Positions
  <2>3. \A i \in Positions : InSession(i)
    BY <2>1 DEF InSession, Opened
  <2>4. QED
    BY <2>1, <2>2, <2>3, QuietStep
<1>4. QED
  BY <1>1, <1>2, <1>3

(* close(): a destination whose thread is told to end, or has ended, has   *)
(* no buffer; when the last one has ended the counts are those of the      *)
(* streams.                                                                *)
LEMMA CloseDestInv ==
  ASSUME TypeOK, ThreadInv, DataInv, CloseDest
  PROVE  DataInv'
<1> USE OrderFacts
<1>1. /\ place = "closing" /\ place' = "joining" /\ ~buffer_lock[Order[dest]]
      /\ closing' = [closing EXCEPT ![Order[dest]] = TRUE]
      /\ thread_lock' = [thread_lock EXCEPT ![Order[dest]] = FALSE]
      /\ UNCHANGED <<content, thread, buffer, failed, written, dest, current,
                     given, rejected, writer_failed, chunks>>
  BY DEF CloseDest, CloseTellThread
<1>2. dest \in Positions
  BY Types DEF Positions
<1>3. ASSUME NEW i \in Positions
      PROVE  /\ Busy(Order[i])' <=> Busy(Order[i])
             /\ Taken(Order[i])' = Taken(Order[i])
  <2>1. CASE i = dest
    <3>1. LocksOK(Order[i])
      BY DEF ThreadInv, ThreadOK
    <3>2. ~Busy(Order[i])
      BY <1>1, <2>1, <3>1, FreeIsIdle
    <3>3. closing'[Order[i]] /\ thread'[Order[i]] # "write"
      BY <1>1, <2>1, <3>1, Types DEF LocksOK
    <3>4. ~Busy(Order[i])'
      BY <3>3 DEF Busy, InUse
    <3>5. QED
      BY <1>1, <3>2, <3>4 DEF Taken
  <2>2. CASE i # dest
    <3>1. Order[i] # Order[dest]
      BY <1>2, <2>2
    <3>2. QED
      BY <1>1, <3>1, Types, Unmoved
  <2>3. QED
    BY <2>1, <2>2
<1>4. ASSUME NEW i \in Positions PROVE CountOK(i)'
  BY <1>1, <1>3 DEF DataInv, CountOK, Uncut, InSession
<1>5. ASSUME NEW i \in Positions PROVE BufferOK(i)'
  BY <1>1, <1>3 DEF DataInv, BufferOK, Fits, CutAfter
<1>6. ASSUME NEW i \in Positions PROVE WrittenOK(i)'
  BY <1>1, SameCuts DEF DataInv, WrittenOK
<1>7. ReportOK'
  BY <1>1 DEF DataInv, ReportOK
<1>8. QED
  BY <1>1, <1>4, <1>5, <1>6, <1>7 DEF DataInv

LEMMA JoinInv ==
  ASSUME TypeOK, ThreadInv, DataInv, NEW fails \in BOOLEAN, JoinDest(fails)
  PROVE  DataInv'
<1> USE OrderFacts
<1>0. PICK d \in Writers : d = Order[dest]
  BY Types DEF Positions
<1>1. /\ place = "joining" /\ thread[d] = "exited"
      /\ thread' = [thread EXCEPT ![d] = "none"]
      /\ writer_failed' = (writer_failed \/ fails \/ failed[d])
      /\ UNCHANGED <<content, buffer, failed, closing, thread_lock, written,
                     current, given, rejected, chunks>>
  BY <1>0 DEF JoinDest, CloseJoin
<1>2. \/ dest = Len(Order) /\ place' = "close_source"
      \/ place' = "closing" /\ dest' = dest + 1
  BY DEF JoinDest
<1>3. dest \in Positions
  BY Types DEF Positions
<1>4. ASSUME NEW i \in Positions
      PROVE  /\ Busy(Order[i])' <=> Busy(Order[i])
             /\ Taken(Order[i])' = Taken(Order[i])
  <2>1. CASE Order[i] = d
    <3>1. ~Busy(Order[i])
      BY <1>1, <2>1 DEF Busy, InUse
    <3>2. thread'[Order[i]] = "none"
      BY <1>1, <2>1, Types
    <3>3. ~Busy(Order[i])'
      BY <3>2 DEF Busy, InUse
    <3>4. QED
      BY <1>1, <3>1, <3>3 DEF Taken
  <2>2. CASE Order[i] # d
    BY <1>1, <2>2, Types, Unmoved
  <2>3. QED
    BY <2>1, <2>2
<1>5. ASSUME NEW i \in Positions PROVE CountOK(i)'
  BY <1>1, <1>2, <1>4 DEF DataInv, CountOK, Uncut, InSession
<1>6. ASSUME NEW i \in Positions PROVE BufferOK(i)'
  BY <1>1, <1>2, <1>4 DEF DataInv, BufferOK, Fits, CutAfter
<1>7. ASSUME NEW i \in Positions PROVE WrittenOK(i)'
  BY <1>1, SameCuts DEF DataInv, WrittenOK
<1>8. ReportOK'
  <2>1. ASSUME ~writer_failed', NEW i \in Positions, i <= dest
        PROVE  ~failed'[Order[i]]
    <3>1. CASE i = dest
      BY <1>0, <1>1, <2>1, <3>1
    <3>2. CASE i # dest
      <4>1. i < dest
        BY <2>1, <3>2, Types DEF Positions
      <4>2. ~writer_failed /\ failed'[Order[i]] = failed[Order[i]]
        BY <1>1, <2>1, Zenon
      <4>3. QED
        BY <1>1, <4>1, <4>2 DEF DataInv, ReportOK
    <3>3. QED
      BY <3>1, <3>2
  <2>2. CASE place' = "close_source"
    <3>1. \A i \in Positions : i <= dest
      BY <1>2, <2>2 DEF Positions
    <3>2. QED
      BY <2>1, <2>2, <3>1 DEF ReportOK
  <2>3. CASE place' = "closing"
    <3>1. \A i \in Positions : i < dest' => i <= dest
      BY <1>2, <2>3, Types DEF Positions
    <3>2. QED
      BY <2>1, <2>3, <3>1 DEF ReportOK
  <2>4. QED
    BY <1>2, <2>2, <2>3
<1>9. QED
  BY <1>1, <1>2, <1>5, <1>6, <1>7, <1>8 DEF DataInv

LEMMA CloseSourceInv ==
  ASSUME TypeOK, ThreadInv, DataInv, NEW fails \in BOOLEAN, CloseSource(fails)
  PROVE  DataInv'
<1> USE OrderFacts
<1>1. /\ place = "close_source" /\ place' = "shut"
      /\ copier_failed' = (copier_failed \/ writer_failed \/ fails)
      /\ UNCHANGED <<content, writerVars, dest, current, given, rejected, chunks>>
  BY DEF CloseSource
<1>2. ASSUME ~copier_failed', NEW i \in Positions
      PROVE  Len(written'[Order[i]]) = chunks'
  <2>1. ~failed[Order[i]]
    BY <1>1, <1>2 DEF DataInv, ReportOK
  <2>2. Uncut(i)
    <3>1. \A j \in Positions : ~(rejected[Order[j]] > 0)
      BY <1>1 DEF ThreadInv, ThreadOK, RefusalOK
    <3>2. QED
      BY <3>1, NoCut
  <2>3. Taken(Order[i]) = chunks
    BY <1>1, <2>1, <2>2 DEF DataInv, CountOK, InSession
  <2>4. thread[Order[i]] = "none"
    BY <1>1 DEF ThreadInv, ThreadOK, Opened
  <2>5. ~Busy(Order[i])
    BY <2>4 DEF Busy, InUse
  <2>6. QED
    BY <1>1, <2>3, <2>5, TakenIs, Types DEF writerVars
<1>3. ReportOK'
  BY <1>1, <1>2 DEF ReportOK
<1>4. \A i \in Positions : ~InSession(i)'
  BY <1>1 DEF InSession, Opened
<1>5. QED
  BY <1>1, <1>3, <1>4, QuietStep

-----------------------------------------------------------------------------
(* The threads: whatever is written was taken, and is what the buffer held *)
(* when it was handed over, or fits nevertheless.                          *)
LEMMA ThreadDataInv ==
  ASSUME TypeOK, ThreadInv, DataInv, NEW w \in Writers, ThreadStep(w),
         UNCHANGED copierVars
  PROVE  DataInv'
<1> USE OrderFacts
<1>0. PICK k \in Positions : Order[k] = w
  OBVIOUS
<1>1. /\ UNCHANGED <<content, buffer, closing>>
      /\ UNCHANGED <<place, dest, current, given, rejected, copier_failed,
                     writer_failed, chunks, sessions>>
  BY DEF ThreadStep, ThreadStart, ThreadWrite, ThreadWriteFails, ThreadRelease,
         ThreadTest, copierVars
<1>2. ASSUME NEW i \in Positions, i # k
      PROVE  /\ Busy(Order[i])' <=> Busy(Order[i])
             /\ Taken(Order[i])' = Taken(Order[i])
             /\ written'[Order[i]] = written[Order[i]]
             /\ failed'[Order[i]] = failed[Order[i]]
  <2>1. Order[i] # w
    BY <1>0, <1>2
  <2>2. /\ thread'[Order[i]] = thread[Order[i]]
        /\ thread_lock'[Order[i]] = thread_lock[Order[i]]
        /\ written'[Order[i]] = written[Order[i]]
        /\ failed'[Order[i]] = failed[Order[i]]
    BY <2>1, Types
       DEF ThreadStep, ThreadStart, ThreadWrite, ThreadWriteFails,
           ThreadRelease, ThreadTest
  <2>3. QED
    BY <1>1, <2>2, Unmoved
<1>3. LocksOK(w)
  BY <1>0 DEF ThreadInv, ThreadOK
<1>4. thread[w] # "none" /\ Opened(k)
  BY <1>0
     DEF ThreadStep, ThreadStart, ThreadWrite, ThreadWriteFails, ThreadRelease,
         ThreadTest, ThreadInv, ThreadOK
<1>5. CASE ThreadStart(w) \/ ThreadRelease(w) \/ ThreadTest(w)
  <2>1. Busy(w)' <=> Busy(w)
    <3>1. CASE ThreadStart(w)
      <4>1. /\ thread[w] = "wait" /\ ~thread_lock[w]
            /\ thread'[w] = IF closing[w] THEN "release" ELSE "write"
        BY <3>1, Types DEF ThreadStart
      <4>2. QED
        BY <1>1, <4>1 DEF Busy, InUse
    <3>2. CASE ThreadRelease(w)
      <4>1. /\ thread[w] = "release" /\ thread'[w] = "test"
            /\ thread_lock'[w] = thread_lock[w]
        BY <3>2, Types DEF ThreadRelease
      <4>2. QED
        BY <1>3, <4>1 DEF LocksOK, Busy, InUse
    <3>3. CASE ThreadTest(w)
      <4>1. /\ thread[w] = "test" /\ thread_lock'[w] = thread_lock[w]
            /\ thread'[w] = IF closing[w] THEN "exited" ELSE "wait"
        BY <3>3, Types DEF ThreadTest
      <4>2. QED
        BY <1>1, <4>1 DEF Busy, InUse
    <3>4. QED
      BY <1>5, <3>1, <3>2, <3>3
  <2>2. UNCHANGED <<written, failed>>
    BY <1>5 DEF ThreadStart, ThreadRelease, ThreadTest
  <2>3. Taken(w)' = Taken(w)
    BY <2>1, <2>2 DEF Taken
  <2>4. ASSUME NEW i \in Positions
        PROVE  /\ Busy(Order[i])' <=> Busy(Order[i])
               /\ Taken(Order[i])' = Taken(Order[i])
    BY <1>0, <1>2, <2>1, <2>3
  <2>5. ASSUME NEW i \in Positions PROVE CountOK(i)'
    BY <1>1, <2>2, <2>4 DEF DataInv, CountOK, Uncut, InSession, Opened
  <2>6. ASSUME NEW i \in Positions PROVE BufferOK(i)'
    BY <1>1, <2>2, <2>4 DEF DataInv, BufferOK, Fits, CutAfter
  <2>7. ASSUME NEW i \in Positions PROVE WrittenOK(i)'
    BY <1>1, <2>2, SameCuts DEF DataInv, WrittenOK
  <2>8. ReportOK'
    BY <1>1, <2>2 DEF DataInv, ReportOK
  <2>9. QED
    BY <1>1, <2>5, <2>6, <2>7, <2>8 DEF DataInv
<1>6. ASSUME ThreadWrite(w) \/ ThreadWriteFails(w)
      PROVE  /\ Busy(w) /\ ~Busy(w)'
             /\ ~failed[w]
             /\ Taken(w) = Len(written[w]) + 1
             /\ Fits(k, Len(written[w]) + 1, content[buffer[w]])
             /\ InSession(k) /\ place \notin {"shut", "close_source"}
             /\ place \in {"closing", "joining"} => ~(k < dest)
  <2>1. thread[w] = "write" /\ thread'[w] = "release"
    BY <1>6, Types DEF ThreadWrite, ThreadWriteFails
  <2>2. Busy(w)
    BY <2>1 DEF Busy, InUse
  <2>3. ~Busy(w)'
    BY <2>1 DEF Busy, InUse
  <2>4. Taken(w) = Len(written[w]) + 1
    BY <2>2, TakenIs
  <2>5. ~failed[w] /\ Fits(k, Taken(w), content[buffer[w]])
    BY <1>0, <2>2 DEF DataInv, BufferOK
  <2>6. /\ InSession(k) /\ place \notin {"shut", "close_source"}
        /\ place \in {"closing", "joining"} => ~(k < dest)
    BY <1>4, Types DEF InSession, Opened, Positions
  <2>7. QED
    BY <2>2, <2>3, <2>4, <2>5, <2>6
<1>7. CASE ThreadWrite(w)
  <2>1. /\ written' = [written EXCEPT ![w] = Append(@, content[buffer[w]])]
        /\ failed' = failed
    BY <1>7 DEF ThreadWrite
  <2>2. /\ written'[w] = Append(written[w], content[buffer[w]])
        /\ written[w] \in Seq(0 .. MaxChunks)
    BY <2>1, Types
  <2>3. /\ Len(written'[w]) = Len(written[w]) + 1
        /\ written'[w][Len(written[w]) + 1] = content[buffer[w]]
        /\ \A n \in 1 .. Len(written[w]) : written'[w][n] = written[w][n]
    BY <2>2
  <2>4. Taken(w)' = Taken(w)
    BY <1>6, <1>7, <2>3, Types DEF Taken
  <2>5. ASSUME NEW i \in Positions PROVE CountOK(i)'
    BY <1>0, <1>1, <1>2, <2>1, <2>4
       DEF DataInv, CountOK, Uncut, InSession, Opened
  <2>6. ASSUME NEW i \in Positions PROVE BufferOK(i)'
    <3>1. CASE i = k
      BY <1>0, <1>6, <1>7, <3>1 DEF BufferOK
    <3>2. CASE i # k
      BY <1>1, <1>2, <2>1, <3>2 DEF DataInv, BufferOK, Fits, CutAfter
    <3>3. QED
      BY <3>1, <3>2
  <2>7. ASSUME NEW i \in Positions PROVE WrittenOK(i)'
    <3>1. CASE i = k
      <4> SUFFICES ASSUME NEW n \in 1 .. Len(written'[w])
                   PROVE  Fits(k, n, written'[w][n])
        BY <1>0, <1>1, <3>1, SameCuts DEF WrittenOK
      <4>1. CASE n = Len(written[w]) + 1
        BY <1>6, <1>7, <2>3, <4>1
      <4>2. CASE n # Len(written[w]) + 1
        <5>1. n \in 1 .. Len(written[w])
          BY <2>3, <4>2, Types
        <5>2. QED
          BY <1>0, <2>3, <5>1 DEF DataInv, WrittenOK
      <4>3. QED
        BY <4>1, <4>2
    <3>2. CASE i # k
      BY <1>1, <1>2, <3>2, SameCuts DEF DataInv, WrittenOK
    <3>3. QED
      BY <3>1, <3>2
  <2>8. ReportOK'
    BY <1>1, <1>6, <1>7, <2>1 DEF DataInv, ReportOK
  <2>9. QED
    BY <1>1, <2>5, <2>6, <2>7, <2>8 DEF DataInv
<1>8. CASE ThreadWriteFails(w)
  <2>1. /\ failed' = [failed EXCEPT ![w] = TRUE]
        /\ written' = written
    BY <1>8 DEF ThreadWriteFails
  <2>2. Taken(w)' = Len(written[w]) /\ failed'[w]
    BY <1>6, <1>8, <2>1, Types DEF Taken
  <2>3. ASSUME NEW i \in Positions PROVE CountOK(i)'
    <3>1. CASE i = k
      <4>1. Taken(w) <= chunks
        BY <1>0, <1>6, <1>8 DEF DataInv, CountOK
      <4>2. Taken(w)' <= chunks'
        BY <1>1, <1>6, <1>8, <2>2, <4>1, Types
      <4>3. QED
        BY <1>0, <2>2, <3>1, <4>2 DEF CountOK
    <3>2. CASE i # k
      BY <1>1, <1>2, <3>2 DEF DataInv, CountOK, Uncut, InSession, Opened
    <3>3. QED
      BY <3>1, <3>2
  <2>4. ASSUME NEW i \in Positions PROVE BufferOK(i)'
    <3>1. CASE i = k
      BY <1>0, <1>6, <1>8, <3>1 DEF BufferOK
    <3>2. CASE i # k
      BY <1>1, <1>2, <3>2 DEF DataInv, BufferOK, Fits, CutAfter
    <3>3. QED
      BY <3>1, <3>2
  <2>5. ASSUME NEW i \in Positions PROVE WrittenOK(i)'
    BY <1>1, <2>1, SameCuts DEF DataInv, WrittenOK
  <2>6. ReportOK'
    BY <1>0, <1>1, <1>2, <1>6, <1>8, <2>1 DEF DataInv, ReportOK
  <2>7. QED
    BY <1>1, <2>3, <2>4, <2>5, <2>6 DEF DataInv
<1>9. QED
  BY <1>5, <1>7, <1>8 DEF ThreadStep

-----------------------------------------------------------------------------
(* The invariant, and what it says of the properties.                      *)
LEMMA DataInit == Init => DataInv
<1> SUFFICES ASSUME Init PROVE DataInv
  OBVIOUS
<1>1. ASSUME NEW i \in Positions
      PROVE  /\ thread[Order[i]] = "none" /\ written[Order[i]] = <<>>
             /\ ~InSession(i)
  BY OrderFacts DEF Init, WriterInit, InSession, Opened
<1>2. ASSUME NEW i \in Positions PROVE CountOK(i) /\ BufferOK(i) /\ WrittenOK(i)
  BY <1>1 DEF CountOK, BufferOK, WrittenOK, Busy, InUse
<1>3. ReportOK
  BY DEF Init, ReportOK
<1>4. QED
  BY <1>2, <1>3 DEF Init, DataInv

LEMMA DataInvStep ==
  ASSUME TypeOK, TypeOK', ThreadInv, ThreadInv', DataInv, [Next]_vars
  PROVE  DataInv'
<1>1. CASE \/ OpenSource \/ OpenDest \/ OpenDestFails \/ UndoTell \/ UndoJoin
  BY <1>1, OpenInv
<1>2. CASE OpenSourceFails \/ ReadFails \/ CloseCall
  BY <1>2, FlagInv
<1>3. CASE ReadChunk
  <2>1. Give(current) /\ place \in {"ready", "refused"}
    BY <1>3 DEF ReadChunk, CanGoOn
  <2>2. place = "ready" => current # given
    BY DEF DataInv
  <2>3. QED
    BY <2>1, <2>2, GiveInv
<1>4. CASE PutChunk
  BY <1>4, GiveInv DEF PutChunk
<1>5. CASE PutDest
  BY <1>5, PutInv
<1>6. CASE PutDestRefused
  BY <1>6, RefuseInv
<1>7. CASE CloseDest
  BY <1>7, CloseDestInv
<1>8. CASE \E fails \in BOOLEAN : JoinDest(fails) \/ CloseSource(fails)
  BY <1>8, JoinInv, CloseSourceInv
<1>9. CASE \E w \in Writers : ThreadStep(w) /\ UNCHANGED copierVars
  BY <1>9, ThreadDataInv
<1>10. CASE UNCHANGED vars
  <2>1. /\ UNCHANGED <<content, writerVars>>
        /\ UNCHANGED <<place, dest, current, given, rejected, copier_failed,
                       writer_failed, chunks, sessions>>
    BY <1>10 DEF vars, copierVars
  <2>2. ASSUME NEW i \in Positions
        PROVE  /\ Busy(Order[i])' <=> Busy(Order[i])
               /\ Taken(Order[i])' = Taken(Order[i])
    BY <2>1, OrderFacts, Unmoved DEF writerVars
  <2>3. QED
    BY <2>1, <2>2
       DEF DataInv, ReportOK, CountOK, BufferOK, WrittenOK, Uncut, Fits,
           CutAfter, InSession, Opened, writerVars
<1>11. QED
  BY <1>1, <1>2, <1>3, <1>4, <1>5, <1>6, <1>7, <1>8, <1>9, <1>10
     DEF Next, CallStep

(* In every state the threads, their locks and buffers are as the place of *)
(* the caller says, whatever the threads have got to and whatever failed.  *)
THEOREM Invariance == Spec => []Inv
<1>1. Init => Inv
  BY TypeInit, ThreadInit, DataInit DEF Inv
<1>2. Inv /\ [Next]_vars => Inv'
  BY TypeStep, ThreadInvStep, DataInvStep DEF Inv
<1>3. QED
  BY <1>1, <1>2, PTL DEF Spec

(* asyncwriter.cpp, close() and copier.cpp, close(): a copier that is not  *)
(* open has no thread and no open stream, however it came to be closed.    *)
THEOREM ClosedIsClean == Spec => []NothingLeftOpen
<1>1. Inv => NothingLeftOpen
  BY OrderFacts
     DEF Inv, ThreadInv, ThreadOK, Opened, NothingLeftOpen
<1>2. QED
  BY <1>1, Invariance, PTL

(* asyncwriter.cpp and multiwriter.cpp: what each destination holds is     *)
(* what was read, in order; a refusal disturbs only the destinations       *)
(* before the one that refused, and only from the refused chunk on.        *)
THEOREM ChunksInOrder == Spec => []DestinationsGetChunks
<1>1. Inv => DestinationsGetChunks
  <2> SUFFICES ASSUME Inv, NEW w \in Writers, NEW n \in 1 .. Len(written[w]),
                      written[w][n] # n
               PROVE  /\ written[w][n] > n
                      /\ \E r \in Writers :
                           /\ rejected[r] \in 1 .. n
                           /\ Position(w) < Position(r)
    BY DEF DestinationsGetChunks
  <2>1. PICK i \in Positions : Order[i] = w
    BY OrderFacts
  <2>2. written[w][n] > n /\ CutAfter(i, n)
    BY <2>1 DEF Inv, DataInv, WrittenOK, Fits
  <2>3. PICK j \in Positions : i < j /\ rejected[Order[j]] \in 1 .. n
    BY <2>2 DEF CutAfter
  <2>4. Position(w) = i /\ Position(Order[j]) = j /\ Order[j] \in Writers
    BY <2>1, PositionIs, OrderFacts
  <2>5. QED
    BY <2>2, <2>3, <2>4
<1>2. QED
  BY <1>1, Invariance, PTL

(* ireaderwriter.h:42 and copier.cpp, close(): success means that every    *)
(* destination holds everything, although the last writes took place in    *)
(* the background.                                                         *)
THEOREM SuccessIsComplete == Spec => []CloseReportsFailure
<1>1. Inv => CloseReportsFailure
  <2> SUFFICES ASSUME Inv, place = "shut", ~copier_failed, sessions > 0,
                      NEW w \in Writers
               PROVE  Len(written[w]) = chunks
    BY DEF CloseReportsFailure
  <2>1. PICK i \in Positions : Order[i] = w
    BY OrderFacts
  <2>2. QED
    BY <2>1 DEF Inv, DataInv, ReportOK
<1>2. QED
  BY <1>1, Invariance, PTL

(* asyncwriter.h:31-33 and copier.cpp:123: a buffer is filled only when no *)
(* thread uses it, but for the read that follows a refused one.            *)
LEMMA FilledStep ==
  ASSUME Inv, [Next]_vars, content' # content, NEW w \in Writers,
         InUse(w, given')
  PROVE  /\ place = "refused" /\ given' = given
         /\ \E r \in Writers : rejected[r] > 0 /\ Position(w) < Position(r)
<1>1. PICK b \in {current, Mine} :
        /\ Give(b)
        /\ \/ place = "ready" /\ b \in {current, Mine} \ {given}
           \/ place = "refused" /\ b = current
  <2>1. ReadChunk \/ PutChunk
    BY DEF Next, CallStep, ThreadStep, vars, OpenSource, OpenSourceFails,
           OpenDest, OpenOk, OpenDestFails, OpenChildFails, OpenThreadFails,
           UndoTell, CloseTellThread, UndoJoin, CloseJoin, ReadFails, PutDest,
           PutAccepted, PutDestRefused, PutRefused, CloseCall, CloseDest,
           JoinDest, CloseSource, ThreadStart, ThreadWrite, ThreadWriteFails,
           ThreadRelease, ThreadTest
  <2>2. place = "ready" => current # given
    BY DEF Inv, DataInv
  <2>3. QED
    BY <2>1, <2>2 DEF ReadChunk, PutChunk, CanGoOn
<1>2. given' = b
  BY <1>1 DEF Give
<1>3. PICK i \in Positions : Order[i] = w
  BY OrderFacts
<1>4. Busy(w) /\ buffer[w] = b
  BY <1>2 DEF Busy, InUse
<1>5. place = "refused" /\ b = given /\ CutAfter(i, Taken(w))
  BY <1>1, <1>3, <1>4, GiveInv DEF Inv
<1>6. PICK j \in Positions : i < j /\ rejected[Order[j]] \in 1 .. Taken(w)
  BY <1>5 DEF CutAfter
<1>7. Position(w) = i /\ Position(Order[j]) = j /\ Order[j] \in Writers
  BY <1>3, PositionIs, OrderFacts
<1>8. rejected[Order[j]] > 0
  BY <1>6, <1>7, Types DEF Inv
<1>9. QED
  BY <1>2, <1>5, <1>6, <1>7, <1>8

(* copier.cpp, read() and put(), asyncwriter.h:31-33: two buffers are      *)
(* enough for any number of destinations, as put() waits for each of them; *)
(* only a caller that reads on after a refusal fills one in use.           *)
THEOREM FillsFreeBuffers == Spec => FilledIsFree
<1>1. Inv /\ [Next]_vars =>
        (content' # content =>
           \A w \in Writers :
             InUse(w, given') =>
               /\ place = "refused" /\ given' = given
               /\ \E r \in Writers :
                    rejected[r] > 0 /\ Position(w) < Position(r))
  BY FilledStep
<1>2. QED
  BY <1>1, Invariance, PTL DEF Spec, FilledIsFree

=============================================================================
