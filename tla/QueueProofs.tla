----------------------------- MODULE QueueProofs -----------------------------
(***************************************************************************)
(* Proofs about Queue, for every capacity, every set of threads and every  *)
(* number of calls: its type, and what its safety properties rest on.      *)
(***************************************************************************)
EXTENDS Queue, SequenceTheorems, TLAPS

(* A place where a thread of t's kind may be. *)
PlaceOf(t, place) ==
  /\ place \in Places
  /\ t \in Pushers => place \in PushPlaces
  /\ t \in Poppers => place \in PopPlaces
  /\ t \in Waiters => place \in WaitPlaces
  /\ t \in Signalers => place \in SignalPlaces
  /\ t = Owner => place \in OwnerPlaces

-----------------------------------------------------------------------------
(* Moving one thread to a place of its kind keeps every thread inside the  *)
(* operations it calls.                                                    *)
LEMMA GotoType ==
  ASSUME NEW t \in Threads, NEW place, PlaceOf(t, place),
         pc \in [Threads -> Places], PlacesOK,
         Goto(t, place)
  PROVE  pc' \in [Threads -> Places] /\ PlacesOK'
<1>1. pc' \in [Threads -> Places]
  BY DEF Goto, PlaceOf
<1>2. \A u \in Threads : pc'[u] = IF u = t THEN place ELSE pc[u]
  BY DEF Goto
<1>3. QED
  BY <1>1, <1>2 DEF PlacesOK, PlaceOf, Threads

(* So does a broadcast: a sleeper stays in the operation it sleeps in.     *)
LEMMA WakeType ==
  ASSUME NEW t \in Threads, NEW place, PlaceOf(t, place),
         NEW sleepers \in SUBSET Asleep,
         pc \in [Threads -> Places], PlacesOK,
         WakeAll(sleepers, t, place)
  PROVE  pc' \in [Threads -> Places] /\ PlacesOK'
<1>1. \A p \in Asleep : Reenter(p) \in Places
  BY DEF Asleep, Reenter, Places, PushPlaces, PopPlaces, WaitPlaces
<1>2. pc' \in [Threads -> Places]
  BY <1>1 DEF WakeAll, PlaceOf
<1>3. \A u \in Threads :
        \/ u = t /\ pc'[u] = place
        \/ u # t /\ pc'[u] = pc[u]
        \/ u # t /\ pc[u] = "push_asleep" /\ pc'[u] = "push_enter"
        \/ u # t /\ pc[u] = "pop_asleep" /\ pc'[u] = "pop_enter"
        \/ u # t /\ pc[u] = "wait_asleep" /\ pc'[u] = "wait_enter"
  BY DEF WakeAll, Asleep, Reenter
<1>4. QED
  BY <1>2, <1>3 DEF PlacesOK, PlaceOf, Threads, PushPlaces, PopPlaces,
                    WaitPlaces, SignalPlaces, OwnerPlaces

-----------------------------------------------------------------------------
(* Every variable keeps its type through every step. The steps are split   *)
(* as in Next; in each, GotoType or WakeType gives the program counters.   *)
LEMMA TypeStep ==
  ASSUME TypeOK, [Next]_vars
  PROVE  TypeOK'
<1> USE MaxSizeAssumption, BoundsAssumption, FlagsAssumption, ThreadsAssumption
<1> USE DEF TypeOK, ring, flags, bounds, history, Slots
<1> DEFINE Moved == pc' \in [Threads -> Places] /\ PlacesOK'
<1>a. Pushers \subseteq Threads /\ Poppers \subseteq Threads
      /\ Waiters \subseteq Threads /\ Signalers \subseteq Threads
      /\ Owner \in Threads
  BY DEF Threads
<1>b. After(reader) \in Slots /\ After(writer) \in Slots
  BY DEF After
<1>1. ASSUME Open PROVE TypeOK'
  <2>1. PlaceOf(Owner, "open_signal")
    BY <1>a DEF OwnerPlaces, Places, PlaceOf
  <2>2. Goto(Owner, "open_signal")
    BY <1>1 DEF Open
  <2>3. Moved
    BY <2>1, <2>2, <1>a, GotoType
  <2>4. reopened' \in [Pushers -> BOOLEAN]
    BY <1>1, Zenon DEF Open
  <2>5. is_open' \in BOOLEAN
    BY <1>1, Zenon DEF Open
  <2>6. reader' \in Slots /\ writer' \in Slots /\ opens' \in Nat
    BY <1>1 DEF Open
  <2>7. UNCHANGED <<objects, size, signal, urgent_close, queue_lock, item, rc,
                    sent, signals, spurious, pushed, popped, stored>>
    BY <1>1 DEF Open
  <2>8. QED
    BY <2>3, <2>4, <2>5, <2>6, <2>7
<1>o. ASSUME OpenSignal PROVE TypeOK'
  <2>1. pc' \in [Threads -> Places]
    BY <1>o DEF OpenSignal, Places, PopPlaces
  <2>2. \A u \in Threads :
          pc'[u] = IF u \in Poppers \cup {Owner} THEN "idle" ELSE pc[u]
    BY <1>o DEF OpenSignal
  <2>3. PlacesOK'
    BY <2>2, <1>a DEF PlacesOK, PopPlaces, OwnerPlaces
  <2>4. signal' \in BOOLEAN
    BY <1>o, Zenon DEF OpenSignal
  <2>5. QED
    BY <1>o, <2>1, <2>3, <2>4 DEF OpenSignal
<1>2. ASSUME CloseShut PROVE TypeOK'
  <2>1. PlaceOf(Owner, "close_urgent")
    BY <1>2, <1>a DEF PushPlaces, PopPlaces, WaitPlaces, SignalPlaces,
       OwnerPlaces, Places, PlaceOf
  <2>2. Goto(Owner, "close_urgent")
    BY <1>2 DEF CloseShut
  <2>3. Moved
    BY <2>1, <2>2, <1>a, GotoType
  <2>4. QED
    BY <1>2, <2>3, <1>a DEF CloseShut
<1>3. ASSUME NEW urgent \in BOOLEAN, CloseUrgency(urgent) PROVE TypeOK'
  <2>1. PlaceOf(Owner, "close_wake")
    BY <1>3, <1>a DEF PushPlaces, PopPlaces, WaitPlaces, SignalPlaces,
       OwnerPlaces, Places, PlaceOf
  <2>2. Goto(Owner, "close_wake")
    BY <1>3 DEF CloseUrgency
  <2>3. Moved
    BY <2>1, <2>2, <1>a, GotoType
  <2>4. QED
    BY <1>3, <2>3, <1>a DEF CloseUrgency
<1>4. ASSUME CloseWake PROVE TypeOK'
  <2>1. PlaceOf(Owner, "idle")
    BY <1>4, <1>a DEF PushPlaces, PopPlaces, WaitPlaces, SignalPlaces,
       OwnerPlaces, Places, PlaceOf
  <2>2. WakeAll({"pop_asleep"}, Owner, "idle")
    BY <1>4 DEF CloseWake, WakePoppers
  <2>3. Moved
    BY <2>1, <2>2, <1>a, WakeType DEF Asleep
  <2>4. QED
    BY <1>4, <2>3, <1>a DEF CloseWake
<1>5. ASSUME NEW t \in Signalers, SignalTest(t) PROVE TypeOK'
  <2>1. PlaceOf(t, "signal_set")
    BY <1>5, <1>a DEF PushPlaces, PopPlaces, WaitPlaces, SignalPlaces,
       OwnerPlaces, Places, PlaceOf
  <2>2. Goto(t, "signal_set")
    BY <1>5 DEF SignalTest
  <2>3. Moved
    BY <2>1, <2>2, <1>a, GotoType
  <2>4. QED
    BY <1>5, <2>3, <1>a DEF SignalTest
<1>6. ASSUME NEW t \in Signalers, SignalSet(t) PROVE TypeOK'
  <2>1. PlaceOf(t, "signal_wake")
    BY <1>6, <1>a DEF PushPlaces, PopPlaces, WaitPlaces, SignalPlaces,
       OwnerPlaces, Places, PlaceOf
  <2>2. Goto(t, "signal_wake")
    BY <1>6 DEF SignalSet
  <2>3. Moved
    BY <2>1, <2>2, <1>a, GotoType
  <2>4. QED
    BY <1>6, <2>3, <1>a DEF SignalSet
<1>7. ASSUME NEW t \in Signalers, SignalWake(t) PROVE TypeOK'
  <2>1. PlaceOf(t, "idle")
    BY <1>7, <1>a DEF PushPlaces, PopPlaces, WaitPlaces, SignalPlaces,
       OwnerPlaces, Places, PlaceOf
  <2>2. WakeAll({"pop_asleep"}, t, "idle")
    BY <1>7 DEF SignalWake, WakePoppers
  <2>3. Moved
    BY <2>1, <2>2, <1>a, WakeType DEF Asleep
  <2>4. QED
    BY <1>7, <2>3, <1>a DEF SignalWake
<1>8. ASSUME NEW t \in Pushers, PushCall(t) PROVE TypeOK'
  <2>1. PlaceOf(t, "push_enter")
    BY <1>8, <1>a DEF PushPlaces, PopPlaces, WaitPlaces, SignalPlaces,
       OwnerPlaces, Places, PlaceOf
  <2>2. Goto(t, "push_enter")
    BY <1>8 DEF PushCall
  <2>3. Moved
    BY <2>1, <2>2, <1>a, GotoType
  <2>4. QED
    BY <1>8, <2>3, <1>a DEF PushCall
<1>9. ASSUME NEW t \in Pushers, PushTest(t) PROVE TypeOK'
  <2> DEFINE place == IF size = MaxSize /\ is_open THEN "push_blocked" ELSE "push_store"
  <2>1. PlaceOf(t, place)
    BY <1>9, <1>a DEF PushPlaces, PopPlaces, WaitPlaces, SignalPlaces,
       OwnerPlaces, Places, PlaceOf
  <2>2. Goto(t, place)
    BY <1>9 DEF PushTest
  <2> HIDE DEF place
  <2>3. Moved
    BY <2>1, <2>2, <1>a, GotoType
  <2>4. QED
    BY <1>9, <2>3, <1>a DEF PushTest, Acquire
<1>10. ASSUME NEW t \in Pushers, PushSleep(t) PROVE TypeOK'
  <2>1. PlaceOf(t, "push_asleep")
    BY <1>10, <1>a DEF PushPlaces, PopPlaces, WaitPlaces, SignalPlaces,
       OwnerPlaces, Places, PlaceOf
  <2>2. Goto(t, "push_asleep")
    BY <1>10 DEF PushSleep
  <2>3. Moved
    BY <2>1, <2>2, <1>a, GotoType
  <2>4. QED
    BY <1>10, <2>3, <1>a DEF PushSleep, Release
<1>11. ASSUME NEW t \in Pushers, PushStore(t) PROVE TypeOK'
  <2>1. PlaceOf(t, "push_rc")
    BY <1>11, <1>a DEF PushPlaces, PopPlaces, WaitPlaces, SignalPlaces,
       OwnerPlaces, Places, PlaceOf
  <2>2. WakeAll({"pop_asleep"}, t, "push_rc")
    BY <1>11 DEF PushStore, WakePoppers
  <2>3. Moved
    BY <2>1, <2>2, <1>a, WakeType DEF Asleep
  <2>4. objects' \in [Slots -> Nat] /\ stored' \in [Pushers -> BOOLEAN]
    BY <1>11 DEF PushStore
  <2>5. pushed' \in Seq(Nat)
    BY <1>11 DEF PushStore
  <2>6. reader' \in Slots /\ size' \in Nat /\ queue_lock' \in Threads \cup {Nobody}
    BY <1>11, <1>b DEF PushStore, Release
  <2>7. UNCHANGED <<writer, is_open, signal, urgent_close, item, rc, sent, signals,
                    opens, spurious, popped, reopened>>
    BY <1>11 DEF PushStore
  <2>8. QED
    BY <2>3, <2>4, <2>5, <2>6, <2>7
<1>12. ASSUME NEW t \in Pushers, PushRefused(t) PROVE TypeOK'
  <2>1. PlaceOf(t, "push_rc")
    BY <1>12, <1>a DEF PushPlaces, PopPlaces, WaitPlaces, SignalPlaces,
       OwnerPlaces, Places, PlaceOf
  <2>2. Goto(t, "push_rc")
    BY <1>12 DEF PushRefused
  <2>3. Moved
    BY <2>1, <2>2, <1>a, GotoType
  <2>4. QED
    BY <1>12, <2>3, <1>a DEF PushRefused, Release
<1>13. ASSUME NEW t \in Pushers, PushReturn(t) PROVE TypeOK'
  <2>1. PlaceOf(t, "idle")
    BY <1>13, <1>a DEF PushPlaces, PopPlaces, WaitPlaces, SignalPlaces,
       OwnerPlaces, Places, PlaceOf
  <2>2. Goto(t, "idle")
    BY <1>13 DEF PushReturn
  <2>3. Moved
    BY <2>1, <2>2, <1>a, GotoType
  <2>4. QED
    BY <1>13, <2>3, <1>a DEF PushReturn
<1>14. ASSUME NEW t \in Poppers, PopCall(t) PROVE TypeOK'
  <2>1. PlaceOf(t, "pop_enter")
    BY <1>14, <1>a DEF PushPlaces, PopPlaces, WaitPlaces, SignalPlaces,
       OwnerPlaces, Places, PlaceOf
  <2>2. Goto(t, "pop_enter")
    BY <1>14 DEF PopCall
  <2>3. Moved
    BY <2>1, <2>2, <1>a, GotoType
  <2>4. QED
    BY <1>14, <2>3, <1>a DEF PopCall
<1>15. ASSUME NEW t \in Poppers, PopTest(t) PROVE TypeOK'
  <2> DEFINE place == IF size = 0 /\ is_open /\ ~signal THEN "pop_blocked" ELSE "pop_take"
  <2>1. PlaceOf(t, place)
    BY <1>15, <1>a DEF PushPlaces, PopPlaces, WaitPlaces, SignalPlaces,
       OwnerPlaces, Places, PlaceOf
  <2>2. Goto(t, place)
    BY <1>15 DEF PopTest
  <2> HIDE DEF place
  <2>3. Moved
    BY <2>1, <2>2, <1>a, GotoType
  <2>4. QED
    BY <1>15, <2>3, <1>a DEF PopTest, Acquire
<1>16. ASSUME NEW t \in Poppers, PopSleep(t) PROVE TypeOK'
  <2>1. PlaceOf(t, "pop_asleep")
    BY <1>16, <1>a DEF PushPlaces, PopPlaces, WaitPlaces, SignalPlaces,
       OwnerPlaces, Places, PlaceOf
  <2>2. Goto(t, "pop_asleep")
    BY <1>16 DEF PopSleep
  <2>3. Moved
    BY <2>1, <2>2, <1>a, GotoType
  <2>4. QED
    BY <1>16, <2>3, <1>a DEF PopSleep, Release
<1>17. ASSUME NEW t \in Poppers, PopSignal(t) PROVE TypeOK'
  <2>1. PlaceOf(t, "idle")
    BY <1>17, <1>a DEF PushPlaces, PopPlaces, WaitPlaces, SignalPlaces,
       OwnerPlaces, Places, PlaceOf
  <2>2. Goto(t, "idle")
    BY <1>17 DEF PopSignal
  <2>3. Moved
    BY <2>1, <2>2, <1>a, GotoType
  <2>4. QED
    BY <1>17, <2>3, <1>a DEF PopSignal, Release
<1>18. ASSUME NEW t \in Poppers, PopObject(t) PROVE TypeOK'
  <2>1. PlaceOf(t, "idle")
    BY <1>18, <1>a DEF PushPlaces, PopPlaces, WaitPlaces, SignalPlaces,
       OwnerPlaces, Places, PlaceOf
  <2>2. WakeAll({"push_asleep", "wait_asleep"}, t, "idle")
    BY <1>18 DEF PopObject, WakePushers
  <2>3. Moved
    BY <2>1, <2>2, <1>a, WakeType DEF Asleep
  <2>4. writer' \in Slots /\ queue_lock' \in Threads \cup {Nobody}
    BY <1>18, <1>b DEF PopObject, Release
  <2>5. size' \in Nat
    BY <1>18 DEF PopObject
  <2>6. popped' \in Seq(Nat)
    BY <1>18 DEF PopObject
  <2>7. UNCHANGED <<objects, reader, is_open, signal, urgent_close, item, rc, sent,
                    signals, opens, spurious, pushed, stored, reopened>>
    BY <1>18 DEF PopObject
  <2>8. QED
    BY <2>3, <2>4, <2>5, <2>6, <2>7
<1>19. ASSUME NEW t \in Poppers, PopEnd(t) PROVE TypeOK'
  <2>1. PlaceOf(t, "done")
    BY <1>19, <1>a DEF PushPlaces, PopPlaces, WaitPlaces, SignalPlaces,
       OwnerPlaces, Places, PlaceOf
  <2>2. Goto(t, "done") \/ WakeAll({"push_asleep", "wait_asleep"}, t, "done")
    BY <1>19 DEF PopEnd, WakePushers
  <2>3. Moved
    BY <2>1, <2>2, <1>a, GotoType, WakeType DEF Asleep
  <2>4. QED
    BY <1>19, <2>3, <1>a DEF PopEnd, Release
<1>20. ASSUME NEW t \in Waiters, WaitCall(t) PROVE TypeOK'
  <2>1. PlaceOf(t, "wait_enter")
    BY <1>20, <1>a DEF PushPlaces, PopPlaces, WaitPlaces, SignalPlaces,
       OwnerPlaces, Places, PlaceOf
  <2>2. Goto(t, "wait_enter")
    BY <1>20 DEF WaitCall
  <2>3. Moved
    BY <2>1, <2>2, <1>a, GotoType
  <2>4. QED
    BY <1>20, <2>3, <1>a DEF WaitCall
<1>21. ASSUME NEW t \in Waiters, WaitTest(t) PROVE TypeOK'
  <2> DEFINE place == IF size > 0 THEN "wait_asleep" ELSE "idle"
  <2>1. PlaceOf(t, place)
    BY <1>21, <1>a DEF PushPlaces, PopPlaces, WaitPlaces, SignalPlaces,
       OwnerPlaces, Places, PlaceOf
  <2>2. Goto(t, place)
    BY <1>21 DEF WaitTest
  <2> HIDE DEF place
  <2>3. Moved
    BY <2>1, <2>2, <1>a, GotoType
  <2>4. QED
    BY <1>21, <2>3, <1>a DEF WaitTest
<1>22. ASSUME NEW t \in Threads, SpuriousWake(t) PROVE TypeOK'
  <2> DEFINE place == Reenter(pc[t])
  <2>1. PlaceOf(t, place)
    BY <1>22, <1>a DEF SpuriousWake, PlacesOK, Asleep, Reenter, Threads,
       PushPlaces, PopPlaces, WaitPlaces, SignalPlaces,
       OwnerPlaces, Places, PlaceOf
  <2>2. Goto(t, place)
    BY <1>22 DEF SpuriousWake
  <2> HIDE DEF place
  <2>3. Moved
    BY <2>1, <2>2, <1>a, GotoType
  <2>4. QED
    BY <1>22, <2>3, <1>a DEF SpuriousWake
<1>23. CASE UNCHANGED vars
  BY <1>23 DEF vars, PlacesOK
<1>24. QED
  BY <1>1, <1>o, <1>2, <1>3, <1>4, <1>5, <1>6, <1>7, <1>8, <1>9, <1>10, <1>11,
     <1>12, <1>13, <1>14, <1>15, <1>16, <1>17, <1>18, <1>19, <1>20, <1>21,
     <1>22, <1>23
  DEF Next, OwnerStep, SignalStep, PushStep, PopStep

LEMMA InitType == Init => TypeOK
<1> SUFFICES ASSUME Init PROVE TypeOK
  OBVIOUS
<1>1. pc \in [Threads -> Places] /\ PlacesOK
  BY ThreadsAssumption
  DEF Init, PlacesOK, Places, Threads, PushPlaces, PopPlaces, WaitPlaces,
      SignalPlaces, OwnerPlaces
<1>2. stored \in [Pushers -> BOOLEAN] /\ reopened \in [Pushers -> BOOLEAN]
  BY Zenon DEF Init
<1>3. 0 \in Slots
  BY MaxSizeAssumption DEF Slots
<1>4. urgent_close \in BOOLEAN
  BY FlagsAssumption DEF Init
<1>5. QED
  BY <1>1, <1>2, <1>3, <1>4 DEF Init, TypeOK

(* Every variable has its type in every reachable state. *)
THEOREM TypeCorrect == Spec => []TypeOK
BY InitType, TypeStep, PTL DEF Spec

-----------------------------------------------------------------------------
(* What RoomToStore and Fifo need to be inductive.                         *)

(* Only the holder of queue_lock is where the lock is needed. *)
LockInv == \A t \in Threads : pc[t] \in LockedPlaces => queue_lock = t

(* The ring is not over-full, and the next object goes after the youngest. *)
RingInv == size <= MaxSize /\ reader = Slot(size)

IInv == TypeOK /\ LockInv /\ RingInv /\ RoomToStore /\ Fifo

(* The effect of Goto and of a broadcast on the other threads: they stay,  *)
(* or leave a condition for the entrance of their operation.               *)
Moves(t, place) ==
  \A u \in Threads :
    \/ u = t /\ pc'[u] = place
    \/ u # t /\ pc'[u] = pc[u]
    \/ u # t /\ pc'[u] \in {"push_enter", "pop_enter", "wait_enter"}

LEMMA GotoMoves ==
  ASSUME NEW t \in Threads, NEW place, pc \in [Threads -> Places],
         Goto(t, place)
  PROVE  Moves(t, place)
BY DEF Goto, Moves

LEMMA WakeMoves ==
  ASSUME NEW t \in Threads, NEW place, NEW sleepers \in SUBSET Asleep,
         WakeAll(sleepers, t, place)
  PROVE  Moves(t, place)
BY DEF WakeAll, Moves, Asleep, Reenter

-----------------------------------------------------------------------------
(* The slots of the ring: those of the objects it holds differ from each   *)
(* other and from the next one to fill, and After goes from one to the     *)
(* next, whether or not the ring wraps around in between.                  *)
LEMMA SlotsDiffer ==
  ASSUME NEW i \in 0 .. MaxSize - 1, NEW j \in 0 .. MaxSize - 1, i # j,
         writer \in Slots
  PROVE  Slot(i) \in Slots /\ Slot(i) # Slot(j)
BY MaxSizeAssumption DEF Slot, Slots

LEMMA SlotAfter ==
  ASSUME NEW i \in 0 .. MaxSize - 1, writer \in Slots
  PROVE  After(Slot(i)) = Slot(i + 1)
BY MaxSizeAssumption DEF Slot, Slots, After

LEMMA SlotShift ==
  ASSUME NEW i \in 0 .. MaxSize - 1, writer \in Slots, writer' = After(writer)
  PROVE  Slot(i)' = Slot(i + 1)
BY MaxSizeAssumption DEF Slot, Slots, After

-----------------------------------------------------------------------------
(* push() keeps the ring in order: it stores behind the youngest object,   *)
(* where no object is.                                                     *)
LEMMA StoreKeepsOrder ==
  ASSUME IInv, NEW t \in Pushers, PushStore(t)
  PROVE  RingInv' /\ Fifo'
<1> USE MaxSizeAssumption DEF IInv
<1>1. /\ size < MaxSize
      /\ size \in 0 .. MaxSize - 1
      /\ writer' = writer /\ size' = size + 1 /\ popped' = popped
      /\ reader' = After(reader)
      /\ objects' = [objects EXCEPT ![Slot(size)] = item[t]]
      /\ pushed' = Append(pushed, item[t])
  BY DEF PushStore, RoomToStore, TypeOK, RingInv
<1>2. item[t] \in Nat /\ pushed \in Seq(Nat) /\ popped \in Seq(Nat)
      /\ size \in Nat /\ writer \in Slots /\ objects \in [Slots -> Nat]
      /\ Len(pushed) \in Nat /\ Len(popped) \in Nat
  BY DEF TypeOK
<1>3. \A i \in Int : Slot(i)' = Slot(i)
  BY <1>1 DEF Slot
<1>4. RingInv'
  BY <1>1, <1>2, <1>3, SlotAfter DEF RingInv
<1>5. /\ Len(pushed') = Len(pushed) + 1
      /\ \A i \in 1 .. Len(pushed) : pushed'[i] = pushed[i]
      /\ pushed'[Len(pushed) + 1] = item[t]
  BY <1>1, <1>2
<1>6. Len(pushed') = Len(popped) + size'
  BY <1>1, <1>2, <1>5 DEF Fifo
<1>7. \A i \in 1 .. Len(popped') : popped'[i] = pushed'[i]
  BY <1>1, <1>2, <1>5 DEF Fifo
<1>8. ASSUME NEW i \in 1 .. size + 1
      PROVE  objects'[Slot(i - 1)] = pushed'[Len(popped) + i]
  <2>1. CASE i <= size
    <3>1. i \in 1 .. size /\ i - 1 \in 0 .. MaxSize - 1 /\ i - 1 # size
      BY <2>1, <1>1, <1>2
    <3>2. Slot(i - 1) \in Slots /\ Slot(i - 1) # Slot(size)
      BY <3>1, <1>1, <1>2, SlotsDiffer
    <3>3. objects'[Slot(i - 1)] = objects[Slot(i - 1)]
      BY <3>2, <1>1, <1>2
    <3>4. Len(popped) + i \in 1 .. Len(pushed)
      BY <3>1, <1>2 DEF Fifo
    <3>5. objects[Slot(i - 1)] = pushed[Len(popped) + i]
      BY <3>1 DEF Fifo
    <3>6. QED
      BY <3>3, <3>4, <3>5, <1>5
  <2>2. CASE i = size + 1
    <3>1. Slot(size) \in Slots
      BY <1>1, <1>2 DEF Slot, Slots
    <3>2. objects'[Slot(size)] = item[t]
      BY <3>1, <1>1, <1>2
    <3>3. Len(popped) + i = Len(pushed) + 1
      BY <2>2, <1>2 DEF Fifo
    <3>4. i - 1 = size
      BY <2>2, <1>2
    <3>5. QED
      BY <3>2, <3>3, <3>4, <1>5
  <2>3. QED
    BY <2>1, <2>2, <1>2
<1>9. QED
  BY <1>1, <1>4, <1>6, <1>7, <1>8 DEF Fifo, Slot

(* pop() takes the oldest object and leaves the others in order. *)
LEMMA TakeKeepsOrder ==
  ASSUME IInv, NEW t \in Poppers, PopObject(t)
  PROVE  RingInv' /\ Fifo'
<1> USE MaxSizeAssumption DEF IInv
<1>1. /\ size > 0 /\ size <= MaxSize
      /\ writer' = After(writer) /\ size' = size - 1
      /\ UNCHANGED <<objects, reader, pushed>>
      /\ popped' = Append(popped, objects[writer])
      /\ reader = Slot(size)
  BY DEF PopObject, RingInv
<1>2. pushed \in Seq(Nat) /\ popped \in Seq(Nat) /\ size \in Nat
      /\ writer \in Slots /\ objects \in [Slots -> Nat]
      /\ objects[writer] \in Nat
      /\ Len(pushed) \in Nat /\ Len(popped) \in Nat
  BY DEF TypeOK
<1>3. \A i \in 0 .. MaxSize - 1 : Slot(i)' = Slot(i + 1)
  BY <1>1, <1>2, SlotShift
<1>4. RingInv'
  BY <1>1, <1>2, <1>3 DEF RingInv
<1>5. /\ Len(popped') = Len(popped) + 1
      /\ \A i \in 1 .. Len(popped) : popped'[i] = popped[i]
      /\ popped'[Len(popped) + 1] = objects[writer]
  BY <1>1, <1>2
<1>6. Slot(0) = writer
  BY <1>2 DEF Slot, Slots
<1>7. objects[writer] = pushed[Len(popped) + 1]
  BY <1>1, <1>2, <1>6 DEF Fifo
<1>8. Len(pushed) = Len(popped') + size'
  BY <1>1, <1>2, <1>5 DEF Fifo
<1>9. ASSUME NEW i \in 1 .. Len(popped) + 1 PROVE popped'[i] = pushed[i]
  <2>1. CASE i = Len(popped) + 1
    BY <2>1, <1>5, <1>7
  <2>2. CASE i \in 1 .. Len(popped)
    BY <2>2, <1>5 DEF Fifo
  <2>3. QED
    BY <2>1, <2>2, <1>2
<1>10. ASSUME NEW i \in 1 .. size' PROVE objects'[Slot(i - 1)'] = pushed'[Len(popped') + i]
  <2>1. i - 1 \in 0 .. MaxSize - 1 /\ i + 1 \in 1 .. size
    BY <1>1, <1>2
  <2>2. Slot(i - 1)' = Slot((i + 1) - 1)
    BY <2>1, <1>3
  <2>3. objects[Slot((i + 1) - 1)] = pushed[Len(popped) + (i + 1)]
    BY <2>1 DEF Fifo
  <2>4. Len(popped) + (i + 1) = Len(popped') + i
    BY <1>5, <1>2, <2>1
  <2>5. QED
    BY <2>2, <2>3, <2>4, <1>1
<1>11. QED
  BY <1>1, <1>4, <1>5, <1>8, <1>9, <1>10 DEF Fifo

(* open() rewinds the two ends of an empty ring. *)
LEMMA OpenKeepsOrder ==
  ASSUME IInv, ~LeftoverReopen, Open
  PROVE  RingInv' /\ Fifo'
<1>1. reader' = 0 /\ writer' = 0 /\ size = 0 /\ size' = 0
      /\ UNCHANGED <<objects, pushed, popped>>
  BY DEF Open
<1>2. Len(popped) \in Nat
  BY DEF IInv, TypeOK
<1>3. QED
  BY <1>1, <1>2, MaxSizeAssumption DEF IInv, RingInv, Fifo, Slot

-----------------------------------------------------------------------------
(* The lock: whoever takes it finds nobody where it is needed, and whoever *)
(* gives it back leaves such a place.                                      *)
LEMMA LockTaken ==
  ASSUME LockInv, NEW t \in Threads, NEW place, Moves(t, place), Acquire(t)
  PROVE  LockInv'
BY ThreadsAssumption DEF LockInv, Moves, Acquire, LockedPlaces

LEMMA LockGiven ==
  ASSUME LockInv, NEW t \in Threads, NEW place, Moves(t, place), Release(t),
         place \notin LockedPlaces
  PROVE  LockInv'
BY DEF LockInv, Moves, Release, LockedPlaces

LEMMA LockKept ==
  ASSUME LockInv, NEW t \in Threads, NEW place, Moves(t, place),
         queue_lock' = queue_lock, place \notin LockedPlaces
  PROVE  LockInv'
BY DEF LockInv, Moves, LockedPlaces

(* The other threads are away from the places where t's lock is needed. *)
LEMMA HolderAlone ==
  ASSUME LockInv, NEW t \in Threads, queue_lock = t,
         NEW u \in Threads, u # t
  PROVE  pc[u] \notin LockedPlaces
BY DEF LockInv

(* A step that leaves the ring alone, opens nothing and sends nobody to    *)
(* store keeps the ring in order and the room to store in.                 *)
LEMMA RingKept ==
  ASSUME RingInv, RoomToStore, Fifo, NEW t \in Threads, NEW place,
         Moves(t, place), place # "push_store", is_open' => is_open,
         UNCHANGED <<ring, pushed, popped>>
  PROVE  RingInv' /\ RoomToStore' /\ Fifo'
<1>1. RoomToStore'
  BY DEF RoomToStore, Moves, ring, Threads
<1>2. QED
  BY <1>1 DEF RingInv, Fifo, Slot, ring

(* Every step keeps the lock exclusive, the ring in order and room for the *)
(* thread about to store, if open() is only called on an empty queue.      *)
LEMMA InvariantStep ==
  ASSUME IInv, ~LeftoverReopen, [Next]_vars
  PROVE  LockInv' /\ RingInv' /\ RoomToStore' /\ Fifo'
<1> DEFINE Kept == LockInv /\ RingInv /\ RoomToStore /\ Fifo
<1> SUFFICES Kept'
  OBVIOUS
<1>a. TypeOK /\ LockInv /\ RingInv /\ RoomToStore /\ Fifo
      /\ pc \in [Threads -> Places]
  BY DEF IInv, TypeOK
<1>b. /\ Pushers \subseteq Threads /\ Poppers \subseteq Threads
      /\ Waiters \subseteq Threads /\ Signalers \subseteq Threads
      /\ Owner \in Threads
  BY DEF Threads
<1>1. ASSUME Open PROVE Kept'
  <2>1. RingInv' /\ Fifo'
    BY <1>1, OpenKeepsOrder
  <2>2. LockInv'
    BY <1>1, <1>a, <1>b, GotoMoves, LockKept DEF Open, LockedPlaces
  <2>3. RoomToStore'
    BY <1>1, MaxSizeAssumption DEF Open, RoomToStore
  <2>4. QED
    BY <2>1, <2>2, <2>3
<1>o. ASSUME OpenSignal PROVE Kept'
  <2>1. \A u \in Threads : pc'[u] = "idle" \/ pc'[u] = pc[u]
    BY <1>o DEF OpenSignal
  <2>2. LockInv'
    BY <1>o, <2>1, <1>a DEF OpenSignal, LockInv, LockedPlaces
  <2>3. RoomToStore'
    BY <1>o, <2>1, <1>a, <1>b DEF OpenSignal, RoomToStore, ring
  <2>4. RingInv' /\ Fifo'
    BY <1>o, <1>a DEF OpenSignal, RingInv, Fifo, Slot, ring, history
  <2>5. QED
    BY <2>2, <2>3, <2>4
<1>2. ASSUME CloseShut PROVE Kept'
  <2>1. Goto(Owner, "close_urgent")
    BY <1>2 DEF CloseShut
  <2>2. Moves(Owner, "close_urgent")
    BY <2>1, <1>a, <1>b, GotoMoves
  <2>3. LockInv'
    BY <1>2, <2>2, <1>a, <1>b, LockKept DEF CloseShut, LockedPlaces
  <2>4. RingInv' /\ RoomToStore' /\ Fifo'
    BY <1>2, <2>2, <1>a, <1>b, RingKept DEF CloseShut, flags, ring, history
  <2>5. QED
    BY <2>3, <2>4
<1>3. ASSUME NEW urgent \in BOOLEAN, CloseUrgency(urgent) PROVE Kept'
  <2>1. Goto(Owner, "close_wake")
    BY <1>3 DEF CloseUrgency
  <2>2. Moves(Owner, "close_wake")
    BY <2>1, <1>a, <1>b, GotoMoves
  <2>3. LockInv'
    BY <1>3, <2>2, <1>a, <1>b, LockKept DEF CloseUrgency, LockedPlaces
  <2>4. RingInv' /\ RoomToStore' /\ Fifo'
    BY <1>3, <2>2, <1>a, <1>b, RingKept DEF CloseUrgency, flags, ring, history
  <2>5. QED
    BY <2>3, <2>4
<1>4. ASSUME CloseWake PROVE Kept'
  <2>1. WakeAll({"pop_asleep"}, Owner, "idle")
    BY <1>4 DEF CloseWake, WakePoppers
  <2>2. Moves(Owner, "idle")
    BY <2>1, <1>b, WakeMoves DEF Asleep
  <2>3. LockInv'
    BY <1>4, <2>2, <1>a, <1>b, LockKept DEF CloseWake, LockedPlaces
  <2>4. RingInv' /\ RoomToStore' /\ Fifo'
    BY <1>4, <2>2, <1>a, <1>b, RingKept DEF CloseWake, flags, ring, history
  <2>5. QED
    BY <2>3, <2>4
<1>5. ASSUME NEW t \in Signalers, SignalTest(t) PROVE Kept'
  <2>1. Goto(t, "signal_set")
    BY <1>5 DEF SignalTest
  <2>2. Moves(t, "signal_set")
    BY <2>1, <1>a, <1>b, GotoMoves
  <2>3. LockInv'
    BY <1>5, <2>2, <1>a, <1>b, LockKept DEF SignalTest, LockedPlaces
  <2>4. RingInv' /\ RoomToStore' /\ Fifo'
    BY <1>5, <2>2, <1>a, <1>b, RingKept DEF SignalTest, flags, ring, history
  <2>5. QED
    BY <2>3, <2>4
<1>6. ASSUME NEW t \in Signalers, SignalSet(t) PROVE Kept'
  <2>1. Goto(t, "signal_wake")
    BY <1>6 DEF SignalSet
  <2>2. Moves(t, "signal_wake")
    BY <2>1, <1>a, <1>b, GotoMoves
  <2>3. LockInv'
    BY <1>6, <2>2, <1>a, <1>b, LockKept DEF SignalSet, LockedPlaces
  <2>4. RingInv' /\ RoomToStore' /\ Fifo'
    BY <1>6, <2>2, <1>a, <1>b, RingKept DEF SignalSet, flags, ring, history
  <2>5. QED
    BY <2>3, <2>4
<1>7. ASSUME NEW t \in Signalers, SignalWake(t) PROVE Kept'
  <2>1. WakeAll({"pop_asleep"}, t, "idle")
    BY <1>7 DEF SignalWake, WakePoppers
  <2>2. Moves(t, "idle")
    BY <2>1, <1>b, WakeMoves DEF Asleep
  <2>3. LockInv'
    BY <1>7, <2>2, <1>a, <1>b, LockKept DEF SignalWake, LockedPlaces
  <2>4. RingInv' /\ RoomToStore' /\ Fifo'
    BY <1>7, <2>2, <1>a, <1>b, RingKept DEF SignalWake, flags, ring, history
  <2>5. QED
    BY <2>3, <2>4
<1>8. ASSUME NEW t \in Pushers, PushCall(t) PROVE Kept'
  <2>1. Goto(t, "push_enter")
    BY <1>8 DEF PushCall
  <2>2. Moves(t, "push_enter")
    BY <2>1, <1>a, <1>b, GotoMoves
  <2>3. LockInv'
    BY <1>8, <2>2, <1>a, <1>b, LockKept DEF PushCall, LockedPlaces
  <2>4. RingInv' /\ RoomToStore' /\ Fifo'
    BY <1>8, <2>2, <1>a, <1>b, RingKept DEF PushCall, flags, ring, history
  <2>5. QED
    BY <2>3, <2>4
<1>9. ASSUME NEW t \in Pushers, PushTest(t) PROVE Kept'
  <2> DEFINE place == IF size = MaxSize /\ is_open THEN "push_blocked"
                      ELSE "push_store"
  <2>1. Goto(t, place) /\ Acquire(t) /\ UNCHANGED <<ring, flags, history>>
    BY <1>9 DEF PushTest
  <2>2. place = "push_store" => size # MaxSize \/ ~is_open
    OBVIOUS
  <2> HIDE DEF place
  <2>3. Moves(t, place)
    BY <2>1, <1>a, <1>b, GotoMoves
  <2>4. LockInv'
    BY <2>1, <2>3, <1>a, <1>b, LockTaken
  <2>5. size < MaxSize \/ size = MaxSize
    BY <1>a, MaxSizeAssumption DEF RingInv, TypeOK
  <2>6. RoomToStore'
    BY <2>1, <2>2, <2>3, <2>5, <1>a, <1>b DEF RoomToStore, Moves, ring, flags
  <2>7. RingInv' /\ Fifo'
    BY <2>1, <1>a DEF RingInv, Fifo, Slot, ring, history
  <2>8. QED
    BY <2>4, <2>6, <2>7
<1>10. ASSUME NEW t \in Pushers, PushSleep(t) PROVE Kept'
  <2>1. Goto(t, "push_asleep")
    BY <1>10 DEF PushSleep
  <2>2. Moves(t, "push_asleep")
    BY <2>1, <1>a, <1>b, GotoMoves
  <2>3. LockInv'
    BY <1>10, <2>2, <1>a, <1>b, LockGiven DEF PushSleep, LockedPlaces
  <2>4. RingInv' /\ RoomToStore' /\ Fifo'
    BY <1>10, <2>2, <1>a, <1>b, RingKept DEF PushSleep, flags, ring, history
  <2>5. QED
    BY <2>3, <2>4
<1>11. ASSUME NEW t \in Pushers, PushStore(t) PROVE Kept'
  <2>1. WakeAll({"pop_asleep"}, t, "push_rc")
    BY <1>11 DEF PushStore, WakePoppers
  <2>2. Moves(t, "push_rc")
    BY <2>1, <1>b, WakeMoves DEF Asleep
  <2>3. LockInv'
    BY <1>11, <2>2, <1>a, <1>b, LockGiven DEF PushStore, LockedPlaces
  <2>4. RingInv' /\ Fifo'
    BY <1>11, StoreKeepsOrder
  <2>5. \A u \in Pushers : pc'[u] # "push_store"
    <3>1. ASSUME NEW u \in Pushers, u # t PROVE pc[u] # "push_store"
      BY <3>1, <1>11, <1>a, <1>b, HolderAlone
      DEF PushStore, Release, LockedPlaces
    <3>2. QED
      BY <3>1, <2>2, <1>b DEF Moves
  <2>6. RoomToStore'
    BY <2>5 DEF RoomToStore
  <2>7. QED
    BY <2>3, <2>4, <2>6
<1>12. ASSUME NEW t \in Pushers, PushRefused(t) PROVE Kept'
  <2>1. Goto(t, "push_rc")
    BY <1>12 DEF PushRefused
  <2>2. Moves(t, "push_rc")
    BY <2>1, <1>a, <1>b, GotoMoves
  <2>3. LockInv'
    BY <1>12, <2>2, <1>a, <1>b, LockGiven DEF PushRefused, LockedPlaces
  <2>4. RingInv' /\ RoomToStore' /\ Fifo'
    BY <1>12, <2>2, <1>a, <1>b, RingKept DEF PushRefused, flags, ring, history
  <2>5. QED
    BY <2>3, <2>4
<1>13. ASSUME NEW t \in Pushers, PushReturn(t) PROVE Kept'
  <2>1. Goto(t, "idle")
    BY <1>13 DEF PushReturn
  <2>2. Moves(t, "idle")
    BY <2>1, <1>a, <1>b, GotoMoves
  <2>3. LockInv'
    BY <1>13, <2>2, <1>a, <1>b, LockKept DEF PushReturn, LockedPlaces
  <2>4. RingInv' /\ RoomToStore' /\ Fifo'
    BY <1>13, <2>2, <1>a, <1>b, RingKept DEF PushReturn, flags, ring, history
  <2>5. QED
    BY <2>3, <2>4
<1>14. ASSUME NEW t \in Poppers, PopCall(t) PROVE Kept'
  <2>1. Goto(t, "pop_enter")
    BY <1>14 DEF PopCall
  <2>2. Moves(t, "pop_enter")
    BY <2>1, <1>a, <1>b, GotoMoves
  <2>3. LockInv'
    BY <1>14, <2>2, <1>a, <1>b, LockKept DEF PopCall, LockedPlaces
  <2>4. RingInv' /\ RoomToStore' /\ Fifo'
    BY <1>14, <2>2, <1>a, <1>b, RingKept DEF PopCall, flags, ring, history
  <2>5. QED
    BY <2>3, <2>4
<1>15. ASSUME NEW t \in Poppers, PopTest(t) PROVE Kept'
  <2> DEFINE place == IF size = 0 /\ is_open /\ ~signal THEN "pop_blocked"
                      ELSE "pop_take"
  <2>1. Goto(t, place) /\ Acquire(t) /\ UNCHANGED <<ring, flags, history>>
    BY <1>15 DEF PopTest
  <2>2. place # "push_store"
    OBVIOUS
  <2> HIDE DEF place
  <2>3. Moves(t, place)
    BY <2>1, <1>a, <1>b, GotoMoves
  <2>4. LockInv'
    BY <2>1, <2>3, <1>a, <1>b, LockTaken
  <2>5. RingInv' /\ RoomToStore' /\ Fifo'
    BY <2>1, <2>2, <2>3, <1>a, <1>b, RingKept DEF flags, ring, history
  <2>6. QED
    BY <2>4, <2>5
<1>16. ASSUME NEW t \in Poppers, PopSleep(t) PROVE Kept'
  <2>1. Goto(t, "pop_asleep")
    BY <1>16 DEF PopSleep
  <2>2. Moves(t, "pop_asleep")
    BY <2>1, <1>a, <1>b, GotoMoves
  <2>3. LockInv'
    BY <1>16, <2>2, <1>a, <1>b, LockGiven DEF PopSleep, LockedPlaces
  <2>4. RingInv' /\ RoomToStore' /\ Fifo'
    BY <1>16, <2>2, <1>a, <1>b, RingKept DEF PopSleep, flags, ring, history
  <2>5. QED
    BY <2>3, <2>4
<1>17. ASSUME NEW t \in Poppers, PopSignal(t) PROVE Kept'
  <2>1. Goto(t, "idle")
    BY <1>17 DEF PopSignal
  <2>2. Moves(t, "idle")
    BY <2>1, <1>a, <1>b, GotoMoves
  <2>3. LockInv'
    BY <1>17, <2>2, <1>a, <1>b, LockGiven DEF PopSignal, LockedPlaces
  <2>4. RingInv' /\ RoomToStore' /\ Fifo'
    BY <1>17, <2>2, <1>a, <1>b, RingKept DEF PopSignal, flags, ring, history
  <2>5. QED
    BY <2>3, <2>4
<1>18. ASSUME NEW t \in Poppers, PopObject(t) PROVE Kept'
  <2>1. WakeAll({"push_asleep", "wait_asleep"}, t, "idle")
    BY <1>18 DEF PopObject, WakePushers
  <2>2. Moves(t, "idle")
    BY <2>1, <1>b, WakeMoves DEF Asleep
  <2>3. LockInv'
    BY <1>18, <2>2, <1>a, <1>b, LockGiven DEF PopObject, LockedPlaces
  <2>4. RingInv' /\ Fifo'
    BY <1>18, TakeKeepsOrder
  <2>5. size' < MaxSize
    BY <1>18, <1>a, MaxSizeAssumption DEF PopObject, TypeOK, RingInv
  <2>6. RoomToStore'
    BY <2>5 DEF RoomToStore
  <2>7. QED
    BY <2>3, <2>4, <2>6
<1>19. ASSUME NEW t \in Poppers, PopEnd(t) PROVE Kept'
  <2>1. \/ Goto(t, "done")
        \/ WakeAll({"push_asleep", "wait_asleep"}, t, "done")
    BY <1>19 DEF PopEnd, WakePushers
  <2>2. Moves(t, "done")
    BY <2>1, <1>a, <1>b, GotoMoves, WakeMoves DEF Asleep
  <2>3. LockInv'
    BY <1>19, <2>2, <1>a, <1>b, LockGiven DEF PopEnd, LockedPlaces
  <2>4. RingInv' /\ RoomToStore' /\ Fifo'
    BY <1>19, <2>2, <1>a, <1>b, RingKept DEF PopEnd, flags, ring, history
  <2>5. QED
    BY <2>3, <2>4
<1>20. ASSUME NEW t \in Waiters, WaitCall(t) PROVE Kept'
  <2>1. Goto(t, "wait_enter")
    BY <1>20 DEF WaitCall
  <2>2. Moves(t, "wait_enter")
    BY <2>1, <1>a, <1>b, GotoMoves
  <2>3. LockInv'
    BY <1>20, <2>2, <1>a, <1>b, LockKept DEF WaitCall, LockedPlaces
  <2>4. RingInv' /\ RoomToStore' /\ Fifo'
    BY <1>20, <2>2, <1>a, <1>b, RingKept DEF WaitCall, flags, ring, history
  <2>5. QED
    BY <2>3, <2>4
<1>21. ASSUME NEW t \in Waiters, WaitTest(t) PROVE Kept'
  <2> DEFINE place == IF size > 0 THEN "wait_asleep" ELSE "idle"
  <2>1. Goto(t, place) /\ UNCHANGED <<ring, flags, queue_lock, history>>
    BY <1>21 DEF WaitTest
  <2>2. place \notin LockedPlaces
    BY DEF LockedPlaces
  <2> HIDE DEF place
  <2>3. Moves(t, place)
    BY <2>1, <1>a, <1>b, GotoMoves
  <2>4. LockInv'
    BY <2>1, <2>2, <2>3, <1>a, <1>b, LockKept
  <2>5. RingInv' /\ RoomToStore' /\ Fifo'
    BY <2>1, <2>2, <2>3, <1>a, <1>b, RingKept
    DEF flags, ring, history, LockedPlaces
  <2>6. QED
    BY <2>4, <2>5
<1>22. ASSUME NEW t \in Threads, SpuriousWake(t) PROVE Kept'
  <2> DEFINE place == Reenter(pc[t])
  <2>1. Goto(t, place) /\ UNCHANGED <<ring, flags, queue_lock, history>>
    BY <1>22 DEF SpuriousWake
  <2>2. place \notin LockedPlaces
    BY DEF LockedPlaces, Reenter
  <2> HIDE DEF place
  <2>3. Moves(t, place)
    BY <2>1, <1>a, GotoMoves
  <2>4. LockInv'
    BY <2>1, <2>2, <2>3, <1>a, LockKept
  <2>5. RingInv' /\ RoomToStore' /\ Fifo'
    BY <2>1, <2>2, <2>3, <1>a, RingKept
    DEF flags, ring, history, LockedPlaces
  <2>6. QED
    BY <2>4, <2>5
<1>23. CASE UNCHANGED vars
  BY <1>23, <1>a
  DEF vars, ring, flags, history, LockInv, RingInv, RoomToStore, Fifo, Slot
<1>24. QED
  BY <1>1, <1>o, <1>2, <1>3, <1>4, <1>5, <1>6, <1>7, <1>8, <1>9, <1>10, <1>11,
     <1>12, <1>13, <1>14, <1>15, <1>16, <1>17, <1>18, <1>19, <1>20, <1>21,
     <1>22, <1>23
  DEF Next, OwnerStep, SignalStep, PushStep, PopStep

LEMMA InvariantStart == Init => IInv
<1> SUFFICES ASSUME Init PROVE IInv
  OBVIOUS
<1>1. TypeOK
  BY InitType
<1>2. LockInv /\ RoomToStore
  BY DEF Init, LockInv, RoomToStore, LockedPlaces, Threads
<1>3. RingInv /\ Fifo
  BY MaxSizeAssumption DEF Init, RingInv, Fifo, Slot
<1>4. QED
  BY <1>1, <1>2, <1>3 DEF IInv

(* The inductive invariant holds of every queue that is only reopened when *)
(* it is empty.                                                            *)
LEMMA Invariant == ASSUME ~LeftoverReopen PROVE Spec => []IInv
<1>1. IInv /\ [Next]_vars => IInv'
  BY InvariantStep, TypeStep DEF IInv
<1>2. QED
  BY <1>1, InvariantStart, PTL DEF Spec

(* push() and pop() neither lose, nor repeat, nor reorder an object, for   *)
(* any capacity and any number of threads (queue.cpp:58-76).               *)
THEOREM FifoHolds == ASSUME ~LeftoverReopen PROVE Spec => []Fifo
<1>1. IInv => Fifo
  BY DEF IInv
<1>2. QED
  BY <1>1, Invariant, PTL

(* push() never overwrites an object that is still queued, although it     *)
(* reads is_open a second time after its waiting loop (queue.cpp:131-136). *)
THEOREM RoomHolds == ASSUME ~LeftoverReopen PROVE Spec => []RoomToStore
<1>1. IInv => RoomToStore
  BY DEF IInv
<1>2. QED
  BY <1>1, Invariant, PTL

-----------------------------------------------------------------------------
(* What PushToldTruth needs: a thread about to read is_open for its return *)
(* value, with its object refused and no open() since, will read FALSE.    *)
RefusedInv ==
  \A t \in Pushers :
    pc[t] = "push_rc" /\ ~stored[t] /\ ~reopened[t] => ~is_open

ReportInv == TypeOK /\ PushToldTruth /\ RefusedInv

(* Only push() and open() touch what a producer remembers. *)
LEMMA ReportKept ==
  ASSUME ReportInv, NEW t \in Threads, NEW place, Moves(t, place),
         t \notin Pushers \/ place \notin {"idle", "push_rc"},
         is_open' => is_open, UNCHANGED <<rc, stored, reopened>>
  PROVE  PushToldTruth' /\ RefusedInv'
BY DEF ReportInv, PushToldTruth, RefusedInv, Moves, Threads

LEMMA ReportStep ==
  ASSUME ReportInv, [Next]_vars
  PROVE  PushToldTruth' /\ RefusedInv'
<1> DEFINE Told == PushToldTruth /\ RefusedInv
<1> SUFFICES Told'
  OBVIOUS
<1>a. /\ pc \in [Threads -> Places]
      /\ rc \in [Pushers -> {0, 1}]
      /\ stored \in [Pushers -> BOOLEAN] /\ reopened \in [Pushers -> BOOLEAN]
  BY DEF ReportInv, TypeOK
<1>b. /\ Pushers \subseteq Threads /\ Poppers \subseteq Threads
      /\ Waiters \subseteq Threads /\ Signalers \subseteq Threads
      /\ Owner \in Threads /\ Owner \notin Pushers
      /\ Pushers \cap Poppers = {} /\ Pushers \cap Waiters = {}
      /\ Pushers \cap Signalers = {}
  BY ThreadsAssumption DEF Threads
<1>1. ASSUME Open PROVE Told'
  <2>1. \A t \in Pushers : pc'[t] = pc[t]
    BY <1>1, <1>a, <1>b DEF Open, Goto
  <2>2. /\ \A t \in Pushers : reopened'[t] <=> pc[t] # "idle" \/ reopened[t]
        /\ rc' = rc /\ stored' = stored
    BY <1>1 DEF Open
  <2>3. QED
    BY <2>1, <2>2 DEF ReportInv, PushToldTruth, RefusedInv
<1>o. ASSUME OpenSignal PROVE Told'
  <2>1. \A t \in Pushers : pc'[t] = pc[t]
    BY <1>o, <1>b DEF OpenSignal
  <2>2. UNCHANGED <<is_open, rc, stored, reopened>>
    BY <1>o DEF OpenSignal, history
  <2>3. QED
    BY <2>1, <2>2 DEF ReportInv, PushToldTruth, RefusedInv
<1>2. ASSUME CloseShut PROVE Told'
  <2>1. Moves(Owner, "close_urgent")
    BY <1>2, <1>a, <1>b, GotoMoves DEF CloseShut
  <2>2. QED
    BY <1>2, <2>1, <1>b, ReportKept DEF CloseShut, flags, history
<1>3. ASSUME NEW urgent \in BOOLEAN, CloseUrgency(urgent) PROVE Told'
  <2>1. Moves(Owner, "close_wake")
    BY <1>3, <1>a, <1>b, GotoMoves DEF CloseUrgency
  <2>2. QED
    BY <1>3, <2>1, <1>b, ReportKept DEF CloseUrgency, flags, history
<1>4. ASSUME CloseWake PROVE Told'
  <2>1. WakeAll({"pop_asleep"}, Owner, "idle")
    BY <1>4 DEF CloseWake, WakePoppers
  <2>2. Moves(Owner, "idle")
    BY <2>1, <1>b, WakeMoves DEF Asleep
  <2>3. QED
    BY <1>4, <2>2, <1>b, ReportKept DEF CloseWake, flags, history
<1>5. ASSUME NEW t \in Signalers, SignalTest(t) PROVE Told'
  <2>1. Moves(t, "signal_set")
    BY <1>5, <1>a, <1>b, GotoMoves DEF SignalTest
  <2>2. QED
    BY <1>5, <2>1, <1>b, ReportKept DEF SignalTest, flags, history
<1>6. ASSUME NEW t \in Signalers, SignalSet(t) PROVE Told'
  <2>1. Moves(t, "signal_wake")
    BY <1>6, <1>a, <1>b, GotoMoves DEF SignalSet
  <2>2. QED
    BY <1>6, <2>1, <1>b, ReportKept DEF SignalSet, flags, history
<1>7. ASSUME NEW t \in Signalers, SignalWake(t) PROVE Told'
  <2>1. WakeAll({"pop_asleep"}, t, "idle")
    BY <1>7 DEF SignalWake, WakePoppers
  <2>2. Moves(t, "idle")
    BY <2>1, <1>b, WakeMoves DEF Asleep
  <2>3. QED
    BY <1>7, <2>2, <1>b, ReportKept DEF SignalWake, flags, history
<1>8. ASSUME NEW t \in Pushers, PushCall(t) PROVE Told'
  <2>1. Moves(t, "push_enter")
    BY <1>8, <1>a, <1>b, GotoMoves DEF PushCall
  <2>2. \A u \in Pushers : u # t => stored'[u] = stored[u] /\ reopened'[u] = reopened[u]
    BY <1>8, <1>a DEF PushCall
  <2>3. rc' = rc /\ is_open' = is_open
    BY <1>8 DEF PushCall, flags
  <2>4. QED
    BY <2>1, <2>2, <2>3, <1>b
    DEF Moves, ReportInv, PushToldTruth, RefusedInv
<1>9. ASSUME NEW t \in Pushers, PushTest(t) PROVE Told'
  <2> DEFINE place == IF size = MaxSize /\ is_open THEN "push_blocked"
                      ELSE "push_store"
  <2>1. Goto(t, place) /\ UNCHANGED <<flags, rc, history>>
    BY <1>9 DEF PushTest
  <2>2. t \notin Pushers \/ place \notin {"idle", "push_rc"}
    BY <1>b
  <2> HIDE DEF place
  <2>3. Moves(t, place)
    BY <2>1, <1>a, <1>b, GotoMoves
  <2>4. QED
    BY <2>1, <2>2, <2>3, <1>b, ReportKept DEF flags, history
<1>10. ASSUME NEW t \in Pushers, PushSleep(t) PROVE Told'
  <2>1. Moves(t, "push_asleep")
    BY <1>10, <1>a, <1>b, GotoMoves DEF PushSleep
  <2>2. QED
    BY <1>10, <2>1, <1>b, ReportKept DEF PushSleep, flags, history
<1>11. ASSUME NEW t \in Pushers, PushStore(t) PROVE Told'
  <2>1. WakeAll({"pop_asleep"}, t, "push_rc")
    BY <1>11 DEF PushStore, WakePoppers
  <2>2. Moves(t, "push_rc")
    BY <2>1, <1>b, WakeMoves DEF Asleep
  <2>3. stored'[t] /\ \A u \in Pushers : u # t => stored'[u] = stored[u]
    BY <1>11, <1>a DEF PushStore
  <2>4. rc' = rc /\ is_open' = is_open /\ reopened' = reopened
    BY <1>11 DEF PushStore, flags
  <2>5. QED
    BY <2>2, <2>3, <2>4, <1>b
    DEF Moves, ReportInv, PushToldTruth, RefusedInv
<1>12. ASSUME NEW t \in Pushers, PushRefused(t) PROVE Told'
  <2>1. Moves(t, "push_rc")
    BY <1>12, <1>a, <1>b, GotoMoves DEF PushRefused
  <2>2. ~is_open /\ UNCHANGED <<is_open, rc, stored, reopened>>
    BY <1>12 DEF PushRefused, flags, history
  <2>3. QED
    BY <2>1, <2>2, <1>b DEF Moves, ReportInv, PushToldTruth, RefusedInv
<1>13. ASSUME NEW t \in Pushers, PushReturn(t) PROVE Told'
  <2>1. Moves(t, "idle")
    BY <1>13, <1>a, <1>b, GotoMoves DEF PushReturn
  <2>2. /\ rc'[t] = IF is_open THEN 0 ELSE 1
        /\ \A u \in Pushers : u # t => rc'[u] = rc[u]
    BY <1>13, <1>a DEF PushReturn
  <2>3. pc[t] = "push_rc" /\ UNCHANGED <<is_open, stored, reopened>>
    BY <1>13 DEF PushReturn, flags, history
  <2>4. QED
    BY <2>1, <2>2, <2>3, <1>b DEF Moves, ReportInv, PushToldTruth, RefusedInv
<1>14. ASSUME NEW t \in Poppers, PopCall(t) PROVE Told'
  <2>1. Moves(t, "pop_enter")
    BY <1>14, <1>a, <1>b, GotoMoves DEF PopCall
  <2>2. QED
    BY <1>14, <2>1, <1>b, ReportKept DEF PopCall, flags, history
<1>15. ASSUME NEW t \in Poppers, PopTest(t) PROVE Told'
  <2> DEFINE place == IF size = 0 /\ is_open /\ ~signal THEN "pop_blocked"
                      ELSE "pop_take"
  <2>1. Goto(t, place) /\ UNCHANGED <<flags, rc, history>>
    BY <1>15 DEF PopTest
  <2>2. t \notin Pushers \/ place \notin {"idle", "push_rc"}
    BY <1>b
  <2> HIDE DEF place
  <2>3. Moves(t, place)
    BY <2>1, <1>a, <1>b, GotoMoves
  <2>4. QED
    BY <2>1, <2>2, <2>3, <1>b, ReportKept DEF flags, history
<1>16. ASSUME NEW t \in Poppers, PopSleep(t) PROVE Told'
  <2>1. Moves(t, "pop_asleep")
    BY <1>16, <1>a, <1>b, GotoMoves DEF PopSleep
  <2>2. QED
    BY <1>16, <2>1, <1>b, ReportKept DEF PopSleep, flags, history
<1>17. ASSUME NEW t \in Poppers, PopSignal(t) PROVE Told'
  <2>1. Moves(t, "idle")
    BY <1>17, <1>a, <1>b, GotoMoves DEF PopSignal
  <2>2. QED
    BY <1>17, <2>1, <1>b, ReportKept DEF PopSignal, flags, history
<1>18. ASSUME NEW t \in Poppers, PopObject(t) PROVE Told'
  <2>1. WakeAll({"push_asleep", "wait_asleep"}, t, "idle")
    BY <1>18 DEF PopObject, WakePushers
  <2>2. Moves(t, "idle")
    BY <2>1, <1>b, WakeMoves DEF Asleep
  <2>3. QED
    BY <1>18, <2>2, <1>b, ReportKept DEF PopObject, flags, history
<1>19. ASSUME NEW t \in Poppers, PopEnd(t) PROVE Told'
  <2>1. Goto(t, "done") \/ WakeAll({"push_asleep", "wait_asleep"}, t, "done")
    BY <1>19 DEF PopEnd, WakePushers
  <2>2. Moves(t, "done")
    BY <2>1, <1>a, <1>b, GotoMoves, WakeMoves DEF Asleep
  <2>3. QED
    BY <1>19, <2>2, <1>b, ReportKept DEF PopEnd, flags, history
<1>20. ASSUME NEW t \in Waiters, WaitCall(t) PROVE Told'
  <2>1. Moves(t, "wait_enter")
    BY <1>20, <1>a, <1>b, GotoMoves DEF WaitCall
  <2>2. QED
    BY <1>20, <2>1, <1>b, ReportKept DEF WaitCall, flags, history
<1>21. ASSUME NEW t \in Waiters, WaitTest(t) PROVE Told'
  <2> DEFINE place == IF size > 0 THEN "wait_asleep" ELSE "idle"
  <2>1. Goto(t, place) /\ UNCHANGED <<flags, rc, history>>
    BY <1>21 DEF WaitTest
  <2>2. t \notin Pushers \/ place \notin {"idle", "push_rc"}
    BY <1>b
  <2> HIDE DEF place
  <2>3. Moves(t, place)
    BY <2>1, <1>a, <1>b, GotoMoves
  <2>4. QED
    BY <2>1, <2>2, <2>3, <1>b, ReportKept DEF flags, history
<1>22. ASSUME NEW t \in Threads, SpuriousWake(t) PROVE Told'
  <2> DEFINE place == Reenter(pc[t])
  <2>1. Goto(t, place) /\ UNCHANGED <<flags, rc, history>>
    BY <1>22 DEF SpuriousWake
  <2>2. t \notin Pushers \/ place \notin {"idle", "push_rc"}
    BY <1>b DEF Reenter
  <2> HIDE DEF place
  <2>3. Moves(t, place)
    BY <2>1, <1>a, <1>b, GotoMoves
  <2>4. QED
    BY <2>1, <2>2, <2>3, <1>b, ReportKept DEF flags, history
<1>23. CASE UNCHANGED vars
  BY <1>23 DEF vars, flags, history, ReportInv, PushToldTruth, RefusedInv
<1>24. QED
  BY <1>1, <1>o, <1>2, <1>3, <1>4, <1>5, <1>6, <1>7, <1>8, <1>9, <1>10, <1>11,
     <1>12, <1>13, <1>14, <1>15, <1>16, <1>17, <1>18, <1>19, <1>20, <1>21,
     <1>22, <1>23
  DEF Next, OwnerStep, SignalStep, PushStep, PopStep

(* push() tells the truth: it only returns 0 without having stored its     *)
(* object if the queue was reopened while it was running                   *)
(* (queue.cpp:127-146).                                                    *)
THEOREM PushTellsTruth == Spec => []PushToldTruth
<1>1. Init => ReportInv
  BY InitType, Zenon DEF Init, ReportInv, PushToldTruth, RefusedInv
<1>2. ReportInv /\ [Next]_vars => ReportInv'
  BY ReportStep, TypeStep DEF ReportInv
<1>3. ReportInv => PushToldTruth
  BY DEF ReportInv
<1>4. QED
  BY <1>1, <1>2, <1>3, PTL DEF Spec

-----------------------------------------------------------------------------
(* What PlainCloseDrains needs, until a second open(): where the owner is, *)
(* and that a consumer past its waiting loop, while urgent_close is FALSE, *)
(* still finds what let it through.                                        *)
FirstSession == opens <= 1 /\ TRUE \notin UrgentGarbage

OwnerInv ==
  /\ opens = 0 => /\ pc[Owner] = "idle" /\ ~is_open /\ ~urgent_close
                  /\ size = 0
  /\ opens = 0 \/ pc[Owner] = "open_signal" =>
       \A t \in Poppers : pc[t] = "done"
  /\ pc[Owner] = "open_signal" => ~urgent_close
  /\ pc[Owner] = "close_urgent" => ~is_open /\ ~urgent_close
  /\ urgent_close => ~is_open

ConsumerInv(t) ==
  ~urgent_close =>
    /\ pc[t] = "pop_take" => size > 0 \/ ~is_open \/ signal
    /\ pc[t] = "done" /\ pc[Owner] # "open_signal" => size = 0 /\ ~is_open

DrainInv == FirstSession => OwnerInv /\ \A t \in Poppers : ConsumerInv(t)

(* The effect of Goto and of a broadcast, to the letter: only a sleeper is *)
(* moved by somebody else.                                                 *)
MovesOnly(t, place) ==
  \A u \in Threads :
    \/ u = t /\ pc'[u] = place
    \/ u # t /\ pc'[u] = pc[u]
    \/ u # t /\ pc[u] \in Asleep
         /\ pc'[u] \in {"push_enter", "pop_enter", "wait_enter"}

LEMMA GotoMovesOnly ==
  ASSUME NEW t \in Threads, NEW place, pc \in [Threads -> Places],
         Goto(t, place)
  PROVE  MovesOnly(t, place)
BY DEF Goto, MovesOnly

LEMMA WakeMovesOnly ==
  ASSUME NEW t \in Threads, NEW place, NEW sleepers \in SUBSET Asleep,
         WakeAll(sleepers, t, place)
  PROVE  MovesOnly(t, place)
BY DEF WakeAll, MovesOnly, Asleep, Reenter

(* A step of a thread that sends no consumer past its loop or away, takes  *)
(* nothing out and stores only while the queue is open.                    *)
LEMMA DrainKept ==
  ASSUME TypeOK, DrainInv, NEW t \in Threads \ {Owner}, NEW place,
         MovesOnly(t, place), pc[t] # "done", place \notin {"pop_take", "done"},
         UNCHANGED <<opens, is_open, urgent_close>>,
         size' = size \/ (is_open /\ size' = size + 1),
         signal => signal'
  PROVE  DrainInv'
<1>1. SUFFICES ASSUME FirstSession
               PROVE  OwnerInv' /\ \A u \in Poppers : ConsumerInv(u)'
  BY DEF DrainInv, FirstSession
<1>2. OwnerInv /\ \A u \in Poppers : ConsumerInv(u)
  BY <1>1 DEF DrainInv
<1>3. Poppers \subseteq Threads /\ Owner \in Threads /\ size \in Nat
  BY DEF Threads, TypeOK
<1>4. pc'[Owner] = pc[Owner]
  BY <1>3 DEF MovesOnly, TypeOK, PlacesOK, OwnerPlaces, Asleep
<1>5. \A u \in Poppers : \/ pc'[u] = pc[u]
                         \/ pc[u] # "done" /\ pc'[u] \notin {"pop_take", "done"}
  BY <1>3 DEF MovesOnly, Asleep
<1>6. OwnerInv'
  <2>1. opens = 0 => size' = 0
    BY <1>2 DEF OwnerInv
  <2>2. opens = 0 \/ pc[Owner] = "open_signal" =>
          \A u \in Poppers : pc'[u] = "done"
    BY <1>2, <1>5 DEF OwnerInv
  <2>3. QED
    BY <1>2, <1>4, <2>1, <2>2 DEF OwnerInv
<1>7. ASSUME NEW u \in Poppers PROVE ConsumerInv(u)'
  <2>1. ConsumerInv(u)
    BY <1>2
  <2>2. size > 0 => size' > 0
    BY <1>3
  <2>3. QED
    BY <1>4, <1>5, <2>1, <2>2 DEF ConsumerInv
<1>8. QED
  BY <1>6, <1>7

(* The owner's steps. *)
LEMMA DrainOwner ==
  ASSUME TypeOK, DrainInv, FirstSession',
         \/ Open \/ OpenSignal \/ CloseShut \/ CloseWake
         \/ \E urgent \in BOOLEAN : CloseUrgency(urgent)
  PROVE  OwnerInv' /\ \A u \in Poppers : ConsumerInv(u)'
<1> USE DEF ring, flags, bounds, history
<1>0. /\ pc \in [Threads -> Places] /\ opens \in Nat
      /\ Poppers \subseteq Threads /\ Owner \in Threads /\ Owner \notin Poppers
      /\ \A u \in Poppers : pc[u] \in PopPlaces
  BY ThreadsAssumption DEF TypeOK, PlacesOK, Threads
<1>1. FirstSession
  <2>1. opens' = opens \/ opens' = opens + 1
    BY DEF Open, OpenSignal, CloseShut, CloseWake, CloseUrgency
  <2>2. opens' <= 1 /\ TRUE \notin UrgentGarbage
    BY DEF FirstSession
  <2>3. opens <= 1
    BY <1>0, <2>1, <2>2
  <2>4. QED
    BY <2>2, <2>3, Zenon DEF FirstSession
<1>2. OwnerInv /\ \A u \in Poppers : ConsumerInv(u)
  BY <1>1 DEF DrainInv
<1>3. CASE Open
  <2>1. /\ opens = 0 /\ opens' = 1 /\ is_open'
        /\ UNCHANGED <<size, urgent_close>>
    BY <1>0, <1>3 DEF Open, FirstSession
  <2>2. /\ pc'[Owner] = "open_signal"
        /\ \A u \in Poppers : pc'[u] = "done"
    BY <1>0, <1>3 DEF Open, Goto
  <2>3. ~urgent_close
    BY <1>2, <2>1 DEF OwnerInv
  <2>4. QED
    BY <2>1, <2>2, <2>3 DEF OwnerInv, ConsumerInv
<1>4. CASE OpenSignal
  <2>1. /\ pc'[Owner] = "idle" /\ \A u \in Poppers : pc'[u] = "idle"
        /\ pc[Owner] = "open_signal"
        /\ UNCHANGED <<opens, size, is_open, urgent_close>>
    BY <1>0, <1>4 DEF OpenSignal
  <2>2. QED
    BY <1>2, <2>1 DEF OwnerInv, ConsumerInv
<1>5. CASE CloseShut
  <2>1. /\ pc[Owner] = "idle" /\ pc'[Owner] = "close_urgent"
        /\ \A u \in Poppers : pc'[u] = pc[u]
        /\ is_open /\ ~is_open'
        /\ UNCHANGED <<opens, size, urgent_close>>
    BY <1>0, <1>5 DEF CloseShut, Goto
  <2>2. QED
    BY <1>2, <2>1 DEF OwnerInv, ConsumerInv
<1>6. CASE \E urgent \in BOOLEAN : CloseUrgency(urgent)
  <2>1. /\ pc[Owner] = "close_urgent" /\ pc'[Owner] = "close_wake"
        /\ \A u \in Poppers : pc'[u] = pc[u]
        /\ UNCHANGED <<opens, size, is_open, signal>>
    BY <1>0, <1>6 DEF CloseUrgency, Goto
  <2>2. QED
    BY <1>2, <2>1 DEF OwnerInv, ConsumerInv
<1>7. CASE CloseWake
  <2>1. /\ pc[Owner] = "close_wake"
        /\ UNCHANGED <<opens, size, is_open, signal, urgent_close>>
        /\ WakeAll({"pop_asleep"}, Owner, "idle")
    BY <1>7 DEF CloseWake, WakePoppers
  <2>2. /\ pc'[Owner] = "idle"
        /\ \A u \in Poppers :
             \/ pc'[u] = pc[u]
             \/ pc[u] = "pop_asleep" /\ pc'[u] = "pop_enter"
    BY <1>0, <2>1 DEF WakeAll, Reenter
  <2>3. QED
    BY <1>2, <2>1, <2>2 DEF OwnerInv, ConsumerInv
<1>8. QED
  BY <1>3, <1>4, <1>5, <1>6, <1>7

(* The consumers' steps that let one past its loop, take an object or the  *)
(* signal, or send one away.                                               *)
LEMMA DrainConsumer ==
  ASSUME TypeOK, LockInv, DrainInv, FirstSession, NEW t \in Poppers,
         PopTest(t) \/ PopSignal(t) \/ PopObject(t) \/ PopEnd(t)
  PROVE  OwnerInv' /\ \A u \in Poppers : ConsumerInv(u)'
<1> USE DEF ring, flags, bounds, history
<1>0. /\ pc \in [Threads -> Places] /\ size \in Nat
      /\ Poppers \subseteq Threads /\ Owner \in Threads /\ Owner \notin Poppers
      /\ t \in Threads /\ t # Owner
  BY ThreadsAssumption DEF TypeOK, Threads
<1>1. OwnerInv /\ \A u \in Poppers : ConsumerInv(u)
  BY DEF DrainInv
<1>2. /\ pc[t] # "done" /\ UNCHANGED <<opens, is_open, urgent_close>>
      /\ \E place \in {"pop_blocked", "pop_take", "idle", "done"} :
           MovesOnly(t, place) /\ pc'[t] = place
  <2>1. CASE PopTest(t)
    BY <1>0, <2>1, GotoMovesOnly DEF PopTest, MovesOnly
  <2>2. CASE PopSignal(t)
    BY <1>0, <2>2, GotoMovesOnly DEF PopSignal, MovesOnly
  <2>3. CASE PopObject(t)
    <3>1. WakeAll({"push_asleep", "wait_asleep"}, t, "idle")
      BY <2>3 DEF PopObject, WakePushers
    <3>2. MovesOnly(t, "idle")
      BY <1>0, <3>1, WakeMovesOnly DEF Asleep
    <3>3. QED
      BY <1>0, <2>3, <3>2 DEF PopObject, MovesOnly
  <2>4. CASE PopEnd(t)
    <3>1. \/ Goto(t, "done")
          \/ WakeAll({"push_asleep", "wait_asleep"}, t, "done")
      BY <2>4 DEF PopEnd, WakePushers
    <3>2. MovesOnly(t, "done")
      BY <1>0, <3>1, WakeMovesOnly, GotoMovesOnly DEF Asleep
    <3>3. QED
      BY <1>0, <2>4, <3>2 DEF PopEnd, MovesOnly
  <2>5. QED
    BY <2>1, <2>2, <2>3, <2>4
<1>3. /\ pc'[Owner] = pc[Owner]
      /\ \A u \in Poppers \ {t} :
           \/ pc'[u] = pc[u]
           \/ pc[u] # "done" /\ pc'[u] \notin {"pop_take", "done"}
  BY <1>0, <1>2 DEF MovesOnly, TypeOK, PlacesOK, OwnerPlaces, Asleep
<1>4. opens # 0 /\ pc[Owner] # "open_signal"
  BY <1>1, <1>2 DEF OwnerInv
<1>5. OwnerInv'
  BY <1>1, <1>2, <1>3, <1>4 DEF OwnerInv
<1>6. ASSUME NEW u \in Poppers PROVE ConsumerInv(u)'
  <2>1. ConsumerInv(u) /\ ConsumerInv(t)
    BY <1>1
  <2>2. CASE PopTest(t)
    <3>1. UNCHANGED <<size, signal>>
      BY <2>2 DEF PopTest
    <3>2. CASE u = t
      <4>1. pc'[t] = IF size = 0 /\ is_open /\ ~signal THEN "pop_blocked"
                     ELSE "pop_take"
        BY <1>0, <2>2 DEF PopTest, Goto
      <4>2. QED
        BY <1>0, <1>2, <3>1, <3>2, <4>1 DEF ConsumerInv
    <3>3. CASE u # t
      BY <1>2, <1>3, <2>1, <3>1, <3>3 DEF ConsumerInv
    <3>4. QED
      BY <3>2, <3>3
  <2>3. CASE ~PopTest(t)
    <3>1. pc[t] = "pop_take" /\ queue_lock = t
      BY <2>3 DEF PopSignal, PopObject, PopEnd, Release
    <3>2. u # t => pc[u] # "pop_take"
      BY <1>0, <3>1 DEF LockInv, LockedPlaces
    <3>3. u # t => pc'[u] # "pop_take"
      BY <1>3, <3>2
    <3>4. CASE PopSignal(t)
      <4>1. pc'[t] = "idle" /\ size' = size
        BY <1>0, <3>4 DEF PopSignal, Goto
      <4>2. QED
        BY <1>2, <1>3, <2>1, <3>3, <4>1 DEF ConsumerInv
    <3>5. CASE PopObject(t)
      <4>1. pc'[t] = "idle" /\ size > 0
        BY <1>0, <3>5 DEF PopObject, WakePushers, WakeAll
      <4>2. (~urgent_close) /\ u # t => pc[u] # "done"
        BY <1>4, <2>1, <4>1 DEF ConsumerInv
      <4>3. (~urgent_close) => pc'[u] \notin {"pop_take", "done"}
        BY <1>3, <3>3, <4>1, <4>2
      <4>4. QED
        BY <1>2, <4>3 DEF ConsumerInv
    <3>6. CASE PopEnd(t)
      <4>1. /\ pc'[t] = "done" /\ size' = size /\ ~signal
            /\ size = 0 \/ urgent_close
        BY <1>0, <3>6 DEF PopEnd, Goto, WakePushers, WakeAll
      <4>2. (~urgent_close) => size = 0 /\ ~is_open
        BY <2>1, <3>1, <4>1 DEF ConsumerInv
      <4>3. QED
        BY <1>2, <1>3, <2>1, <3>3, <4>1, <4>2 DEF ConsumerInv
    <3>7. QED
      BY <2>3, <3>4, <3>5, <3>6
  <2>4. QED
    BY <2>2, <2>3
<1>7. QED
  BY <1>5, <1>6

LEMMA DrainStep ==
  ASSUME TypeOK, LockInv, DrainInv, [Next]_vars
  PROVE  DrainInv'
<1> USE DEF ring, flags, bounds, history
<1>0. /\ pc \in [Threads -> Places]
      /\ Pushers \subseteq Threads \ {Owner} /\ Poppers \subseteq Threads \ {Owner}
      /\ Waiters \subseteq Threads \ {Owner}
      /\ Signalers \subseteq Threads \ {Owner}
      /\ Threads \ {Owner} \subseteq Threads
  BY ThreadsAssumption DEF TypeOK, Threads
<1>1. CASE Open \/ CloseShut \/ OwnerStep
  BY <1>1, DrainOwner DEF DrainInv, OwnerStep
<1>2. ASSUME NEW t \in Signalers, SignalTest(t) \/ SignalStep(t)
      PROVE  DrainInv'
  <2>1. pc[t] # "done"
    BY <1>2 DEF SignalTest, SignalStep, SignalSet, SignalWake
  <2>2. \/ Goto(t, "signal_set") \/ Goto(t, "signal_wake")
        \/ WakeAll({"pop_asleep"}, t, "idle")
    BY <1>2 DEF SignalTest, SignalStep, SignalSet, SignalWake, WakePoppers
  <2>3. \E place \in {"signal_set", "signal_wake", "idle"} : MovesOnly(t, place)
    BY <1>0, <2>2, GotoMovesOnly, WakeMovesOnly DEF Asleep
  <2>4. /\ UNCHANGED <<opens, is_open, urgent_close, size>>
        /\ signal => signal'
    BY <1>2 DEF SignalTest, SignalStep, SignalSet, SignalWake
  <2>5. QED
    BY <1>0, <2>1, <2>3, <2>4, DrainKept
<1>3. ASSUME NEW t \in Pushers, PushCall(t) \/ PushStep(t)
      PROVE  DrainInv'
  <2> USE DEF PushStep, PushCall, PushTest, PushSleep, PushStore, PushRefused,
              PushReturn
  <2>1. pc[t] # "done"
    BY <1>3
  <2>2. \/ \E place \in {"push_enter", "push_blocked", "push_store",
                         "push_asleep", "push_rc", "idle"} : Goto(t, place)
        \/ WakeAll({"pop_asleep"}, t, "push_rc")
    BY <1>3 DEF WakePoppers
  <2>3. \E place \in {"push_enter", "push_blocked", "push_store",
                      "push_asleep", "push_rc", "idle"} : MovesOnly(t, place)
    BY <1>0, <2>2, GotoMovesOnly, WakeMovesOnly DEF Asleep
  <2>4. /\ UNCHANGED <<opens, is_open, urgent_close, signal>>
        /\ size' = size \/ (is_open /\ size' = size + 1)
    BY <1>3
  <2>5. QED
    BY <1>0, <2>1, <2>3, <2>4, DrainKept
<1>4. ASSUME NEW t \in Poppers, PopStep(t) PROVE DrainInv'
  <2>1. CASE PopCall(t) \/ PopSleep(t)
    <3>1. pc[t] # "done"
      BY <2>1 DEF PopCall, PopSleep
    <3>2. \E place \in {"pop_enter", "pop_asleep"} : MovesOnly(t, place)
      BY <1>0, <2>1, GotoMovesOnly DEF PopCall, PopSleep
    <3>3. UNCHANGED <<opens, is_open, urgent_close, signal, size>>
      BY <2>1 DEF PopCall, PopSleep
    <3>4. QED
      BY <1>0, <3>1, <3>2, <3>3, DrainKept
  <2>2. CASE PopTest(t) \/ PopSignal(t) \/ PopObject(t) \/ PopEnd(t)
    <3>1. opens' = opens
      BY <2>2 DEF PopTest, PopSignal, PopObject, PopEnd
    <3>2. QED
      BY <2>2, <3>1, DrainConsumer DEF DrainInv, FirstSession
  <2>3. QED
    BY <1>4, <2>1, <2>2 DEF PopStep
<1>5. ASSUME NEW t \in Waiters, WaitCall(t) \/ WaitTest(t) PROVE DrainInv'
  <2>1. pc[t] # "done"
    BY <1>5 DEF WaitCall, WaitTest
  <2>2. \E place \in {"wait_enter", "wait_asleep", "idle"} : MovesOnly(t, place)
    BY <1>0, <1>5, GotoMovesOnly DEF WaitCall, WaitTest
  <2>3. UNCHANGED <<opens, is_open, urgent_close, signal, size>>
    BY <1>5 DEF WaitCall, WaitTest
  <2>4. QED
    BY <1>0, <2>1, <2>2, <2>3, DrainKept
<1>6. ASSUME NEW t \in Threads, SpuriousWake(t) PROVE DrainInv'
  <2>1. pc[t] \in Asleep /\ t # Owner
    BY <1>6 DEF SpuriousWake, TypeOK, PlacesOK, OwnerPlaces, Asleep
  <2>2. \E place \in {"push_enter", "pop_enter", "wait_enter"} :
          MovesOnly(t, place)
    BY <1>0, <1>6, GotoMovesOnly DEF SpuriousWake, Reenter
  <2>3. UNCHANGED <<opens, is_open, urgent_close, signal, size>>
    BY <1>6 DEF SpuriousWake
  <2>4. QED
    BY <1>0, <2>1, <2>2, <2>3, DrainKept DEF Asleep
<1>7. CASE UNCHANGED vars
  BY <1>7 DEF vars, DrainInv, FirstSession, OwnerInv, ConsumerInv
<1>8. QED
  BY <1>1, <1>2, <1>3, <1>4, <1>5, <1>6, <1>7 DEF Next

(* Until the queue is opened a second time, a consumer that was sent away  *)
(* by a plain close() left nothing behind, whatever producers were doing   *)
(* when the queue closed (queue.cpp:100-106, 148-174).                      *)
THEOREM NothingLeftBehind ==
  ASSUME ~LeftoverReopen
  PROVE  Spec => []PlainCloseDrains
<1>1. Init => DrainInv
  <2>1. SUFFICES ASSUME Init, FirstSession
                 PROVE  OwnerInv /\ \A t \in Poppers : ConsumerInv(t)
    BY DEF DrainInv
  <2>2. ~urgent_close
    BY <2>1, FlagsAssumption DEF Init, FirstSession
  <2>3. pc[Owner] = "idle" /\ \A t \in Poppers : pc[t] = "done"
    BY <2>1, ThreadsAssumption DEF Init, Threads
  <2>4. QED
    BY <2>1, <2>2, <2>3 DEF Init, OwnerInv, ConsumerInv
<1>2. IInv /\ DrainInv /\ [Next]_vars => DrainInv'
  BY DrainStep DEF IInv
<1>3. DrainInv => PlainCloseDrains
  BY DEF DrainInv, FirstSession, OwnerInv, ConsumerInv, PlainCloseDrains
<1>4. QED
  BY <1>1, <1>2, <1>3, Invariant, PTL DEF Spec

-----------------------------------------------------------------------------
(* Queue, with its ring, its lock and its threads, implements the channel  *)
(* of QueueSpec, for every capacity, every set of threads and every number *)
(* of calls: what lets ThreadsManager use the channel's actions as the     *)
(* operations of its queue.                                                *)

(* A producer that is inside push() has an object to store. *)
ItemInv ==
  /\ sent <= MaxPushes
  /\ \A t \in Pushers : pc[t] # "idle" => item[t] \in 1 .. MaxPushes

RefineInv == IInv /\ ItemInv

LEMMA ItemStep ==
  ASSUME TypeOK, ItemInv, [Next]_vars
  PROVE  ItemInv'
<1> USE DEF ring, flags, bounds, history
<1>0. /\ pc \in [Threads -> Places] /\ sent \in Nat /\ item \in [Pushers -> Nat]
      /\ Pushers \subseteq Threads
      /\ \A t \in Pushers : /\ t \notin Poppers /\ t \notin Waiters
                            /\ t \notin Signalers /\ t # Owner
      /\ MaxPushes \in Nat
  BY ThreadsAssumption, BoundsAssumption DEF TypeOK, Threads
<1>1. ASSUME NEW t \in Pushers, PushCall(t) PROVE ItemInv'
  <2>1. /\ sent' = sent + 1 /\ sent < MaxPushes
        /\ item' = [item EXCEPT ![t] = sent + 1]
        /\ pc' = [pc EXCEPT ![t] = "push_enter"]
    BY <1>1 DEF PushCall, Goto
  <2>2. sent' <= MaxPushes /\ sent + 1 \in 1 .. MaxPushes
    BY <1>0, <2>1
  <2>3. \A u \in Pushers : /\ u = t => item'[u] = sent + 1
                           /\ u # t => item'[u] = item[u] /\ pc'[u] = pc[u]
    BY <1>0, <2>1
  <2>4. QED
    BY <2>2, <2>3 DEF ItemInv
<1>2. ASSUME NEW t \in Pushers, PushReturn(t) PROVE ItemInv'
  <2>1. /\ sent' = sent /\ item' = [item EXCEPT ![t] = 0]
        /\ pc' = [pc EXCEPT ![t] = "idle"]
    BY <1>2 DEF PushReturn, Goto
  <2>2. pc'[t] = "idle"
        /\ \A u \in Pushers : u # t => item'[u] = item[u] /\ pc'[u] = pc[u]
    BY <1>0, <2>1
  <2>3. QED
    BY <2>1, <2>2 DEF ItemInv
<1>3. ASSUME UNCHANGED <<sent, item>>,
             \A u \in Pushers : pc[u] = "idle" => pc'[u] = "idle"
      PROVE  ItemInv'
  BY <1>3 DEF ItemInv
<1>4. ASSUME NEW t \in Threads, NEW place, MovesOnly(t, place),
             t \in Pushers => pc[t] # "idle", UNCHANGED <<sent, item>>
      PROVE  ItemInv'
  BY <1>0, <1>3, <1>4 DEF MovesOnly, Asleep
<1>5. ASSUME NEW t \in Pushers,
             PushTest(t) \/ PushSleep(t) \/ PushStore(t) \/ PushRefused(t)
      PROVE  ItemInv'
  <2> USE DEF PushTest, PushSleep, PushStore, PushRefused
  <2>1. \/ \E place \in Places : Goto(t, place)
        \/ WakeAll({"pop_asleep"}, t, "push_rc")
    BY <1>5 DEF WakePoppers, Places, PushPlaces
  <2>2. \E place \in Places : MovesOnly(t, place)
    BY <1>0, <2>1, GotoMovesOnly, WakeMovesOnly DEF Asleep, Places, PushPlaces
  <2>3. pc[t] # "idle" /\ UNCHANGED <<sent, item>>
    BY <1>5
  <2>4. QED
    BY <1>0, <1>4, <2>2, <2>3
<1>6. ASSUME NEW t \in Threads \ Pushers,
             \/ t = Owner /\ (Open \/ CloseShut \/ CloseWake)
             \/ t = Owner /\ \E urgent \in BOOLEAN : CloseUrgency(urgent)
             \/ SignalTest(t) \/ SignalStep(t)
             \/ PopStep(t) \/ WaitCall(t) \/ WaitTest(t) \/ SpuriousWake(t)
      PROVE  ItemInv'
  <2> USE DEF Open, CloseShut, CloseWake, CloseUrgency, SignalTest, SignalStep,
              SignalSet, SignalWake, PopStep, PopCall, PopTest, PopSleep,
              PopSignal, PopObject, PopEnd, WaitCall, WaitTest, SpuriousWake
  <2>1. \/ \E place : Goto(t, place)
        \/ \E place : \E sleepers \in SUBSET Asleep : WakeAll(sleepers, t, place)
    BY <1>6 DEF WakePoppers, WakePushers, Asleep
  <2>2. \E place : MovesOnly(t, place)
    BY <1>0, <2>1, GotoMovesOnly, WakeMovesOnly
  <2>3. UNCHANGED <<sent, item>>
    BY <1>6
  <2>4. QED
    BY <1>4, <2>2, <2>3
<1>7. ASSUME NEW t \in Pushers, SpuriousWake(t) PROVE ItemInv'
  <2>1. Goto(t, Reenter(pc[t])) /\ pc[t] \in Asleep /\ UNCHANGED <<sent, item>>
    BY <1>7 DEF SpuriousWake
  <2>2. MovesOnly(t, Reenter(pc[t]))
    BY <1>0, <2>1, GotoMovesOnly
  <2>3. QED
    BY <1>0, <1>4, <2>1, <2>2 DEF Asleep
<1>8. ASSUME OpenSignal PROVE ItemInv'
  BY <1>0, <1>3, <1>8 DEF OpenSignal
<1>9. ASSUME UNCHANGED vars PROVE ItemInv'
  BY <1>3, <1>9 DEF vars
<1>10. /\ Owner \in Threads \ Pushers /\ Poppers \subseteq Threads \ Pushers
       /\ Waiters \subseteq Threads \ Pushers
       /\ Signalers \subseteq Threads \ Pushers
  BY ThreadsAssumption DEF Threads
<1>11. CASE Open \/ CloseShut \/ OwnerStep
  BY <1>6, <1>8, <1>10, <1>11 DEF OwnerStep
<1>12. CASE \E t \in Signalers : SignalTest(t) \/ SignalStep(t)
  BY <1>6, <1>10, <1>12
<1>13. CASE \E t \in Pushers : PushCall(t) \/ PushStep(t)
  BY <1>1, <1>2, <1>5, <1>13 DEF PushStep
<1>14. CASE \E t \in Poppers : PopStep(t)
  BY <1>6, <1>10, <1>14
<1>15. CASE \E t \in Waiters : WaitCall(t) \/ WaitTest(t)
  BY <1>6, <1>10, <1>15
<1>16. CASE \E t \in Threads : SpuriousWake(t)
  BY <1>6, <1>7, <1>16
<1>17. QED
  BY <1>9, <1>11, <1>12, <1>13, <1>14, <1>15, <1>16 DEF Next

-----------------------------------------------------------------------------
(* The refinement mapping: what the ring holds is a sequence.              *)
ContentsOK ==
  /\ Contents \in Seq(Nat) /\ Len(Contents) = size
  /\ \A i \in 1 .. size : Contents[i] = objects[Slot(i - 1)]

LEMMA ContentsType == IInv => ContentsOK
<1> SUFFICES ASSUME IInv PROVE ContentsOK
  OBVIOUS
<1>1. size \in Nat /\ size <= MaxSize /\ MaxSize \in Nat
  BY MaxSizeAssumption DEF IInv, TypeOK, RingInv
<1>2. \A i \in 1 .. size : objects[Slot(i - 1)] \in Nat
  <2>1. TAKE i \in 1 .. size
  <2>2. i - 1 \in 0 .. MaxSize - 1
    BY <1>1
  <2>3. Slot(i - 1) \in Slots
    BY <2>2, MaxSizeAssumption DEF IInv, TypeOK, Slot, Slots
  <2>4. QED
    BY <2>3 DEF IInv, TypeOK
<1>3. Contents \in [1 .. size -> Nat]
  BY <1>2 DEF Contents
<1>4. Contents \in Seq(Nat)
  BY <1>1, <1>3, SeqDef
<1>5. Len(Contents) = size
  BY <1>1, <1>3, <1>4, LenProperties
<1>6. QED
  BY <1>4, <1>5 DEF Contents, ContentsOK

(* Nothing the mapping reads changes.                                      *)
LEMMA ContentsKept ==
  ASSUME UNCHANGED <<objects, writer, size>>
  PROVE  Contents' = Contents
<1>1. \A i \in Int : Slot(i)' = Slot(i)
  BY DEF Slot
<1>2. QED
  BY <1>1 DEF Contents, Slot

(* push() appends.                                                         *)
LEMMA StoreAppends ==
  ASSUME IInv, IInv', NEW t \in Pushers, PushStore(t)
  PROVE  Contents' = Append(Contents, item[t])
<1>1. /\ size \in Nat /\ size < MaxSize /\ writer \in Slots /\ MaxSize \in Nat
      /\ item[t] \in Nat /\ objects \in [Slots -> Nat]
      /\ writer' = writer /\ size' = size + 1
      /\ objects' = [objects EXCEPT ![Slot(size)] = item[t]]
  BY MaxSizeAssumption DEF PushStore, IInv, TypeOK, RoomToStore, RingInv
<1>2. \A i \in Int : Slot(i)' = Slot(i)
  BY <1>1 DEF Slot
<1>3. /\ Contents \in Seq(Nat) /\ Len(Contents) = size
      /\ \A i \in 1 .. size : Contents[i] = objects[Slot(i - 1)]
  BY ContentsType DEF ContentsOK
<1>4. /\ Contents' \in Seq(Nat) /\ Len(Contents') = size + 1
      /\ \A i \in 1 .. size + 1 : Contents'[i] = objects'[Slot(i - 1)']
  <2>1. /\ Contents' \in Seq(Nat) /\ Len(Contents') = size'
        /\ \A i \in 1 .. size' : Contents'[i] = objects'[Slot(i - 1)']
    <3>1. ContentsOK'
      BY ContentsType, PTL
    <3>2. QED
      BY <3>1 DEF ContentsOK
  <2>2. QED
    BY <1>1, <2>1
<1>5. \A i \in 1 .. size : Contents'[i] = Contents[i]
  <2>1. TAKE i \in 1 .. size
  <2>2. /\ i - 1 \in 0 .. MaxSize - 1 /\ size \in 0 .. MaxSize - 1
        /\ i - 1 # size /\ i \in 1 .. size + 1
    BY <1>1
  <2>3. Slot(i - 1) \in Slots /\ Slot(i - 1) # Slot(size)
    BY <1>1, <2>2, SlotsDiffer
  <2>4. objects'[Slot(i - 1)] = objects[Slot(i - 1)]
    BY <1>1, <2>3
  <2>5. QED
    BY <1>2, <1>3, <1>4, <2>2, <2>4
<1>6. Contents'[size + 1] = item[t]
  <2>1. Slot(size) \in Slots
    BY <1>1 DEF Slot, Slots
  <2>2. size + 1 \in 1 .. size + 1 /\ size + 1 - 1 = size
    BY <1>1
  <2>3. QED
    BY <1>1, <1>2, <1>4, <2>1, <2>2
<1>7. /\ Append(Contents, item[t]) \in Seq(Nat)
      /\ Len(Append(Contents, item[t])) = size + 1
      /\ \A i \in 1 .. size : Append(Contents, item[t])[i] = Contents[i]
      /\ Append(Contents, item[t])[size + 1] = item[t]
  BY <1>1, <1>3, AppendProperties
<1>8. \A i \in 1 .. size + 1 : Contents'[i] = Append(Contents, item[t])[i]
  <2>1. \A i \in 1 .. size + 1 : i \in 1 .. size \/ i = size + 1
    BY <1>1
  <2>2. QED
    BY <1>5, <1>6, <1>7, <2>1
<1>9. QED
  BY <1>4, <1>7, <1>8, SeqEqual

(* pop() takes the head.                                                   *)
LEMMA TakeShifts ==
  ASSUME IInv, IInv', NEW t \in Poppers, PopObject(t)
  PROVE  Contents # <<>> /\ Contents' = Tail(Contents)
<1>1. /\ size \in Nat /\ size > 0 /\ size <= MaxSize /\ writer \in Slots
      /\ MaxSize \in Nat
      /\ writer' = After(writer) /\ size' = size - 1 /\ objects' = objects
  BY MaxSizeAssumption DEF PopObject, IInv, TypeOK, RingInv
<1>2. /\ Contents \in Seq(Nat) /\ Len(Contents) = size
      /\ \A i \in 1 .. size : Contents[i] = objects[Slot(i - 1)]
  BY ContentsType DEF ContentsOK
<1>3. /\ Contents' \in Seq(Nat) /\ Len(Contents') = size - 1
      /\ \A i \in 1 .. size - 1 : Contents'[i] = objects'[Slot(i - 1)']
  <2>1. /\ Contents' \in Seq(Nat) /\ Len(Contents') = size'
        /\ \A i \in 1 .. size' : Contents'[i] = objects'[Slot(i - 1)']
    <3>1. ContentsOK'
      BY ContentsType, PTL
    <3>2. QED
      BY <3>1 DEF ContentsOK
  <2>2. QED
    BY <1>1, <2>1
<1>4. Contents # <<>>
  BY <1>1, <1>2, EmptySeq
<1>5. /\ Tail(Contents) \in Seq(Nat) /\ Len(Tail(Contents)) = size - 1
      /\ \A i \in 1 .. size - 1 : Tail(Contents)[i] = Contents[i + 1]
  BY <1>2, <1>4, HeadTailProperties
<1>6. \A i \in 1 .. size - 1 : Contents'[i] = Contents[i + 1]
  <2>1. TAKE i \in 1 .. size - 1
  <2>2. /\ i - 1 \in 0 .. MaxSize - 1 /\ (i + 1) - 1 = (i - 1) + 1
        /\ i + 1 \in 1 .. size
    BY <1>1
  <2>3. Slot(i - 1)' = Slot((i - 1) + 1)
    BY <1>1, <2>2, SlotShift
  <2>4. QED
    BY <1>1, <1>2, <1>3, <2>2, <2>3
<1>7. QED
  BY <1>3, <1>4, <1>5, <1>6, SeqEqual

(* open() rewinds an empty ring.                                           *)
LEMMA OpenEmpty ==
  ASSUME IInv, IInv', ~LeftoverReopen, Open
  PROVE  Contents' = Contents
<1>1. size = 0 /\ size' = 0
  BY DEF Open
<1>2. /\ Contents \in Seq(Nat) /\ Len(Contents) = 0
      /\ Contents' \in Seq(Nat) /\ Len(Contents') = 0
  <2>1. Contents \in Seq(Nat) /\ Len(Contents) = size
    BY ContentsType DEF ContentsOK
  <2>2. Contents' \in Seq(Nat) /\ Len(Contents') = size'
    <3>1. ContentsOK'
      BY ContentsType, PTL
    <3>2. QED
      BY <3>1 DEF ContentsOK
  <2>3. QED
    BY <1>1, <2>1, <2>2
<1>3. QED
  BY <1>2, EmptySeq

-----------------------------------------------------------------------------
(* Every step of the queue is one of the channel, or none.                 *)
LEMMA RefineStep ==
  ASSUME RefineInv, RefineInv', ~LeftoverReopen, [Next]_vars
  PROVE  [Channel!Next]_(Channel!vars)
<1> USE DEF ring, flags, bounds, history
<1>0. IInv /\ IInv' /\ ItemInv
  BY DEF RefineInv
<1> DEFINE Step == [Channel!Next]_(Channel!vars)
<1>1. ASSUME Open PROVE Step
  <2>1. Channel!Admit
    BY <1>0, <1>1, OpenEmpty DEF Open, Channel!Admit
  <2>2. QED
    BY <2>1 DEF Channel!Next
<1>2. ASSUME OpenSignal PROVE Step
  <2>1. Channel!ForgetSignal
    BY <1>2, ContentsKept DEF OpenSignal, Channel!ForgetSignal
  <2>2. QED
    BY <2>1 DEF Channel!Next
<1>3. ASSUME CloseShut PROVE Step
  <2>1. Channel!Shut
    BY <1>3, ContentsKept DEF CloseShut, Channel!Shut
  <2>2. QED
    BY <2>1 DEF Channel!Next
<1>4. ASSUME NEW urgent \in BOOLEAN, CloseUrgency(urgent) PROVE Step
  <2>1. Channel!ChooseUrgency(urgent)
    BY <1>4, ContentsKept DEF CloseUrgency, Channel!ChooseUrgency
  <2>2. QED
    BY <2>1 DEF Channel!Next
<1>5. ASSUME NEW t \in Signalers, SignalSet(t) PROVE Step
  <2>1. Channel!Signal
    BY <1>5, ContentsKept DEF SignalSet, Channel!Signal
  <2>2. QED
    BY <2>1 DEF Channel!Next
<1>6. ASSUME NEW t \in Pushers, PushStore(t) PROVE Step
  <2>1. Contents' = Append(Contents, item[t])
    BY <1>0, <1>6, StoreAppends
  <2>2. /\ is_open /\ UNCHANGED <<is_open, signal, urgent_close>>
        /\ pc[t] = "push_store"
    BY <1>6 DEF PushStore
  <2>3. Len(Contents) < MaxSize
    BY <1>0, <2>2, ContentsType DEF ContentsOK, IInv, RoomToStore
  <2>4. item[t] \in 1 .. MaxPushes
    BY <1>0, <2>2 DEF ItemInv
  <2>5. Channel!Put(item[t])
    BY <2>1, <2>2, <2>3 DEF Channel!Put
  <2>6. QED
    BY <2>4, <2>5 DEF Channel!Next
<1>7. ASSUME NEW t \in Poppers, PopSignal(t) PROVE Step
  <2>1. Channel!TakeSignal
    BY <1>7, ContentsKept DEF PopSignal, Channel!TakeSignal
  <2>2. QED
    BY <2>1 DEF Channel!Next
<1>8. ASSUME NEW t \in Poppers, PopObject(t) PROVE Step
  <2>1. Contents # <<>> /\ Contents' = Tail(Contents)
    BY <1>0, <1>8, TakeShifts
  <2>2. Channel!Take
    BY <1>8, <2>1 DEF PopObject, Channel!Take
  <2>3. QED
    BY <2>2 DEF Channel!Next
<1>9. ASSUME UNCHANGED <<objects, writer, size, is_open, signal, urgent_close>>
      PROVE  Step
  BY <1>9, ContentsKept DEF Channel!vars
<1>10. CASE Open \/ CloseShut \/ OwnerStep
  BY <1>1, <1>2, <1>3, <1>4, <1>9, <1>10 DEF OwnerStep, CloseWake
<1>11. CASE \E t \in Signalers : SignalTest(t) \/ SignalStep(t)
  BY <1>5, <1>9, <1>11 DEF SignalTest, SignalStep, SignalWake
<1>12. CASE \E t \in Pushers : PushCall(t) \/ PushStep(t)
  BY <1>6, <1>9, <1>12
     DEF PushCall, PushStep, PushTest, PushSleep, PushRefused, PushReturn
<1>13. CASE \E t \in Poppers : PopStep(t)
  BY <1>7, <1>8, <1>9, <1>13 DEF PopStep, PopCall, PopTest, PopSleep, PopEnd
<1>14. CASE \E t \in Waiters : WaitCall(t) \/ WaitTest(t)
  BY <1>9, <1>14 DEF WaitCall, WaitTest
<1>15. CASE \E t \in Threads : SpuriousWake(t)
  BY <1>9, <1>15 DEF SpuriousWake
<1>16. CASE UNCHANGED vars
  BY <1>9, <1>16 DEF vars
<1>17. QED
  BY <1>10, <1>11, <1>12, <1>13, <1>14, <1>15, <1>16 DEF Next

(* An unopened queue is an empty channel.                                  *)
LEMMA RefineInit == Init => RefineInv /\ Channel!Init
<1> SUFFICES ASSUME Init PROVE RefineInv /\ Channel!Init
  OBVIOUS
<1>1. IInv
  BY InvariantStart
<1>2. ItemInv
  BY BoundsAssumption, ThreadsAssumption DEF Init, ItemInv, Threads
<1>3. Contents = <<>>
  <2>1. Contents \in Seq(Nat) /\ Len(Contents) = 0
    BY <1>1, ContentsType DEF Init, ContentsOK
  <2>2. QED
    BY <2>1, EmptySeq
<1>4. is_open = FALSE /\ signal \in BOOLEAN /\ urgent_close \in BOOLEAN
  BY FlagsAssumption DEF Init
<1>5. QED
  BY <1>1, <1>2, <1>3, <1>4 DEF RefineInv, Channel!Init

(* The queue is a first-in first-out channel, if open() is only called on  *)
(* an empty one.                                                           *)
THEOREM Implementation ==
  ASSUME ~LeftoverReopen
  PROVE  Spec => ImplementsChannel
<1>1. RefineInv /\ [Next]_vars => RefineInv'
  BY InvariantStep, TypeStep, ItemStep DEF RefineInv, IInv
<1>2. RefineInv /\ RefineInv' /\ [Next]_vars => [Channel!Next]_(Channel!vars)
  BY RefineStep
<1>3. QED
  BY <1>1, <1>2, RefineInit, PTL DEF Spec, ImplementsChannel, Channel!Spec

=============================================================================
