------------------------------ MODULE QueueSpec ------------------------------
(***************************************************************************)
(* What a Queue (src/include/queue.h) promises, without its ring, its lock *)
(* or its threads: a first-in first-out channel of at most MaxSize         *)
(* objects, with a flag that lets producers in, an out-of-band signal and  *)
(* a flag that makes consumers leave the remaining objects behind.         *)
(*                                                                         *)
(* Queue implements this module, and ThreadsManager uses its actions as    *)
(* the operations of the queue the monitor thread reads from.              *)
(***************************************************************************)
EXTENDS Naturals, Sequences

CONSTANTS
  MaxSize,        \* Queue::Private::max_size, at least 1
  Objects         \* what may be queued (void* in the code)

VARIABLES
  contents,       \* the queued objects, oldest first
  is_open,        \* push() is let in
  signal,         \* a signal() has not been consumed yet
  urgent_close    \* pop() leaves the objects where they are

vars == <<contents, is_open, signal, urgent_close>>

TypeOK ==
  /\ contents \in Seq(Objects)
  /\ Len(contents) <= MaxSize
  /\ is_open \in BOOLEAN
  /\ signal \in BOOLEAN
  /\ urgent_close \in BOOLEAN

(* The constructor sets is_open and size only. *)
Init ==
  /\ contents = <<>>
  /\ is_open = FALSE
  /\ signal \in BOOLEAN
  /\ urgent_close \in BOOLEAN

(* open() with nobody around; urgent_close keeps the value the last close()*)
(* gave it.                                                                *)
Open ==
  /\ is_open' = TRUE
  /\ signal' = FALSE
  /\ UNCHANGED <<contents, urgent_close>>

(* The first of open()'s two assignments, which no lock groups: a producer  *)
(* or a signal() may come before the second.                               *)
Admit ==
  /\ is_open' = TRUE
  /\ UNCHANGED <<contents, signal, urgent_close>>

ForgetSignal ==
  /\ signal' = FALSE
  /\ UNCHANGED <<contents, is_open, urgent_close>>

(* close() is two assignments that no lock groups. *)
Shut ==
  /\ is_open' = FALSE
  /\ UNCHANGED <<contents, signal, urgent_close>>

ChooseUrgency(urgent) ==
  /\ urgent_close' = urgent
  /\ UNCHANGED <<contents, is_open, signal>>

(* signal() may have seen the queue open before somebody closed it. *)
Signal ==
  /\ signal' = TRUE
  /\ UNCHANGED <<contents, is_open, urgent_close>>

(* A mistake the checks notice: the capacity is not enforced. *)
PutWithoutLimit(d) ==
  /\ is_open
  /\ contents' = Append(contents, d)
  /\ UNCHANGED <<is_open, signal, urgent_close>>

(* push() on an open queue; it sleeps while there is no room. *)
Put(d) ==
  /\ is_open
  /\ Len(contents) < MaxSize
  /\ contents' = Append(contents, d)
  /\ UNCHANGED <<is_open, signal, urgent_close>>

(* pop() returns 1. *)
TakeSignal ==
  /\ signal
  /\ signal' = FALSE
  /\ UNCHANGED <<contents, is_open, urgent_close>>

(* pop() returns 0. *)
Take ==
  /\ ~signal
  /\ ~urgent_close
  /\ contents # <<>>
  /\ contents' = Tail(contents)
  /\ UNCHANGED <<is_open, signal, urgent_close>>

(* pop() returns -1: it does not sleep and has nothing to deliver. *)
NothingToTake ==
  /\ ~signal
  /\ IF contents = <<>> THEN ~is_open ELSE urgent_close
  /\ UNCHANGED vars

Next ==
  \/ Open \/ Admit \/ ForgetSignal
  \/ Shut
  \/ \E urgent \in BOOLEAN : ChooseUrgency(urgent)
  \/ Signal
  \/ \E d \in Objects : Put(d)
  \/ TakeSignal
  \/ Take

Spec == Init /\ [][Next]_vars

=============================================================================
