----------------------------- MODULE ProcessMutex -----------------------------
(***************************************************************************)
(* src/src/process_mutex.cpp: processes exclude each other by binding a    *)
(* socket to the address made of one name. Each process has one object,    *)
(* and all of these have the same name.                                    *)
(*                                                                         *)
(* The length of the address counts one byte more than strcpy() writes of  *)
(* the name (process_mutex.cpp:45-49): the last byte is what malloc() left *)
(* there, so that one name makes as many addresses as there are bytes.     *)
(***************************************************************************)
CONSTANTS Processes, Nobody,
          LastBytes         \* what the last byte of an address can be

ASSUME NobodyIsNone == Nobody \notin Processes

VARIABLES
  address,          \* the last byte of the address of each object
  lock,             \* lock_ of each: "none", an "idle" socket, a "bound" one,
                    \* or the number of one that is "gone"
  bound,            \* the process with a socket bound to each address
  granted,          \* those whose last lock() returned 0, no unlock() since
  alive             \* those whose object exists

mutexVars == <<address, lock, bound, granted, alive>>

MutexInit ==
  /\ address \in [Processes -> LastBytes]
  /\ lock = [p \in Processes |-> "none"]
  /\ bound = [b \in LastBytes |-> Nobody]
  /\ granted = {}
  /\ alive = Processes

(* lock(): EBUSY, or socket() fails, or bind() fails and the socket stays, *)
(* or the address is taken.                                                *)
Lock(p) ==
  /\ p \in alive
  /\ UNCHANGED <<address, alive>>
  /\ \/ lock[p] # "none" /\ UNCHANGED <<lock, bound, granted>>
     \/ lock[p] = "none" /\ UNCHANGED <<lock, bound, granted>>
     \/ /\ lock[p] = "none" /\ bound[address[p]] # Nobody
        /\ lock' = [lock EXCEPT ![p] = "idle"]
        /\ UNCHANGED <<bound, granted>>
     \/ /\ lock[p] = "none" /\ bound[address[p]] = Nobody
        /\ lock' = [lock EXCEPT ![p] = "bound"]
        /\ bound' = [bound EXCEPT ![address[p]] = p]
        /\ granted' = granted \cup {p}

(* A mistake the checks notice: the socket is not closed. *)
UnlockOnly(p) ==
  /\ p \in alive
  /\ lock[p] # "none"
  /\ lock' = [lock EXCEPT ![p] = "none"]
  /\ granted' = granted \ {p}
  /\ UNCHANGED <<address, bound, alive>>

(* The system closes the socket p has bound, if it has one. *)
Released(p) == [b \in LastBytes |-> IF bound[b] = p THEN Nobody ELSE bound[b]]

(* unlock() closes the socket, bound or not, that lock() left: after it, a *)
(* process whose lock() failed may try again. close() may say that it      *)
(* failed, and closes all the same; lock_ then stays, for good.            *)
Unlock(p) ==
  /\ p \in alive
  /\ lock[p] # "none"
  /\ \/ lock[p] # "gone" /\ lock' = [lock EXCEPT ![p] = "none"]
     \/ lock' = [lock EXCEPT ![p] = "gone"]
  /\ bound' = Released(p)
  /\ granted' = granted \ {p}
  /\ UNCHANGED <<address, alive>>

(* The destructor closes nothing: the address stays taken. *)
DestroyMutex(p) ==
  /\ p \in alive
  /\ alive' = alive \ {p}
  /\ granted' = granted \ {p}
  /\ UNCHANGED <<address, lock, bound>>

(* The end of a process, and another in its place: sockets are closed, and *)
(* the new object has whatever last byte.                                  *)
Restart(p) ==
  /\ \E b \in LastBytes : address' = [address EXCEPT ![p] = b]
  /\ lock' = [lock EXCEPT ![p] = "none"]
  /\ bound' = Released(p)
  /\ granted' = granted \ {p}
  /\ alive' = alive \cup {p}

MutexNext ==
  \E p \in Processes : Lock(p) \/ Unlock(p) \/ DestroyMutex(p) \/ Restart(p)

MutexSpec == MutexInit /\ [][MutexNext]_mutexVars

(* A process that is told that it has the lock has its address, so that no *)
(* other one of that address is told; and an address is free unless its    *)
(* process was told or its object was destroyed with it. Nothing is said   *)
(* of two objects of one name whose last bytes differ: both can be told.   *)
(* Nor of a process refused once, whose next lock() is refused too,        *)
(* whether the address is free or not, until it calls unlock().            *)
HolderBelieved ==
  /\ \A p \in granted : bound[address[p]] = p
  /\ \A b \in LastBytes :
       bound[b] \in alive => bound[b] \in granted /\ address[bound[b]] = b
=============================================================================
