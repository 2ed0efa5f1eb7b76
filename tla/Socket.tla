------------------------------- MODULE Socket -------------------------------
(***************************************************************************)
(* src/src/socket.cpp: a Socket that listens, one that connects ("client") *)
(* and a copy of the first that only accepts ("child"), with what the      *)
(* kernel does for them. The client puts and the child gets.               *)
(*                                                                         *)
(* A stream is what was sent over a connection and not received yet.       *)
(* Sending only adds to it and receiving only takes from it, so that what  *)
(* put() makes of one buffer is one step, and so is what get() waits for.  *)
(* Retries after EINTR and EAGAIN change nothing, and a stream has room    *)
(* for all its bytes.                                                      *)
(***************************************************************************)
EXTENDS Integers, Sequences, FiniteSets

CONSTANTS
  MaxConnections,   \* bound: connections made
  MaxRefused,       \* bound: failed connect() and failed listen()
  MaxGarbage,       \* bound on spare
  MaxTrouble,       \* bound: connections that are lost or get garbage
  Garbage           \* a byte from beyond the end of the caller's buffer

VARIABLES
  listen_fd,        \* data->listen_socket: "none", "unusable" or "listening"
  conn_socket,      \* the connection each Socket holds, 0 if none
  backlog,          \* connections not accepted yet
  made,             \* connections so far
  refused,
  descriptors,      \* how many the kernel has open
  stranded,         \* those a failed connect() left without an owner
  stream,
  closed,           \* who closed which connection
  lost,             \* connections that were cut
  torn,             \* connections over which garbage was sent
  spare             \* bound: how far beyond its buffer put() can send

listening == <<listen_fd, backlog, made, refused, stranded>>
transfer == <<stream, closed, lost, torn>>
life == <<listening, conn_socket, descriptors>>
socketVars == <<life, transfer, spare>>

Connections == 1 .. MaxConnections
Ends == {"client", "child"}

SocketTypeOK ==
  /\ listen_fd \in {"none", "unusable", "listening"}
  /\ conn_socket \in [Ends -> 0 .. MaxConnections]
  /\ backlog \subseteq Connections
  /\ made \in 0 .. MaxConnections
  /\ refused \in 0 .. MaxRefused
  /\ descriptors \in Nat
  /\ stranded \in 0 .. MaxRefused
  /\ DOMAIN stream = Connections
  /\ closed \subseteq Ends \X Connections
  /\ lost \subseteq Connections
  /\ torn \subseteq Connections
  /\ spare \in 0 .. MaxGarbage

SocketInit(fd) ==
  /\ listen_fd = fd
  /\ conn_socket = [e \in Ends |-> 0]
  /\ backlog = {}
  /\ made = 0
  /\ refused = 0
  /\ descriptors = IF fd = "none" THEN 0 ELSE 1
  /\ stranded = 0
  /\ stream = [c \in Connections |-> <<>>]
  /\ closed = {}
  /\ lost = {}
  /\ torn = {}
  /\ spare \in 0 .. MaxGarbage

-----------------------------------------------------------------------------
(* listen(): the descriptor stays in listen_socket when bind() or ::listen *)
(* fails, so that only release() allows another try. release() resets the  *)
(* connections nobody accepted.                                            *)

Listen ==
  /\ listen_fd = "none"
  /\ \/ listen_fd' = "listening" /\ UNCHANGED refused
     \/ listen_fd' = "unusable" /\ refused < MaxRefused /\ refused' = refused + 1
  /\ descriptors' = descriptors + 1
  /\ UNCHANGED <<conn_socket, backlog, made, stranded, transfer, spare>>

Release ==
  /\ listen_fd # "none"
  /\ listen_fd' = "none"
  /\ descriptors' = descriptors - 1
  /\ lost' = lost \cup backlog
  /\ backlog' = {}
  /\ UNCHANGED <<conn_socket, made, refused, stranded, stream, closed, torn, spare>>

(* open() without listen(): connect to the server. A refused connect()     *)
(* forgets the descriptor it was tried with. *)
Connect ==
  /\ conn_socket["client"] = 0
  /\ descriptors' = descriptors + 1
  /\ \/ /\ listen_fd = "listening"
        /\ made < MaxConnections
        /\ made' = made + 1
        /\ backlog' = backlog \cup {made'}
        /\ conn_socket' = [conn_socket EXCEPT !["client"] = made']
        /\ UNCHANGED <<refused, stranded>>
     \/ /\ listen_fd # "listening"
        /\ refused < MaxRefused
        /\ refused' = refused + 1
        /\ stranded' = stranded + 1
        /\ UNCHANGED <<made, backlog, conn_socket>>
  /\ UNCHANGED <<listen_fd, transfer, spare>>

(* A mistake the checks notice: an open socket accepts, and loses the      *)
(* descriptor it held. *)
AcceptAnyway ==
  /\ listen_fd = "listening"
  /\ \E c \in backlog :
       /\ \A d \in backlog : c <= d
       /\ backlog' = backlog \ {c}
       /\ conn_socket' = [conn_socket EXCEPT !["child"] = c]
  /\ descriptors' = descriptors + 1
  /\ UNCHANGED <<listen_fd, made, refused, stranded, transfer, spare>>

(* open() of a copy: accept on the descriptor of the socket it copies. *)
Accept ==
  /\ conn_socket["child"] = 0
  /\ listen_fd = "listening"
  /\ \E c \in backlog :
       /\ \A d \in backlog : c <= d
       /\ backlog' = backlog \ {c}
       /\ conn_socket' = [conn_socket EXCEPT !["child"] = c]
  /\ descriptors' = descriptors + 1
  /\ UNCHANGED <<listen_fd, made, refused, stranded, transfer, spare>>

Close(e) ==
  /\ conn_socket[e] # 0
  /\ closed' = closed \cup {<<e, conn_socket[e]>>}
  /\ conn_socket' = [conn_socket EXCEPT ![e] = 0]
  /\ descriptors' = descriptors - 1
  /\ UNCHANGED <<listening, stream, lost, torn, spare>>

(* The network: an established connection is cut, both ends will know. *)
Cut(c) ==
  /\ c \in {conn_socket[e] : e \in Ends} \ {0}
  /\ c \notin lost
  /\ Cardinality(lost) + Cardinality(torn) < MaxTrouble
  /\ lost' = lost \cup {c}
  /\ UNCHANGED <<listening, conn_socket, descriptors, stream, closed, torn, spare>>

-----------------------------------------------------------------------------
(* put(): each turn of the loop sends a part of &buffer[sent], of which it *)
(* says that it still has the whole length. The outcomes are what got on   *)
(* the stream before the loop ended, or an error ended it. *)

Smaller(a, b) == IF a < b THEN a ELSE b

Beyond(buffer, count) ==
  [i \in 1 .. count |-> IF i <= Len(buffer) THEN buffer[i] ELSE Garbage]

(* What can be sent after some turns: any part, in turns of one byte, and  *)
(* from any part what the last turn adds to it. *)
Turns(buffer) ==
  {0} \cup UNION {{sent + size : size \in 1 .. Smaller(Len(buffer), Len(buffer) + spare - sent)} :
                    sent \in 0 .. Len(buffer) - 1}

PutOutcomes(buffer) ==
  {[ok |-> sent >= Len(buffer), bytes |-> Beyond(buffer, sent)] : sent \in Turns(buffer)}

Torn(bytes) == \E i \in 1 .. Len(bytes) : bytes[i] = Garbage

(* An outcome of put() on the client: an error is for ever, be it that the *)
(* connection was cut or that the other end is closed. *)
Transmit(outcome) ==
  LET c == conn_socket["client"]
  IN /\ IF c = 0 \/ c \in lost
        THEN ~ outcome.ok /\ outcome.bytes = <<>> /\ UNCHANGED <<stream, lost, torn, spare>>
        ELSE /\ stream' = [stream EXCEPT ![c] = @ \o outcome.bytes]
             /\ lost' = IF outcome.ok THEN lost ELSE lost \cup {c}
             /\ torn' = IF Torn(outcome.bytes) THEN torn \cup {c} ELSE torn
             /\ Cardinality(lost') + Cardinality(torn') <= MaxTrouble
     /\ UNCHANGED <<life, closed, spare>>

(* A mistake the checks notice: get() waits on after the other end closed. *)
OverOnError(c) == c \in lost

(* get() waits until all is there, or nothing more can come: the other end *)
(* closed or died, or an error. *)
Over(c) == <<"client", c>> \in closed \/ c \in lost

Obtain(c, count) ==
  /\ stream' = [stream EXCEPT ![c] = SubSeq(@, count + 1, Len(@))]
  /\ UNCHANGED <<life, closed, lost, torn, spare>>

(* Every descriptor the kernel has open is held by a Socket, which will    *)
(* close it, except those of failed connect() calls (open(), 244-271).     *)
Owned ==
  descriptors = stranded + (IF listen_fd = "none" THEN 0 ELSE 1)
                + Cardinality({e \in Ends : conn_socket[e] # 0})
=============================================================================
