----------------------------- MODULE TlvManagers -----------------------------
(***************************************************************************)
(* src/src/tlv_helper.cpp: a TransmissionManager writes a list of objects  *)
(* to a Sender as one message from START to END, and a ReceptionManager    *)
(* receives them into the variables of its caller. A blob travels in parts *)
(* of MaxLength bytes, ended by a shorter one. Over them, TlvOutput and    *)
(* TlvManager of src/src/report.cpp carry the lines of a log.              *)
(*                                                                         *)
(* The caller of either end may go on after a failure with the manager     *)
(* that failed, or with a new one.                                         *)
(***************************************************************************)
EXTENDS Tlv

CONSTANTS
  Scripts,          \* the lists of objects that are sent
  Brittle,          \* those with which put() sends garbage
  Capacity,         \* room for a blob at the receiving end
  Chains,           \* how many managers may be chained for sending
  MaxSends,         \* bound: calls of send() and of log()
  MaxCalls,         \* bound: calls of start(), check() and end()
  MaxReceives       \* bound: calls of receive()

Kinds == {"void", "bool", "int", "string", "blob", "big"}
Sendable == [kind : Kinds, tag : DataTags, data : Seq(Nat), fails : BOOLEAN]

(* A blob has no end unless a part can be shorter than the longest, and    *)
(* the objects of a log line have their tags.                              *)
ASSUME TlvAssumption ==
  /\ {MaxConnections, MaxRefused, MaxGarbage, MaxTrouble, Capacity} \subseteq Nat
  /\ MaxLength \in Nat \ {0}
  /\ {"size", "log", "message"} \subseteq DataTags
  /\ Misread # {} /\ Misread \subseteq [tag : Tags, len : Nat]
  /\ Scripts \subseteq Seq(Sendable)
  /\ Chains \subseteq Nat \ {0}

VARIABLES
  use,              \* bound: what the sockets are there for, one of Uses
  objects,          \* TransmissionManager::_objects, what they hold
  tx,               \* and how much of each is sent
  chain,            \* how many managers next() goes through
  tm_started,       \* TransmissionManager::_started
  framed,           \* start_and_end
  sending,          \* whether send() runs
  at,               \* its iterator in _objects
  passes,           \* managers left in the chain
  sent,             \* what the last send() returned
  sends,
  calls,            \* start(), check() and end() called by the client itself
  rx,               \* ReceptionManager::_objects by tag
  receiving,        \* whether receive() runs
  received,         \* what the last receive() returned
  receives,
  wrote,            \* what send() put on the stream for each object, in this
                    \* pass: the bytes of one message after the other
  forgiven,         \* whether the Sender was started or checked while its
                    \* manager was in the middle of an object, after a failure
  tainted,          \* connections over which a manager that failed, or its
                    \* successor, sends on, or where a receive() failed
  rx_stale,         \* whether the manager received on after a failure
  emitted,          \* lines given to TlvOutput::log()
  logged            \* lines that TlvManager logs

callVars == <<use, chain, framed, at, passes, sends, emitted, objects>>
ghosts == <<wrote, forgiven>>
txVars == <<callVars, tx, tm_started, sending, sent, calls, ghosts, tainted>>
rxVars == <<rx, receiving, received, receives, rx_stale, logged>>
vars == <<tlvVars, txVars, rxVars>>

(* With "lifecycle", the server listens and releases and nothing is sent.  *)
(* With the two others it listens throughout. Managers are only chained to  *)
(* send a single object. *)
Uses == {"lifecycle", "message", "log"}
Results == {"none", "ok", "error"}

TypeOK ==
  /\ TlvTypeOK
  /\ at \in 1 .. Len(objects) + 1
  /\ passes \in 0 .. chain
  /\ sent \in Results
  /\ received \in Results
  /\ \A i \in 1 .. Len(objects) : tx[i].sent <= Len(objects[i].data)
  /\ \A tag \in DOMAIN rx :
       rx[tag].kind = "blob" => /\ Len(rx[tag].buffer) = rx[tag].capacity
                                /\ rx[tag].received <= rx[tag].capacity

Armed(list) == [i \in 1 .. Len(list) |-> [ready |-> TRUE, sent |-> 0, ended |-> FALSE]]
Nothing(list) == [i \in 1 .. Len(list) |-> <<>>]

(* What the caller's variables hold before a message: nothing it may hold. *)
Unset == -1
Blank(object) ==
  [object EXCEPT !.buffer = [i \in 1 .. IF object.kind = "blob" THEN object.capacity ELSE 1
                               |-> Unset]]
Target(kind, capacity) ==
  Blank([kind |-> kind, capacity |-> capacity, received |-> 0, buffer |-> <<>>])

Targets ==
  [tag \in DataTags \ {"odd"} |->
     IF tag \in {"blob", "big"} THEN Target(tag, Capacity)
     ELSE Target(IF tag = "log" THEN "blob"
                 ELSE IF tag = "size" THEN "int"
                 ELSE IF tag \in {"bool", "int", "string"} THEN tag
                 ELSE "void", 0)]

Logging == use = "log"

Init ==
  /\ use \in Uses
  /\ TlvInit(IF use = "lifecycle" THEN "none" ELSE "listening")
  /\ objects \in IF use = "message" THEN Scripts ELSE {<<>>}
  /\ tx = Armed(objects)
  /\ chain \in Chains
  /\ chain > 1 => Len(objects) = 1
  /\ spare > 0 => objects \in Brittle
  /\ tm_started = FALSE
  /\ framed = FALSE
  /\ sending = FALSE
  /\ at = 1
  /\ passes = 0
  /\ sent = "none"
  /\ sends = 0
  /\ calls = 0
  /\ rx = Targets
  /\ receiving = FALSE
  /\ received = "none"
  /\ receives = 0
  /\ wrote = Nothing(objects)
  /\ forgiven = FALSE
  /\ tainted = {}
  /\ rx_stale = FALSE
  /\ emitted = <<>>
  /\ logged = <<>>

-----------------------------------------------------------------------------
(* IObject::ready(): whether there is more to send of this object, and     *)
(* what. The answer FALSE re-arms the object for the next send().          *)

Part(data, from) == SubSeq(data, from + 1, Smaller(from + MaxLength, Len(data)))

(* A mistake the checks notice: the object is not armed again. *)
ReadyOnly(object, state) ==
  [more |-> state.ready, fails |-> FALSE, part |-> object.data,
   state |-> [state EXCEPT !.ready = FALSE]]

ReadyOnce(object, state) ==
  [more |-> state.ready, fails |-> FALSE, part |-> object.data,
   state |-> [state EXCEPT !.ready = ~ @]]

(* A mistake the checks notice: a full part is taken for the last. *)
LastIfFull(part) == Len(part) <= MaxLength

(* A part of less than MaxLength is the last, even if it is empty. *)
Last(part) == Len(part) < MaxLength

ReadyBlob(object, state) ==
  LET part == Part(object.data, state.sent)
  IN IF state.ended
     THEN [more |-> FALSE, fails |-> FALSE, part |-> <<>>,
           state |-> [state EXCEPT !.ended = FALSE, !.sent = 0]]
     ELSE [more |-> TRUE, fails |-> FALSE, part |-> part,
           state |-> [state EXCEPT !.ended = Last(part),
                                   !.sent = @ + Len(part)]]

(* The caller's function gives one part after the other, and then nothing  *)
(* or, as its error, a negative length. *)
ReadyBigBlob(object, state) ==
  LET part == Part(object.data, state.sent)
  IN IF state.ended
     THEN [more |-> FALSE, fails |-> FALSE, part |-> <<>>,
           state |-> [state EXCEPT !.ended = FALSE]]
     ELSE [more |-> TRUE, fails |-> part = <<>> /\ object.fails, part |-> part,
           state |-> IF part = <<>>
                     THEN [state EXCEPT !.sent = 0, !.ended = ~ object.fails]
                     ELSE [state EXCEPT !.sent = @ + Len(part)]]

Ready(object, state) ==
  IF object.kind = "blob" THEN ReadyBlob(object, state)
  ELSE IF object.kind = "big" THEN ReadyBigBlob(object, state)
  ELSE ReadyOnce(object, state)

-----------------------------------------------------------------------------
(* TransmissionManager::send(). It goes through the managers chained to    *)
(* this one, and sends its own objects each time.                          *)

Idle == ~ sending
OnlySender == UNCHANGED rxVars

(* Sending on after a failure spoils a connection, and the failure itself  *)
(* does not: it may have cut the stream anywhere in a message. *)
Taint ==
  tainted' = IF sent = "error" THEN tainted \cup ({conn_socket["client"]} \ {0}) ELSE tainted

Returns(result) ==
  /\ sending' = FALSE
  /\ sent' = result
  /\ wrote' = Nothing(objects)

BeginObjects(list) ==
  /\ sending' = TRUE
  /\ sent' = "none"
  /\ at' = 1
  /\ passes' = chain
  /\ wrote' = Nothing(list)

(* What a step puts on the client's stream. *)
Added ==
  LET c == conn_socket["client"]
  IN IF c = 0 THEN <<>> ELSE SubSeq(stream'[c], Len(stream[c]) + 1, Len(stream'[c]))

CallSend ==
  /\ Idle
  /\ use = "message"
  /\ conn_socket["client"] # 0
  /\ sends < MaxSends
  /\ sends' = sends + 1
  /\ framed' = TRUE
  /\ Taint
  /\ IF tm_started
     THEN BeginObjects(objects) /\ UNCHANGED <<tlvVars, tm_started>>
     ELSE \E ok \in BOOLEAN :
            /\ SenderStart(ok)
            /\ tm_started' = ok
            /\ IF ok THEN BeginObjects(objects) ELSE Returns("error") /\ UNCHANGED <<at, passes>>
  /\ OnlySender
  /\ UNCHANGED <<use, objects, tx, chain, calls, forgiven, emitted>>

(* What the client does with the Sender itself: start() before a message,  *)
(* through the manager if it has one, check() to see whether the other end *)
(* is there, and end() after a log. Bound: only if there is one connection *)
(* and no garbage. *)
CallItself ==
  /\ Idle
  /\ use # "lifecycle"
  /\ conn_socket["client"] # 0
  /\ calls < MaxCalls
  /\ made = 1
  /\ spare = 0
  /\ calls' = calls + 1
  /\ \E ok \in BOOLEAN :
       \/ /\ ~ started
          /\ SenderStart(ok)
          /\ tm_started' = (tm_started \/ (ok /\ ~ Logging))
       \/ started /\ SenderCheck(ok) /\ UNCHANGED tm_started
       \/ Logging /\ started /\ SenderLast("END", <<>>, ok) /\ UNCHANGED tm_started
  /\ forgiven' = (forgiven \/ tx # Armed(objects))
  /\ OnlySender
  /\ UNCHANGED <<callVars, tx, sending, sent, wrote, tainted>>

(* TlvOutput::log(): a new manager, sent without START and END. Of the ten *)
(* objects of a line, those that the receiving end treats apart. *)
Line(number, size) ==
  <<[kind |-> "int", tag |-> "size", data |-> <<size>>, fails |-> FALSE],
    [kind |-> "blob", tag |-> "log", data |-> [i \in 1 .. size |-> number], fails |-> FALSE],
    [kind |-> "blob", tag |-> "message", data |-> <<number>>, fails |-> FALSE]>>

Log ==
  /\ Idle
  /\ Logging
  /\ started
  /\ sends < MaxSends
  /\ sends' = sends + 1
  /\ \E size \in 0 .. Capacity :
       /\ objects' = Line(sends', size)
       /\ emitted' = Append(emitted, size)
  /\ tx' = Armed(objects')
  /\ framed' = FALSE
  /\ forgiven' = FALSE
  /\ Taint
  /\ BeginObjects(objects')
  /\ OnlySender
  /\ UNCHANGED <<tlvVars, use, chain, tm_started, calls>>

SendObject ==
  /\ sending
  /\ at <= Len(objects)
  /\ LET answer == Ready(objects[at], tx[at])
     IN /\ tx' = [tx EXCEPT ![at] = answer.state]
        /\ IF ~ answer.more
           THEN at' = at + 1 /\ UNCHANGED <<tlvVars, sending, sent, wrote>>
           ELSE /\ UNCHANGED at
                /\ \E ok \in BOOLEAN :
                     IF answer.fails
                     THEN SenderLast("ERROR", <<1>>, ok) /\ Returns("error")
                     ELSE /\ SenderWrite(objects[at].tag, answer.part, ok)
                          /\ IF ok
                             THEN /\ wrote' = [wrote EXCEPT ![at] = Append(@, Added)]
                                  /\ UNCHANGED <<sending, sent>>
                             ELSE Returns("error")
  /\ OnlySender
  /\ UNCHANGED <<use, objects, chain, tm_started, framed, passes, sends, calls, forgiven, tainted, emitted>>

(* The end of the list: again, if a manager is chained to this one, or END. *)
NextManager ==
  /\ sending
  /\ at > Len(objects)
  /\ passes' = passes - 1
  /\ \/ /\ passes > 1
        /\ at' = 1
        /\ wrote' = Nothing(objects)
        /\ UNCHANGED <<tlvVars, tm_started, sending, sent>>
     \/ /\ passes = 1
        /\ framed /\ tm_started
        /\ UNCHANGED at
        /\ \E ok \in BOOLEAN :
             /\ SenderLast("END", <<>>, ok)
             /\ tm_started' = ~ ok
             /\ Returns(IF ok THEN "ok" ELSE "error")
     \/ /\ passes = 1
        /\ ~ (framed /\ tm_started)
        /\ Returns("ok")
        /\ UNCHANGED <<at, tlvVars, tm_started>>
  /\ forgiven' = (forgiven /\ sent' # "ok")
  /\ OnlySender
  /\ UNCHANGED <<use, objects, tx, chain, framed, sends, calls, tainted, emitted>>

(* A new Sender and a new manager, after a failure. *)
RenewSender ==
  /\ Idle
  /\ sent = "error"
  /\ sent' = "none"
  /\ tx' = Armed(objects)
  /\ tm_started' = FALSE
  /\ started' = FALSE
  /\ failed' = FALSE
  /\ forgiven' = FALSE
  /\ Taint
  /\ OnlySender
  /\ UNCHANGED <<socketVars, callVars, sending, calls, wrote>>

-----------------------------------------------------------------------------
(* ReceptionManager::submit(): what an object of this end makes of a value. *)

Widest == 9         \* a number as long as its type allows, which is refused

(* A mistake the checks notice: the bytes received before are not counted. *)
FitsAlone(object, value) == Len(value) <= object.capacity

Fits(object, value) == object.received + Len(value) <= object.capacity

(* After the last part, a zero if there is room for it. *)
SubmitBlob(object, value) ==
  LET after == object.received + Len(value)
      last == Last(value)
  IN [ok |-> Fits(object, value),
      object |-> [object EXCEPT
        !.buffer = [i \in DOMAIN @ |->
                      IF i \in object.received + 1 .. after THEN value[i - object.received]
                      ELSE IF last /\ i = after + 1 THEN 0 ELSE @[i]],
        !.received = IF last THEN 0 ELSE after]]

(* The caller's function, as a program would write it: it collects parts   *)
(* up to the empty one, and fails if there are too many. *)
SubmitBigBlob(object, value) ==
  [ok |-> Fits(object, value),
   object |-> [object EXCEPT
     !.buffer = IF object.received = 0 THEN value ELSE @ \o value,
     !.received = IF value = <<>> THEN 0 ELSE @ + Len(value)]]

Submit(object, value) ==
  IF object.kind = "blob" THEN SubmitBlob(object, value)
  ELSE IF object.kind = "big" THEN SubmitBigBlob(object, value)
  ELSE [ok |-> object.kind = "int" => value \notin {<<>>, <<Widest>>},
        object |-> [object EXCEPT
          !.buffer = IF object.kind = "void" THEN @
                     ELSE IF object.kind = "bool" /\ value # <<>> THEN <<1>>
                     ELSE value]]

Value(bytes) ==
  [i \in 1 .. Len(bytes) |-> IF bytes[i] = Garbage \/ Len(bytes[i]) # 2 THEN Unset ELSE bytes[i][2]]

LogLine(value) ==
  [number |-> value, size |-> rx["size"].buffer, buffer |-> rx["log"].buffer]

(* A mistake the checks notice: the buffer of a log line never grows. *)
KeepBuffer(objs) == objs

(* TlvManager::submit(): the buffer grows with the size that is announced. *)
GrowBuffer(objs) ==
  LET size == objs["size"].buffer[1]
  IN IF size > objs["log"].capacity
     THEN [objs EXCEPT !["log"] = Target("blob", size)]
     ELSE objs

OnlyReceiver == UNCHANGED <<socketVars, senderVars, txVars>>

(* The caller clears its variables, so that what is there comes after. *)
CallReceive ==
  /\ ~ receiving
  /\ use # "lifecycle"
  /\ conn_socket["child"] # 0
  /\ receives < MaxReceives
  /\ receives' = receives + 1
  /\ receiving' = TRUE
  /\ rx_stale' = (rx_stale \/ received = "error")
  /\ received' = "none"
  /\ rx' = IF Logging THEN rx ELSE [tag \in DOMAIN rx |-> Blank(rx[tag])]
  /\ OnlyReceiver
  /\ UNCHANGED logged

ReceiveReturnsWith(result) ==
  /\ receiving' = FALSE
  /\ received' = result
  /\ tainted' = IF result = "error" THEN tainted \cup {conn_socket["child"]} ELSE tainted

GoOn == UNCHANGED <<receiving, received, tainted>>

ReceiveData(tag, value) ==
  LET answer == Submit(rx[tag], value)
      after == [rx EXCEPT ![tag] = answer.object]
  IN IF tag \notin DOMAIN rx \/ ~ answer.ok
     THEN ReceiveReturnsWith("error") /\ UNCHANGED <<rx, logged>>
     ELSE /\ GoOn
          /\ rx' = IF tag = "size" THEN GrowBuffer(after) ELSE after
          /\ logged' = IF tag = "message" THEN Append(logged, LogLine(value)) ELSE logged

(* One turn of the loop of ReceptionManager::receive(): another message    *)
(* after START, CHECK and DATA, unless abort_cb or an object objects. *)
ReceiveOne ==
  /\ receiving
  /\ \E m \in Receptions(conn_socket["child"]) :
       /\ Obtain(conn_socket["child"], m.count)
       /\ \/ m.type = "DATA" /\ ReceiveData(m.tag, Value(m.value))
          \/ /\ m.type # "DATA"
             /\ \/ m.type \in {"START", "CHECK"} /\ GoOn
                \/ m.type = "CHECK" /\ ReceiveReturnsWith("error")
                \/ /\ m.type \in {"END", "ERROR"}
                   /\ ReceiveReturnsWith(IF m.type = "END" THEN "ok" ELSE "error")
             /\ UNCHANGED <<rx, logged>>
  /\ UNCHANGED <<senderVars, callVars, tx, tm_started, sending, sent, calls, ghosts, receives, rx_stale>>

RenewReceiver ==
  /\ ~ receiving
  /\ rx_stale \/ received = "error"
  /\ received' = "none"
  /\ rx' = Targets
  /\ rx_stale' = FALSE
  /\ OnlyReceiver
  /\ UNCHANGED <<receiving, receives, logged>>

-----------------------------------------------------------------------------
Unmanaged == UNCHANGED <<senderVars, txVars, rxVars>>

Lifecycle ==
  /\ (Connect /\ (made > 0 => calls = 0)) \/ Accept \/ (use = "lifecycle" /\ (Listen \/ Release))
  /\ Unmanaged
CloseClient == Idle /\ Close("client") /\ Unmanaged
Disaster == (\E c \in Connections : Cut(c)) /\ Unmanaged
CloseChild ==
  /\ ~ receiving
  /\ Close("child")
  /\ received' = "none"
  /\ rx_stale' = (rx_stale \/ received = "error")
  /\ UNCHANGED <<senderVars, txVars, rx, receiving, receives, logged>>

Next ==
  \/ Lifecycle \/ CloseClient \/ CloseChild \/ Disaster
  \/ CallSend \/ CallItself \/ Log \/ RenewSender
  \/ SendObject \/ NextManager
  \/ CallReceive \/ RenewReceiver \/ ReceiveOne

Spec == Init /\ [][Next]_vars

-----------------------------------------------------------------------------
(* What is left out of the properties of the receiving end, because of it  *)
(* the code does not recover: a connection that got garbage from a partial *)
(* send() (socket.cpp:293), one over which a manager that failed sends on  *)
(* (tlv_helper.h:168), and a receiving manager that goes on after its own  *)
(* failure. A connection that is cut, by whatever cuts it, stays. *)
Sound(c) == c \notin torn \cup tainted /\ ~ rx_stale

Holds(target, object) ==
  IF target.kind = "blob"
  THEN LET size == Len(object.data)
       IN /\ \A i \in 1 .. size : target.buffer[i] = object.data[i]
          /\ size < target.capacity => target.buffer[size + 1] = 0
  ELSE target.buffer = object.data

(* When ReceptionManager::receive() returns 0 over a Sound connection,     *)
(* every object of the manager that sends is in the variable of its tag,   *)
(* whole: whatever the parts in which the socket moved it, and wherever a  *)
(* put() that failed, or the network, cut the stream, also after three of  *)
(* the four bytes of END, which read as an END (tlv.cpp:130). *)
CompleteIsFaithful ==
  /\ received = "ok"
  /\ ~ Logging
  /\ Sound(conn_socket["child"])
  => \A i \in 1 .. Len(objects) : Holds(rx[objects[i].tag], objects[i])

(* After a send() that succeeded, every object is ready to be sent again,  *)
(* and no message is left begun (tlv_helper.cpp:61 and 211). *)
SentIsRearmed ==
  Idle /\ sent = "ok" => tx = Armed(objects) /\ (tm_started => started)

EndsWith(s, t) ==
  Len(s) >= Len(t) /\ SubSeq(s, Len(s) - Len(t) + 1, Len(s)) = t

(* The k-th message of an object: a blob is cut every MaxLength bytes. *)
Message(object, k) ==
  LET part == IF object.kind \in {"blob", "big"} THEN Part(object.data, (k - 1) * MaxLength)
              ELSE object.data
  IN HeaderBytes(object.tag, Len(part)) \o Bytes(part)

(* A blob ends with a part that is not full, a big one with an empty part. *)
AllParts(object, n) ==
  LET size == Len(object.data)
  IN IF object.kind = "blob" THEN (n - 1) * MaxLength <= size /\ size < n * MaxLength
     ELSE IF object.kind = "big" THEN (n - 2) * MaxLength < size /\ size <= (n - 1) * MaxLength
     ELSE n = 1

Whole(object, messages) ==
  /\ \A k \in 1 .. Len(messages) : messages[k] = Message(object, k)
  /\ AllParts(object, Len(messages))

(* send() returns 0 only if the socket took all the parts of every object, *)
(* in order and each once, and END after them: no error on the way is      *)
(* lost, although end() ignores what write() says, and none of an earlier  *)
(* send() that stopped in the middle of an object. Excepted are garbage    *)
(* (socket.cpp:293), and that start() or check() was called meanwhile,     *)
(* which forgets the error (tlv.cpp:46 and 57): then send() skips what     *)
(* ready() had given out before (tlv_helper.h:168) and returns 0. *)
OkMeansWritten ==
  [][/\ sent' = "ok"
     /\ sent = "none"
     /\ framed
     /\ conn_socket["client"] \notin torn'
     /\ ~ forgiven
     => /\ \A i \in 1 .. Len(objects) : Whole(objects[i], wrote[i])
        /\ EndsWith(stream'[conn_socket["client"]], HeaderBytes("END", 0))]_vars

(* TlvManager logs the lines given to TlvOutput::log(), in their order and *)
(* with the bytes of their buffer, whatever the sizes of the buffers       *)
(* before, and refuses none of them. Only the last line may have lost its  *)
(* message, when the connection was cut in the header of it (tlv.cpp:130). *)
LogsArrive ==
  Logging /\ ~ rx_stale /\ torn = {} /\ tainted = {} =>
    LET maimed(i) == logged[i].number = <<>>
        number(i) == logged[i].number[1]
        whole == {i \in 1 .. Len(logged) : ~ maimed(i)}
    IN /\ \A i \in 1 .. Len(logged) : maimed(i) => i = Len(logged) /\ lost # {}
       /\ \A i \in whole :
            /\ number(i) \in 1 .. Len(emitted)
            /\ logged[i].size = <<emitted[number(i)]>>
            /\ \A k \in 1 .. emitted[number(i)] : logged[i].buffer[k] = number(i)
       /\ \A i, j \in whole : i < j => number(i) < number(j)
       /\ receiving /\ ~ Over(conn_socket["child"]) =>
            \A m \in Receptions(conn_socket["child"]) :
              m.type = "DATA" => Submit(rx[m.tag], Value(m.value)).ok

(* receive() does not wait for what cannot come: when the sending end has  *)
(* closed or the connection is lost, every read ends, also inside a header *)
(* or a value (tlv.cpp:130 and 150). *)
NeverStuck ==
  LET c == conn_socket["child"]
  IN receiving /\ (<<"client", c>> \in closed \/ c \in lost) => Receptions(c) # {}
=============================================================================
