----------------------------- MODULE TlvProofs -----------------------------
(***************************************************************************)
(* Theorems about Socket, Tlv and TlvManagers: every descriptor has an     *)
(* owner, a receive() is never stuck, and a send() that succeeded wrote    *)
(* all its objects and END, and left the objects ready to be sent again.   *)
(***************************************************************************)
EXTENDS TlvManagers, FiniteSetTheorems, TLAPS

-----------------------------------------------------------------------------
(* The sockets: only six of the actions open or close anything.            *)

LifeStep ==
  \/ Listen \/ Release \/ Connect \/ Accept
  \/ \E e \in Ends : Close(e)
  \/ UNCHANGED life

(* What a Sender writes and a Receiver reads leaves the descriptors alone. *)
LEMMA LifeSteps ==
  ASSUME [Next]_vars
  PROVE  LifeStep
<1>1. CASE Lifecycle
  BY <1>1 DEF Lifecycle, LifeStep
<1>2. CASE CloseClient \/ CloseChild
  BY <1>2 DEF CloseClient, CloseChild, LifeStep, Ends
<1>3. CASE Disaster
  BY <1>3 DEF Disaster, Cut, LifeStep, life, listening
<1>4. CASE CallSend \/ CallItself
  BY <1>4 DEF CallSend, CallItself, LifeStep, SenderStart, SenderCheck, SenderLast, Misused, Write,
     Transmit, tlvVars, socketVars
<1>5. CASE Log \/ RenewSender \/ CallReceive \/ RenewReceiver
  BY <1>5 DEF Log, RenewSender, CallReceive, RenewReceiver, LifeStep, tlvVars, socketVars, OnlyReceiver
<1>6. CASE SendObject
  BY <1>6 DEF SendObject, LifeStep, SenderWrite, SenderLast, Misused, Write, Transmit, tlvVars, socketVars
<1>7. CASE NextManager
  BY <1>7 DEF NextManager, LifeStep, SenderLast, Misused, Write, Transmit, tlvVars, socketVars
<1>8. CASE ReceiveOne
  BY <1>8 DEF ReceiveOne, Obtain, LifeStep
<1>9. CASE UNCHANGED vars
  BY <1>9 DEF vars, tlvVars, socketVars, LifeStep
<1> QED
  BY <1>1, <1>2, <1>3, <1>4, <1>5, <1>6, <1>7, <1>8, <1>9 DEF Next

Held == Cardinality({e \in Ends : conn_socket[e] # 0})

LifeOK ==
  /\ listen_fd \in {"none", "unusable", "listening"}
  /\ conn_socket \in [Ends -> 0 .. MaxConnections]
  /\ backlog \subseteq Connections
  /\ made \in 0 .. MaxConnections
  /\ refused \in 0 .. MaxRefused
  /\ stranded \in 0 .. refused
  /\ descriptors = stranded + (IF listen_fd = "none" THEN 0 ELSE 1) + Held

(* Two sockets hold as many descriptors as say that they do. *)
LEMMA HeldOfTwo ==
  ASSUME NEW held \in [Ends -> Nat]
  PROVE  Cardinality({e \in Ends : held[e] # 0})
           = (IF held["client"] = 0 THEN 0 ELSE 1) + (IF held["child"] = 0 THEN 0 ELSE 1)
<1> DEFINE S == {e \in Ends : held[e] # 0}
<1>1. S = (IF held["client"] = 0 THEN {} ELSE {"client"}) \cup (IF held["child"] = 0 THEN {} ELSE {"child"})
  BY DEF Ends
<1>2. CASE held["client"] = 0 /\ held["child"] = 0
  BY <1>1, <1>2, FS_EmptySet
<1>3. CASE held["client"] # 0 /\ held["child"] = 0
  BY <1>1, <1>3, FS_Singleton
<1>4. CASE held["client"] = 0 /\ held["child"] # 0
  <2>1. S = {"child"}
    BY <1>1, <1>4
  <2>2. Cardinality({"child"}) = 1
    BY FS_Singleton
  <2> QED
    BY <2>1, <2>2, <1>4
<1>5. CASE held["client"] # 0 /\ held["child"] # 0
  <2>1. S = {"client"} \cup {"child"} /\ "child" \notin {"client"}
    BY <1>1, <1>5
  <2>2. IsFiniteSet({"client"}) /\ Cardinality({"client"}) = 1
    BY FS_Singleton
  <2> QED
    BY <2>1, <2>2, <1>5, FS_AddElement
<1> QED
  BY <1>2, <1>3, <1>4, <1>5

LEMMA LifeInit ==
  ASSUME Init
  PROVE  LifeOK
<1>1. conn_socket \in [Ends -> Nat] /\ conn_socket["client"] = 0 /\ conn_socket["child"] = 0
  BY DEF Init, TlvInit, SocketInit, Ends
<1>2. Held = 0
  BY <1>1, HeldOfTwo DEF Held
<1> QED
  BY <1>1, <1>2, TlvAssumption DEF Init, TlvInit, SocketInit, LifeOK, Ends, Connections

LEMMA LifeNext ==
  ASSUME LifeOK, [Next]_vars
  PROVE  LifeOK'
<1> DEFINE Count(f) == (IF f["client"] = 0 THEN 0 ELSE 1) + (IF f["child"] = 0 THEN 0 ELSE 1)
<1> USE TlvAssumption DEF Connections
<1>1. LifeStep
  BY LifeSteps
<1>2. conn_socket \in [Ends -> Nat] /\ Held = Count(conn_socket)
  BY HeldOfTwo DEF LifeOK, Held
<1>3. ASSUME conn_socket' \in [Ends -> 0 .. MaxConnections] PROVE Held' = Count(conn_socket')
  <2>1. conn_socket' \in [Ends -> Nat]
    BY <1>3
  <2>2. PICK held \in [Ends -> Nat] : held = conn_socket'
    BY <2>1
  <2> QED
    BY <2>2, HeldOfTwo DEF Held
<1>4. CASE Listen
  <2>1. /\ listen_fd = "none" /\ listen_fd' \in {"listening", "unusable"}
        /\ descriptors' = descriptors + 1 /\ refused' \in refused .. MaxRefused
        /\ UNCHANGED <<conn_socket, backlog, made, stranded>>
    BY <1>4 DEF LifeOK, Listen
  <2>2. Held' = Held /\ Held \in Nat
    BY <1>2, <2>1 DEF Held
  <2> QED
    BY <2>1, <2>2 DEF LifeOK
<1>5. CASE Release
  BY <1>2, <1>3, <1>5 DEF LifeOK, Release
<1>6. CASE Connect
  <2>1. CASE listen_fd = "listening"
    <3>1. /\ made < MaxConnections /\ made' = made + 1 /\ backlog' = backlog \cup {made'}
          /\ conn_socket' = [conn_socket EXCEPT !["client"] = made']
          /\ UNCHANGED <<refused, stranded, listen_fd>>
      BY <1>6, <2>1 DEF Connect
    <3>2. made' \in 1 .. MaxConnections
      BY <3>1 DEF LifeOK
    <3>3. conn_socket' \in [Ends -> 0 .. MaxConnections] /\ Count(conn_socket') = Count(conn_socket) + 1
      BY <1>6, <3>1, <3>2 DEF LifeOK, Ends, Connect
    <3>4. descriptors' = descriptors + 1
      BY <1>6 DEF Connect
    <3>5. Held' = Held + 1 /\ Held \in Nat
      BY <1>2, <1>3, <3>3
    <3> HIDE DEF AllParts
    <3> QED
      BY <3>1, <3>2, <3>3, <3>4, <3>5 DEF LifeOK
  <2>2. CASE listen_fd # "listening"
    <3>1. /\ stranded' = stranded + 1 /\ refused' = refused + 1 /\ refused < MaxRefused
          /\ descriptors' = descriptors + 1
          /\ UNCHANGED <<listen_fd, conn_socket, backlog, made>>
      BY <1>6, <2>2 DEF Connect
    <3>2. Held' = Held /\ Held \in Nat
      BY <1>2, <3>1 DEF Held
    <3> QED
      BY <3>1, <3>2 DEF LifeOK
  <2> QED
    BY <2>1, <2>2
<1>7. CASE Accept
  BY <1>2, <1>3, <1>7 DEF LifeOK, Accept, Ends
<1>8. ASSUME NEW e \in Ends, Close(e) PROVE LifeOK'
  <2>1. /\ conn_socket' = [conn_socket EXCEPT ![e] = 0]
        /\ descriptors' = descriptors - 1
        /\ UNCHANGED <<listen_fd, backlog, made, refused, stranded>>
    BY <1>8 DEF Close, listening
  <2>2. conn_socket' \in [Ends -> 0 .. MaxConnections]
    BY <2>1 DEF LifeOK
  <2>3. Count(conn_socket') = Count(conn_socket) - 1
    BY <1>8, <2>1 DEF LifeOK, Ends, Close
  <2>4. Held' = Held - 1 /\ Held \in Nat
    BY <1>2, <1>3, <2>2, <2>3
  <2> HIDE DEF AllParts
  <2> QED
    BY <2>1, <2>2, <2>4 DEF LifeOK
<1>9. CASE UNCHANGED life
  BY <1>9 DEF LifeOK, life, listening, Held
<1> QED
  BY <1>1, <1>4, <1>5, <1>6, <1>7, <1>8, <1>9 DEF LifeStep

LEMMA LifeAlways == Spec => []LifeOK
BY LifeInit, LifeNext, PTL DEF Spec

(* A descriptor is always the listening one, held by a Socket or left by a *)
(* failed connect(): what accept(), close() and release() do to the count  *)
(* is what they do to the Sockets, in any order of their calls.            *)
THEOREM OwnedAlways == Spec => []Owned
<1>1. LifeOK => Owned
  BY DEF LifeOK, Owned, Held
<1> QED
  BY <1>1, LifeAlways, PTL

-----------------------------------------------------------------------------
(* What is sent: an object is armed, or somewhere in the middle of its     *)
(* parts, whatever happened to the send() before.                          *)

States == [ready : BOOLEAN, sent : Nat, ended : BOOLEAN]
Fresh == [ready |-> TRUE, sent |-> 0, ended |-> FALSE]

Underway(object, state) ==
  /\ state.sent <= Len(object.data)
  /\ object.kind \in {"blob", "big"} => state.ready
  /\ object.kind \notin {"blob", "big"} => state.sent = 0 /\ ~ state.ended
  /\ object.kind = "big" /\ state.ended => state.sent = 0

LEMMA FreshUnderway == \A object \in Sendable : Fresh \in States /\ Underway(object, Fresh)
BY DEF Fresh, States, Underway, Sendable

LEMMA PartOfData ==
  ASSUME NEW data \in Seq(Nat), NEW from \in 0 .. Len(data)
  PROVE  Part(data, from) \in Seq(Nat) /\ from + Len(Part(data, from)) <= Len(data)
<1>1. PICK to \in Nat : to = Smaller(from + MaxLength, Len(data)) /\ from <= to /\ to <= Len(data)
  BY TlvAssumption DEF Smaller
<1>2. Part(data, from) = SubSeq(data, from + 1, to)
  BY <1>1 DEF Part
<1> QED
  BY <1>1, <1>2

(* ready() moves within the parts, and says no only when it armed again. *)
ReadyAnswers(object, answer) ==
  /\ answer.more \in BOOLEAN /\ answer.fails \in BOOLEAN
  /\ answer.part \in Seq(Nat)
  /\ answer.state \in States /\ Underway(object, answer.state)
  /\ ~ answer.more => answer.state = Fresh

LEMMA ReadyMoves ==
  ASSUME NEW object \in Sendable, NEW state \in States, Underway(object, state)
  PROVE  ReadyAnswers(object, Ready(object, state))
<1>1. CASE object.kind \notin {"blob", "big"}
  <2>1. Ready(object, state) = [more |-> state.ready, fails |-> FALSE, part |-> object.data,
                                state |-> [state EXCEPT !.ready = ~ @]]
    BY <1>1 DEF Ready, ReadyOnce
  <2>2. state.sent = 0 /\ ~ state.ended /\ state.ended \in BOOLEAN /\ state.ready \in BOOLEAN
    BY <1>1 DEF States, Underway
  <2>3. state.ended = FALSE
    BY <2>2, Zenon
  <2>4. PICK after : after = [state EXCEPT !.ready = ~ @]
    OBVIOUS
  <2> after \in States /\ after.sent = 0 /\ after.ended = FALSE
    BY <2>2, <2>3, <2>4 DEF States
  <2>5. ~ state.ready => after = Fresh
    <3>1. ~ state.ready => (~ state.ready) = TRUE
      BY Zenon
    <3> QED
      BY <2>2, <2>3, <2>4, <3>1 DEF States, Fresh
  <2>6. object.data \in Seq(Nat)
    BY DEF Sendable
  <2>7. Underway(object, after)
    BY <1>1, <2>6 DEF Underway
  <2> QED
    BY <2>1, <2>2, <2>4, <2>5, <2>6, <2>7 DEF ReadyAnswers
<1>2. state.sent \in 0 .. Len(object.data) /\ object.data \in Seq(Nat)
  BY DEF States, Underway, Sendable
<1>3. PICK part \in Seq(Nat) : part = Part(object.data, state.sent) /\ state.sent + Len(part) <= Len(object.data)
  BY <1>2, PartOfData
<1>4. CASE object.kind = "blob"
  <2>1. CASE state.ended
    <3>1. Ready(object, state) = [more |-> FALSE, fails |-> FALSE, part |-> <<>>, state |-> Fresh]
      BY <1>4, <2>1 DEF Ready, ReadyBlob, States, Fresh, Underway
    <3> QED
      BY <3>1, FreshUnderway DEF ReadyAnswers
  <2>2. CASE ~ state.ended
    <3>1. PICK after : after = [state EXCEPT !.ended = Last(part), !.sent = @ + Len(part)]
      OBVIOUS
    <3>2. Ready(object, state) = [more |-> TRUE, fails |-> FALSE, part |-> part, state |-> after]
      BY <1>3, <1>4, <2>2, <3>1 DEF Ready, ReadyBlob
    <3>3. after \in States /\ after.sent = state.sent + Len(part) /\ after.ready = state.ready
      <4>0. Last(part) \in BOOLEAN
        BY TlvAssumption DEF Last
      <4>1. PICK last \in BOOLEAN : last = Last(part)
        BY <4>0, Zenon
      <4>2. PICK to \in Nat : to = state.sent + Len(part)
        BY <1>2
      <4>3. after = [state EXCEPT !.ended = last, !.sent = to]
        BY <3>1, <4>1, <4>2
      <4> QED
        BY <4>2, <4>3 DEF States
    <3> QED
      BY <1>3, <1>4, <3>2, <3>3 DEF ReadyAnswers, Underway
  <2> QED
    BY <2>1, <2>2
<1>5. CASE object.kind = "big"
  <2>1. CASE state.ended
    <3>1. Ready(object, state) = [more |-> FALSE, fails |-> FALSE, part |-> <<>>, state |-> Fresh]
      BY <1>5, <2>1 DEF Ready, ReadyBigBlob, States, Fresh, Underway
    <3> QED
      BY <3>1, FreshUnderway DEF ReadyAnswers
  <2>2. CASE ~ state.ended
    <3>1. PICK after : after = IF part = <<>>
                               THEN [state EXCEPT !.sent = 0, !.ended = ~ object.fails]
                               ELSE [state EXCEPT !.sent = @ + Len(part)]
      OBVIOUS
    <3>2. Ready(object, state) = [more |-> TRUE, fails |-> part = <<>> /\ object.fails, part |-> part,
                                  state |-> after]
      BY <1>3, <1>5, <2>2, <3>1 DEF Ready, ReadyBigBlob
    <3>3. after \in States /\ after.ready = state.ready
      <4>1. (~ object.fails) \in BOOLEAN
        OBVIOUS
      <4>2. CASE part = <<>>
        BY <3>1, <4>1, <4>2 DEF States
      <4>3. CASE part # <<>>
        BY <3>1, <4>3 DEF States
      <4> QED
        BY <4>2, <4>3
    <3>4. after.sent <= Len(object.data) /\ (after.ended => after.sent = 0)
      BY <1>3, <2>2, <3>1 DEF States, Sendable
    <3>5. (part = <<>> /\ object.fails) \in BOOLEAN
      OBVIOUS
    <3> QED
      BY <1>5, <3>2, <3>3, <3>4, <3>5 DEF ReadyAnswers, Underway
  <2> QED
    BY <2>1, <2>2
<1> QED
  BY <1>1, <1>4, <1>5

(* The sending end. What is before the iterator is armed again, a framed   *)
(* message was started, and one that is not is a line of a log.            *)
SendData ==
  /\ use \in Uses
  /\ objects \in Seq(Sendable)
  /\ tx \in [1 .. Len(objects) -> States]
  /\ \A i \in 1 .. Len(objects) : Underway(objects[i], tx[i])
  /\ chain \in Nat \ {0}
  /\ at \in 1 .. Len(objects) + 1
  /\ passes \in 0 .. chain
  /\ sends \in Nat
  /\ sent \in Results

SendFlags ==
  /\ started \in BOOLEAN /\ tm_started \in BOOLEAN
  /\ framed \in BOOLEAN /\ sending \in BOOLEAN

SendLinks ==
  /\ sending => /\ passes > 0
                /\ \A i \in 1 .. at - 1 : tx[i] = Fresh
                /\ framed => tm_started
                /\ ~ framed => use = "log"
  /\ use = "log" => ~ tm_started
  /\ ~ sending /\ sent = "ok" => tx = Armed(objects) /\ (tm_started => started)

SendOK == SendData /\ SendFlags /\ SendLinks

sendVars ==
  <<started, use, objects, tx, chain, at, passes, sends, sent, tm_started, framed, sending>>

LEMMA ArmedFresh ==
  ASSUME NEW list \in Seq(Sendable)
  PROVE  /\ Armed(list) \in [1 .. Len(list) -> States]
         /\ \A i \in 1 .. Len(list) : Armed(list)[i] = Fresh /\ Underway(list[i], Armed(list)[i])
<1>1. Armed(list) = [i \in 1 .. Len(list) |-> Fresh]
  BY DEF Armed, Fresh
<1>2. \A i \in 1 .. Len(list) : list[i] \in Sendable
  OBVIOUS
<1> QED
  BY <1>1, <1>2, FreshUnderway

LEMMA LineIsSendable ==
  ASSUME NEW number \in Nat, NEW size \in Nat
  PROVE  Line(number, size) \in Seq(Sendable) /\ Len(Line(number, size)) = 3
<1> DEFINE first == [kind |-> "int", tag |-> "size", data |-> <<size>>, fails |-> FALSE]
           second == [kind |-> "blob", tag |-> "log", data |-> [i \in 1 .. size |-> number], fails |-> FALSE]
           third == [kind |-> "blob", tag |-> "message", data |-> <<number>>, fails |-> FALSE]
<1>1. <<size>> \in Seq(Nat) /\ <<number>> \in Seq(Nat) /\ [i \in 1 .. size |-> number] \in Seq(Nat)
  OBVIOUS
<1>2. first \in Sendable /\ second \in Sendable /\ third \in Sendable
  BY <1>1, TlvAssumption DEF Sendable, Kinds
<1>3. Line(number, size) = <<first, second, third>>
  BY DEF Line
<1> HIDE DEF first, second, third
<1> QED
  BY <1>2, <1>3

LEMMA SendInit ==
  ASSUME Init
  PROVE  SendOK
<1>1. objects \in Seq(Sendable)
  <2>1. <<>> \in Seq(Sendable)
    OBVIOUS
  <2>2. objects \in Scripts \/ objects = <<>>
    BY DEF Init
  <2> QED
    BY <2>1, <2>2, TlvAssumption
<1>2. /\ tx \in [1 .. Len(objects) -> States]
      /\ \A i \in 1 .. Len(objects) : Underway(objects[i], tx[i])
  BY <1>1, ArmedFresh DEF Init
<1>3. chain \in Nat \ {0} /\ 0 \in 0 .. chain
  BY TlvAssumption DEF Init
<1>4. 1 \in 1 .. Len(objects) + 1
  BY <1>1
<1> QED
  BY <1>1, <1>2, <1>3, <1>4 DEF Init, TlvInit, SendOK, SendData, SendFlags, SendLinks, Results

LEMMA SendNext ==
  ASSUME SendOK, [Next]_vars
  PROVE  SendOK'
<1>1. CASE UNCHANGED sendVars
  BY <1>1 DEF sendVars, SendOK, SendData, SendFlags, SendLinks, Armed
<1>2. CASE Lifecycle \/ CloseClient \/ Disaster \/ CloseChild \/ CallReceive \/ RenewReceiver \/ ReceiveOne
           \/ UNCHANGED vars
  <2>1. UNCHANGED sendVars
    BY <1>2 DEF Lifecycle, CloseClient, Disaster, CloseChild, CallReceive, RenewReceiver, ReceiveOne,
       sendVars, Unmanaged, OnlyReceiver, senderVars, txVars, callVars, vars, tlvVars
  <2> QED
    BY <1>1, <2>1
<1>3. CASE CallSend
  <2>1. /\ ~ sending /\ use = "message" /\ framed' = TRUE
        /\ sends' = sends + 1
        /\ UNCHANGED <<use, objects, tx, chain>>
    BY <1>3 DEF CallSend, Idle
  <2>2. CASE tm_started /\ BeginObjects(objects) /\ UNCHANGED <<tm_started, started>>
    BY <2>1, <2>2 DEF SendOK, SendData, SendFlags, SendLinks, BeginObjects, Results, Armed
  <2>3. CASE tm_started' = TRUE /\ BeginObjects(objects) /\ started' \in BOOLEAN
    BY <2>1, <2>3 DEF SendOK, SendData, SendFlags, SendLinks, BeginObjects, Results, Armed
  <2>4. CASE tm_started' = FALSE /\ sending' = FALSE /\ sent' = "error" /\ started' \in BOOLEAN /\ UNCHANGED <<at, passes>>
    <3>1. SendData'
      BY <2>1, <2>4 DEF SendOK, SendData, Results
    <3>2. SendFlags'
      BY <2>1, <2>4 DEF SendOK, SendFlags
    <3>3. SendLinks'
      BY <2>1, <2>4 DEF SendOK, SendData, SendFlags, SendLinks
    <3> QED
      BY <3>1, <3>2, <3>3 DEF SendOK
  <2>5. tm_started \/ (\E ok \in BOOLEAN : SenderStart(ok) => started' \in BOOLEAN)
    BY DEF SenderStart, Misused, SendOK, SendData, SendFlags, SendLinks
  <2> QED
    BY <1>3, <2>2, <2>3, <2>4 DEF CallSend, Returns, SenderStart, Misused, SendOK, SendData, SendFlags, SendLinks, tlvVars, senderVars
<1>4. CASE CallItself
  <2>1. ~ sending /\ UNCHANGED <<use, objects, tx, chain, at, passes, sends, sent, framed, sending>>
    BY <1>4 DEF CallItself, Idle, callVars
  <2>2. CASE started' = TRUE /\ (tm_started' = tm_started \/ (tm_started' = TRUE /\ use # "log"))
    <3>1. SendData'
      BY <2>1, <2>2 DEF SendOK, SendData, Armed
    <3>2. SendFlags'
      BY <2>1, <2>2 DEF SendOK, SendFlags
    <3>3. SendLinks'
      BY <2>1, <2>2 DEF SendOK, SendData, SendFlags, SendLinks, Armed
    <3> QED
      BY <3>1, <3>2, <3>3 DEF SendOK
  <2>3. CASE started' = FALSE /\ tm_started' = tm_started /\ use = "log"
    BY <2>1, <2>3 DEF SendOK, SendData, SendFlags, SendLinks, Armed
  <2> QED
    BY <1>4, <2>2, <2>3 DEF CallItself, SenderStart, SenderCheck, SenderLast, Misused, SendOK, SendData, SendFlags, SendLinks, Logging
<1>5. CASE Log
  <2>1. PICK size \in 0 .. Capacity : objects' = Line(sends', size)
    BY <1>5 DEF Log
  <2>2. /\ ~ sending /\ use = "log" /\ framed' = FALSE /\ sends' = sends + 1
        /\ tx' = Armed(objects') /\ BeginObjects(objects')
        /\ UNCHANGED <<started, use, chain, tm_started>>
    BY <1>5 DEF Log, Idle, Logging, tlvVars, senderVars
  <2>3. size \in Nat /\ sends' \in Nat
    BY <2>2, TlvAssumption DEF SendOK, SendData, SendFlags, SendLinks
  <2>4. objects' \in Seq(Sendable) /\ Len(objects') = 3
    BY <2>1, <2>3, LineIsSendable
  <2>5. tx' \in [1 .. Len(objects') -> States] /\ \A i \in 1 .. Len(objects') : Underway(objects'[i], tx'[i])
    BY <2>2, <2>4, ArmedFresh
  <2> QED
    <3>1. SendData'
      BY <2>2, <2>3, <2>4, <2>5 DEF SendOK, SendData, BeginObjects, Results
    <3>2. SendFlags'
      BY <2>2, <2>3, <2>4, <2>5 DEF SendOK, SendFlags, BeginObjects
    <3>3. SendLinks'
      BY <2>2, <2>3, <2>4, <2>5 DEF SendOK, SendData, SendFlags, SendLinks, BeginObjects
    <3> QED
      BY <3>1, <3>2, <3>3 DEF SendOK
<1>6. CASE RenewSender
  <2>1. /\ sent' = "none" /\ tx' = Armed(objects) /\ tm_started' = FALSE /\ started' = FALSE /\ ~ sending
        /\ UNCHANGED <<use, objects, chain, at, passes, sends, framed, sending>>
    BY <1>6 DEF RenewSender, Idle, callVars
  <2> QED
    BY <2>1, ArmedFresh DEF SendOK, SendData, SendFlags, SendLinks, Results
<1>7. CASE SendObject
  <2> DEFINE answer == Ready(objects[at], tx[at])
  <2>1. /\ sending /\ at \in 1 .. Len(objects)
        /\ tx' = [tx EXCEPT ![at] = answer.state]
        /\ UNCHANGED <<use, objects, chain, tm_started, framed, passes, sends>>
    BY <1>7 DEF SendObject, SendOK, SendData, SendFlags, SendLinks
  <2>2. ReadyAnswers(objects[at], answer)
    BY <2>1, ReadyMoves DEF SendOK, SendData, SendFlags, SendLinks
  <2> HIDE DEF answer
  <2>3. /\ tx' \in [1 .. Len(objects) -> States]
        /\ \A i \in 1 .. Len(objects) : Underway(objects[i], tx'[i])
        /\ \A i \in 1 .. at - 1 : tx'[i] = Fresh
        /\ ~ answer.more => tx'[at] = Fresh
    BY <2>1, <2>2 DEF SendOK, SendData, SendFlags, SendLinks, ReadyAnswers
  <2>4. CASE ~ answer.more /\ at' = at + 1 /\ UNCHANGED <<started, sending, sent>>
    BY <2>1, <2>3, <2>4 DEF SendOK, SendData, SendFlags, SendLinks
  <2>5. CASE at' = at /\ started' \in BOOLEAN /\ UNCHANGED <<sending, sent>>
    BY <2>1, <2>3, <2>5 DEF SendOK, SendData, SendFlags, SendLinks
  <2>6. CASE at' = at /\ started' \in BOOLEAN /\ sending' = FALSE /\ sent' = "error"
    BY <2>1, <2>3, <2>6 DEF SendOK, SendData, SendFlags, SendLinks, Results
  <2> QED
    BY <1>7, <2>4, <2>5, <2>6 DEF SendObject, answer, Returns, SenderWrite, SenderLast, Misused, tlvVars,
       senderVars, SendOK, SendData, SendFlags, SendLinks
<1>8. CASE NextManager
  <2>1. /\ sending /\ at = Len(objects) + 1 /\ passes' = passes - 1 /\ passes > 0
        /\ UNCHANGED <<use, objects, tx, chain, framed, sends>>
    BY <1>8 DEF NextManager, SendOK, SendData, SendFlags, SendLinks
  <2>2. tx = Armed(objects)
    <3>1. \A i \in 1 .. Len(objects) : tx[i] = Fresh
      BY <2>1 DEF SendOK, SendData, SendFlags, SendLinks
    <3>2. tx = [i \in 1 .. Len(objects) |-> Fresh]
      BY <3>1 DEF SendOK, SendData, SendFlags, SendLinks
    <3> QED
      BY <3>2 DEF Armed, Fresh
  <2>3. CASE passes > 1 /\ at' = 1 /\ UNCHANGED <<started, tm_started, sending, sent>>
    BY <2>1, <2>3 DEF SendOK, SendData, SendFlags, SendLinks
  <2>4. CASE at' = at /\ started' \in BOOLEAN /\ tm_started' = FALSE /\ sending' = FALSE /\ sent' = "ok"
    <3>1. SendData'
      BY <2>1, <2>2, <2>4 DEF SendOK, SendData, Results
    <3>2. SendFlags'
      BY <2>1, <2>2, <2>4 DEF SendOK, SendFlags
    <3>3. SendLinks'
      BY <2>1, <2>2, <2>4 DEF SendOK, SendData, SendFlags, SendLinks
    <3> QED
      BY <3>1, <3>2, <3>3 DEF SendOK
  <2>5. CASE at' = at /\ started' \in BOOLEAN /\ tm_started' = TRUE /\ framed /\ sending' = FALSE /\ sent' = "error"
    <3>1. SendData'
      BY <2>1, <2>5 DEF SendOK, SendData, Results
    <3>2. SendFlags'
      BY <2>1, <2>5 DEF SendOK, SendFlags
    <3>3. SendLinks'
      BY <2>1, <2>5 DEF SendOK, SendData, SendFlags, SendLinks
    <3> QED
      BY <3>1, <3>2, <3>3 DEF SendOK
  <2>6. CASE at' = at /\ ~ (framed /\ tm_started) /\ sending' = FALSE /\ sent' = "ok" /\ UNCHANGED <<started, tm_started>>
    <3>1. SendData'
      BY <2>1, <2>2, <2>6 DEF SendOK, SendData, Results
    <3>2. SendFlags'
      BY <2>1, <2>2, <2>6 DEF SendOK, SendFlags
    <3>3. SendLinks'
      BY <2>1, <2>2, <2>6 DEF SendOK, SendData, SendFlags, SendLinks
    <3> QED
      BY <3>1, <3>2, <3>3 DEF SendOK
  <2> QED
    BY <1>8, <2>3, <2>4, <2>5, <2>6 DEF NextManager, Returns, SenderLast, Misused, tlvVars, senderVars, SendOK, SendData, SendFlags, SendLinks
<1> QED
  BY <1>2, <1>3, <1>4, <1>5, <1>6, <1>7, <1>8 DEF Next

LEMMA SendAlways == Spec => []SendOK
BY SendInit, SendNext, PTL DEF Spec

(* A manager whose send() returned 0 sends the same again: every object it *)
(* went through, in however many parts and after whatever failures before, *)
(* is armed, and no message is left begun without its Sender knowing.      *)
THEOREM SentIsRearmedAlways == Spec => []SentIsRearmed
<1>1. SendOK => SentIsRearmed
  BY DEF SendOK, SendLinks, SentIsRearmed, Idle
<1> QED
  BY <1>1, SendAlways, PTL

-----------------------------------------------------------------------------
(* What is on a stream: bytes of headers, of values, and garbage.          *)

Byte ==
  {Garbage} \cup ({"header"} \X (1 .. 4) \X Tags \X Nat) \cup ({"value"} \X Nat)

StreamOK == stream \in [Connections -> Seq(Byte)] /\ spare \in Nat

(* put() sends the whole buffer if it succeeds, or garbage after it. *)
PutSends(buffer, outcome) ==
  /\ outcome.ok \in BOOLEAN
  /\ outcome.bytes \in Seq(Byte)
  /\ outcome.ok => outcome.bytes = buffer \/ Torn(outcome.bytes)

LEMMA PutOutcome ==
  ASSUME NEW buffer \in Seq(Byte), NEW outcome \in PutOutcomes(buffer), spare \in Nat
  PROVE  PutSends(buffer, outcome)
<1>1. PICK count \in Turns(buffer) : outcome = [ok |-> count >= Len(buffer), bytes |-> Beyond(buffer, count)]
  BY DEF PutOutcomes
<1>2. count \in Nat
  <2>1. CASE count = 0
    BY <2>1
  <2>2. ASSUME NEW begun \in 0 .. Len(buffer) - 1,
               NEW size \in 1 .. Smaller(Len(buffer), Len(buffer) + spare - begun), count = begun + size
        PROVE  count \in Nat
    <3>1. Smaller(Len(buffer), Len(buffer) + spare - begun) \in Int
      BY DEF Smaller
    <3> QED
      BY <2>2, <3>1
  <2> QED
    BY <1>1, <2>1, <2>2 DEF Turns
<1>3. Beyond(buffer, count) \in Seq(Byte) /\ Len(Beyond(buffer, count)) = count
  <2>1. \A i \in 1 .. count : (IF i <= Len(buffer) THEN buffer[i] ELSE Garbage) \in Byte
    BY <1>2 DEF Byte
  <2> QED
    BY <1>2, <2>1 DEF Beyond
<1>4. (count >= Len(buffer)) \in BOOLEAN
  BY <1>2
<1>5. CASE count > Len(buffer)
  <2>1. Beyond(buffer, count)[Len(buffer) + 1] = Garbage /\ Len(buffer) + 1 \in 1 .. count
    BY <1>2, <1>5 DEF Beyond
  <2> QED
    BY <1>1, <1>3, <1>4, <2>1 DEF PutSends, Torn
<1>6. CASE count = Len(buffer)
  <2>1. Beyond(buffer, count) = buffer
    BY <1>6 DEF Beyond
  <2> QED
    BY <1>1, <1>3, <1>4, <2>1 DEF PutSends
<1>7. CASE count < Len(buffer)
  <2>1. ~ (count >= Len(buffer))
    BY <1>2, <1>7
  <2>2. ~ outcome.ok
    BY <1>1, <2>1
  <2> QED
    BY <1>1, <1>3, <1>4, <2>2 DEF PutSends
<1> QED
  BY <1>2, <1>5, <1>6, <1>7

LEMMA MessageBytes ==
  ASSUME NEW tag \in Tags, NEW value \in Seq(Nat)
  PROVE  HeaderBytes(tag, Len(value)) \in Seq(Byte) /\ Bytes(value) \in Seq(Byte)
<1>1. HeaderBytes(tag, Len(value)) \in Seq(Byte)
  <2>1. \A i \in 1 .. 4 : <<"header", i, tag, Len(value)>> \in Byte
    BY DEF Byte
  <2> QED
    BY <2>1 DEF HeaderBytes
<1>2. Bytes(value) \in Seq(Byte)
  <2>1. \A i \in 1 .. Len(value) : <<"value", value[i]>> \in Byte
    BY DEF Byte
  <2> QED
    BY <2>1 DEF Bytes
<1> QED
  BY <1>1, <1>2

LEMMA TornWhole ==
  ASSUME NEW s \in Seq(Byte), NEW t \in Seq(Byte), Torn(s) \/ Torn(t)
  PROVE  Torn(s \o t)
<1>1. /\ s \o t \in Seq(Byte) /\ Len(s \o t) = Len(s) + Len(t)
      /\ \A i \in 1 .. Len(s) : (s \o t)[i] = s[i]
      /\ \A i \in 1 .. Len(t) : (s \o t)[Len(s) + i] = t[i]
  OBVIOUS
<1>2. CASE Torn(s)
  BY <1>1, <1>2 DEF Torn
<1>3. CASE Torn(t)
  <2>1. PICK i \in 1 .. Len(t) : t[i] = Garbage
    BY <1>3 DEF Torn
  <2>2. Len(s) + i \in 1 .. Len(s \o t)
    BY <1>1
  <2> QED
    BY <1>1, <2>1, <2>2 DEF Torn
<1> QED
  BY <1>2, <1>3

(* What is written is the message, or there is garbage. *)
WriteSends(tag, value, outcome) ==
  /\ outcome.bytes \in Seq(Byte)
  /\ outcome.ok => \/ outcome.bytes = HeaderBytes(tag, Len(value)) \o Bytes(value)
                   \/ Torn(outcome.bytes)

LEMMA WriteOutcome ==
  ASSUME NEW tag \in Tags, NEW value \in Seq(Nat), NEW outcome \in WriteOutcomes(tag, value), spare \in Nat
  PROVE  WriteSends(tag, value, outcome)
<1>1. HeaderBytes(tag, Len(value)) \in Seq(Byte) /\ Bytes(value) \in Seq(Byte)
  BY MessageBytes
<1>2. CASE outcome \in PutOutcomes(HeaderBytes(tag, Len(value))) /\ ~ outcome.ok
  BY <1>1, <1>2, PutOutcome DEF WriteSends, PutSends
<1>3. ASSUME NEW h \in PutOutcomes(HeaderBytes(tag, Len(value))), h.ok,
             NEW v \in PutOutcomes(Bytes(value)), outcome = [ok |-> v.ok, bytes |-> h.bytes \o v.bytes]
      PROVE  WriteSends(tag, value, outcome)
  <2>1. PutSends(HeaderBytes(tag, Len(value)), h) /\ PutSends(Bytes(value), v)
    BY <1>1, PutOutcome
  <2>2. h.bytes \in Seq(Byte) /\ v.bytes \in Seq(Byte) /\ outcome.bytes = h.bytes \o v.bytes
    BY <1>3, <2>1 DEF PutSends
  <2>3. ASSUME outcome.ok
        PROVE  outcome.bytes = HeaderBytes(tag, Len(value)) \o Bytes(value) \/ Torn(outcome.bytes)
    <3>1. h.bytes = HeaderBytes(tag, Len(value)) \/ Torn(h.bytes)
      BY <1>3, <2>1 DEF PutSends
    <3>2. v.bytes = Bytes(value) \/ Torn(v.bytes)
      BY <1>3, <2>1, <2>3 DEF PutSends
    <3>3. Torn(h.bytes) \/ Torn(v.bytes) => Torn(outcome.bytes)
      BY <2>2, TornWhole
    <3> QED
      BY <2>2, <3>1, <3>2, <3>3
  <2>4. outcome.bytes \in Seq(Byte)
    BY <2>2
  <2> QED
    BY <2>3, <2>4 DEF WriteSends
<1> QED
  <2>1. PICK h \in PutOutcomes(HeaderBytes(tag, Len(value))) :
          \/ outcome = h /\ ~ h.ok
          \/ /\ h.ok
             /\ outcome \in {[ok |-> v.ok, bytes |-> h.bytes \o v.bytes] : v \in PutOutcomes(Bytes(value))}
    BY DEF WriteOutcomes
  <2> QED
    BY <1>2, <1>3, <2>1

-----------------------------------------------------------------------------
(* What receive() makes of a stream.                                       *)

LEMMA HeaderSaysSomething ==
  ASSUME NEW bytes \in Seq(Byte), Len(bytes) \in {3, 4}
  PROVE  Meanings(bytes) # {} /\ Meanings(bytes) \subseteq [tag : Tags, len : Nat]
<1>1. CASE \E tag \in Tags, len \in 0 .. MaxLength : bytes = SubSeq(HeaderBytes(tag, len), 1, Len(bytes))
  <2>1. PICK tag \in Tags, len \in 0 .. MaxLength : bytes = SubSeq(HeaderBytes(tag, len), 1, Len(bytes))
    BY <1>1
  <2>2. len \in Nat
    BY TlvAssumption
  <2>3. HeaderBytes(tag, len) \in Seq({<<"header", i, tag, len>> : i \in 1 .. 4})
        /\ Len(HeaderBytes(tag, len)) = 4 /\ HeaderBytes(tag, len)[1] = <<"header", 1, tag, len>>
    BY DEF HeaderBytes
  <2>4. bytes[1] = <<"header", 1, tag, len>>
    BY <2>1, <2>3
  <2>5. bytes[1][3] = tag /\ bytes[1][4] = len
    BY <2>4
  <2>6. LengthsLike(len) # {} /\ LengthsLike(len) \subseteq Nat
    <3>1. MaxLength \in LengthsLike(MaxLength) /\ (len # MaxLength => 0 \in LengthsLike(len))
      BY TlvAssumption DEF LengthsLike
    <3>2. LengthsLike(len) \subseteq Nat
      BY TlvAssumption DEF LengthsLike
    <3> QED
      BY <3>1, <3>2
  <2>7. Meanings(bytes) = [tag : {tag}, len : IF Len(bytes) = 4 THEN {len} ELSE LengthsLike(len)]
    BY <1>1, <2>5 DEF Meanings
  <2>8. PICK size : size \in (IF Len(bytes) = 4 THEN {len} ELSE LengthsLike(len))
    BY <2>6
  <2>9. [tag |-> tag, len |-> size] \in Meanings(bytes)
    BY <2>7, <2>8
  <2>10. (IF Len(bytes) = 4 THEN {len} ELSE LengthsLike(len)) \subseteq Nat
    BY <2>2, <2>6
  <2>11. PICK sizes \in SUBSET Nat : Meanings(bytes) = [tag : {tag}, len : sizes]
    BY <2>7, <2>10
  <2>12. [tag : {tag}, len : sizes] \subseteq [tag : Tags, len : Nat]
    OBVIOUS
  <2> QED
    BY <2>9, <2>11, <2>12
<1>2. CASE ~ \E tag \in Tags, len \in 0 .. MaxLength : bytes = SubSeq(HeaderBytes(tag, len), 1, Len(bytes))
  BY <1>2, TlvAssumption DEF Meanings
<1> QED
  BY <1>1, <1>2

Receivable(rest, m) ==
  /\ m.count \in 0 .. Len(rest)
  /\ m.value \in Seq(Byte)
  /\ m.type = "DATA" => m.tag \in DataTags

LEMMA ReceptionTypes ==
  ASSUME StreamOK, NEW c \in Connections, NEW m \in Receptions(c)
  PROVE  Receivable(stream[c], m)
<1> DEFINE rest == stream[c]
           size == Smaller(4, Len(rest))
           error == [type |-> "ERROR", tag |-> "END", value |-> <<>>, count |-> Len(rest)]
           Body(h) ==
             IF size + h.len <= Len(rest)
             THEN {[type |-> TypeOf(h.tag), tag |-> h.tag,
                    value |-> SubSeq(rest, size + 1, size + h.len), count |-> size + h.len]}
             ELSE IF Over(c) THEN {error} ELSE {}
<1>1. rest \in Seq(Byte) /\ size \in 0 .. 4 /\ size <= Len(rest)
  <2>1. rest \in Seq(Byte)
    BY DEF StreamOK
  <2>2. PICK n \in Nat : n = Len(rest)
    BY <2>1
  <2>3. Smaller(4, n) \in 0 .. 4 /\ Smaller(4, n) <= n
    BY DEF Smaller
  <2> QED
    BY <2>1, <2>2, <2>3
<1>2. Receivable(rest, error)
  BY <1>1 DEF Receivable
<1>3. ASSUME NEW h \in [tag : Tags, len : Nat], m \in Body(h) PROVE Receivable(rest, m)
  <2>1. CASE m = error
    BY <1>2, <2>1
  <2>2. CASE m # error
    <3>1. /\ size + h.len <= Len(rest)
          /\ m = [type |-> TypeOf(h.tag), tag |-> h.tag,
                  value |-> SubSeq(rest, size + 1, size + h.len), count |-> size + h.len]
      BY <1>3, <2>2
    <3>2. TypeOf(h.tag) = "DATA" => h.tag \in DataTags
      BY DEF TypeOf, Tags, ControlTags
    <3>3. SubSeq(rest, size + 1, size + h.len) \in Seq(Byte) /\ size + h.len \in 0 .. Len(rest)
      BY <1>1, <3>1
    <3> HIDE DEF rest, size
    <3> QED
      BY <3>1, <3>2, <3>3 DEF Receivable
  <2> QED
    BY <2>1, <2>2
<1>4. m = error \/ (size \in {3, 4} /\ \E h \in Meanings(SubSeq(rest, 1, size)) : m \in Body(h))
  BY DEF Receptions
<1>5. CASE size \in {3, 4} /\ \E h \in Meanings(SubSeq(rest, 1, size)) : m \in Body(h)
  <2>1. SubSeq(rest, 1, size) \in Seq(Byte) /\ Len(SubSeq(rest, 1, size)) = size
    BY <1>1
  <2> HIDE DEF rest, size, Body
  <2>2. Meanings(SubSeq(rest, 1, size)) \subseteq [tag : Tags, len : Nat]
    BY <1>5, <2>1, HeaderSaysSomething
  <2>3. PICK h \in [tag : Tags, len : Nat] : m \in Body(h)
    BY <1>5, <2>2
  <2> QED
    BY <1>3, <2>3 DEF rest
<1> QED
  BY <1>2, <1>4, <1>5

(* When nothing more can come, there is an answer for whatever came. *)
LEMMA OverAnswers ==
  ASSUME StreamOK, NEW c \in Connections, Over(c)
  PROVE  Receptions(c) # {}
<1> DEFINE rest == stream[c]
           size == Smaller(4, Len(rest))
           error == [type |-> "ERROR", tag |-> "END", value |-> <<>>, count |-> Len(rest)]
           Body(h) ==
             IF size + h.len <= Len(rest)
             THEN {[type |-> TypeOf(h.tag), tag |-> h.tag,
                    value |-> SubSeq(rest, size + 1, size + h.len), count |-> size + h.len]}
             ELSE IF Over(c) THEN {error} ELSE {}
<1>1. rest \in Seq(Byte) /\ size \in 0 .. 4 /\ size <= Len(rest)
  <2>1. rest \in Seq(Byte)
    BY DEF StreamOK
  <2>2. PICK n \in Nat : n = Len(rest)
    BY <2>1
  <2>3. Smaller(4, n) \in 0 .. 4 /\ Smaller(4, n) <= n
    BY DEF Smaller
  <2> QED
    BY <2>1, <2>2, <2>3
<1>2. CASE size < 3
  BY <1>2 DEF Receptions
<1>3. CASE size \in {3, 4}
  <2>1. SubSeq(rest, 1, size) \in Seq(Byte) /\ Len(SubSeq(rest, 1, size)) = size
    BY <1>1
  <2>2. PICK h \in Meanings(SubSeq(rest, 1, size)) : TRUE
    BY <1>3, <2>1, HeaderSaysSomething
  <2>3. PICK m : m \in Body(h)
    OBVIOUS
  <2>4. m \in Receptions(c)
    BY <1>3, <2>3 DEF Receptions
  <2> QED
    BY <2>4
<1> QED
  BY <1>1, <1>2, <1>3

(* receive() runs on a connection. *)
Waiting == receiving \in BOOLEAN /\ (receiving => conn_socket["child"] \in Connections)

LEMMA WriteStream ==
  ASSUME LifeOK, StreamOK, NEW tag \in Tags, NEW value \in Seq(Nat), NEW ok \in BOOLEAN,
         Write(tag, value, ok)
  PROVE  StreamOK'
<1>1. CASE UNCHANGED <<stream, spare>>
  BY <1>1 DEF StreamOK
<1>2. CASE Len(value) > MaxLength
  BY <1>1, <1>2 DEF Write, socketVars, transfer
<1>3. CASE ~ (Len(value) > MaxLength)
  <2>1. PICK outcome \in WriteOutcomes(tag, value) : Transmit(outcome)
    BY <1>3 DEF Write
  <2>2. outcome.bytes \in Seq(Byte)
    BY WriteOutcome DEF StreamOK, WriteSends
  <2>3. CASE conn_socket["client"] = 0 \/ conn_socket["client"] \in lost
    BY <1>1, <2>1, <2>3 DEF Transmit
  <2>4. CASE ~ (conn_socket["client"] = 0 \/ conn_socket["client"] \in lost)
    <3> DEFINE c == conn_socket["client"]
    <3>1. stream' = [stream EXCEPT ![c] = @ \o outcome.bytes] /\ spare' = spare
      BY <2>1, <2>4 DEF Transmit
    <3>2. c \in Connections
      BY <2>4, TlvAssumption DEF LifeOK, Ends, Connections
    <3>3. stream[c] \o outcome.bytes \in Seq(Byte)
      BY <2>2, <3>2 DEF StreamOK
    <3> HIDE DEF c
    <3> QED
      BY <3>1, <3>2, <3>3 DEF StreamOK
  <2> QED
    BY <2>3, <2>4
<1> QED
  BY <1>2, <1>3

LEMMA WaitingNext ==
  ASSUME LifeOK, Waiting, [Next]_vars
  PROVE  Waiting'
<1>1. CASE Lifecycle \/ CloseClient \/ Disaster
  <2>1. receiving' = receiving
    BY <1>1 DEF Lifecycle, CloseClient, Disaster, Unmanaged, rxVars
  <2>2. receiving => conn_socket'["child"] = conn_socket["child"]
    BY <1>1, TlvAssumption DEF Lifecycle, CloseClient, Disaster, Connect, Accept, Listen, Release, Close,
       Cut, LifeOK, Ends, Waiting, Connections
  <2> QED
    BY <2>1, <2>2 DEF Waiting
<1>2. CASE CallSend \/ CallItself \/ Log \/ RenewSender \/ SendObject \/ NextManager
  <2>1. receiving' = receiving
    BY <1>2 DEF CallSend, CallItself, Log, RenewSender, SendObject, NextManager, OnlySender, rxVars
  <2>2. conn_socket' = conn_socket
    BY <1>2 DEF CallSend, CallItself, Log, RenewSender, SendObject, NextManager, SenderStart, SenderCheck,
       SenderWrite, SenderLast, Misused, Write, Transmit, tlvVars, socketVars, life
  <2> QED
    BY <2>1, <2>2 DEF Waiting
<1>3. CASE CloseChild \/ RenewReceiver
  BY <1>3 DEF CloseChild, RenewReceiver, Waiting
<1>4. CASE CallReceive
  <2>1. receiving' = TRUE /\ conn_socket' = conn_socket /\ conn_socket["child"] # 0
    BY <1>4 DEF CallReceive, OnlyReceiver, socketVars, life
  <2> QED
    BY <2>1, TlvAssumption DEF Waiting, LifeOK, Ends, Connections
<1>5. CASE ReceiveOne
  <2>1. conn_socket' = conn_socket /\ receiving /\ receiving' \in BOOLEAN
    BY <1>5 DEF ReceiveOne, Obtain, life, ReceiveData, ReceiveReturnsWith, GoOn, Waiting
  <2> QED
    BY <2>1 DEF Waiting
<1>6. CASE UNCHANGED vars
  BY <1>6 DEF vars, tlvVars, socketVars, life, rxVars, Waiting
<1> QED
  BY <1>1, <1>2, <1>3, <1>4, <1>5, <1>6 DEF Next

LEMMA StreamNext ==
  ASSUME LifeOK, StreamOK, SendOK, Waiting, [Next]_vars
  PROVE  StreamOK'
<1>1. CASE UNCHANGED <<stream, spare>>
  BY <1>1 DEF StreamOK
<1>2. CASE Lifecycle \/ CloseClient \/ CloseChild \/ Disaster \/ UNCHANGED vars
  BY <1>1, <1>2 DEF Lifecycle, CloseClient, CloseChild, Disaster, Connect, Accept, Listen, Release, Close, Cut,
     vars, tlvVars, socketVars, transfer
<1>3. CASE RenewSender \/ CallReceive \/ RenewReceiver \/ Log
  BY <1>1, <1>3 DEF RenewSender, CallReceive, RenewReceiver, Log, OnlyReceiver, tlvVars, socketVars, transfer
<1>4. {"START", "CHECK", "END", "ERROR"} \subseteq Tags /\ <<>> \in Seq(Nat) /\ <<1>> \in Seq(Nat)
  BY DEF Tags, ControlTags
<1>5. CASE CallSend
  BY <1>1, <1>4, <1>5, WriteStream DEF CallSend, SenderStart, Misused, tlvVars, socketVars, transfer
<1>6. CASE CallItself
  BY <1>1, <1>4, <1>6, WriteStream DEF CallItself, SenderStart, SenderCheck, SenderLast, Misused, tlvVars,
     socketVars, transfer
<1>7. CASE NextManager
  BY <1>1, <1>4, <1>7, WriteStream DEF NextManager, SenderLast, Misused, tlvVars, socketVars, transfer
<1>8. CASE SendObject
  <2> DEFINE answer == Ready(objects[at], tx[at])
  <2>1. at \in 1 .. Len(objects) /\ objects[at] \in Sendable
    BY <1>8 DEF SendObject, SendOK, SendData
  <2>2. ReadyAnswers(objects[at], answer)
    BY <2>1, ReadyMoves DEF SendOK, SendData
  <2>3. objects[at].tag \in Tags /\ answer.part \in Seq(Nat)
    BY <2>1, <2>2 DEF Sendable, Tags, ReadyAnswers
  <2> HIDE DEF answer
  <2> DEFINE reason == <<1>>
  <2>4. CASE UNCHANGED tlvVars
    BY <1>1, <2>4 DEF tlvVars, socketVars, transfer
  <2>5. ASSUME NEW ok \in BOOLEAN, SenderLast("ERROR", reason, ok) PROVE StreamOK'
    BY <1>1, <1>4, <2>5, WriteStream DEF SenderLast, Misused, socketVars, transfer
  <2>6. ASSUME NEW ok \in BOOLEAN, SenderWrite(objects[at].tag, answer.part, ok) PROVE StreamOK'
    BY <1>1, <2>3, <2>6, WriteStream DEF SenderWrite, Misused, socketVars, transfer
  <2> QED
    BY <1>8, <2>4, <2>5, <2>6 DEF SendObject, answer
<1>9. CASE ReceiveOne
  <2> DEFINE c == conn_socket["child"]
  <2>1. c \in Connections
    BY <1>9 DEF ReceiveOne, Waiting
  <2>2. PICK m \in Receptions(c) : Obtain(c, m.count)
    BY <1>9 DEF ReceiveOne
  <2> HIDE DEF c
  <2>3. m.count \in 0 .. Len(stream[c]) /\ stream[c] \in Seq(Byte)
    BY <2>1, <2>2, ReceptionTypes DEF Receivable, StreamOK
  <2>4. SubSeq(stream[c], m.count + 1, Len(stream[c])) \in Seq(Byte)
    BY <2>3
  <2>5. stream' = [stream EXCEPT ![c] = SubSeq(@, m.count + 1, Len(@))] /\ spare' = spare
    BY <2>2 DEF Obtain
  <2> QED
    BY <2>1, <2>4, <2>5 DEF StreamOK
<1> QED
  BY <1>2, <1>3, <1>5, <1>6, <1>7, <1>8, <1>9 DEF Next

WireOK == LifeOK /\ StreamOK /\ SendOK /\ Waiting

LEMMA WireAlways == Spec => []WireOK
<1>1. Init => StreamOK /\ Waiting
  <2>1. <<>> \in Seq(Byte)
    OBVIOUS
  <2>2. Init => StreamOK
    BY <2>1, TlvAssumption DEF Init, TlvInit, SocketInit, StreamOK
  <2>3. Init => Waiting
    BY DEF Init, Waiting
  <2> QED
    BY <2>2, <2>3
<1>2. WireOK /\ [Next]_vars => WireOK'
  BY LifeNext, SendNext, WaitingNext, StreamNext DEF WireOK
<1> QED
  BY <1>1, <1>2, LifeInit, SendInit, PTL DEF Spec, WireOK

(* Whatever was cut off of a message, inside its header or its value, and  *)
(* whatever garbage says: receive() has an answer as soon as nothing more  *)
(* can come.                                                               *)
THEOREM NeverStuckAlways == Spec => []NeverStuck
<1>1. WireOK => NeverStuck
  BY OverAnswers DEF WireOK, Waiting, NeverStuck, Over
<1> QED
  BY <1>1, WireAlways, PTL

-----------------------------------------------------------------------------
(* The variables of the receiving end: a blob never has more than fits.    *)

Rooms ==
  {v \in [kind : Kinds, capacity : Nat, received : Nat, buffer : Seq(Int)] :
     v.kind = "blob" => Len(v.buffer) = v.capacity /\ v.received <= v.capacity}

ReceiveOK ==
  /\ rx \in [DataTags \ {"odd"} -> Rooms]
  /\ rx["size"].kind = "int"
  /\ received \in Results

LEMMA BlankRoom ==
  ASSUME NEW v \in Rooms
  PROVE  Blank(v) \in Rooms /\ Blank(v).kind = v.kind
<1>1. PICK size \in Nat : size = (IF v.kind = "blob" THEN v.capacity ELSE 1)
  BY DEF Rooms
<1>2. [i \in 1 .. size |-> Unset] \in Seq(Int) /\ Len([i \in 1 .. size |-> Unset]) = size
  BY DEF Unset
<1>3. Blank(v) = [v EXCEPT !.buffer = [i \in 1 .. size |-> Unset]]
  BY <1>1 DEF Blank
<1> QED
  BY <1>1, <1>2, <1>3 DEF Rooms

LEMMA TargetRoom ==
  ASSUME NEW kind \in Kinds, NEW capacity \in Nat
  PROVE  Target(kind, capacity) \in Rooms /\ Target(kind, capacity).kind = kind
<1> DEFINE v == [kind |-> kind, capacity |-> capacity, received |-> 0, buffer |-> <<>>]
<1>1. PICK size \in Nat : size = (IF kind = "blob" THEN capacity ELSE 1)
  OBVIOUS
<1>2. [i \in 1 .. size |-> Unset] \in Seq(Int) /\ Len([i \in 1 .. size |-> Unset]) = size
  BY DEF Unset
<1>3. Blank(v) = [v EXCEPT !.buffer = [i \in 1 .. size |-> Unset]]
  BY <1>1 DEF Blank
<1>4. Target(kind, capacity) = [kind |-> kind, capacity |-> capacity, received |-> 0,
                                buffer |-> [i \in 1 .. size |-> Unset]]
  BY <1>3 DEF Target
<1> QED
  BY <1>1, <1>2, <1>4 DEF Rooms

LEMMA TargetsRoom == Targets \in [DataTags \ {"odd"} -> Rooms] /\ Targets["size"].kind = "int"
<1>1. ASSUME NEW tag \in DataTags \ {"odd"} PROVE Targets[tag] \in Rooms
  <2>1. PICK kind \in Kinds, capacity \in Nat : Targets[tag] = Target(kind, capacity)
    BY <1>1, TlvAssumption DEF Targets, Kinds
  <2> QED
    BY <2>1, TargetRoom
<1>2. Targets["size"] = Target("int", 0)
  BY TlvAssumption DEF Targets
<1>3. Targets["size"].kind = "int"
  BY <1>2, TargetRoom DEF Kinds
<1> QED
  BY <1>1, <1>3 DEF Targets

LEMMA ValueNumbers ==
  ASSUME NEW bytes \in Seq(Byte)
  PROVE  Value(bytes) \in Seq(Int)
<1>1. ASSUME NEW i \in 1 .. Len(bytes)
      PROVE  (IF bytes[i] = Garbage \/ Len(bytes[i]) # 2 THEN Unset ELSE bytes[i][2]) \in Int
  <2>1. bytes[i] \in Byte
    OBVIOUS
  <2>2. CASE bytes[i] \in {"header"} \X (1 .. 4) \X Tags \X Nat
    <3>1. Len(bytes[i]) = 4
      BY <2>2
    <3> QED
      BY <3>1 DEF Unset
  <2>3. CASE bytes[i] \in {"value"} \X Nat
    BY <2>3 DEF Unset
  <2>4. CASE bytes[i] = Garbage
    BY <2>4 DEF Unset
  <2> QED
    BY <2>1, <2>2, <2>3, <2>4 DEF Byte
<1> QED
  BY <1>1 DEF Value

(* What submit() accepts still fits, and a number has a first byte. *)
Accepts(v, answer) ==
  answer.ok => /\ answer.object \in Rooms
               /\ answer.object.kind = v.kind
               /\ v.kind = "int" => answer.object.buffer # <<>>

LEMMA SubmitRoom ==
  ASSUME NEW v \in Rooms, NEW value \in Seq(Int)
  PROVE  Accepts(v, Submit(v, value))
<1> DEFINE after == v.received + Len(value)
<1>1. v \in [kind : Kinds, capacity : Nat, received : Nat, buffer : Seq(Int)] /\ after \in Nat
  BY DEF Rooms
<1>2. CASE v.kind = "blob"
  <2>1. PICK buffer : buffer =
          [i \in DOMAIN v.buffer |->
             IF i \in v.received + 1 .. after THEN value[i - v.received]
             ELSE IF Last(value) /\ i = after + 1 THEN 0 ELSE v.buffer[i]]
    OBVIOUS
  <2>2. PICK count : count = IF Last(value) THEN 0 ELSE after
    OBVIOUS
  <2> DEFINE object == [v EXCEPT !.buffer = buffer, !.received = count]
  <2>3. PICK fits \in BOOLEAN : fits = (after <= v.capacity) /\ Submit(v, value) = [ok |-> fits, object |-> object]
    <3>1. (after <= v.capacity) \in BOOLEAN
      BY <1>1
    <3>2. Submit(v, value) = [ok |-> (after <= v.capacity), object |-> object]
      BY <1>2, <2>1, <2>2 DEF Submit, SubmitBlob, Fits
    <3> QED
      BY <3>1, <3>2, Zenon
  <2>4. DOMAIN v.buffer = 1 .. v.capacity
    BY <1>1, <1>2 DEF Rooms
  <2>5. \A i \in 1 .. v.capacity :
          (IF i \in v.received + 1 .. after THEN value[i - v.received]
           ELSE IF Last(value) /\ i = after + 1 THEN 0 ELSE v.buffer[i]) \in Int
    BY <1>1, <2>4
  <2>6. buffer \in Seq(Int) /\ Len(buffer) = v.capacity
    <3>1. PICK room \in Nat : room = v.capacity
      BY <1>1
    <3>2. buffer \in [1 .. room -> Int]
      BY <2>1, <2>4, <2>5, <3>1
    <3> QED
      BY <3>1, <3>2
  <2>7. count \in Nat /\ (after <= v.capacity => count <= v.capacity)
    BY <1>1, <2>2
  <2>8. ASSUME after <= v.capacity PROVE [v EXCEPT !.buffer = buffer, !.received = count] \in Rooms
    BY <1>1, <1>2, <2>6, <2>7, <2>8 DEF Rooms
  <2>9. ASSUME Submit(v, value).ok PROVE Submit(v, value).object \in Rooms /\ Submit(v, value).object.kind = v.kind
    <3> HIDE DEF object, after
    <3>1. fits /\ Submit(v, value).object = object
      BY <2>3, <2>9
    <3>2. after <= v.capacity
      BY <2>3, <3>1
    <3>3. object \in Rooms
      BY <2>8, <3>2 DEF object
    <3>4. object.kind = v.kind
      BY <1>1 DEF object
    <3> QED
      BY <3>1, <3>3, <3>4
  <2> QED
    BY <1>2, <2>9 DEF Accepts
<1>3. CASE v.kind = "big"
  <2>0. value \in Seq(Int) /\ v.buffer \o value \in Seq(Int)
    BY <1>1
  <2>1. PICK buffer \in Seq(Int) : buffer = IF v.received = 0 THEN value ELSE v.buffer \o value
    BY <2>0, Zenon
  <2>2. PICK count \in Nat : count = IF value = <<>> THEN 0 ELSE v.received + Len(value)
    BY <1>1
  <2>3. Submit(v, value).object = [v EXCEPT !.buffer = buffer, !.received = count]
    BY <1>3, <2>1, <2>2 DEF Submit, SubmitBigBlob
  <2> QED
    BY <1>1, <1>3, <2>3 DEF Accepts, Rooms
<1>4. CASE v.kind \notin {"blob", "big"}
  <2>0. value \in Seq(Int) /\ v.buffer \in Seq(Int) /\ <<1>> \in Seq(Int)
    BY <1>1
  <2>1. PICK buffer \in Seq(Int) : buffer = IF v.kind = "void" THEN v.buffer
                                            ELSE IF v.kind = "bool" /\ value # <<>> THEN <<1>> ELSE value
    BY <2>0, Zenon
  <2>2. Submit(v, value) = [ok |-> v.kind = "int" => value \notin {<<>>, <<Widest>>},
                            object |-> [v EXCEPT !.buffer = buffer]]
    BY <1>4, <2>1 DEF Submit
  <2>3. [v EXCEPT !.buffer = buffer] \in Rooms /\ [v EXCEPT !.buffer = buffer].kind = v.kind
    BY <1>1, <1>4 DEF Rooms
  <2>4. ASSUME Submit(v, value).ok, v.kind = "int" PROVE buffer # <<>>
    <3>0. PICK fits : fits = (v.kind = "int" => value \notin {<<>>, <<Widest>>})
      OBVIOUS
    <3>1. fits
      <4>1. Submit(v, value) = [ok |-> fits, object |-> [v EXCEPT !.buffer = buffer]]
        BY <2>2, <3>0, Zenon
      <4> QED
        BY <2>4, <4>1
    <3>2. value # <<>>
      BY <2>4, <3>0, <3>1
    <3> QED
      BY <1>4, <2>1, <2>4, <3>2
  <2>5. Submit(v, value).object = [v EXCEPT !.buffer = buffer] /\ [v EXCEPT !.buffer = buffer].buffer = buffer
    BY <1>1, <2>2
  <2> QED
    BY <2>3, <2>4, <2>5 DEF Accepts
<1> QED
  BY <1>2, <1>3, <1>4

LEMMA GrowRoom ==
  ASSUME NEW objs \in [DataTags \ {"odd"} -> Rooms], objs["size"].kind = "int", objs["size"].buffer # <<>>
  PROVE  GrowBuffer(objs) \in [DataTags \ {"odd"} -> Rooms] /\ GrowBuffer(objs)["size"].kind = "int"
<1> DEFINE size == objs["size"].buffer[1]
<1>1. objs["size"] \in Rooms /\ objs["log"] \in Rooms
  BY TlvAssumption
<1>2. objs["size"].buffer \in Seq(Int) /\ objs["log"].capacity \in Nat
  BY <1>1 DEF Rooms
<1>3. size \in Int
  BY <1>2
<1> HIDE DEF size
<1>4. CASE size > objs["log"].capacity
  <2>1. Target("blob", size) \in Rooms
    BY <1>2, <1>3, <1>4, TargetRoom DEF Kinds
  <2>2. GrowBuffer(objs) = [objs EXCEPT !["log"] = Target("blob", size)]
    BY <1>4 DEF GrowBuffer, size
  <2> QED
    BY <2>1, <2>2, TlvAssumption
<1>5. CASE ~ (size > objs["log"].capacity)
  BY <1>5 DEF GrowBuffer, size
<1> QED
  BY <1>4, <1>5

LEMMA ReceiveNext ==
  ASSUME WireOK, ReceiveOK, [Next]_vars
  PROVE  ReceiveOK'
<1>1. CASE UNCHANGED <<rx, received>>
  BY <1>1 DEF ReceiveOK
<1>2. CASE Lifecycle \/ CloseClient \/ Disaster \/ CallSend \/ CallItself \/ Log \/ RenewSender \/ SendObject
           \/ NextManager \/ UNCHANGED vars
  BY <1>1, <1>2 DEF Lifecycle, CloseClient, Disaster, Unmanaged, CallSend, CallItself, Log, RenewSender,
     SendObject, NextManager, OnlySender, vars, rxVars
<1>3. CASE CloseChild \/ RenewReceiver
  BY <1>3, TargetsRoom DEF CloseChild, RenewReceiver, ReceiveOK, Results
<1>4. CASE CallReceive
  <2>1. rx' = rx \/ rx' = [tag \in DataTags \ {"odd"} |-> Blank(rx[tag])]
    BY <1>4 DEF CallReceive, ReceiveOK
  <2>2. \A tag \in DataTags \ {"odd"} : Blank(rx[tag]) \in Rooms /\ Blank(rx[tag]).kind = rx[tag].kind
    BY BlankRoom DEF ReceiveOK
  <2>3. "size" \in DataTags \ {"odd"}
    BY TlvAssumption
  <2>4. received' = "none"
    BY <1>4 DEF CallReceive
  <2> QED
    BY <2>1, <2>2, <2>3, <2>4 DEF ReceiveOK, Results
<1>5. CASE ReceiveOne
  <2> DEFINE c == conn_socket["child"]
  <2>1. c \in Connections
    BY <1>5 DEF ReceiveOne, WireOK, Waiting
  <2>2. PICK m \in Receptions(c) :
          \/ m.type = "DATA" /\ ReceiveData(m.tag, Value(m.value))
          \/ GoOn /\ rx' = rx
          \/ (\E result \in {"ok", "error"} : ReceiveReturnsWith(result)) /\ rx' = rx
    BY <1>5 DEF ReceiveOne
  <2> HIDE DEF c
  <2>3. m.value \in Seq(Byte) /\ (m.type = "DATA" => m.tag \in DataTags)
    BY <2>1, <2>2, ReceptionTypes DEF Receivable, WireOK
  <2>4. Value(m.value) \in Seq(Int)
    BY <2>3, ValueNumbers
  <2>5. ASSUME NEW tag \in DataTags, NEW value \in Seq(Int), ReceiveData(tag, value) PROVE ReceiveOK'
    <3>1. CASE tag \notin DOMAIN rx \/ ~ Submit(rx[tag], value).ok
      BY <2>5, <3>1 DEF ReceiveData, ReceiveReturnsWith, ReceiveOK, Results
    <3>2. CASE tag \in DOMAIN rx /\ Submit(rx[tag], value).ok
      <4> DEFINE object == Submit(rx[tag], value).object
                 after == [rx EXCEPT ![tag] = object]
      <4>1. tag \in DataTags \ {"odd"} /\ rx[tag] \in Rooms
        BY <3>2 DEF ReceiveOK
      <4>2. object \in Rooms /\ object.kind = rx[tag].kind /\ (rx[tag].kind = "int" => object.buffer # <<>>)
        BY <3>2, <4>1, SubmitRoom DEF Accepts
      <4>3. rx' = (IF tag = "size" THEN GrowBuffer(after) ELSE after) /\ received' = received
        BY <2>5, <3>2 DEF ReceiveData, GoOn
      <4> HIDE DEF object
      <4>4. after \in [DataTags \ {"odd"} -> Rooms] /\ after["size"].kind = "int"
            /\ (tag = "size" => after["size"].buffer # <<>>)
        BY <4>1, <4>2, TlvAssumption DEF ReceiveOK
      <4> HIDE DEF after
      <4>5. rx' \in [DataTags \ {"odd"} -> Rooms] /\ rx'["size"].kind = "int"
        BY <4>3, <4>4, GrowRoom
      <4> QED
        BY <4>3, <4>5 DEF ReceiveOK
    <3> QED
      BY <3>1, <3>2
  <2>6. CASE GoOn /\ rx' = rx
    BY <1>1, <2>6 DEF GoOn
  <2>7. CASE (\E result \in {"ok", "error"} : ReceiveReturnsWith(result)) /\ rx' = rx
    BY <2>7 DEF ReceiveReturnsWith, ReceiveOK, Results
  <2> QED
    BY <2>2, <2>3, <2>4, <2>5, <2>6, <2>7
<1> QED
  BY <1>2, <1>3, <1>4, <1>5 DEF Next

(* The rest of the types. *)
Ranges ==
  /\ closed \subseteq Ends \X Connections
  /\ lost \subseteq Connections
  /\ torn \subseteq Connections
  /\ spare \in 0 .. MaxGarbage
  /\ failed \in BOOLEAN

LEMMA WriteRanges ==
  ASSUME LifeOK, Ranges, NEW tag, NEW value, NEW ok, Write(tag, value, ok), failed' \in BOOLEAN
  PROVE  Ranges'
<1>1. CASE UNCHANGED socketVars
  BY <1>1 DEF Ranges, socketVars, transfer
<1>2. ASSUME NEW outcome, Transmit(outcome) PROVE Ranges'
  <2>1. closed' = closed /\ spare' = spare
    BY <1>2 DEF Transmit
  <2>2. \/ UNCHANGED <<lost, torn>>
        \/ /\ conn_socket["client"] # 0
           /\ lost' \in {lost, lost \cup {conn_socket["client"]}}
           /\ torn' \in {torn, torn \cup {conn_socket["client"]}}
    BY <1>2 DEF Transmit
  <2>3. conn_socket["client"] # 0 => conn_socket["client"] \in Connections
    BY TlvAssumption DEF LifeOK, Ends, Connections
  <2> QED
    BY <2>1, <2>2, <2>3 DEF Ranges
<1> QED
  BY <1>1, <1>2 DEF Write

LEMMA RangesNext ==
  ASSUME WireOK, Ranges, [Next]_vars
  PROVE  Ranges'
<1>1. CASE UNCHANGED <<closed, lost, torn, spare, failed>>
  BY <1>1 DEF Ranges
<1>2. CASE Log \/ CallReceive \/ RenewReceiver \/ ReceiveOne \/ UNCHANGED vars
  BY <1>1, <1>2 DEF Log, CallReceive, RenewReceiver, ReceiveOne, Obtain, OnlyReceiver, vars, tlvVars, socketVars,
     transfer, senderVars
<1>3. CASE RenewSender
  BY <1>3 DEF RenewSender, Ranges, socketVars, transfer
<1>4. CASE Lifecycle \/ Disaster
  <2>1. UNCHANGED <<closed, torn, spare, failed>>
    BY <1>4 DEF Lifecycle, Disaster, Unmanaged, senderVars, Connect, Accept, Listen, Release, Cut, transfer
  <2>2. lost' \subseteq lost \cup backlog \cup Connections
    BY <1>4 DEF Lifecycle, Disaster, Connect, Accept, Listen, Release, Cut, transfer
  <2> QED
    BY <2>1, <2>2 DEF Ranges, WireOK, LifeOK
<1>5. CASE CloseClient \/ CloseChild
  <2>1. PICK e \in Ends : Close(e) /\ UNCHANGED senderVars
    BY <1>5 DEF CloseClient, CloseChild, Unmanaged, Ends
  <2>2. conn_socket[e] \in Connections
    BY <2>1, TlvAssumption DEF Close, WireOK, LifeOK, Connections
  <2> QED
    BY <2>1, <2>2 DEF Close, senderVars, Ranges
<1>6. ASSUME NEW ok, NEW tag, NEW value, SenderLast(tag, value, ok) PROVE Ranges'
  BY <1>6, WriteRanges DEF SenderLast, Misused, Ranges, WireOK, socketVars, transfer
<1>7. CASE CallSend \/ CallItself
  BY <1>1, <1>6, <1>7, WriteRanges DEF CallSend, CallItself, SenderStart, SenderCheck, Misused, Ranges, WireOK,
     tlvVars, socketVars, transfer, senderVars
<1>8. CASE SendObject \/ NextManager
  BY <1>1, <1>6, <1>8, WriteRanges DEF SendObject, NextManager, SenderWrite, Misused, Ranges, WireOK,
     tlvVars, socketVars, transfer, senderVars
<1> QED
  BY <1>2, <1>3, <1>4, <1>5, <1>7, <1>8 DEF Next

LEMMA ReceiveAlways == Spec => [](ReceiveOK /\ Ranges)
<1>1. Init => ReceiveOK /\ Ranges
  BY TargetsRoom DEF Init, TlvInit, SocketInit, ReceiveOK, Results, Ranges
<1> QED
  BY <1>1, ReceiveNext, RangesNext, WireAlways, PTL DEF Spec

(* Every part of the state has its type. No sum of the parts of a blob,    *)
(* whatever was sent in how many parts, goes beyond what the receiver has  *)
(* room for, and no object is sent beyond its end.                         *)
THEOREM TypeOKAlways == Spec => []TypeOK
<1>1. WireOK /\ ReceiveOK /\ Ranges => TypeOK
  <2> HAVE WireOK /\ ReceiveOK /\ Ranges
  <2>1. SocketTypeOK
    <3>1. refused \in Nat /\ stranded \in 0 .. MaxRefused
      BY TlvAssumption DEF WireOK, LifeOK
    <3>2. Held \in Nat
      <4>1. PICK held \in [Ends -> Nat] : held = conn_socket
        BY DEF WireOK, LifeOK
      <4> QED
        BY <4>1, HeldOfTwo DEF Held
    <3>3. descriptors \in Nat
      BY <3>1, <3>2 DEF WireOK, LifeOK
    <3> QED
      BY <3>1, <3>3 DEF SocketTypeOK, WireOK, LifeOK, StreamOK, Ranges
  <2>2. \A i \in 1 .. Len(objects) : tx[i].sent <= Len(objects[i].data)
    BY DEF WireOK, SendOK, SendData, Underway
  <2>3. \A tag \in DOMAIN rx : rx[tag].kind = "blob" => /\ Len(rx[tag].buffer) = rx[tag].capacity
                                                       /\ rx[tag].received <= rx[tag].capacity
    BY DEF ReceiveOK, Rooms
  <2>4. TlvTypeOK
    BY <2>1 DEF TlvTypeOK, Ranges, WireOK, SendOK, SendFlags
  <2> QED
    BY <2>2, <2>3, <2>4 DEF TypeOK, WireOK, SendOK, SendData, ReceiveOK
<1> QED
  BY <1>1, WireAlways, ReceiveAlways, PTL

-----------------------------------------------------------------------------
(* What a send() has written: it follows the answers of ready(), as long   *)
(* as it began with armed objects and nothing has failed.                  *)

(* How far an object is, after n of its messages. *)
Counted(object, state, n) ==
  LET size == Len(object.data)
  IN IF object.kind = "blob"
     THEN IF state.ended THEN AllParts(object, n) ELSE state.sent = n * MaxLength
     ELSE IF object.kind = "big"
     THEN IF state.ended THEN AllParts(object, n)
          ELSE state.sent = Smaller(n * MaxLength, size) /\ n * MaxLength < size + MaxLength
     ELSE n = IF state.ready THEN 0 ELSE 1

PartOf(object, k) ==
  IF object.kind \in {"blob", "big"} THEN Part(object.data, (k - 1) * MaxLength) ELSE object.data

(* The length of a part, and that there is nothing beyond the end. *)
LEMMA PartLength ==
  ASSUME NEW data \in Seq(Nat), NEW from \in 0 .. Len(data)
  PROVE  Len(Part(data, from)) = Smaller(from + MaxLength, Len(data)) - from
<1>1. PICK to \in Nat : to = Smaller(from + MaxLength, Len(data)) /\ from <= to /\ to <= Len(data)
  BY TlvAssumption DEF Smaller
<1>2. Part(data, from) = SubSeq(data, from + 1, to)
  BY <1>1 DEF Part
<1> QED
  BY <1>1, <1>2

LEMMA PartBeyond ==
  ASSUME NEW data \in Seq(Nat), NEW from \in Nat, from >= Len(data)
  PROVE  Part(data, from) = Part(data, Len(data))
<1>1. PICK size \in Nat : size = Len(data)
  OBVIOUS
<1>2. Smaller(from + MaxLength, size) = size /\ Smaller(size + MaxLength, size) = size
  BY <1>1, TlvAssumption DEF Smaller
<1>3. SubSeq(data, from + 1, size) = <<>> /\ SubSeq(data, size + 1, size) = <<>>
  BY <1>1
<1> QED
  BY <1>1, <1>2, <1>3 DEF Part

GivesNext(object, n, answer) ==
  /\ ~ answer.more => AllParts(object, n)
  /\ answer.more /\ ~ answer.fails => /\ answer.part = PartOf(object, n + 1)
                                      /\ Counted(object, answer.state, n + 1)

(* ready() gives the parts in order, each once, and says no after the last. *)
LEMMA ReadyGivesNext ==
  ASSUME NEW object \in Sendable, NEW state \in States, Underway(object, state),
         NEW n \in Nat, Counted(object, state, n)
  PROVE  GivesNext(object, n, Ready(object, state))
<1>1. PICK size \in Nat : size = Len(object.data)
  BY DEF Sendable
<1>2. PICK done \in Nat : done = n * MaxLength /\ (n + 1) * MaxLength = done + MaxLength
                         /\ (n - 1) * MaxLength = done - MaxLength
  BY TlvAssumption
<1>3. object.data \in Seq(Nat) /\ MaxLength \in Nat \ {0} /\ state.sent \in Nat /\ state.sent <= size
  BY <1>1, TlvAssumption DEF Sendable, States, Underway
<1>4. n + 1 - 1 = n /\ n + 1 - 2 = n - 1 /\ n + 1 \in Nat
  OBVIOUS
<1>5. CASE object.kind \notin {"blob", "big"}
  <2>1. Ready(object, state) = [more |-> state.ready, fails |-> FALSE, part |-> object.data,
                                state |-> [state EXCEPT !.ready = ~ @]]
    BY <1>5 DEF Ready, ReadyOnce
  <2>2. n = IF state.ready THEN 0 ELSE 1
    BY <1>5 DEF Counted
  <2>3. CASE state.ready
    <3>1. PICK after : after = [state EXCEPT !.ready = ~ @]
      OBVIOUS
    <3>2. ~ after.ready
      BY <2>3, <3>1 DEF States
    <3>3. Counted(object, after, n + 1)
      BY <1>5, <2>2, <2>3, <3>2 DEF Counted
    <3>4. object.data = PartOf(object, n + 1)
      BY <1>5 DEF PartOf
    <3>5. /\ Ready(object, state).more
          /\ Ready(object, state).part = object.data
          /\ Ready(object, state).state = after
      BY <2>1, <2>3, <3>1
    <3> QED
      BY <3>3, <3>4, <3>5 DEF GivesNext
  <2>4. CASE ~ state.ready
    BY <1>5, <2>1, <2>2, <2>4 DEF GivesNext, AllParts
  <2> QED
    BY <2>3, <2>4
<1>6. CASE object.kind = "blob"
  <2>1. CASE state.ended
    <3>1. Ready(object, state).more = FALSE
      BY <1>6, <2>1 DEF Ready, ReadyBlob
    <3>2. AllParts(object, n)
      BY <1>6, <2>1 DEF Counted
    <3> QED
      BY <3>1, <3>2 DEF GivesNext
  <2>2. CASE ~ state.ended
    <3>1. state.sent = done
      BY <1>2, <1>6, <2>2 DEF Counted
    <3>2. PICK part \in Seq(Nat) : part = Part(object.data, done)
      BY <1>1, <1>3, <3>1, PartOfData
    <3>3. PICK len \in Nat : len = Len(part) /\ len = Smaller(done + MaxLength, size) - done
      BY <1>1, <1>3, <3>1, <3>2, PartLength
    <3>4. PICK after : after = [state EXCEPT !.ended = Last(part), !.sent = @ + Len(part)]
      OBVIOUS
    <3>5. Ready(object, state) = [more |-> TRUE, fails |-> FALSE, part |-> part, state |-> after]
      BY <1>6, <2>2, <3>1, <3>2, <3>4 DEF Ready, ReadyBlob
    <3>6. after.ended = Last(part) /\ after.sent = done + len
      BY <3>1, <3>3, <3>4 DEF States
    <3>7. Last(part) <=> size < done + MaxLength
      BY <1>3, <3>1, <3>3 DEF Last, Smaller
    <3>8. ~ Last(part) => done + len = done + MaxLength
      BY <1>3, <3>1, <3>3, <3>7 DEF Smaller
    <3>9. Counted(object, after, n + 1)
      <4>1. CASE Last(part)
        <5>1. after.ended
          BY <3>6, <4>1
        <5>2. AllParts(object, n + 1)
          BY <1>1, <1>2, <1>3, <1>4, <1>6, <3>1, <3>7, <4>1 DEF AllParts
        <5> QED
          BY <1>6, <5>1, <5>2 DEF Counted
      <4>2. CASE ~ Last(part)
        <5>1. ~ after.ended
          BY <3>6, <4>2
        <5>2. after.sent = (n + 1) * MaxLength
          BY <1>2, <3>6, <3>8, <4>2
        <5> QED
          BY <1>6, <5>1, <5>2 DEF Counted
      <4> QED
        BY <4>1, <4>2
    <3>10. part = PartOf(object, n + 1)
      BY <1>2, <1>4, <1>6, <3>2 DEF PartOf
    <3> QED
      BY <3>5, <3>9, <3>10 DEF GivesNext
  <2> QED
    BY <2>1, <2>2
<1>7. CASE object.kind = "big"
  <2>1. CASE state.ended
    <3>1. Ready(object, state).more = FALSE
      BY <1>7, <2>1 DEF Ready, ReadyBigBlob
    <3>2. AllParts(object, n)
      BY <1>7, <2>1 DEF Counted
    <3> QED
      BY <3>1, <3>2 DEF GivesNext
  <2>2. CASE ~ state.ended
    <3>1. state.sent = Smaller(done, size) /\ done < size + MaxLength
      BY <1>1, <1>2, <1>7, <2>2 DEF Counted
    <3>2. PICK part \in Seq(Nat) : part = Part(object.data, state.sent)
      BY <1>1, <1>3, PartOfData
    <3>3. PICK len \in Nat : len = Len(part) /\ len = Smaller(state.sent + MaxLength, size) - state.sent
      BY <1>1, <1>3, <3>2, PartLength
    <3>4. PICK after : after = IF part = <<>>
                               THEN [state EXCEPT !.sent = 0, !.ended = ~ object.fails]
                               ELSE [state EXCEPT !.sent = @ + Len(part)]
      OBVIOUS
    <3>5. Ready(object, state) = [more |-> TRUE, fails |-> part = <<>> /\ object.fails, part |-> part,
                                  state |-> after]
      BY <1>7, <2>2, <3>2, <3>4 DEF Ready, ReadyBigBlob
    <3>6. part = Part(object.data, done)
      BY <1>1, <1>3, <3>1, <3>2, PartBeyond DEF Smaller
    <3>7. part = PartOf(object, n + 1)
      BY <1>2, <1>4, <1>7, <3>6 DEF PartOf
    <3>8. part = <<>> <=> len = 0
      <4>1. len = Len(part)
        BY <3>3
      <4>2. part \in Seq(Nat)
        BY <3>2
      <4> HIDE <3>2, <3>3
      <4> QED
        BY <4>1, <4>2
    <3>9. ASSUME ~ (part = <<>> /\ object.fails) PROVE Counted(object, after, n + 1)
      <4>1. CASE part = <<>>
        <5>1. after.ended
          BY <3>4, <3>9, <4>1 DEF States
        <5>2. size <= done
          BY <1>3, <3>1, <3>3, <3>8, <4>1 DEF Smaller
        <5>3. AllParts(object, n + 1)
          BY <1>1, <1>2, <1>3, <1>4, <1>7, <3>1, <5>2 DEF AllParts
        <5> QED
          BY <1>7, <5>1, <5>3 DEF Counted
      <4>2. CASE part # <<>>
        <5>1. after.ended = state.ended /\ after.sent = state.sent + len
          BY <3>3, <3>4, <4>2 DEF States
        <5>2. done < size /\ state.sent = done
          BY <1>3, <3>1, <3>3, <3>8, <4>2 DEF Smaller
        <5>3. after.sent = Smaller(done + MaxLength, size) /\ done + MaxLength < size + MaxLength
          BY <1>3, <3>3, <5>1, <5>2 DEF Smaller
        <5> QED
          BY <1>1, <1>2, <1>7, <2>2, <5>1, <5>3 DEF Counted
      <4> QED
        BY <4>1, <4>2
    <3>10. PICK fails \in BOOLEAN : fails = (part = <<>> /\ object.fails)
      BY Zenon
    <3>11. /\ Ready(object, state).more
           /\ Ready(object, state).fails = fails
           /\ Ready(object, state).part = part
           /\ Ready(object, state).state = after
      BY <3>5, <3>10
    <3> QED
      BY <3>7, <3>9, <3>10, <3>11 DEF GivesNext
  <2> QED
    BY <2>1, <2>2
<1> QED
  BY <1>5, <1>6, <1>7

LEMMA EndsWithIt ==
  ASSUME NEW s \in Seq(Byte), NEW t \in Seq(Byte)
  PROVE  EndsWith(s \o t, t)
<1>1. s \o t \in Seq(Byte) /\ Len(s \o t) = Len(s) + Len(t)
  OBVIOUS
<1>2. SubSeq(s \o t, Len(s) + 1, Len(s) + Len(t)) = t
  OBVIOUS
<1>3. Len(s \o t) - Len(t) + 1 = Len(s) + 1
  BY <1>1
<1> QED
  BY <1>1, <1>2, <1>3 DEF EndsWith

(* What a successful write() put on the stream of the client: its message, *)
(* unless there is garbage.                                                *)
LEMMA AddedBytes ==
  ASSUME WireOK, StreamOK'
  PROVE  Added \in Seq(Byte)
<1> DEFINE c == conn_socket["client"]
<1>1. CASE c = 0
  BY <1>1 DEF Added
<1>2. CASE c # 0
  <2>1. c \in Connections
    BY <1>2, TlvAssumption DEF WireOK, LifeOK, Ends, Connections
  <2>2. PICK before \in Seq(Byte), after \in Seq(Byte) : before = stream[c] /\ after = stream'[c]
    BY <2>1 DEF WireOK, StreamOK
  <2>3. SubSeq(after, Len(before) + 1, Len(after)) \in Seq(Byte)
    OBVIOUS
  <2> QED
    BY <1>2, <2>2, <2>3 DEF Added
<1> QED
  BY <1>1, <1>2

LEMMA WriteAdds ==
  ASSUME WireOK, NEW tag \in Tags, NEW value \in Seq(Nat), Write(tag, value, TRUE),
         conn_socket["client"] \notin torn'
  PROVE  /\ conn_socket["client"] \notin torn
         /\ Added = HeaderBytes(tag, Len(value)) \o Bytes(value)
<1> DEFINE c == conn_socket["client"]
           message == HeaderBytes(tag, Len(value)) \o Bytes(value)
<1>1. PICK outcome \in WriteOutcomes(tag, value) : outcome.ok /\ Transmit(outcome)
  BY DEF Write
<1>2. /\ c # 0
      /\ stream' = [stream EXCEPT ![c] = @ \o outcome.bytes]
      /\ torn' = IF Torn(outcome.bytes) THEN torn \cup {c} ELSE torn
  BY <1>1 DEF Transmit
<1>3. WriteSends(tag, value, outcome)
  BY <1>1, WriteOutcome DEF WireOK, StreamOK
<1>4. outcome.bytes = message /\ outcome.bytes \in Seq(Byte) /\ c \notin torn
  BY <1>1, <1>2, <1>3 DEF WriteSends
<1>5. c \in Connections
  BY <1>2, TlvAssumption DEF WireOK, LifeOK, Ends, Connections
<1>6. PICK before \in Seq(Byte), bytes \in Seq(Byte) : before = stream[c] /\ bytes = outcome.bytes
  BY <1>4, <1>5 DEF WireOK, StreamOK
<1>7. stream'[c] = before \o bytes
  BY <1>2, <1>5, <1>6 DEF WireOK, StreamOK
<1>8. SubSeq(before \o bytes, Len(before) + 1, Len(before \o bytes)) = bytes
  OBVIOUS
<1> HIDE DEF message
<1> QED
  BY <1>2, <1>4, <1>6, <1>7, <1>8 DEF Added, message

(* The messages of an object so far, and those of all the objects of a     *)
(* send() that the Sender has nothing against. *)
SoFar(object, state, messages) ==
  /\ \A k \in 1 .. Len(messages) : messages[k] = Message(object, k)
  /\ Counted(object, state, Len(messages))

Trusted ==
  /\ sending /\ framed /\ started /\ ~ failed /\ ~ forgiven
  /\ conn_socket["client"] \notin torn

Ordered(list, states, position, messages) ==
  \A i \in 1 .. Len(list) :
    /\ i < position => Whole(list[i], messages[i])
    /\ i = position => SoFar(list[i], states[i], messages[i])
    /\ i > position => states[i] = Fresh /\ messages[i] = <<>>

InOrder == Ordered(objects, tx, at, wrote)

(* An object is only left in the middle by a failure the Sender remembers, *)
(* unless it was made to forget it. *)
Remembered == tm_started /\ (forgiven \/ failed \/ ~ started)

WroteTypes ==
  /\ wrote \in [1 .. Len(objects) -> Seq(Seq(Byte))]
  /\ forgiven \in BOOLEAN
  /\ sending /\ framed => conn_socket["client"] # 0

WroteOK ==
  /\ WroteTypes
  /\ ~ sending /\ use # "log" /\ tx # Armed(objects) => Remembered
  /\ Trusted => InOrder

ghostVars ==
  <<use, objects, tx, at, framed, sending, started, failed, tm_started, wrote, forgiven>>

SenderOK == WireOK /\ ReceiveOK /\ Ranges

(* Before its first message an object is as it should be. *)
LEMMA NothingSoFar ==
  ASSUME NEW object \in Sendable
  PROVE  SoFar(object, Fresh, <<>>)
<1>1. PICK size \in Nat : size = Len(object.data)
  BY DEF Sendable
<1>2. 0 * MaxLength = 0 /\ Smaller(0, size) = 0 /\ MaxLength \in Nat \ {0} /\ Len(<<>>) = 0
  BY TlvAssumption DEF Smaller
<1>3. Counted(object, Fresh, 0)
  BY <1>1, <1>2 DEF Counted, Fresh
<1> QED
  BY <1>2, <1>3 DEF SoFar

LEMMA NothingWritten ==
  ASSUME NEW list \in Seq(Sendable)
  PROVE  /\ Nothing(list) \in [1 .. Len(list) -> Seq(Seq(Byte))]
         /\ \A i \in 1 .. Len(list) : Nothing(list)[i] = <<>>
BY DEF Nothing

(* When all objects are armed and nothing is written, all is in order. *)
LEMMA BeginsInOrder ==
  ASSUME NEW list \in Seq(Sendable)
  PROVE  Ordered(list, Armed(list), 1, Nothing(list))
<1>1. ASSUME NEW i \in 1 .. Len(list)
      PROVE  list[i] \in Sendable /\ Armed(list)[i] = Fresh /\ Nothing(list)[i] = <<>>
  BY <1>1, ArmedFresh, NothingWritten
<1>2. \A i \in 1 .. Len(list) : SoFar(list[i], Armed(list)[i], Nothing(list)[i])
  BY <1>1, NothingSoFar
<1>3. Len(list) \in Nat
  OBVIOUS
<1> QED
  BY <1>1, <1>2, <1>3 DEF Ordered

(* What the steps of the other end and of the network leave alone. *)
LEMMA WroteAside ==
  ASSUME WroteOK, UNCHANGED ghostVars, torn \subseteq torn',
         sending /\ framed => conn_socket'["client"] = conn_socket["client"]
  PROVE  WroteOK'
<1>1. WroteTypes'
  BY DEF WroteOK, WroteTypes, ghostVars
<1>2. (~ sending /\ use # "log" /\ tx # Armed(objects) => Remembered)'
  BY DEF WroteOK, Remembered, ghostVars, Armed
<1>3. Trusted' => Trusted
  BY DEF Trusted, ghostVars
<1>4. InOrder => InOrder'
  BY DEF InOrder, ghostVars
<1> QED
  BY <1>1, <1>2, <1>3, <1>4 DEF WroteOK

LEMMA WroteOther ==
  ASSUME WireOK, WroteOK,
         \/ Lifecycle \/ CloseClient \/ CloseChild \/ Disaster
         \/ CallReceive \/ RenewReceiver \/ ReceiveOne \/ UNCHANGED vars
  PROVE  WroteOK'
<1>1. UNCHANGED ghostVars
  BY DEF Lifecycle, CloseClient, Disaster, CloseChild, CallReceive, RenewReceiver, ReceiveOne,
     ghostVars, ghosts, Unmanaged, OnlyReceiver, senderVars, txVars, callVars, vars, tlvVars
<1>2. torn' = torn
  BY DEF Lifecycle, CloseClient, Disaster, CloseChild, CallReceive, RenewReceiver, ReceiveOne, OnlyReceiver,
     Connect, Accept, Listen, Release, Close, Cut, Obtain, vars, tlvVars, socketVars, transfer
<1>3. ASSUME sending, framed PROVE conn_socket'["client"] = conn_socket["client"]
  <2>1. conn_socket["client"] # 0
    BY <1>3 DEF WroteOK, WroteTypes
  <2>2. CASE Lifecycle
    BY <2>1, <2>2 DEF Lifecycle, Connect, Accept, Listen, Release, WireOK, LifeOK, Ends
  <2>3. CASE CloseClient
    BY <1>3, <2>3 DEF CloseClient, Idle
  <2>4. CASE CloseChild
    BY <2>4 DEF CloseChild, Close, WireOK, LifeOK, Ends
  <2>5. CASE Disaster \/ CallReceive \/ RenewReceiver \/ ReceiveOne \/ UNCHANGED vars
    BY <2>5 DEF Disaster, Cut, CallReceive, RenewReceiver, ReceiveOne, OnlyReceiver, Obtain, vars, tlvVars,
       socketVars, life
  <2> QED
    BY <2>2, <2>3, <2>4, <2>5
<1> QED
  BY <1>1, <1>2, <1>3, WroteAside

(* No step of the sending end changes whose connection it is. *)
LEMMA WroteCalls ==
  ASSUME SenderOK, WroteOK, CallSend \/ CallItself \/ Log \/ RenewSender, SendOK'
  PROVE  WroteOK'
<1>0. objects \in Seq(Sendable) /\ objects' \in Seq(Sendable) /\ Ordered(objects, Armed(objects), 1, Nothing(objects))
  BY BeginsInOrder DEF SenderOK, WireOK, SendOK, SendData
<1>1. /\ Nothing(objects) \in [1 .. Len(objects) -> Seq(Seq(Byte))]
      /\ Nothing(objects') \in [1 .. Len(objects') -> Seq(Seq(Byte))]
  BY <1>0, NothingWritten
<1>2. WroteTypes
  BY DEF WroteOK
<1>3. CASE CallSend
  <2>1. /\ ~ sending /\ use = "message" /\ conn_socket["client"] # 0 /\ framed' = TRUE
        /\ UNCHANGED <<use, objects, tx, forgiven, conn_socket>>
        /\ wrote' = Nothing(objects)
    BY <1>3 DEF CallSend, Idle, BeginObjects, Returns, SenderStart, Misused, Write, Transmit, tlvVars, socketVars, life
  <2>2. WroteTypes'
    BY <1>1, <1>2, <2>1 DEF WroteTypes
  <2>3. CASE tm_started
    <3>1. BeginObjects(objects) /\ UNCHANGED <<started, failed, torn, conn_socket>>
      BY <1>3, <2>3 DEF CallSend, tlvVars, senderVars, socketVars, life, transfer
    <3>2. ASSUME Trusted' PROVE InOrder'
      <4>1. started /\ ~ failed /\ ~ forgiven
        BY <2>1, <3>1, <3>2 DEF Trusted
      <4>2. tx = Armed(objects)
        BY <2>1, <4>1 DEF WroteOK, Remembered
      <4>3. objects' = objects /\ tx' = Armed(objects) /\ at' = 1 /\ wrote' = Nothing(objects)
        BY <2>1, <3>1, <4>2 DEF BeginObjects
      <4> QED
        BY <1>0, <4>3 DEF InOrder
    <3> QED
      BY <2>2, <3>1, <3>2 DEF WroteOK, BeginObjects
  <2>4. CASE ~ tm_started
    <3>1. tx = Armed(objects) /\ tx' = Armed(objects)
      BY <2>1, <2>4 DEF WroteOK, Remembered
    <3>2. ~ (~ sending' /\ use' # "log" /\ tx' # Armed(objects)')
      BY <2>1, <3>1 DEF Armed
    <3>3. ASSUME Trusted' PROVE InOrder'
      <4>1. BeginObjects(objects)
        BY <1>3, <2>4, <3>3 DEF CallSend, Returns, Trusted
      <4>2. objects' = objects /\ tx' = Armed(objects) /\ at' = 1 /\ wrote' = Nothing(objects)
        BY <2>1, <3>1, <4>1 DEF BeginObjects
      <4> QED
        BY <1>0, <4>2 DEF InOrder
    <3> QED
      BY <2>2, <3>2, <3>3 DEF WroteOK
  <2> QED
    BY <2>3, <2>4
<1>4. CASE CallItself
  <2>1. /\ ~ sending /\ forgiven' = (forgiven \/ tx # Armed(objects))
        /\ UNCHANGED <<use, objects, tx, framed, sending, wrote>>
    BY <1>4 DEF CallItself, Idle, callVars
  <2>5. tm_started => tm_started'
    BY <1>4, ZenonT(30) DEF CallItself
  <2>2. forgiven' \in BOOLEAN
    BY <1>2, <2>1, Zenon DEF WroteTypes
  <2>3. WroteTypes' /\ ~ Trusted'
    BY <1>2, <2>1, <2>2 DEF WroteTypes, Trusted
  <2>4. (~ sending /\ use # "log" /\ tx # Armed(objects) => Remembered)'
    BY <2>1, <2>5 DEF WroteOK, Remembered, Armed
  <2> QED
    BY <2>3, <2>4 DEF WroteOK
<1>5. CASE Log
  <2>1. use' = "log" /\ framed' = FALSE /\ forgiven' = FALSE /\ wrote' = Nothing(objects')
    BY <1>5 DEF Log, Logging, BeginObjects
  <2> QED
    BY <1>1, <2>1 DEF WroteOK, WroteTypes, Trusted
<1>6. CASE RenewSender
  <2>1. ~ sending' /\ tx' = Armed(objects)' /\ forgiven' = FALSE /\ UNCHANGED <<wrote, objects>>
    BY <1>6 DEF RenewSender, Idle, callVars, Armed
  <2> QED
    BY <1>2, <2>1 DEF WroteOK, WroteTypes, Trusted
<1> QED
  BY <1>3, <1>4, <1>5, <1>6

LEMMA WroteObject ==
  ASSUME SenderOK, WroteOK, SendObject, StreamOK'
  PROVE  WroteOK'
<1> DEFINE answer == Ready(objects[at], tx[at])
           n == Len(wrote[at])
<1>1. /\ sending /\ at \in 1 .. Len(objects) /\ objects \in Seq(Sendable)
      /\ objects[at] \in Sendable /\ tx[at] \in States /\ Underway(objects[at], tx[at])
      /\ tx' = [tx EXCEPT ![at] = answer.state] /\ DOMAIN tx = 1 .. Len(objects)
      /\ UNCHANGED <<use, objects, framed, tm_started, forgiven>>
  BY DEF SendObject, SenderOK, WireOK, SendOK, SendData
<1>2. WroteTypes /\ n \in Nat /\ wrote[at] \in Seq(Seq(Byte))
  BY <1>1 DEF WroteOK, WroteTypes
<1>3. ReadyAnswers(objects[at], answer)
  BY <1>1, ReadyMoves
<1>4. ASSUME Counted(objects[at], tx[at], n) PROVE GivesNext(objects[at], n, answer)
  BY <1>1, <1>2, <1>4, ReadyGivesNext
<1>5. conn_socket' = conn_socket
  BY DEF SendObject, SenderWrite, SenderLast, Misused, Write, Transmit, tlvVars, socketVars, life
<1> HIDE DEF answer
<1>6. CASE ~ answer.more
  <2>1. at' = at + 1 /\ UNCHANGED <<started, failed, torn, sending, wrote>>
    BY <1>6 DEF SendObject, answer, tlvVars, senderVars, socketVars, transfer
  <2>2. WroteTypes'
    BY <1>1, <1>2, <1>5, <2>1 DEF WroteTypes
  <2>3. ASSUME Trusted' PROVE InOrder'
    <3>1. InOrder
      BY <1>1, <1>5, <2>1, <2>3 DEF Trusted, WroteOK
    <3>2. SoFar(objects[at], tx[at], wrote[at])
      BY <1>1, <3>1 DEF InOrder, Ordered
    <3>3. Whole(objects[at], wrote[at])
      BY <1>4, <1>6, <3>2 DEF SoFar, GivesNext, Whole
    <3>4. ASSUME NEW i \in 1 .. Len(objects)
          PROVE  /\ i < at + 1 => Whole(objects[i], wrote[i])
                 /\ i = at + 1 => SoFar(objects[i], tx'[i], wrote[i])
                 /\ i > at + 1 => tx'[i] = Fresh /\ wrote[i] = <<>>
      <4>1. i < at => Whole(objects[i], wrote[i])
        BY <3>1 DEF InOrder, Ordered
      <4>2. i > at => tx'[i] = Fresh /\ wrote[i] = <<>>
        BY <1>1, <3>1 DEF InOrder, Ordered
      <4>3. objects[i] \in Sendable
        BY <1>1
      <4>4. i > at => SoFar(objects[i], tx'[i], wrote[i])
        BY <4>2, <4>3, NothingSoFar
      <4>5. at \in Nat /\ i \in Nat
        BY <1>1
      <4> QED
        BY <3>3, <4>1, <4>2, <4>4, <4>5
    <3> QED
      BY <1>1, <2>1, <3>4 DEF InOrder, Ordered
  <2> QED
    BY <1>1, <2>1, <2>2, <2>3 DEF WroteOK
<1>7. CASE answer.more
  <2>1. PICK ok \in BOOLEAN :
          IF answer.fails
          THEN SenderLast("ERROR", <<1>>, ok) /\ Returns("error")
          ELSE /\ SenderWrite(objects[at].tag, answer.part, ok)
               /\ IF ok
                  THEN /\ wrote' = [wrote EXCEPT ![at] = Append(@, Added)]
                       /\ UNCHANGED <<sending, sent>>
                  ELSE Returns("error")
    BY <1>7 DEF SendObject, answer
  <2>2. at' = at
    BY <1>7 DEF SendObject, answer
  <2>3. ASSUME Returns("error"), failed' \/ ~ started' PROVE WroteOK'
    <3>1. ~ sending' /\ wrote' = Nothing(objects)
      BY <2>3 DEF Returns
    <3>2. WroteTypes'
      BY <1>1, <1>2, <3>1, NothingWritten DEF WroteTypes
    <3>3. use # "log" => tm_started
      BY <1>1 DEF SenderOK, WireOK, SendOK, SendLinks
    <3> QED
      BY <1>1, <2>3, <3>1, <3>2, <3>3 DEF WroteOK, Trusted, Remembered
  <2>4. CASE answer.fails
    <3>1. SenderLast("ERROR", <<1>>, ok) /\ Returns("error")
      BY <2>1, <2>4
    <3>2. failed' \/ ~ started'
      BY <3>1 DEF SenderLast, Misused
    <3> QED
      BY <2>3, <3>1, <3>2
  <2>5. CASE ~ answer.fails /\ ~ ok
    <3>1. SenderWrite(objects[at].tag, answer.part, ok) /\ Returns("error")
      BY <2>1, <2>5
    <3>2. failed'
      BY <2>5, <3>1 DEF SenderWrite, Misused
    <3> QED
      BY <2>3, <3>1, <3>2
  <2>6. CASE ~ answer.fails /\ ok
    <3>1. /\ started /\ UNCHANGED started /\ (~ failed' => ~ failed)
          /\ Write(objects[at].tag, answer.part, ok)
          /\ wrote' = [wrote EXCEPT ![at] = Append(@, Added)]
          /\ sending' = sending
      BY <2>1, <2>6 DEF SenderWrite, Misused
    <3>2. Added \in Seq(Byte)
      BY AddedBytes DEF SenderOK
    <3>3. Append(wrote[at], Added) \in Seq(Seq(Byte)) /\ Len(Append(wrote[at], Added)) = n + 1
      BY <1>2, <3>2
    <3>4. WroteTypes'
      BY <1>1, <1>2, <1>5, <3>1, <3>3 DEF WroteTypes
    <3>5. ASSUME Trusted' PROVE InOrder'
      <4>1. Write(objects[at].tag, answer.part, TRUE) /\ conn_socket["client"] \notin torn'
        BY <1>5, <2>6, <3>1, <3>5 DEF Trusted
      <4>2. objects[at].tag \in Tags /\ answer.part \in Seq(Nat)
        BY <1>1, <1>3 DEF Sendable, Tags, ReadyAnswers
      <4>3. /\ conn_socket["client"] \notin torn
            /\ Added = HeaderBytes(objects[at].tag, Len(answer.part)) \o Bytes(answer.part)
        BY <4>1, <4>2, WriteAdds DEF SenderOK
      <4>4. Trusted
        BY <1>1, <3>1, <3>5, <4>3 DEF Trusted
      <4>5. InOrder /\ SoFar(objects[at], tx[at], wrote[at])
        BY <1>1, <4>4 DEF WroteOK, InOrder, Ordered
      <4>6. answer.part = PartOf(objects[at], n + 1) /\ Counted(objects[at], answer.state, n + 1)
        BY <1>4, <1>7, <2>6, <4>5 DEF SoFar, GivesNext
      <4>7. Added = Message(objects[at], n + 1)
        BY <4>3, <4>6 DEF Message, PartOf
      <4>8. SoFar(objects[at], answer.state, Append(wrote[at], Added))
        <5>1. \A k \in 1 .. n : Append(wrote[at], Added)[k] = wrote[at][k]
          BY <1>2, <3>2
        <5>2. Append(wrote[at], Added)[n + 1] = Added
          BY <1>2, <3>2
        <5>3. ASSUME NEW k \in 1 .. n + 1 PROVE Append(wrote[at], Added)[k] = Message(objects[at], k)
          <6>1. CASE k = n + 1
            BY <4>7, <5>2, <6>1
          <6>2. CASE k \in 1 .. n
            BY <4>5, <5>1, <6>2 DEF SoFar
          <6> QED
            BY <1>2, <6>1, <6>2
        <5> QED
          BY <3>3, <4>6, <5>3 DEF SoFar
      <4>9. /\ tx'[at] = answer.state /\ wrote'[at] = Append(wrote[at], Added)
            /\ \A i \in 1 .. Len(objects) : i # at => tx'[i] = tx[i] /\ wrote'[i] = wrote[i]
        BY <1>1, <1>2, <3>1 DEF WroteTypes
      <4>10. ASSUME NEW i \in 1 .. Len(objects)
             PROVE  /\ i < at => Whole(objects[i], wrote'[i])
                    /\ i = at => SoFar(objects[i], tx'[i], wrote'[i])
                    /\ i > at => tx'[i] = Fresh /\ wrote'[i] = <<>>
        <5>1. CASE i = at
          <6>1. SoFar(objects[i], tx'[i], wrote'[i])
            BY <4>8, <4>9, <5>1
          <6> QED
            BY <1>1, <5>1, <6>1
        <5>2. CASE i # at
          <6>1. tx'[i] = tx[i] /\ wrote'[i] = wrote[i]
            BY <4>9, <5>2
          <6> QED
            BY <4>5, <5>2, <6>1 DEF InOrder, Ordered
        <5> QED
          BY <5>1, <5>2
      <4> QED
        BY <1>1, <2>2, <4>10 DEF InOrder, Ordered
    <3> QED
      BY <1>1, <3>1, <3>4, <3>5 DEF WroteOK
  <2> QED
    BY <2>4, <2>5, <2>6
<1> QED
  BY <1>6, <1>7

(* At the end of the list every object is armed again. *)
LEMMA ArmedAtEnd ==
  ASSUME SendOK, sending, at > Len(objects)
  PROVE  tx = Armed(objects)
<1>1. \A i \in 1 .. Len(objects) : tx[i] = Fresh
  BY DEF SendOK, SendData, SendLinks
<1>2. tx = [i \in 1 .. Len(objects) |-> Fresh]
  BY <1>1 DEF SendOK, SendData
<1> QED
  BY <1>2 DEF Armed, Fresh

LEMMA WroteManager ==
  ASSUME SenderOK, WroteOK, NextManager
  PROVE  WroteOK'
<1>1. /\ objects \in Seq(Sendable) /\ sending /\ at > Len(objects)
      /\ UNCHANGED <<use, objects, tx, framed>>
      /\ wrote' = Nothing(objects)
      /\ forgiven' = (forgiven /\ sent' # "ok")
  BY DEF NextManager, Returns, SenderOK, WireOK, SendOK, SendData
<1>2. tx = Armed(objects) /\ tx' = Armed(objects)
  BY <1>1, ArmedAtEnd DEF SenderOK, WireOK
<1>3. forgiven' \in BOOLEAN
  BY <1>1, Zenon
<1>4. conn_socket' = conn_socket
  BY DEF NextManager, SenderLast, Misused, Write, Transmit, tlvVars, socketVars, life
<1>5. WroteTypes'
  BY <1>1, <1>3, <1>4, NothingWritten DEF WroteOK, WroteTypes
<1>6. ~ (~ sending' /\ use' # "log" /\ tx' # Armed(objects)')
  BY <1>1, <1>2 DEF Armed
<1>7. ASSUME Trusted' PROVE InOrder'
  <2>1. at' = 1
    BY <1>7 DEF NextManager, Returns, Trusted
  <2>2. objects' = objects /\ Ordered(objects, Armed(objects), 1, Nothing(objects))
    BY <1>1, BeginsInOrder
  <2> QED
    BY <1>1, <1>2, <2>1, <2>2 DEF InOrder
<1> QED
  BY <1>5, <1>6, <1>7 DEF WroteOK

LEMMA WroteAlways == Spec => [](SenderOK /\ WroteOK)
<1>1. Init => WroteOK
  <2> HAVE Init
  <2>1. objects \in Seq(Sendable)
    BY SendInit DEF SendOK, SendData
  <2>2. WroteTypes
    BY <2>1, NothingWritten DEF Init, WroteTypes
  <2> QED
    BY <2>2 DEF Init, WroteOK, Trusted
<1>2. SenderOK /\ WroteOK /\ [Next]_vars => WroteOK'
  <2> SUFFICES ASSUME SenderOK, WroteOK, [Next]_vars PROVE WroteOK'
    OBVIOUS
  <2>1. SendOK' /\ StreamOK'
    BY SendNext, StreamNext DEF SenderOK, WireOK
  <2>2. WireOK
    BY DEF SenderOK
  <2>3. CASE Lifecycle \/ CloseClient \/ CloseChild \/ Disaster
             \/ CallReceive \/ RenewReceiver \/ ReceiveOne \/ UNCHANGED vars
    BY <2>2, <2>3, WroteOther
  <2>4. CASE CallSend \/ CallItself \/ Log \/ RenewSender
    BY <2>1, <2>4, WroteCalls
  <2>5. CASE SendObject
    BY <2>1, <2>5, WroteObject
  <2>6. CASE NextManager
    BY <2>6, WroteManager
  <2> QED
    BY <2>3, <2>4, <2>5, <2>6 DEF Next
<1>3. WireOK /\ ReceiveOK /\ Ranges => SenderOK
  BY DEF SenderOK
<1> QED
  BY <1>1, <1>2, <1>3, WireAlways, ReceiveAlways, PTL DEF Spec

OkWritten ==
  /\ sent' = "ok"
  /\ sent = "none"
  /\ framed
  /\ conn_socket["client"] \notin torn'
  /\ ~ forgiven
  => /\ \A i \in 1 .. Len(objects) : Whole(objects[i], wrote[i])
     /\ EndsWith(stream'[conn_socket["client"]], HeaderBytes("END", 0))

(* Of the steps, only the end of the list of objects says that all is      *)
(* well, and end() says so only if _failed has nothing from before.        *)
LEMMA OkWrittenStep ==
  ASSUME SenderOK, WroteOK, [Next]_vars
  PROVE  OkWritten
<1>1. CASE sent' = sent \/ sent' \in {"none", "error"}
  BY <1>1 DEF OkWritten
<1>2. CASE Lifecycle \/ CloseClient \/ CloseChild \/ Disaster \/ CallSend \/ CallItself \/ Log \/ RenewSender
           \/ CallReceive \/ RenewReceiver \/ ReceiveOne \/ SendObject \/ UNCHANGED vars
  BY <1>1, <1>2 DEF Lifecycle, CloseClient, CloseChild, Disaster, Unmanaged, OnlyReceiver, CallSend, CallItself,
     Log, RenewSender, CallReceive, RenewReceiver, ReceiveOne, SendObject, BeginObjects, Returns, txVars, vars
<1>3. CASE NextManager
  <2> DEFINE c == conn_socket["client"]
  <2> SUFFICES ASSUME sent' = "ok", sent = "none", framed, c \notin torn', ~ forgiven
               PROVE  /\ \A i \in 1 .. Len(objects) : Whole(objects[i], wrote[i])
                      /\ EndsWith(stream'[c], HeaderBytes("END", 0))
    BY DEF OkWritten
  <2>1. tm_started /\ sending /\ at > Len(objects) /\ objects \in Seq(Sendable) /\ at \in Nat
    BY <1>3 DEF NextManager, SenderOK, WireOK, SendOK, SendData, SendLinks
  <2>2. PICK ok \in BOOLEAN : SenderLast("END", <<>>, ok) /\ Returns(IF ok THEN "ok" ELSE "error")
    BY <1>3, <2>1 DEF NextManager
  <2>3. ok
    BY <2>2 DEF Returns
  <2>4. PICK written \in BOOLEAN :
          started /\ Write("END", <<>>, written) /\ failed' = (failed \/ ~ written) /\ ok = ~ failed'
    BY <2>2, <2>3 DEF SenderLast, Misused
  <2>5. written /\ ~ failed
    BY <2>3, <2>4
  <2>6. PICK outcome \in WriteOutcomes("END", <<>>) : outcome.ok /\ Transmit(outcome)
    <3>1. ~ (Len(<<>>) > MaxLength)
      BY TlvAssumption
    <3> QED
      BY <2>4, <2>5, <3>1 DEF Write
  <2>7. /\ c # 0 /\ stream' = [stream EXCEPT ![c] = @ \o outcome.bytes]
        /\ torn' = IF Torn(outcome.bytes) THEN torn \cup {c} ELSE torn
    BY <2>6 DEF Transmit
  <2>8. outcome.bytes = HeaderBytes("END", 0) /\ outcome.bytes \in Seq(Byte)
    <3>1. "END" \in Tags /\ <<>> \in Seq(Nat) /\ Len(<<>>) = 0 /\ Bytes(<<>>) = <<>>
      BY DEF Tags, ControlTags, Bytes
    <3>2. WriteSends("END", <<>>, outcome)
      BY <2>6, <3>1, WriteOutcome DEF SenderOK, WireOK, StreamOK
    <3>3. outcome.bytes = HeaderBytes("END", 0) \o <<>> /\ outcome.bytes \in Seq(Byte)
      BY <2>6, <2>7, <3>1, <3>2 DEF WriteSends
    <3>4. HeaderBytes("END", 0) \in Seq(Byte)
      BY <3>1, MessageBytes
    <3>5. HeaderBytes("END", 0) \o <<>> = HeaderBytes("END", 0)
      BY <3>4
    <3> QED
      BY <3>3, <3>5
  <2>9. c \in Connections
    BY <2>7, TlvAssumption DEF SenderOK, WireOK, LifeOK, Ends, Connections
  <2>10. InOrder
    <3>1. c \notin torn
      BY <2>7
    <3> QED
      BY <2>1, <2>4, <2>5, <3>1 DEF WroteOK, Trusted
  <2> HIDE DEF c
  <2>11. stream[c] \in Seq(Byte) /\ stream'[c] = stream[c] \o outcome.bytes
    BY <2>7, <2>9 DEF SenderOK, WireOK, StreamOK
  <2>12. EndsWith(stream'[c], HeaderBytes("END", 0))
    BY <2>8, <2>11, EndsWithIt
  <2>13. \A i \in 1 .. Len(objects) : Whole(objects[i], wrote[i])
    BY <2>1, <2>10 DEF InOrder, Ordered
  <2> QED
    BY <2>12, <2>13
<1> QED
  BY <1>2, <1>3 DEF Next

(* A send() that returns 0 has put every part of every object of its       *)
(* manager on the stream, in order and each once, and END behind them,     *)
(* whatever the lengths, the failures before and the connections used; but *)
(* for garbage, and for a Sender that was made to forget a failure.        *)
THEOREM OkMeansWrittenAlways == Spec => OkMeansWritten
<1>1. SenderOK /\ WroteOK /\ [Next]_vars => [OkWritten]_vars
  BY OkWrittenStep
<1> QED
  BY <1>1, WroteAlways, PTL DEF Spec, OkMeansWritten, OkWritten
=============================================================================
