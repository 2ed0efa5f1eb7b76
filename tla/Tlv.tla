-------------------------------- MODULE Tlv --------------------------------
(***************************************************************************)
(* src/src/tlv.cpp: messages made of a tag, a length and a value, written  *)
(* by a Sender to the client socket and received by a Receiver from the    *)
(* child. A message is a header of four bytes and the bytes of its value;  *)
(* a header byte is written here as its position with what the header      *)
(* says, a value byte as a number.                                         *)
(***************************************************************************)
EXTENDS Socket

CONSTANTS
  MaxLength,        \* MAX_LENGTH and BUFFER_MAX, the longest value
  DataTags,         \* tags of objects
  Misread           \* bound: what is read out of garbage

ControlTags == {"START", "CHECK", "END", "ERROR"}
Tags == DataTags \cup ControlTags

VARIABLES
  started,          \* Sender::_started
  failed            \* Sender::_failed

senderVars == <<started, failed>>
tlvVars == <<socketVars, senderVars>>

TlvTypeOK == SocketTypeOK /\ started \in BOOLEAN /\ failed \in BOOLEAN
TlvInit(fd) == SocketInit(fd) /\ started = FALSE /\ failed = FALSE

-----------------------------------------------------------------------------
(* Sender::write(): header then value, a short put() being a failure.      *)

Bytes(value) == [i \in 1 .. Len(value) |-> <<"value", value[i]>>]
HeaderBytes(tag, len) == [i \in 1 .. 4 |-> <<"header", i, tag, len>>]

WriteOutcomes(tag, value) ==
  LET headers == PutOutcomes(HeaderBytes(tag, Len(value)))
      values == PutOutcomes(Bytes(value))
  IN {h \in headers : ~ h.ok}
     \cup UNION {{[ok |-> v.ok, bytes |-> h.bytes \o v.bytes] : v \in values} :
                  h \in {g \in headers : g.ok}}

Write(tag, value, ok) ==
  IF Len(value) > MaxLength
  THEN ~ ok /\ UNCHANGED socketVars
  ELSE \E outcome \in WriteOutcomes(tag, value) : outcome.ok = ok /\ Transmit(outcome)

(* Out of order, nothing is written, and that counts as a failure. *)
Misused(ok) == ~ ok /\ failed' = TRUE /\ UNCHANGED <<started, socketVars>>

SenderStart(ok) ==
  IF started
  THEN Misused(ok)
  ELSE started' = TRUE /\ failed' = ~ ok /\ Write("START", <<>>, ok)

(* start() and check() replace what was noted before. *)
SenderCheck(ok) ==
  IF started
  THEN failed' = ~ ok /\ Write("CHECK", <<>>, ok) /\ UNCHANGED started
  ELSE Misused(ok)

(* A mistake the checks notice: a success makes up for the failure before. *)
SenderWriteForgets(tag, value, ok) ==
  IF started
  THEN failed' = ~ ok /\ Write(tag, value, ok) /\ UNCHANGED started
  ELSE Misused(ok)

SenderWrite(tag, value, ok) ==
  IF started
  THEN failed' = (failed \/ ~ ok) /\ Write(tag, value, ok) /\ UNCHANGED started
  ELSE Misused(ok)

(* end() and error(): what write() returns only counts through _failed. *)
SenderLast(tag, value, ok) ==
  IF started
  THEN \E written \in BOOLEAN :
         /\ Write(tag, value, written)
         /\ started' = FALSE
         /\ failed' = (failed \/ ~ written)
         /\ ok = ~ failed'
  ELSE Misused(ok)

-----------------------------------------------------------------------------
(* Receiver::receive(): a header, then as many bytes as it announces.      *)

(* The last byte of a header that ends after three is whatever the buffer  *)
(* held: MaxLength, the one length whose upper byte is not zero, stays     *)
(* apart from the others. *)
LengthsLike(len) ==
  IF len = MaxLength THEN MaxLength - 1 .. MaxLength ELSE 0 .. MaxLength - 1

(* What the bytes received as a header say: garbage may say anything. *)
Meanings(bytes) ==
  IF \E tag \in Tags, len \in 0 .. MaxLength :
       bytes = SubSeq(HeaderBytes(tag, len), 1, Len(bytes))
  THEN [tag : {bytes[1][3]},
        len : IF Len(bytes) = 4 THEN {bytes[1][4]} ELSE LengthsLike(bytes[1][4])]
  ELSE Misread

TypeOf(tag) == IF tag \in ControlTags THEN tag ELSE "DATA"

(* What receive() may return now; nothing while it has to wait. An error   *)
(* leaves nothing to be received. *)
Receptions(c) ==
  LET rest == stream[c]
      error == [type |-> "ERROR", tag |-> "END", value |-> <<>>, count |-> Len(rest)]
      size == Smaller(4, Len(rest))
      Body(h) ==
        IF size + h.len <= Len(rest)
        THEN {[type |-> TypeOf(h.tag), tag |-> h.tag,
               value |-> SubSeq(rest, size + 1, size + h.len), count |-> size + h.len]}
        ELSE IF Over(c) THEN {error} ELSE {}
  IN (IF c \in lost THEN {error} ELSE {})
     \cup (IF size < 3 /\ Over(c) THEN {error} ELSE {})
     \cup (IF size = 4 \/ (size = 3 /\ Over(c))
           THEN UNION {Body(h) : h \in Meanings(SubSeq(rest, 1, size))}
           ELSE {})
=============================================================================
