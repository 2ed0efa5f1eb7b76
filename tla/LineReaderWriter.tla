--------------------------- MODULE LineReaderWriter ---------------------------
(***************************************************************************)
(* src/src/linereaderwriter.cpp over a file (src/src/filereaderwriter.cpp):*)
(* a text is written, then read back by lines and by pieces through a      *)
(* buffer, so that a delimiter may fall on either side of its boundary.    *)
(***************************************************************************)
EXTENDS Integers, Sequences

CONSTANTS
  Chars,            \* of texts
  Delimiters,       \* pairs of delimiters, the second possibly NoChar
  NoChar,
  BufferSize,       \* the size of the buffer
  MaxText,          \* bound: length of the text
  MaxPieces         \* bound on the sizes asked by read() and get()

ASSUME LineAssumption ==
  /\ Delimiters \subseteq Chars \X (Chars \cup {NoChar})
  /\ NoChar \notin Chars
  /\ {BufferSize, MaxText, MaxPieces} \subseteq Nat \ {0}

VARIABLES
  delims,           \* the delimiters of this text
  text,             \* what is in the file
  reading,          \* whether it was opened for reading
  position,         \* how much of it the child gave
  ahead,            \* the buffer from reader to buffer_end
  found,            \* whether getLine() found its delimiters
  offset,           \* _offset
  latest,           \* what the last call returned, where, and which it was
  broken            \* whether the child failed

lineVars == <<delims, text, reading, position, ahead, found, offset, latest, broken>>

Nowhere == [call |-> "none", start |-> 0, bytes |-> <<>>]

LineInit ==
  /\ delims \in Delimiters
  /\ text = <<>>
  /\ reading = FALSE
  /\ position = 0
  /\ ahead = <<>>
  /\ found = FALSE
  /\ offset = 0
  /\ latest = Nowhere
  /\ broken = FALSE

-----------------------------------------------------------------------------
(* put() and putLine(), which puts the line, then each delimiter. When one *)
(* of these fails, what went before is in the file and not in _offset. *)

Ending == IF delims[2] = NoChar THEN <<delims[1]>> ELSE delims

Appended(bytes, count) ==
  /\ text' = text \o bytes
  /\ offset' = offset + count
  /\ UNCHANGED <<delims, reading, position, ahead, found, latest>>

PutChar(c) ==
  /\ ~ reading /\ ~ broken
  /\ Len(text) < MaxText
  /\ \/ Appended(<<c>>, 1) /\ UNCHANGED broken
     \/ Appended(<<>>, 0) /\ broken' = TRUE

PutLine(line) ==
  /\ ~ reading /\ ~ broken
  /\ Len(text) + Len(line) + Len(Ending) <= MaxText
  /\ \/ Appended(line \o Ending, Len(line) + Len(Ending)) /\ UNCHANGED broken
     \/ broken' = TRUE /\ (Appended(<<>>, 0) \/ Appended(line, 0))
     \/ /\ delims[2] # NoChar
        /\ broken' = TRUE
        /\ Appended(Append(line, delims[1]), Len(line) + 1)

(* close() and open() of another one, on the same file. *)
Reopen ==
  /\ ~ reading
  /\ reading' = TRUE
  /\ position' = 0
  /\ ahead' = <<>>
  /\ offset' = 0
  /\ broken' = FALSE
  /\ UNCHANGED <<delims, text, found, latest>>

-----------------------------------------------------------------------------
Lesser(a, b) == IF a < b THEN a ELSE b
From(seq, n) == SubSeq(seq, n + 1, Len(seq))
Left(seq, n) == SubSeq(seq, 1, Lesser(n, Len(seq)))

(* FileReaderWriter::get(): all that was asked for, but at the end. *)
Rest(n) == From(text, n)

(* Where the first delimiter is in a buffer, after so many bytes, or 0. *)
Search(buffer, after) ==
  LET places == {i \in after + 1 .. Len(buffer) : buffer[i] = delims[1]}
  IN IF places = {} THEN 0 ELSE CHOOSE i \in places : \A j \in places : i <= j

(* A mistake the checks notice: the first delimiter is forgotten at the    *)
(* end of a buffer. *)
TurnForgets(s) ==
  LET pos == Search(s.ahead, 0)
      next == pos + 1
      used == IF pos = 0 THEN Len(s.ahead)
              ELSE IF delims[2] # NoChar /\ next <= Len(s.ahead) THEN next ELSE pos
  IN [s EXCEPT !.ahead = From(@, used),
               !.line = @ \o Left(s.ahead, used),
               !.first = FALSE,
               !.found = pos # 0 /\ (delims[2] = NoChar
                           \/ (next <= Len(s.ahead) /\ s.ahead[next] = delims[2]))]

(* One turn of the loop of getLine(), on a buffer that is not empty: the   *)
(* byte after the first delimiter is consumed, whether or not it is the    *)
(* second one, if it is in the buffer. *)
Turn(s) ==
  LET second == s.first /\ s.ahead[1] = delims[2]
      pos == Search(s.ahead, IF s.first THEN 1 ELSE 0)
      next == pos + 1
      pair == delims[2] # NoChar /\ next <= Len(s.ahead)
      used == IF second THEN 1
              ELSE IF pos = 0 THEN Len(s.ahead)
              ELSE IF pair THEN next ELSE pos
      ended == second \/ (pos # 0 /\ (delims[2] = NoChar \/ (pair /\ s.ahead[next] = delims[2])))
  IN [s EXCEPT !.ahead = From(@, used),
               !.line = @ \o Left(s.ahead, used),
               !.first = pos # 0 /\ ~ ended,
               !.found = ended]

(* The buffer is filled when it is empty. *)
Filled(s) ==
  LET more == Left(Rest(s.position), BufferSize)
  IN [s EXCEPT !.ahead = more, !.position = @ + Len(more)]

(* All turns, until the end of the line or of the file. *)
Scans == [ahead : Seq(Chars), position : Nat, line : Seq(Chars), first : BOOLEAN, found : BOOLEAN]
Turns[s \in Scans] ==
  IF s.found \/ (s.ahead = <<>> /\ Filled(s).ahead = <<>>) THEN s
  ELSE Turns[IF s.ahead = <<>> THEN Filled(s) ELSE Turn(s)]

Returned(call, bytes) ==
  /\ latest' = [call |-> call, start |-> offset, bytes |-> bytes]
  /\ offset' = offset + Len(bytes)
  /\ UNCHANGED <<delims, text, reading, broken>>

(* The child fails: what was consumed is lost, and read() adds -1.         *)
Fails(count) ==
  /\ broken' = TRUE
  /\ offset' = offset + count
  /\ UNCHANGED <<delims, text, reading, position, ahead, found, latest>>

GetLine ==
  LET s == Turns[[ahead |-> ahead, position |-> position, line |-> <<>>,
                  first |-> FALSE, found |-> FALSE]]
  IN /\ reading /\ ~ broken
     /\ \/ /\ Returned("getLine", s.line)
           /\ ahead' = s.ahead
           /\ position' = s.position
           /\ found' = s.found
        \/ (s.position # position \/ ~ s.found) /\ Fails(0)

(* read() gives what is buffered, or what the child reads at once. *)
Read(size) ==
  /\ reading /\ ~ broken
  /\ UNCHANGED found
  /\ IF ahead # <<>>
     THEN /\ Returned("read", Left(ahead, size))
          /\ ahead' = From(ahead, Lesser(size, Len(ahead)))
          /\ UNCHANGED position
     ELSE \/ \E count \in 0 .. Lesser(size, Len(text) - position) :
               /\ count = 0 => position = Len(text)
               /\ Returned("read", Left(Rest(position), count))
               /\ position' = position + count
               /\ UNCHANGED ahead
          \/ Fails(-1)

Get(size) ==
  LET more == Left(Rest(position), size - Lesser(size, Len(ahead)))
  IN /\ reading /\ ~ broken
     /\ UNCHANGED found
     /\ \/ /\ Returned("get", Left(ahead, size) \o more)
           /\ ahead' = From(ahead, Lesser(size, Len(ahead)))
           /\ position' = position + Len(more)
        \/ Len(ahead) < size /\ Fails(0)

LineNext ==
  \/ \E c \in Chars : PutChar(c)
  \/ \E line \in {<<>>} \cup {<<c>> : c \in Chars} : PutLine(line)
  \/ Reopen
  \/ GetLine
  \/ \E size \in 1 .. MaxPieces : Read(size)
  \/ \E size \in 1 .. MaxPieces : Get(size)

-----------------------------------------------------------------------------
(* "A second delimiter expected right after the first" (linereaderwriter.h,*)
(* 54): a text where it is not there is none that getLine() promises much  *)
(* about; it takes the byte after a lone first delimiter for granted, and  *)
(* a second one that comes later for the end (157).                        *)
Regular ==
  delims[2] # NoChar =>
    \A i \in 1 .. Len(text) - 1 : text[i] = delims[1] => text[i + 1] = delims[2]

(* Where a line that begins after so many bytes ends. *)
EndOfLine(start) ==
  LET ends == {i \in start + Len(Ending) .. Len(text) :
                 SubSeq(text, i - Len(Ending) + 1, i) = Ending}
  IN IF ends = {} THEN Len(text) ELSE CHOOSE i \in ends : \A j \in ends : i <= j

(* However calls of getLine(), read() and get() follow each other and      *)
(* wherever the buffer ends, no byte is lost or given twice, the offset is *)
(* where the next one is, and a line is one: up to its delimiters, or to   *)
(* the end if there are none. Nothing is said once the child failed.       *)
WholeLines ==
  ~ broken =>
    /\ reading /\ latest.call # "none" =>
         /\ offset = latest.start + Len(latest.bytes)
         /\ latest.bytes = SubSeq(text, latest.start + 1, offset)
    /\ latest.call = "getLine" /\ Regular =>
         /\ offset = EndOfLine(latest.start)
         /\ found = (Len(latest.bytes) >= Len(Ending)
                     /\ SubSeq(text, offset - Len(Ending) + 1, offset) = Ending)
    /\ ~ reading => offset = Len(text)
=============================================================================
