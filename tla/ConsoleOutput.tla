---------------------------- MODULE ConsoleOutput ----------------------------
(***************************************************************************)
(* Report::ConsoleOutput of src/src/report.cpp: messages may stay on their *)
(* line for the next to overwrite (TEMPORARY) or to continue (NOLINEFEED), *)
(* and the output counts columns so as to leave nothing behind. A message  *)
(* is its width in columns, and the terminal is the row the cursor is on.  *)
(***************************************************************************)
EXTENDS Integers, Sequences

CONSTANTS
  Prefix,           \* the width of the prefix of each level
  Widths,           \* of messages
  MaxMessages       \* bound: messages logged

ASSUME WidthsAssumption ==
  /\ Prefix \in [DOMAIN Prefix -> Nat]
  /\ Widths \subseteq Nat
  /\ MaxMessages \in Nat

VARIABLES
  last_flags,       \* _last_flags, without NOPREFIX
  last_level,       \* _last_level
  size_to_overwrite,
  size_to_recover,
  row,              \* for each column, the message seen there, or Blank
  column,           \* of the cursor
  wanted,           \* what the messages that share the row make of it
  ended,            \* the last row that was left, and what was wanted there
  messages          \* logged so far

consoleVars == <<last_flags, last_level, size_to_overwrite, size_to_recover,
                 row, column, wanted, ended, messages>>

Blank == 0
Flags == {"TEMPORARY", "NOLINEFEED"}
Clear == [row |-> <<>>, column |-> 0, ended |-> [row |-> <<>>, wanted |-> <<>>]]

ConsoleInit ==
  /\ last_flags = {}
  /\ last_level \in DOMAIN Prefix
  /\ size_to_overwrite = 0
  /\ size_to_recover = 0
  /\ row = <<>>
  /\ column = 0
  /\ wanted = <<>>
  /\ ended = Clear.ended
  /\ messages = 0

-----------------------------------------------------------------------------
(* The terminal.                                                           *)

Cells(count, what) == [i \in 1 .. count |-> what]
Larger(a, b) == IF a > b THEN a ELSE b

Draw(screen, count, what) ==
  LET after == screen.column + count
  IN [screen EXCEPT
        !.row = [i \in 1 .. Larger(Len(@), after) |->
                   IF i \in screen.column + 1 .. after THEN what ELSE @[i]],
        !.column = after]

Backspace(screen, count) == [screen EXCEPT !.column = Larger(0, @ - count)]
Return(screen) == [screen EXCEPT !.column = 0]
LineFeed(screen, expected) ==
  [Clear EXCEPT !.ended = [row |-> screen.row, wanted |-> expected]]

(* A message goes on on the line of the one before it only if it has the   *)
(* same level and is as temporary. *)
Continues(level, flags) ==
  /\ "NOLINEFEED" \in last_flags
  /\ level = last_level
  /\ ("TEMPORARY" \in flags) = ("TEMPORARY" \in last_flags)

Recovered(level, flags) ==
  LET screen == [row |-> row, column |-> column, ended |-> ended]
  IN IF "NOLINEFEED" \notin last_flags THEN screen
     ELSE IF Continues(level, flags) THEN Backspace(screen, size_to_recover)
     ELSE IF "TEMPORARY" \in last_flags THEN Return(screen)
     ELSE LineFeed(screen, wanted)

(* A mistake the checks notice: only the last part of a temporary line     *)
(* would be overwritten. *)
OverwriteLast(before, size) == size

Overwrite(before, size) == before + size

(* What sticks out of the temporary message that this one overwrites. *)
Excess(size) == IF size_to_overwrite > size THEN size_to_overwrite - size ELSE 0

(* ConsoleOutput::log(). The lines of a buffer come after the line feed.   *)
ConsoleLog(level, flags, text) ==
  LET goes_on == Continues(level, flags)
      width == text + (IF goes_on THEN 0 ELSE Prefix[level])
      size == IF "TEMPORARY" \in flags \/ size_to_overwrite # 0 THEN width ELSE 0
      excess == IF goes_on THEN 0 ELSE Excess(size)
      expected == (IF goes_on THEN wanted ELSE <<>>) \o Cells(width, messages')
      printed == Draw(Draw(Recovered(level, flags), width, messages'), excess, Blank)
      screen == IF "NOLINEFEED" \in flags THEN printed
                ELSE IF "TEMPORARY" \in flags THEN Return(printed)
                ELSE LineFeed(printed, expected)
  IN /\ messages < MaxMessages
     /\ messages' = messages + 1
     /\ row' = screen.row
     /\ column' = screen.column
     /\ ended' = screen.ended
     /\ wanted' = IF flags = {} THEN <<>> ELSE expected
     /\ size_to_recover' = IF "NOLINEFEED" \in flags THEN excess ELSE 0
     /\ size_to_overwrite' =
          IF "TEMPORARY" \in flags
          THEN Overwrite(IF goes_on THEN size_to_overwrite ELSE 0, size)
          ELSE 0
     /\ last_flags' = flags
     /\ last_level' = level

ConsoleNext ==
  \E level \in DOMAIN Prefix, flags \in SUBSET Flags, text \in Widths : ConsoleLog(level, flags, text)

ConsoleSpec == ConsoleInit /\ [][ConsoleNext]_consoleVars

-----------------------------------------------------------------------------
Shows(cells, expected) ==
  \A i \in 1 .. Len(cells) : cells[i] = IF i <= Len(expected) THEN expected[i] ELSE Blank

(* Whatever was temporary or continued, the row the cursor is on and the   *)
(* last one left show the messages that belong there and nothing of those  *)
(* they overwrote (ConsoleOutput::log(), 242-368). *)
LineIsClean ==
  /\ Len(row) >= Len(wanted) /\ Shows(row, wanted)
  /\ Len(ended.row) >= Len(ended.wanted) /\ Shows(ended.row, ended.wanted)
=============================================================================
