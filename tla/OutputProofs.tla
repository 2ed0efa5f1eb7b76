---------------------------- MODULE OutputProofs ----------------------------
(***************************************************************************)
(* Theorems about ConsoleOutput and FileOutput: what stays on the row of   *)
(* the terminal, whatever the widths and the number of messages; and the   *)
(* order of the backups, and that none is lost before it is due, whatever  *)
(* their number.                                                           *)
(***************************************************************************)
EXTENDS ConsoleOutput, FileOutput, SequenceTheorems, FiniteSetTheorems, TLAPS

(* What ConsoleOutput believes of the row: the columns to overwrite are    *)
(* those of the messages that share it, and the cursor is behind them and  *)
(* the blanks that erased older ones. *)
Rows == [row : Seq(Nat), wanted : Seq(Nat)]

ConsoleTypeOK ==
  /\ last_flags \in SUBSET Flags
  /\ size_to_overwrite \in Nat /\ size_to_recover \in Nat /\ messages \in Nat
  /\ row \in Seq(Nat) /\ column \in 0 .. Len(row) /\ wanted \in Seq(Nat)
  /\ ended \in Rows

Believed ==
  /\ size_to_overwrite = IF "TEMPORARY" \in last_flags THEN Len(wanted) ELSE 0
  /\ column = IF "NOLINEFEED" \in last_flags THEN Len(wanted) + size_to_recover ELSE 0
  /\ last_flags = {} => row = <<>> /\ wanted = <<>>

ConsoleInv == ConsoleTypeOK /\ Believed /\ LineIsClean

(* What a row shows beyond the columns that are about to be overwritten.   *)
ShowsBeyond(hidden, cells, expected) ==
  \A i \in 1 .. Len(cells) :
    i > hidden => cells[i] = IF i <= Len(expected) THEN expected[i] ELSE Blank

Screen(cells, at, left) == [row |-> cells, column |-> at, ended |-> left]

(* Printing from the cursor on.                                            *)
Printed(drawn, cells, at, count, what) ==
  /\ Len(drawn) >= Len(cells) /\ Len(drawn) >= at + count
  /\ \A i \in 1 .. Len(drawn) :
       IF i \in at + 1 .. at + count THEN drawn[i] = what
       ELSE i <= Len(cells) /\ drawn[i] = cells[i]

LEMMA DrawFromCursor ==
  ASSUME NEW cells \in Seq(Nat), NEW at \in 0 .. Len(cells), NEW left \in Rows,
         NEW count \in Nat, NEW what \in Nat
  PROVE  \E drawn \in Seq(Nat) :
           /\ Draw(Screen(cells, at, left), count, what) = Screen(drawn, at + count, left)
           /\ Printed(drawn, cells, at, count, what)
<1> DEFINE size == Larger(Len(cells), at + count)
           drawn == [i \in 1 .. size |->
                       IF i \in at + 1 .. at + count THEN what ELSE cells[i]]
<1>1. /\ size \in Nat /\ Len(cells) \in Nat /\ size >= Len(cells) /\ size >= at + count
      /\ \A i \in 1 .. size : i \notin at + 1 .. at + count => i \in 1 .. Len(cells)
  BY LenProperties DEF Larger
<1>2. drawn \in [1 .. size -> Nat]
  BY <1>1, ElementOfSeq
<1>3. drawn \in Seq(Nat) /\ Len(drawn) = size
  <2>1. drawn \in Seq(Nat)
    BY <1>1, <1>2, SeqDef
  <2>2. QED
    BY <1>1, <1>2, <2>1, LenProperties
<1>4. Draw(Screen(cells, at, left), count, what) = Screen(drawn, at + count, left)
  <2>1. Screen(cells, at, left).row = cells /\ Screen(cells, at, left).column = at
    BY DEF Screen
  <2>2. Draw(Screen(cells, at, left), count, what)
          = [Screen(cells, at, left) EXCEPT !.row = drawn, !.column = at + count]
    BY <2>1 DEF Draw
  <2> HIDE DEF drawn
  <2>3. QED
    BY <2>2 DEF Screen
<1>5. \A i \in 1 .. size : drawn[i] = IF i \in at + 1 .. at + count THEN what ELSE cells[i]
  OBVIOUS
<1> HIDE DEF drawn, size
<1>6. Printed(drawn, cells, at, count, what)
  BY <1>1, <1>3, <1>5 DEF Printed
<1>7. QED
  BY <1>3, <1>4, <1>6

(* A message behind others.                                                *)
Follows(joined, cells, count, what) ==
  /\ joined \in Seq(Nat) /\ Len(joined) = Len(cells) + count
  /\ \A i \in 1 .. Len(cells) + count :
       IF i <= Len(cells) THEN joined[i] = cells[i] ELSE joined[i] = what

LEMMA CellsAppended ==
  ASSUME NEW cells \in Seq(Nat), NEW count \in Nat, NEW what \in Nat
  PROVE  Follows(cells \o Cells(count, what), cells, count, what)
<1>1. Cells(count, what) \in [1 .. count -> Nat]
  BY DEF Cells
<1>2. Cells(count, what) \in Seq(Nat)
  BY <1>1, SeqDef
<1>3. Len(Cells(count, what)) = count
  BY <1>1, <1>2, LenProperties
<1>4. \A i \in 1 .. count : Cells(count, what)[i] = what
  BY DEF Cells
<1> HIDE DEF Cells
<1>5. /\ cells \o Cells(count, what) \in Seq(Nat)
      /\ Len(cells \o Cells(count, what)) = Len(cells) + count
      /\ \A i \in 1 .. Len(cells) + count :
           (cells \o Cells(count, what))[i]
             = IF i <= Len(cells) THEN cells[i] ELSE Cells(count, what)[i - Len(cells)]
  BY <1>2, <1>3, ConcatProperties
<1>6. \A i \in 1 .. Len(cells) + count : i > Len(cells) => i - Len(cells) \in 1 .. count
  BY LenProperties
<1>7. QED
  BY <1>4, <1>5, <1>6 DEF Follows

(* The columns in which a row may still show a message before.             *)
Ready(hidden, cells, before, at, length) ==
  /\ at = Len(before) /\ at <= Len(cells) /\ ShowsBeyond(hidden, cells, before)
  /\ hidden = 0 \/ (at = 0 /\ hidden <= length)

(* The messages that the next one is printed behind.                       *)
Shared(level, flags) == IF Continues(level, flags) THEN wanted ELSE <<>>
Hidden(level, flags) == IF Continues(level, flags) THEN 0 ELSE size_to_overwrite

Clean(left) == Len(left.row) >= Len(left.wanted) /\ Shows(left.row, left.wanted)

(* What recovers the row of the message before leaves the cursor behind    *)
(* them.                                                                   *)
LEMMA RowRecovered ==
  ASSUME ConsoleInv, NEW level, NEW flags \in SUBSET Flags
  PROVE  /\ Shared(level, flags) \in Seq(Nat)
         /\ \E cells \in Seq(Nat), left \in Rows :
              /\ Recovered(level, flags) = Screen(cells, Len(Shared(level, flags)), left)
              /\ Len(Shared(level, flags)) <= Len(cells)
              /\ ShowsBeyond(Hidden(level, flags), cells, Shared(level, flags))
              /\ Clean(left)
<1> USE DEF ConsoleInv, ConsoleTypeOK, Believed
<1>1. /\ Len(wanted) \in Nat /\ Len(row) \in Nat /\ <<>> \in Seq(Nat) /\ Len(<<>>) = 0
      /\ size_to_recover \in Nat
  BY LenProperties, EmptySeq
<1>2. Clean(ended) /\ Len(wanted) <= Len(row) /\ Shows(row, wanted)
  BY <1>1 DEF LineIsClean, Clean
<1>3. ShowsBeyond(0, row, wanted)
  BY <1>2 DEF Shows, ShowsBeyond
<1>4. size_to_overwrite >= Len(wanted) => ShowsBeyond(size_to_overwrite, row, <<>>)
  BY <1>1, <1>2 DEF Shows, ShowsBeyond
<1>5. CASE "NOLINEFEED" \notin last_flags
  <2>1. ~ Continues(level, flags) /\ column = 0
    BY <1>5 DEF Continues
  <2>2. Recovered(level, flags) = Screen(row, 0, ended)
    BY <1>5, <2>1 DEF Recovered, Screen
  <2>3. size_to_overwrite >= Len(wanted)
    <3>1. last_flags = {} \/ "TEMPORARY" \in last_flags
      BY <1>5 DEF Flags
    <3>2. last_flags = {} => Len(wanted) = 0
      BY <1>1
    <3>3. QED
      BY <1>1, <3>1, <3>2
  <2>4. QED
    BY <1>1, <1>2, <1>4, <2>1, <2>2, <2>3 DEF Shared, Hidden
<1>6. CASE "NOLINEFEED" \in last_flags /\ Continues(level, flags)
  <2>1. column = Len(wanted) + size_to_recover
    BY <1>6
  <2>2. Recovered(level, flags) = Backspace(Screen(row, column, ended), size_to_recover)
    BY <1>6 DEF Recovered, Screen
  <2>3. Larger(0, column - size_to_recover) = Len(wanted)
    BY <1>1, <2>1 DEF Larger
  <2>4. Recovered(level, flags) = Screen(row, Len(wanted), ended)
    BY <2>2, <2>3 DEF Backspace, Screen
  <2>5. QED
    BY <1>1, <1>2, <1>3, <1>6, <2>4 DEF Shared, Hidden
<1>7. CASE "NOLINEFEED" \in last_flags /\ ~ Continues(level, flags) /\ "TEMPORARY" \in last_flags
  <2>1. Recovered(level, flags) = Screen(row, 0, ended)
    BY <1>7 DEF Recovered, Screen, Return
  <2>2. size_to_overwrite >= Len(wanted)
    BY <1>1, <1>7
  <2>3. QED
    BY <1>1, <1>2, <1>4, <1>7, <2>1, <2>2 DEF Shared, Hidden
<1>8. CASE "NOLINEFEED" \in last_flags /\ ~ Continues(level, flags) /\ "TEMPORARY" \notin last_flags
  <2>1. Recovered(level, flags) = Screen(<<>>, 0, [row |-> row, wanted |-> wanted])
    BY <1>8 DEF Recovered, Screen, LineFeed, Clear
  <2>2. Clean([row |-> row, wanted |-> wanted])
    BY <1>2 DEF Clean
  <2>3. ShowsBeyond(size_to_overwrite, <<>>, <<>>)
    BY <1>1 DEF ShowsBeyond
  <2>4. [row |-> row, wanted |-> wanted] \in Rows
    BY DEF Rows
  <2>5. Shared(level, flags) = <<>> /\ Hidden(level, flags) = size_to_overwrite
    BY <1>8 DEF Shared, Hidden
  <2> HIDE DEF ConsoleInv, ConsoleTypeOK, Believed
  <2>6. 0 <= Len(<<>>) /\ Recovered(level, flags) = Screen(<<>>, Len(<<>>), [row |-> row, wanted |-> wanted])
    BY <1>1, <2>1
  <2>7. QED
    BY <1>1, <2>2, <2>3, <2>4, <2>5, <2>6
<1>9. QED
  BY <1>5, <1>6, <1>7, <1>8

(* Every message leaves the row as its output believes it is.              *)
LEMMA ConsoleStep ==
  ASSUME ConsoleInv, NEW level \in DOMAIN Prefix, NEW flags \in SUBSET Flags,
         NEW text \in Widths, ConsoleLog(level, flags, text)
  PROVE  ConsoleInv'
<1> DEFINE goes_on == Continues(level, flags)
           width == text + (IF goes_on THEN 0 ELSE Prefix[level])
           size == IF "TEMPORARY" \in flags \/ size_to_overwrite # 0 THEN width ELSE 0
           excess == IF goes_on THEN 0 ELSE Excess(size)
           shared == Shared(level, flags)
           joined == shared \o Cells(width, messages')
<1>1. /\ width \in Nat /\ size \in Nat /\ excess \in Nat
      /\ messages' \in Nat /\ size_to_overwrite \in Nat
      /\ size_to_overwrite # 0 => size = width
      /\ "TEMPORARY" \in flags => size = width
  <2>1. size_to_overwrite \in Nat /\ messages \in Nat
    BY DEF ConsoleInv, ConsoleTypeOK
  <2>2. messages' = messages + 1
    BY DEF ConsoleLog
  <2>3. text \in Nat /\ Prefix[level] \in Nat
    BY WidthsAssumption
  <2>4. width \in Nat
    BY <2>3
  <2> HIDE DEF width, goes_on
  <2>5. size \in Nat
    BY <2>4
  <2>6. excess \in Nat
    BY <2>1, <2>5 DEF Excess
  <2>7. QED
    BY <2>1, <2>2, <2>4, <2>5, <2>6
<1>2. goes_on => excess = 0
  OBVIOUS
<1>3. Hidden(level, flags) <= width + excess /\ Hidden(level, flags) \in Nat
  BY <1>1 DEF Hidden, Excess
<1>4. Hidden(level, flags) = 0 \/ Len(shared) = 0
  BY EmptySeq DEF Hidden, Shared
<1>5. shared \in Seq(Nat)
  BY RowRecovered
<1>6. Len(shared) \in Nat
  BY <1>5, LenProperties
<1>7. Follows(joined, shared, width, messages')
  BY <1>1, <1>5, CellsAppended
<1>8. PICK cells \in Seq(Nat), left \in Rows :
        /\ Recovered(level, flags) = Screen(cells, Len(shared), left)
        /\ Len(shared) <= Len(cells)
        /\ ShowsBeyond(Hidden(level, flags), cells, shared)
        /\ Clean(left)
  BY RowRecovered

<1>9. PICK drawn \in Seq(Nat) :
        /\ Draw(Draw(Screen(cells, Len(shared), left), width, messages'), excess, Blank)
             = Screen(drawn, Len(shared) + width + excess, left)
        /\ Len(drawn) >= Len(shared) + width + excess
        /\ Shows(drawn, joined)
  <2> HIDE DEF goes_on, width, size, excess, shared, joined
  <2>1. PICK at \in Nat, hidden \in Nat, what \in Nat, columns \in Nat, blanks \in Nat :
          /\ at = Len(shared) /\ hidden = Hidden(level, flags) /\ what = messages'
          /\ columns = width /\ blanks = excess
    BY <1>1, <1>3, <1>6
  <2>2. Ready(hidden, cells, shared, at, columns + blanks)
    BY <1>3, <1>4, <1>8, <2>1 DEF Ready
  <2>3. Follows(joined, shared, columns, what)
    BY <1>7, <2>1
  <2>4. PICK first \in Seq(Nat) :
          /\ Draw(Screen(cells, at, left), columns, what) = Screen(first, at + columns, left)
          /\ Printed(first, cells, at, columns, what)
    <3>1. at \in 0 .. Len(cells)
      BY <2>2, LenProperties DEF Ready
    <3>2. QED
      BY <3>1, DrawFromCursor
  <2>5. PICK drawn \in Seq(Nat) :
          /\ Draw(Screen(first, at + columns, left), blanks, Blank)
               = Screen(drawn, at + columns + blanks, left)
          /\ Printed(drawn, first, at + columns, blanks, Blank)
    <3>1. at + columns \in 0 .. Len(first) /\ Blank \in Nat
      BY <2>4, LenProperties DEF Printed, Blank
    <3>2. QED
      BY <3>1, DrawFromCursor
  <2>6. Shows(drawn, joined)
    <3>1. PICK length \in Nat, n \in Nat, m \in Nat :
            length = Len(drawn) /\ n = Len(first) /\ m = Len(cells)
      BY LenProperties
    <3>2. /\ at = Len(shared) /\ at <= m /\ n >= at + columns
          /\ hidden = 0 \/ (at = 0 /\ hidden <= columns + blanks)
      BY <2>2, <2>4, <3>1 DEF Ready, Printed
    <3>3. ASSUME NEW i \in 1 .. length
          PROVE  drawn[i] = IF i <= at + columns THEN joined[i] ELSE Blank
      <4>1. i \in Nat /\ i >= 1 /\ i <= length
        OBVIOUS
      <4>2. IF i \in at + columns + 1 .. at + columns + blanks THEN drawn[i] = Blank
            ELSE i <= n /\ drawn[i] = first[i]
        BY <2>5, <3>1 DEF Printed
      <4>3. i <= n => IF i \in at + 1 .. at + columns THEN first[i] = what
                      ELSE i <= m /\ first[i] = cells[i]
        BY <2>4, <3>1 DEF Printed
      <4>4. i <= m /\ i > hidden => cells[i] = IF i <= at THEN shared[i] ELSE Blank
        BY <2>2, <3>1 DEF Ready, ShowsBeyond
      <4>5. i <= at + columns => IF i <= at THEN joined[i] = shared[i] ELSE joined[i] = what
        BY <2>3, <3>2 DEF Follows
      <4>6. CASE i <= at
        <5>1. i > hidden /\ i <= at + columns
          BY <3>2, <4>1, <4>6
        <5>2. drawn[i] = first[i] /\ first[i] = cells[i] /\ i <= m
          BY <4>1, <4>2, <4>3, <4>6
        <5>3. QED
          BY <4>4, <4>5, <4>6, <5>1, <5>2
      <4>7. CASE i > at /\ i <= at + columns
        <5>1. drawn[i] = first[i] /\ first[i] = what
          BY <4>1, <4>2, <4>3, <4>7
        <5>2. QED
          BY <4>5, <4>7, <5>1
      <4>8. CASE i > at + columns /\ i <= at + columns + blanks
        BY <4>1, <4>2, <4>8
      <4>9. CASE i > at + columns + blanks
        <5>1. i > hidden /\ i > at /\ i > at + columns
          BY <3>2, <4>1, <4>9
        <5>2. drawn[i] = first[i] /\ first[i] = cells[i] /\ i <= m
          BY <4>1, <4>2, <4>3, <4>9
        <5>3. QED
          BY <4>4, <5>1, <5>2
      <4>10. QED
        BY <4>1, <4>6, <4>7, <4>8, <4>9
    <3>4. Len(joined) = at + columns
      BY <2>3, <3>2 DEF Follows
    <3>5. QED
      BY <3>1, <3>3, <3>4 DEF Shows
  <2>7. Len(drawn) >= at + columns + blanks
    BY <2>5 DEF Printed
  <2>8. QED
    BY <2>1, <2>4, <2>5, <2>6, <2>7
<1> DEFINE printed == Screen(drawn, Len(shared) + width + excess, left)
           screen == IF "NOLINEFEED" \in flags THEN printed
                     ELSE IF "TEMPORARY" \in flags THEN Return(printed)
                     ELSE LineFeed(printed, joined)
<1>10. /\ row' = screen.row /\ column' = screen.column /\ ended' = screen.ended
       /\ wanted' = IF flags = {} THEN <<>> ELSE joined
       /\ size_to_recover' = IF "NOLINEFEED" \in flags THEN excess ELSE 0
       /\ size_to_overwrite' =
            IF "TEMPORARY" \in flags
            THEN Overwrite(IF goes_on THEN size_to_overwrite ELSE 0, size)
            ELSE 0
       /\ last_flags' = flags
  BY <1>8, <1>9 DEF ConsoleLog, Shared
<1>11. joined \in Seq(Nat) /\ Len(joined) = Len(shared) + width
  BY <1>7 DEF Follows
<1>12. "TEMPORARY" \in flags => size_to_overwrite' = Len(joined)
  <2>1. goes_on /\ "TEMPORARY" \in flags => size_to_overwrite = Len(wanted)
    BY DEF Continues, ConsoleInv, Believed
  <2>2. ~ goes_on => Len(shared) = 0
    BY EmptySeq DEF Shared
  <2>3. goes_on => shared = wanted
    BY DEF Shared
  <2> HIDE DEF goes_on, shared, joined, size, width
  <2>4. QED
    BY <1>1, <1>6, <1>10, <1>11, <2>1, <2>2, <2>3 DEF Overwrite
<1> HIDE DEF goes_on, width, size, excess, shared, joined
<1>13. Len(drawn) \in Nat /\ Len(drawn) >= Len(joined) + excess
  BY <1>1, <1>6, <1>9, <1>11, LenProperties
<1>14. ASSUME "NOLINEFEED" \in flags PROVE ConsoleInv'
  <2>1. row' = drawn /\ column' = Len(joined) + excess /\ ended' = left
    BY <1>6, <1>10, <1>11, <1>14 DEF Screen
  <2>2. wanted' = joined /\ size_to_recover' = excess
    BY <1>10, <1>14
  <2>3. LineIsClean'
    BY <1>1, <1>8, <1>9, <1>11, <1>13, <2>1, <2>2 DEF LineIsClean, Clean
  <2>4. last_flags' = flags /\ flags # {}
    BY <1>10, <1>14
  <2>5. Believed'
    BY <1>10, <1>12, <1>14, <2>1, <2>2, <2>4 DEF Believed
  <2>6. ConsoleTypeOK'
    <3>1. size_to_overwrite' \in Nat /\ size_to_recover' \in Nat
      BY <1>1, <1>6, <1>10, <1>11, <1>12, <2>2
    <3>2. column' \in 0 .. Len(row')
      BY <1>1, <1>6, <1>11, <1>13, <2>1
    <3>3. QED
      BY <1>1, <1>8, <1>9, <1>11, <2>1, <2>2, <2>4, <3>1, <3>2 DEF ConsoleTypeOK
  <2>7. QED
    BY <2>3, <2>5, <2>6 DEF ConsoleInv
<1>15. ASSUME "NOLINEFEED" \notin flags, "TEMPORARY" \in flags PROVE ConsoleInv'
  <2>1. row' = drawn /\ column' = 0 /\ ended' = left
    BY <1>10, <1>15 DEF Screen, Return
  <2>2. wanted' = joined /\ size_to_recover' = 0
    BY <1>10, <1>15
  <2>3. LineIsClean'
    BY <1>1, <1>8, <1>9, <1>11, <1>13, <2>1, <2>2 DEF LineIsClean, Clean
  <2>4. last_flags' = flags /\ flags # {}
    BY <1>10, <1>15
  <2>5. Believed'
    BY <1>10, <1>12, <1>15, <2>1, <2>2, <2>4 DEF Believed
  <2>6. ConsoleTypeOK'
    <3>1. size_to_overwrite' \in Nat /\ size_to_recover' \in Nat
      BY <1>1, <1>6, <1>10, <1>11, <1>12, <2>2
    <3>2. column' \in 0 .. Len(row')
      BY <1>1, <1>6, <1>11, <1>13, <2>1
    <3>3. QED
      BY <1>1, <1>8, <1>9, <1>11, <2>1, <2>2, <2>4, <3>1, <3>2 DEF ConsoleTypeOK
  <2>7. QED
    BY <2>3, <2>5, <2>6 DEF ConsoleInv
<1>16. ASSUME "NOLINEFEED" \notin flags, "TEMPORARY" \notin flags PROVE ConsoleInv'
  <2>1. flags = {}
    BY <1>16 DEF Flags
  <2>2. row' = <<>> /\ column' = 0 /\ ended' = [row |-> drawn, wanted |-> joined]
    BY <1>10, <1>16 DEF Screen, LineFeed, Clear
  <2>3. wanted' = <<>> /\ size_to_recover' = 0 /\ size_to_overwrite' = 0
    BY <1>10, <1>16, <2>1
  <2>4. /\ <<>> \in Seq(Nat) /\ Len(<<>>) = 0
        /\ ended' \in Rows
    BY <1>9, <1>11, <2>2 DEF Rows
  <2>5. LineIsClean'
    <3>1. Len(row') >= Len(wanted') /\ Shows(row', wanted')
      BY <2>2, <2>3, <2>4 DEF Shows
    <3>2. Len(drawn) >= Len(joined) /\ Shows(drawn, joined)
      BY <1>1, <1>6, <1>9, <1>11, <1>13
    <3>3. QED
      BY <2>2, <3>1, <3>2 DEF LineIsClean
  <2>6. last_flags' = {}
    BY <1>10, <2>1
  <2>7. Believed'
    BY <2>2, <2>3, <2>4, <2>6 DEF Believed
  <2>8. ConsoleTypeOK'
    BY <1>1, <2>2, <2>3, <2>4, <2>6 DEF ConsoleTypeOK
  <2>9. QED
    BY <2>5, <2>7, <2>8 DEF ConsoleInv
<1>17. QED
  BY <1>14, <1>15, <1>16

(* Whatever was temporary or continued, of whatever widths, the row that   *)
(* the cursor is on and the last one left show the messages that belong    *)
(* there and nothing of those they overwrote (ConsoleOutput::log(),        *)
(* report.cpp:242-368).                                                    *)
THEOREM NothingShinesThrough == ConsoleSpec => []LineIsClean
<1>1. ConsoleInit => ConsoleInv
  BY EmptySeq DEF ConsoleInit, ConsoleInv, ConsoleTypeOK, Rows, Believed, LineIsClean, Shows, Clear
<1>2. ConsoleInv /\ [ConsoleNext]_consoleVars => ConsoleInv'
  <2>1. ASSUME ConsoleInv, UNCHANGED consoleVars PROVE ConsoleInv'
    BY <2>1 DEF consoleVars, ConsoleInv, ConsoleTypeOK, Believed, LineIsClean
  <2>2. QED
    BY <2>1, ConsoleStep DEF ConsoleNext
<1>3. ConsoleInv => LineIsClean
  BY DEF ConsoleInv
<1>4. QED
  BY <1>1, <1>2, <1>3, PTL DEF ConsoleSpec

-----------------------------------------------------------------------------
(* Where rotate() and zip() are, and what is behind them.                  *)
Zips == {"zip", "zipping", "zipped"}
Steps == {"none", "rotate", "trim", "reopen", "write"} \cup Zips

FileTypeOK ==
  /\ max_files \in Backups /\ zip_backups \in BOOLEAN
  /\ disk \in [Slots -> [Extensions -> Int]]
  /\ step \in Steps /\ slot \in Nat
  /\ generations \in 0 .. MaxGenerations /\ setbacks \in Nat

FilesOK ==
  /\ \A n \in Slots : /\ disk[n]["plain"] \in 0 .. generations
                      /\ disk[n][".gz"] \in -generations .. generations
                      /\ ~ zip_backups => disk[n][".gz"] = None
  /\ disk[0][".gz"] = None

Cursor ==
  /\ job = "none" => step = "none"
  /\ step = "rotate" => /\ slot <= max_files
                        /\ slot < max_files => disk[slot + 1]["plain"] = None
  /\ step \in Zips => /\ slot < max_files /\ zip_backups
                      /\ disk[slot]["plain"] = None /\ disk[slot + 1]["plain"] # None
  /\ step = "zipping" => disk[slot + 1][".gz"] = - disk[slot + 1]["plain"]
  /\ step = "zipped" => disk[slot + 1][".gz"] = disk[slot + 1]["plain"]

Age(g) == IF g < 0 THEN - g ELSE g

(* Any file of a slot is at least as new as any of a slot above, and none  *)
(* is in two slots, but since a setback.                                   *)
ByAge ==
  \A m, n \in Slots : m < n =>
    \A e, f \in Extensions :
      disk[m][e] # None /\ disk[n][f] # None =>
        /\ Age(disk[n][f]) <= Age(disk[m][e])
        /\ setbacks = 0 => Age(disk[n][f]) # Age(disk[m][e])

Both(n) == disk[n]["plain"] # None /\ disk[n][".gz"] # None

(* A slot only holds two files while one is zipped to the other, or since  *)
(* the process died there.                                                 *)
Twins ==
  /\ \A n \in Slots : Both(n) => \/ Age(disk[n][".gz"]) = disk[n]["plain"]
                                 \/ step = "zip" /\ n = slot + 1 /\ setbacks = 1
  /\ setbacks = 0 =>
       /\ \A n \in Slots : Both(n) => step \in {"zipping", "zipped"} /\ n = slot + 1
       /\ step = "rotate" /\ slot < max_files => disk[slot + 1][".gz"] = None
       /\ step \in Zips => disk[slot][".gz"] = None

FileInv ==
  FileTypeOK /\ FilesOK /\ Cursor /\ (setbacks <= 1 => ByAge /\ Twins)

-----------------------------------------------------------------------------
LEMMA SlotsBelow ==
  /\ Most \in Nat /\ Slots = 0 .. Most + 1 /\ 0 \in Slots
  /\ \A n \in Backups : n \in Nat /\ n <= Most
<1>1. \E n \in Backups : \A m \in Backups : m <= n
  BY LimitsAssumption
<1>2. Most \in Backups /\ \A m \in Backups : m <= Most
  BY <1>1 DEF Most
<1>3. QED
  BY <1>2, LimitsAssumption DEF Slots

(* One entry changes.                                                      *)
Entered(n, e, g) ==
  \A m \in Slots, f \in Extensions :
    disk'[m][f] = IF m = n /\ f = e THEN g ELSE disk[m][f]

LEMMA OneEntry ==
  ASSUME disk \in [Slots -> [Extensions -> Int]], NEW n \in Slots, NEW e \in Extensions,
         NEW g \in Int, disk' = [disk EXCEPT ![n][e] = g]
  PROVE  disk' \in [Slots -> [Extensions -> Int]] /\ Entered(n, e, g)
BY DEF Entered

(* A file that is renamed.                                                 *)
LEMMA TwoEntries ==
  ASSUME disk \in [Slots -> [Extensions -> Int]], NEW n \in Slots, NEW e \in Extensions,
         n + 1 \in Slots, disk' = Renamed(n, e)
  PROVE  /\ disk' \in [Slots -> [Extensions -> Int]]
         /\ \A m \in Slots, f \in Extensions :
              disk'[m][f] = IF m = n /\ f = e THEN None
                            ELSE IF m = n + 1 /\ f = e THEN disk[n][e]
                            ELSE disk[m][f]
<1>1. n # n + 1
  BY SlotsBelow
<1> DEFINE first == [disk EXCEPT ![n][e] = None]
<1>2. disk' = [first EXCEPT ![n + 1][e] = disk[n][e]]
  BY DEF Renamed
<1>3. /\ first \in [Slots -> [Extensions -> Int]]
      /\ \A m \in Slots, f \in Extensions :
           first[m][f] = IF m = n /\ f = e THEN None ELSE disk[m][f]
  BY DEF None
<1> HIDE DEF first
<1>4. disk[n][e] \in Int
  OBVIOUS
<1>5. /\ disk' \in [Slots -> [Extensions -> Int]]
      /\ \A m \in Slots, f \in Extensions :
           disk'[m][f] = IF m = n + 1 /\ f = e THEN disk[n][e] ELSE first[m][f]
  BY <1>2, <1>3, <1>4
<1>6. QED
  BY <1>1, <1>3, <1>5

(* Whatever goes away, what is left is in order.                           *)
LEMMA RemovalKeepsOrder ==
  ASSUME FileInv, NEW n \in Slots, NEW e \in Extensions,
         disk' = [disk EXCEPT ![n][e] = None],
         UNCHANGED <<zip_backups, generations, setbacks>>
  PROVE  /\ disk' \in [Slots -> [Extensions -> Int]] /\ Entered(n, e, None)
         /\ FilesOK' /\ (ByAge => ByAge')
<1>1. disk \in [Slots -> [Extensions -> Int]] /\ None \in Int /\ generations \in Nat
  BY LimitsAssumption DEF FileInv, FileTypeOK, None
<1>2. disk' \in [Slots -> [Extensions -> Int]] /\ Entered(n, e, None)
  BY <1>1, OneEntry
<1>3. FilesOK'
  <2>1. \A m \in Slots, f \in Extensions : disk'[m][f] \in {None, disk[m][f]}
    BY <1>2 DEF Entered
  <2>2. "plain" \in Extensions /\ ".gz" \in Extensions
    BY DEF Extensions
  <2>3. ASSUME NEW m \in Slots
        PROVE  /\ disk'[m]["plain"] \in 0 .. generations
               /\ disk'[m][".gz"] \in -generations .. generations
               /\ ~ zip_backups => disk'[m][".gz"] = None
    <3>1. /\ disk[m]["plain"] \in 0 .. generations
          /\ disk[m][".gz"] \in -generations .. generations
          /\ ~ zip_backups => disk[m][".gz"] = None
      BY DEF FileInv, FilesOK
    <3>2. disk'[m]["plain"] \in {None, disk[m]["plain"]} /\ disk'[m][".gz"] \in {None, disk[m][".gz"]}
      BY <2>1, <2>2
    <3>3. None \in 0 .. generations /\ None \in -generations .. generations
      BY <1>1 DEF None
    <3>4. QED
      BY <3>1, <3>2, <3>3
  <2>4. disk'[0][".gz"] = None
    BY <2>1, <2>2, SlotsBelow DEF FileInv, FilesOK
  <2>5. QED
    BY <2>3, <2>4 DEF FilesOK
<1>4. ASSUME ByAge PROVE ByAge'
  <2>1. \A m \in Slots, f \in Extensions :
          disk'[m][f] # None => disk[m][f] # None /\ disk'[m][f] = disk[m][f]
    BY <1>2 DEF Entered
  <2>2. QED
    BY <1>4, <2>1 DEF ByAge
<1>5. QED
  BY <1>2, <1>3, <1>4

-----------------------------------------------------------------------------
(* With neither a rotation nor a zip under way, all that matters of two    *)
(* files in one slot is that they are the same, and there since a setback. *)
Settled ==
  \A n \in Slots : Both(n) => Age(disk[n][".gz"]) = disk[n]["plain"] /\ setbacks # 0

LEMMA SettledIsTwins ==
  ASSUME FileInv, setbacks <= 1, step \notin Zips
  PROVE  Settled
BY DEF FileInv, FileTypeOK, Twins, Zips, Settled

LEMMA TwinsIfSettled ==
  ASSUME Settled', step' \notin Zips, max_files' \in Nat,
         step' = "rotate" => slot' = max_files'
  PROVE  Twins'
<1>1. ~ (step' = "rotate" /\ slot' < max_files')
  OBVIOUS
<1>2. step' \notin {"zip", "zipping", "zipped"}
  BY DEF Zips
<1>3. \A n \in Slots : Both(n)' => Age(disk[n][".gz"])' = disk'[n]["plain"] /\ setbacks' # 0
  BY DEF Settled
<1>4. QED
  BY <1>1, <1>2, <1>3 DEF Twins, Zips

(* Calls that only go on or end leave the files as they are.               *)
LEMMA CallsKeepOrder ==
  ASSUME FileInv, CallOpen \/ CallLog \/ CallClose \/ Write \/ UNCHANGED fileVars
  PROVE  FileInv'
<1>1. UNCHANGED <<max_files, zip_backups, disk, generations, setbacks>>
  BY DEF CallOpen, CallLog, CallClose, Write, Begin, fileVars
<1>2. \/ UNCHANGED <<step, slot, job>>
      \/ /\ step \in {"none", "write"}
         /\ \/ step' = "rotate" /\ slot' = max_files /\ job' # "none"
            \/ step' = "reopen" /\ slot' = 0 /\ job' # "none"
            \/ step' = "none" /\ slot' = slot
  BY DEF CallOpen, CallLog, CallClose, Write, Begin, fileVars, FileInv, Cursor
<1>3. FilesOK'
  BY <1>1 DEF FileInv, FilesOK
<1>4. ByAge => ByAge'
  BY <1>1 DEF ByAge
<1>5. CASE UNCHANGED <<step, slot, job>>
  <2>1. Twins => Twins'
    BY <1>1, <1>5 DEF Twins, Both
  <2>2. Cursor'
    BY <1>1, <1>5 DEF FileInv, Cursor
  <2>3. FileTypeOK'
    BY <1>1, <1>5 DEF FileInv, FileTypeOK
  <2>4. QED
    BY <1>1, <1>3, <1>4, <2>1, <2>2, <2>3 DEF FileInv
<1>6. CASE /\ step \in {"none", "write"}
           /\ \/ step' = "rotate" /\ slot' = max_files /\ job' # "none"
              \/ step' = "reopen" /\ slot' = 0 /\ job' # "none"
              \/ step' = "none" /\ slot' = slot
  <2>1. FileTypeOK' /\ max_files \in Nat
    BY <1>1, <1>6, SlotsBelow DEF FileInv, FileTypeOK, Steps
  <2>2. Cursor'
    <3>1. max_files' = max_files /\ step' \notin Zips /\ (job' = "none" => step' = "none")
      BY <1>1, <1>6 DEF Zips
    <3>2. step' = "rotate" => slot' = max_files
      BY <1>6
    <3>3. step' = "rotate" => slot' <= max_files' /\ ~ (slot' < max_files')
      BY <2>1, <3>1, <3>2
    <3>4. step' \notin {"zip", "zipping", "zipped"}
      BY <3>1 DEF Zips
    <3>5. QED
      BY <3>1, <3>3, <3>4 DEF Cursor, Zips
  <2>3. ASSUME setbacks <= 1 PROVE Twins'
    <3>1. Settled
      BY <1>6, <2>3, SettledIsTwins DEF Zips
    <3>2. Settled'
      BY <1>1, <3>1 DEF Settled, Both
    <3>3. QED
      BY <1>1, <1>6, <2>1, <3>2, TwinsIfSettled DEF Zips
  <2>4. QED
    BY <1>1, <1>3, <1>4, <2>1, <2>2, <2>3 DEF FileInv
<1>7. QED
  BY <1>2, <1>5, <1>6

(* The log is created, or made empty: it is the newest.                    *)
LEMMA ReopenKeepsOrder ==
  ASSUME FileInv, Reopen
  PROVE  FileInv'
<1>1. /\ UNCHANGED <<max_files, zip_backups, slot, setbacks>> /\ step = "reopen"
      /\ step' \in {"write", "none"} /\ (job' = "none" => step' = "none")
  BY DEF Reopen, FileInv, Cursor
<1>2. \/ UNCHANGED <<disk, generations>>
      \/ /\ generations < MaxGenerations /\ generations' = generations + 1
         /\ disk' = [disk EXCEPT ![0]["plain"] = generations']
  BY DEF Reopen
<1>3. /\ disk \in [Slots -> [Extensions -> Int]] /\ generations \in 0 .. MaxGenerations
      /\ MaxGenerations \in Nat /\ generations' \in 0 .. MaxGenerations
      /\ generations <= generations' /\ generations' \in Nat
  <2>1. MaxGenerations \in Nat
    BY LimitsAssumption
  <2>2. disk \in [Slots -> [Extensions -> Int]] /\ generations \in 0 .. MaxGenerations
    BY DEF FileInv, FileTypeOK
  <2>3. generations' \in 0 .. MaxGenerations /\ generations <= generations'
    BY <1>2, <2>1, <2>2
  <2>4. QED
    BY <2>1, <2>2, <2>3
<1>4. /\ disk' \in [Slots -> [Extensions -> Int]]
      /\ \A m \in Slots, f \in Extensions :
           \/ disk'[m][f] = disk[m][f]
           \/ m = 0 /\ f = "plain" /\ disk'[m][f] = generations' /\ generations' = generations + 1
  <2>1. CASE UNCHANGED <<disk, generations>>
    BY <1>3, <2>1
  <2>2. CASE /\ generations < MaxGenerations /\ generations' = generations + 1
             /\ disk' = [disk EXCEPT ![0]["plain"] = generations']
    <3>1. 0 \in Slots /\ "plain" \in Extensions /\ generations' \in Int
      BY <1>3, SlotsBelow DEF Extensions
    <3>2. disk' \in [Slots -> [Extensions -> Int]] /\ Entered(0, "plain", generations')
      BY <1>3, <2>2, <3>1, OneEntry
    <3>3. QED
      BY <2>2, <3>2 DEF Entered
  <2>3. QED
    BY <1>2, <2>1, <2>2
<1>5. FileTypeOK'
  BY <1>1, <1>3, <1>4 DEF FileInv, FileTypeOK, Steps
<1>6. \A m \in Slots : disk'[m][".gz"] = disk[m][".gz"]
  BY <1>4 DEF Extensions
<1>7. FilesOK'
  <2>1. ASSUME NEW m \in Slots
        PROVE  /\ disk'[m]["plain"] \in 0 .. generations'
               /\ disk'[m][".gz"] \in -generations' .. generations'
               /\ ~ zip_backups' => disk'[m][".gz"] = None
    <3>1. /\ disk[m]["plain"] \in 0 .. generations
          /\ disk[m][".gz"] \in -generations .. generations
          /\ ~ zip_backups => disk[m][".gz"] = None
      BY DEF FileInv, FilesOK
    <3>2. disk'[m]["plain"] \in {disk[m]["plain"], generations'}
      BY <1>4 DEF Extensions
    <3>3. generations \in Nat
      BY <1>3
    <3>4. disk'[m]["plain"] \in 0 .. generations'
      BY <1>3, <3>1, <3>2, <3>3
    <3>5. disk'[m][".gz"] \in -generations' .. generations'
      BY <1>3, <1>6, <3>1, <3>3
    <3>6. QED
      BY <1>1, <1>6, <3>1, <3>4, <3>5
  <2>2. disk'[0][".gz"] = None
    BY <1>6, SlotsBelow DEF FileInv, FilesOK
  <2>3. QED
    BY <2>1, <2>2 DEF FilesOK
<1>8. Cursor'
  BY <1>1 DEF Cursor, Zips
<1>9. ASSUME setbacks <= 1 PROVE ByAge' /\ Twins'
  <2>1. ByAge /\ Twins
    BY <1>9 DEF FileInv
  <2>2. ASSUME NEW m \in Slots, NEW n \in Slots, m < n,
               NEW e \in Extensions, NEW f \in Extensions,
               disk'[m][e] # None, disk'[n][f] # None
        PROVE  /\ Age(disk'[n][f]) <= Age(disk'[m][e])
               /\ setbacks' = 0 => Age(disk'[n][f]) # Age(disk'[m][e])
    <3>1. n # 0 /\ disk'[n][f] = disk[n][f]
      <4>1. m \in Nat /\ n \in Nat
        BY SlotsBelow
      <4>2. n # 0
        BY <2>2, <4>1
      <4>3. QED
        BY <1>4, <4>2
    <3>2. CASE disk'[m][e] = disk[m][e]
      BY <1>1, <2>1, <2>2, <3>1, <3>2 DEF ByAge
    <3>3. CASE disk'[m][e] = generations' /\ generations' = generations + 1
      <4>1. disk[n][f] \in -generations .. generations
        <5>1. /\ disk[n]["plain"] \in 0 .. generations
              /\ disk[n][".gz"] \in -generations .. generations
          BY DEF FileInv, FilesOK
        <5>2. 0 .. generations \subseteq -generations .. generations
          BY <1>3
        <5>3. QED
          BY <5>1, <5>2 DEF Extensions
      <4>2. QED
        BY <1>3, <3>1, <3>3, <4>1 DEF Age
    <3>4. QED
      BY <1>4, <3>2, <3>3
  <2>3. Settled'
    <3>1. Settled
      BY <1>1, <1>9, SettledIsTwins DEF Zips
    <3>2. ASSUME NEW n \in Slots, Both(n)'
          PROVE  Age(disk'[n][".gz"]) = disk'[n]["plain"] /\ setbacks' # 0
      <4>1. n # 0
        BY <1>6, <3>2, SlotsBelow DEF FileInv, FilesOK, Both
      <4>2. disk'[n]["plain"] = disk[n]["plain"]
        BY <1>4, <4>1 DEF Extensions
      <4>3. QED
        BY <1>1, <1>6, <3>1, <3>2, <4>2 DEF Settled, Both
    <3>3. QED
      BY <3>2 DEF Settled
  <2>4. Twins'
    BY <1>1, <1>5, <2>3, TwinsIfSettled, SlotsBelow DEF FileTypeOK, Zips
  <2>5. QED
    BY <2>2, <2>4 DEF ByAge
<1>10. QED
  BY <1>1, <1>5, <1>7, <1>8, <1>9 DEF FileInv

(* A process that dies leaves at most the file it zips beside what it has  *)
(* of the zip.                                                             *)
LEMMA CrashKeepsOrder ==
  ASSUME FileInv, Crash
  PROVE  FileInv'
<1>1. /\ UNCHANGED <<zip_backups, disk, generations>> /\ setbacks' = setbacks + 1
      /\ job' = "none" /\ step' = "none" /\ slot' = 0 /\ max_files' \in Backups
  BY DEF Crash
<1>2. FileTypeOK' /\ max_files' \in Nat
  BY <1>1, SlotsBelow DEF FileInv, FileTypeOK, Steps
<1>3. FilesOK' /\ (ByAge => ByAge')
  <2>1. setbacks' # 0
    BY <1>1 DEF FileInv, FileTypeOK
  <2>2. QED
    BY <1>1, <2>1 DEF FileInv, FilesOK, ByAge
<1>4. Cursor'
  BY <1>1 DEF Cursor, Zips
<1>5. ASSUME setbacks' <= 1 PROVE setbacks = 0 /\ Twins'
  <2>1. setbacks = 0
    BY <1>1, <1>5 DEF FileInv, FileTypeOK
  <2>2. \A n \in Slots : Both(n) => step \in {"zipping", "zipped"} /\ n = slot + 1
    <3>1. Twins
      BY <2>1 DEF FileInv
    <3>2. QED
      BY <2>1, <3>1 DEF Twins
  <2>3. ASSUME NEW n \in Slots, Both(n) PROVE Age(disk[n][".gz"]) = disk[n]["plain"]
    <3>1. disk[n][".gz"] \in {disk[n]["plain"], - disk[n]["plain"]}
      BY <2>2, <2>3 DEF FileInv, Cursor
    <3>2. disk[n]["plain"] \in 0 .. generations /\ generations \in Nat
      <4>1. MaxGenerations \in Nat
        BY LimitsAssumption
      <4>2. generations \in 0 .. MaxGenerations /\ disk[n]["plain"] \in 0 .. generations
        BY DEF FileInv, FilesOK, FileTypeOK
      <4>3. QED
        BY <4>1, <4>2
    <3>3. QED
      BY <3>1, <3>2 DEF Age
  <2>4. Settled'
    <3>1. setbacks' # 0
      BY <1>1, <2>1
    <3>2. QED
      BY <1>1, <2>3, <3>1 DEF Settled, Both
  <2>5. QED
    BY <1>1, <1>2, <2>1, <2>4, TwinsIfSettled DEF Zips
<1>6. QED
  BY <1>2, <1>3, <1>4, <1>5 DEF FileInv

(* Removing a file, except in the middle of a rotation or of a zip.        *)
LEMMA RemovalKeepsTwins ==
  ASSUME FileInv, setbacks <= 1, step \notin Zips, NEW n \in Slots, NEW e \in Extensions,
         Entered(n, e, None), UNCHANGED setbacks, max_files' \in Nat,
         step' \notin Zips, step' = "rotate" => slot' = max_files'
  PROVE  Twins'
<1>1. Settled
  BY SettledIsTwins
<1>2. \A m \in Slots : Both(m)' => /\ Both(m) /\ disk'[m]["plain"] = disk[m]["plain"]
                                   /\ disk'[m][".gz"] = disk[m][".gz"]
  BY DEF Entered, Both, Extensions
<1>3. Settled'
  BY <1>1, <1>2 DEF Settled
<1>4. QED
  BY <1>3, TwinsIfSettled

LEMMA MoveKeepsOrder ==
  ASSUME FileInv, MoveAway
  PROVE  FileInv'
<1>1. /\ UNCHANGED <<max_files, zip_backups, job, step, slot, generations, setbacks>>
      /\ disk' = [disk EXCEPT ![0]["plain"] = None] /\ step = "none"
  BY DEF MoveAway, FileInv, Cursor
<1>2. 0 \in Slots /\ "plain" \in Extensions
  BY SlotsBelow DEF Extensions
<1>3. /\ disk' \in [Slots -> [Extensions -> Int]] /\ Entered(0, "plain", None)
      /\ FilesOK' /\ (ByAge => ByAge')
  BY <1>1, <1>2, RemovalKeepsOrder
<1>4. FileTypeOK' /\ max_files' \in Nat
  BY <1>1, <1>3, SlotsBelow DEF FileInv, FileTypeOK
<1>5. Cursor'
  BY <1>1 DEF Cursor, Zips
<1>6. setbacks <= 1 => Twins'
  BY <1>1, <1>2, <1>3, <1>4, RemovalKeepsTwins DEF Zips
<1>7. QED
  BY <1>1, <1>3, <1>4, <1>5, <1>6 DEF FileInv

LEMMA TrimKeepsOrder ==
  ASSUME FileInv, Trim
  PROVE  FileInv'
<1>1. UNCHANGED <<max_files, zip_backups, job, generations, setbacks>> /\ step = "trim"
  BY DEF Trim, Rotation
<1>2. \/ /\ slot \in Slots /\ slot' = slot + 1 /\ step' = "trim"
         /\ \E e \in Extensions : disk' = [disk EXCEPT ![slot][e] = None]
      \/ step' = "reopen" /\ slot' = 0 /\ UNCHANGED disk
  BY <1>1 DEF Trim, Found
<1>3. step' \notin Zips /\ step' # "rotate" /\ step' \in Steps /\ step' # "none"
  BY <1>2 DEF Zips, Steps
<1>4. Cursor'
  <2>1. job # "none"
    BY <1>1 DEF FileInv, Cursor
  <2>2. QED
    BY <1>1, <1>3, <2>1 DEF Cursor, Zips
<1>5. CASE /\ slot \in Slots /\ slot' = slot + 1 /\ step' = "trim"
           /\ \E e \in Extensions : disk' = [disk EXCEPT ![slot][e] = None]
  <2>1. PICK e \in Extensions : disk' = [disk EXCEPT ![slot][e] = None]
    BY <1>5
  <2>2. /\ disk' \in [Slots -> [Extensions -> Int]] /\ Entered(slot, e, None)
        /\ FilesOK' /\ (ByAge => ByAge')
    BY <1>1, <1>5, <2>1, RemovalKeepsOrder
  <2>3. FileTypeOK' /\ max_files' \in Nat
    BY <1>1, <1>3, <1>5, <2>2, SlotsBelow DEF FileInv, FileTypeOK
  <2>4. setbacks <= 1 => Twins'
    BY <1>1, <1>3, <1>5, <2>2, <2>3, RemovalKeepsTwins DEF Zips
  <2>5. QED
    BY <1>1, <1>4, <2>2, <2>3, <2>4 DEF FileInv
<1>6. CASE step' = "reopen" /\ slot' = 0 /\ UNCHANGED disk
  <2>1. FileTypeOK' /\ max_files' \in Nat
    BY <1>1, <1>3, <1>6, SlotsBelow DEF FileInv, FileTypeOK
  <2>2. FilesOK' /\ (ByAge => ByAge')
    BY <1>1, <1>6 DEF FileInv, FilesOK, ByAge
  <2>3. ASSUME setbacks <= 1 PROVE Twins'
    <3>1. Settled
      BY <1>1, <2>3, SettledIsTwins DEF Zips
    <3>2. Settled'
      BY <1>1, <1>6, <3>1 DEF Settled, Both
    <3>3. QED
      BY <1>3, <2>1, <3>2, TwinsIfSettled
  <2>4. QED
    BY <1>1, <1>4, <2>1, <2>2, <2>3 DEF FileInv
<1>7. QED
  BY <1>2, <1>5, <1>6

-----------------------------------------------------------------------------
(* rotate() goes on with the slot below, and leaves nothing in its way.    *)
LEMMA DownKeepsCursor ==
  ASSUME slot \in Nat, max_files \in Nat, slot <= max_files, UNCHANGED <<max_files, job>>,
         job # "none", Down, disk'[slot]["plain"] = None
  PROVE  /\ Cursor' /\ slot' \in Nat /\ step' \in {"rotate", "trim"}
         /\ (/\ Settled' /\ (setbacks' = 0 => disk'[slot][".gz"] = None)) => Twins'
<1>1. \/ slot = 0 /\ step' = "trim" /\ slot' = max_files + 1
      \/ slot # 0 /\ step' = "rotate" /\ slot' = slot - 1
  BY DEF Down
<1>2. /\ slot' \in Nat /\ step' \in {"rotate", "trim"}
      /\ step' = "rotate" => slot' <= max_files' /\ slot' + 1 = slot
  BY <1>1
<1>3. step' \notin {"zip", "zipping", "zipped"}
  BY <1>2
<1>4. Cursor'
  BY <1>2, <1>3 DEF Cursor, Zips
<1>5. ASSUME Settled', setbacks' = 0 => disk'[slot][".gz"] = None
      PROVE  Twins'
  <2>1. \A n \in Slots : Both(n)' => Age(disk[n][".gz"])' = disk'[n]["plain"] /\ setbacks' # 0
    BY <1>5 DEF Settled
  <2>2. QED
    BY <1>2, <1>3, <1>5, <2>1 DEF Twins, Zips
<1>6. QED
  BY <1>2, <1>4, <1>5

(* The file that rotate() finds in a slot; if there is another, it is the  *)
(* same.                                                                   *)
LEMMA WhatIsFound ==
  ASSUME FileInv, NEW n \in Slots
  PROVE  /\ Found(n) = {} => disk[n]["plain"] = None /\ disk[n][".gz"] = None
         /\ \A e \in Found(n) :
              /\ e \in Extensions /\ disk[n][e] # None
              /\ e = ".gz" => disk[n]["plain"] = None
              /\ e # ".gz" => e = "plain"
         /\ setbacks <= 1 /\ step \notin Zips =>
              \A e \in Found(n), f \in Extensions :
                /\ disk[n][f] # None => Age(disk[n][f]) = Age(disk[n][e])
                /\ setbacks = 0 /\ f # e => disk[n][f] = None
<1>1. /\ Found(n) = {} => disk[n]["plain"] = None /\ disk[n][".gz"] = None
      /\ \A e \in Found(n) :
           /\ e \in Extensions /\ disk[n][e] # None
           /\ e = ".gz" => disk[n]["plain"] = None
           /\ e # ".gz" => e = "plain"
  BY DEF Found, Extensions
<1>2. ASSUME setbacks <= 1, step \notin Zips, NEW e \in Found(n), NEW f \in Extensions
      PROVE  /\ disk[n][f] # None => Age(disk[n][f]) = Age(disk[n][e])
             /\ setbacks = 0 /\ f # e => disk[n][f] = None
  <2>1. f = e \/ (f # e /\ e = "plain" /\ f = ".gz") \/ (f = "plain" /\ e = ".gz")
    BY <1>1, <1>2 DEF Extensions
  <2>2. ASSUME e = "plain", f = ".gz", disk[n][f] # None
        PROVE  Age(disk[n][f]) = Age(disk[n][e]) /\ setbacks # 0
    <3>1. Age(disk[n][f]) = disk[n][e] /\ setbacks # 0
      BY <1>1, <1>2, <2>2, SettledIsTwins DEF Settled, Both
    <3>2. disk[n][e] \in Int /\ disk[n][e] >= 0
      <4>1. disk[n]["plain"] \in 0 .. generations
        BY DEF FileInv, FilesOK
      <4>2. QED
        BY <2>2, <4>1
    <3>3. Age(disk[n][e]) = disk[n][e]
      BY <3>2 DEF Age
    <3>4. QED
      BY <3>1, <3>3
  <2>3. QED
    BY <1>1, <2>1, <2>2
<1>3. QED
  BY <1>1, <1>2

(* A backup takes the place of an older one, and all are still in order.   *)
LEMMA RenameKeepsOrder ==
  ASSUME FileInv, step = "rotate", slot < max_files, NEW e \in Found(slot),
         disk' = Renamed(slot, e), UNCHANGED <<zip_backups, generations, setbacks>>
  PROVE  /\ disk' \in [Slots -> [Extensions -> Int]] /\ FilesOK'
         /\ setbacks <= 1 => ByAge'
         /\ \A m \in Slots, f \in Extensions :
              disk'[m][f] = IF m = slot /\ f = e THEN None
                            ELSE IF m = slot + 1 /\ f = e THEN disk[slot][e]
                            ELSE disk[m][f]
<1>1. /\ slot \in Nat /\ max_files \in Nat /\ max_files <= Most
      /\ disk \in [Slots -> [Extensions -> Int]]
  BY SlotsBelow DEF FileInv, FileTypeOK
<1>2. slot \in Slots /\ slot + 1 \in Slots
  BY <1>1, SlotsBelow
<1>3. e \in Extensions /\ disk[slot][e] # None
  BY <1>2, WhatIsFound
<1>4. /\ disk' \in [Slots -> [Extensions -> Int]]
      /\ \A m \in Slots, f \in Extensions :
           disk'[m][f] = IF m = slot /\ f = e THEN None
                         ELSE IF m = slot + 1 /\ f = e THEN disk[slot][e]
                         ELSE disk[m][f]
  BY <1>1, <1>2, <1>3, TwoEntries
<1>5. FilesOK'
  <2>1. \A m \in Slots, f \in Extensions : disk'[m][f] \in {None, disk[slot][f], disk[m][f]}
    BY <1>4
  <2>2. ASSUME NEW m \in Slots
        PROVE  /\ disk'[m]["plain"] \in 0 .. generations
               /\ disk'[m][".gz"] \in -generations .. generations
               /\ ~ zip_backups => disk'[m][".gz"] = None
    <3>1. \A k \in Slots : /\ disk[k]["plain"] \in 0 .. generations
                           /\ disk[k][".gz"] \in -generations .. generations
                           /\ ~ zip_backups => disk[k][".gz"] = None
      BY DEF FileInv, FilesOK
    <3>2. generations \in Nat
      BY LimitsAssumption DEF FileInv, FileTypeOK
    <3>3. None \in 0 .. generations /\ None \in -generations .. generations
      BY <3>2 DEF None
    <3>4. /\ disk'[m]["plain"] \in {None, disk[slot]["plain"], disk[m]["plain"]}
          /\ disk'[m][".gz"] \in {None, disk[slot][".gz"], disk[m][".gz"]}
      BY <2>1 DEF Extensions
    <3>5. QED
      BY <1>2, <3>1, <3>3, <3>4
  <2>3. disk'[0][".gz"] = None
    <3>1. 0 \in Slots /\ 0 # slot + 1 /\ ".gz" \in Extensions
      BY <1>1, SlotsBelow DEF Extensions
    <3>2. QED
      BY <1>4, <3>1 DEF FileInv, FilesOK
  <2>4. QED
    BY <2>2, <2>3 DEF FilesOK
<1>6. ASSUME setbacks <= 1 PROVE ByAge'
  <2>1. ByAge /\ step \notin Zips
    BY <1>6 DEF FileInv, Zips
  <2>2. \A f \in Extensions : disk[slot][f] # None => Age(disk[slot][f]) = Age(disk[slot][e])
    BY <1>2, <1>6, <2>1, WhatIsFound
  <2>3. ASSUME NEW m \in Slots, NEW n \in Slots, m < n,
               NEW f \in Extensions, NEW g \in Extensions,
               disk'[m][f] # None, disk'[n][g] # None
        PROVE  /\ Age(disk'[n][g]) <= Age(disk'[m][f])
               /\ setbacks' = 0 => Age(disk'[n][g]) # Age(disk'[m][f])
    <3>0. m \in Nat /\ n \in Nat
      BY SlotsBelow
    <3>1. CASE m = slot + 1 /\ f = e
      <4>1. disk'[m][f] = disk[slot][e] /\ disk'[n][g] = disk[n][g] /\ slot < n
        BY <1>1, <1>4, <2>3, <3>0, <3>1
      <4>2. QED
        BY <1>2, <1>3, <2>1, <2>3, <4>1 DEF ByAge
    <3>2. CASE ~ (m = slot + 1 /\ f = e) /\ n = slot + 1 /\ g = e
      <4>1. /\ disk'[n][g] = disk[slot][e] /\ disk'[m][f] = disk[m][f]
            /\ m = slot \/ m < slot
        BY <1>1, <1>4, <2>3, <3>0, <3>2
      <4>2. Age(disk[slot][e]) \in Int
        <5>1. disk[slot][e] \in Int
          BY <1>1, <1>2, <1>3
        <5>2. QED
          BY <5>1 DEF Age
      <4>3. CASE m = slot
        <5>1. Age(disk[slot][f]) = Age(disk[slot][e])
          BY <2>2, <2>3, <4>1, <4>3
        <5>2. setbacks # 0
          <6>1. f # e /\ disk[slot][f] # None
            BY <1>2, <1>4, <2>3, <4>1, <4>3
          <6>2. QED
            BY <1>2, <1>6, <2>1, <6>1, WhatIsFound
        <5>3. QED
          BY <4>1, <4>2, <4>3, <5>1, <5>2
      <4>4. CASE m < slot
        BY <1>2, <1>3, <2>1, <2>3, <4>1, <4>4 DEF ByAge
      <4>5. QED
        BY <4>1, <4>3, <4>4
    <3>3. CASE ~ (m = slot + 1 /\ f = e) /\ ~ (n = slot + 1 /\ g = e)
      <4>1. disk'[m][f] = disk[m][f] /\ disk'[n][g] = disk[n][g]
        BY <1>4, <2>3, <3>3
      <4>2. QED
        BY <2>1, <2>3, <4>1 DEF ByAge
    <3>4. QED
      BY <3>1, <3>2, <3>3
  <2>4. QED
    BY <2>3 DEF ByAge
<1>7. QED
  BY <1>4, <1>5, <1>6

(* One turn of rotate(): the oldest backup is removed, or one is renamed,  *)
(* or the rename fails.                                                    *)
LEMMA RotateKeepsOrder ==
  ASSUME FileInv, RotateSlot
  PROVE  FileInv'
<1>1. /\ UNCHANGED <<max_files, zip_backups, job, generations>> /\ step = "rotate"
      /\ job # "none" /\ step \notin Zips
  BY DEF RotateSlot, Rotation, FileInv, Cursor, Zips
<1>2. /\ slot \in Nat /\ max_files \in Nat /\ slot <= max_files /\ slot \in Slots
      /\ slot < max_files => slot + 1 \in Slots /\ disk[slot + 1]["plain"] = None
  <2>1. /\ slot \in Nat /\ max_files \in Nat /\ max_files <= Most /\ Most \in Nat
        /\ slot <= max_files
    BY <1>1, SlotsBelow DEF FileInv, FileTypeOK, Cursor
  <2>2. QED
    BY <1>1, <2>1, SlotsBelow DEF FileInv, Cursor
<1>3. setbacks \in Nat /\ disk \in [Slots -> [Extensions -> Int]]
  BY DEF FileInv, FileTypeOK
<1>4. ASSUME setbacks' \in Nat, slot' \in Nat, step' \in Steps,
             disk' \in [Slots -> [Extensions -> Int]]
      PROVE  FileTypeOK'
  BY <1>1, <1>4 DEF FileInv, FileTypeOK
<1>5. {"rotate", "trim", "zip"} \subseteq Steps
  BY DEF Steps, Zips
<1>6. setbacks <= 1 => Settled
  BY <1>1, SettledIsTwins
<1>7. CASE Found(slot) = {} /\ Down /\ UNCHANGED <<disk, setbacks>>
  <2>1. disk'[slot]["plain"] = None /\ disk'[slot][".gz"] = None
    BY <1>2, <1>7, WhatIsFound
  <2>2. /\ Cursor' /\ slot' \in Nat /\ step' \in {"rotate", "trim"}
        /\ Settled' => Twins'
    BY <1>1, <1>2, <1>7, <2>1, DownKeepsCursor
  <2>3. FileTypeOK'
    BY <1>3, <1>4, <1>5, <1>7, <2>2
  <2>4. FilesOK' /\ (ByAge => ByAge') /\ (Settled => Settled')
    BY <1>1, <1>7 DEF FileInv, FilesOK, ByAge, Settled, Both
  <2>5. QED
    BY <1>6, <1>7, <2>2, <2>3, <2>4 DEF FileInv
<1>8. ASSUME NEW e \in Found(slot), slot = max_files,
             disk' = [disk EXCEPT ![slot][e] = None], Down, UNCHANGED setbacks
      PROVE  FileInv'
  <2>1. e \in Extensions
    BY <1>2, WhatIsFound
  <2>2. /\ disk' \in [Slots -> [Extensions -> Int]] /\ Entered(slot, e, None)
        /\ FilesOK' /\ (ByAge => ByAge')
    BY <1>1, <1>2, <1>8, <2>1, RemovalKeepsOrder
  <2>3. disk'[slot]["plain"] = None
    BY <1>2, <2>2, WhatIsFound DEF Entered, Extensions
  <2>4. /\ Cursor' /\ slot' \in Nat /\ step' \in {"rotate", "trim"}
        /\ (/\ Settled' /\ (setbacks' = 0 => disk'[slot][".gz"] = None)) => Twins'
    BY <1>1, <1>2, <1>8, <2>3, DownKeepsCursor
  <2>5. FileTypeOK'
    BY <1>3, <1>4, <1>5, <1>8, <2>2, <2>4
  <2>6. ASSUME setbacks <= 1 PROVE Twins'
    <3>1. \A m \in Slots : Both(m)' => /\ Both(m) /\ disk'[m]["plain"] = disk[m]["plain"]
                                       /\ disk'[m][".gz"] = disk[m][".gz"]
      BY <2>2 DEF Entered, Both, Extensions
    <3>2. Settled'
      BY <1>6, <1>8, <2>6, <3>1 DEF Settled
    <3>3. ASSUME setbacks = 0 PROVE disk'[slot][".gz"] = None
      <4>1. e # ".gz" => disk[slot][".gz"] = None
        BY <1>1, <1>2, <2>6, <3>3, WhatIsFound DEF Extensions
      <4>2. QED
        BY <1>2, <2>1, <2>2, <4>1 DEF Entered, Extensions
    <3>4. QED
      BY <1>8, <2>4, <3>2, <3>3
  <2>7. QED
    BY <1>8, <2>2, <2>4, <2>5, <2>6 DEF FileInv
<1>9. ASSUME NEW e \in Found(slot), slot # max_files, disk' = Renamed(slot, e),
             UNCHANGED setbacks,
             \/ zip_backups /\ e = "plain" /\ step' = "zip" /\ UNCHANGED slot
             \/ ~ (zip_backups /\ e = "plain") /\ Down
      PROVE  FileInv'
  <2>1. /\ slot < max_files /\ slot + 1 \in Slots /\ slot # slot + 1
        /\ disk[slot + 1]["plain"] = None
    BY <1>2, <1>9
  <2>2. /\ disk' \in [Slots -> [Extensions -> Int]] /\ FilesOK'
        /\ setbacks <= 1 => ByAge'
        /\ \A m \in Slots, f \in Extensions :
             disk'[m][f] = IF m = slot /\ f = e THEN None
                           ELSE IF m = slot + 1 /\ f = e THEN disk[slot][e]
                           ELSE disk[m][f]
    BY <1>1, <1>9, <2>1, RenameKeepsOrder
  <2>3. /\ e \in Extensions /\ disk[slot][e] # None
        /\ e = ".gz" => disk[slot]["plain"] = None
        /\ e # ".gz" => e = "plain"
    BY <1>2, WhatIsFound
  <2>4. disk'[slot]["plain"] = None
    BY <1>2, <2>1, <2>2, <2>3 DEF Extensions
  <2>5. \A m \in Slots : m # slot + 1 /\ Both(m)' =>
          Both(m) /\ disk'[m]["plain"] = disk[m]["plain"] /\ disk'[m][".gz"] = disk[m][".gz"]
    BY <2>2 DEF Both, Extensions
  <2>6. ASSUME setbacks = 0 PROVE disk'[slot][".gz"] = None
    <3>1. e # ".gz" => disk[slot][".gz"] = None
      BY <1>1, <1>2, <2>6, WhatIsFound DEF Extensions
    <3>2. QED
      BY <1>2, <2>1, <2>2, <2>3, <3>1 DEF Extensions
  <2>7. CASE zip_backups /\ e = "plain" /\ step' = "zip" /\ UNCHANGED slot
    <3>1. FileTypeOK'
      BY <1>2, <1>3, <1>4, <1>5, <1>9, <2>2, <2>7
    <3>2. disk'[slot + 1]["plain"] # None
      BY <2>1, <2>2, <2>3, <2>7
    <3>3. Cursor'
      BY <1>1, <2>1, <2>4, <2>7, <3>2 DEF Cursor, Zips
    <3>4. ASSUME setbacks <= 1 PROVE Twins'
      <4>1. Settled /\ Twins
        BY <1>6, <3>4 DEF FileInv
      <4>2. \A m \in Slots : m # slot + 1 /\ Both(m)' =>
              Age(disk'[m][".gz"]) = disk'[m]["plain"] /\ setbacks' # 0
        BY <1>9, <2>5, <4>1 DEF Settled
      <4>3. ASSUME setbacks = 0 PROVE disk'[slot + 1][".gz"] = None
        <5>1. disk[slot + 1][".gz"] = None
          BY <1>1, <2>1, <4>1, <4>3 DEF Twins
        <5>2. QED
          BY <2>1, <2>2, <2>7, <5>1 DEF Extensions
      <4>4. \A m \in Slots : Both(m)' => \/ Age(disk'[m][".gz"]) = disk'[m]["plain"]
                                         \/ step' = "zip" /\ m = slot' + 1 /\ setbacks' = 1
        <5>1. ASSUME NEW m \in Slots, Both(m)', m = slot + 1 PROVE setbacks' = 1
          BY <1>3, <1>9, <3>4, <4>3, <5>1 DEF Both
        <5>2. QED
          BY <2>7, <4>2, <5>1
      <4>5. setbacks' = 0 => \A m \in Slots : ~ Both(m)'
        BY <1>9, <4>2, <4>3 DEF Both
      <4>6. QED
        BY <1>9, <2>6, <2>7, <4>4, <4>5 DEF Twins, Zips
    <3>5. QED
      BY <1>9, <2>2, <3>1, <3>3, <3>4 DEF FileInv
  <2>8. CASE ~ (zip_backups /\ e = "plain") /\ Down
    <3>1. /\ Cursor' /\ slot' \in Nat /\ step' \in {"rotate", "trim"}
          /\ (/\ Settled' /\ (setbacks' = 0 => disk'[slot][".gz"] = None)) => Twins'
      BY <1>1, <1>2, <2>4, <2>8, DownKeepsCursor
    <3>2. FileTypeOK'
      BY <1>3, <1>4, <1>5, <1>9, <2>2, <3>1
    <3>3. ASSUME NEW m \in Slots, m = slot + 1 PROVE ~ Both(m)'
      <4>1. e = ".gz" => disk'[slot + 1]["plain"] = None
        BY <2>1, <2>2, <2>3 DEF Extensions
      <4>2. e = "plain" => disk'[slot + 1][".gz"] = None
        BY <1>1, <2>1, <2>2, <2>8 DEF FilesOK
      <4>3. disk'[m]["plain"] = None \/ disk'[m][".gz"] = None
        BY <2>3, <3>3, <4>1, <4>2
      <4>4. QED
        BY <4>3 DEF Both
    <3>4. setbacks <= 1 => Settled'
      BY <1>6, <1>9, <2>5, <3>3 DEF Settled
    <3>5. QED
      BY <1>9, <2>2, <2>6, <3>1, <3>2, <3>4 DEF FileInv
  <2>9. QED
    BY <1>9, <2>7, <2>8
<1>10. ASSUME setbacks' = setbacks + 1, step' = "trim", slot' = max_files + 1, UNCHANGED disk
       PROVE  FileInv'
  <2>1. FileTypeOK'
    BY <1>2, <1>3, <1>4, <1>5, <1>10
  <2>2. FilesOK' /\ (ByAge => ByAge')
    <3>1. setbacks' # 0
      BY <1>3, <1>10
    <3>2. QED
      BY <1>1, <1>10, <3>1 DEF FileInv, FilesOK, ByAge
  <2>3. Cursor'
    BY <1>1, <1>10 DEF Cursor, Zips
  <2>4. ASSUME setbacks' <= 1 PROVE setbacks <= 1 /\ Twins'
    <3>1. setbacks = 0
      BY <1>3, <1>10, <2>4
    <3>2. Settled'
      BY <1>6, <1>10, <3>1 DEF Settled, Both
    <3>3. QED
      BY <1>1, <1>2, <1>10, <3>1, <3>2, TwinsIfSettled DEF Zips
  <2>5. QED
    BY <2>1, <2>2, <2>3, <2>4 DEF FileInv
<1>11. QED
  BY <1>7, <1>8, <1>9, <1>10 DEF RotateSlot

(* zip() leaves the file that was moved, what it has of the zip beside it, *)
(* or only the zip, and ForgetZip what was there.                          *)
LEMMA ZipKeepsOrder ==
  ASSUME FileInv, ZipBackup
  PROVE  FileInv'
<1> DEFINE n == slot + 1
           g == disk[n]["plain"]
<1>1. /\ UNCHANGED <<max_files, zip_backups, job, generations, setbacks>> /\ step \in Zips
      /\ job # "none"
  BY DEF ZipBackup, Rotation, FileInv, Cursor, Zips
<1>2. /\ slot \in Nat /\ max_files \in Nat /\ slot < max_files
      /\ slot \in Slots /\ n \in Slots /\ slot # n /\ n # 0
  <2>1. /\ slot \in Nat /\ max_files \in Nat /\ max_files <= Most /\ Most \in Nat
        /\ slot < max_files
    BY <1>1, SlotsBelow DEF FileInv, FileTypeOK, Cursor
  <2>2. QED
    BY <2>1, SlotsBelow
<1>3. /\ zip_backups /\ disk[slot]["plain"] = None /\ g # None
      /\ step = "zipping" => disk[n][".gz"] = - g
      /\ step = "zipped" => disk[n][".gz"] = g
  BY <1>1 DEF FileInv, Cursor
<1>4. /\ setbacks \in Nat /\ disk \in [Slots -> [Extensions -> Int]] /\ generations \in Nat
      /\ g \in 0 .. generations /\ g \in Int
  <2>1. MaxGenerations \in Nat
    BY LimitsAssumption
  <2>2. generations \in Nat /\ setbacks \in Nat /\ disk \in [Slots -> [Extensions -> Int]]
    BY <2>1 DEF FileInv, FileTypeOK
  <2>3. g \in 0 .. generations
    BY <1>2 DEF FileInv, FilesOK
  <2>4. QED
    BY <2>2, <2>3
<1> HIDE DEF n, g
<1>5. ASSUME slot' \in Nat, step' \in Steps, disk' \in [Slots -> [Extensions -> Int]]
      PROVE  FileTypeOK'
  BY <1>1, <1>4, <1>5 DEF FileInv, FileTypeOK
<1>6. {"rotate", "trim", "zipping", "zipped"} \subseteq Steps
      /\ "plain" \in Extensions /\ ".gz" \in Extensions /\ "plain" # ".gz"
  BY DEF Steps, Zips, Extensions
<1>7. ASSUME setbacks = 0 PROVE disk[slot][".gz"] = None
  <2>1. Twins
    BY <1>4, <1>7 DEF FileInv
  <2>2. QED
    BY <1>1, <1>7, <2>1 DEF Twins
(* The zip is begun, or is complete. *)
<1>8. ASSUME NEW h \in Int, h = g \/ h = - g, disk' = [disk EXCEPT ![n][".gz"] = h],
             step' \in {"zipping", "zipped"}, step' = "zipping" => h = - g,
             step' = "zipped" => h = g, UNCHANGED slot
      PROVE  FileInv'
  <2>1. disk' \in [Slots -> [Extensions -> Int]] /\ Entered(n, ".gz", h)
    BY <1>2, <1>4, <1>6, <1>8, OneEntry
  <2>2. /\ \A m \in Slots : disk'[m]["plain"] = disk[m]["plain"]
        /\ \A m \in Slots : m # n => disk'[m][".gz"] = disk[m][".gz"]
        /\ disk'[n][".gz"] = h
    BY <1>2, <1>6, <2>1 DEF Entered
  <2>3. FileTypeOK'
    BY <1>2, <1>5, <1>6, <1>8, <2>1
  <2>4. FilesOK'
    <3>1. ASSUME NEW m \in Slots
          PROVE  /\ disk'[m]["plain"] \in 0 .. generations
                 /\ disk'[m][".gz"] \in -generations .. generations
      <4>1. /\ disk[m]["plain"] \in 0 .. generations
            /\ disk[m][".gz"] \in -generations .. generations
        BY DEF FileInv, FilesOK
      <4>2. h \in -generations .. generations
        BY <1>4, <1>8
      <4>3. QED
        BY <2>2, <4>1, <4>2
    <3>2. disk'[0][".gz"] = None
      BY <1>2, <2>2, SlotsBelow DEF FileInv, FilesOK
    <3>3. QED
      BY <1>1, <1>3, <3>1, <3>2 DEF FilesOK
  <2>5. Cursor'
    <3>1. disk'[slot]["plain"] = None /\ disk'[n]["plain"] = g
      BY <1>2, <1>3, <2>2 DEF g
    <3>2. QED
      BY <1>1, <1>2, <1>3, <1>8, <2>2, <3>1 DEF Cursor, Zips, n
  <2>6. Age(h) = g
    BY <1>4, <1>8 DEF Age
  <2>7. ASSUME setbacks <= 1 PROVE ByAge'
    <3>1. ByAge
      BY <2>7 DEF FileInv
    <3>2. \A m \in Slots, e \in Extensions : disk'[m][e] # None =>
            \E f \in Extensions : /\ disk[m][f] # None
                                  /\ Age(disk'[m][e]) = Age(disk[m][f])
      <4>1. Age(g) = g
        BY <1>4 DEF Age
      <4>2. QED
        BY <1>2, <1>3, <1>6, <2>1, <2>6, <4>1 DEF Entered, g
    <3>3. ASSUME NEW m \in Slots, NEW k \in Slots, m < k,
                 NEW e \in Extensions, NEW f \in Extensions,
                 disk'[m][e] # None, disk'[k][f] # None
          PROVE  /\ Age(disk'[k][f]) <= Age(disk'[m][e])
                 /\ setbacks' = 0 => Age(disk'[k][f]) # Age(disk'[m][e])
      BY <1>1, <3>1, <3>2, <3>3 DEF ByAge
    <3>4. QED
      BY <3>3 DEF ByAge
  <2>8. ASSUME setbacks <= 1 PROVE Twins'
    <3>1. Twins
      BY <2>8 DEF FileInv
    <3>2. \A m \in Slots : m # n /\ Both(m)' =>
            Both(m) /\ Age(disk'[m][".gz"]) = disk'[m]["plain"]
      <4>1. ASSUME NEW m \in Slots, m # n, Both(m)' PROVE Both(m)
        BY <2>2, <4>1 DEF Both
      <4>2. \A m \in Slots : m # n /\ Both(m) => Age(disk[m][".gz"]) = disk[m]["plain"]
        BY <3>1 DEF Twins, n
      <4>3. QED
        BY <2>2, <4>1, <4>2
    <3>3. Age(disk'[n][".gz"]) = disk'[n]["plain"]
      BY <1>2, <2>2, <2>6 DEF g
    <3>4. setbacks = 0 => \A m \in Slots : Both(m)' => m = n
      <4>1. setbacks = 0 => \A m \in Slots : Both(m) => m = n
        BY <3>1 DEF Twins, n
      <4>2. QED
        BY <3>2, <4>1
    <3>5. disk'[slot][".gz"] = disk[slot][".gz"]
      BY <1>2, <2>2
    <3>6. /\ \A m \in Slots : Both(m)' => Age(disk'[m][".gz"]) = disk'[m]["plain"]
          /\ setbacks' = 0 => \A m \in Slots : Both(m)' => m = slot' + 1
          /\ setbacks' = 0 => disk'[slot'][".gz"] = None
      BY <1>1, <1>7, <1>8, <3>2, <3>3, <3>4, <3>5 DEF n
    <3>7. step' \in {"zipping", "zipped"}
      BY <1>8
    <3>8. QED
      BY <3>6, <3>7 DEF Twins, Zips
  <2>9. QED
    BY <1>1, <2>3, <2>4, <2>5, <2>7, <2>8 DEF FileInv
(* One of the two is removed. *)
<1>9. ASSUME NEW e \in Extensions, disk' = [disk EXCEPT ![n][e] = None], Down
      PROVE  FileInv'
  <2>1. /\ disk' \in [Slots -> [Extensions -> Int]] /\ Entered(n, e, None)
        /\ FilesOK' /\ (ByAge => ByAge')
    BY <1>1, <1>2, <1>9, RemovalKeepsOrder
  <2>2. disk'[slot]["plain"] = None /\ disk'[slot][".gz"] = disk[slot][".gz"]
    BY <1>2, <1>3, <1>6, <2>1 DEF Entered
  <2>3. /\ Cursor' /\ slot' \in Nat /\ step' \in {"rotate", "trim"}
        /\ (/\ Settled' /\ (setbacks' = 0 => disk'[slot][".gz"] = None)) => Twins'
    <3>1. slot <= max_files
      BY <1>2
    <3>2. QED
      BY <1>1, <1>2, <1>9, <2>2, <3>1, DownKeepsCursor
  <2>4. FileTypeOK'
    BY <1>5, <1>6, <2>1, <2>3
  <2>5. ASSUME setbacks <= 1 PROVE Settled'
    <3>1. Twins
      BY <2>5 DEF FileInv
    <3>2. \A m \in Slots : m # n /\ Both(m) =>
            Age(disk[m][".gz"]) = disk[m]["plain"] /\ setbacks # 0
      BY <3>1 DEF Twins, n
    <3>3. ASSUME NEW m \in Slots, Both(m)'
          PROVE  /\ m # n /\ Both(m) /\ disk'[m]["plain"] = disk[m]["plain"]
                 /\ disk'[m][".gz"] = disk[m][".gz"]
      BY <2>1, <3>3 DEF Entered, Both, Extensions
    <3>4. QED
      BY <1>1, <3>2, <3>3 DEF Settled
  <2>6. setbacks <= 1 => Twins'
    BY <1>1, <1>7, <2>2, <2>3, <2>5
  <2>7. QED
    BY <1>1, <2>1, <2>3, <2>4, <2>6 DEF FileInv
<1>10. CASE /\ step = "zip" /\ disk' = [disk EXCEPT ![n][".gz"] = - g]
            /\ step' = "zipping" /\ UNCHANGED slot
  <2>1. PICK h \in Int : h = - g
    BY <1>4
  <2>2. QED
    BY <1>8, <1>10, <2>1
<1>11. CASE /\ step = "zipping" /\ disk' = [disk EXCEPT ![n][".gz"] = g]
            /\ step' = "zipped" /\ UNCHANGED slot
  BY <1>4, <1>8, <1>11
<1>12. CASE disk' = ForgetSource(n) /\ Down
  BY <1>6, <1>9, <1>12 DEF ForgetSource
<1>13. CASE disk' = ForgetZip(n) /\ Down
  BY <1>6, <1>9, <1>13 DEF ForgetZip
<1>14. QED
  BY <1>10, <1>11, <1>12, <1>13 DEF ZipBackup, n, g

(* What rotate() takes a slot for is one of its files.                     *)
LEMMA HoldsAFile ==
  ASSUME FileInv, setbacks <= 1, NEW n \in Slots, Found(n) # {}
  PROVE  \E e \in Extensions : disk[n][e] # None /\ Holds(n) = Age(disk[n][e])
<1>1. PICK e \in Extensions : /\ disk[n][e] # None
                              /\ e = ".gz" => disk[n]["plain"] = None
  BY DEF Found
<1>2. Found(n) = {e}
  BY <1>1 DEF Found, Extensions
<1>3. disk[n][e] \in -generations .. generations /\ generations \in 0 .. MaxGenerations
      /\ MaxGenerations \in Nat
  <2>1. generations \in 0 .. MaxGenerations /\ MaxGenerations \in Nat
    BY LimitsAssumption DEF FileInv, FileTypeOK
  <2>2. /\ disk[n]["plain"] \in 0 .. generations
        /\ disk[n][".gz"] \in -generations .. generations
    BY DEF FileInv, FilesOK
  <2>3. 0 .. generations \subseteq -generations .. generations
    BY <2>1
  <2>4. QED
    BY <2>1, <2>2, <2>3 DEF Extensions
<1>4. /\ Age(disk[n][e]) \in Generations
      /\ \A g \in Generations : g \in {disk[n][e], - disk[n][e]} <=> g = Age(disk[n][e])
  BY <1>1, <1>3 DEF Age, Generations, None
<1>5. Holds(n) = CHOOSE g \in Generations : g \in {disk[n][e], - disk[n][e]}
  BY <1>2 DEF Holds
<1>6. Holds(n) = Age(disk[n][e])
  BY <1>4, <1>5
<1>7. QED
  BY <1>1, <1>6

LEMMA FilesInOrder == FileSpec => []FileInv
<1>1. FileInit => FileInv
  <2> SUFFICES ASSUME FileInit PROVE FileInv
    OBVIOUS
  <2>1. \A n \in Slots, e \in Extensions : disk[n][e] = None
    BY DEF FileInit
  <2>2. FileTypeOK
    BY LimitsAssumption DEF FileInit, FileTypeOK, Steps, None
  <2>3. FilesOK
    BY <2>1, SlotsBelow DEF FileInit, FilesOK, Extensions, None
  <2>4. Cursor
    BY DEF FileInit, Cursor, Zips
  <2>5. ByAge /\ Twins
    BY <2>1 DEF FileInit, ByAge, Twins, Both, Extensions, Zips
  <2>6. QED
    BY <2>2, <2>3, <2>4, <2>5 DEF FileInv
<1>2. FileInv /\ [FileNext]_fileVars => FileInv'
  BY CallsKeepOrder, ReopenKeepsOrder, RotateKeepsOrder, ZipKeepsOrder, TrimKeepsOrder,
     CrashKeepsOrder, MoveKeepsOrder DEF FileNext
<1>3. QED
  BY <1>1, <1>2, PTL DEF FileSpec

(* After any number of rotations and zips, interrupted at most once by the *)
(* death of the process or by a rename that fails, no backup is newer than *)
(* one of a lower number, and without a setback none is there twice:       *)
(* rotate() moves the oldest first, into a slot it has emptied             *)
(* (report.cpp:474-532).                                                   *)
THEOREM BackupsByAge == FileSpec => []InOrder
<1>1. FileInv => InOrder
  <2> SUFFICES ASSUME FileInv, setbacks <= 1, NEW m \in Slots, NEW n \in Slots, m < n,
                      Found(m) # {}, Found(n) # {}
               PROVE  Holds(n) <= Holds(m) /\ (setbacks = 0 => Holds(n) # Holds(m))
    BY DEF InOrder
  <2>1. PICK e \in Extensions : disk[m][e] # None /\ Holds(m) = Age(disk[m][e])
    BY HoldsAFile
  <2>2. PICK f \in Extensions : disk[n][f] # None /\ Holds(n) = Age(disk[n][f])
    BY HoldsAFile
  <2>3. QED
    BY <2>1, <2>2 DEF FileInv, ByAge
<1>2. QED
  BY <1>1, FilesInOrder, PTL

-----------------------------------------------------------------------------
(***************************************************************************)
(* What is removed is old enough to go.                                    *)
(***************************************************************************)

(* The logs that came before the one in use, without those excepted.       *)
Past == filled \ ({Log} \cup moved \cup spoilt)

Newer(g) == Cardinality({h \in Past : h > g})

(* 1 while a rotation has moved some backups up and the log not yet.       *)
Pending == IF step = "rotate" \/ (step \in Zips /\ slot > 0) THEN 1 ELSE 0

(* A backup is no further up than newer logs and setbacks explain.         *)
Placed ==
  \A n \in Slots \ {0}, e \in Extensions :
    disk[n][e] > 0 =>
      n <= Newer(disk[n][e]) + setbacks + 1 + (IF n > slot THEN Pending ELSE 0)

Droppable(g) == Newer(g) + setbacks + Pending >= max_files

(* rotate() finds the log in a slot that the step under way will not put   *)
(* another file into.                                                      *)
Apart(n) == (step = "rotate" => n # slot + 1) /\ (step \in Zips => n # slot)
Held(g) == \E n \in Slots : Apart(n) /\ \E e \in Found(n) : disk[n][e] = g

LogKnown ==
  /\ filled \cup moved \cup spoilt \subseteq 1 .. generations
  /\ Log \in {None, generations} /\ Log \notin moved \cup spoilt
  /\ lines \in Nat
  /\ step = "write" => fd # None
  /\ fd # None => /\ Log # None => fd = Log
                  /\ fd \in filled \cup moved \cup {Log}
                  /\ lines > 0 => fd \in filled
  /\ Pending = 1 => Log \in filled
  /\ Log # None => \A n \in Slots \ {0}, e \in Extensions : disk[n][e] # Log
  /\ step = "trim" => slot > max_files

KeptInv == LogKnown /\ Placed /\ \A g \in Past : Held(g) \/ Droppable(g)

-----------------------------------------------------------------------------
LEMMA NewerIs ==
  ASSUME FileInv, LogKnown
  PROVE  IsFiniteSet(Past) /\ \A g : Newer(g) \in Nat
<1>1. generations \in Nat
  BY LimitsAssumption DEF FileInv, FileTypeOK
<1>2. IsFiniteSet(1 .. generations)
  BY <1>1, FS_Interval
<1>3. Past \subseteq 1 .. generations
  BY DEF LogKnown, Past
<1>4. IsFiniteSet(Past)
  BY <1>2, <1>3, FS_Subset
<1>5. ASSUME NEW g PROVE Newer(g) \in Nat
  <2>1. {h \in Past : h > g} \subseteq Past
    OBVIOUS
  <2>2. IsFiniteSet({h \in Past : h > g})
    BY <1>4, <2>1, FS_Subset
  <2>3. QED
    BY <2>2, FS_CardinalityType DEF Newer
<1>6. QED
  BY <1>4, <1>5

LEMMA NewerIsAfter ==
  ASSUME FileInv', LogKnown'
  PROVE  \A g : Newer(g)' \in Nat
<1>1. generations' \in Nat
  BY LimitsAssumption DEF FileInv, FileTypeOK
<1>2. IsFiniteSet(1 .. generations')
  BY <1>1, FS_Interval
<1>3. Past' \subseteq 1 .. generations'
  BY DEF LogKnown, Past
<1>4. ASSUME NEW g PROVE Newer(g)' \in Nat
  <2>1. IsFiniteSet({h \in Past' : h > g})
    BY <1>2, <1>3, FS_Subset
  <2>2. QED
    BY <2>1, FS_CardinalityType DEF Newer
<1>5. QED
  BY <1>4

(* Once the log is a backup, it is newer than all others.                  *)
LEMMA NewerNext ==
  ASSUME FileInv, LogKnown, Log # None, Past' = Past \cup {Log}, NEW g \in Int, g < Log
  PROVE  Newer(g)' = Newer(g) + 1
<1> DEFINE before == {h \in Past : h > g}
           after == {h \in Past' : h > g}
<1>1. IsFiniteSet(before)
  <2>1. before \subseteq Past
    OBVIOUS
  <2>2. QED
    BY <2>1, NewerIs, FS_Subset
<1>2. Log \notin before /\ after = before \cup {Log}
  <2>1. Log \notin Past
    BY DEF Past
  <2>2. Log > g
    <3>1. Log \in Int
      BY LimitsAssumption DEF LogKnown, FileInv, FileTypeOK, None
    <3>2. QED
      BY <3>1
  <2>3. QED
    BY <2>1, <2>2
<1>3. Cardinality(after) = Cardinality(before) + 1
  BY <1>1, <1>2, FS_AddElement
<1>4. Newer(g)' = Cardinality(after) /\ Newer(g) = Cardinality(before)
  BY DEF Newer
<1>5. QED
  BY <1>3, <1>4

LEMMA KeptTypes ==
  ASSUME FileInv, LogKnown
  PROVE  /\ generations \in Nat /\ setbacks \in Nat /\ slot \in Nat /\ max_files \in Nat
         /\ max_files <= Most /\ Pending \in {0, 1}
         /\ disk \in [Slots -> [Extensions -> Int]]
         /\ Log \in Int /\ disk[0][".gz"] = None
         /\ \A g \in Past : g \in Nat /\ 0 < g /\ g <= generations
         /\ \A n \in Slots, e \in Extensions : disk[n][e] <= generations
<1>1. /\ generations \in Nat /\ setbacks \in Nat /\ slot \in Nat /\ max_files \in Nat
      /\ max_files <= Most /\ disk \in [Slots -> [Extensions -> Int]]
      /\ disk[0][".gz"] = None
  BY LimitsAssumption, SlotsBelow DEF FileInv, FileTypeOK, FilesOK
<1>2. Pending \in {0, 1}
  BY DEF Pending
<1>3. Log \in Int
  BY <1>1 DEF LogKnown, None
<1>4. \A g \in Past : g \in Nat /\ 0 < g /\ g <= generations
  BY <1>1 DEF Past, LogKnown
<1>5. ASSUME NEW n \in Slots, NEW e \in Extensions PROVE disk[n][e] <= generations
  <2>1. /\ disk[n]["plain"] \in 0 .. generations
        /\ disk[n][".gz"] \in -generations .. generations
    BY DEF FileInv, FilesOK
  <2>2. QED
    BY <1>1, <2>1 DEF Extensions
<1>6. QED
  BY <1>1, <1>2, <1>3, <1>4, <1>5

(* The log is not one of those that came before it.                        *)
LEMMA HeldInBackup ==
  ASSUME FileInv, LogKnown, NEW g \in Past, NEW n \in Slots, NEW e \in Found(n), disk[n][e] = g
  PROVE  n # 0 /\ n > 0 /\ e \in Extensions /\ disk[n][e] > 0
<1>1. e \in Extensions /\ g > 0
  BY KeptTypes DEF Found
<1>2. n # 0
  <2>1. SUFFICES ASSUME n = 0 PROVE FALSE
    OBVIOUS
  <2>2. e = "plain"
    BY <1>1, <2>1, KeptTypes DEF Extensions, None
  <2>3. QED
    BY <2>1, <2>2 DEF Past, Log
<1>3. n \in Nat
  BY SlotsBelow
<1>4. QED
  BY <1>1, <1>2, <1>3

(* Backups stay where they are, and a rotation begins or is given up.      *)
LEMMA BackupsStay ==
  ASSUME FileInv, KeptInv, FileInv', LogKnown', Past' = Past,
         \A n \in Slots \ {0} : disk'[n] = disk[n],
         setbacks' >= setbacks + Pending, max_files' <= max_files,
         step' \notin Zips, step' = "rotate" => slot' = max_files'
  PROVE  KeptInv'
<1>1. /\ setbacks \in Nat /\ setbacks' \in Nat /\ max_files \in Nat /\ max_files' \in Nat
      /\ Pending \in {0, 1} /\ Pending' \in {0, 1} /\ slot \in Nat
      /\ disk \in [Slots -> [Extensions -> Int]]
  <2>1. setbacks' \in Nat /\ max_files' \in Backups
    BY DEF FileInv, FileTypeOK
  <2>2. Pending' \in {0, 1}
    BY DEF Pending
  <2>3. QED
    BY <2>1, <2>2, KeptTypes, SlotsBelow DEF KeptInv
<1>2. \A g : Newer(g) \in Nat /\ Newer(g)' = Newer(g)
  BY NewerIs DEF KeptInv, Newer
<1>3. \A n \in Slots \ {0}, e \in Extensions :
        disk[n][e] > 0 => n <= Newer(disk[n][e]) + setbacks' + 1
  <2> TAKE n \in Slots \ {0}, e \in Extensions
  <2> HAVE disk[n][e] > 0
  <2>1. n <= Newer(disk[n][e]) + setbacks + 1 + (IF n > slot THEN Pending ELSE 0)
    BY DEF KeptInv, Placed
  <2>2. n \in Nat /\ Newer(disk[n][e]) \in Nat
    BY <1>2, SlotsBelow
  <2>3. QED
    BY <1>1, <2>1, <2>2
<1>4. Placed'
  <2> SUFFICES ASSUME NEW n \in Slots \ {0}, NEW e \in Extensions, disk'[n][e] > 0
               PROVE  n <= Newer(disk[n][e])' + setbacks' + 1
                             + (IF n > slot' THEN Pending' ELSE 0)
    BY DEF Placed
  <2>1. disk'[n][e] = disk[n][e]
    OBVIOUS
  <2>2. Newer(disk[n][e])' = Newer(disk[n][e])
    BY <2>1 DEF Newer
  <2>3. n \in Nat /\ Newer(disk[n][e]) \in Nat /\ n <= Newer(disk[n][e]) + setbacks' + 1
    BY <1>2, <1>3, <2>1, SlotsBelow
  <2>4. QED
    BY <1>1, <2>2, <2>3
<1>5. ASSUME NEW g \in Past PROVE Held(g)' \/ Droppable(g)'
  <2>1. CASE Droppable(g)
    <3>1. Newer(g) + setbacks' + Pending' >= max_files'
      BY <1>1, <1>2, <2>1 DEF Droppable
    <3>2. QED
      BY <1>2, <3>1 DEF Droppable
  <2>2. CASE Held(g)
    <3>1. PICK n \in Slots : \E e \in Found(n) : disk[n][e] = g
      BY <2>2 DEF Held
    <3>2. PICK e \in Found(n) : disk[n][e] = g
      BY <3>1
    <3>3. n # 0 /\ e \in Extensions /\ disk[n][e] > 0
      BY <3>2, HeldInBackup DEF KeptInv
    <3>4. e \in Found(n)' /\ disk'[n][e] = g
      BY <3>2, <3>3 DEF Found
    <3>5. CASE Apart(n)'
      BY <3>4, <3>5 DEF Held
    <3>6. CASE ~ Apart(n)'
      <4>1. n = max_files' + 1
        BY <3>6 DEF Apart
      <4>2. max_files' + 1 <= Newer(g) + setbacks' + 1
        BY <1>3, <3>2, <3>3, <4>1
      <4>3. Newer(g) + setbacks' + Pending' >= max_files'
        BY <1>1, <1>2, <4>2
      <4>4. QED
        BY <1>2, <4>3 DEF Droppable
    <3>7. QED
      BY <3>5, <3>6
  <2>3. QED
    BY <2>1, <2>2 DEF KeptInv
<1>6. QED
  BY <1>4, <1>5 DEF KeptInv


(* The log is the same as before, and only backups move.                   *)
LEMMA LogStays ==
  ASSUME FileInv, LogKnown, UNCHANGED <<filled, moved, spoilt, generations, fd, lines>>,
         disk'[0]["plain"] = Log, Pending' = 1 => Pending = 1,
         step' # "write",
         \A n \in Slots \ {0}, e \in Extensions :
           disk'[n][e] <= 0 \/ \E m \in Slots \ {0}, f \in Extensions : disk'[n][e] = disk[m][f],
         step' = "trim" => slot' > max_files'
  PROVE  LogKnown' /\ Past' = Past
<1>1. Log' = Log
  BY DEF Log
<1>2. ASSUME Log # None, NEW n \in Slots \ {0}, NEW e \in Extensions
      PROVE  disk'[n][e] # Log
  <2>1. Log > 0
    BY <1>2, KeptTypes DEF LogKnown, None
  <2>2. disk'[n][e] <= 0 => disk'[n][e] # Log
    BY <2>1, KeptTypes
  <2>3. QED
    BY <1>2, <2>2 DEF LogKnown
<1>3. Past' = Past
  BY <1>1 DEF Past
<1>4. Pending' = 1 => Log \in filled
  BY DEF LogKnown
<1>5. LogKnown'
  BY <1>1, <1>2, <1>4 DEF LogKnown
<1>6. QED
  BY <1>3, <1>5

(* What was one number too far up when the log had still to move is in its *)
(* place when the log has moved.                                           *)
LEMMA LogMoves ==
  ASSUME FileInv, KeptInv, FileInv', Rotation, UNCHANGED setbacks, Pending = 1, slot = 0,
         disk'[0]["plain"] = None, Pending' = 0, step' # "write", step' = "trim" => slot' > max_files',
         \A n \in Slots \ {0}, e \in Extensions :
           disk'[n][e] = disk[n][e] \/ (n = 1 /\ disk'[n][e] = Log),
         NEW log, log = Log,
         max_files = 0 \/ (Held(log)' /\ \A g \in Past : Held(g) => Held(g)')
  PROVE  KeptInv'
<1>1. /\ UNCHANGED <<max_files, fd, lines, generations, filled, moved, spoilt>>
      /\ Log' = None
  BY DEF Rotation, Log
<1>2. Log \in filled /\ Log # None /\ Log = generations /\ Log \notin moved \cup spoilt
  <2>1. Log \in filled /\ Log \notin moved \cup spoilt /\ 0 \notin filled
    BY KeptTypes DEF KeptInv, LogKnown
  <2>2. QED
    BY <2>1 DEF KeptInv, LogKnown, None
<1>3. Past' = Past \cup {Log}
  <2>1. None \notin filled
    BY KeptTypes DEF KeptInv, LogKnown, None
  <2>2. QED
    BY <1>1, <1>2, <2>1 DEF Past
<1>4. LogKnown'
  <2>1. None \notin moved \cup spoilt
    BY KeptTypes DEF KeptInv, LogKnown, None
  <2>2. fd' # None => fd' \in filled' \cup moved' \cup {Log'} /\ (lines' > 0 => fd' \in filled')
    BY <1>1, <1>2 DEF KeptInv, LogKnown
  <2>3. QED
    BY <1>1, <2>1, <2>2 DEF KeptInv, LogKnown
<1>5. /\ setbacks \in Nat /\ max_files \in Nat /\ generations \in Nat
      /\ disk \in [Slots -> [Extensions -> Int]] /\ Log \in Int
      /\ \A n \in Slots, e \in Extensions : disk[n][e] <= generations
  BY KeptTypes DEF KeptInv
<1>6. /\ \A g : Newer(g) \in Nat /\ Newer(g)' \in Nat
      /\ \A g \in Int : g < Log => Newer(g)' = Newer(g) + 1
  BY <1>2, <1>3, <1>4, NewerIs, NewerIsAfter, NewerNext DEF KeptInv
<1>7. Placed'
  <2> SUFFICES ASSUME NEW n \in Slots \ {0}, NEW e \in Extensions, disk'[n][e] > 0
               PROVE  n <= Newer(disk[n][e])' + setbacks' + 1
                             + (IF n > slot' THEN Pending' ELSE 0)
    BY DEF Placed
  <2>0. PICK g : g = disk'[n][e]
    OBVIOUS
  <2>1. Newer(disk[n][e])' = Newer(g)' /\ Newer(g)' \in Nat
    BY <1>6, <2>0 DEF Newer
  <2>2. CASE g = Log /\ n = 1
    <3>1. n <= Newer(g)' + setbacks' + 1
      BY <1>5, <2>1, <2>2
    <3>2. QED
      BY <1>1, <1>5, <2>1, <2>2, <3>1
  <2>3. CASE g = disk[n][e]
    <3>1. g < Log /\ g \in Int
      BY <1>2, <1>5, <2>0, <2>3 DEF KeptInv, LogKnown
    <3>2. n <= Newer(g) + setbacks + 2
      <4>1. n <= Newer(g) + setbacks + 1 + (IF n > slot THEN Pending ELSE 0)
        BY <2>0, <2>3 DEF KeptInv, Placed
      <4>2. n \in Nat /\ Newer(g) \in Nat
        BY <1>6, SlotsBelow
      <4>3. QED
        BY <1>5, <4>1, <4>2
    <3>3. n \in Nat /\ Newer(g) \in Nat /\ Newer(g)' = Newer(g) + 1
      BY <1>6, <3>1, SlotsBelow
    <3>4. n <= Newer(g)' + setbacks' + 1
      BY <1>5, <2>1, <3>2, <3>3
    <3>5. QED
      BY <1>5, <2>1, <3>3, <3>4
  <2>4. QED
    BY <2>0, <2>2, <2>3
<1>8. ASSUME NEW g \in Past' PROVE Held(g)' \/ Droppable(g)'
  <2>1. CASE max_files = 0
    <3>1. Newer(g)' + setbacks' + Pending' >= max_files'
      BY <1>1, <1>5, <1>6, <2>1
    <3>2. QED
      BY <3>1 DEF Droppable
  <2>2. CASE max_files # 0 /\ g = Log
    <3>1. g = log /\ Held(log)'
      BY <2>2
    <3>2. QED
      BY <3>1
  <2>3. CASE max_files # 0 /\ g \in Past
    <3>1. CASE Held(g)
      BY <2>3, <3>1
    <3>2. CASE Droppable(g)
      <4>1. g \in Int /\ g < Log
        <5>1. g \in Nat /\ g <= generations /\ g # Log
          BY <2>3, KeptTypes DEF KeptInv, Past
        <5>2. QED
          BY <1>2, <1>5, <5>1
      <4>2. Newer(g)' + setbacks' + Pending' >= max_files'
        BY <1>1, <1>5, <1>6, <3>2, <4>1 DEF Droppable
      <4>3. QED
        BY <4>2 DEF Droppable
    <3>3. QED
      BY <2>3, <3>1, <3>2 DEF KeptInv
  <2>4. QED
    BY <1>3, <2>1, <2>2, <2>3
<1>9. QED
  BY <1>4, <1>7, <1>8 DEF KeptInv

(* The log stays, and backups move as far as they may.                     *)
LEMMA BackupsMove ==
  ASSUME FileInv, KeptInv, FileInv', Rotation, UNCHANGED setbacks, Pending' = Pending,
         disk'[0]["plain"] = Log, step' # "write", step' = "trim" => slot' > max_files',
         \A n \in Slots \ {0}, e \in Extensions : disk'[n][e] > 0 =>
           \E m \in Slots \ {0}, f \in Extensions :
             /\ disk'[n][e] = disk[m][f]
             /\ \/ n = m /\ (n > slot => n > slot' \/ Pending = 0)
                \/ n = m + 1 /\ m = slot /\ n > slot' /\ Pending = 1,
         \A g \in Past : Held(g) => Held(g)' \/ Droppable(g)
  PROVE  KeptInv'
<1>1. LogKnown' /\ Past' = Past
  <2>1. ASSUME NEW n \in Slots \ {0}, NEW e \in Extensions
        PROVE  disk'[n][e] <= 0 \/ \E m \in Slots \ {0}, f \in Extensions : disk'[n][e] = disk[m][f]
    <3>1. disk'[n][e] \in Int
      BY DEF FileInv, FileTypeOK
    <3>2. disk'[n][e] <= 0 \/ disk'[n][e] > 0
      BY <3>1
    <3>3. QED
      BY <3>2
  <2>2. UNCHANGED <<filled, moved, spoilt, generations, fd, lines>>
    BY DEF Rotation
  <2>3. QED
    BY <2>1, <2>2, LogStays DEF KeptInv
<1>2. /\ setbacks \in Nat /\ Pending \in {0, 1} /\ slot \in Nat /\ slot' \in Nat
      /\ disk \in [Slots -> [Extensions -> Int]] /\ max_files' = max_files
  BY KeptTypes DEF KeptInv, FileInv, FileTypeOK, Rotation
<1>3. \A g : Newer(g) \in Nat /\ Newer(g)' = Newer(g)
  BY <1>1, NewerIs DEF KeptInv, Newer
<1>4. Placed'
  <2> SUFFICES ASSUME NEW n \in Slots \ {0}, NEW e \in Extensions, disk'[n][e] > 0
               PROVE  n <= Newer(disk[n][e])' + setbacks' + 1
                             + (IF n > slot' THEN Pending' ELSE 0)
    BY DEF Placed
  <2>1. PICK m \in Slots \ {0}, f \in Extensions :
             /\ disk'[n][e] = disk[m][f]
             /\ \/ n = m /\ (n > slot => n > slot' \/ Pending = 0)
                \/ n = m + 1 /\ m = slot /\ n > slot' /\ Pending = 1
    OBVIOUS
  <2>2. PICK g : g = disk'[n][e]
    OBVIOUS
  <2>3. Newer(disk[n][e])' = Newer(g) /\ Newer(g) \in Nat
    <3>1. Newer(disk[n][e])' = Newer(g)
      BY <1>1, <2>2 DEF Newer
    <3>2. QED
      BY <1>3, <3>1
  <2>4. m <= Newer(g) + setbacks + 1 + (IF m > slot THEN Pending ELSE 0)
    BY <2>1, <2>2 DEF KeptInv, Placed
  <2>5. m \in Nat /\ n \in Nat
    BY SlotsBelow
  <2>6. n <= Newer(g) + setbacks + 1 + (IF n > slot' THEN Pending ELSE 0)
    BY <1>2, <2>1, <2>3, <2>4, <2>5
  <2>7. QED
    BY <2>3, <2>6
<1>5. ASSUME NEW g \in Past PROVE Held(g)' \/ Droppable(g)'
  <2>1. Droppable(g)' = Droppable(g)
    BY <1>2, <1>3 DEF Droppable
  <2>2. QED
    BY <2>1 DEF KeptInv
<1>6. QED
  BY <1>1, <1>4, <1>5 DEF KeptInv

(* What rotate() removes behind the last backup may go.                    *)
LEMMA BehindTheLast ==
  ASSUME FileInv, KeptInv, NEW g \in Past, NEW n \in Slots, NEW e \in Found(n), disk[n][e] = g,
         n >= max_files, n > slot \/ Pending = 0 => n > max_files
  PROVE  Droppable(g)
<1>1. /\ setbacks \in Nat /\ Pending \in {0, 1} /\ slot \in Nat /\ max_files \in Nat
      /\ n \in Nat /\ Newer(g) \in Nat
  BY KeptTypes, SlotsBelow, NewerIs DEF KeptInv
<1>2. n <= Newer(g) + setbacks + 1 + (IF n > slot THEN Pending ELSE 0)
  BY HeldInBackup DEF KeptInv, Placed
<1>3. Newer(g) + setbacks + Pending >= max_files
  BY <1>1, <1>2
<1>4. QED
  BY <1>3 DEF Droppable

-----------------------------------------------------------------------------
LEMMA TrimKeeps ==
  ASSUME FileInv, KeptInv, FileInv', Trim
  PROVE  KeptInv'
<1>1. /\ step = "trim" /\ Rotation /\ UNCHANGED setbacks /\ slot > max_files
      /\ step' \in {"trim", "reopen"}
  BY DEF Trim, KeptInv, LogKnown
<1>2. Pending = 0 /\ Pending' = 0
  BY <1>1 DEF Pending, Zips
<1>3. /\ slot \in Nat /\ max_files \in Nat /\ max_files' = max_files
      /\ disk \in [Slots -> [Extensions -> Int]]
  BY <1>1, KeptTypes DEF KeptInv, Rotation
<1>4. CASE disk' = disk /\ step' = "reopen"
  <2>1. \A n \in Slots \ {0} : disk'[n] = disk[n]
    BY <1>4
  <2>2. LogKnown' /\ Past' = Past
    <3>1. disk'[0]["plain"] = Log
      BY <1>4 DEF Log
    <3>2. UNCHANGED <<filled, moved, spoilt, generations, fd, lines>>
      BY <1>1 DEF Rotation
    <3>3. QED
      BY <1>2, <1>4, <3>1, <3>2, LogStays DEF KeptInv
  <2>3. setbacks' >= setbacks + Pending /\ max_files' <= max_files
    BY <1>1, <1>2, <1>3, KeptTypes DEF KeptInv
  <2>4. QED
    BY <1>4, <2>1, <2>2, <2>3, BackupsStay DEF Zips
<1>5. CASE /\ slot \in Slots /\ Found(slot) # {} /\ step' = "trim" /\ slot' = slot + 1
           /\ \E e \in Found(slot) : disk' = [disk EXCEPT ![slot][e] = None]
  <2>1. PICK e \in Found(slot) : disk' = [disk EXCEPT ![slot][e] = None]
    BY <1>5
  <2>2. e \in Extensions
    BY DEF Found
  <2>3. \A n \in Slots, f \in Extensions :
          disk'[n][f] = IF n = slot /\ f = e THEN None ELSE disk[n][f]
    BY <1>3, <1>5, <2>1, <2>2, OneEntry DEF Entered, None
  <2>4. disk'[0]["plain"] = Log
    BY <1>1, <1>3, <2>3, SlotsBelow DEF Log, Extensions
  <2>5. ASSUME NEW n \in Slots \ {0}, NEW f \in Extensions, disk'[n][f] > 0
        PROVE  \E m \in Slots \ {0}, d \in Extensions :
                 /\ disk'[n][f] = disk[m][d]
                 /\ \/ n = m /\ (n > slot => n > slot' \/ Pending = 0)
                    \/ n = m + 1 /\ m = slot /\ n > slot' /\ Pending = 1
    BY <1>2, <2>3, <2>5 DEF None
  <2>6. ASSUME NEW g \in Past, Held(g) PROVE Held(g)' \/ Droppable(g)
    <3>1. PICK n \in Slots : \E f \in Found(n) : disk[n][f] = g
      BY <2>6 DEF Held
    <3>2. PICK f \in Found(n) : disk[n][f] = g
      BY <3>1
    <3>3. CASE n = slot
      BY <1>1, <1>2, <1>3, <3>2, <3>3, BehindTheLast
    <3>4. CASE n # slot
      <4>1. f \in Found(n)' /\ disk'[n][f] = g
        BY <2>3, <3>2, <3>4 DEF Found, Extensions
      <4>2. Apart(n)'
        BY <1>5 DEF Apart, Zips
      <4>3. QED
        BY <4>1, <4>2 DEF Held
    <3>5. QED
      BY <3>3, <3>4
  <2>7. step' = "trim" => slot' > max_files'
    BY <1>1, <1>3, <1>5
  <2>8. QED
    BY <1>1, <1>2, <2>4, <2>5, <2>6, <2>7, BackupsMove
<1>6. QED
  BY <1>1, <1>4, <1>5 DEF Trim

(* What a zip does to the file it zips, the slot above, and that the file  *)
(* is there throughout.                                                    *)
LEMMA ZipKeeps ==
  ASSUME FileInv, KeptInv, FileInv', ZipBackup
  PROVE  KeptInv'
<1>01. PICK n : n = slot + 1
  OBVIOUS
<1>02. PICK g : g = disk[n]["plain"]
  OBVIOUS
<1>1. /\ step \in Zips /\ Rotation /\ UNCHANGED setbacks
      /\ slot \in Nat /\ max_files \in Nat /\ max_files' = max_files /\ slot < max_files
      /\ disk \in [Slots -> [Extensions -> Int]] /\ disk[slot]["plain"] = None
      /\ g \in Int /\ g > 0
  <2>1. step \in Zips /\ Rotation /\ UNCHANGED setbacks
    BY DEF ZipBackup, Zips
  <2>2. /\ slot < max_files /\ disk[slot]["plain"] = None /\ g # None
        /\ slot \in Nat /\ max_files \in Nat /\ max_files <= Most
        /\ disk \in [Slots -> [Extensions -> Int]]
    BY <1>01, <1>02, <2>1, KeptTypes DEF FileInv, Cursor, KeptInv
  <2>3. n \in Slots
    BY <1>01, <2>2, SlotsBelow
  <2>4. g \in 0 .. generations
    BY <1>02, <2>3 DEF FileInv, FilesOK
  <2>5. QED
    BY <2>1, <2>2, <2>4, KeptTypes DEF KeptInv, Rotation, None
<1>2. slot \in Slots /\ n \in Slots /\ n # 0 /\ slot # n
  BY <1>01, <1>1, KeptTypes, SlotsBelow DEF KeptInv
<1>3. \/ step' \in Zips /\ slot' = slot
      \/ Down
  BY DEF ZipBackup, Zips
<1>4. /\ step' = "rotate" => slot' = slot - 1 /\ slot > 0
      /\ step' \in Zips => slot' = slot
      /\ step' = "trim" => slot = 0 /\ slot' > max_files'
      /\ step' \in Zips \cup {"rotate", "trim"}
      /\ Pending = (IF slot > 0 THEN 1 ELSE 0) /\ Pending' = Pending
      /\ Pending = 1 => n > slot'
      /\ slot' <= slot \/ Pending = 0
  BY <1>01, <1>1, <1>3 DEF Down, Pending, Zips
<1>5. /\ \A m \in Slots, e \in Extensions : m # n => disk'[m][e] = disk[m][e]
      /\ \/ disk'[n]["plain"] = g /\ disk'[n][".gz"] \in {- g, g, None}
         \/ disk'[n]["plain"] = None /\ disk'[n][".gz"] = g
  <2>1. CASE \E e \in {- g, g, None} : disk' = [disk EXCEPT ![n][".gz"] = e]
    <3>1. PICK e \in {- g, g, None} : disk' = [disk EXCEPT ![n][".gz"] = e]
      BY <2>1
    <3>2. e \in Int /\ ".gz" \in Extensions
      BY <1>1 DEF None, Extensions
    <3>3. Entered(n, ".gz", e)
      BY <1>1, <1>2, <3>1, <3>2, OneEntry
    <3>4. QED
      BY <1>02, <1>2, <3>3 DEF Entered, Extensions
  <2>2. CASE step = "zipped" /\ disk' = [disk EXCEPT ![n]["plain"] = None]
    <3>1. Entered(n, "plain", None)
      <4>1. None \in Int /\ "plain" \in Extensions
        BY DEF None, Extensions
      <4>2. QED
        BY <1>1, <1>2, <2>2, <4>1, OneEntry
    <3>2. disk[n][".gz"] = g
      BY <1>01, <1>02, <2>2 DEF FileInv, Cursor
    <3>3. QED
      BY <1>2, <3>1, <3>2 DEF Entered, Extensions
  <2>3. QED
    BY <1>01, <1>02, <2>1, <2>2 DEF ZipBackup, ForgetZip, ForgetSource
<1>6. disk'[0]["plain"] = Log
  BY <1>2, <1>5, SlotsBelow DEF Log, Extensions
<1>7. ASSUME NEW m \in Slots \ {0}, NEW e \in Extensions, disk'[m][e] > 0
      PROVE  \E k \in Slots \ {0}, f \in Extensions :
               /\ disk'[m][e] = disk[k][f]
               /\ \/ m = k /\ (m > slot => m > slot' \/ Pending = 0)
                  \/ m = k + 1 /\ k = slot /\ m > slot' /\ Pending = 1
  <2>1. m > slot => m > slot' \/ Pending = 0
    BY <1>1, <1>4, SlotsBelow DEF FileInv, FileTypeOK
  <2>2. CASE m # n
    BY <1>5, <2>1, <2>2
  <2>3. CASE m = n
    <3>1. disk'[n][e] = g
      BY <1>1, <1>5, <1>7, <2>3 DEF Extensions, None
    <3>2. QED
      BY <1>02, <1>2, <2>1, <2>3, <3>1 DEF Extensions
  <2>4. QED
    BY <2>2, <2>3
<1>8. ASSUME NEW h \in Past, Held(h) PROVE Held(h)'
  <2>1. PICK m \in Slots : Apart(m) /\ \E f \in Found(m) : disk[m][f] = h
    BY <1>8 DEF Held
  <2>2. PICK f \in Found(m) : disk[m][f] = h
    BY <2>1
  <2>3. m # slot
    BY <1>1, <2>1 DEF Apart
  <2>4. Apart(m)'
    BY <1>1, <1>4, <2>3 DEF Apart, Zips
  <2>5. CASE m # n
    <3>1. f \in Found(m)' /\ disk'[m][f] = h
      BY <1>5, <2>2, <2>5 DEF Found, Extensions
    <3>2. QED
      BY <2>4, <3>1 DEF Held
  <2>6. CASE m = n
    <3>1. f = "plain" /\ h = g
      BY <1>02, <1>1, <2>2, <2>6 DEF Found, Extensions, None
    <3>2. \E e \in Found(n)' : disk'[n][e] = g
      BY <1>1, <1>5 DEF Found, Extensions, None
    <3>3. QED
      BY <2>4, <2>6, <3>1, <3>2 DEF Held
  <2>7. QED
    BY <2>5, <2>6
<1>9. QED
  BY <1>1, <1>4, <1>6, <1>7, <1>8, BackupsMove DEF Zips

-----------------------------------------------------------------------------
LEMMA RotateKeeps ==
  ASSUME FileInv, KeptInv, FileInv', RotateSlot
  PROVE  KeptInv'
<1>1. /\ step = "rotate" /\ Rotation /\ Pending = 1
      /\ slot \in Nat /\ max_files \in Nat /\ max_files' = max_files /\ slot <= max_files
      /\ disk \in [Slots -> [Extensions -> Int]]
      /\ slot < max_files => disk[slot + 1]["plain"] = None
      /\ Log \in filled /\ Log # None /\ setbacks \in Nat
  <2>1. step = "rotate" /\ Rotation /\ Pending = 1
    BY DEF RotateSlot, Pending
  <2>2. Log \in filled /\ Log # None
    BY <2>1, KeptTypes DEF KeptInv, LogKnown, None
  <2>3. QED
    BY <2>1, <2>2, KeptTypes DEF FileInv, Cursor, KeptInv, Rotation
<1>2. slot \in Slots /\ 0 \in Slots /\ (slot < max_files => slot + 1 \in Slots)
  BY <1>1, KeptTypes, SlotsBelow DEF KeptInv
<1>3. Log > 0 /\ Log \in Int /\ "plain" \in Found(0)
  <2>1. Log > 0 /\ Log \in Int
    BY <1>1, KeptTypes DEF KeptInv, LogKnown, None
  <2>2. QED
    BY <1>1, <2>1 DEF Log, Found, Extensions
\* The rename fails.
<1>4. CASE setbacks' = setbacks + 1 /\ step' = "trim" /\ slot' = max_files + 1 /\ UNCHANGED disk
  <2>1. Pending' = 0
    BY <1>4 DEF Pending, Zips
  <2>2. \A n \in Slots \ {0} : disk'[n] = disk[n]
    BY <1>4
  <2>3. LogKnown' /\ Past' = Past
    <3>1. disk'[0]["plain"] = Log
      BY <1>4 DEF Log
    <3>2. UNCHANGED <<filled, moved, spoilt, generations, fd, lines>>
      BY <1>1 DEF Rotation
    <3>3. slot' > max_files'
      BY <1>1, <1>4
    <3>4. QED
      BY <1>4, <2>1, <3>1, <3>2, <3>3, LogStays DEF KeptInv
  <2>4. setbacks' >= setbacks + Pending /\ max_files' <= max_files
    BY <1>1, <1>4
  <2>5. QED
    BY <1>4, <2>2, <2>3, <2>4, BackupsStay DEF Zips
\* There is none in this slot.
<1>5. CASE Found(slot) = {} /\ Down /\ UNCHANGED <<disk, setbacks>>
  <2>1. slot # 0 /\ step' = "rotate" /\ slot' = slot - 1 /\ Pending' = Pending
    BY <1>1, <1>3, <1>5 DEF Down, Pending
  <2>2. ASSUME NEW n \in Slots \ {0}, NEW e \in Extensions, disk'[n][e] > 0
        PROVE  \E m \in Slots \ {0}, f \in Extensions :
                 /\ disk'[n][e] = disk[m][f]
                 /\ \/ n = m /\ (n > slot => n > slot' \/ Pending = 0)
                    \/ n = m + 1 /\ m = slot /\ n > slot' /\ Pending = 1
    <3>1. disk'[n][e] = disk[n][e] /\ (n > slot => n > slot')
      BY <1>1, <1>5, <2>1, SlotsBelow
    <3>2. QED
      BY <3>1
  <2>3. ASSUME NEW g \in Past, Held(g) PROVE Held(g)'
    <3>1. PICK n \in Slots : \E e \in Found(n) : disk[n][e] = g
      BY <2>3 DEF Held
    <3>2. n # slot' + 1 /\ Found(n)' = Found(n)
      BY <1>1, <1>5, <2>1, <3>1 DEF Found
    <3>3. Apart(n)'
      BY <2>1, <3>2 DEF Apart, Zips
    <3>4. QED
      BY <1>5, <3>1, <3>2, <3>3 DEF Held
  <2>4. disk'[0]["plain"] = Log
    BY <1>5 DEF Log
  <2>5. QED
    BY <1>1, <1>5, <2>1, <2>2, <2>3, <2>4, BackupsMove
\* The file of the last slot goes.
<1>6. ASSUME NEW e \in Found(slot), slot = max_files, UNCHANGED setbacks, Down,
             disk' = [disk EXCEPT ![slot][e] = None]
      PROVE  KeptInv'
  <2>1. \A n \in Slots, f \in Extensions :
          disk'[n][f] = IF n = slot /\ f = e THEN None ELSE disk[n][f]
    <3>1. e \in Extensions /\ None \in Int
      BY DEF Found, None
    <3>2. QED
      BY <1>1, <1>2, <1>6, <3>1, OneEntry DEF Entered
  <2>2. CASE slot = 0
    <3>1. e = "plain"
      BY <1>3, <2>2, KeptTypes DEF Found, Extensions, KeptInv
    <3>2. step' = "trim" /\ slot' > max_files' /\ Pending' = 0
      BY <1>1, <1>6, <2>2 DEF Down, Pending, Zips
    <3>3. disk'[0]["plain"] = None
      BY <1>2, <2>1, <2>2, <3>1 DEF Extensions
    <3>4. \A n \in Slots \ {0}, f \in Extensions :
            disk'[n][f] = disk[n][f] \/ (n = 1 /\ disk'[n][f] = Log)
      BY <2>1, <2>2
    <3>5. QED
      BY <1>1, <1>6, <2>2, <3>2, <3>3, <3>4, LogMoves
  <2>3. CASE slot # 0
    <3>1. step' = "rotate" /\ slot' = slot - 1 /\ Pending' = Pending
      BY <1>1, <1>6, <2>3 DEF Down, Pending
    <3>2. ASSUME NEW n \in Slots \ {0}, NEW f \in Extensions, disk'[n][f] > 0
          PROVE  \E m \in Slots \ {0}, d \in Extensions :
                   /\ disk'[n][f] = disk[m][d]
                   /\ \/ n = m /\ (n > slot => n > slot' \/ Pending = 0)
                      \/ n = m + 1 /\ m = slot /\ n > slot' /\ Pending = 1
      <4>1. disk'[n][f] = disk[n][f]
        BY <2>1, <3>2 DEF None
      <4>2. n > slot => n > slot'
        BY <1>1, <3>1, SlotsBelow
      <4>3. QED
        BY <4>1, <4>2
    <3>3. ASSUME NEW g \in Past, Held(g) PROVE Held(g)' \/ Droppable(g)
      <4>1. PICK n \in Slots : Apart(n) /\ \E f \in Found(n) : disk[n][f] = g
        BY <3>3 DEF Held
      <4>2. PICK f \in Found(n) : disk[n][f] = g
        BY <4>1
      <4>3. CASE n = slot
        <5>1. n >= max_files /\ ~ (n > slot) /\ Pending # 0
          BY <1>1, <1>6, <4>3
        <5>2. QED
          BY <4>2, <5>1, BehindTheLast
      <4>4. CASE n # slot
        <5>1. f \in Found(n)' /\ disk'[n][f] = g
          BY <2>1, <4>2, <4>4 DEF Found, Extensions
        <5>2. Apart(n)'
          BY <1>1, <3>1, <4>4 DEF Apart, Zips
        <5>3. QED
          BY <5>1, <5>2 DEF Held
      <4>5. QED
        BY <4>3, <4>4
    <3>4. disk'[0]["plain"] = Log
      BY <1>2, <2>1, <2>3 DEF Log, Extensions
    <3>5. QED
      BY <1>1, <1>6, <3>1, <3>2, <3>3, <3>4, BackupsMove
  <2>4. QED
    BY <2>2, <2>3
\* A file goes up by one.
<1>7. ASSUME NEW e \in Found(slot), slot # max_files, UNCHANGED setbacks,
             disk' = Renamed(slot, e), (step' = "zip" /\ UNCHANGED slot) \/ Down
      PROVE  KeptInv'
  <2>1. PICK next : next = slot + 1
    OBVIOUS
  <2>2. PICK g : g = disk[slot][e]
    OBVIOUS
  <2>3. /\ next \in Slots /\ next # 0 /\ next # slot /\ e \in Extensions
        /\ disk[next]["plain"] = None
    BY <1>1, <1>2, <1>7, <2>1 DEF Found
  <2>4. \A n \in Slots, f \in Extensions :
          disk'[n][f] = IF n = slot /\ f = e THEN None
                        ELSE IF n = next /\ f = e THEN g
                        ELSE disk[n][f]
    BY <1>1, <1>2, <1>7, <2>1, <2>2, <2>3, TwoEntries
  <2>5. e \in Found(next)' /\ disk'[next][e] = g
    BY <2>2, <2>3, <2>4 DEF Found, Extensions
  <2>6. ASSUME NEW n \in Slots, n # slot, n # next
        PROVE  Found(n)' = Found(n) /\ \A f \in Extensions : disk'[n][f] = disk[n][f]
    BY <2>4, <2>6 DEF Found, Extensions
  <2>7. Apart(next)' /\ \A n \in Slots : n # slot => Apart(n)'
    BY <1>1, <1>7, <2>1, <2>3, SlotsBelow DEF Apart, Zips, Down
  <2>8. ASSUME NEW h \in Past, Held(h) PROVE Held(h)'
    <3>1. PICK n \in Slots : Apart(n) /\ \E f \in Found(n) : disk[n][f] = h
      BY <2>8 DEF Held
    <3>2. PICK f \in Found(n) : disk[n][f] = h
      BY <3>1
    <3>3. n # next
      BY <1>1, <2>1, <3>1 DEF Apart
    <3>4. CASE n = slot
      <4>1. f = e
        BY <3>2, <3>4 DEF Found, Extensions
      <4>2. h = g
        BY <2>2, <3>2, <3>4, <4>1
      <4>3. QED
        BY <2>3, <2>5, <2>7, <4>2 DEF Held
    <3>5. CASE n # slot
      <4>1. f \in Found(n)' /\ disk'[n][f] = h
        BY <2>6, <3>2, <3>3, <3>5 DEF Found
      <4>2. QED
        BY <2>7, <3>5, <4>1 DEF Held
    <3>6. QED
      BY <3>4, <3>5
  <2>9. CASE slot = 0
    <3>1. e = "plain" /\ g = Log
      BY <1>3, <2>2, <2>9, KeptTypes DEF Found, Extensions, Log, KeptInv
    <3>2. Pending' = 0 /\ (step' = "trim" => slot' > max_files') /\ step' # "write"
      BY <1>1, <1>7, <2>9 DEF Down, Pending, Zips
    <3>3. disk'[0]["plain"] = None
      BY <1>2, <2>4, <2>9, <3>1 DEF Extensions
    <3>4. \A n \in Slots \ {0}, f \in Extensions :
            disk'[n][f] = disk[n][f] \/ (n = 1 /\ disk'[n][f] = Log)
      BY <2>1, <2>4, <2>9, <3>1
    <3>5. Held(g)'
      BY <2>3, <2>5, <2>7 DEF Held
    <3>6. QED
      BY <1>1, <1>7, <2>8, <2>9, <3>1, <3>2, <3>3, <3>4, <3>5, LogMoves
  <2>10. CASE slot # 0
    <3>1. /\ step' \in {"zip", "rotate"} /\ slot' \in {slot, slot - 1} /\ Pending' = Pending
          /\ next > slot' /\ next > slot
      BY <1>1, <1>7, <2>1, <2>10 DEF Down, Pending, Zips
    <3>2. ASSUME NEW n \in Slots \ {0}, NEW f \in Extensions, disk'[n][f] > 0
          PROVE  \E m \in Slots \ {0}, d \in Extensions :
                   /\ disk'[n][f] = disk[m][d]
                   /\ \/ n = m /\ (n > slot => n > slot' \/ Pending = 0)
                      \/ n = m + 1 /\ m = slot /\ n > slot' /\ Pending = 1
      <4>1. CASE n = next /\ f = e
        BY <1>1, <1>2, <2>1, <2>2, <2>3, <2>4, <2>10, <3>1, <4>1
      <4>2. CASE ~ (n = next /\ f = e)
        <5>1. disk'[n][f] = disk[n][f]
          BY <2>4, <3>2, <4>2 DEF None
        <5>2. n > slot => n > slot'
          BY <1>1, <3>1, SlotsBelow
        <5>3. QED
          BY <5>1, <5>2
      <4>3. QED
        BY <4>1, <4>2
    <3>3. disk'[0]["plain"] = Log
      BY <1>2, <2>3, <2>4, <2>10 DEF Log, Extensions
    <3>4. step' # "trim"
      BY <3>1
    <3>5. QED
      BY <1>1, <1>7, <2>8, <3>1, <3>2, <3>3, <3>4, BackupsMove
  <2>11. QED
    BY <2>9, <2>10
<1>8. QED
  BY <1>1, <1>4, <1>5, <1>6, <1>7 DEF RotateSlot

-----------------------------------------------------------------------------
(* Calls that begin and end, a log that is created, moved away or written  *)
(* to, and another process: the backups stay.                              *)
LEMMA CallsKeep ==
  ASSUME FileInv, KeptInv, FileInv', CallOpen \/ CallLog \/ CallClose \/ Write
  PROVE  KeptInv'
<1>1. /\ UNCHANGED <<disk, max_files, setbacks, generations, moved, spoilt>>
      /\ step \in {"none", "write"} /\ step' \in {"none", "rotate", "reopen"}
      /\ step' = "rotate" => slot' = max_files
  BY DEF CallOpen, CallLog, CallClose, Write, Begin, FileInv, Cursor
<1>2. Pending = 0
  BY <1>1 DEF Pending, Zips
<1>3. Log' = Log
  BY <1>1 DEF Log
<1>4. /\ fd' # None => /\ Log # None => fd' = Log
                       /\ fd' \in filled' \cup moved \cup {Log}
                       /\ lines' > 0 => fd' \in filled'
      /\ step' = "rotate" => Log \in filled'
      /\ filled' = filled \/ (fd # None /\ filled' = filled \cup {fd})
  <2>1. CASE CallOpen
    BY <2>1, <1>1 DEF CallOpen, Begin, KeptInv, LogKnown
  <2>2. CASE CallLog
    BY <2>2, <1>1, LimitsAssumption DEF CallLog, Begin, KeptInv, LogKnown, Full
  <2>3. CASE CallClose
    BY <2>3, <1>1 DEF CallClose, KeptInv, LogKnown, FileInv, Cursor
  <2>4. CASE Write
    BY <2>4, <1>1 DEF Write, KeptInv, LogKnown
  <2>5. QED
    BY <2>1, <2>2, <2>3, <2>4
<1>5. filled' \subseteq 1 .. generations /\ Past' = Past
  <2>1. filled' # filled => fd \in 1 .. generations /\ fd \in filled \cup moved \cup {Log}
    BY <1>3, <1>4, KeptTypes DEF KeptInv, LogKnown, None
  <2>2. QED
    BY <1>1, <1>3, <1>4, <2>1 DEF KeptInv, LogKnown, Past
<1>6. lines' \in Nat /\ (step' = "write" => fd' # None)
  BY <1>1 DEF KeptInv, LogKnown, CallOpen, CallLog, CallClose, Write
<1>7. LogKnown'
  <2>1. Pending' = 1 => Log \in filled'
    BY <1>1, <1>4 DEF Pending, Zips
  <2>2. QED
    BY <1>1, <1>3, <1>4, <1>5, <1>6, <2>1 DEF KeptInv, LogKnown
<1>8. setbacks' >= setbacks + Pending /\ max_files' <= max_files
  BY <1>1, <1>2, KeptTypes DEF KeptInv
<1>9. \A n \in Slots \ {0} : disk'[n] = disk[n]
  BY <1>1
<1>10. step' \notin Zips /\ (step' = "rotate" => slot' = max_files')
  BY <1>1 DEF Zips
<1>11. QED
  BY <1>5, <1>7, <1>8, <1>9, <1>10, BackupsStay

LEMMA OthersKeep ==
  ASSUME FileInv, KeptInv, FileInv', Reopen \/ Crash \/ MoveAway
  PROVE  KeptInv'
<1>1. /\ generations \in Nat /\ setbacks \in Nat /\ max_files \in Nat
      /\ Pending \in {0, 1} /\ Pending' = 0 /\ step' \in {"none", "write"}
      /\ disk \in [Slots -> [Extensions -> Int]] /\ 0 \in Slots
      /\ \A n \in Slots, e \in Extensions : disk[n][e] <= generations
  <2>1. step' \in {"none", "write"}
    BY DEF Reopen, Crash, MoveAway, FileInv, Cursor
  <2>2. Pending' = 0
    BY <2>1 DEF Pending, Zips
  <2>3. QED
    BY <2>1, <2>2, KeptTypes, SlotsBelow DEF KeptInv
<1>2. /\ \A n \in Slots \ {0} : disk'[n] = disk[n]
      /\ setbacks' >= setbacks + Pending /\ max_files' <= max_files
      /\ LogKnown' /\ Past' = Past
  <2>1. CASE Crash
    <3>1. \A n \in Backups : n \in Nat
      BY SlotsBelow
    <3>2. /\ UNCHANGED <<disk, generations, filled, moved, spoilt>> /\ setbacks' = setbacks + 1
          /\ max_files' <= max_files /\ fd' = None /\ lines' = 0 /\ step' = "none"
      BY <1>1, <2>1 DEF Crash
    <3>3. Log' = Log /\ UNCHANGED <<disk, generations, filled, moved, spoilt>>
      BY <3>2 DEF Log
    <3>4. LogKnown' /\ Past' = Past
      BY <1>1, <3>2, <3>3 DEF LogKnown, Past, KeptInv
    <3>5. QED
      BY <1>1, <3>2, <3>4
  <2>2. CASE MoveAway
    <3>1. /\ UNCHANGED <<max_files, fd, lines, step, generations, filled, spoilt, setbacks>>
          /\ step = "none" /\ Log # None /\ moved' = moved \cup {Log}
          /\ disk' = [disk EXCEPT ![0]["plain"] = None]
      BY <2>2 DEF MoveAway, FileInv, Cursor
    <3>2. Log' = None /\ \A n \in Slots \ {0} : disk'[n] = disk[n]
      BY <1>1, <3>1 DEF Log, Extensions
    <3>3. Log = generations /\ generations # 0 /\ Pending = 0
      BY <3>1 DEF KeptInv, LogKnown, None, Pending, Zips
    <3>4. LogKnown'
      BY <1>1, <3>1, <3>2, <3>3 DEF LogKnown, KeptInv, None
    <3>5. Past' = Past
      BY <1>1, <3>1, <3>2 DEF LogKnown, KeptInv, None, Past
    <3>6. QED
      BY <1>1, <3>1, <3>2, <3>3, <3>4, <3>5
  <2>3. CASE Reopen
    <3>1. /\ UNCHANGED <<max_files, filled, moved, setbacks>> /\ Pending = 0
          /\ lines' \in Nat /\ (step' = "write" => fd' # None)
      BY <2>3 DEF Reopen, Pending, Zips, KeptInv, LogKnown
    <3>2. CASE UNCHANGED <<disk, generations, spoilt>>
      <4>1. Log' = Log
        BY <3>2 DEF Log
      <4>2. fd' # None => /\ Log # None => fd' = Log
                          /\ fd' \in filled' \cup moved' \cup {Log}
                          /\ lines' > 0 => fd' \in filled'
        BY <1>1, <2>3, <3>1, <3>2 DEF Reopen, KeptInv, LogKnown
      <4>3. LogKnown' /\ Past' = Past
        BY <1>1, <3>1, <3>2, <4>1, <4>2 DEF LogKnown, Past, KeptInv
      <4>4. QED
        BY <1>1, <3>1, <3>2, <4>3
    <3>3. CASE /\ generations' = generations + 1 /\ fd' = generations' /\ lines' = 0
               /\ disk' = [disk EXCEPT ![0]["plain"] = fd']
               /\ spoilt' = spoilt \cup ({Log} \ {None})
      <4>1. Log' = generations + 1 /\ \A n \in Slots \ {0} : disk'[n] = disk[n]
        BY <1>1, <3>3 DEF Log, Extensions
      <4>2. generations + 1 \notin filled \cup moved \cup spoilt \cup {Log}
        BY <1>1 DEF KeptInv, LogKnown, None
      <4>3. \A n \in Slots \ {0}, e \in Extensions : disk'[n][e] # Log'
        BY <1>1, <4>1
      <4>4. LogKnown'
        <5>1. filled' \cup moved' \cup spoilt' \subseteq 1 .. generations'
          BY <1>1, <3>1, <3>3 DEF KeptInv, LogKnown, None
        <5>2. Log' \notin moved' \cup spoilt'
          BY <3>1, <3>3, <4>1, <4>2
        <5>3. QED
          BY <1>1, <3>1, <3>3, <4>1, <4>3, <5>1, <5>2 DEF LogKnown
      <4>5. Past' = Past
        <5>1. None \notin filled
          BY <1>1 DEF KeptInv, LogKnown, None
        <5>2. QED
          BY <3>1, <3>3, <4>1, <4>2, <5>1 DEF Past
      <4>6. QED
        BY <1>1, <3>1, <4>1, <4>4, <4>5
    <3>4. QED
      BY <2>3, <3>2, <3>3 DEF Reopen
  <2>4. QED
    BY <2>1, <2>2, <2>3
<1>3. step' \notin Zips /\ step' # "rotate"
  BY <1>1 DEF Zips
<1>4. QED
  BY <1>2, <1>3, BackupsStay

(* The last max_files logs are there after any number of rotations, zips,  *)
(* renames and opens that fail and processes that die, but for one per     *)
(* setback: rotate() removes nothing but what is in the last slot, and     *)
(* what it finds above (report.cpp:474-560), and a zip replaces its source *)
(* only when it is complete.                                               *)
THEOREM LogsKept == FileSpec => []Kept
<1>1. FileInit => KeptInv
  <2> SUFFICES ASSUME FileInit PROVE KeptInv
    OBVIOUS
  <2>1. \A n \in Slots, e \in Extensions : disk[n][e] = None
    BY DEF FileInit
  <2>2. Log = None /\ Past = {}
    BY <2>1, SlotsBelow DEF Log, Past, FileInit, Extensions
  <2>3. Placed
    BY <2>1 DEF Placed, None
  <2>4. LogKnown
    BY <2>2 DEF FileInit, LogKnown, None, Pending, Zips
  <2>5. QED
    BY <2>2, <2>3, <2>4 DEF KeptInv
<1>2. FileInv /\ FileInv' /\ KeptInv /\ [FileNext]_fileVars => KeptInv'
  <2> SUFFICES ASSUME FileInv, FileInv', KeptInv, [FileNext]_fileVars PROVE KeptInv'
    OBVIOUS
  <2>1. CASE UNCHANGED fileVars
    BY <2>1 DEF KeptInv, LogKnown, Placed, Past, Newer, Pending, Droppable, Held, Apart, Found,
                Log, fileVars
  <2>2. QED
    BY <2>1, CallsKeep, OthersKeep, RotateKeeps, ZipKeeps, TrimKeeps DEF FileNext
<1>3. FileInv /\ KeptInv => Kept
  <2> SUFFICES ASSUME FileInv, KeptInv, job = "none" PROVE Kept
    BY DEF Kept
  <2>1. Pending = 0
    BY DEF FileInv, Cursor, Pending, Zips
  <2>2. ASSUME NEW g \in Past, Cardinality({h \in Past : h > g}) < max_files - setbacks
        PROVE  Intact(g)
    <3>1. ~ Droppable(g)
      <4>1. Newer(g) \in Nat /\ setbacks \in Nat /\ max_files \in Nat
        BY NewerIs, KeptTypes DEF KeptInv
      <4>2. Newer(g) < max_files - setbacks
        BY <2>2 DEF Newer
      <4>3. QED
        BY <2>1, <4>1, <4>2 DEF Droppable
    <3>2. Held(g)
      BY <3>1 DEF KeptInv
    <3>3. QED
      BY <3>2 DEF Held, Found, Intact
  <2>3. QED
    BY <2>2 DEF Kept, Past
<1>4. QED
  BY <1>1, <1>2, <1>3, FilesInOrder, PTL DEF FileSpec
=============================================================================
