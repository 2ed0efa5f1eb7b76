------------------------------ MODULE LineProofs ------------------------------
(***************************************************************************)
(* A theorem about LineReaderWriter, for any characters and delimiters,    *)
(* any text and a buffer of any size.                                      *)
(***************************************************************************)
EXTENDS UtilitiesProofs, SequenceTheorems

(* A step that is repeated until it is time to stop: whether it ever is or *)
(* not, some function says where that ends.                                *)
WhereItEnds(G, S, stop, next) ==
  \A s \in S : G[s] = IF s \in stop THEN s ELSE G[next[s]]

LEMMA Repeated ==
  ASSUME NEW S, NEW stop \in SUBSET S, NEW next \in [S -> S]
  PROVE  \E G \in [S -> S] : WhereItEnds(G, S, stop, next)
<1> DEFINE Path(k) == {t \in [0 .. k -> S] :
                         \A i \in 0 .. k - 1 : t[i] \notin stop /\ t[i + 1] = next[t[i]]}
           Chain(a, r) == \E n \in Nat : \E t \in Path(n) : t[0] = a /\ t[n] = r
           Ends(a) == {r \in stop : Chain(a, r)}
           Pick(ends) == IF ends = {} THEN CHOOSE s \in S : TRUE ELSE CHOOSE r \in ends : TRUE
           G == [s \in S |-> Pick(Ends(s))]
<1>1. ASSUME NEW s \in stop PROVE Ends(s) = {s}
  <2>1. Chain(s, s)
    <3> DEFINE t == [i \in 0 .. 0 |-> s]
    <3>1. t \in Path(0)
      BY s \in S
    <3>2. t[0] = s
      OBVIOUS
    <3>3. QED
      BY <3>1, <3>2
  <2>2. ASSUME NEW r \in stop, Chain(s, r) PROVE r = s
    <3>1. PICK n \in Nat : \E t \in Path(n) : t[0] = s /\ t[n] = r
      BY <2>2
    <3>11. PICK t \in Path(n) : t[0] = s /\ t[n] = r
      BY <3>1
    <3>2. n = 0
      BY <3>11
    <3>3. QED
      BY <3>11, <3>2
  <2>3. QED
    BY <2>1, <2>2
<1>2. ASSUME NEW s \in S \ stop PROVE Ends(s) = Ends(next[s])
  <2>1. ASSUME NEW r \in stop, Chain(s, r) PROVE Chain(next[s], r)
    <3>1. PICK n \in Nat : \E t \in Path(n) : t[0] = s /\ t[n] = r
      BY <2>1
    <3>11. PICK t \in Path(n) : t[0] = s /\ t[n] = r
      BY <3>1
    <3>2. n # 0 /\ n - 1 \in Nat
      BY <3>11
    <3> DEFINE u == [i \in 0 .. n - 1 |-> t[i + 1]]
    <3>3. u \in Path(n - 1)
      BY <3>11, <3>2
    <3>4. u[0] = next[s] /\ u[n - 1] = r
      BY <3>11, <3>2
    <3>5. QED
      BY <3>2, <3>3, <3>4
  <2>2. ASSUME NEW r \in stop, Chain(next[s], r) PROVE Chain(s, r)
    <3>1. PICK n \in Nat : \E t \in Path(n) : t[0] = next[s] /\ t[n] = r
      BY <2>2
    <3>11. PICK t \in Path(n) : t[0] = next[s] /\ t[n] = r
      BY <3>1
    <3> DEFINE u == [i \in 0 .. n + 1 |-> IF i = 0 THEN s ELSE t[i - 1]]
    <3>2. u \in [0 .. n + 1 -> S]
      BY <3>11
    <3>3. ASSUME NEW i \in 0 .. n PROVE u[i] \notin stop /\ u[i + 1] = next[u[i]]
      BY <3>11
    <3>4. u \in Path(n + 1) /\ u[0] = s /\ u[n + 1] = r
      BY <3>11, <3>2, <3>3
    <3>5. QED
      BY <3>4
  <2>3. QED
    BY <2>1, <2>2
<1> HIDE DEF Ends
<1>3. \A s \in S : Pick(Ends(s)) \in S
  <2> TAKE s \in S
  <2>1. Ends(s) \subseteq S
    BY DEF Ends
  <2>2. QED
    BY <2>1
<1>4. G \in [S -> S]
  BY <1>3
<1>5. ASSUME NEW s \in S PROVE G[s] = IF s \in stop THEN s ELSE G[next[s]]
  <2>1. CASE s \in stop
    <3>1. Pick({s}) = s
      OBVIOUS
    <3>2. QED
      BY <1>1, <2>1, <3>1
  <2>2. CASE s \notin stop
    <3>1. next[s] \in S
      OBVIOUS
    <3>2. Ends(s) = Ends(next[s])
      BY <1>2, <2>2
    <3>3. G[s] = Pick(Ends(s)) /\ G[next[s]] = Pick(Ends(next[s]))
      BY <3>1
    <3> HIDE DEF Pick, G
    <3>4. QED
      BY <2>2, <3>2, <3>3
  <2>3. QED
    BY <2>1, <2>2
<1>6. QED
  BY <1>4, <1>5 DEF WhereItEnds

-----------------------------------------------------------------------------
(* One turn of getLine(), or the buffer filled.                            *)
Stops == {s \in Scans : s.found \/ (s.ahead = <<>> /\ Filled(s).ahead = <<>>)}
Onward(s) == IF s.ahead = <<>> THEN Filled(s) ELSE Turn(s)

LineTypeOK ==
  /\ delims \in Delimiters
  /\ text \in Seq(Chars)
  /\ reading \in BOOLEAN /\ found \in BOOLEAN /\ broken \in BOOLEAN
  /\ position \in Nat
  /\ ahead \in Seq(Chars)
  /\ offset \in Int

LEMMA Pieces ==
  ASSUME NEW q \in Seq(Chars), NEW n \in Nat
  PROVE  /\ From(q, n) \in Seq(Chars) /\ Left(q, n) \in Seq(Chars)
         /\ Len(Left(q, n)) = (IF n < Len(q) THEN n ELSE Len(q))
         /\ Len(From(q, n)) = (IF n < Len(q) THEN Len(q) - n ELSE 0)
         /\ \A i \in 1 .. Len(Left(q, n)) : Left(q, n)[i] = q[i]
         /\ \A i \in 1 .. Len(From(q, n)) : From(q, n)[i] = q[n + i]
BY DEF From, Left, Lesser

LEMMA FilledIs ==
  ASSUME LineTypeOK, NEW s \in Scans
  PROVE  /\ Filled(s) \in Scans
         /\ Filled(s).line = s.line /\ Filled(s).first = s.first /\ Filled(s).found = s.found
         /\ Filled(s).ahead = Left(Rest(s.position), BufferSize)
         /\ Filled(s).position = s.position + Len(Filled(s).ahead)
<1> DEFINE more == Left(Rest(s.position), BufferSize)
<1>1. more \in Seq(Chars)
  BY Pieces, LineAssumption DEF Rest, Scans, LineTypeOK
<1> HIDE DEF more
<1>2. Filled(s) = [s EXCEPT !.ahead = more, !.position = @ + Len(more)]
  BY DEF Filled, more
<1>3. s.position + Len(more) \in Nat
  BY <1>1 DEF Scans
<1>4. QED
  BY <1>1, <1>2, <1>3 DEF Scans, more

(* The numbers of a turn: where the first delimiter is, how many bytes are *)
(* used, and whether the line ended.                                       *)
LEMMA SearchFinds ==
  ASSUME NEW b \in Seq(Chars), NEW n \in Nat
  PROVE  \/ /\ Search(b, n) = 0
            /\ \A i \in n + 1 .. Len(b) : b[i] # delims[1]
         \/ /\ Search(b, n) \in n + 1 .. Len(b)
            /\ b[Search(b, n)] = delims[1]
            /\ \A i \in n + 1 .. Search(b, n) - 1 : b[i] # delims[1]
<1> DEFINE places == {i \in n + 1 .. Len(b) : b[i] = delims[1]}
<1>1. CASE places = {}
  BY <1>1 DEF Search
<1>2. CASE places # {}
  <2>1. places \in SUBSET Nat
    OBVIOUS
  <2>2. \E i \in places : \A j \in places : i <= j
    BY <1>2, <2>1, LeastOf
  <2>3. Search(b, n) = CHOOSE i \in places : \A j \in places : i <= j
    BY <1>2 DEF Search
  <2>4. Search(b, n) \in places /\ \A j \in places : Search(b, n) <= j
    BY <2>2, <2>3
  <2>5. QED
    BY <2>4
<1>3. QED
  BY <1>1, <1>2

TurnIs(s, second, pos, used, whole) ==
  /\ second = (s.first /\ s.ahead[1] = delims[2])
  /\ pos = Search(s.ahead, IF s.first THEN 1 ELSE 0)
  /\ used = (IF second THEN 1 ELSE IF pos = 0 THEN Len(s.ahead)
             ELSE IF delims[2] # NoChar /\ pos + 1 <= Len(s.ahead) THEN pos + 1 ELSE pos)
  /\ whole = (second \/ (pos # 0 /\ (\/ delims[2] = NoChar
                                     \/ pos + 1 <= Len(s.ahead) /\ s.ahead[pos + 1] = delims[2])))

LEMMA TurnParts ==
  ASSUME LineTypeOK, NEW s \in Scans, s.ahead # <<>>
  PROVE  \E second \in BOOLEAN, pos \in Nat, used \in Nat, whole \in BOOLEAN :
           /\ TurnIs(s, second, pos, used, whole)
           /\ used \in 1 .. Len(s.ahead)
           /\ Turn(s) \in Scans
           /\ Turn(s).ahead = From(s.ahead, used)
           /\ Turn(s).line = s.line \o Left(s.ahead, used)
           /\ Turn(s).position = s.position
           /\ Turn(s).first = (pos # 0 /\ ~ whole)
           /\ Turn(s).found = whole
<1> DEFINE second == s.first /\ s.ahead[1] = delims[2]
           pos == Search(s.ahead, IF s.first THEN 1 ELSE 0)
           pair == delims[2] # NoChar /\ pos + 1 <= Len(s.ahead)
           used == IF second THEN 1 ELSE IF pos = 0 THEN Len(s.ahead)
                   ELSE IF pair THEN pos + 1 ELSE pos
           either == (delims[2] = NoChar) \/ (pair /\ s.ahead[pos + 1] = delims[2])
           whole == second \/ (pos # 0 /\ either)
<1>1. s.ahead \in Seq(Chars) /\ s.line \in Seq(Chars) /\ Len(s.ahead) \in Nat \ {0}
  BY DEF Scans
<1>2. pos \in 0 .. Len(s.ahead)
  BY <1>1, SearchFinds
<1>3. used \in 1 .. Len(s.ahead) /\ whole \in BOOLEAN /\ second \in BOOLEAN
  BY <1>1, <1>2
<1>4. TurnIs(s, second, pos, used, whole)
  BY DEF TurnIs
<1>5. Turn(s) = [s EXCEPT !.ahead = From(s.ahead, used), !.line = s.line \o Left(s.ahead, used),
                          !.first = pos # 0 /\ ~ whole, !.found = whole]
  BY DEF Turn
<1> HIDE DEF second, pos, pair, used, either, whole
<1>6. /\ From(s.ahead, used) \in Seq(Chars) /\ s.line \o Left(s.ahead, used) \in Seq(Chars)
      /\ (pos # 0 /\ ~ whole) \in BOOLEAN
  BY <1>1, <1>3, Pieces
<1>7. Turn(s) \in Scans /\ Turn(s).position = s.position
  BY <1>3, <1>5, <1>6 DEF Scans
<1>8. /\ Turn(s).ahead = From(s.ahead, used)
      /\ Turn(s).line = s.line \o Left(s.ahead, used)
      /\ Turn(s).first = (pos # 0 /\ ~ whole)
      /\ Turn(s).found = whole
  BY <1>5 DEF Scans
<1>9. pos \in Nat /\ used \in Nat
  BY <1>1, <1>2, <1>3
<1>10. QED
  BY <1>3, <1>4, <1>7, <1>8, <1>9

LEMMA TurnsIs ==
  ASSUME LineTypeOK, NEW s \in Scans
  PROVE  /\ Onward(s) \in Scans
         /\ Turns[s] = IF s \in Stops THEN s ELSE Turns[Onward(s)]
<1>1. \A r \in Scans : Onward(r) \in Scans
  BY FilledIs, TurnParts DEF Onward
<1> DEFINE next == [r \in Scans |-> Onward(r)]
<1>2. next \in [Scans -> Scans] /\ Stops \in SUBSET Scans
  BY <1>1 DEF Stops
<1>8. \A r \in Scans : next[r] = Onward(r)
  OBVIOUS
<1> HIDE DEF next
<1>3. PICK G \in [Scans -> Scans] : WhereItEnds(G, Scans, Stops, next)
  BY <1>2, Repeated
<1> DEFINE Fixed(f) == f = [r \in Scans |->
                              IF r.found \/ (r.ahead = <<>> /\ Filled(r).ahead = <<>>) THEN r
                              ELSE f[IF r.ahead = <<>> THEN Filled(r) ELSE Turn(r)]]
<1>4. Fixed(G)
  <2>1. \A r \in Scans : G[r] = IF r.found \/ (r.ahead = <<>> /\ Filled(r).ahead = <<>>) THEN r
                                ELSE G[IF r.ahead = <<>> THEN Filled(r) ELSE Turn(r)]
    BY <1>3, <1>8 DEF Stops, Onward, WhereItEnds
  <2>2. G = [r \in Scans |-> G[r]]
    BY <1>3
  <2>3. QED
    BY <2>1, <2>2
<1>5. Turns = CHOOSE f : Fixed(f)
  BY DEF Turns
<1>6. Fixed(Turns)
  BY <1>4, <1>5
<1>7. QED
  BY <1>1, <1>6 DEF Stops, Onward

-----------------------------------------------------------------------------
(* What has been scanned of a line that begins after `from` bytes.         *)

At(s, from) == from + Len(s.line)

(* It is the text from there, and the buffer what comes next.              *)
OfText(s, from) ==
  /\ s \in Scans
  /\ At(s, from) + Len(s.ahead) = s.position /\ s.position <= Len(text)
  /\ \A i \in 1 .. Len(s.line) : s.line[i] = text[from + i]
  /\ \A i \in 1 .. Len(s.ahead) : s.ahead[i] = text[At(s, from) + i]

EndsAt(from, i) ==
  IF delims[2] = NoChar THEN i >= from + 1 /\ text[i] = delims[1]
  ELSE i >= from + 2 /\ text[i - 1] = delims[1] /\ text[i] = delims[2]

(* It did not end before; and a first delimiter is remembered.             *)
UpToHere(s, from) ==
  /\ s.found => EndsAt(from, At(s, from))
  /\ \A i \in from + 1 .. At(s, from) : EndsAt(from, i) => s.found /\ i = At(s, from)
  /\ s.first => delims[2] # NoChar /\ Len(s.line) >= 1 /\ text[At(s, from)] = delims[1]
  /\ delims[2] # NoChar /\ ~ s.first /\ ~ s.found =>
       Len(s.line) = 0 \/ text[At(s, from)] # delims[1]

LEMMA FillGoesOn ==
  ASSUME LineTypeOK, NEW from \in Nat, NEW s, OfText(s, from), s.ahead = <<>>,
         Filled(s).ahead # <<>>
  PROVE  /\ OfText(Filled(s), from)
         /\ UpToHere(s, from) => UpToHere(Filled(s), from)
         /\ Filled(s).position > s.position
<1>1. /\ s \in Scans /\ s.position \in Nat /\ s.line \in Seq(Chars) /\ s.ahead = <<>>
      /\ text \in Seq(Chars)
      /\ At(s, from) = s.position /\ s.position <= Len(text) /\ BufferSize \in Nat
      /\ \A i \in 1 .. Len(s.line) : s.line[i] = text[from + i]
  BY LineAssumption DEF OfText, Scans, LineTypeOK, At
<1>2. /\ Filled(s) \in Scans
      /\ Filled(s).line = s.line /\ Filled(s).first = s.first /\ Filled(s).found = s.found
      /\ Filled(s).ahead = Left(Rest(s.position), BufferSize)
      /\ Filled(s).position = s.position + Len(Filled(s).ahead)
  BY <1>1, FilledIs
<1> DEFINE rest == Rest(s.position)
           more == Left(rest, BufferSize)
<1>3. /\ rest \in Seq(Chars) /\ Len(rest) = Len(text) - s.position
      /\ \A i \in 1 .. Len(rest) : rest[i] = text[s.position + i]
  BY <1>1, Pieces DEF Rest
<1> HIDE DEF rest
<1>4. /\ more \in Seq(Chars) /\ Len(more) <= Len(rest)
      /\ \A i \in 1 .. Len(more) : more[i] = rest[i]
  BY <1>1, <1>3, Pieces
<1> HIDE DEF more
<1>5. Len(more) \in Nat /\ Len(rest) \in Nat /\ Filled(s).ahead = more
  BY <1>2, <1>3, <1>4 DEF more, rest
<1>6. Len(more) > 0
  BY <1>4, <1>5
<1>7. At(Filled(s), from) = At(s, from)
  BY <1>2 DEF At
<1>8. OfText(Filled(s), from)
  BY <1>1, <1>2, <1>3, <1>4, <1>5, <1>7 DEF OfText
<1>9. UpToHere(s, from) => UpToHere(Filled(s), from)
  BY <1>2, <1>7 DEF UpToHere
<1>10. QED
  BY <1>1, <1>2, <1>5, <1>6, <1>8, <1>9

(* The end of a line in one turn, in numbers: `count` bytes of it before,  *)
(* the buffer of `size` bytes behind them, of which the turn uses `used`.  *)
(* After a first delimiter, the second one is the byte that follows.       *)
NoEnd(from, high) == \A i \in from + 1 .. high : ~ EndsAt(from, i)
OnlyEnd(from, i) == EndsAt(from, i) /\ NoEnd(from, i - 1)
Buffers(buffer, size, here) == \A j \in 1 .. size : buffer[j] = text[here + j]
Paired(total) == \A i \in 1 .. total - 1 : text[i] = delims[1] => text[i + 1] = delims[2]

LEMMA SecondDelimiter ==
  ASSUME NEW from \in Nat, NEW here \in Nat, NEW size \in Nat, NEW total \in Nat, NEW buffer,
         here >= from + 1, size >= 1, here + size <= total,
         Buffers(buffer, size, here),
         delims[2] # NoChar, Paired(total), text[here] = delims[1], NoEnd(from, here)
  PROVE  buffer[1] = delims[2] /\ OnlyEnd(from, here + 1)
<1>1. text[here + 1] = delims[2] /\ buffer[1] = delims[2]
  <2>1. here \in 1 .. total - 1 /\ 1 \in 1 .. size
    OBVIOUS
  <2>2. QED
    BY <2>1 DEF Paired, Buffers
<1>2. EndsAt(from, here + 1)
  BY <1>1 DEF EndsAt
<1>3. (here + 1) - 1 = here
  OBVIOUS
<1>4. QED
  BY <1>1, <1>2, <1>3 DEF OnlyEnd

(* Without one before, the line ends where the buffer has its first        *)
(* delimiters; `limit` is how many bytes come before.                      *)
LEMMA NothingBefore ==
  ASSUME NEW from \in Nat, NEW here \in Nat, NEW limit \in Nat, here >= from,
         NoEnd(from, here), \A j \in 1 .. limit : text[here + j] # delims[1],
         delims[2] # NoChar => here = from \/ text[here] # delims[1]
  PROVE  /\ NoEnd(from, here + limit)
         /\ delims[2] # NoChar => NoEnd(from, here + limit + 1)
<1>1. ASSUME NEW i \in from + 1 .. here + limit, EndsAt(from, i) PROVE FALSE
  <2>1. i \in Int /\ ~ (i \in from + 1 .. here) /\ i \in here + 1 .. here + limit
    BY <1>1 DEF NoEnd
  <2>2. text[i] # delims[1]
    <3>1. i - here \in 1 .. limit /\ here + (i - here) = i
      BY <2>1
    <3>2. QED
      BY <3>1
  <2>3. delims[2] # NoChar /\ i >= from + 2 /\ text[i - 1] = delims[1]
    BY <1>1, <2>2 DEF EndsAt
  <2>4. i - 1 # here
    BY <2>1, <2>3
  <2>5. i - 1 - here \in 1 .. limit /\ here + (i - 1 - here) = i - 1
    BY <2>1, <2>4
  <2>6. QED
    BY <2>3, <2>5
<1>2. ASSUME delims[2] # NoChar, NEW i \in from + 1 .. here + limit + 1, EndsAt(from, i)
      PROVE  FALSE
  <2>1. i = here + limit + 1 /\ i \in Int
    BY <1>1, <1>2
  <2>2. i >= from + 2 /\ text[i - 1] = delims[1]
    BY <1>2 DEF EndsAt
  <2>3. i - 1 = here + limit
    BY <2>1
  <2>4. CASE limit = 0
    BY <1>2, <2>1, <2>2, <2>3, <2>4
  <2>5. CASE limit # 0
    BY <2>2, <2>3, <2>5
  <2>6. QED
    BY <2>4, <2>5
<1>3. QED
  BY <1>1, <1>2 DEF NoEnd

LEMMA FirstDelimiter ==
  ASSUME NEW from \in Nat, NEW here \in Nat, NEW size \in Nat, NEW total \in Nat, NEW buffer,
         NEW pos \in 1 .. size, here >= from, here + size <= total,
         Buffers(buffer, size, here),
         delims[2] # NoChar => Paired(total),
         NoEnd(from, here), delims[2] # NoChar => here = from \/ text[here] # delims[1],
         buffer[pos] = delims[1], \A j \in 1 .. pos - 1 : buffer[j] # delims[1]
  PROVE  /\ text[here + pos] = delims[1]
         /\ delims[2] = NoChar => OnlyEnd(from, here + pos)
         /\ delims[2] # NoChar => NoEnd(from, here + pos)
         /\ delims[2] # NoChar /\ pos + 1 <= size =>
              buffer[pos + 1] = delims[2] /\ OnlyEnd(from, here + pos + 1)
<1>1. text[here + pos] = delims[1]
  BY DEF Buffers
<1>2. pos - 1 \in Nat /\ \A j \in 1 .. pos - 1 : text[here + j] # delims[1]
  BY DEF Buffers
<1>3. here + (pos - 1) = here + pos - 1 /\ here + (pos - 1) + 1 = here + pos
  OBVIOUS
<1>4. /\ NoEnd(from, here + pos - 1)
      /\ delims[2] # NoChar => NoEnd(from, here + pos)
  <2>1. /\ NoEnd(from, here + (pos - 1))
        /\ delims[2] # NoChar => NoEnd(from, here + (pos - 1) + 1)
    BY <1>2, NothingBefore
  <2>2. QED
    BY <1>3, <2>1
<1>5. delims[2] = NoChar => EndsAt(from, here + pos)
  BY <1>1 DEF EndsAt
<1>6. ASSUME delims[2] # NoChar, pos + 1 <= size
      PROVE  buffer[pos + 1] = delims[2] /\ OnlyEnd(from, here + pos + 1)
  <2>1. here + pos \in 1 .. total - 1 /\ pos + 1 \in 1 .. size /\ here + (pos + 1) = here + pos + 1
    BY <1>6
  <2>2. text[here + pos + 1] = delims[2]
    BY <1>1, <1>6, <2>1 DEF Paired
  <2>3. here + pos + 1 >= from + 2 /\ (here + pos + 1) - 1 = here + pos
    OBVIOUS
  <2>4. EndsAt(from, here + pos + 1)
    BY <1>1, <1>6, <2>2, <2>3 DEF EndsAt
  <2>5. QED
    BY <1>4, <1>6, <2>1, <2>2, <2>3, <2>4 DEF OnlyEnd, Buffers
<1>7. QED
  BY <1>1, <1>4, <1>5, <1>6 DEF OnlyEnd

LEMMA TurnIsOfText ==
  ASSUME LineTypeOK, NEW from \in Nat, NEW s, OfText(s, from), NEW used \in 1 .. Len(s.ahead),
         Turn(s) \in Scans, Turn(s).ahead = From(s.ahead, used),
         Turn(s).line = s.line \o Left(s.ahead, used), Turn(s).position = s.position
  PROVE  /\ OfText(Turn(s), from) /\ At(Turn(s), from) = At(s, from) + used
         /\ Len(Turn(s).ahead) = Len(s.ahead) - used
<1>1. PICK buffer \in Seq(Chars), before \in Seq(Chars), count \in Nat, size \in Nat, here \in Nat :
           /\ buffer = s.ahead /\ before = s.line /\ count = Len(before) /\ size = Len(buffer)
           /\ here = At(s, from)
  BY DEF OfText, Scans, At
<1>2. /\ count \in Nat /\ size \in Nat /\ here \in Nat
      /\ here = from + count /\ here + size = s.position /\ s.position <= Len(text)
      /\ \A i \in 1 .. count : before[i] = text[from + i]
      /\ \A i \in 1 .. size : buffer[i] = text[here + i]
      /\ used \in 1 .. size
  BY <1>1 DEF OfText, At
<1>3. PICK l \in Seq(Chars), after \in Seq(Chars), both \in Seq(Chars) :
           l = Left(buffer, used) /\ after = From(buffer, used) /\ both = before \o l
  <2>1. used \in Nat /\ buffer \in Seq(Chars) /\ before \in Seq(Chars)
    BY <1>1, <1>2
  <2>2. Left(buffer, used) \in Seq(Chars) /\ From(buffer, used) \in Seq(Chars)
    BY <2>1, Pieces
  <2>3. before \o Left(buffer, used) \in Seq(Chars)
    BY <2>1, <2>2
  <2>4. QED
    BY <2>2, <2>3
<1>4. Turn(s).ahead = after /\ Turn(s).line = both
  BY <1>1, <1>3
<1>5. /\ Len(l) = used /\ \A i \in 1 .. used : l[i] = buffer[i]
      /\ Len(after) = size - used /\ \A i \in 1 .. size - used : after[i] = buffer[used + i]
  <2>1. used \in Nat /\ (IF used < size THEN used ELSE size) = used
        /\ (IF used < size THEN size - used ELSE 0) = size - used
    BY <1>2
  <2>2. buffer \in Seq(Chars) /\ Len(buffer) = size
    BY <1>1
  <2>3. /\ Len(l) = used /\ Len(after) = size - used
        /\ \A i \in 1 .. Len(l) : l[i] = buffer[i]
        /\ \A i \in 1 .. Len(after) : after[i] = buffer[used + i]
    <3>1. used \in Nat
      BY <2>1
    <3>2. Len(l) = used /\ \A i \in 1 .. Len(l) : l[i] = buffer[i]
      BY <1>3, <2>1, <2>2, <3>1, Pieces
    <3>3. Len(after) = size - used
      BY <1>3, <2>1, <2>2, <3>1, Pieces
    <3>5. \A i \in 1 .. Len(after) : after[i] = buffer[used + i]
      <4>1. \A i \in 1 .. Len(From(buffer, used)) : From(buffer, used)[i] = buffer[used + i]
        BY <2>2, <3>1, Pieces
      <4>2. QED
        BY <1>3, <4>1
    <3>4. QED
      BY <3>2, <3>3, <3>5
  <2>4. QED
    BY <2>3
<1>6. /\ Len(both) = count + used /\ \A i \in 1 .. count : both[i] = before[i]
      /\ \A i \in 1 .. used : both[count + i] = l[i]
  <2>1. before \in Seq(Chars) /\ l \in Seq(Chars) /\ both = before \o l
        /\ Len(before) = count /\ Len(l) = used
    BY <1>1, <1>3, <1>5
  <2>2. /\ Len(both) = Len(before) + Len(l) /\ \A i \in 1 .. Len(before) : both[i] = before[i]
        /\ \A i \in 1 .. Len(l) : both[Len(before) + i] = l[i]
    <3>1. /\ Len(both) = Len(before) + Len(l)
          /\ \A i \in 1 .. Len(before) + Len(l) :
               both[i] = IF i <= Len(before) THEN before[i] ELSE l[i - Len(before)]
      BY <2>1, ConcatProperties
    <3>2. Len(before) \in Nat /\ Len(l) \in Nat
      BY <2>1
    <3>3. ASSUME NEW i \in 1 .. Len(l) PROVE both[Len(before) + i] = l[i]
      <4>1. /\ Len(before) + i \in 1 .. Len(before) + Len(l) /\ ~ (Len(before) + i <= Len(before))
            /\ (Len(before) + i) - Len(before) = i
        BY <3>2
      <4>2. QED
        BY <3>1, <4>1
    <3>4. QED
      BY <3>1, <3>2, <3>3
  <2>3. QED
    BY <2>1, <2>2
<1>7. \A i \in 1 .. count + used : both[i] = text[from + i]
  <2> TAKE i \in 1 .. count + used
  <2>1. CASE i <= count
    <3>1. i \in 1 .. count
      BY <1>1, <2>1
    <3>2. QED
      BY <1>2, <1>6, <3>1
  <2>2. CASE ~ (i <= count)
    <3>1. PICK k \in 1 .. used : i = count + k
      <4>1. count \in Nat /\ used \in Nat
        BY <1>2
      <4>2. i - count \in 1 .. used /\ i = count + (i - count)
        BY <2>2, <4>1
      <4>3. QED
        BY <4>2
    <3>2. both[i] = l[k] /\ l[k] = buffer[k]
      BY <1>5, <1>6, <3>1
    <3>3. k \in 1 .. size /\ here + k = from + i
      <4>1. /\ count \in Nat /\ size \in Nat /\ here \in Nat /\ from \in Nat
            /\ here = from + count /\ used \in 1 .. size
        BY <1>2
      <4>2. QED
        BY <3>1, <4>1
    <3>4. QED
      BY <1>2, <3>2, <3>3
  <2>3. QED
    BY <2>1, <2>2
<1>8. \A i \in 1 .. size - used : after[i] = text[here + used + i]
  <2> TAKE i \in 1 .. size - used
  <2>1. used + i \in 1 .. size /\ here + (used + i) = here + used + i
    BY <1>2
  <2>2. QED
    BY <1>2, <1>5, <2>1
<1>9. At(Turn(s), from) = here + used /\ here + used + (size - used) = s.position
  <2>1. At(Turn(s), from) = from + (count + used)
    BY <1>4, <1>6 DEF At
  <2>2. QED
    BY <1>2, <2>1
<1>10. QED
  BY <1>1, <1>2, <1>4, <1>5, <1>6, <1>7, <1>8, <1>9 DEF OfText

LEMMA TurnGoesOn ==
  ASSUME LineTypeOK, NEW from \in Nat, NEW s, OfText(s, from), s.ahead # <<>>, ~ s.found
  PROVE  /\ OfText(Turn(s), from)
         /\ Regular /\ UpToHere(s, from) => UpToHere(Turn(s), from)
         /\ Turn(s).position = s.position /\ Len(Turn(s).ahead) < Len(s.ahead)
<1>1. /\ s \in Scans /\ s.ahead \in Seq(Chars) /\ Len(s.ahead) \in Nat /\ text \in Seq(Chars)
      /\ Len(text) \in Nat
  BY DEF OfText, Scans, LineTypeOK
<1>2. PICK second \in BOOLEAN, pos \in Nat, used \in Nat, whole \in BOOLEAN :
           /\ TurnIs(s, second, pos, used, whole)
           /\ used \in 1 .. Len(s.ahead)
           /\ Turn(s) \in Scans
           /\ Turn(s).ahead = From(s.ahead, used)
           /\ Turn(s).line = s.line \o Left(s.ahead, used)
           /\ Turn(s).position = s.position
           /\ Turn(s).first = (pos # 0 /\ ~ whole)
           /\ Turn(s).found = whole
  BY <1>1, TurnParts
<1>3. /\ OfText(Turn(s), from) /\ At(Turn(s), from) = At(s, from) + used
      /\ Len(Turn(s).ahead) = Len(s.ahead) - used
  BY <1>2, TurnIsOfText
<1>4. ASSUME Regular, UpToHere(s, from) PROVE UpToHere(Turn(s), from)
  <2>1. PICK buffer \in Seq(Chars), size \in Nat, total \in Nat, count \in Nat, here \in Nat :
             /\ buffer = s.ahead /\ size = Len(buffer) /\ total = Len(text)
             /\ count = Len(s.line) /\ here = At(s, from)
    BY <1>1 DEF OfText, Scans, At
  <2>2. /\ size \in Nat /\ total \in Nat /\ count \in Nat /\ here \in Nat
        /\ here = from + count /\ here >= from /\ here + size <= total /\ size >= 1
        /\ used \in 1 .. size
        /\ \A i \in 1 .. size : buffer[i] = text[here + i]
    <3>1. here = from + count /\ here + size = s.position /\ s.position <= total
          /\ used \in 1 .. size
      BY <1>2, <2>1 DEF OfText, At
    <3>2. \A i \in 1 .. size : buffer[i] = text[here + i]
      BY <2>1 DEF OfText
    <3>3. size \in Nat /\ total \in Nat /\ count \in Nat /\ here \in Nat
      BY <2>1
    <3>4. QED
      BY <3>1, <3>2, <3>3
  <2>3. /\ NoEnd(from, here)
        /\ s.first => delims[2] # NoChar /\ count >= 1 /\ text[here] = delims[1]
        /\ delims[2] # NoChar /\ ~ s.first => count = 0 \/ text[here] # delims[1]
    BY <1>4, <2>1 DEF UpToHere, NoEnd
  <2>4. delims[2] # NoChar => Paired(total)
    BY <1>4, <2>1 DEF Regular, Paired
  <2>5. Len(Turn(s).line) \in Nat /\ At(Turn(s), from) = from + Len(Turn(s).line)
    <3>1. Turn(s).line \in Seq(Chars)
      BY <1>2 DEF Scans
    <3>2. QED
      BY <3>1 DEF At
  <2>6. At(Turn(s), from) = here + used /\ Len(Turn(s).line) >= 1
    BY <1>3, <2>1, <2>2, <2>5
  <2>7. SUFFICES /\ whole => OnlyEnd(from, here + used)
                 /\ ~ whole => NoEnd(from, here + used)
                 /\ pos # 0 /\ ~ whole => delims[2] # NoChar /\ text[here + used] = delims[1]
                 /\ delims[2] # NoChar /\ pos = 0 /\ ~ whole => text[here + used] # delims[1]
    <3>1. ASSUME whole => OnlyEnd(from, here + used),
                 ~ whole => NoEnd(from, here + used)
          PROVE  /\ whole => EndsAt(from, here + used)
                 /\ \A i \in from + 1 .. here + used :
                      EndsAt(from, i) => whole /\ i = here + used
      <4>1. here + used \in Nat
        BY <2>2
      <4>2. PICK end \in Nat : end = here + used
        BY <4>1
      <4>3. ASSUME NEW i \in from + 1 .. end, EndsAt(from, i) PROVE whole /\ i = end
        <5>1. CASE whole
          BY <3>1, <4>2, <4>3, <5>1 DEF OnlyEnd, NoEnd
        <5>2. CASE ~ whole
          BY <3>1, <4>2, <4>3, <5>2 DEF NoEnd
        <5>3. QED
          BY <5>1, <5>2
      <4>4. QED
        BY <3>1, <4>2, <4>3 DEF OnlyEnd
    <3>2. QED
      BY <1>2, <2>6, <3>1 DEF UpToHere
  <2>8. CASE s.first
    <3>1. delims[2] # NoChar /\ text[here] = delims[1] /\ here >= from + 1
      BY <2>2, <2>3, <2>8
    <3>2. buffer[1] = delims[2] /\ OnlyEnd(from, here + 1)
      <4>1. Paired(total)
        BY <2>4, <3>1
      <4>2. /\ here \in Nat /\ size \in Nat /\ total \in Nat /\ size >= 1
            /\ here + size <= total /\ NoEnd(from, here)
        BY <2>2, <2>3
      <4>3. Buffers(buffer, size, here)
        BY <2>2 DEF Buffers
      <4>4. QED
        BY <3>1, <4>1, <4>2, <4>3, SecondDelimiter
    <3>3. used = 1 /\ whole
      BY <1>2, <2>1, <2>8, <3>2 DEF TurnIs
    <3>4. QED
      BY <3>2, <3>3
  <2>9. CASE ~ s.first
    <3>1. /\ pos = Search(buffer, 0)
          /\ used = (IF pos = 0 THEN size
                     ELSE IF delims[2] # NoChar /\ pos + 1 <= size THEN pos + 1 ELSE pos)
          /\ whole = (pos # 0 /\ (\/ delims[2] = NoChar
                                  \/ /\ delims[2] # NoChar /\ pos + 1 <= size
                                     /\ buffer[pos + 1] = delims[2]))
      BY <1>2, <2>1, <2>9 DEF TurnIs
    <3>2. delims[2] # NoChar => here = from \/ text[here] # delims[1]
      BY <2>2, <2>3, <2>9
    <3>3. CASE pos = 0
      <4>1. \A j \in 1 .. size : buffer[j] # delims[1]
        BY <2>1, <3>1, <3>3, SearchFinds
      <4>2. \A j \in 1 .. size : text[here + j] # delims[1]
        BY <2>2, <4>1
      <4>3. NoEnd(from, here + size)
        BY <2>2, <2>3, <3>2, <4>2, NothingBefore
      <4>4. used = size /\ ~ whole /\ size \in 1 .. size
        BY <2>2, <3>1, <3>3
      <4>5. QED
        BY <3>3, <4>2, <4>3, <4>4
    <3>4. CASE pos # 0
      <4>1. /\ pos \in 1 .. size /\ buffer[pos] = delims[1]
            /\ \A j \in 1 .. pos - 1 : buffer[j] # delims[1]
        BY <2>1, <3>1, <3>4, SearchFinds
      <4>2. /\ text[here + pos] = delims[1]
            /\ delims[2] = NoChar => OnlyEnd(from, here + pos)
            /\ delims[2] # NoChar => NoEnd(from, here + pos)
            /\ delims[2] # NoChar /\ pos + 1 <= size =>
                 buffer[pos + 1] = delims[2] /\ OnlyEnd(from, here + pos + 1)
        <5>1. /\ here \in Nat /\ size \in Nat /\ total \in Nat /\ here >= from
              /\ here + size <= total /\ NoEnd(from, here)
          BY <2>2, <2>3
        <5>2. Buffers(buffer, size, here)
          BY <2>2 DEF Buffers
        <5>3. QED
          BY <2>4, <3>2, <4>1, <5>1, <5>2, FirstDelimiter
      <4>3. here + (pos + 1) = here + pos + 1
        BY <2>1
      <4>4. QED
        BY <3>1, <3>4, <4>2, <4>3
    <3>5. QED
      BY <3>3, <3>4
  <2>10. QED
    BY <2>8, <2>9
<1>5. QED
  BY <1>1, <1>2, <1>3, <1>4

-----------------------------------------------------------------------------
(* A scan ends, and where it says. What is left of the text and of the     *)
(* buffer becomes less with each turn.                                     *)
Remaining(s) == 2 * (Len(text) - s.position) + Len(s.ahead)

Scanned(s, from) ==
  /\ OfText(Turns[s], from)
  /\ Turns[s] \in Stops
  /\ Regular /\ UpToHere(s, from) => UpToHere(Turns[s], from)

LEMMA LessRemains ==
  ASSUME LineTypeOK, NEW from \in Nat, NEW s \in Scans \ Stops, OfText(s, from)
  PROVE  /\ OfText(Onward(s), from) /\ Remaining(Onward(s)) < Remaining(s)
         /\ Regular /\ UpToHere(s, from) => UpToHere(Onward(s), from)
<1>1. ~ s.found
  BY DEF Stops
<1>2. CASE s.ahead = <<>>
  <2>1. Filled(s).ahead # <<>> /\ Onward(s) = Filled(s)
    BY <1>2 DEF Stops, Onward
  <2>2. /\ OfText(Filled(s), from) /\ Filled(s).position > s.position
        /\ UpToHere(s, from) => UpToHere(Filled(s), from)
    BY <1>2, <2>1, FillGoesOn
  <2>3. PICK total \in Nat, p \in Nat, q \in Nat, m \in Nat :
             /\ total = Len(text) /\ p = s.position /\ q = Filled(s).position
             /\ m = Len(Filled(s).ahead)
    BY <2>2 DEF OfText, Scans, LineTypeOK
  <2>4. q = p + m
    BY <2>3, FilledIs
  <2>5. Len(s.ahead) = 0
    BY <1>2
  <2>6. 2 * (total - q) + m < 2 * (total - p) + 0
    <3>1. total \in Nat /\ p \in Nat /\ q \in Nat /\ m \in Nat /\ q > p
      BY <2>2, <2>3
    <3>2. QED
      BY <2>4, <3>1
  <2>7. Remaining(Filled(s)) < Remaining(s)
    BY <2>3, <2>5, <2>6 DEF Remaining
  <2>8. QED
    BY <2>1, <2>2, <2>7
<1>3. CASE s.ahead # <<>>
  <2>1. Onward(s) = Turn(s)
    BY <1>3 DEF Onward
  <2>2. /\ OfText(Turn(s), from) /\ Turn(s).position = s.position
        /\ Len(Turn(s).ahead) < Len(s.ahead)
        /\ Regular /\ UpToHere(s, from) => UpToHere(Turn(s), from)
    BY <1>1, <1>3, TurnGoesOn
  <2>3. PICK total \in Nat, p \in Nat, m \in Nat, n \in Nat :
             /\ total = Len(text) /\ p = s.position /\ m = Len(Turn(s).ahead)
             /\ n = Len(s.ahead)
    BY <2>2 DEF OfText, Scans, LineTypeOK
  <2>4. 2 * (total - p) + m < 2 * (total - p) + n
    BY <2>2, <2>3
  <2>5. QED
    BY <2>1, <2>2, <2>3, <2>4 DEF Remaining
<1>4. QED
  BY <1>2, <1>3

LEMMA ScanEnds ==
  ASSUME LineTypeOK, NEW from \in Nat, NEW s, OfText(s, from)
  PROVE  Scanned(s, from)
<1> DEFINE Bad == {m \in Nat : \E r \in Scans : /\ OfText(r, from) /\ Remaining(r) = m
                                                 /\ ~ Scanned(r, from)}
<1>1. ASSUME NEW r, OfText(r, from) PROVE r \in Scans /\ Remaining(r) \in Nat
  <2>1. /\ r \in Scans /\ r.position \in Nat /\ Len(r.ahead) \in Nat /\ r.position <= Len(text)
        /\ Len(text) \in Nat
    BY <1>1 DEF OfText, Scans, LineTypeOK
  <2>2. Len(text) - r.position \in Nat
    BY <2>1
  <2>3. QED
    BY <2>1, <2>2 DEF Remaining
<1>2. Bad = {}
  <2> SUFFICES ASSUME Bad # {} PROVE FALSE
    OBVIOUS
  <2>1. PICK m \in Bad : \A k \in Bad : m <= k
    BY LeastOf
  <2>2. PICK r \in Scans : OfText(r, from) /\ Remaining(r) = m /\ ~ Scanned(r, from)
    BY <2>1
  <2>3. Turns[r] = IF r \in Stops THEN r ELSE Turns[Onward(r)]
    BY TurnsIs
  <2>4. CASE r \in Stops
    BY <2>2, <2>3, <2>4 DEF Scanned
  <2>5. CASE r \notin Stops
    <3>1. /\ OfText(Onward(r), from) /\ Remaining(Onward(r)) < Remaining(r)
          /\ Regular /\ UpToHere(r, from) => UpToHere(Onward(r), from)
      BY <2>2, <2>5, LessRemains
    <3>2. Onward(r) \in Scans /\ Remaining(Onward(r)) \in Nat /\ Remaining(r) \in Nat
      BY <1>1, <2>2, <3>1
    <3>3. Remaining(Onward(r)) \notin Bad
      BY <2>1, <2>2, <3>1, <3>2
    <3>4. Scanned(Onward(r), from)
      BY <3>1, <3>2, <3>3
    <3>5. QED
      BY <2>2, <2>3, <2>5, <3>1, <3>4 DEF Scanned
  <2>6. QED
    BY <2>4, <2>5
<1>3. QED
  BY <1>1, <1>2

-----------------------------------------------------------------------------
(* Bytes that are those of the text from a place on.                       *)
InText(bytes, from) ==
  /\ bytes \in Seq(Chars) /\ from + Len(bytes) <= Len(text)
  /\ \A i \in 1 .. Len(bytes) : bytes[i] = text[from + i]

LEMMA InTextIs ==
  ASSUME LineTypeOK, NEW from \in Nat, NEW bytes, InText(bytes, from)
  PROVE  bytes = SubSeq(text, from + 1, from + Len(bytes))
<1>1. PICK n \in Nat : n = Len(bytes)
  BY DEF InText
<1>2. bytes \in Seq(Chars) /\ text \in Seq(Chars) /\ from + n <= Len(text)
  BY <1>1 DEF InText, LineTypeOK
<1>3. PICK sub : sub = SubSeq(text, from + 1, from + n)
  OBVIOUS
<1>4. sub \in Seq(Chars) /\ Len(sub) = n /\ \A i \in 1 .. n : sub[i] = text[from + i]
  <2>1. PICK low \in Nat, high \in Nat : low = from + 1 /\ high = from + n
    BY <1>1
  <2>2. \A i \in low .. high : text[i] \in Chars
    BY <1>1, <1>2, <2>1
  <2>3. /\ sub \in Seq(Chars) /\ Len(sub) = (IF low <= high THEN high - low + 1 ELSE 0)
        /\ \A i \in 1 .. high - low + 1 : sub[i] = text[low + i - 1]
    BY <1>3, <2>1, <2>2, SubSeqProperties
  <2>4. n \in Nat /\ high - low + 1 = n /\ (IF low <= high THEN high - low + 1 ELSE 0) = n
    BY <1>1, <2>1
  <2>5. \A i \in 1 .. n : low + i - 1 = from + i
    BY <2>1
  <2>6. QED
    BY <2>3, <2>4, <2>5
<1>5. \A i \in 1 .. n : bytes[i] = text[from + i]
  BY <1>1 DEF InText
<1>6. sub = bytes
  BY <1>1, <1>2, <1>4, <1>5, SeqEqual
<1>7. QED
  BY <1>1, <1>3, <1>6

LEMMA InTextParts ==
  ASSUME LineTypeOK, NEW from \in Nat, NEW bytes, InText(bytes, from), NEW n \in Nat
  PROVE  /\ InText(Left(bytes, n), from)
         /\ InText(From(bytes, Lesser(n, Len(bytes))), from + Len(Left(bytes, n)))
         /\ Len(From(bytes, Lesser(n, Len(bytes)))) = Len(bytes) - Len(Left(bytes, n))
<1>1. PICK size \in Nat, total \in Nat : size = Len(bytes) /\ total = Len(text)
  BY DEF InText, LineTypeOK
<1>2. /\ size \in Nat /\ total \in Nat /\ bytes \in Seq(Chars) /\ from + size <= total
      /\ \A i \in 1 .. size : bytes[i] = text[from + i]
  BY <1>1 DEF InText
<1>3. PICK m \in Nat : m = Lesser(n, size) /\ m <= size /\ m <= n
  BY <1>2 DEF Lesser
<1>4. PICK l, r : l = Left(bytes, n) /\ r = From(bytes, m)
  OBVIOUS
<1>5. l \in Seq(Chars) /\ Len(l) = m /\ \A i \in 1 .. m : l[i] = bytes[i]
  <2>1. l \in Seq(Chars) /\ Len(l) = (IF n < size THEN n ELSE size)
    BY <1>1, <1>2, <1>4, Pieces
  <2>2. m = IF n < size THEN n ELSE size
    BY <1>3 DEF Lesser
  <2>3. \A i \in 1 .. Len(Left(bytes, n)) : Left(bytes, n)[i] = bytes[i]
    BY <1>2, Pieces
  <2>4. QED
    BY <1>4, <2>1, <2>2, <2>3
<1>6. r \in Seq(Chars) /\ Len(r) = size - m /\ \A i \in 1 .. size - m : r[i] = bytes[m + i]
  <2>1. m \in Nat /\ (IF m < size THEN size - m ELSE 0) = size - m
    BY <1>2, <1>3
  <2>2. r \in Seq(Chars) /\ Len(r) = (IF m < size THEN size - m ELSE 0)
    BY <1>1, <1>2, <1>4, <2>1, Pieces
  <2>3. \A i \in 1 .. Len(From(bytes, m)) : From(bytes, m)[i] = bytes[m + i]
    BY <1>2, <2>1, Pieces
  <2>4. QED
    BY <1>4, <2>1, <2>2, <2>3
<1>7. InText(l, from)
  <2>1. from + m <= total /\ \A i \in 1 .. m : i \in 1 .. size
    BY <1>2, <1>3
  <2>2. QED
    BY <1>1, <1>2, <1>5, <2>1 DEF InText
<1>8. InText(r, from + m)
  <2>1. from + m + (size - m) <= total
    BY <1>2, <1>3
  <2>2. ASSUME NEW i \in 1 .. size - m PROVE r[i] = text[from + m + i]
    <3>1. m + i \in 1 .. size /\ from + (m + i) = from + m + i
      BY <1>2, <1>3
    <3>2. QED
      BY <1>2, <1>6, <3>1
  <2>3. QED
    BY <1>1, <1>6, <2>1, <2>2 DEF InText
<1>9. QED
  BY <1>1, <1>3, <1>4, <1>5, <1>6, <1>7, <1>8

LEMMA InTextJoined ==
  ASSUME LineTypeOK, NEW from \in Nat, NEW l, NEW r, InText(l, from), InText(r, from + Len(l))
  PROVE  InText(l \o r, from) /\ Len(l \o r) = Len(l) + Len(r)
<1>1. PICK m \in Nat, n \in Nat, total \in Nat : m = Len(l) /\ n = Len(r) /\ total = Len(text)
  BY DEF InText, LineTypeOK
<1>2. /\ l \in Seq(Chars) /\ r \in Seq(Chars) /\ from + m + n <= total
      /\ \A i \in 1 .. m : l[i] = text[from + i]
      /\ \A i \in 1 .. n : r[i] = text[from + m + i]
  BY <1>1 DEF InText
<1>3. PICK both : both = l \o r
  OBVIOUS
<1>4. /\ both \in Seq(Chars) /\ Len(both) = m + n
      /\ \A i \in 1 .. m + n : both[i] = IF i <= m THEN l[i] ELSE r[i - m]
  BY <1>1, <1>2, <1>3, ConcatProperties
<1>5. ASSUME NEW i \in 1 .. m + n PROVE both[i] = text[from + i]
  <2>1. CASE i <= m
    BY <1>1, <1>2, <1>4, <2>1
  <2>2. CASE ~ (i <= m)
    <3>1. i - m \in 1 .. n /\ from + m + (i - m) = from + i
      BY <1>1, <2>2
    <3>2. QED
      BY <1>2, <1>4, <2>2, <3>1
  <2>3. QED
    BY <2>1, <2>2
<1>6. from + (m + n) <= total
  BY <1>1, <1>2
<1>7. QED
  BY <1>1, <1>3, <1>4, <1>5, <1>6 DEF InText

LEMMA RestInText ==
  ASSUME LineTypeOK, NEW n \in 0 .. Len(text)
  PROVE  InText(Rest(n), n) /\ Len(Rest(n)) = Len(text) - n
<1>1. PICK total \in Nat : total = Len(text)
  BY DEF LineTypeOK
<1>2. n \in Nat /\ n <= total /\ text \in Seq(Chars)
  BY <1>1 DEF LineTypeOK
<1>3. PICK r : r = Rest(n)
  OBVIOUS
<1>4. r \in Seq(Chars) /\ Len(r) = total - n
  <2>1. (IF n < total THEN total - n ELSE 0) = total - n
    BY <1>1, <1>2
  <2>2. QED
    BY <1>1, <1>2, <1>3, <2>1, Pieces DEF Rest
<1>5. \A i \in 1 .. Len(r) : r[i] = text[n + i]
  BY <1>2, <1>3, Pieces DEF Rest
<1>6. n + (total - n) <= total
  BY <1>1, <1>2
<1>7. QED
  BY <1>1, <1>3, <1>4, <1>5, <1>6 DEF InText

-----------------------------------------------------------------------------
(* Where a line ends, in terms of its delimiters.                          *)
LEMMA EndingIs ==
  ASSUME LineTypeOK
  PROVE  /\ Ending \in Seq(Chars)
         /\ Len(Ending) = (IF delims[2] = NoChar THEN 1 ELSE 2)
         /\ Ending[1] = delims[1]
         /\ delims[2] # NoChar => Ending[2] = delims[2]
<1>1. PICK a \in Chars, b \in Chars \cup {NoChar} : delims = <<a, b>>
  BY LineAssumption DEF LineTypeOK
<1>2. CASE b = NoChar
  BY <1>1, <1>2 DEF Ending
<1>3. CASE b # NoChar
  BY <1>1, <1>3 DEF Ending
<1>4. QED
  BY <1>2, <1>3

LEMMA EndsIs ==
  ASSUME LineTypeOK, NEW from \in Nat, NEW i \in Nat, i <= Len(text)
  PROVE  (i >= from + Len(Ending) /\ SubSeq(text, i - Len(Ending) + 1, i) = Ending)
           <=> EndsAt(from, i)
<1>1. PICK n \in Nat, total \in Nat : n = Len(Ending) /\ total = Len(text)
  BY EndingIs DEF LineTypeOK
<1>2. /\ n = (IF delims[2] = NoChar THEN 1 ELSE 2) /\ Ending \in Seq(Chars)
      /\ Ending[1] = delims[1]
      /\ delims[2] # NoChar => Ending[2] = delims[2]
      /\ text \in Seq(Chars) /\ i <= total
  BY <1>1, EndingIs DEF LineTypeOK
<1>3. SUFFICES ASSUME i >= from + n
               PROVE  SubSeq(text, i - n + 1, i) = Ending <=> EndsAt(from, i)
  <2>1. EndsAt(from, i) => i >= from + n
    BY <1>2 DEF EndsAt
  <2>2. QED
    BY <1>1, <2>1
<1>4. PICK low \in Nat : low = i - n + 1 /\ low >= 1
  <2>1. n \in Nat /\ n >= 1 /\ i \in Nat /\ from \in Nat /\ i >= from + n
    BY <1>1, <1>2, <1>3
  <2>2. i - n + 1 \in Nat /\ i - n + 1 >= 1
    BY <2>1
  <2>3. QED
    BY <2>2
<1>14. PICK sub : sub = SubSeq(text, low, i)
  OBVIOUS
<1>5. sub \in Seq(Chars) /\ Len(sub) = n /\ \A j \in 1 .. n : sub[j] = text[low + j - 1]
  <2>1. \A j \in low .. i : text[j] \in Chars
    BY <1>1, <1>2, <1>4
  <2>2. /\ sub \in Seq(Chars) /\ Len(sub) = (IF low <= i THEN i - low + 1 ELSE 0)
        /\ \A j \in 1 .. i - low + 1 : sub[j] = text[low + j - 1]
    BY <1>14, <1>4, <2>1, SubSeqProperties
  <2>3. i - low + 1 = n /\ (IF low <= i THEN i - low + 1 ELSE 0) = n
    <3>1. n \in Nat /\ n >= 1
      BY <1>1, <1>2
    <3>2. i - low + 1 = n /\ low <= i
      BY <1>4, <3>1
    <3>3. QED
      BY <3>2
  <2>4. QED
    BY <2>2, <2>3
<1>6. sub = Ending <=> \A j \in 1 .. n : sub[j] = Ending[j]
  BY <1>1, <1>2, <1>5, SeqEqual
<1>7. CASE delims[2] = NoChar
  <2>1. n = 1 /\ low = i
    BY <1>2, <1>4, <1>7
  <2>2. sub[1] = text[i]
    <3>1. low + 1 - 1 = i /\ 1 \in 1 .. n
      BY <2>1
    <3>2. QED
      BY <1>5, <3>1
  <2>3. sub = Ending <=> text[i] = delims[1]
    <3>1. (\A j \in 1 .. n : sub[j] = Ending[j]) <=> sub[1] = Ending[1]
      BY <2>1
    <3>2. QED
      BY <1>2, <1>6, <2>2, <3>1
  <2>4. EndsAt(from, i) <=> text[i] = delims[1]
    BY <1>3, <1>7, <2>1 DEF EndsAt
  <2>5. QED
    BY <1>4, <1>14, <2>3, <2>4
<1>8. CASE delims[2] # NoChar
  <2>1. n = 2 /\ low = i - 1
    BY <1>2, <1>4, <1>8
  <2>2. sub[1] = text[i - 1] /\ sub[2] = text[i]
    <3>1. low + 1 - 1 = i - 1 /\ low + 2 - 1 = i /\ 1 \in 1 .. n /\ 2 \in 1 .. n
      BY <2>1
    <3>2. QED
      BY <1>5, <3>1
  <2>3. sub = Ending <=> text[i - 1] = delims[1] /\ text[i] = delims[2]
    <3>1. (\A j \in 1 .. n : sub[j] = Ending[j]) <=> sub[1] = Ending[1] /\ sub[2] = Ending[2]
      BY <2>1
    <3>2. Ending[1] = delims[1] /\ Ending[2] = delims[2]
      BY <1>2, <1>8
    <3>3. QED
      BY <1>6, <2>2, <3>1, <3>2
  <2>4. EndsAt(from, i) <=> text[i - 1] = delims[1] /\ text[i] = delims[2]
    BY <1>3, <1>8, <2>1 DEF EndsAt
  <2>5. QED
    BY <1>4, <1>14, <2>3, <2>4
<1>9. QED
  BY <1>7, <1>8

(* The end that a scan found is the end of the line.                       *)
LEMMA EndIsFound ==
  ASSUME LineTypeOK, NEW from \in Nat, NEW at \in Nat, from <= at, at <= Len(text),
         NEW whole \in BOOLEAN,
         whole => EndsAt(from, at), ~ whole => at = Len(text),
         \A i \in from + 1 .. at : EndsAt(from, i) => whole /\ i = at
  PROVE  /\ at = EndOfLine(from)
         /\ whole = (at - from >= Len(Ending) /\ SubSeq(text, at - Len(Ending) + 1, at) = Ending)
<1>1. PICK n \in Nat, total \in Nat : n = Len(Ending) /\ total = Len(text)
  BY EndingIs DEF LineTypeOK
<1>2. n >= 1
  BY <1>1, EndingIs
<1> DEFINE ends == {i \in from + Len(Ending) .. Len(text) :
                      SubSeq(text, i - Len(Ending) + 1, i) = Ending}
<1>3. \A i : i \in ends <=> i \in from + 1 .. total /\ EndsAt(from, i)
  <2> TAKE i
  <2>1. ASSUME i \in ends PROVE i \in from + 1 .. total /\ EndsAt(from, i)
    <3>1. i \in Nat /\ i >= from + n /\ i <= total
      BY <1>1, <1>2, <2>1
    <3>2. i >= from + Len(Ending) /\ SubSeq(text, i - Len(Ending) + 1, i) = Ending
      BY <2>1
    <3>3. EndsAt(from, i)
      BY <1>1, <3>1, <3>2, EndsIs
    <3>4. i \in from + 1 .. total
      BY <1>1, <1>2, <3>1
    <3>5. QED
      BY <3>3, <3>4
  <2>2. ASSUME i \in from + 1 .. total, EndsAt(from, i) PROVE i \in ends
    <3>1. i \in Nat /\ i <= Len(text)
      BY <1>1, <2>2
    <3>2. i >= from + n /\ SubSeq(text, i - n + 1, i) = Ending
      BY <1>1, <2>2, <3>1, EndsIs
    <3>3. QED
      BY <1>1, <3>1, <3>2
  <2>3. QED
    BY <2>1, <2>2
<1>4. EndOfLine(from) = IF ends = {} THEN Len(text) ELSE CHOOSE i \in ends : \A j \in ends : i <= j
  BY DEF EndOfLine
<1> HIDE DEF ends
<1>5. CASE whole
  <2>1. at \in from + 1 .. total
    <3>1. at > from
      BY <1>5 DEF EndsAt
    <3>2. QED
      BY <1>1, <3>1
  <2>2. at \in ends
    BY <1>3, <1>5, <2>1
  <2>3. \A j \in ends : at <= j
    <3> TAKE j \in ends
    <3>1. j \in from + 1 .. total /\ EndsAt(from, j)
      BY <1>3
    <3>2. QED
      BY <1>1, <3>1
  <2>4. \A i \in ends : (\A j \in ends : i <= j) => i = at
    <3> TAKE i \in ends
    <3>1. i \in Int
      BY <1>3
    <3>2. QED
      BY <2>2, <2>3, <3>1
  <2>5. at = EndOfLine(from)
    BY <1>4, <2>2, <2>3, <2>4
  <2>6. at >= from + n /\ SubSeq(text, at - n + 1, at) = Ending
    BY <1>1, <1>5, EndsIs
  <2>7. at - from >= n
    BY <1>1, <2>6
  <2>8. QED
    BY <1>1, <1>5, <2>5, <2>6, <2>7
<1>6. CASE ~ whole
  <2>1. ends = {}
    <3>1. ASSUME NEW i \in ends PROVE FALSE
      BY <1>1, <1>3, <1>6
    <3>2. QED
      BY <3>1
  <2>2. ASSUME at - from >= n, SubSeq(text, at - n + 1, at) = Ending PROVE FALSE
    <3>1. at >= from + n
      BY <1>1, <2>2
    <3>2. EndsAt(from, at)
      BY <1>1, <2>2, <3>1, EndsIs
    <3>3. at \in from + 1 .. at
      BY <1>1, <1>2, <3>1
    <3>4. QED
      BY <1>6, <3>2, <3>3
  <2>3. QED
    BY <1>1, <1>4, <1>6, <2>1, <2>2
<1>7. QED
  BY <1>5, <1>6

-----------------------------------------------------------------------------
(* The bytes between what was returned and what the child gave are in the  *)
(* buffer, until the child fails.                                          *)
Buffered ==
  /\ offset \in Nat /\ InText(ahead, offset)
  /\ position = offset + Len(ahead)

LineInv ==
  /\ LineTypeOK
  /\ reading /\ ~ broken => Buffered
  /\ ~ reading => latest = Nowhere
  /\ WholeLines

LEMMA LinesInitially == LineInit => LineInv
<1> SUFFICES ASSUME LineInit PROVE LineInv
  OBVIOUS
<1>1. LineTypeOK
  <2>1. <<>> \in Seq(Chars) /\ 0 \in Nat /\ 0 \in Int
    OBVIOUS
  <2>2. /\ delims \in Delimiters /\ text = <<>> /\ reading = FALSE /\ position = 0
        /\ ahead = <<>> /\ found = FALSE /\ offset = 0 /\ broken = FALSE
    BY DEF LineInit
  <2>3. QED
    BY <2>1, <2>2 DEF LineTypeOK
<1>2. WholeLines
  <2>1. ~ reading /\ latest.call = "none" /\ offset = 0 /\ Len(text) = 0
    BY DEF LineInit, Nowhere
  <2>2. QED
    BY <2>1 DEF WholeLines
<1>3. QED
  BY <1>1, <1>2 DEF LineInit, LineInv

(* put() and putLine() that work, or that leave a broken file.             *)
LEMMA PutKeeps ==
  ASSUME LineInv, ~ reading, ~ broken, NEW bytes \in Seq(Chars), NEW count \in Int,
         Appended(bytes, count), broken' \in BOOLEAN, ~ broken' => count = Len(bytes)
  PROVE  LineInv'
<1>1. LineTypeOK'
  BY DEF LineInv, LineTypeOK, Appended
<1>2. ~ reading' /\ latest' = Nowhere
  BY DEF LineInv, Appended
<1>3. ~ broken' => offset' = Len(text')
  <2>1. text \in Seq(Chars) /\ offset = Len(text)
    BY DEF LineInv, LineTypeOK, WholeLines
  <2>2. Len(text \o bytes) = Len(text) + Len(bytes)
    BY <2>1
  <2>3. QED
    BY <2>1, <2>2 DEF Appended
<1>4. WholeLines'
  <2>1. latest'.call = "none"
    BY <1>2 DEF Nowhere
  <2>2. QED
    BY <1>2, <1>3, <2>1 DEF WholeLines
<1>5. QED
  BY <1>1, <1>2, <1>4 DEF LineInv

LEMMA PutsKeep ==
  ASSUME LineInv, NEW given \in {<<>>} \cup {<<c>> : c \in Chars},
         (\E c \in Chars : PutChar(c)) \/ PutLine(given)
  PROVE  LineInv'
<1>1. CASE \E c \in Chars : PutChar(c)
  <2>1. PICK c \in Chars : PutChar(c)
    BY <1>1
  <2>2. <<c>> \in Seq(Chars) /\ Len(<<c>>) = 1 /\ <<>> \in Seq(Chars) /\ Len(<<>>) = 0
    OBVIOUS
  <2>3. ~ reading /\ ~ broken /\ broken \in BOOLEAN
    BY <2>1 DEF PutChar, LineInv, LineTypeOK
  <2>4. CASE Appended(<<c>>, 1) /\ UNCHANGED broken
    <3>1. PICK one \in Seq(Chars) : one = <<c>>
      BY <2>2
    <3>2. Appended(one, 1) /\ Len(one) = 1 /\ 1 \in Int /\ broken' \in BOOLEAN
      BY <2>2, <2>3, <2>4, <3>1
    <3>3. QED
      BY <2>3, <3>2, PutKeeps
  <2>5. CASE Appended(<<>>, 0) /\ broken' = TRUE
    <3>1. PICK none \in Seq(Chars) : none = <<>>
      BY <2>2
    <3>2. Appended(none, 0) /\ 0 \in Int /\ broken' \in BOOLEAN /\ broken'
      BY <2>5, <3>1
    <3>3. QED
      BY <2>3, <3>2, PutKeeps
  <2>6. QED
    BY <2>1, <2>4, <2>5 DEF PutChar
<1>2. CASE PutLine(given)
  <2>1. /\ given \in Seq(Chars) /\ Ending \in Seq(Chars) /\ <<>> \in Seq(Chars)
        /\ delims[1] \in Chars
    <3>1. PICK a \in Chars, b \in Chars \cup {NoChar} : delims = <<a, b>>
      BY LineAssumption DEF LineInv, LineTypeOK
    <3>2. delims[1] \in Chars
      BY <3>1
    <3>3. given \in Seq(Chars) /\ <<>> \in Seq(Chars)
      <4>1. given = <<>> \/ \E c \in Chars : given = <<c>>
        OBVIOUS
      <4>2. <<>> \in Seq(Chars) /\ \A c \in Chars : <<c>> \in Seq(Chars)
        OBVIOUS
      <4>3. QED
        BY <4>1, <4>2
    <3>4. Ending \in Seq(Chars)
      BY EndingIs DEF LineInv
    <3>5. QED
      BY <3>2, <3>3, <3>4
  <2>2. /\ given \o Ending \in Seq(Chars) /\ Append(given, delims[1]) \in Seq(Chars)
        /\ Len(given \o Ending) = Len(given) + Len(Ending)
        /\ Len(given) \in Int /\ Len(given) + 1 \in Int /\ Len(given) + Len(Ending) \in Int
    BY <2>1
  <2>3. ~ reading /\ ~ broken /\ broken \in BOOLEAN
    BY <1>2 DEF PutLine, LineInv, LineTypeOK
  <2>4. CASE Appended(given \o Ending, Len(given) + Len(Ending)) /\ UNCHANGED broken
    <3>1. broken' \in BOOLEAN
      BY <2>3, <2>4
    <3>2. QED
      BY <2>2, <2>3, <2>4, <3>1, PutKeeps
  <2>5. CASE broken' = TRUE /\ Appended(<<>>, 0)
    <3>1. PICK none \in Seq(Chars) : none = <<>>
      BY <2>1
    <3>2. Appended(none, 0) /\ 0 \in Int /\ broken' \in BOOLEAN /\ broken'
      BY <2>5, <3>1
    <3>3. QED
      BY <2>3, <3>2, PutKeeps
  <2>6. CASE broken' = TRUE /\ Appended(given, 0)
    BY <2>1, <2>3, <2>6, PutKeeps
  <2>7. CASE broken' = TRUE /\ Appended(Append(given, delims[1]), Len(given) + 1)
    BY <2>2, <2>3, <2>7, PutKeeps
  <2>8. QED
    BY <1>2, <2>4, <2>5, <2>6, <2>7 DEF PutLine
<1>3. QED
  BY <1>1, <1>2

LEMMA ReopenKeeps ==
  ASSUME LineInv, Reopen
  PROVE  LineInv'
<1>1. LineTypeOK'
  <2>1. <<>> \in Seq(Chars) /\ 0 \in Nat /\ 0 \in Int
    OBVIOUS
  <2>2. /\ UNCHANGED <<delims, text, found>> /\ reading' = TRUE /\ position' = 0
        /\ ahead' = <<>> /\ offset' = 0 /\ broken' = FALSE
    BY DEF Reopen
  <2>3. delims \in Delimiters /\ text \in Seq(Chars) /\ found \in BOOLEAN
    BY DEF LineInv, LineTypeOK
  <2>4. QED
    BY <2>1, <2>2, <2>3 DEF LineTypeOK
<1>2. reading' /\ latest'.call = "none"
  BY DEF LineInv, Reopen, Nowhere
<1>3. Buffered'
  <2>1. /\ offset' = 0 /\ position' = 0 /\ ahead' = <<>> /\ text' \in Seq(Chars)
    BY <1>1 DEF Reopen, LineTypeOK
  <2>2. Len(ahead') = 0 /\ ahead' \in Seq(Chars) /\ Len(text') \in Nat
    BY <2>1
  <2>3. QED
    BY <2>1, <2>2 DEF Buffered, InText
<1>4. WholeLines'
  BY <1>2 DEF WholeLines
<1>5. QED
  BY <1>1, <1>2, <1>3, <1>4 DEF LineInv

LEMMA FailsKeeps ==
  ASSUME LineInv, reading, NEW count \in Int, Fails(count)
  PROVE  LineInv'
<1>1. LineTypeOK' /\ reading' /\ broken'
  BY DEF LineInv, LineTypeOK, Fails
<1>2. QED
  BY <1>1 DEF LineInv, WholeLines

(* Bytes that end in front of a place with the delimiters.                 *)
Ended(bytes, at) ==
  Len(bytes) >= Len(Ending) /\ SubSeq(text, at - Len(Ending) + 1, at) = Ending

LEMMA ReturnKeeps ==
  ASSUME LineInv, reading, ~ broken, NEW call, call # "none", NEW bytes, NEW rest,
         NEW whole \in BOOLEAN,
         Returned(call, bytes), found' = whole, ahead' = rest,
         position' = offset + Len(bytes) + Len(rest),
         InText(bytes, offset), InText(rest, offset + Len(bytes)),
         call = "getLine" /\ Regular =>
           /\ offset + Len(bytes) = EndOfLine(offset)
           /\ whole = Ended(bytes, offset + Len(bytes))
  PROVE  LineInv'
<1>1. /\ offset \in Nat /\ Len(bytes) \in Nat /\ Len(rest) \in Nat /\ rest \in Seq(Chars)
  BY DEF LineInv, Buffered, InText
<1>2. /\ latest' = [call |-> call, start |-> offset, bytes |-> bytes]
      /\ offset' = offset + Len(bytes)
      /\ UNCHANGED <<delims, text, reading, broken>>
  BY DEF Returned
<1>3. LineTypeOK'
  BY <1>1, <1>2 DEF LineInv, LineTypeOK
<1>4. Buffered'
  BY <1>1, <1>2 DEF Buffered, InText
<1>5. WholeLines'
  <2>1. latest'.call = call /\ latest'.start = offset /\ latest'.bytes = bytes
    BY <1>2
  <2>2. bytes = SubSeq(text, offset + 1, offset + Len(bytes))
    BY <1>1, InTextIs DEF LineInv
  <2>3. Regular' = Regular /\ Ending' = Ending
    BY <1>2 DEF Regular, Ending
  <2>4. EndOfLine(latest.start)' = EndOfLine(offset)
    BY <1>2, <2>1, <2>3 DEF EndOfLine
  <2>5. /\ offset' = latest'.start + Len(latest'.bytes)
        /\ latest'.bytes = SubSeq(text', latest'.start + 1, offset')
    BY <1>2, <2>1, <2>2
  <2>6. ASSUME latest'.call = "getLine", Regular'
        PROVE  offset' = EndOfLine(latest.start)' /\ found' = Ended(latest.bytes, offset)'
    <3>1. call = "getLine" /\ Regular
      BY <2>1, <2>3, <2>6
    <3>2. offset + Len(bytes) = EndOfLine(offset) /\ whole = Ended(bytes, offset + Len(bytes))
      BY <3>1
    <3>3. latest'.bytes = bytes /\ offset' = offset + Len(bytes) /\ text' = text
          /\ found' = whole /\ Ending' = Ending
      BY <1>2, <2>1, <2>3
    <3>4. Ended(latest.bytes, offset)' = Ended(bytes, offset + Len(bytes))
      BY <3>3 DEF Ended
    <3>5. QED
      BY <2>4, <3>2, <3>3, <3>4
  <2>7. reading'
    BY <1>2
  <2>8. QED
    BY <2>5, <2>6, <2>7 DEF WholeLines, Ended
<1>6. QED
  BY <1>2, <1>3, <1>4, <1>5 DEF LineInv

LEMMA GetLineKeeps ==
  ASSUME LineInv, GetLine
  PROVE  LineInv'
<1>1. LineTypeOK /\ reading /\ ~ broken /\ Buffered
  BY DEF LineInv, GetLine
<1>2. PICK s0 : s0 = [ahead |-> ahead, position |-> position, line |-> <<>>,
                      first |-> FALSE, found |-> FALSE]
  OBVIOUS
<1>3. /\ s0 \in Scans /\ s0.line = <<>> /\ s0.ahead = ahead /\ s0.position = position
      /\ s0.first = FALSE /\ s0.found = FALSE
  BY <1>1, <1>2 DEF LineTypeOK, Scans
<1>4. PICK from \in Nat : from = offset
  BY <1>1 DEF Buffered
<1>5. At(s0, from) = from
  BY <1>3 DEF At
<1>6. OfText(s0, from)
  <2>1. InText(ahead, from) /\ position = from + Len(ahead)
    BY <1>1, <1>4 DEF Buffered
  <2>2. Len(s0.line) = 0
    BY <1>3
  <2>3. QED
    BY <1>3, <1>5, <2>1, <2>2 DEF OfText, InText
<1>7. UpToHere(s0, from)
  <2>1. Len(s0.line) = 0
    BY <1>3
  <2>2. QED
    BY <1>3, <1>5, <2>1 DEF UpToHere
<1>8. PICK s : s = Turns[s0]
  OBVIOUS
<1>9. OfText(s, from) /\ s \in Stops /\ (Regular => UpToHere(s, from))
  BY <1>1, <1>6, <1>7, <1>8, ScanEnds DEF Scanned
<1>10. PICK bytes \in Seq(Chars), rest \in Seq(Chars), whole \in BOOLEAN :
            bytes = s.line /\ rest = s.ahead /\ whole = s.found
  BY <1>9 DEF OfText, Scans
<1>11. PICK at \in Nat, total \in Nat : at = from + Len(bytes) /\ total = Len(text)
  BY <1>1, <1>10 DEF LineTypeOK
<1>12. At(s, from) = at
  BY <1>10, <1>11 DEF At
<1>13. /\ InText(bytes, from) /\ InText(rest, at) /\ s.position = at + Len(rest)
       /\ at <= total
  <2>1. /\ at + Len(rest) = s.position /\ s.position <= total /\ Len(rest) \in Nat
        /\ \A i \in 1 .. Len(bytes) : bytes[i] = text[from + i]
        /\ \A i \in 1 .. Len(rest) : rest[i] = text[at + i]
    <3>1. /\ at + Len(rest) = s.position /\ s.position <= total /\ Len(rest) \in Nat
      <4>1. rest \in Seq(Chars)
        BY <1>10
      <4>2. at + Len(rest) = s.position /\ s.position <= total
        BY <1>9, <1>10, <1>11, <1>12 DEF OfText
      <4>3. QED
        BY <4>1, <4>2
    <3>2. \A i \in 1 .. Len(bytes) : bytes[i] = text[from + i]
      BY <1>9, <1>10 DEF OfText
    <3>3. \A i \in 1 .. Len(rest) : rest[i] = text[at + i]
      BY <1>9, <1>10, <1>12 DEF OfText
    <3>4. QED
      BY <3>1, <3>2, <3>3
  <2>2. at <= total
    BY <1>11, <2>1
  <2>3. QED
    BY <1>10, <1>11, <2>1, <2>2 DEF InText
<1>14. ~ whole => at = total
  <2> SUFFICES ASSUME ~ whole PROVE at = total
    OBVIOUS
  <2>1. rest = <<>> /\ Filled(s).ahead = <<>>
    BY <1>9, <1>10 DEF Stops
  <2>2. s.position = at
    BY <1>11, <1>13, <2>1
  <2>3. PICK more \in Seq(Chars), size \in Nat \ {0} : more = Rest(at) /\ size = BufferSize
    <3>1. at \in 0 .. Len(text)
      BY <1>11, <1>13
    <3>2. InText(Rest(at), at)
      BY <1>1, <3>1, RestInText
    <3>3. Rest(at) \in Seq(Chars)
      BY <3>2 DEF InText
    <3>4. BufferSize \in Nat \ {0}
      BY LineAssumption
    <3>5. QED
      BY <3>3, <3>4
  <2>4. Len(more) = total - at
    <3>1. at \in 0 .. Len(text)
      BY <1>11, <1>13
    <3>2. Len(Rest(at)) = Len(text) - at
      BY <1>1, <3>1, RestInText
    <3>3. QED
      BY <1>11, <2>3, <3>2
  <2>5. Left(more, size) = <<>>
    BY <1>1, <1>9, <2>1, <2>2, <2>3, FilledIs DEF OfText
  <2>6. Len(Left(more, size)) = IF size < Len(more) THEN size ELSE Len(more)
    BY <2>3, Pieces
  <2>7. Len(Left(more, size)) = 0
    BY <2>5
  <2>8. QED
    BY <1>11, <1>13, <2>3, <2>4, <2>6, <2>7
<1>15. ASSUME Regular
       PROVE  /\ at = EndOfLine(from)
              /\ whole = Ended(bytes, at)
  <2>1. /\ whole => EndsAt(from, at)
        /\ \A i \in from + 1 .. at : EndsAt(from, i) => whole /\ i = at
    BY <1>9, <1>10, <1>12, <1>15 DEF UpToHere
  <2>2. from <= at /\ at <= Len(text) /\ at - from = Len(bytes)
    BY <1>10, <1>11, <1>13
  <2>3. ~ whole => at = Len(text)
    BY <1>11, <1>14
  <2>4. /\ at = EndOfLine(from)
        /\ whole = (at - from >= Len(Ending) /\ SubSeq(text, at - Len(Ending) + 1, at) = Ending)
    BY <1>1, <2>1, <2>2, <2>3, EndIsFound
  <2>5. QED
    BY <2>2, <2>4 DEF Ended
<1>16. CASE Returned("getLine", s.line) /\ ahead' = s.ahead /\ position' = s.position
            /\ found' = s.found
  <2>1. /\ Returned("getLine", bytes) /\ ahead' = rest /\ found' = whole
        /\ position' = offset + Len(bytes) + Len(rest)
    BY <1>4, <1>10, <1>11, <1>13, <1>16
  <2>2. InText(bytes, offset) /\ InText(rest, offset + Len(bytes))
    BY <1>4, <1>11, <1>13
  <2>3. Regular =>
           /\ offset + Len(bytes) = EndOfLine(offset)
           /\ whole = Ended(bytes, offset + Len(bytes))
    BY <1>4, <1>11, <1>15
  <2>4. "getLine" # "none"
    OBVIOUS
  <2>5. QED
    BY <1>1, <2>1, <2>2, <2>3, <2>4, ReturnKeeps
<1>17. CASE Fails(0)
  BY <1>1, <1>17, FailsKeeps
<1>18. QED
  BY <1>2, <1>8, <1>16, <1>17 DEF GetLine

LEMMA ReadKeeps ==
  ASSUME LineInv, NEW size \in 1 .. MaxPieces, Read(size)
  PROVE  LineInv'
<1>1. LineTypeOK /\ reading /\ ~ broken /\ Buffered /\ found' = found /\ found \in BOOLEAN
  BY DEF LineInv, LineTypeOK, Read
<1>2. PICK from \in Nat, ask \in Nat : from = offset /\ ask = size
  BY <1>1, LineAssumption DEF Buffered
<1>3. InText(ahead, from) /\ position = from + Len(ahead)
  BY <1>1, <1>2 DEF Buffered
<1>4. CASE ahead # <<>>
  <2>1. PICK bytes, rest : bytes = Left(ahead, ask) /\ rest = From(ahead, Lesser(ask, Len(ahead)))
    OBVIOUS
  <2>2. /\ InText(bytes, from) /\ InText(rest, from + Len(bytes))
        /\ Len(rest) = Len(ahead) - Len(bytes)
    BY <1>1, <1>2, <1>3, <2>1, InTextParts
  <2>3. Len(bytes) \in Nat /\ Len(rest) \in Nat /\ Len(ahead) \in Nat
    BY <1>3, <2>2 DEF InText
  <2>4. position = from + Len(bytes) + Len(rest)
    BY <1>3, <2>2, <2>3
  <2>5. Returned("read", bytes) /\ ahead' = rest /\ position' = position
    BY <1>2, <1>4, <2>1 DEF Read
  <2>6. QED
    BY <1>1, <1>2, <2>2, <2>4, <2>5, ReturnKeeps
<1>5. CASE ahead = <<>> /\ Fails(-1)
  BY <1>1, <1>5, FailsKeeps
<1>6. CASE ahead = <<>> /\ ~ Fails(-1)
  <2>1. PICK count \in 0 .. Lesser(size, Len(text) - position) :
             /\ Returned("read", Left(Rest(position), count))
             /\ position' = position + count
             /\ UNCHANGED ahead
    BY <1>6 DEF Read
  <2>2. PICK total \in Nat : total = Len(text)
    BY <1>1 DEF LineTypeOK
  <2>3. Len(ahead) = 0 /\ position = from /\ from <= total
    BY <1>2, <1>3, <1>6, <2>2 DEF InText
  <2>4. count \in Nat /\ count <= total - from
    BY <1>2, <2>1, <2>2, <2>3 DEF Lesser
  <2>5. PICK more, bytes : more = Rest(from) /\ bytes = Left(more, count)
    OBVIOUS
  <2>6. InText(more, from) /\ Len(more) = total - from
    BY <1>1, <1>2, <2>2, <2>3, <2>5, RestInText
  <2>7. InText(bytes, from)
    BY <1>1, <1>2, <2>4, <2>5, <2>6, InTextParts
  <2>8. Len(bytes) = count
    <3>1. more \in Seq(Chars)
      BY <2>6 DEF InText
    <3>2. Len(bytes) = IF count < Len(more) THEN count ELSE Len(more)
      BY <2>4, <2>5, <3>1, Pieces
    <3>3. QED
      BY <1>2, <2>2, <2>4, <2>6, <3>2
  <2>9. InText(<<>>, from + Len(bytes)) /\ Len(<<>>) = 0
    BY <2>7 DEF InText
  <2>10. position' = from + Len(bytes) + Len(<<>>)
    BY <1>2, <2>1, <2>3, <2>4, <2>8, <2>9
  <2>11. Returned("read", bytes) /\ ahead' = <<>>
    BY <1>6, <2>1, <2>3, <2>5
  <2>12. QED
    BY <1>1, <1>2, <2>7, <2>9, <2>10, <2>11, ReturnKeeps
<1>7. QED
  BY <1>4, <1>5, <1>6

LEMMA GetKeeps ==
  ASSUME LineInv, NEW size \in 1 .. MaxPieces, Get(size)
  PROVE  LineInv'
<1>1. LineTypeOK /\ reading /\ ~ broken /\ Buffered /\ found' = found /\ found \in BOOLEAN
  BY DEF LineInv, LineTypeOK, Get
<1>2. PICK from \in Nat, ask \in Nat : from = offset /\ ask = size
  BY <1>1, LineAssumption DEF Buffered
<1>3. InText(ahead, from) /\ position = from + Len(ahead)
  BY <1>1, <1>2 DEF Buffered
<1>4. PICK first, rest, more :
           /\ first = Left(ahead, ask) /\ rest = From(ahead, Lesser(ask, Len(ahead)))
           /\ more = Left(Rest(position), ask - Lesser(ask, Len(ahead)))
  OBVIOUS
<1>5. /\ InText(first, from) /\ InText(rest, from + Len(first))
      /\ Len(rest) = Len(ahead) - Len(first)
  BY <1>1, <1>2, <1>3, <1>4, InTextParts
<1>6. PICK m \in Nat, n \in Nat, k \in Nat, total \in Nat :
           m = Len(first) /\ n = Len(rest) /\ k = Len(ahead) /\ total = Len(text)
  <2>1. first \in Seq(Chars) /\ rest \in Seq(Chars)
    BY <1>5 DEF InText
  <2>2. ahead \in Seq(Chars) /\ text \in Seq(Chars)
    BY <1>1 DEF LineTypeOK
  <2>3. Len(first) \in Nat /\ Len(rest) \in Nat /\ Len(ahead) \in Nat /\ Len(text) \in Nat
    BY <2>1, <2>2
  <2>4. QED
    BY <2>3
<1>7. k = m + n /\ position = from + k /\ position \in 0 .. total
  <2>1. from + k <= total
    BY <1>3, <1>6 DEF InText
  <2>2. QED
    BY <1>2, <1>3, <1>5, <1>6, <2>1
<1>8. m = Lesser(ask, k) /\ ask - m \in Nat
  <2>1. ahead \in Seq(Chars)
    BY <1>3 DEF InText
  <2>2. m = IF ask < k THEN ask ELSE k
    BY <1>2, <1>4, <1>6, <2>1, Pieces
  <2>3. QED
    BY <1>2, <1>6, <2>2 DEF Lesser
<1>9. InText(Rest(position), position)
  BY <1>1, <1>6, <1>7, RestInText
<1>10. InText(more, position)
  <2>1. more = Left(Rest(position), ask - m) /\ position \in Nat
    BY <1>4, <1>6, <1>7, <1>8
  <2>2. QED
    BY <1>1, <1>8, <1>9, <2>1, InTextParts
<1>11. PICK j \in Nat : j = Len(more)
  BY <1>10 DEF InText
<1>12. CASE Returned("get", first \o more) /\ ahead' = rest /\ position' = position + j
  <2>1. CASE n = 0
    <3>1. InText(more, from + Len(first)) /\ rest = <<>>
      <4>1. rest \in Seq(Chars) /\ Len(rest) = 0
        BY <1>5, <1>6, <2>1 DEF InText
      <4>2. rest = <<>>
        BY <4>1
      <4>3. from + Len(first) = position
        BY <1>6, <1>7, <2>1
      <4>4. QED
        BY <1>10, <4>2, <4>3
    <3>2. InText(first \o more, from) /\ Len(first \o more) = m + j
      BY <1>1, <1>2, <1>5, <1>6, <1>11, <3>1, InTextJoined
    <3>3. position + j = from + (m + j) + n /\ from + (m + j) \in Nat
      BY <1>2, <1>6, <1>7, <1>11, <2>1
    <3>4. InText(rest, from + (m + j))
      <4>1. from + (m + j) <= total
        BY <1>6, <3>2 DEF InText
      <4>2. QED
        BY <1>5, <1>6, <2>1, <3>3, <4>1 DEF InText
    <3>5. QED
      BY <1>1, <1>2, <1>6, <1>12, <3>2, <3>3, <3>4, ReturnKeeps
  <2>2. CASE n # 0
    <3>1. m = ask
      BY <1>2, <1>6, <1>7, <1>8, <2>2 DEF Lesser
    <3>2. more = Left(Rest(position), 0)
      BY <1>2, <1>4, <1>6, <1>8, <3>1
    <3>3. more = <<>>
      <4>1. Rest(position) \in Seq(Chars)
        BY <1>9 DEF InText
      <4>2. Len(more) = 0 /\ more \in Seq(Chars)
        BY <3>2, <4>1, Pieces
      <4>3. QED
        BY <4>2
    <3>4. first \o more = first /\ j = 0
      BY <1>5, <1>11, <3>3 DEF InText
    <3>5. position + j = from + m + n
      BY <1>2, <1>6, <1>7, <3>4
    <3>6. QED
      BY <1>1, <1>2, <1>5, <1>6, <1>12, <3>4, <3>5, ReturnKeeps
  <2>3. QED
    BY <2>1, <2>2
<1>13. CASE Fails(0)
  BY <1>1, <1>13, FailsKeeps
<1>14. QED
  <2>1. \/ /\ Returned("get", first \o more)
           /\ ahead' = rest
           /\ position' = position + j
        \/ Fails(0)
    BY <1>2, <1>4, <1>11 DEF Get
  <2>2. QED
    BY <1>12, <1>13, <2>1

LEMMA LinesKeep ==
  ASSUME LineInv, [LineNext]_lineVars
  PROVE  LineInv'
<1>1. CASE UNCHANGED lineVars
  <2>1. UNCHANGED <<delims, text, reading, position, ahead, found, offset, latest, broken>>
    BY <1>1 DEF lineVars
  <2>2. LineTypeOK' = LineTypeOK
    BY <2>1 DEF LineTypeOK
  <2>3. Buffered' = Buffered
    BY <2>1 DEF Buffered, InText
  <2>4. Regular' = Regular /\ Ending' = Ending
    BY <2>1 DEF Regular, Ending
  <2>5. EndOfLine(latest.start)' = EndOfLine(latest.start)
    BY <2>1, <2>4 DEF EndOfLine
  <2>6. WholeLines' = WholeLines
    BY <2>1, <2>4, <2>5 DEF WholeLines
  <2>7. QED
    BY <2>1, <2>2, <2>3, <2>6 DEF LineInv
<1>2. CASE LineNext
  BY <1>2, PutsKeep, ReopenKeeps, GetLineKeeps, ReadKeeps, GetKeeps DEF LineNext
<1>3. QED
  BY <1>1, <1>2

LEMMA LinesMove ==
  ASSUME [Next]_vars
  PROVE  [LineNext]_lineVars
<1>1. CASE OnLines \/ UNCHANGED vars
  BY <1>1 DEF OnLines, vars
<1>2. CASE OnTree \/ OnMutex \/ OnShare \/ OnConfiguration
  BY <1>2 DEF OnTree, OnMutex, OnShare, OnConfiguration
<1>3. QED
  BY <1>1, <1>2 DEF Next

(* However calls of getLine(), read() and get() follow each other and      *)
(* wherever the buffer ends, in any text and for a buffer of any size, no  *)
(* byte is lost or given twice, the offset is where the next one is, and a *)
(* line goes up to its delimiters (linereaderwriter.cpp, 56-183).          *)
THEOREM WholeLinesRead == Spec => []LinesAreWhole
<1>1. Init => LineInv
  BY LinesInitially DEF Init
<1>2. LineInv /\ [Next]_vars => LineInv'
  BY LinesMove, LinesKeep
<1>3. LineInv => LinesAreWhole
  BY DEF LineInv, LinesAreWhole
<1> QED
  BY <1>1, <1>2, <1>3, PTL DEF Spec
=============================================================================
