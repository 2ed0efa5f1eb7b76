---------------------------- MODULE Configuration ----------------------------
(***************************************************************************)
(* src/src/configuration.cpp: a configuration file is read line by line    *)
(* into a tree of lines after a syntax, and objects are made along; the    *)
(* tree is written back, and a file that was written is read again.        *)
(***************************************************************************)
EXTENDS Integers, Sequences, FiniteSets, TLC

CONSTANTS
  Keywords,         \* in their order
  Syntax,           \* from the keywords of an item and those above it to its
                    \* arguments in syntaxAdd(): least, most, params, max_params
  RawLines,         \* lines of files, sequences of characters
  FlagSets,         \* what flags may be: sets of "no_escape", "dos_catch", "empty_params"
  MaxLines,         \* bound: lines of the first file
  MaxReads          \* bound: calls of read(), and of write()

VARIABLES
  file,             \* the lines of the file
  ended,            \* whether the last one has its line feed
  flags,            \* of read()
  doing,            \* "idle", "reading" or "writing"
  reads, writes,    \* how many there were
  last,             \* the last call
  params,           \* of the line being placed, or <<>>
  tree,             \* _lines_top: the children of each line, 0 being the top
  line,             \* each Line: its _params and its _line_no
  line_no,          \* of read()
  open,             \* lines_hierarchy without the top, items_hierarchy alike
  objects,          \* the objects made: the line and the object above
  object_path,      \* objects_hierarchy
  root,             \* whether objects are being made
  failed,           \* failed, for read(): whether it returns -1
  told,             \* what config_error_cb was told
  cursor,           \* static i of Line::line() and the lines above it, or <<>>
  kept,             \* the outline that write() last wrote, if it should be read again
  past              \* what happened: a read "again" without clear(), one that was
                    \* "cut", a write that failed, "torn", a tree it left "dangling"

configVars == <<file, ended, flags, doing, reads, writes, last, params, tree, line, line_no,
                open, objects, object_path, root, failed, told, cursor, kept, past>>

Sequence == INSTANCE SequencesExt

Seqs(S, n) == UNION {[1 .. m -> S] : m \in 0 .. n}

ConfigInit ==
  /\ file \in Seqs(RawLines, MaxLines)
  /\ ended \in BOOLEAN
  /\ flags \in FlagSets
  /\ doing = "idle"
  /\ reads = 0 /\ writes = 0
  /\ last = "none"
  /\ params = <<>>
  /\ tree = (0 :> <<>>)
  /\ line = <<>>
  /\ line_no = 0
  /\ open = <<>>
  /\ objects = <<>>
  /\ object_path = <<>>
  /\ root = FALSE
  /\ failed = FALSE
  /\ told = {}
  /\ cursor = <<>>
  /\ kept = <<>>
  /\ past = {}

-----------------------------------------------------------------------------
(* extractParams(). One turn takes one character: those that only change   *)
(* what the character is taken for are one with the turn that takes it.    *)

End == ""
Delims == {" "}
Quotes == {"'", "\""}
Comments == {"#"}
Escape == "\\"

Value(s, with) ==
  [s EXCEPT !.params = Append(@, s.param \o with), !.param = <<>>, !.mode = "between",
            !.escaped = FALSE]

(* Between parameters: blanks are skipped, unless they separate fields.    *)
Meet(s, c, fl) ==
  CASE c \in Delims /\ "empty_params" \notin fl -> s
    [] c \in Comments -> [s EXCEPT !.over = TRUE]
    [] c = End -> IF s.expected THEN Value(s, <<>>) ELSE s
    [] c \in Quotes -> [s EXCEPT !.mode = c, !.expected = FALSE]
    [] c \in Delims -> [Value(s, <<>>) EXCEPT !.expected = TRUE]
    [] OTHER -> [s EXCEPT !.mode = "plain", !.param = <<c>>, !.expected = FALSE]

Plain(s, c, fl) ==
  IF c \in Delims \cup {End}
  THEN [Value(s, <<>>) EXCEPT !.expected = c # End /\ "empty_params" \in fl]
  ELSE [s EXCEPT !.param = Append(@, c)]

(* A lone escape is kept, two are one, and an escaped quote that ends the  *)
(* line was an escape and the quote, with the DOS flag.                    *)
Quoted(s, c, fl) ==
  LET lone == IF s.escaped THEN <<Escape>> ELSE <<>>
  IN CASE c = s.mode /\ s.escaped ->
            [s EXCEPT !.param = Append(@, c), !.escaped = FALSE,
                      !.was_escaped = "dos_catch" \in fl]
       [] c = s.mode -> Value(s, <<>>)
       [] c = Escape /\ "no_escape" \notin fl -> [s EXCEPT !.escaped = TRUE]
       [] c = End /\ s.was_escaped ->
            Value([s EXCEPT !.param = SubSeq(@, 1, Len(@) - 1)], <<Escape>>)
       [] c = End -> Value(s, lone)
       [] OTHER -> [s EXCEPT !.param = @ \o Append(lone, c), !.escaped = FALSE]

Extract(text, fl) ==
  LET Scan[n \in 0 .. Len(text) + 1] ==
        IF n = 0
        THEN [params |-> <<>>, param |-> <<>>, mode |-> "between", escaped |-> FALSE,
              was_escaped |-> FALSE, expected |-> FALSE, over |-> FALSE]
        ELSE LET s == Scan[n - 1]
                 t == [s EXCEPT !.was_escaped = FALSE]
                 c == IF n > Len(text) THEN End ELSE text[n]
             IN CASE s.over -> s
                  [] s.mode = "between" -> Meet(t, c, fl)
                  [] s.mode = "plain" -> Plain(t, c, fl)
                  [] OTHER -> Quoted(IF c = End THEN s ELSE t, c, fl)
  IN Scan[Len(text) + 1].params

-----------------------------------------------------------------------------
(* The keyword of a line, a parameter of one character here, or none. *)
Keyword(parameters) == IF Len(parameters[1]) = 1 THEN parameters[1][1] ELSE "none"
KeywordOf(id) == Keyword(line[id].params)
ItemOf(path) == [i \in DOMAIN path |-> KeywordOf(path[i])]
Greater(k, l) ==
  \E i, j \in DOMAIN Keywords : i > j /\ Keywords[i] = k /\ Keywords[j] = l

InOpen(id) == IF open = <<>> THEN id = 0 ELSE id = open[Len(open)]
Innermost == CHOOSE id \in DOMAIN tree : InOpen(id)
Shorter(path) == SubSeq(path, 1, Len(path) - 1)

(* A mistake the checks notice: lines are added in the order of the file.  *)
AddedLast(children, id, keyword) == Append(children, id)

(* Line::add() *)
Added(children, id, keyword) ==
  LET greater == {i \in DOMAIN children : Greater(KeywordOf(children[i]), keyword)}
      after == Cardinality({i \in DOMAIN children : \A j \in greater : i < j})
  IN SubSeq(children, 1, after) \o <<id>> \o SubSeq(children, after + 1, Len(children))

(* Line::sortChildren() *)
Sorted(children) == SortSeq(children, LAMBDA a, b : line[a].no < line[b].no)

(* Item(): -1 makes a maximum of 0, which is none if the minimum is more.  *)
Least(item) == Syntax[item].params
Most(item) ==
  CASE Syntax[item].max_params = -1 -> 0
    [] Syntax[item].max_params = 0 -> Least(item)
    [] OTHER -> Syntax[item].max_params
WrongParams(item, count) ==
  count < Least(item) \/ (Least(item) <= Most(item) /\ count > Most(item))

(* isValid(): both lists are taken to be sorted, so that the search stops  *)
(* at the first keyword counted that is not before the one looked for.     *)
Occurrences(id, keyword) ==
  LET children == tree[id]
      found == {i \in DOMAIN children : ~ Greater(keyword, KeywordOf(children[i]))}
      at == CHOOSE i \in found : \A j \in found : i <= j
  IN IF found = {} \/ KeywordOf(children[at]) # keyword
     THEN 0
     ELSE Cardinality({i \in DOMAIN children : KeywordOf(children[i]) = keyword})

Items(item) == {k \in {Keywords[i] : i \in DOMAIN Keywords} : Append(item, k) \in DOMAIN Syntax}

Misfit(item, count) ==
  CASE count < Syntax[item].least -> "few"
    [] Syntax[item].most # 0 /\ count > Syntax[item].most -> "many"
    [] OTHER -> "none"

Miscounted(id, item) ==
  {<<Misfit(Append(item, k), Occurrences(id, k)), k, IF id = 0 THEN 0 ELSE line[id].no>> :
     k \in {l \in Items(item) : Misfit(Append(item, l), Occurrences(id, l)) # "none"}}

-----------------------------------------------------------------------------
(* read() *)

readOnly == <<file, ended, flags, reads, writes, last, cursor, kept>>
Eof == line_no > Len(file)
Cut == ~ ended /\ file # <<>>

BeginRead ==
  /\ doing = "idle" /\ reads < MaxReads
  /\ doing' = "reading"
  /\ reads' = reads + 1
  /\ last' = "read"
  /\ line_no' = 0
  /\ open' = <<>> /\ objects' = <<>> /\ object_path' = <<>>
  /\ failed' = FALSE
  /\ told' = {}
  /\ past' = past \cup (IF tree[0] = <<>> THEN {} ELSE {"again"})
                  \cup (IF Cut THEN {"cut"} ELSE {})
  /\ root' \in BOOLEAN
  /\ UNCHANGED <<file, ended, flags, writes, params, tree, line, cursor, kept>>

(* getline() and extractParams(); nothing to place in a line without them. *)
(* The line without line feed is the last turn. *)
GetParams ==
  /\ doing = "reading" /\ params = <<>>
  /\ UNCHANGED <<tree, line, open, objects, object_path, root, told, readOnly>>
  /\ \/ /\ line_no' = line_no + 1
        /\ params' = IF Eof' THEN <<<<>>>> ELSE Extract(file[line_no'], flags)
        /\ doing' = IF params' = <<>> /\ line_no' = Len(file) /\ Cut THEN "idle" ELSE doing
        /\ UNCHANGED <<failed, past>>
     \/ /\ "cut" \notin past
        /\ past' = past \cup {"cut"}
        /\ failed' = TRUE
        /\ doing' = "idle"
        /\ UNCHANGED <<line_no, params>>

Found == Append(ItemOf(open), Keyword(params)) \in DOMAIN Syntax

(* The keyword is one of the item: a line in the tree, and an object. *)
Enter ==
  LET id == Len(line) + 1
      item == Append(ItemOf(open), Keyword(params))
      wrong == WrongParams(item, Len(params) - 1)
  IN /\ doing = "reading" /\ params # <<>> /\ Found
     /\ line' = Append(line, [params |-> params, no |-> line_no])
     /\ tree' = (id :> <<>>) @@ [tree EXCEPT ![Innermost] = Added(@, id, Keyword(params))]
     /\ open' = Append(open, id)
     /\ params' = <<>>
     /\ doing' = IF line_no = Len(file) /\ Cut THEN "idle" ELSE doing
     /\ \/ /\ wrong
           /\ told' = told \cup {<<"params", Keyword(params), line_no>>}
           /\ root' = FALSE /\ failed' = TRUE
           /\ UNCHANGED <<objects, object_path>>
        \/ /\ ~ wrong /\ root
           /\ told' = told \cup {<<"refused", Keyword(params), line_no>>}
           /\ root' = FALSE /\ failed' = TRUE
           /\ UNCHANGED <<objects, object_path>>
        \/ /\ ~ wrong /\ root
           /\ objects' = Append(objects,
                [line |-> id,
                 above |-> IF object_path = <<>> THEN 0 ELSE object_path[Len(object_path)]])
           /\ object_path' = Append(object_path, id)
           /\ UNCHANGED <<root, failed, told>>
        \/ ~ wrong /\ ~ root /\ UNCHANGED <<objects, object_path, root, failed, told>>
     /\ UNCHANGED <<line_no, past, readOnly>>

(* It is not: the children of the line are counted and sorted, and the one *)
(* above is tried. *)
Climb ==
  LET errors == Miscounted(Innermost, ItemOf(open))
      over == open = <<>>
      misplaced == IF over /\ ~ Eof THEN {<<"misplaced", Keyword(params), line_no>>} ELSE {}
  IN /\ doing = "reading" /\ params # <<>> /\ ~ Found
     /\ told' = told \cup errors \cup misplaced
     /\ failed' = (failed \/ errors # {} \/ misplaced # {})
     /\ root' = (root /\ errors = {})
     /\ object_path' = IF root' THEN Shorter(object_path) ELSE object_path
     /\ tree' = [tree EXCEPT ![Innermost] = Sorted(@)]
     /\ open' = Shorter(open)
     /\ params' = IF over THEN <<>> ELSE params
     /\ doing' = IF over THEN "idle" ELSE doing
     /\ UNCHANGED <<line, line_no, objects, past, readOnly>>

-----------------------------------------------------------------------------
(* write() and clear() *)

Indent(level) == [i \in 1 .. 2 * level |-> " "]
Written(parameters, level) ==
  Indent(level) \o parameters[1]
    \o Sequence!FlattenSeq([i \in 1 .. Len(parameters) - 1 |->
                       <<" ", "\"">> \o parameters[i + 1] \o <<"\"">>])

(* A mistake the checks notice: the end of the children of a line is not   *)
(* that of those of the line above. *)
AdvanceOne(path) ==
  LET id == path[Len(path)]
      above == IF Len(path) = 1 THEN 0 ELSE path[Len(path) - 1]
      at == CHOOSE i \in DOMAIN tree[above] : tree[above][i] = id
  IN CASE path = <<>> -> <<tree[0][1]>>
       [] path # <<>> /\ tree[id] # <<>> -> Append(path, tree[id][1])
       [] path # <<>> /\ tree[id] = <<>> /\ at < Len(tree[above]) ->
            Append(Shorter(path), tree[above][at + 1])
       [] OTHER -> <<>>

(* Line::line(): the first child, or the next child of the line above, or  *)
(* of the one above it ... *)
After[path \in Seq(Nat)] ==
  LET id == path[Len(path)]
      siblings == tree[IF Len(path) = 1 THEN 0 ELSE path[Len(path) - 1]]
      at == CHOOSE i \in DOMAIN siblings : siblings[i] = id
  IN CASE path = <<>> -> <<>>
       [] path # <<>> /\ at < Len(siblings) -> Append(Shorter(path), siblings[at + 1])
       [] OTHER -> After[Shorter(path)]

Advance(path) ==
  CASE path = <<>> -> <<tree[0][1]>>
    [] path # <<>> /\ tree[path[Len(path)]] # <<>> -> Append(path, tree[path[Len(path)]][1])
    [] OTHER -> After[path]

OutlineFrom[id, level \in Nat] ==
  Sequence!FlattenSeq([i \in DOMAIN tree[id] |->
    <<[params |-> line[tree[id][i]].params, level |-> level]>>
      \o OutlineFrom[tree[id][i], level + 1]])
Outline == OutlineFrom[0, 0]

(* write() escapes nothing: what its quotes do not protect is lost.        *)
Rewritable(parameters, fl) ==
  /\ "empty_params" \notin fl
  /\ \A i \in 2 .. Len(parameters) :
       LET p == parameters[i]
       IN /\ \A c \in DOMAIN p : p[c] # "\""
          /\ "no_escape" \notin fl =>
               /\ \A c \in 1 .. Len(p) - 1 : ~ (p[c] = Escape /\ p[c + 1] = Escape)
               /\ p # <<>> /\ p[Len(p)] = Escape =>
                    "dos_catch" \in fl /\ i = Len(parameters)

(* An empty tree is not written: the code takes its first line.            *)
BeginWrite ==
  /\ doing = "idle" /\ writes < MaxReads
  /\ tree[0] # <<>> /\ "dangling" \notin past
  /\ doing' = "writing"
  /\ writes' = writes + 1
  /\ last' = "write"
  /\ file' = <<>> /\ ended' = TRUE
  /\ kept' = IF /\ past = {} /\ cursor = <<>>
                /\ \A id \in DOMAIN line : Rewritable(line[id].params, flags)
             THEN Outline ELSE <<>>
  /\ UNCHANGED <<flags, reads, params, tree, line, line_no, open, objects, object_path,
                 root, failed, told, cursor, past>>

(* One line, which may not get into the file: the next write() goes on in  *)
(* the middle of the tree. *)
WriteLine ==
  /\ doing = "writing"
  /\ cursor' = Advance(cursor)
  /\ \/ /\ cursor' # <<>>
        /\ file' = Append(file, Written(line[cursor'[Len(cursor')]].params, Len(cursor') - 1))
        /\ UNCHANGED <<doing, kept, past>>
     \/ cursor' = <<>> /\ doing' = "idle" /\ UNCHANGED <<file, kept, past>>
     \/ /\ cursor' # <<>> /\ "torn" \notin past
        /\ past' = past \cup {"torn"}
        /\ kept' = <<>>
        /\ doing' = "idle"
        /\ UNCHANGED file
  /\ UNCHANGED <<ended, flags, reads, writes, last, params, tree, line, line_no, open,
                 objects, object_path, root, failed, told>>

Clear ==
  /\ doing = "idle" /\ tree[0] # <<>>
  /\ last' = "clear"
  /\ tree' = (0 :> <<>>)
  /\ line' = <<>>
  /\ past' = past \cup (IF cursor = <<>> THEN {} ELSE {"dangling"})
  /\ UNCHANGED <<file, ended, flags, doing, reads, writes, params, line_no, open, objects,
                 object_path, root, failed, told, cursor, kept>>

ConfigNext ==
  BeginRead \/ GetParams \/ Enter \/ Climb \/ BeginWrite \/ WriteLine \/ Clear

-----------------------------------------------------------------------------
(* What read() should make of a file. *)
AboveOf(id) == CHOOSE p \in DOMAIN tree : \E i \in DOMAIN tree[p] : tree[p][i] = id

PathOf[id \in Nat] == IF id = 0 THEN <<>> ELSE Append(PathOf[AboveOf(id)], id)

Accepts(path, keyword) == Append(ItemOf(path), keyword) \in DOMAIN Syntax

(* A line is under the innermost of those open before it that takes it. *)
Nearest(path, n, keyword) ==
  /\ Accepts(SubSeq(path, 1, n), keyword)
  /\ \A m \in n + 1 .. Len(path) : ~ Accepts(SubSeq(path, 1, m), keyword)

TreeIsOfFile(meant, stop) ==
  /\ {n \in DOMAIN meant : meant[n] # <<>> /\ n < stop}
       = {line[id].no : id \in DOMAIN line}
  /\ \A id \in DOMAIN line :
       /\ line[id].params = meant[line[id].no]
       /\ \A other \in 1 .. id - 1 : line[other].no < line[id].no
       /\ Nearest(PathOf[id - 1], Len(PathOf[id]) - 1, KeywordOf(id))
  /\ \A id \in DOMAIN tree : \A i \in 2 .. Len(tree[id]) : tree[id][i - 1] < tree[id][i]
  /\ stop \in DOMAIN meant =>
       \A n \in 0 .. Len(PathOf[Len(line)]) :
         ~ Accepts(SubSeq(PathOf[Len(line)], 1, n), Keyword(meant[stop]))

CountOf(id, keyword) ==
  Cardinality({child \in DOMAIN line : AboveOf(child) = id /\ KeywordOf(child) = keyword})

(* The errors in one line, or in the lines under it. *)
ErrorsOf(id) ==
  (IF id # 0 /\ WrongParams(ItemOf(PathOf[id]), Len(line[id].params) - 1)
   THEN {<<"params", KeywordOf(id), line[id].no>>} ELSE {})
  \cup
  {<<Misfit(Append(ItemOf(PathOf[id]), k), CountOf(id, k)), k, IF id = 0 THEN 0 ELSE line[id].no>> :
     k \in {l \in Items(ItemOf(PathOf[id])) :
              Misfit(Append(ItemOf(PathOf[id]), l), CountOf(id, l)) # "none"}}

(* When a file was read into an empty tree to its end, the tree has its    *)
(* lines, each in its place; read() succeeded if each of them has as many  *)
(* parameters and lines under it as it may, was told of all that do not,   *)
(* and made objects, in the order and in the tree of their lines, up to    *)
(* the first error. A last line without line feed ends the checks (461).   *)
ReadIsTold ==
  doing = "idle" /\ last = "read" /\ past \cap {"again", "cut"} = {} =>
    LET meant == [n \in DOMAIN file |-> Extract(file[n], flags)]
        misplaced == {e \in told : e[1] = "misplaced"}
        stop == IF misplaced = {} THEN Len(file) + 1 ELSE (CHOOSE e \in misplaced : TRUE)[3]
        refused == {e \in told : e[1] = "refused"}
        errors == UNION {ErrorsOf(id) : id \in DOMAIN tree}
        Closed(id, next) == id < next /\ \A i \in DOMAIN PathOf[next] : PathOf[next][i] # id
    IN /\ TreeIsOfFile(meant, stop)
       /\ told = errors \cup misplaced \cup refused
       /\ failed = (told # {})
       /\ root /\ ~ failed => Len(objects) = Len(line)
       /\ \A id \in DOMAIN objects :
            /\ objects[id] = [line |-> id, above |-> AboveOf(id)]
            /\ ErrorsOf(id) = {} \/ \A e \in ErrorsOf(id) : e[1] # "params"
            /\ \A other \in 1 .. id - 1 : Closed(other, id) => ErrorsOf(other) = {}

(* Two parameters of up to two characters, of those that mean something. *)
ShortParams ==
  {<<<<Keywords[1]>>, p, q>> :
     p, q \in Seqs(Delims \cup Quotes \cup Comments \cup {Escape, "x"}, 2)}
QuotesProtect ==
  \A fl \in FlagSets : \A p \in ShortParams : Rewritable(p, fl) = (Extract(Written(p, 0), fl) = p)

(* What write() wrote reads back as the tree that it wrote, unless a       *)
(* parameter has what its quotes do not protect; a write() that failed     *)
(* makes the next one begin where it stopped (513), and a read that was    *)
(* cut leaves lines in an order that does not read back. *)
ReadsBack ==
  /\ last = "none" /\ file = <<>> => QuotesProtect     \* the same in all states
  /\ doing = "idle" /\ kept # <<>> /\ tree[0] # <<>> /\ past = {} => Outline = kept
=============================================================================
