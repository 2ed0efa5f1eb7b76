------------------------------- MODULE MCTlv -------------------------------
(* An instance of TlvManagers for TLC: lists of objects that meet every    *)
(* kind, both sides of the longest part, and every refusal.                *)
EXTENDS TlvManagers

Object(kind, tag, data) == [kind |-> kind, tag |-> tag, data |-> data, fails |-> FALSE]
Blob(size) == Object("blob", "blob", [i \in 1 .. size |-> i])

MCScripts ==
  { << Object("bool", "bool", <<1>>), Blob(2) >>,
    << Blob(3), Object("int", "int", <<5>>) >>,
    << Object("big", "big", <<1, 2>>), Object("string", "string", <<3>>) >>,
    << Blob(0), Object("int", "int", <<Widest>>) >>,
    << Blob(1) >>,
    << Blob(4) >>,
    << Object("string", "string", <<1, 2, 3>>) >>,
    << [Object("big", "big", <<1>>) EXCEPT !.fails = TRUE] >>,
    << Object("bool", "odd", <<>>) >> }

MCBrittle == {<<Blob(1)>>}

MCMisread == {[tag |-> "odd", len |-> 0]}

MCTags == {"bool", "int", "string", "blob", "big", "odd", "size", "log", "message"}
=============================================================================
