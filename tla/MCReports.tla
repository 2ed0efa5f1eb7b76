------------------------------- MODULE MCReports -------------------------------
(* An instance of Reports for TLC: levels with and without a prefix, and   *)
(* conditions of every mode, on lines and on functions.                    *)
EXTENDS Reports

MCPrefix == [low |-> 1, high |-> 0]

Condition(mode, file, function, min_line, max_line, min_level) ==
  [mode |-> mode, file |-> file, function |-> function, min_line |-> min_line,
   max_line |-> max_line, min_level |-> min_level, max_level |-> 2]

MCConditions ==
  { Condition("reject", "a", "", 0, 2, 0),
    Condition("force", "", "", 2, 0, 1),
    Condition("accept", "a", "f", 0, 0, 0) }

MCMessages ==
  { [file |-> file, line |-> IF file = "a" THEN 1 ELSE 2,
     function |-> IF level = 1 THEN "g" ELSE "f", level |-> level] :
       file \in {"a", "b"}, level \in 0 .. 2 }
=============================================================================
