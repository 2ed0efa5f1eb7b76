------------------------------ MODULE MCUtilities ------------------------------
(* An instance of Utilities for TLC: lines that end by one character or    *)
(* two, shares of which two have the same name, and a syntax where a       *)
(* keyword has its place at two levels, with a file of everything that     *)
(* read() tells apart: good and wrong numbers of parameters, a quoted one, *)
(* an escape at the end of the line, comments and an unknown keyword.      *)
EXTENDS Utilities

MCDelimiters == {<<"n", NoChar>>, <<"r", "n">>}

MCRequests ==
  { [protocol |-> "file", share |-> NoShare],
    [protocol |-> "smb", share |-> NoShare],
    [protocol |-> "smb", share |-> "//host/C$"],
    [protocol |-> "nfs", share |-> "host:path"],
    [protocol |-> "ssh", share |-> "host:path"],
    [protocol |-> "ssh", share |-> "user@host:path"] }

MCKeywords == <<"a", "b", "c">>

LOCAL Arguments(least, most, min_params, max_params) ==
  [least |-> least, most |-> most, params |-> min_params, max_params |-> max_params]

MCSyntax ==
  (<<>> :> Arguments(0, 0, 0, 0)) @@
  (<<"a">> :> Arguments(0, 1, 0, 0)) @@
  (<<"b">> :> Arguments(1, 0, 0, 1)) @@
  (<<"b", "a">> :> Arguments(1, 1, 1, -1)) @@
  (<<"b", "c">> :> Arguments(0, 1, 0, -1))

MCRawLines ==
  { <<"a">>,
    <<"b", " ", "'", "#", "'">>,
    <<"b">>,
    <<" ", "a", " ", "\"", "x", "\\", "\"">>,
    <<"c", " ", "#">>,
    <<"#">>,
    <<"z">> }

MCFlagSets == {{}, {"dos_catch"}, {"no_escape"}, {"empty_params"}}
=============================================================================
