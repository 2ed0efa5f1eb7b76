-------------------------------- MODULE Reports --------------------------------
(***************************************************************************)
(* The parts of src/src/report.cpp side by side: what the console shows,   *)
(* what becomes of the files, and who hears of which level. None of them   *)
(* changes the state of another, and in a behaviour only one moves.        *)
(***************************************************************************)
EXTENDS ConsoleOutput, FileOutput, Report

VARIABLES
  part              \* bound: which of the three moves

vars == <<consoleVars, fileVars, reportVars, part>>

Init ==
  /\ part \in {"console", "file", "report"}
  /\ ConsoleInit
  /\ FileInit
  /\ ReportInit
  /\ part # "console" => last_level = "low"
  /\ part # "file" => max_files = 0 /\ ~ zip_backups

OnConsole == part = "console" /\ ConsoleNext /\ UNCHANGED <<fileVars, reportVars, part>>
OnFile == part = "file" /\ FileNext /\ UNCHANGED <<consoleVars, reportVars, part>>
OnReport == part = "report" /\ ReportNext /\ UNCHANGED <<consoleVars, fileVars, part>>

Next == OnConsole \/ OnFile \/ OnReport

Spec == Init /\ [][Next]_vars
=============================================================================
