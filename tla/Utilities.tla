------------------------------- MODULE Utilities -------------------------------
(***************************************************************************)
(* The parts of the toolbox that stand alone, side by side: lines of text, *)
(* the tree of hashes, the lock between processes, the shares and the      *)
(* configuration. None of them knows another, and in a behaviour only one  *)
(* moves.                                                                  *)
(***************************************************************************)
EXTENDS LineReaderWriter, HashTree, ProcessMutex, Share, Configuration

VARIABLES
  part              \* bound: which of the five moves

vars == <<lineVars, treeVars, mutexVars, shareVars, configVars, part>>

Init ==
  /\ part \in {"lines", "tree", "mutex", "share", "configuration"}
  /\ LineInit
  /\ TreeInit
  /\ MutexInit
  /\ ShareInit
  /\ ConfigInit
  /\ part # "lines" => delims = CHOOSE d \in Delimiters : TRUE
  /\ part # "mutex" =>
       address = [p \in Processes |-> CHOOSE b \in LastBytes : TRUE]
  /\ part # "configuration" =>
       file = <<>> /\ ended /\ flags = CHOOSE f \in FlagSets : TRUE

OnLines ==
  part = "lines" /\ LineNext /\ UNCHANGED <<treeVars, mutexVars, shareVars, configVars, part>>
OnTree ==
  part = "tree" /\ TreeNext /\ UNCHANGED <<lineVars, mutexVars, shareVars, configVars, part>>
OnMutex ==
  part = "mutex" /\ MutexNext /\ UNCHANGED <<lineVars, treeVars, shareVars, configVars, part>>
OnShare ==
  part = "share" /\ ShareNext /\ UNCHANGED <<lineVars, treeVars, mutexVars, configVars, part>>
OnConfiguration ==
  /\ part = "configuration"
  /\ ConfigNext
  /\ UNCHANGED <<lineVars, treeVars, mutexVars, shareVars, part>>

Next == OnLines \/ OnTree \/ OnMutex \/ OnShare \/ OnConfiguration

Spec == Init /\ [][Next]_vars

-----------------------------------------------------------------------------
(* HolderBelieved, PointBelieved, and the following, each of which is      *)
(* evaluated when its part is the one that moves.                          *)

(* However calls of getLine(), read() and get() follow each other, no byte *)
(* is lost or given twice and a line is one (WholeLines in                 *)
(* LineReaderWriter).                                                      *)
LinesAreWhole == part = "lines" => WholeLines

(* Whatever was added and removed, the tree is walked through in the order *)
(* of the hashes (WalkInOrder in HashTree).                                *)
TreeInOrder == part = "tree" => WalkInOrder

(* read() builds the tree and the objects of the file, and tells of every  *)
(* error in it (ReadIsTold in Configuration).                              *)
ReadTold == part = "configuration" => ReadIsTold

(* What write() wrote reads back as what it was (ReadsBack in              *)
(* Configuration).                                                         *)
Rewritten == part = "configuration" => ReadsBack
=============================================================================
