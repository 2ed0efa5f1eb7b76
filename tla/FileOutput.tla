------------------------------ MODULE FileOutput ------------------------------
(***************************************************************************)
(* Report::FileOutput of src/src/report.cpp: a log file that is rotated    *)
(* when it is opened and when it is full, its backups numbered and         *)
(* possibly zipped, while renames, zips and opens may fail, the process    *)
(* may die at any step, and somebody else may move the log away.           *)
(*                                                                         *)
(* A file is the number of its generation: each time the log is created    *)
(* or truncated begins one. A zipped file that is not complete is the      *)
(* number with its sign changed.                                           *)
(***************************************************************************)
EXTENDS Integers, FiniteSets

CONSTANTS
  MaxLines,         \* max_lines, 0 for no limit
  Backups,          \* the values of max_files; a new process does not raise it
  MaxGenerations,   \* bound: logs created
  MaxSetbacks,      \* bound: processes that die and renames that fail
  MaxFailures       \* bound: zips and opens that fail

ASSUME LimitsAssumption ==
  /\ {MaxLines, MaxGenerations, MaxSetbacks, MaxFailures} \subseteq Nat
  /\ Backups \subseteq Nat
  /\ \E n \in Backups : \A m \in Backups : m <= n

VARIABLES
  max_files,
  zip_backups,
  disk,             \* for each number, the plain file and the ".gz", or None
  fd,               \* the file that is open, or None
  lines,            \* written to it, as FileOutput counts
  job,              \* the call in progress: "none", "open" or "log"
  step,             \* and where it is
  slot,             \* the number of the backup it is at
  generations,
  filled,           \* the generations with at least a line
  moved,            \* those somebody moved away
  spoilt,           \* those truncated because a rename failed
  setbacks,         \* processes that died and renames that failed
  failures          \* zips and opens that failed

fileVars == <<max_files, zip_backups, disk, fd, lines, job, step, slot,
              generations, filled, moved, spoilt, setbacks, failures>>

None == 0
Extensions == {"plain", ".gz"}
Most == CHOOSE n \in Backups : \A m \in Backups : m <= n
Slots == 0 .. Most + 1
Generations == 1 .. MaxGenerations

FileInit ==
  /\ max_files \in Backups
  /\ zip_backups \in BOOLEAN
  /\ disk = [n \in Slots |-> [e \in Extensions |-> None]]
  /\ fd = None
  /\ lines = 0
  /\ job = "none"
  /\ step = "none"
  /\ slot = 0
  /\ generations = 0
  /\ filled = {}
  /\ moved = {}
  /\ spoilt = {}
  /\ setbacks = 0
  /\ failures = 0

-----------------------------------------------------------------------------
(* open() and log() begin with checkRotate(). Report only logs to outputs  *)
(* that are open.                                                          *)

Log == disk[0]["plain"]

Begin(call, next) ==
  /\ job' = call
  /\ step' = next
  /\ slot' = IF next = "rotate" THEN max_files ELSE 0
  /\ UNCHANGED <<max_files, zip_backups, disk, generations, filled, moved, spoilt,
                 setbacks, failures>>

CallOpen ==
  /\ job = "none"
  /\ lines' = 0
  /\ fd' = IF Log = None THEN None ELSE fd
  /\ Begin("open", IF Log \in filled THEN "rotate" ELSE "reopen")

Full == MaxLines # 0 /\ lines >= MaxLines

CallLog ==
  /\ job = "none"
  /\ fd # None
  /\ fd' = IF Log = None \/ Full THEN None ELSE fd
  /\ UNCHANGED lines
  /\ Begin("log", IF Log # None /\ Full THEN "rotate" ELSE "reopen")

CallClose ==
  /\ job = "none"
  /\ fd # None
  /\ fd' = None
  /\ UNCHANGED <<max_files, zip_backups, disk, lines, job, step, slot, generations, filled,
                 moved, spoilt, setbacks, failures>>

(* After fopen(), which truncates; an empty file stays the same. *)
Reopen ==
  /\ step = "reopen"
  /\ \/ fd # None /\ UNCHANGED <<fd, disk, generations, spoilt, failures>> /\ lines' = lines
     \/ /\ fd = None
        /\ lines' = 0
        /\ \/ /\ Log # None /\ Log \notin filled
              /\ fd' = Log
              /\ UNCHANGED <<disk, generations, spoilt, failures>>
           \/ /\ Log = None \/ Log \in filled
              /\ generations < MaxGenerations
              /\ generations' = generations + 1
              /\ fd' = generations'
              /\ disk' = [disk EXCEPT ![0]["plain"] = fd']
              /\ spoilt' = spoilt \cup ({Log} \ {None})
              /\ UNCHANGED failures
           \/ /\ failures < MaxFailures
              /\ failures' = failures + 1
              /\ UNCHANGED <<fd, disk, generations, spoilt>>
  /\ step' = IF job = "log" /\ fd' # None THEN "write" ELSE "none"
  /\ job' = IF step' = "none" THEN "none" ELSE job
  /\ UNCHANGED <<max_files, zip_backups, slot, filled, moved, setbacks>>

Write ==
  /\ step = "write"
  /\ lines' = lines + 1
  /\ filled' = filled \cup {fd}
  /\ step' = "none"
  /\ job' = "none"
  /\ UNCHANGED <<max_files, zip_backups, disk, fd, slot, generations, moved, spoilt,
                 setbacks, failures>>

-----------------------------------------------------------------------------
(* rotate(): from the oldest backup to the log itself. *)

Rotation == UNCHANGED <<max_files, zip_backups, fd, lines, job, generations, filled,
                        moved, spoilt>>

(* findExtension(): plain first, if both are there. *)
Found(n) == {e \in Extensions : disk[n][e] # None /\ (e = ".gz" => disk[n]["plain"] = None)}

(* The next slot down, and after the log what was kept too long. *)
Down ==
  IF slot = 0 THEN step' = "trim" /\ slot' = max_files + 1
  ELSE step' = "rotate" /\ slot' = slot - 1

(* A mistake the checks notice: the file is also left where it was. *)
CopiedOver(n, e) == [disk EXCEPT ![n + 1][e] = disk[n][e]]

Renamed(n, e) == [disk EXCEPT ![n][e] = None, ![n + 1][e] = disk[n][e]]

RotateSlot ==
  /\ step = "rotate"
  /\ \/ Found(slot) = {} /\ Down /\ UNCHANGED <<disk, setbacks>>
     \/ \E e \in Found(slot) :
          \/ /\ slot = max_files
             /\ disk' = [disk EXCEPT ![slot][e] = None]
             /\ Down
             /\ UNCHANGED setbacks
          \/ /\ slot # max_files
             /\ disk' = Renamed(slot, e)
             /\ IF zip_backups /\ e = "plain" THEN step' = "zip" /\ UNCHANGED slot ELSE Down
             /\ UNCHANGED setbacks
          \/ /\ slot # max_files
             /\ setbacks < MaxSetbacks
             /\ setbacks' = setbacks + 1
             /\ step' = "trim"
             /\ slot' = max_files + 1
             /\ UNCHANGED disk
  /\ UNCHANGED failures
  /\ Rotation

(* A mistake the checks notice: a zip that failed removes what it zipped.  *)
ForgetZipAndSource(n) == [disk EXCEPT ![n] = [e \in Extensions |-> None]]

ForgetZip(n) == [disk EXCEPT ![n][".gz"] = None]

ForgetSource(n) == [disk EXCEPT ![n]["plain"] = None]

(* zip(): the file moved from this slot to the one above. *)
ZipBackup ==
  /\ \/ /\ step = "zip"
        /\ disk' = [disk EXCEPT ![slot + 1][".gz"] = - disk[slot + 1]["plain"]]
        /\ step' = "zipping"
        /\ UNCHANGED <<slot, failures>>
     \/ /\ step = "zipping"
        /\ disk' = [disk EXCEPT ![slot + 1][".gz"] = disk[slot + 1]["plain"]]
        /\ step' = "zipped"
        /\ UNCHANGED <<slot, failures>>
     \/ /\ step = "zipped"
        /\ disk' = ForgetSource(slot + 1)
        /\ Down
        /\ UNCHANGED failures
     \/ /\ step \in {"zip", "zipping"}
        /\ failures < MaxFailures
        /\ failures' = failures + 1
        /\ disk' = ForgetZip(slot + 1)
        /\ Down
  /\ UNCHANGED setbacks
  /\ Rotation

Trim ==
  /\ step = "trim"
  /\ IF slot \in Slots /\ Found(slot) # {}
     THEN /\ \E e \in Found(slot) : disk' = [disk EXCEPT ![slot][e] = None]
          /\ slot' = slot + 1
          /\ UNCHANGED step
     ELSE step' = "reopen" /\ slot' = 0 /\ UNCHANGED disk
  /\ UNCHANGED failures
  /\ UNCHANGED setbacks
  /\ Rotation

-----------------------------------------------------------------------------
(* Another process starts after this one died, possibly with fewer backups. *)
Crash ==
  /\ setbacks < MaxSetbacks
  /\ setbacks' = setbacks + 1
  /\ fd' = None
  /\ job' = "none"
  /\ step' = "none"
  /\ slot' = 0
  /\ lines' = 0
  /\ max_files' \in {n \in Backups : n <= max_files}
  /\ UNCHANGED <<zip_backups, disk, generations, filled, moved, spoilt, failures>>

MoveAway ==
  /\ Log # None
  /\ job = "none"
  /\ moved' = moved \cup {Log}
  /\ disk' = [disk EXCEPT ![0]["plain"] = None]
  /\ UNCHANGED <<max_files, zip_backups, fd, lines, job, step, slot, generations, filled, spoilt,
                 setbacks, failures>>

FileNext ==
  \/ CallOpen \/ CallLog \/ CallClose \/ Reopen \/ Write
  \/ RotateSlot \/ ZipBackup \/ Trim \/ Crash \/ MoveAway

FileSpec == FileInit /\ [][FileNext]_fileVars

-----------------------------------------------------------------------------
(* What a slot holds for rotate(), complete or not. *)
Holds(n) == CHOOSE g \in Generations : \E e \in Found(n) : g \in {disk[n][e], -disk[n][e]}
Intact(g) == \E n \in Slots, e \in Extensions : disk[n][e] = g

(* Backups are numbered by age at any step of rotate() and zip(), also if  *)
(* the process died or a rename failed at one of them before (474-532); if *)
(* none did, no log is there under two numbers. A second setback may leave *)
(* an old zipped copy under a newer backup.                                *)
InOrder ==
  setbacks <= 1 =>
    \A m, n \in Slots :
      m < n /\ Found(m) # {} /\ Found(n) # {} =>
        Holds(n) <= Holds(m) /\ (setbacks = 0 => Holds(n) # Holds(m))

(* The last max_files logs are there, whole, plain or zipped: nothing is   *)
(* removed early, and no zip that fails or is interrupted loses what it    *)
(* zips. Each setback costs the oldest of them, and the log itself when it *)
(* is truncated although it could not be renamed (409 ignores what         *)
(* rotate() returns).                                                      *)
Kept ==
  job = "none" =>
    LET before == filled \ ({Log} \cup moved \cup spoilt)
    IN \A g \in before :
         Cardinality({h \in before : h > g}) < max_files - setbacks => Intact(g)
=============================================================================
