-------------------------------- MODULE Report --------------------------------
(***************************************************************************)
(* src/src/observer.cpp and the outputs, filters and levels of             *)
(* src/src/report.cpp: who observes whom, what each change of a level or   *)
(* of a condition makes the observers above believe, and which outputs a   *)
(* message reaches.                                                        *)
(*                                                                         *)
(* A Report with its console and the filter on it, the output to a file,   *)
(* and one more filter, which the caller creates on any of them and        *)
(* destroys. The caller destroys no output under a filter that still needs *)
(* it.                                                                     *)
(***************************************************************************)
EXTENDS Integers, Sequences, SequencesExt

CONSTANTS
  Levels,           \* 0 is alert; more is less critical
  Info,             \* the level of a new output
  Chosen,           \* bound: the levels the caller sets
  Conditions,       \* that filters may be given
  Messages,         \* that may be logged
  MaxConditions,    \* bound: conditions given to all filters, ever
  MaxObserving      \* bound: outputs added to the report at a time

VARIABLES
  output,           \* Filter::_output
  auto_delete,      \* Filter::_auto_delete of the filter the caller creates
  net,              \* the rest of what outputs, filters and the report hold
  given,            \* the index of each filter's last condition
  silent,           \* whether a file was opened or closed, which notifies nobody,
                    \* since the report was last notified
  touched           \* outputs used after their destruction

reportVars == <<output, auto_delete, net, given, silent, touched>>

Sinks == {"console", "file"}
Filters == {"con_filter", "filter"}
Outputs == Sinks \cup Filters
Observers == Filters \cup {"report"}
Alert == 0
Nothing == "none"

(* net.level is _level, net.open _open or whether the file is open, and    *)
(* net.alive what exists; observers and observees are the lists. *)
(* Report::Report(): the console is open, its filter registered. *)
ReportInit ==
  /\ output = [f \in Filters |-> IF f = "con_filter" THEN "console" ELSE Nothing]
  /\ auto_delete = FALSE
  /\ net = [alive |-> Sinks \cup {"con_filter"},
            observers |-> [e \in Outputs |-> CASE e = "console" -> <<"con_filter">>
                                               [] e = "con_filter" -> <<"report">>
                                               [] OTHER -> <<>>],
            observees |-> [o \in Observers |-> CASE o = "con_filter" -> <<"console">>
                                                 [] o = "report" -> <<"con_filter">>
                                                 [] OTHER -> <<>>],
            open |-> [s \in Sinks |-> s = "console"],
            level |-> [o \in Outputs \cup {"report"} |-> Info],
            conditions |-> [f \in Filters |-> <<>>]]
  /\ given = [f \in Filters |-> 0]
  /\ silent = FALSE
  /\ touched = {}

-----------------------------------------------------------------------------
(* notify(): each observer works out its level, and a filter notifies its  *)
(* own observers.                                                          *)

RECURSIVE IsOpen(_, _)
IsOpen(n, o) == IF o \in Sinks THEN n.open[o] ELSE IsOpen(n, output[o])

Highest(levels) == CHOOSE l \in levels : \A k \in levels : k <= l

ReportLevel(n) ==
  Highest({Alert} \cup {n.level[o] : o \in {p \in ToSet(n.observees["report"]) : IsOpen(n, p)}})

(* A mistake the checks notice: forced messages do not raise the level. *)
FilterLevelOfOutput(n, f) == n.level[output[f]]

FilterLevel(n, f) ==
  Highest({n.level[output[f]]}
          \cup {c.condition.max_level : c \in {d \in ToSet(n.conditions[f]) : d.condition.mode = "force"}})

RECURSIVE Notify(_, _)
Notify(n, o) ==
  IF o = "report"
  THEN [n EXCEPT !.level["report"] = ReportLevel(n)]
  ELSE FoldLeft(Notify, [n EXCEPT !.level[o] = FilterLevel(n, o)], n.observers[o])

NotifyObservers(n, e) == FoldLeft(Notify, n, n.observers[e])

(* Whether the report hears what e tells its observers. *)
RECURSIVE ReachesReport(_, _)
ReachesReport(n, e) ==
  \E o \in ToSet(n.observers[e]) : o = "report" \/ ReachesReport(n, o)

Heed(e) == silent' = (silent /\ ~ ReachesReport(net', e))

(* Observee::registerObserver(), unregisterObserver() and ~Observee().     *)
Register(n, e, o) ==
  Notify([n EXCEPT !.observers[e] = Append(@, o), !.observees[o] = Append(@, e)], o)

(* A mistake the checks notice: the observer goes on observing. *)
UnregisterHalf(n, e, o) == Notify([n EXCEPT !.observers[e] = Remove(@, o)], o)

Unregister(n, e, o) ==
  Notify([n EXCEPT !.observers[e] = Remove(@, o), !.observees[o] = Remove(@, e)], o)

DestroyObservee(n, e) ==
  FoldLeft(LAMBDA m, o : Notify([m EXCEPT !.observees[o] = Remove(@, e)], o),
           [n EXCEPT !.alive = @ \ {e}], n.observers[e])

Destroyed(n, e) == [DestroyObservee(n, e) EXCEPT !.observers[e] = <<>>]

(* ~FileOutput() closes it first. *)
FileDestroyed(n) == Destroyed([n EXCEPT !.open["file"] = FALSE], "file")

-----------------------------------------------------------------------------
(* What the caller does.                                                   *)

Only(step) == step /\ UNCHANGED <<output, auto_delete, given, touched>>

(* IOutput::setLevel(); Filter::setLevel() passes it on, and notifies. *)
RECURSIVE WithLevel(_, _, _)
WithLevel(n, o, l) ==
  IF o \in Sinks
  THEN NotifyObservers([n EXCEPT !.level[o] = l], o)
  ELSE NotifyObservers(WithLevel(n, output[o], l), o)

RECURSIVE Sink(_)
Sink(o) == IF o \in Sinks THEN o ELSE Sink(output[o])

SetLevel(o, l) == Only(o \in net.alive /\ net' = WithLevel(net, o, l) /\ Heed(Sink(o)))

(* Report::setLevel(): of all its outputs. *)
SetAllLevels(l) ==
  Only(/\ net' = FoldLeft(LAMBDA n, o : WithLevel(n, o, l), net, net.observees["report"])
       /\ silent' = (silent /\ net.observees["report"] = <<>>))

(* IOutput::open() and close() notify; those of FileOutput do not. *)
OpenOrClose(s, opened) ==
  LET after == [net EXCEPT !.open[s] = opened]
  IN Only(/\ s \in net.alive
          /\ \/ s = "console" /\ net' = NotifyObservers(after, s) /\ Heed(s)
             \/ s = "file" /\ net' = after /\ silent' = TRUE)

(* Report::add() and remove(). *)
AddOutput(o) ==
  Only(/\ o \in net.alive
       /\ Len(net.observees["report"]) < MaxObserving
       /\ net' = Register(net, o, "report")
       /\ silent' = FALSE)

RemoveOutput(o) ==
  Only(o \in net.alive /\ net' = Unregister(net, o, "report") /\ silent' = FALSE)

(* addCondition() and removeCondition(), which notify this filter.         *)
AddCondition(f, c) ==
  /\ f \in net.alive
  /\ given["filter"] + given["con_filter"] < MaxConditions
  /\ given' = [given EXCEPT ![f] = @ + 1]
  /\ net' = Notify([net EXCEPT !.conditions[f] =
                      Append(@, [condition |-> c, index |-> given'[f]])], f)
  /\ Heed(f)
  /\ UNCHANGED <<output, auto_delete, touched>>

RemoveCondition(f, i) ==
  Only(/\ f \in net.alive
       /\ net' = Notify([net EXCEPT !.conditions[f] = SelectSeq(@, LAMBDA c : c.index # i)], f)
       /\ Heed(f))

(* Filter::Filter() on an output. *)
CreateFilter(o, auto) ==
  /\ "filter" \notin net.alive
  /\ o \in net.alive
  /\ auto => o = "file"
  /\ output' = [output EXCEPT !["filter"] = o]
  /\ auto_delete' = auto
  /\ net' = LET n == [net EXCEPT !.alive = @ \cup {"filter"}, !.level["filter"] = Info,
                                 !.observers[o] = Append(@, "filter"),
                                 !.observees["filter"] = <<o>>]
            IN [n EXCEPT !.level["filter"] = n.level[o]]
  /\ UNCHANGED <<given, silent, touched>>

(* ~Filter(), then ~Observer() and ~Observee(). An output deleted with the *)
(* filter is still among its observees, and ~Observer() writes to it. *)
DestroyFilter ==
  /\ "filter" \in net.alive
  /\ LET o == output["filter"]
         apart == [net EXCEPT !.observers[o] = Remove(@, "filter"), !.observees["filter"] = <<>>]
         alone == IF auto_delete THEN FileDestroyed(apart) ELSE apart
     IN /\ net' = [Destroyed(alone, "filter") EXCEPT !.conditions["filter"] = <<>>]
        /\ silent' = (silent /\ ~ ReachesReport(net, "filter")
                             /\ ~ (auto_delete /\ ReachesReport(net, o)))
        /\ touched' = IF auto_delete THEN touched \cup {o} ELSE touched
  /\ output' = [output EXCEPT !["filter"] = Nothing]
  /\ UNCHANGED <<auto_delete, given>>

DestroyFile ==
  Only(/\ "file" \in net.alive
       /\ output["filter"] # "file"
       /\ net' = FileDestroyed(net)
       /\ Heed("file"))

ReportNext ==
  \/ \E o \in Outputs, l \in Chosen : SetLevel(o, l)
  \/ \E l \in Chosen : SetAllLevels(l)
  \/ \E s \in Sinks, opened \in BOOLEAN : OpenOrClose(s, opened)
  \/ \E o \in Outputs : AddOutput(o)
  \/ \E o \in Outputs : RemoveOutput(o)
  \/ \E f \in Filters, c \in Conditions : AddCondition(f, c)
  \/ \E f \in Filters : \E i \in 1 .. given[f] : RemoveCondition(f, i)
  \/ \E o \in Outputs, auto \in BOOLEAN : CreateFilter(o, auto)
  \/ DestroyFilter \/ DestroyFile

-----------------------------------------------------------------------------
(* Filter::Condition::matches() and the log() of outputs and filters.      *)

Matches(c, m) ==
  /\ c.min_level <= m.level /\ m.level <= c.max_level
  /\ c.file \in {"", m.file}
  /\ IF c.function = ""
     THEN c.min_line <= m.line /\ (c.max_line = 0 \/ m.line <= c.max_line)
     ELSE c.function = m.function

(* The last condition that applies wins; an "accept" only does for levels  *)
(* that the output logs anyway. *)
Lets(n, f, m) ==
  LET loud == m.level <= n.level[output[f]]
      applying == SelectSeq(n.conditions[f],
        LAMBDA c : Matches(c.condition, m) /\ (c.condition.mode # "accept" \/ loud))
  IN IF applying = <<>> THEN loud ELSE Last(applying).condition.mode # "reject"

RECURSIVE Prints(_, _, _)
Prints(n, o, m) == o \in Sinks \/ (Lets(n, o, m) /\ Prints(n, output[o], m))

(* What Report::log() would have this output print, did it not look at the *)
(* level first. *)
Wants(n, o, m) == IF o \in Sinks THEN m.level <= n.level[o] ELSE Prints(n, o, m)

Count(list, x) == Len(SelectSeq(list, LAMBDA y : y = x))

(* The lists of observers and of observees mirror each other through every *)
(* registration and destruction, and name nothing that is gone; nothing is *)
(* used after its destruction, but by a filter that deletes its output     *)
(* (observer.cpp:21-46, report.cpp:834-844).                               *)
Mirrored ==
  /\ \A e \in Outputs, o \in Observers :
       /\ Count(net.observers[e], o) = Count(net.observees[o], e)
       /\ o \in ToSet(net.observers[e]) => e \in net.alive /\ o \in net.alive \cup {"report"}
  /\ touched # {} => touched = {"file"} /\ "file" \notin net.alive

(* Each message that an open output or one of its conditions wants is let  *)
(* through by the levels above, however filters are stacked; and the level *)
(* of the report, which callers test first, asks for no more. A file that  *)
(* was opened or closed since is the exception (557-575).                  *)
Heard ==
  /\ \A o \in ToSet(net.observees["report"]), m \in Messages :
       IsOpen(net, o) /\ Wants(net, o, m) =>
         m.level <= net.level[o] /\ (silent \/ m.level <= net.level["report"])
  /\ silent \/ net.level["report"] = ReportLevel(net)
=============================================================================
