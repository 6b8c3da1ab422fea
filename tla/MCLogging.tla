----------------------------- MODULE MCLogging -----------------------------
(***************************************************************************)
(* Logging for TLC: two goroutines of at most three calls, one named file. *)
(***************************************************************************)
EXTENDS Logging

CONSTANTS a, b, rest, none

Info(sev) == [op |-> "print", sev |-> sev, name |-> none]
Named == [op |-> "print", sev |-> 0, name |-> rest]
Die == [op |-> "print", sev |-> Fatal, name |-> none]
DieNamed == [op |-> "print", sev |-> Fatal, name |-> rest]
Quit == [op |-> "exit", sev |-> Fatal, name |-> none]
FlushCall == [op |-> "flush"]
VCall(level) == [op |-> "V", level |-> level, site |-> "hook", name |-> none]
SetLevel(level) == [op |-> "Level.Set", level |-> level]
SetModule(f) == [op |-> "moduleSpec.Set", filter |-> f]
Store(level) == [op |-> "SetVerbosity", level |-> level]
Hook(level) == << [sites |-> {"hook"}, level |-> level] >>
Other == << [sites |-> {"mux"}, level |-> 2] >>

Script(ofA, ofB) == [t \in {a, b} |-> IF t = a THEN ofA ELSE ofB]

Files == { Script(<< Info(0), Info(1) >>, << Info(1) >>),
           Script(<< Named, FlushCall >>, << Named, Info(0) >>) }
Ends == { Script(<< Die >>, << Info(0) >>),
          Script(<< DieNamed >>, << Quit >>) }
\* A disk that fails: two lines of a log before its last one, and a log that is
\* opened behind the fatal line of another.
Doomed == { Script(<< Named, DieNamed >>, << Named >>), Script(<< DieNamed >>, << Info(0) >>) }
Levels == { Script(<< VCall(1), VCall(1) >>, << SetModule(Hook(1)), SetModule(Other), SetLevel(1) >>),
            Script(<< VCall(2), VCall(1) >>, << SetLevel(2), SetModule(Hook(2)), SetLevel(0) >>),
            Script(<< VCall(2) >>, << SetLevel(1) >>),
            Script(<< VCall(1) >>, << SetLevel(1), SetLevel(1), SetModule(Hook(1)) >>),
            Script(<< VCall(1), SetModule(Hook(2)) >>, << SetModule(Hook(1)), VCall(2), SetLevel(2) >>),
            Script(<< VCall(1), VCall(2) >>, << Store(2), Store(0) >>) }
MCScripts == Files \cup Ends \cup Doomed \cup Levels
MCSites == {"hook", "mux"}

ASSUME StoresAloneAssumption == StoresAlone

BySize == [toFiles |-> TRUE, byDate |-> FALSE, faults |-> FALSE]
ByDate == [toFiles |-> TRUE, byDate |-> TRUE, faults |-> FALSE]
Faulty == [toFiles |-> TRUE, byDate |-> TRUE, faults |-> TRUE]
Stderr == [toFiles |-> FALSE, byDate |-> FALSE, faults |-> FALSE]
MCSetups == [s \in MCScripts |-> IF s \in Files THEN {BySize, ByDate}
                                ELSE IF s \in Ends THEN {ByDate}
                                ELSE IF s \in Doomed THEN {Faulty} ELSE {Stderr}]
=============================================================================
