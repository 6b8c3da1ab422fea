------------------------------ MODULE Logging ------------------------------
(***************************************************************************)
(* The file side of util/glog: goroutines format lines into buffers from a *)
(* shared free list, write them under the logging mutex to one file per    *)
(* severity (and all below it) or to one named file, rotate the files by   *)
(* size or by day, and flush them every so often, on request and before    *)
(* the process exits because of a fatal line or a failing file.            *)
(*                                                                         *)
(* A line is named after the call that wrote it.  A file is named after    *)
(* its log and the second (by size) or the day (by date) it was opened in, *)
(* the unit of now; a line and a file's header count one byte each.        *)
(***************************************************************************)
EXTENDS Verbosity, SequencesExt

CONSTANTS
  Names,    \* names given to lines that go to a file of their own
  NoName,   \* the name of all other lines
  Setups,   \* the flags a process with each script may be started with
  MaxSize,  \* size at which a file is rotated
  MaxTime   \* bound: days or seconds that pass

VARIABLES
  setup,     \* [toFiles, byDate, faults]: destination, roll_type, whether the disk may fail
  now,       \* the clock
  buf,       \* the buffer each goroutine holds, 0 if none
  content,   \* what every buffer ever made holds
  freeList,  \* logging.freeList
  left,      \* the files the goroutine in output has still to visit
  file,      \* logging.file and logging.fileN
  disk,      \* the lines in every file on disk
  noStacks,  \* fatalNoStacks
  logExit,   \* logExitFunc was replaced by the fatal path
  flusher,   \* the goroutine that timeoutFlush starts
  exited,    \* how the process ended, or "no"
  out        \* history: the lines in the order output took the lock for them

fileVars == <<setup, now, buf, content, freeList, left, file, disk,
              noStacks, logExit, flusher, exited, out>>
vars == <<frameVars, levelVars, fileVars>>

Fatal == 3
Severity == 0..Fatal
Logs == Severity \cup Names
Line(t) == <<t, at[t] + 1>>
Stacks(t) == <<t, 0>>
\* err: bufio remembers the first error of a writer and refuses all that follows.
Unopened == [made |-> FALSE, open |-> FALSE, err |-> FALSE, stamp |-> 0, pending |-> << >>, nbytes |-> 0]

Init ==
  /\ LevelInit
  /\ setup \in Setups[script]
  /\ now = 0
  /\ buf = [t \in Threads |-> 0]
  /\ content = << >>
  /\ freeList = << >>
  /\ left = << >>
  /\ file = [k \in Logs |-> Unopened]
  /\ disk = << >>
  /\ noStacks = FALSE
  /\ logExit = FALSE
  /\ flusher = [t \in Threads |-> "none"]
  /\ exited = "no"
  /\ out = << >>

\* A line goes to the file of its name, or from its severity down.
From(sev) == [i \in 1..(sev + 1) |-> sev + 1 - i]
Targets(sev, name) == IF name = NoName THEN From(sev) ELSE << name >>
SevOf(call) == IF call.op = "V" THEN 0 ELSE call.sev

ASSUME NamesAssumption == Names \cap Severity = {}
ASSUME TimeAssumption == MaxTime \in Nat
ASSUME PrintsAssumption ==
  \A s \in Scripts : \A t \in Threads : \A k \in 1..Len(s[t]) :
    s[t][k].op \in {"V", "print", "exit"} =>
      SevOf(s[t][k]) \in Severity /\ s[t][k].name \in Names \cup {NoName}

-----------------------------------------------------------------------------
\* Files.  What a flush of log k leaves on disk d; a closed file gets nothing.
Flushed(d, k) ==
  IF file[k].open THEN [d EXCEPT ![<<k, file[k].stamp>>] = @ \o file[k].pending] ELSE d

\* The outcomes of the Flush before a rotation, whose error nobody looks at.
\* What a failing Flush wrote of its lines counts as nothing.
FlushOf(k) ==
  { [disk |-> Flushed(disk, k), err |-> FALSE] : x \in IF file[k].err THEN {} ELSE {k} }
    \cup { [disk |-> disk, err |-> TRUE] : x \in IF file[k].err \/ setup.faults THEN {k} ELSE {} }

\* Mutant: the named files are not among those flushed.
AllFlushedUnnamed(d, files, bad) ==
  [f \in DOMAIN d |->
     d[f] \o IF f[1] \in Severity \ bad /\ files[f[1]].open /\ files[f[1]].stamp = f[2]
              THEN files[f[1]].pending ELSE << >>]

AllFlushed(d, files, bad) ==
  [f \in DOMAIN d |->
     d[f] \o IF f[1] \notin bad /\ files[f[1]].open /\ files[f[1]].stamp = f[2]
              THEN files[f[1]].pending ELSE << >>]

AfterFlush(files, bad) ==
  [k \in Logs |-> IF k \in bad THEN [files[k] EXCEPT !.err = TRUE]
                  ELSE IF files[k].open THEN [files[k] EXCEPT !.pending = << >>] ELSE files[k]]

\* The logs whose Flush fails: those that failed before, those that hold lines
\* for a file that is closed, and any that holds lines, if the disk may fail.
FlushFailures(files) ==
  { { k \in Logs : files[k].err \/ (~files[k].open /\ files[k].pending # << >>) } \cup bad :
      bad \in SUBSET { k \in Logs : setup.faults /\ files[k].pending # << >> } }

\* flushAll ignores the errors of Flush, and of Sync, which tells it nothing of
\* what the files hold.
FlushAll(d, files) ==
  \E bad \in FlushFailures(files) :
    disk' = AllFlushed(d, files, bad) /\ file' = AfterFlush(files, bad)

\* create: an existing file is opened for appending, a new one gets a header.
Opened(k) ==
  [made |-> TRUE, open |-> TRUE, err |-> FALSE, stamp |-> now, pending |-> << >>,
   nbytes |-> IF <<k, now>> \in DOMAIN disk THEN 0 ELSE 1]

WithFile(d, k) == [f \in DOMAIN d \cup {<<k, now>>} |-> IF f \in DOMAIN d THEN d[f] ELSE << >>]

\* syncBuffer.Write rotates by size or, on the first line of a day, by date.
NeedsRotation(k) ==
  IF setup.byDate THEN file[k].stamp # now ELSE file[k].nbytes + 1 >= MaxSize

Appended(f, line) == [f EXCEPT !.pending = Append(@, line), !.nbytes = @ + 1]

-----------------------------------------------------------------------------
\* Mutant: the buffer stays on the free list while it is in use.
GetBufferShared(t) ==
  /\ IF freeList = << >>
       THEN buf' = [buf EXCEPT ![t] = Len(content) + 1] /\ content' = Append(content, << >>)
       ELSE buf' = [buf EXCEPT ![t] = Head(freeList)] /\ UNCHANGED content
  /\ Goto(t, "format")
  /\ UNCHANGED <<setup, now, freeList, left, file, disk, logExit, flusher, exited, out>>

\* The header is formatted into a buffer from the free list, or a new one.
GetBuffer(t) ==
  /\ IF freeList = << >>
       THEN /\ buf' = [buf EXCEPT ![t] = Len(content) + 1]
            /\ content' = Append(content, << >>)
            /\ UNCHANGED freeList
       ELSE /\ buf' = [buf EXCEPT ![t] = Head(freeList)]
            /\ content' = [content EXCEPT ![Head(freeList)] = << >>]
            /\ freeList' = Tail(freeList)
  /\ Goto(t, "format")
  /\ UNCHANGED <<setup, now, left, file, disk, logExit, flusher, exited, out>>

\* Info, Warning, Error, Fatal and their variants.
PrintLine(t) ==
  /\ Calls(t, {"print"}) /\ Call(t).name = NoName
  /\ GetBuffer(t)
  /\ UNCHANGED <<script, at, mu, levelVars, noStacks>>

\* The same of a Logger that was made with a file name.
NamedLine(t) ==
  /\ Calls(t, {"print"}) /\ Call(t).name \in Names
  /\ GetBuffer(t)
  /\ UNCHANGED <<script, at, mu, levelVars, noStacks>>

\* Exit sets fatalNoStacks, then prints a fatal line.
ExitLine(t) ==
  /\ Calls(t, {"exit"})
  /\ noStacks' = TRUE
  /\ GetBuffer(t)
  /\ UNCHANGED <<script, at, mu, levelVars>>

\* A statement guarded by V prints if V said so.
Guarded(t) ==
  /\ pc[t] = "decided"
  /\ IF verdict[t] THEN GetBuffer(t) /\ UNCHANGED at ELSE Finish(t) /\ UNCHANGED fileVars
  /\ UNCHANGED <<script, mu, levelVars, noStacks>>

Format(t) ==
  /\ pc[t] = "format"
  /\ content' = [content EXCEPT ![buf[t]] = Line(t)]
  /\ Goto(t, "output")
  /\ UNCHANGED <<script, at, mu, levelVars, setup, now, buf, freeList, left, file, disk,
                 noStacks, logExit, flusher, exited, out>>

\* createFiles makes the files from the line's own down to the first that is
\* there already; a named line has one.
ToCreate(t) ==
  LET targets == Targets(SevOf(Call(t)), Call(t).name)
      there == { i \in DOMAIN targets : file[targets[i]].made }
  IN  IF there = {} THEN targets
      ELSE SubSeq(targets, 1, (CHOOSE i \in there : \A j \in there : i <= j) - 1)

Output(t) ==
  /\ pc[t] = "output"
  /\ mu = "free"
  /\ mu' = t
  /\ out' = Append(out, content[buf[t]])
  /\ left' = IF setup.toFiles THEN ToCreate(t) ELSE << >>
  /\ Goto(t, IF setup.toFiles THEN "create" ELSE "written")
  /\ UNCHANGED <<script, at, levelVars, setup, now, buf, content, freeList, file, disk,
                 noStacks, logExit, flusher, exited>>

\* exit: with trouble on disk everything is flushed and the process ends,
\* unless it is ending already.
ExitOnError(d, files) == exited' = "error" /\ FlushAll(d, files)

CreateFile(t) ==
  /\ pc[t] = "create"
  /\ left # << >>
  /\ \/ /\ disk' = WithFile(disk, Head(left))
        /\ file' = [file EXCEPT ![Head(left)] = Opened(Head(left))]
        /\ left' = Tail(left)
        /\ UNCHANGED exited
     \/ /\ setup.faults
        /\ IF logExit
             THEN left' = << >> /\ UNCHANGED <<file, disk, exited>>
             ELSE ExitOnError(disk, file) /\ UNCHANGED left
  /\ UNCHANGED <<frameVars, levelVars, setup, now, buf, content, freeList,
                 noStacks, logExit, flusher, out>>

Created(t) ==
  /\ pc[t] = "create"
  /\ left = << >>
  /\ left' = Targets(SevOf(Call(t)), Call(t).name)
  /\ Goto(t, "write")
  /\ UNCHANGED <<script, at, mu, levelVars, setup, now, buf, content, freeList, file, disk,
                 noStacks, logExit, flusher, exited, out>>

\* One Write of a line to log k: it may rotate the file first, push what the
\* writer holds to disk when the writer is full, or fail: for good once it has.
WriteTo(k, line) ==
  \/ /\ ~file[k].made
     /\ UNCHANGED <<file, disk, exited>>
  \/ /\ file[k].made /\ ~NeedsRotation(k) /\ ~file[k].err
     /\ file' = [file EXCEPT ![k] = Appended(@, line)]
     /\ UNCHANGED <<disk, exited>>
  \/ /\ file[k].made /\ ~NeedsRotation(k) /\ ~file[k].err /\ file[k].open /\ file[k].pending # << >>
     /\ disk' = Flushed(disk, k)
     /\ file' = [file EXCEPT ![k] = Appended([@ EXCEPT !.pending = << >>], line)]
     /\ UNCHANGED exited
  \/ /\ file[k].made /\ ~NeedsRotation(k) /\ (file[k].err \/ setup.faults)
     /\ LET broken == [file EXCEPT ![k].err = TRUE]
        IN  IF logExit THEN file' = broken /\ UNCHANGED <<disk, exited>> ELSE ExitOnError(disk, broken)
  \/ /\ file[k].made /\ NeedsRotation(k)
     /\ \E flush \in FlushOf(k) : disk' = WithFile(flush.disk, k)
     /\ file' = [file EXCEPT ![k] = Appended(Opened(k), line)]
     /\ UNCHANGED exited
  \/ /\ file[k].made /\ NeedsRotation(k) /\ setup.faults
     /\ \E flush \in FlushOf(k) :
          LET broken == [Unopened EXCEPT !.made = TRUE, !.stamp = now, !.err = flush.err]
              after == [file EXCEPT ![k] = IF flush.err THEN broken ELSE Appended(broken, line)]
          IN  IF logExit THEN disk' = flush.disk /\ file' = after /\ UNCHANGED exited
              ELSE ExitOnError(flush.disk, [file EXCEPT ![k] = broken])

Write(t) ==
  /\ pc[t] = "write"
  /\ left # << >>
  /\ WriteTo(Head(left), content[buf[t]])
  /\ left' = Tail(left)
  /\ UNCHANGED <<frameVars, levelVars, setup, now, buf, content, freeList,
                 noStacks, logExit, flusher, out>>

Written(t) ==
  /\ pc[t] = "write"
  /\ left = << >>
  /\ Goto(t, "written")
  /\ UNCHANGED <<script, at, mu, levelVars, fileVars>>

\* The end of output for a line that is not fatal.
Leave(t) ==
  /\ pc[t] = "written"
  /\ SevOf(Call(t)) # Fatal
  /\ freeList' = << buf[t] >> \o freeList
  /\ buf' = [buf EXCEPT ![t] = 0]
  /\ mu' = "free"
  /\ Finish(t)
  /\ UNCHANGED <<script, levelVars, setup, now, content, left, file, disk,
                 noStacks, logExit, flusher, exited, out>>

-----------------------------------------------------------------------------
\* A fatal line is followed by the stacks of all goroutines, in every file,
\* unless some goroutine called Exit.
FatalLine(t) ==
  /\ pc[t] = "written"
  /\ SevOf(Call(t)) = Fatal
  /\ IF noStacks
       THEN Goto(t, "unlock") /\ UNCHANGED <<logExit, left>>
       ELSE /\ Goto(t, "dump")
            /\ logExit' = TRUE
            /\ left' = Targets(Fatal, Call(t).name)
  /\ UNCHANGED <<script, at, mu, levelVars, setup, now, buf, content, freeList, file, disk,
                 noStacks, flusher, exited, out>>

Dump(t) ==
  /\ pc[t] = "dump"
  /\ left # << >>
  /\ WriteTo(Head(left), Stacks(t))
  /\ left' = Tail(left)
  /\ UNCHANGED <<frameVars, levelVars, setup, now, buf, content, freeList,
                 noStacks, logExit, flusher, out>>

\* timeoutFlush: another goroutine flushes, this one waits for it for a while.
FatalUnlock(t) ==
  /\ pc[t] = "unlock" \/ (pc[t] = "dump" /\ left = << >>)
  /\ mu' = "free"
  /\ flusher' = [flusher EXCEPT ![t] = "started"]
  /\ Goto(t, IF pc[t] = "unlock" THEN "exit 1" ELSE "exit 255")
  /\ UNCHANGED <<script, at, levelVars, setup, now, buf, content, freeList, left, file, disk,
                 noStacks, logExit, exited, out>>

FlusherLock(t) ==
  /\ flusher[t] = "started"
  /\ mu = "free"
  /\ mu' = "flusher"
  /\ flusher' = [flusher EXCEPT ![t] = "flushing"]
  /\ UNCHANGED <<script, pc, at, levelVars, setup, now, buf, content, freeList, left, file, disk,
                 noStacks, logExit, exited, out>>

FlusherFlush(t) ==
  /\ flusher[t] = "flushing"
  /\ FlushAll(disk, file)
  /\ mu' = "free"
  /\ flusher' = [flusher EXCEPT ![t] = "done"]
  /\ UNCHANGED <<script, pc, at, levelVars, setup, now, buf, content, freeList, left,
                 noStacks, logExit, exited, out>>

ExitFlushed(t) ==
  /\ pc[t] \in {"exit 1", "exit 255"}
  /\ flusher[t] = "done"
  /\ exited' = "flushed"
  /\ UNCHANGED <<frameVars, levelVars, setup, now, buf, content, freeList, left, file, disk,
                 noStacks, logExit, flusher, out>>

\* Mutant: the exit waits for the flush however long it takes.
ExitTimeoutNever(t) == FALSE /\ pc[t] = "exit 1" /\ UNCHANGED vars

\* time.After fires first.
ExitTimeout(t) ==
  /\ pc[t] \in {"exit 1", "exit 255"}
  /\ flusher[t] # "done"
  /\ exited' = "timeout"
  /\ UNCHANGED <<frameVars, levelVars, setup, now, buf, content, freeList, left, file, disk,
                 noStacks, logExit, flusher, out>>

-----------------------------------------------------------------------------
\* Flush, called by a goroutine and by the daemon.
FlushLock(t) ==
  /\ Calls(t, {"flush"})
  /\ mu = "free"
  /\ mu' = t
  /\ Goto(t, "flush")
  /\ UNCHANGED <<script, at, levelVars, fileVars>>

Flush(t) ==
  /\ pc[t] = "flush"
  /\ FlushAll(disk, file)
  /\ mu' = "free"
  /\ Finish(t)
  /\ UNCHANGED <<script, levelVars, setup, now, buf, content, freeList, left,
                 noStacks, logExit, flusher, exited, out>>

DaemonLock ==
  /\ mu = "free"
  /\ \E k \in Logs : file[k].pending # << >>
  /\ mu' = "daemon"
  /\ UNCHANGED <<script, pc, at, levelVars, fileVars>>

DaemonFlush ==
  /\ mu = "daemon"
  /\ FlushAll(disk, file)
  /\ mu' = "free"
  /\ UNCHANGED <<script, pc, at, levelVars, setup, now, buf, content, freeList, left,
                 noStacks, logExit, flusher, exited, out>>

Tick ==
  /\ now < MaxTime
  /\ now' = now + 1
  /\ UNCHANGED <<frameVars, levelVars, setup, buf, content, freeList, left, file, disk,
                 noStacks, logExit, flusher, exited, out>>

-----------------------------------------------------------------------------
Step(t) ==
  \/ LevelNext(t) /\ UNCHANGED fileVars
  \/ PrintLine(t) \/ NamedLine(t) \/ ExitLine(t) \/ Guarded(t) \/ Format(t) \/ Output(t)
  \/ CreateFile(t) \/ Created(t) \/ Write(t) \/ Written(t) \/ Leave(t)
  \/ FatalLine(t) \/ Dump(t) \/ FatalUnlock(t) \/ ExitFlushed(t) \/ ExitTimeout(t)
  \/ FlushLock(t) \/ Flush(t)

Next ==
  /\ exited = "no"
  /\ \/ \E t \in Threads : Step(t) \/ FlusherLock(t) \/ FlusherFlush(t)
     \/ DaemonLock \/ DaemonFlush
     \/ Tick

Spec == Init /\ [][Next]_vars

\* Goroutines run, mutexes are handed over (after a millisecond of waiting Go's
\* mutex is fair) and the daemon's ticker ticks.  The flush before an exit may
\* hang: nothing is assumed of it.
Fairness ==
  /\ \A t \in Threads : WF_vars(exited = "no" /\ Step(t)) /\ SF_vars(exited = "no" /\ (Output(t) \/ FlushLock(t)))
  /\ SF_vars(exited = "no" /\ DaemonLock) /\ WF_vars(exited = "no" /\ DaemonFlush)

FairSpec == Spec /\ Fairness

-----------------------------------------------------------------------------
\* All of log k that is on disk, its rotated files first.
OnDisk(k) == FlattenSeq([i \in 1..(MaxTime + 1) |->
                IF <<k, i - 1>> \in DOMAIN disk THEN disk[<<k, i - 1>>] ELSE << >>])
CallOf(line) == script[line[1]][line[2]]
GoesTo(line, k) == \E i \in DOMAIN Targets(SevOf(CallOf(line)), CallOf(line).name) :
                     Targets(SevOf(CallOf(line)), CallOf(line).name)[i] = k
\* The lines that were output for log k, and those of a log without the stacks.
Expected(k) == FlattenSeq([i \in DOMAIN out |-> IF GoesTo(out[i], k) THEN << out[i] >> ELSE << >>])
Lines(s) == FlattenSeq([i \in DOMAIN s |-> IF s[i][2] # 0 THEN << s[i] >> ELSE << >>])

\* Between two calls of output, the files of a log, its rotated ones included,
\* and what its writer holds are exactly its lines in the order they were
\* output: the line of a severity is in every log below it, no line is lost by a
\* rotation, doubled by a flush, or mangled by another that shares its buffer.
LinesKept ==
  setup.toFiles /\ mu \notin Threads /\ ~setup.faults =>
    \A k \in Logs : Lines(OnDisk(k) \o file[k].pending) = Expected(k)

\* The line is in every log it goes to.
SafeOnDisk(line) ==
  \A k \in Logs : GoesTo(line, k) => \E i \in DOMAIN OnDisk(k) : OnDisk(k)[i] = line

\* A fatal line ends the process, even when its flush hangs.
FatalExits ==
  (\E t \in Threads : Calls(t, {"print"}) /\ Call(t).sev = Fatal) ~> exited # "no"

\* What was output reaches the disk if the process lives and its disk does not
\* fail: flushAll passes over the errors of a disk that does.
LinesReachDisk ==
  setup.toFiles /\ ~setup.faults => <>[](exited # "no" \/ \A i \in DOMAIN out : SafeOnDisk(out[i]))
=============================================================================
