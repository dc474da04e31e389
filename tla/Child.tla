-------------------------------- MODULE Child --------------------------------
(***************************************************************************)
(* One supervised child (src/src/proc.c): the threads machteld runs for it   *)
(* -- a monitor, a reader per captured stream, a writer for -stdin -- and    *)
(* the interpreter's commands run, child start, wait, kill and close, against *)
(* a tree of processes in a Job Object that reads, writes, spawns, crashes    *)
(* and dies when it is told to, in its own time.                              *)
(*                                                                         *)
(* Every thread takes its steps by itself; the interpreter blocks inside a    *)
(* command (cmd) and starts no other before that one returns. A chunk of a    *)
(* stream is one unit; a deadline is armed, due or spent. A system call that   *)
(* may fail fails at most MaxFaults times.                                    *)
(***************************************************************************)
EXTENDS Integers, FiniteSets

CONSTANTS
  Modes,       \* the ways of running a child that are considered
  Streams,     \* output pipes: "out", "err" or both
  MaxOut,      \* chunks the direct process writes to each stream
  InputLen,    \* chunks of -stdin
  PipeSize,    \* chunks a pipe holds
  CaptureCap,  \* chunks a reader keeps (1 MiB in the code)
  Callbacks,   \* streams that have a callback when a run streams
  MaxKids,     \* bound: descendants the tree ever starts
  MaxFaults    \* bound: system calls that fail

ASSUME StreamsAssumption == Streams \subseteq {"out", "err"} /\ Callbacks \subseteq Streams
ASSUME ModesAssumption == Modes \subseteq {"capture", "stream", "channels", "inherit"}
ASSUME SizesAssumption ==
  /\ MaxOut \in Nat /\ InputLen \in Nat \ {0}
  /\ PipeSize \in Nat \ {0} /\ CaptureCap \in Nat
  /\ MaxKids \in Nat /\ MaxFaults \in Nat

VARIABLES
  life,       \* none, live, freed, failed (launch), leaked (child_free gave up)
  mode,       \* capture, stream (-onout), channels or inherit
  cmd,        \* the command the interpreter is in
  report,     \* the latest result of run or child wait
  direct,     \* the direct process: none, running, exited
  kids,       \* descendants alive
  births,     \* descendants ever started
  held,       \* the tree still holds the write ends of its output pipes
  code,       \* how the direct process ended: none, ok, err, kill
  doomed,     \* the job was terminated, or closed with KILL_ON_JOB_CLOSE
  job,        \* the handle: none, open, closed
  pipe,       \* stream -> chunks in its pipe
  wrote,      \* stream -> chunks ever written to it
  stdin,      \* chunks in the stdin pipe
  inOpen,     \* its write end is open
  fed,        \* chunks the writer thread has written
  tIn,        \* writer thread: none, running, ended
  tRead,      \* stream -> reader thread: none, running, ended
  len,        \* stream -> chunks captured (ro.len, re.len) or handed to a callback
  truncated,  \* stream -> ro.truncated, re.truncated
  ioError,    \* ro.error or re.error is set
  inError,    \* wi.error is set
  mon,        \* monitor thread: none, proc, job, check (place in its loop), ended
  directDone, queryFailed, empty,  \* the monitor's locals
  monitorFailed, timeout, killed, exitCode, deadline, done, reaped,  \* child_t
  pumpEof,    \* stream -> po.eof, pe.eof: no, or why the pump stopped: end, failed
  unjoined,   \* a wait of child_launch's clean-up for a thread failed
  faults      \* system calls that have failed

treeVars == <<direct, kids, births, held, code>>
jobVars == <<doomed, job>>
pipeVars == <<pipe, wrote, stdin, inOpen>>
inVars == <<fed, tIn, inError>>
readVars == <<tRead, len, truncated, ioError>>
monVars == <<mon, directDone, queryFailed, empty, monitorFailed, timeout, exitCode, deadline, done>>
endVars == <<pumpEof, unjoined>>
scriptVars == <<life, mode, cmd, report, reaped>>
vars == <<scriptVars, treeVars, jobVars, pipeVars, inVars, readVars, endVars, monVars, killed, faults>>

Active == kids + (IF direct = "running" THEN 1 ELSE 0)
Zeros == [s \in Streams |-> 0]
NoReport == [kind |-> "none", status |-> "", exit |-> "none", out |-> Zeros]
ErrorReport == [kind |-> "error", status |-> "", exit |-> "none", out |-> Zeros]

Fails(n) == faults + n <= MaxFaults /\ faults' = faults + n
Fault == Fails(1)
NoFault == UNCHANGED faults
------------------------------------------------------------------------------
(* The Job Object.                                                         *)

\* wj_job_terminate fails on a closed job, and may fail on an open one.
TerminateJob(n) ==
  job = "open" /\ doomed' = TRUE /\ Fails(n) /\ UNCHANGED job

JobNotTerminated(n) ==
  \/ job = "open" /\ Fails(n + 1)
  \/ job = "closed" /\ Fails(n)

\* wj_job_terminate, then wj_job_close when that failed, after n other failures.
TerminateOrClose(n) ==
  /\ doomed' = TRUE
  /\ \/ UNCHANGED job /\ Fails(n)
     \/ job = "open" /\ job' = "closed" /\ Fails(n + 1)
------------------------------------------------------------------------------
(* The process tree. A write end is closed with the last process, or when    *)
(* the tree closes its output.                                               *)

TreeStays == UNCHANGED <<scriptVars, doomed, job, inVars, readVars, endVars, monVars, killed, faults>>

Eof(s) == pipe[s] = 0 /\ (Active = 0 \/ ~held)
StdinAtEof == stdin = 0 /\ ~inOpen

\* The direct process writes all its output, then reads its input to the end,
\* then exits: nothing reads its output for it.
ProcWrites ==
  /\ direct = "running" /\ held /\ ~doomed
  /\ \E s \in Streams :
       /\ wrote[s] < MaxOut /\ pipe[s] < PipeSize
       /\ wrote' = [wrote EXCEPT ![s] = @ + 1]
       /\ pipe' = [pipe EXCEPT ![s] = @ + 1]
  /\ UNCHANGED <<treeVars, stdin, inOpen>> /\ TreeStays

WroteAll == \A s \in Streams : wrote[s] = MaxOut \/ ~held

ProcReads ==
  /\ direct = "running" /\ ~doomed
  /\ WroteAll /\ stdin > 0
  /\ stdin' = stdin - 1
  /\ UNCHANGED <<treeVars, pipe, wrote, inOpen>> /\ TreeStays

ProcFinishes ==
  /\ direct = "running" /\ ~doomed
  /\ WroteAll /\ StdinAtEof
  /\ direct' = "exited"
  /\ code' \in {"ok", "err"}
  /\ UNCHANGED <<kids, births, held, pipeVars>> /\ TreeStays

\* It ends early: a crash, a resource limit, no interest in its input.
ProcEndsEarly ==
  /\ direct = "running" /\ ~doomed
  /\ direct' = "exited"
  /\ code' \in {"ok", "err"}
  /\ UNCHANGED <<kids, births, held, pipeVars>> /\ TreeStays

TreeSpawns ==
  /\ Active > 0 /\ ~doomed
  /\ births < MaxKids
  /\ births' = births + 1 /\ kids' = kids + 1
  /\ UNCHANGED <<direct, held, code, pipeVars>> /\ TreeStays

KidExits ==
  /\ kids > 0 /\ ~doomed
  /\ kids' = kids - 1
  /\ UNCHANGED <<direct, births, held, code, pipeVars>> /\ TreeStays

TreeClosesOutput ==
  /\ Active > 0 /\ held /\ ~doomed
  /\ held' = FALSE
  /\ UNCHANGED <<direct, kids, births, code, pipeVars>> /\ TreeStays

\* A terminated process is gone some time after the termination was asked for.
DoomedDies ==
  /\ doomed /\ Active > 0
  /\ \/ direct = "running" /\ direct' = "exited" /\ code' = "kill" /\ UNCHANGED kids
     \/ kids > 0 /\ kids' = kids - 1 /\ UNCHANGED <<direct, code>>
  /\ UNCHANGED <<births, held, pipeVars>> /\ TreeStays
------------------------------------------------------------------------------
(* Reader and writer threads.                                              *)

\* What a reader does with a chunk: keep it, or note that it did not.
Keep(s) ==
  IF len[s] < CaptureCap
  THEN len' = [len EXCEPT ![s] = @ + 1] /\ UNCHANGED truncated
  ELSE truncated' = [truncated EXCEPT ![s] = TRUE] /\ UNCHANGED len

TakeChunk(s) ==
  /\ pipe[s] > 0
  /\ pipe' = [pipe EXCEPT ![s] = @ - 1]
  /\ UNCHANGED <<wrote, stdin, inOpen>>

ThreadStays == UNCHANGED <<scriptVars, treeVars, jobVars, endVars, monVars, killed>>

\* Fault: a reader stops reading once its buffer is full.
ReaderStopsAtCap(s) ==
  /\ tRead[s] = "running" /\ len[s] < CaptureCap
  /\ TakeChunk(s) /\ Keep(s)
  /\ UNCHANGED <<tRead, ioError, inVars, faults>> /\ ThreadStays

ReaderReads(s) ==
  /\ tRead[s] = "running"
  /\ TakeChunk(s) /\ Keep(s)
  /\ UNCHANGED <<tRead, ioError, inVars, faults>> /\ ThreadStays

\* End of file ends the reader, and so does any other error, which is kept.
ReaderEnds(s) ==
  /\ tRead[s] = "running"
  /\ \/ Eof(s) /\ NoFault /\ UNCHANGED ioError
     \/ Fault /\ ioError' = TRUE
  /\ tRead' = [tRead EXCEPT ![s] = "ended"]
  /\ UNCHANGED <<len, truncated, pipeVars, inVars>> /\ ThreadStays

WriterWrites ==
  /\ tIn = "running" /\ fed < InputLen
  /\ Active > 0 /\ stdin < PipeSize
  /\ fed' = fed + 1 /\ stdin' = stdin + 1
  /\ UNCHANGED <<tIn, inError, pipe, wrote, inOpen, readVars, faults>> /\ ThreadStays

\* Everything is written, or the pipe has no reader left: close the write end.
WriterEnds ==
  /\ tIn = "running"
  /\ \/ fed = InputLen /\ UNCHANGED inError
     \/ fed < InputLen /\ Active = 0 /\ inError' = TRUE
  /\ tIn' = "ended" /\ inOpen' = FALSE
  /\ UNCHANGED <<fed, pipe, wrote, stdin, readVars, faults>> /\ ThreadStays
------------------------------------------------------------------------------
(* child_monitor_thread. One round: the process handle, the job's active     *)
(* count, the I/O threads and the deadline.                                  *)

MonitorStays == UNCHANGED <<scriptVars, treeVars, pipeVars, inVars, readVars, endVars>>

\* The direct process: its exit code is read once. GetExitCodeProcess may fail,
\* and the wait itself may fail: then the whole job is terminated.
MonitorProc ==
  /\ mon = "proc" /\ mon' = "job"
  /\ UNCHANGED <<empty, timeout, deadline, done>> /\ MonitorStays
  /\ \/ /\ directDone \/ direct = "running"
        /\ UNCHANGED <<directDone, queryFailed, monitorFailed, exitCode, killed, jobVars>>
        /\ NoFault
     \/ /\ ~directDone /\ direct = "exited"
        /\ directDone' = TRUE /\ exitCode' = code
        /\ UNCHANGED <<queryFailed, monitorFailed, killed, jobVars>> /\ NoFault
     \/ /\ ~directDone /\ direct = "exited"
        /\ Fault /\ monitorFailed' = TRUE /\ queryFailed' = TRUE
        /\ UNCHANGED <<directDone, exitCode, killed, jobVars>>
     \/ /\ ~directDone
        /\ monitorFailed' = TRUE /\ queryFailed' = TRUE /\ directDone' = TRUE
        /\ killed' = TRUE /\ TerminateOrClose(1)
        /\ UNCHANGED exitCode

\* Fault: a descendant is not counted.
MonitorJobDirectOnly ==
  /\ mon = "job" /\ mon' = "check"
  /\ empty' = (direct = "exited")
  /\ UNCHANGED <<directDone, queryFailed, monitorFailed, timeout, deadline, done, exitCode,
                 killed, jobVars, faults>>
  /\ MonitorStays

\* The job's active processes; a query that fails terminates the job.
MonitorJob ==
  /\ mon = "job" /\ mon' = "check"
  /\ UNCHANGED <<directDone, timeout, deadline, done, exitCode>> /\ MonitorStays
  /\ \/ /\ queryFailed
        /\ empty' = TRUE
        /\ UNCHANGED <<queryFailed, monitorFailed, killed, jobVars, faults>>
     \/ /\ ~queryFailed /\ job = "open"
        /\ empty' = (Active = 0)
        /\ UNCHANGED <<queryFailed, monitorFailed, killed, jobVars, faults>>
     \/ /\ ~queryFailed
        /\ empty' = TRUE
        /\ monitorFailed' = TRUE /\ queryFailed' = TRUE /\ killed' = TRUE
        /\ TerminateOrClose(IF job = "closed" THEN 0 ELSE 1)

\* Fault: readers that were never started are waited for.
IoDoneEveryReader == tIn # "running" /\ \A s \in Streams : tRead[s] = "ended"

\* The threads the monitor answers for have ended.
IoDone ==
  /\ tIn # "running"
  /\ mode = "capture" => \A s \in Streams : tRead[s] = "ended"

MonitorDone ==
  /\ mon = "check"
  /\ directDone /\ IoDone /\ (queryFailed \/ empty)
  /\ mon' = "ended" /\ done' = TRUE /\ empty' = FALSE
  /\ UNCHANGED <<directDone, queryFailed, monitorFailed, timeout, exitCode, deadline,
                 killed, jobVars, faults>>
  /\ MonitorStays

\* Fault: expiry is noted, and nothing is killed.
DeadlineNoted ==
  /\ timeout' = TRUE /\ killed' = TRUE /\ deadline' = "spent"
  /\ UNCHANGED <<monitorFailed, queryFailed, jobVars, faults>>

\* The deadline is due: the tree is killed, by closing the job if need be.
DeadlineKills ==
  /\ timeout' = TRUE /\ killed' = TRUE /\ deadline' = "spent"
  /\ \/ TerminateJob(0) /\ UNCHANGED <<monitorFailed, queryFailed>>
     \/ /\ JobNotTerminated(0)
        /\ monitorFailed' = TRUE /\ queryFailed' = TRUE
        /\ job' = "closed" /\ doomed' = TRUE

\* Not over yet: look at the deadline, sleep, start another round.
MonitorAgain ==
  /\ mon = "check"
  /\ ~(directDone /\ IoDone /\ (queryFailed \/ empty))
  /\ mon' = "proc" /\ empty' = FALSE
  /\ UNCHANGED <<directDone, exitCode, done>> /\ MonitorStays
  /\ \/ deadline = "due" /\ DeadlineKills
     \/ /\ deadline # "due"
        /\ UNCHANGED <<deadline, timeout, killed, monitorFailed, queryFailed, jobVars, faults>>

\* The tick count reaches the deadline.
ClockTicks ==
  /\ deadline = "armed"
  /\ deadline' = "due"
  /\ UNCHANGED <<mon, directDone, queryFailed, empty, monitorFailed, timeout, exitCode, done,
                 killed, jobVars, faults>>
  /\ MonitorStays
------------------------------------------------------------------------------
(* Launch.                                                                 *)

Init ==
  /\ life = "none" /\ mode = "capture" /\ cmd = "idle" /\ report = NoReport
  /\ direct = "none" /\ kids = 0 /\ births = 0 /\ held = FALSE /\ code = "none"
  /\ doomed = FALSE /\ job = "none"
  /\ pipe = Zeros /\ wrote = Zeros /\ stdin = 0 /\ inOpen = FALSE
  /\ fed = 0 /\ tIn = "none" /\ inError = FALSE
  /\ tRead = [s \in Streams |-> "none"] /\ len = Zeros
  /\ truncated = [s \in Streams |-> FALSE] /\ ioError = FALSE
  /\ mon = "none" /\ directDone = FALSE /\ queryFailed = FALSE /\ empty = FALSE
  /\ monitorFailed = FALSE /\ timeout = FALSE /\ killed = FALSE
  /\ exitCode = "ok" /\ deadline = "none" /\ done = FALSE /\ reaped = FALSE
  /\ pumpEof = [s \in Streams |-> "no"] /\ unjoined = FALSE
  /\ faults = 0

\* wj_launch has created the direct process in the job; of the threads, the
\* readers of R and the writer are started.
Launch(m, R, withInput) ==
  /\ life = "none"
  /\ mode' = m
  /\ direct' = "running" /\ held' = (m # "inherit")
  /\ tRead' = [s \in Streams |-> IF s \in R THEN "running" ELSE "none"]
  /\ tIn' = IF withInput THEN "running" ELSE "none"
  /\ inOpen' = (withInput \/ m = "channels")
  /\ UNCHANGED <<report, reaped, kids, births, code, pipe, wrote, stdin, fed,
                 inError, len, truncated, ioError, directDone, queryFailed, empty,
                 monitorFailed, timeout, exitCode, done, killed, endVars>>

\* Captured output is read from the start by threads, streamed output by child_pump.
Readers(m) == IF m = "capture" THEN Streams ELSE {}
MayHaveInput(m) == m \in {"capture", "stream"}

\* run and child start: the command goes on in cmd = next.
Start(m, next, withInput) ==
  /\ withInput => MayHaveInput(m)
  /\ Launch(m, Readers(m), withInput)
  /\ life' = "live" /\ cmd' = next
  /\ job' = "open" /\ doomed' = FALSE
  /\ mon' = "proc"
  /\ deadline' \in {"none", "armed"}
  /\ UNCHANGED faults

ChildStart ==
  \E m \in Modes \cap {"capture", "channels"}, withInput \in BOOLEAN : Start(m, "idle", withInput)

RunCmd ==
  \E m \in Modes \cap {"capture", "stream", "inherit"}, withInput \in BOOLEAN :
    Start(m, IF m = "stream" THEN "pump" ELSE "run", withInput)

\* The pipes could not be made channels: the child is freed at once.
ChildStartNoChannels ==
  /\ "channels" \in Modes
  /\ Launch("channels", {}, FALSE)
  /\ life' = "live" /\ cmd' = "close"
  /\ doomed' = TRUE
  /\ \/ job' = "open" /\ NoFault
     \/ job' = "closed" /\ Fault
  /\ mon' = "proc"
  /\ deadline' \in {"none", "armed"}

\* A thread or the event cannot be created: the job is terminated (child_launch
\* ignores whether that worked) and the threads started so far are joined.
LaunchFails ==
  /\ \E m \in Modes, withInput \in BOOLEAN :
       /\ withInput => MayHaveInput(m)
       /\ \E R \in {{}, Readers(m) \cap {"out"}, Readers(m)} :
            /\ withInput => R = Readers(m)
            /\ Launch(m, R, withInput)
  /\ life' = "live" /\ cmd' = "unwind"
  /\ job' = "open"
  /\ \/ doomed' = TRUE /\ NoFault
     \/ doomed' = FALSE /\ Fault
  /\ UNCHANGED <<mon, deadline>>

ThreadsEnded ==
  /\ mon \in {"none", "ended"}
  /\ tIn # "running"
  /\ \A s \in Streams : tRead[s] # "running"

\* wj_job_free closes the job.
JobFreed == job' = "closed" /\ doomed' = TRUE

\* The threads are waited for without a limit, but whether a wait failed is not looked
\* at: child_t is freed all the same.
LaunchUnwound ==
  /\ cmd = "unwind"
  /\ \/ ThreadsEnded /\ NoFault /\ UNCHANGED unjoined
     \/ Fault /\ unjoined' = TRUE
  /\ life' = "failed" /\ cmd' = "idle" /\ report' = ErrorReport
  /\ inOpen' = FALSE
  /\ JobFreed
  /\ UNCHANGED <<mode, reaped, treeVars, pipe, wrote, stdin, inVars, readVars, pumpEof, monVars,
                 killed>>
------------------------------------------------------------------------------
(* Commands on a child.                                                    *)

CommandStays ==
  UNCHANGED <<mode, treeVars, pipe, wrote, stdin, inVars, readVars, endVars, monVars>>

\* Fault: a kill is not told from an exit.
StatusByExit == IF timeout THEN "timeout" ELSE IF exitCode = "ok" THEN "ok" ELSE "error"

\* child_dict_ex's status.
Status ==
  IF timeout THEN "timeout" ELSE IF killed THEN "killed" ELSE IF exitCode = "ok" THEN "ok" ELSE "error"

RunningReport == [kind |-> "running", status |-> "running", exit |-> "none", out |-> len]
FinalReport == [kind |-> "final", status |-> Status, exit |-> exitCode, out |-> len]

\* What child_reap makes of the threads' errors.
ReapError == monitorFailed \/ ioError \/ (inError /\ ~killed)

\* child_reap: the completion event is set, the threads are joined (a join that
\* fails is only an error), and the result is the error or the dict.
Reap(result) ==
  /\ done
  /\ reaped' = TRUE
  /\ \/ ThreadsEnded /\ NoFault /\ report' = (IF ReapError THEN ErrorReport ELSE result)
     \/ Fault /\ report' = ErrorReport

\* The threads are joined, or joining fails.
Joined == (ThreadsEnded /\ NoFault) \/ Fault

\* Waiting for the event fails: nothing is joined or closed.
ReapFails == Fault /\ report' = ErrorReport /\ UNCHANGED reaped

\* The same in run: child_free then has the tree terminated and waits again.
GivesUp ==
  /\ report' = ErrorReport /\ cmd' = "close"
  /\ TerminateOrClose(1)
  /\ UNCHANGED <<life, reaped>>

\* child wait, on a child already reaped or not.
ChildWait ==
  /\ life = "live" /\ cmd = "idle"
  /\ \/ reaped /\ report' = FinalReport /\ UNCHANGED cmd
     \/ ~reaped /\ cmd' \in {"wait", "timedwait"} /\ UNCHANGED report
  /\ UNCHANGED <<life, inOpen, reaped, jobVars, killed, faults>> /\ CommandStays

ChildWaitReturns ==
  /\ cmd \in {"wait", "timedwait"} /\ cmd' = "idle"
  /\ \/ Reap(FinalReport)
     \/ ReapFails
     \/ /\ cmd = "timedwait" /\ ~done /\ report' = RunningReport
        /\ UNCHANGED <<reaped, faults>>
  /\ UNCHANGED <<life, inOpen, jobVars, killed>> /\ CommandStays

\* Fault: a kill after the result was collected changes it.
ChildKillAfterReap ==
  /\ life = "live" /\ cmd = "idle"
  /\ doomed' = TRUE /\ killed' = TRUE
  /\ UNCHANGED <<life, cmd, report, reaped, inOpen, job, faults>> /\ CommandStays

\* child kill: a no-op once reaped, an error when the job cannot be terminated.
ChildKill ==
  /\ life = "live" /\ cmd = "idle" /\ ~reaped
  /\ \/ TerminateJob(0) /\ killed' = TRUE
     \/ JobNotTerminated(0) /\ UNCHANGED <<killed, jobVars>>
  /\ UNCHANGED <<life, cmd, report, reaped, inOpen>> /\ CommandStays

\* The script reads a channel, or closes the child's stdin.
ScriptReads ==
  /\ life = "live" /\ cmd = "idle" /\ mode = "channels"
  /\ \E s \in Streams : TakeChunk(s)
  /\ UNCHANGED <<scriptVars, treeVars, jobVars, inVars, readVars, endVars, monVars, killed, faults>>

ScriptClosesStdin ==
  /\ life = "live" /\ cmd = "idle" /\ mode = "channels" /\ inOpen
  /\ inOpen' = FALSE
  /\ UNCHANGED <<life, cmd, report, reaped, jobVars, killed, faults>> /\ CommandStays

\* child_free of a child that is not reaped: terminate, then wait for it.
FreeStarts ==
  /\ cmd' = "close"
  /\ TerminateOrClose(0)
  /\ UNCHANGED <<life, reaped>>

\* child_free of a reaped child.
Freed == life' = "freed" /\ cmd' = "idle" /\ JobFreed

\* child close: the channels first, then child_free.
ChildClose ==
  /\ life = "live" /\ cmd = "idle"
  /\ inOpen' = (inOpen /\ mode # "channels")
  /\ \/ reaped /\ Freed /\ UNCHANGED <<reaped, faults>>
     \/ ~reaped /\ FreeStarts
  /\ UNCHANGED <<report, killed>> /\ CommandStays

\* Fault: a child whose completion could not be awaited is freed nevertheless.
ChildFreeAnyway ==
  /\ cmd = "close"
  /\ \/ Reap(report) /\ Freed
     \/ ReapFails /\ Freed
  /\ inOpen' = FALSE
  /\ UNCHANGED killed /\ CommandStays

\* child_free's reap: on failure the child is leaked, its threads still use it.
ChildFree ==
  /\ cmd = "close"
  /\ \/ done /\ reaped' = TRUE /\ Joined /\ Freed /\ inOpen' = FALSE
     \/ Fault /\ life' = "leaked" /\ cmd' = "idle" /\ UNCHANGED <<inOpen, reaped, jobVars>>
  /\ UNCHANGED <<report, killed>> /\ CommandStays

\* run without callbacks: reap, report, free.
RunReturns ==
  /\ cmd = "run"
  /\ (Reap(FinalReport) /\ Freed) \/ GivesUp
  /\ UNCHANGED <<inOpen, killed>> /\ CommandStays
------------------------------------------------------------------------------
(* child_pump: run with -onout or -onerr reads on the interpreter's thread.  *)

\* A chunk reaches the callback, or the capture of a stream that has none.
PumpOnce ==
  /\ cmd = "pump"
  /\ \E s \in Streams :
       /\ pumpEof[s] = "no" /\ TakeChunk(s)
       /\ IF s \in Callbacks
          THEN len' = [len EXCEPT ![s] = @ + 1] /\ UNCHANGED truncated
          ELSE Keep(s)
  /\ UNCHANGED <<scriptVars, treeVars, jobVars, inVars, tRead, ioError, endVars, monVars,
                 killed, faults>>

\* PeekNamedPipe or ReadFile fails: that is the end of the stream, whatever the error was.
PumpStops ==
  /\ cmd = "pump"
  /\ \E s \in Streams :
       /\ pumpEof[s] = "no"
       /\ \/ Eof(s) /\ NoFault /\ pumpEof' = [pumpEof EXCEPT ![s] = "end"]
          \/ Fault /\ pumpEof' = [pumpEof EXCEPT ![s] = "failed"]
  /\ UNCHANGED <<scriptVars, treeVars, jobVars, pipeVars, inVars, readVars, unjoined, monVars, killed>>

\* The callback raises, or waiting for completion fails: the tree is killed.
PumpAborts ==
  /\ cmd = "pump" /\ cmd' = "abort"
  /\ killed' = TRUE
  /\ \/ /\ \E s \in Callbacks : pumpEof[s] = "no" /\ TakeChunk(s)
        /\ TerminateOrClose(0)
     \/ UNCHANGED pipeVars /\ TerminateOrClose(1)
  /\ UNCHANGED <<life, mode, report, reaped, treeVars, inVars, readVars, endVars, monVars>>

\* Fault: the pump stops at completion, whatever is left in the pipes.
PumpOverAtDone == done

\* Complete, and both pipes at their end as far as the pump knows.
PumpOver == done /\ \A s \in Streams : pumpEof[s] # "no"

\* The trailing lines are flushed (that callback may raise too) and run returns.
PumpReturns ==
  /\ cmd = "pump" /\ PumpOver
  /\ \/ (Reap(FinalReport) \/ Reap(ErrorReport)) /\ Freed
     \/ GivesUp
  /\ UNCHANGED <<inOpen, killed>> /\ CommandStays

\* After an abort: reap and free, or child_free's second attempt.
PumpAborted ==
  /\ cmd = "abort"
  /\ \/ report' = ErrorReport /\ done /\ reaped' = TRUE /\ Joined /\ Freed
     \/ GivesUp
  /\ UNCHANGED <<inOpen, killed>> /\ CommandStays
------------------------------------------------------------------------------
Proc == ProcWrites \/ ProcReads \/ ProcFinishes
Tree == Proc \/ ProcEndsEarly \/ TreeSpawns \/ KidExits \/ TreeClosesOutput \/ DoomedDies
Reader(s) == ReaderReads(s) \/ ReaderEnds(s)
Writer == WriterWrites \/ WriterEnds
Monitor == MonitorProc \/ MonitorJob \/ MonitorDone \/ MonitorAgain
Command ==
  \/ LaunchUnwound \/ ChildWaitReturns \/ ChildFree \/ RunReturns
  \/ PumpOnce \/ PumpStops \/ PumpAborts \/ PumpReturns \/ PumpAborted
Script ==
  \/ ChildStart \/ RunCmd \/ ChildStartNoChannels \/ LaunchFails
  \/ ChildWait \/ ChildKill \/ ChildClose \/ ScriptReads \/ ScriptClosesStdin

Next ==
  \/ Tree \/ Writer \/ Monitor \/ ClockTicks \/ Command \/ Script
  \/ \E s \in Streams : Reader(s)

Spec == Init /\ [][Next]_vars

\* The operating system schedules every thread, its clock runs, and what it was
\* told to kill dies. The script owes nothing.
Fairness ==
  /\ \A s \in Streams : WF_vars(Reader(s))
  /\ WF_vars(Writer) /\ WF_vars(Monitor) /\ WF_vars(ClockTicks)
  /\ WF_vars(DoomedDies)
  /\ WF_vars(Command)
FairSpec == Spec /\ Fairness

\* A tree that gets on with its work as far as its pipes let it.
WorkingTreeSpec == FairSpec /\ WF_vars(Proc) /\ WF_vars(KidExits)
------------------------------------------------------------------------------
(* Safety.                                                                 *)

\* The completion event stands for the whole job: unless the monitor failed, it is
\* set only when no process of the tree is left and the threads that still touch
\* child_t (writer, readers of a capture) have ended.
DoneMeansOver ==
  done => /\ Active = 0 \/ monitorFailed
          /\ tIn # "running"
          /\ \A s \in Streams : tRead[s] # "running"

\* child_t is released only when no monitor, reader or writer thread uses it any
\* more, on every path through child_free, a failed join or a failed wait included
\* (there it is leaked instead), and through child_launch's clean-up unless a wait
\* for a thread fails there, which the code does not look at; and whatever is left of
\* the tree of a child that was released, or had to be leaked, is terminated.
ReleaseIsClean ==
  /\ life = "freed" => ThreadsEnded
  /\ life = "failed" => ThreadsEnded \/ unjoined
  /\ life \in {"freed", "failed", "leaked"} => Active = 0 \/ doomed

\* A result reports all the output the tree wrote, up to the capture limit, and
\* says where it was cut: nothing left in a pipe by a tree that was killed or
\* finished in a hurry is lost (reader_thread, child_pump). A failing read of a
\* reader thread makes the result an error; one of the pump passes for the end of
\* that stream, of which the result then has less.
AllOutputReported ==
  report.kind = "final" =>
    \A s \in Streams :
      CASE mode \in {"channels", "inherit"} -> report.out[s] = 0
        [] mode = "stream" /\ pumpEof[s] = "failed" -> report.out[s] <= wrote[s]
        [] mode = "stream" /\ pumpEof[s] # "failed" /\ s \in Callbacks -> report.out[s] = wrote[s]
        [] OTHER ->
             ~ioError => /\ report.out[s] = (IF wrote[s] < CaptureCap THEN wrote[s] ELSE CaptureCap)
                         /\ truncated[s] <=> wrote[s] > CaptureCap

\* The status is the reason: ok and error carry the exit code of a process that
\* ended by itself, timeout comes only from a deadline that passed, and a direct
\* process that machteld killed is never reported ok or error.
VerdictIsTrue ==
  report.kind = "final" =>
    /\ report.status = "ok" => code = "ok"
    /\ report.status = "error" => code = "err"
    /\ report.status = "timeout" => deadline = "spent"
    /\ report.status = "killed" => doomed

\* Results are never taken back: a collected result stays what it is whatever the
\* script does next, and the output of a running snapshot only grows
\* (child_reap's one-shot, child kill's check of reaped). ImplementsPromise includes it.
ResultsAreKept ==
  [][/\ report.kind = "final" /\ report'.kind = "final" => report' = report
     /\ report.kind \in {"running", "final"} /\ report'.kind \in {"running", "final"} =>
          \A s \in Streams : report.out[s] <= report'.out[s]
     /\ report.kind = "final" => report'.kind # "running"]_vars
------------------------------------------------------------------------------
(* Refinement.                                                             *)

\* What the script can tell of child_t: the exit is out with the completion event.
Promise ==
  INSTANCE ChildPromise WITH
    exit <- IF done THEN exitCode ELSE "none",
    output <- len,
    collected <- reaped,
    answer <- report

\* run and child keep the promise of ChildPromise: the child is over once, with one
\* exit; a kill or a deadline that comes too late changes nothing; the result is
\* collected once, on whichever of child wait, close, run or an aborted pump comes
\* to it, and every later answer repeats it (child_monitor_thread, child_reap,
\* child_free, ChildCmd).
ImplementsPromise == Promise!PromiseSpec
------------------------------------------------------------------------------
(* Liveness.                                                               *)

\* The lifetime deadline needs no script: once the clock has passed it, the
\* monitor brings the child to completion, even if the tree never ends by itself
\* and no command looks at the child.
DeadlineIsEnforced == (life = "live" /\ deadline = "armed" /\ mon = "proc") ~> done

\* A kill brings the child to completion, and a command that gave the child up -- child
\* close, an aborted pump, the clean-up of a run whose wait failed -- returns, although
\* the monitor, the readers and the dying tree each have their own pace.
KillCompletes ==
  (life = "live" /\ doomed /\ cmd # "unwind") ~> (done /\ cmd \notin {"close", "abort"})

\* A captured child that writes before it reads its input cannot deadlock with
\* machteld over full pipes: a working tree is brought to completion.
CaptureCompletes == (life = "live" /\ mode = "capture") ~> (done \/ life # "live")
==============================================================================
