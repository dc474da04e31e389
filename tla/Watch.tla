-------------------------------- MODULE Watch --------------------------------
(***************************************************************************)
(* A directory watch (src/src/proc.c, "::machteld::watch"): a reader thread    *)
(* with one ReadDirectoryChangesW outstanding, a bounded queue under a lock,   *)
(* three manual-reset events, and the interpreter's commands watch start,      *)
(* read and close and wait.                                                *)
(*                                                                         *)
(* Changes of the directory are numbered in the order they happen. The kernel  *)
(* records them from the first read on, also while no read is outstanding, in  *)
(* a buffer of OsMax records; when that overflows it forgets the whole buffer.  *)
(* A critical section is one step; an event set outside it is another. A time   *)
(* limit may run out whenever what it waits for has not happened.             *)
(***************************************************************************)
EXTENDS Integers, Sequences, FiniteSets, SequencesExt

CONSTANTS
  MaxChanges,  \* bound: changes of the directory
  QueueMax,    \* WATCH_QUEUE_MAX
  OsMax,       \* records the kernel holds between two reads
  MaxFaults    \* bound: calls that fail

ASSUME SizesAssumption == QueueMax \in Nat \ {0} /\ OsMax \in Nat \ {0}
ASSUME BoundsAssumption == MaxChanges \in Nat /\ MaxFaults \in Nat

VARIABLES
  life,      \* none, starting, live, closing, freed, leaked
  cmd,       \* the command the interpreter is in, and where
  thread,    \* watch_thread: none, begin, issue, wait, failing, signal, ended
  armed, failed, queue, dropped,  \* watch_t; queue is ev
  readyEv, dataEv, stopEv,        \* its events
  dirOpen,   \* its directory handle
  read,      \* the ReadDirectoryChangesW: none, pending, done, aborted
  buf,       \* what it has written to the thread's buffer, if done
  bufLost,   \* changes it says nothing of but that there were some
  recording, \* the kernel records changes
  os, osLost,     \* what it has recorded, and what it could not hold
  changes,   \* changes made so far
  missed,    \* history: changes made while nothing recorded
  shed,      \* history: changes dropped that no read has told of
  told,      \* history: changes a read's overflow row or error stands for
  given,     \* history: changes returned by reads
  promised,  \* wait has named the watch and no read has followed
  faults

commandVars == <<life, cmd, promised>>
queueVars == <<failed, queue, dropped, dataEv, shed>>
kernelVars == <<read, buf, bufLost, recording, os, osLost>>
worldVars == <<changes, missed>>
readerVars == <<told, given>>
vars == <<commandVars, thread, armed, queueVars, readyEv, stopEv, dirOpen,
          kernelVars, worldVars, readerVars, faults>>

Fault == faults < MaxFaults /\ faults' = faults + 1
NoFault == UNCHANGED faults

\* n > 0 || dropped > 0 || failed
Readable == queue # <<>> \/ dropped > 0 \/ failed
------------------------------------------------------------------------------
(* The directory and the kernel.                                           *)

KernelStays == UNCHANGED <<commandVars, thread, armed, queueVars, readyEv, stopEv, dirOpen, readerVars>>

DirectoryChanges ==
  /\ changes < MaxChanges /\ changes' = changes + 1
  /\ CASE ~recording -> missed' = missed \cup {changes'} /\ UNCHANGED <<os, osLost>>
       [] recording /\ (osLost # {} \/ Len(os) = OsMax) ->
            osLost' = osLost \cup Range(os) \cup {changes'} /\ os' = <<>> /\ UNCHANGED missed
       [] OTHER -> os' = Append(os, changes') /\ UNCHANGED <<osLost, missed>>
  /\ UNCHANGED <<read, buf, bufLost, recording>> /\ NoFault /\ KernelStays

\* A pending read takes what is recorded; after an overflow it reports no bytes.
KernelCompletes ==
  /\ read = "pending" /\ (os # <<>> \/ osLost # {})
  /\ read' = "done"
  /\ buf' = os /\ bufLost' = osLost
  /\ os' = <<>> /\ osLost' = {}
  /\ UNCHANGED <<recording, worldVars>> /\ NoFault /\ KernelStays

\* The directory goes away, or its volume.
KernelAborts ==
  /\ read = "pending" /\ Fault
  /\ read' = "aborted"
  /\ UNCHANGED <<buf, bufLost, recording, os, osLost, worldVars>> /\ KernelStays
------------------------------------------------------------------------------
(* watch_thread.                                                           *)

ThreadStays == UNCHANGED <<commandVars, stopEv, dirOpen, worldVars, readerVars>>

\* The buffer and the event of the read.
ThreadBegins ==
  /\ thread = "begin"
  /\ \/ thread' = "issue" /\ NoFault
     \/ thread' = "failing" /\ Fault
  /\ UNCHANGED <<armed, queueVars, readyEv, kernelVars>> /\ ThreadStays

\* ReadDirectoryChangesW; the first one arms the watch, or fails to.
ThreadIssues ==
  /\ thread = "issue"
  /\ \E ok \in BOOLEAN :
       /\ IF ok THEN dirOpen /\ NoFault ELSE Fault \/ (~dirOpen /\ NoFault)
       /\ readyEv' = TRUE /\ armed' = (IF readyEv THEN armed ELSE ok)
       /\ thread' = (IF ok THEN "wait" ELSE "failing")
       /\ read' = (IF ok THEN "pending" ELSE read)
       /\ recording' = (recording \/ ok)
  /\ UNCHANGED <<queueVars, buf, bufLost, os, osLost>> /\ ThreadStays

\* What the queue still has room for.
Fitting(q) == SubSeq(q, 1, Min({Len(q), QueueMax - Len(queue)}))

\* The ways to keep some of m records, in their order: the positions kept.
Kept(m) ==
  {at \in UNION {[1 .. n -> 1 .. m] : n \in 0 .. m} :
     \A i, j \in DOMAIN at : i < j => at[i] < at[j]}

\* watch_push of the records that at keeps of the first m of buf; the others of these and
\* those over the cap are counted, and the records after them are not looked at.
Push(at, m) ==
  /\ queue' = queue \o Fitting([k \in DOMAIN at |-> buf[at[k]]])
  /\ shed' = shed \cup (Range(buf) \ Range(queue'))
  /\ dropped' = dropped + m - (Len(queue') - Len(queue))

\* Fault: the event is set for records only.
SignalRecordsOnly == dataEv' = (dataEv \/ queue' # <<>> \/ failed')

\* SetEvent(w->dataEv), still under the lock.
SignalData == dataEv' = (dataEv \/ Readable')

\* The read is complete: its records are queued, but for names that cannot be converted
\* or copied.
ThreadQueues ==
  /\ thread = "wait" /\ read = "done" /\ NoFault
  /\ IF bufLost # {}
     THEN dropped' = dropped + 1 /\ shed' = shed \cup bufLost /\ UNCHANGED queue
     ELSE \E at \in Kept(Len(buf)) : Push(at, Len(buf))
  /\ UNCHANGED failed /\ SignalData
  /\ read' = "none" /\ buf' = <<>> /\ bufLost' = {}
  /\ thread' = "issue"
  /\ UNCHANGED <<armed, readyEv, recording, os, osLost>> /\ ThreadStays

\* A record has a length, or an offset to the next one, that makes no sense: those before it
\* (and itself, if it is the offset) are queued, and the watch has failed.
ThreadRefuses ==
  /\ thread = "wait" /\ read = "done" /\ Fault
  /\ buf # <<>>
  /\ \E m \in 0 .. Len(buf) : \E at \in Kept(m) : Push(at, m)
  /\ failed' = TRUE /\ SignalData
  /\ read' = "none" /\ buf' = <<>> /\ bufLost' = {}
  /\ thread' = "ended"
  /\ UNCHANGED <<armed, readyEv, recording, os, osLost>> /\ ThreadStays

\* GetOverlappedResult reports an aborted read, or fails on its own.
ThreadFindsError ==
  /\ thread = "wait"
  /\ \/ read = "aborted" /\ NoFault
     \/ read = "done" /\ Fault
  /\ read' = "none" /\ thread' = "failing"
  /\ UNCHANGED <<armed, queueVars, readyEv, buf, bufLost, recording, os, osLost>> /\ ThreadStays

\* WaitForMultipleObjects fails: the read is left outstanding.
ThreadWaitFails ==
  /\ thread = "wait" /\ Fault
  /\ thread' = "failing"
  /\ UNCHANGED <<armed, queueVars, readyEv, kernelVars>> /\ ThreadStays

\* stopEv, which the wait sees only if the read is not complete: the read is
\* withdrawn and reaped.
ThreadStops ==
  /\ thread = "wait" /\ stopEv /\ read = "pending" /\ NoFault
  /\ read' = "none" /\ thread' = "ended"
  /\ UNCHANGED <<armed, queueVars, readyEv, buf, bufLost, recording, os, osLost>> /\ ThreadStays

\* watch_fail under the lock...
ThreadFails ==
  /\ thread = "failing" /\ NoFault
  /\ failed' = TRUE /\ thread' = "signal"
  /\ UNCHANGED <<armed, queue, dropped, dataEv, shed, readyEv, kernelVars>> /\ ThreadStays

\* Fault: watch_fail wakes only watch start.
FailSignalsReady ==
  /\ thread = "signal" /\ NoFault
  /\ readyEv' = TRUE /\ thread' = "ended"
  /\ UNCHANGED <<armed, queueVars, kernelVars>> /\ ThreadStays

\* ... and its events after it.
FailSignals ==
  /\ thread = "signal" /\ NoFault
  /\ readyEv' = TRUE /\ dataEv' = TRUE /\ thread' = "ended"
  /\ UNCHANGED <<armed, failed, queue, dropped, shed, kernelVars>> /\ ThreadStays
------------------------------------------------------------------------------
(* The interpreter.                                                        *)

CommandStays == UNCHANGED <<armed, readyEv, worldVars>>
OnlyCommand == CommandStays /\ UNCHANGED <<thread, queueVars, stopEv, dirOpen, kernelVars, readerVars>>

\* watch start up to CreateThread, which may fail.
WatchStart ==
  /\ life = "none"
  /\ \/ life' = "starting" /\ cmd' = "start" /\ thread' = "begin" /\ dirOpen' = TRUE /\ NoFault
     \/ life' = "freed" /\ Fault /\ UNCHANGED <<cmd, thread, dirOpen>>
  /\ UNCHANGED <<promised, queueVars, stopEv, kernelVars, readerVars>> /\ CommandStays

\* The token is handed back only when the watch records.
StartArmed ==
  /\ cmd = "start" /\ readyEv /\ armed
  /\ life' = "live" /\ cmd' = "idle"
  /\ UNCHANGED promised /\ NoFault /\ OnlyCommand

\* watch_free: the thread is told to leave.
FreeStarts ==
  /\ life' = "closing" /\ cmd' = "stop" /\ stopEv' = TRUE
  /\ UNCHANGED <<promised, thread, queueVars, dirOpen, kernelVars, readerVars>>
  /\ NoFault /\ CommandStays

\* The thread failed, or five seconds have passed, or the wait failed.
StartFails == cmd = "start" /\ (readyEv => ~armed) /\ FreeStarts

WatchClose == life = "live" /\ cmd = "idle" /\ FreeStarts

\* Fault: the structure is freed whatever the thread does.
FreedAnyway ==
  /\ cmd \in {"stop", "force"}
  /\ life' = "freed" /\ cmd' = "idle" /\ dirOpen' = FALSE
  /\ UNCHANGED <<promised, thread, queueVars, stopEv, kernelVars, readerVars>>
  /\ NoFault /\ CommandStays

\* The thread has ended: everything is released. Closing the directory ends
\* what it left outstanding.
Freed ==
  /\ cmd \in {"stop", "force"} /\ thread = "ended"
  /\ life' = "freed" /\ cmd' = "idle" /\ dirOpen' = FALSE
  /\ read' = (IF read = "pending" THEN "aborted" ELSE read)
  /\ recording' = FALSE
  /\ UNCHANGED <<promised, thread, queueVars, stopEv, buf, bufLost, os, osLost, readerVars>>
  /\ NoFault /\ CommandStays

\* Five seconds: the I/O is cancelled and the directory closed under the thread.
FreeForces ==
  /\ cmd = "stop" /\ thread # "ended"
  /\ cmd' = "force" /\ dirOpen' = FALSE
  /\ read' = (IF read = "pending" THEN "aborted" ELSE read)
  /\ recording' = FALSE
  /\ UNCHANGED <<life, promised, thread, queueVars, stopEv, buf, bufLost, os, osLost, readerVars>>
  /\ NoFault /\ CommandStays

\* Another five seconds, or a wait that failed: the structure is left allocated.
FreeLeaks ==
  /\ \/ cmd = "force" /\ thread # "ended" /\ NoFault
     \/ cmd \in {"stop", "force"} /\ Fault
  /\ life' = "leaked" /\ cmd' = "idle"
  /\ UNCHANGED promised /\ OnlyCommand

\* watch read with a -timeout looks first and may block.
ReadBegins ==
  /\ life = "live" /\ cmd = "idle" /\ NoFault
  /\ cmd' = (IF queue # <<>> \/ dropped > 0 THEN "drain" ELSE "block")
  /\ UNCHANGED <<life, promised>> /\ OnlyCommand

\* The event is set, or the time is up.
ReadWakes ==
  /\ cmd = "block" /\ cmd' = "drain"
  /\ UNCHANGED <<life, promised>> /\ NoFault /\ OnlyCommand

\* Fault: the row of the overflow is made from the counter that was just reset.
DrainedQuietly ==
  /\ queue' = <<>> /\ dropped' = 0 /\ dataEv' = FALSE
  /\ given' = given \cup Range(queue)
  /\ UNCHANGED <<failed, shed, told>>

\* The queue and the counter are taken, and the event is reset, under the lock.
Drained ==
  /\ queue' = <<>> /\ dropped' = 0 /\ dataEv' = FALSE
  /\ given' = given \cup Range(queue)
  /\ told' = (IF dropped > 0 THEN told \cup shed ELSE told)
  /\ shed' = (IF dropped > 0 THEN {} ELSE shed)
  /\ UNCHANGED failed

\* watch read's critical section; without -timeout it is all there is.
Drain ==
  /\ cmd = "drain" \/ (life = "live" /\ cmd = "idle")
  /\ cmd' = "idle" /\ promised' = FALSE
  /\ \/ failed /\ told' = told \cup 1 .. changes /\ UNCHANGED <<queueVars, given>>
     \/ ~failed /\ Drained
  /\ UNCHANGED <<life, thread, stopEv, dirOpen, kernelVars>> /\ NoFault /\ CommandStays

\* wait: at once when the watch is ready, else on its event.
WaitBegins ==
  /\ life = "live" /\ cmd = "idle"
  /\ IF Readable THEN promised' = TRUE /\ UNCHANGED cmd ELSE cmd' = "wait" /\ UNCHANGED promised
  /\ UNCHANGED life /\ NoFault /\ OnlyCommand

WaitReturns ==
  /\ cmd = "wait" /\ dataEv
  /\ cmd' = "idle" /\ promised' = TRUE
  /\ UNCHANGED life /\ NoFault /\ OnlyCommand

\* WaitForSingleObject or WaitForMultipleObjects fails: an error, nothing taken.
WaitFails ==
  /\ cmd \in {"block", "wait"} /\ cmd' = "idle"
  /\ UNCHANGED <<life, promised>> /\ Fault /\ OnlyCommand
------------------------------------------------------------------------------
Init ==
  /\ life = "none" /\ cmd = "idle" /\ thread = "none"
  /\ armed = FALSE /\ failed = FALSE /\ queue = <<>> /\ dropped = 0
  /\ readyEv = FALSE /\ dataEv = FALSE /\ stopEv = FALSE
  /\ dirOpen = FALSE /\ read = "none" /\ buf = <<>> /\ bufLost = {}
  /\ recording = FALSE /\ os = <<>> /\ osLost = {}
  /\ changes = 0 /\ missed = {} /\ shed = {} /\ told = {} /\ given = {}
  /\ promised = FALSE /\ faults = 0

Kernel == DirectoryChanges \/ KernelCompletes \/ KernelAborts

Thread ==
  \/ ThreadBegins \/ ThreadIssues \/ ThreadQueues \/ ThreadRefuses \/ ThreadFindsError
  \/ ThreadWaitFails \/ ThreadStops \/ ThreadFails \/ FailSignals

Interpreter ==
  \/ WatchStart \/ StartArmed \/ StartFails \/ WatchClose
  \/ Freed \/ FreeForces \/ FreeLeaks
  \/ ReadBegins \/ ReadWakes \/ Drain \/ WaitBegins \/ WaitReturns \/ WaitFails

Next == Kernel \/ Thread \/ Interpreter

Spec == Init /\ [][Next]_vars

\* The kernel completes a read that has something to report, the system schedules
\* the thread, and wakes a wait whose event is set. The script owes nothing.
Fairness == WF_vars(KernelCompletes) /\ WF_vars(Thread) /\ WF_vars(WaitReturns)
FairSpec == Spec /\ Fairness
------------------------------------------------------------------------------
Change == 1 .. MaxChanges

\* No change vanishes without a word. While the token is live every change is
\* recorded ("Returning as soon as the thread exists is not enough", watch_thread);
\* one that is dropped - by the cap, a name, a full kernel buffer or a record that
\* makes no sense - is counted, or the watch has failed, until a read tells; and no
\* read returns a change while an earlier one has vanished untold (watch_push: "a
\* caller that fell behind is told so").
NoSilentGap ==
  /\ life = "live" => recording
  /\ shed # {} => dropped > 0 \/ failed
  /\ \A c \in given, e \in Change : e < c => e \in given \cup told \cup missed

\* dataEv is what wait and read block on: it is set exactly while there is
\* something to read, although thread and interpreter set and reset it. The thread
\* that has marked a failure is the one exception, until it has set it. A token that
\* wait has returned can be read without blocking.
EventIsTheQueue ==
  life = "live" =>
    /\ dataEv => Readable
    /\ Readable => dataEv \/ thread = "signal"
    /\ promised => Readable

\* watch_t is freed only when its thread has ended, on the way out of a start that
\* failed and of a close that had to force it; and a thread that was stopped has
\* withdrawn its read: nothing is written to the buffer it frees.
StopIsClean ==
  /\ life = "freed" => thread \in {"none", "ended"}
  /\ thread = "ended" /\ ~failed => read # "pending"

\* A change, or a failure, wakes the script that waits for it.
ChangeWakes == (cmd = "wait" /\ (os # <<>> \/ failed)) ~> cmd # "wait"
==============================================================================
