-------------------------------- MODULE Pty --------------------------------
(***************************************************************************)
(* machteld::pty (src/src/proc.c): a child behind a Windows pseudo-console.*)
(* The console host reads the keyboard pipe and writes the screen pipe,    *)
(* both bounded, and does one thing at a time: a host whose screen pipe is *)
(* full reads no key.  `pty send` therefore writes from a thread of its    *)
(* own and retains what the screen says meanwhile, `pty close` lets a      *)
(* thread drain the screen while the host goes down, and both give up      *)
(* without leaving the thread's memory or handle to anyone else.           *)
(* Bytes are numbered per terminal, in the order the host wrote them.      *)
(***************************************************************************)
EXTENDS Integers, FiniteSetsExt, SequencesExt

CONSTANTS MaxPtys,    \* bound: terminals a script opens
          OutCap,     \* units the screen pipe holds
          InCap,      \* units the keyboard pipe holds
          Chunk,      \* PTY_IO_CHUNK: units of one read
          WriteChunk, \* units of one WriteFile of the writer
          QueueLimit, \* PTY_SEND_QUEUE_LIMIT
          SendLen,    \* units of one `pty send`
          MaxSaid,    \* bound: units all hosts write while up
          MaxSends,   \* bound: calls of `pty send`
          MaxFaults   \* bound: failing calls of the system

ASSUME PtyAssumption ==
    /\ {OutCap, InCap, Chunk, WriteChunk, QueueLimit, SendLen} \subseteq Nat \ {0}
    /\ {MaxPtys, MaxSaid, MaxSends, MaxFaults} \subseteq Nat

VARIABLES pty,    \* per terminal: what the process holds, its threads, its pipes
          listed, \* the tokens of ctx->ptys; its head, the newest, is the largest
          writer, \* the thread of the `pty send` in progress
          call,   \* the Tcl thread: the call it is in
          said, sends, faults \* what the bounds count
vars == <<pty, listed, writer, call, said, sends, faults>>

Ptys == 1..MaxPtys \* tokens, counted by ctx->pty_counter
\* What the record of an open terminal names: handles, and the memory of its job
\* (whose handle is jobH) and of itself.
Handles == {"inW", "outR", "hpc", "job", "jobH", "proc", "pty"}
ChildEnds == {"inR", "outW"}
NoPty == [held |-> {}, bad |-> {}, tree |-> "none", host |-> "none", pend |-> 0, made |-> 0,
          keys |-> 0, screen |-> <<>>, queue |-> <<>>, given |-> <<>>, drain |-> "none"]
WriterAt(pc) == [pc |-> pc, off |-> 0, want |-> 0, stop |-> FALSE, failed |-> FALSE]
NoWriter == WriterAt("none")
Calling(op, p, pc) == [op |-> op, pty |-> p, pc |-> pc, bad |-> FALSE]
Idle == Calling("none", 0, "idle")

Init == /\ pty = [p \in Ptys |-> NoPty]
        /\ listed = {}
        /\ writer = NoWriter
        /\ call = Idle
        /\ said = 0 /\ sends = 0 /\ faults = 0

\* CloseHandle, ClosePseudoConsole and free end what is held; bad records what was not.
Close(t, names) == [t EXCEPT !.held = @ \ names, !.bad = @ \cup (names \ t.held)]

\* A call of the system fails, or it does not.
Fails(b) == /\ b => faults < MaxFaults
            /\ faults' = IF b THEN faults + 1 ELSE faults

Goto(pc) == call' = [call EXCEPT !.pc = pc]
\* The call ends; at exit a teardown that failed ends the loop over the list.
Return(ok) ==
    /\ call' = IF call.op # "exit" THEN Idle
               ELSE Calling("exit", 0, IF ok THEN "exit" ELSE "root")
    /\ writer' = NoWriter

Begin(op, p, pc) == /\ call.pc = "idle" /\ p \in listed
                    /\ call' = Calling(op, p, pc)
                    /\ writer' = IF op = "send" THEN WriterAt("check") ELSE writer
---------------------------------------------------------------------------
(* pty spawn: what has been made when a call fails, and what `done` closes *)

\* What each call makes: two pipes, the console, the job, the record, the process.
Makes == <<{"inR", "inW"}, {"outR", "outW"}, {"hpc"}, {"job", "jobH"}, {"pty"}, {"proc"}>>
MadeBefore(n) == UNION {Makes[i] : i \in 1..(n - 1)}
\* The child's ends are closed as soon as the console has its own.
HandedOver(n) == IF n > 3 THEN ChildEnds ELSE {}
\* The variables that are set at the label done: the record took the others over.
Locals(n) == IF n > Len(Makes) THEN {"pty", "proc"} ELSE MadeBefore(n) \ HandedOver(n)

\* Fault: a record whose process was never made is forgotten, and what was made for it.
AtDoneIfNoRecord(set) ==
    set \cap (ChildEnds \cup IF "pty" \in set THEN {}
                            ELSE {"proc", "inW", "outR", "hpc", "job", "jobH"})
AtDone(set) ==
    set \cap (ChildEnds \cup CASE "pty" \notin set -> {"proc", "inW", "outR", "hpc", "job", "jobH"}
                               [] {"pty", "proc"} \subseteq set -> {}
                               [] OTHER -> {"pty", "inW", "outR", "hpc", "job", "jobH"})

Spawn(p) == \E n \in 1..(Len(Makes) + 1) :
    LET made == [NoPty EXCEPT !.held = MadeBefore(n)]
        done == Close(Close(made, HandedOver(n)), AtDone(Locals(n)))
        ok == n > Len(Makes)
    IN
    /\ call.pc = "idle"
    /\ pty[p] = NoPty /\ \A q \in 1..(p - 1) : pty[q] # NoPty
    /\ Fails(~ok)
    /\ pty' = [pty EXCEPT ![p] = [done EXCEPT !.tree = IF ok THEN "alive" ELSE "none",
                                             !.host = IF ok THEN "up" ELSE "none"]]
    /\ listed' = IF ok THEN listed \cup {p} ELSE listed
    /\ UNCHANGED <<writer, call, said, sends>>
---------------------------------------------------------------------------
(* The console host and the child behind it *)

HostTalks(p) == /\ pty[p].host = "up" /\ said < MaxSaid
                /\ pty' = [pty EXCEPT ![p].pend = @ + 1]
                /\ said' = said + 1 /\ faults' = faults
HostReads(p) == /\ pty[p].host = "up" /\ pty[p].keys > 0 /\ pty[p].pend = 0
                /\ \E echo \in IF said < MaxSaid THEN {0, 1} ELSE {0} :
                     /\ pty' = [pty EXCEPT ![p].keys = @ - 1, ![p].pend = echo]
                     /\ said' = said + echo
HostWrites(p) == /\ pty[p].pend > 0 /\ Len(pty[p].screen) < OutCap
                 /\ pty' = [pty EXCEPT ![p].pend = @ - 1, ![p].made = @ + 1,
                                       ![p].screen = Append(@, pty[p].made + 1)]
                 /\ UNCHANGED said
\* ClosePseudoConsole: the host writes out what it still has, and ends.
HostEnds(p) == /\ pty[p].host = "closing" /\ pty[p].pend = 0
               /\ pty' = [pty EXCEPT ![p].host = "down"]
               /\ UNCHANGED said
HostDies(p) == /\ pty[p].host = "up" /\ Fails(TRUE)
               /\ pty' = [pty EXCEPT ![p].host = "down", ![p].pend = 0]
               /\ UNCHANGED said

HostServes(p) == /\ HostReads(p) \/ HostWrites(p) \/ HostEnds(p)
                 /\ UNCHANGED <<listed, writer, call, sends, faults>>
HostActs(p) == /\ HostTalks(p) \/ HostDies(p)
               /\ UNCHANGED <<listed, writer, call, sends>>
---------------------------------------------------------------------------
(* pty send: the writer thread *)

WriterCheck == /\ writer.pc = "check"
               /\ writer' = IF writer.off >= SendLen THEN [writer EXCEPT !.pc = "close"]
                            ELSE IF writer.stop
                                 THEN [writer EXCEPT !.pc = "close", !.failed = TRUE]
                                 ELSE [writer EXCEPT !.pc = "gap"]
               /\ UNCHANGED pty
\* Between the check of the flag and the call of WriteFile, no cancellation lands.
WriterEnters == LET left == SendLen - writer.off IN
                /\ writer.pc = "gap"
                /\ writer' = [writer EXCEPT !.pc = "write",
                                            !.want = IF left > WriteChunk THEN WriteChunk ELSE left]
                /\ UNCHANGED pty
WriterPuts(p) == LET more == writer.want - 1 IN
                 /\ writer.pc = "write" /\ pty[p].host # "down" /\ pty[p].keys < InCap
                 /\ pty' = [pty EXCEPT ![p].keys = @ + 1]
                 /\ writer' = [writer EXCEPT !.off = @ + 1, !.want = more,
                                             !.pc = IF more = 0 THEN "check" ELSE "write"]
WriterFails(p) == /\ writer.pc = "write" /\ pty[p].host = "down"
                  /\ writer' = [writer EXCEPT !.pc = "close", !.failed = TRUE]
                  /\ UNCHANGED pty
\* The thread closes its own duplicate of the keyboard handle.
WriterCloses(p) == /\ writer.pc = "close" /\ writer' = [writer EXCEPT !.pc = "over"]
                   /\ pty' = [pty EXCEPT ![p] = Close(@, {"write"})]
Writer == /\ \/ WriterCheck \/ WriterEnters
             \/ \E p \in {call.pty} \cap Ptys : WriterPuts(p) \/ WriterFails(p) \/ WriterCloses(p)
          /\ UNCHANGED <<listed, call, said, sends, faults>>

CancelWrite == writer' = IF writer.pc = "write"
                         THEN [writer EXCEPT !.pc = "close", !.failed = TRUE] ELSE writer
---------------------------------------------------------------------------
(* pty send: the Tcl thread *)

\* A duplicate of the keyboard handle for the writer, and its thread.
SendBegins(p) == /\ Begin("send", p, "poll") /\ sends < MaxSends
                 /\ sends' = sends + 1
                 /\ pty' = [pty EXCEPT ![p].held = @ \cup {"write", "thread"}]
                 /\ UNCHANGED <<listed, said, faults>>
\* Without the duplicate or the thread, the send ends before it begins.
SendCannot(p) == /\ call.pc = "idle" /\ p \in listed /\ Fails(TRUE)
                 /\ \/ UNCHANGED pty
                    \/ LET duplicated == [pty[p] EXCEPT !.held = @ \cup {"write"}]
                       IN  pty' = [pty EXCEPT ![p] = Close(duplicated, {"write"})]
                 /\ UNCHANGED <<listed, writer, call, said, sends>>

Flat(queue) == FlattenSeq(queue)
Room(p) == QueueLimit - Len(Flat(pty[p].queue))
Least(S) == CHOOSE n \in S : \A m \in S : n <= m

\* A wait that fails ends the send with an error, as a failing capture does.
SendGivesUp == call' = [call EXCEPT !.pc = "stop", !.bad = TRUE]
SendPolls == /\ call.pc \in {"poll", "pause"}
             /\ \/ Fails(TRUE) /\ SendGivesUp
                \/ Fails(FALSE) /\ Goto(IF writer.pc = "over" THEN "finish"
                                        ELSE IF call.pc = "poll" THEN "capture" ELSE "poll")
             /\ UNCHANGED <<pty, writer>>

\* pty_output_capture: one chunk of the screen, retained in order, or the limit.
Captured(p) == LET n == Least({Len(pty[p].screen), Chunk, Room(p)}) IN
    pty' = [pty EXCEPT ![p].queue = Append(@, SubSeq(pty[p].screen, 1, n)),
                       ![p].screen = SubSeq(@, n + 1, Len(@))]
SendCaptures ==
    /\ call.pc = "capture"
    /\ LET p == call.pty IN
       \/ /\ Fails(TRUE) \* the pipe cannot be read, or no memory for the chunk
          /\ SendGivesUp /\ UNCHANGED pty
       \/ /\ Fails(FALSE)
          /\ IF pty[p].screen = <<>> THEN Goto("pause") /\ UNCHANGED pty
             ELSE IF Room(p) = 0 THEN Goto("recheck") /\ UNCHANGED pty
             ELSE Goto("poll") /\ Captured(p)
    /\ UNCHANGED writer
SendRechecks == /\ call.pc = "recheck"
                /\ \/ Fails(TRUE) /\ SendGivesUp
                   \/ Fails(FALSE) /\ writer.pc = "over" /\ Goto("finish")
                   \/ Fails(FALSE) /\ writer.pc # "over" /\ SendGivesUp
                /\ UNCHANGED <<pty, writer>>
SendStops == /\ call.pc = "stop"
             /\ writer' = [writer EXCEPT !.stop = TRUE]
             /\ Goto("cancel") /\ UNCHANGED <<pty, faults>>
SendCancels == /\ call.pc = "cancel"
               /\ CancelWrite /\ Goto("await") /\ UNCHANGED <<pty, faults>>
\* Fault: the send returns after one cancellation, whatever the thread does.
AfterOneWait == "finish"
\* The bounded wait after a cancellation: over, or cancel once more, also when neither
\* the wait nor the exit code of the thread tells.
AfterWait == IF writer.pc = "over" THEN "finish" ELSE "cancel"
SendAwaits == /\ call.pc = "await"
              /\ \E failed \in BOOLEAN :
                   Fails(failed) /\ (Goto(AfterWait) \/ (failed /\ Goto("cancel")))
              /\ UNCHANGED <<pty, writer>>
SendAnswersOk == ~call.bad /\ ~writer.failed
SendFinishes == /\ call.pc = "finish"
                /\ Return(SendAnswersOk)
                /\ pty' = [pty EXCEPT ![call.pty] = Close(@, {"thread"})]
                /\ UNCHANGED faults

Send == /\ SendPolls \/ SendCaptures \/ SendRechecks \/ SendStops \/ SendCancels
           \/ SendAwaits \/ SendFinishes
        /\ UNCHANGED <<listed, said, sends>>
---------------------------------------------------------------------------
(* pty read: what a send retained comes before what the pipe holds *)

ReadBegins(p) == /\ Begin("read", p, "read")
                 /\ UNCHANGED <<pty, listed, said, sends, faults>>

FromQueue(p) == /\ pty[p].queue # <<>>
                /\ pty' = [pty EXCEPT ![p].given = @ \o Head(pty[p].queue),
                                      ![p].queue = Tail(@)]
\* Fault: the pipe is read whatever a send has retained.
FromPipeAnyway(p) == LET n == Least({Len(pty[p].screen), Chunk}) IN
    /\ pty[p].screen # <<>>
    /\ pty' = [pty EXCEPT ![p].given = @ \o SubSeq(pty[p].screen, 1, n),
                          ![p].screen = SubSeq(@, n + 1, Len(@))]
FromPipe(p) == LET n == Least({Len(pty[p].screen), Chunk}) IN
               /\ pty[p].queue = <<>> /\ pty[p].screen # <<>>
               /\ pty' = [pty EXCEPT ![p].given = @ \o SubSeq(pty[p].screen, 1, n),
                                     ![p].screen = SubSeq(@, n + 1, Len(@))]
\* Nothing retained and nothing in the pipe when the deadline passes, or the output has ended.
Nothing(p) == pty[p].queue = <<>> /\ pty[p].screen = <<>> /\ UNCHANGED pty
Read == /\ call.pc = "read"
        /\ FromQueue(call.pty) \/ FromPipe(call.pty) \/ Nothing(call.pty)
        /\ Return(TRUE)
        /\ UNCHANGED <<listed, said, sends, faults>>

\* pty info looks without taking: what a send retained and what waits in the pipe.
Pending(p) == Len(Flat(pty[p].queue)) + Len(pty[p].screen)
---------------------------------------------------------------------------
(* pty close and the exit handler: pty_free *)

CloseBegins(p) == /\ Begin("close", p, "free")
                  /\ UNCHANGED <<pty, listed, said, sends, faults>>

\* Fault: the drain waits for the console to be closed.
NotYet == "none"
\* The drain runs before ClosePseudoConsole is called.
DrainStarted == "reading"
\* The drain starts before anything is closed; without it nothing is touched.
FreeDrains == LET p == call.pty IN
    /\ call.pc = "free"
    /\ \/ /\ Fails(TRUE) /\ Return(FALSE) /\ UNCHANGED <<pty, listed>>
       \/ /\ Fails(FALSE) /\ Goto("terminate") /\ UNCHANGED writer
          /\ pty' = [pty EXCEPT ![p].drain = DrainStarted, ![p].given = <<>>,
                                ![p].held = @ \cup {"drain"}]
          /\ listed' = listed \ {p}

\* Fault: a termination that failed is only remembered.
TreeAfterFailure(failed) == IF failed THEN "alive" ELSE "dead"
\* The job is terminated, or its last handle closed, which kills the tree as well.
TreeAfter(failed) == "dead"
FreeTerminates == LET p == call.pty IN \E failed \in BOOLEAN :
    /\ call.pc = "terminate" /\ Fails(failed)
    /\ pty' = [pty EXCEPT ![p] = [Close(@, IF failed THEN {"jobH"} ELSE {})
                                  EXCEPT !.tree = TreeAfter(failed)]]
    /\ call' = [call EXCEPT !.pc = "console", !.bad = failed]
    /\ UNCHANGED listed

\* ClosePseudoConsole returns when the host is gone, after its last output.
FreeClosesConsole == LET p == call.pty
                         t == Close(pty[p], {"inW"}) IN
    /\ call.pc = "console" /\ Goto("console wait")
    /\ pty' = [pty EXCEPT ![p] = IF t.host = "up" THEN [t EXCEPT !.host = "closing", !.pend = @ + 1]
                                 ELSE t]
    /\ UNCHANGED <<listed, faults>>
FreeConsoleGone == LET p == call.pty IN
    /\ call.pc = "console wait" /\ pty[p].host = "down"
    /\ pty' = [pty EXCEPT ![p] = Close(@, {"hpc"})]
    /\ Goto("drain wait") /\ UNCHANGED <<listed, faults>>

\* Five seconds for the drain, a cancellation, five more; a wait may fail instead. A drain
\* that was not seen to end is left with the screen, and with all that is not closed yet.
FreeWaits == LET p == call.pty IN \E failed \in BOOLEAN :
    /\ call.pc = "drain wait" /\ Fails(failed)
    /\ IF ~failed /\ pty[p].drain = "over" THEN Goto("release") /\ UNCHANGED pty
       ELSE /\ Goto("last wait")
            /\ pty' = [pty EXCEPT ![p].drain = IF @ = "reading" THEN "over" ELSE @]
    /\ UNCHANGED listed
FreeWaitsAgain == LET p == call.pty IN \E failed \in BOOLEAN :
    /\ call.pc = "last wait" /\ Fails(failed)
    /\ IF ~failed /\ pty[p].drain = "over" THEN Goto("release") /\ UNCHANGED <<pty, writer>>
       ELSE /\ Return(FALSE)
            /\ pty' = [pty EXCEPT ![p] = [Close(@, {"drain"}) EXCEPT !.drain = "left"]]
    /\ UNCHANGED listed

\* wj_job_free: the memory, and the handle unless a failed termination had it closed.
JobFreed(closed) == {"job"} \cup IF closed THEN {} ELSE {"jobH"}
Released(t, jobClosed) ==
    LET closed == Close(t, {"drain", "outR", "proc", "pty"} \cup JobFreed(jobClosed))
    IN  [closed EXCEPT !.queue = <<>>, !.screen = <<>>, !.keys = 0, !.made = 0]
FreeReleases == LET p == call.pty IN
    /\ call.pc = "release" /\ Return(~call.bad)
    /\ pty' = [pty EXCEPT ![p] = Released(@, call.bad)]
    /\ UNCHANGED <<listed, faults>>

Free == /\ \/ FreeDrains \/ FreeWaitsAgain \/ FreeReleases
           \/ (FreeTerminates \/ FreeClosesConsole \/ FreeConsoleGone \/ FreeWaits) /\ UNCHANGED writer
        /\ UNCHANGED <<said, sends>>

\* pty_drain_thread: ReadFile until the end of the pipe, or until it is cancelled.
DrainReads(p) == /\ pty[p].drain = "reading"
                 /\ IF pty[p].screen # <<>>
                    THEN pty' = [pty EXCEPT ![p].screen = Tail(@), ![p].drain = "gap"]
                    ELSE pty[p].host = "down" /\ pty' = [pty EXCEPT ![p].drain = "over"]
DrainAgain(p) == /\ pty[p].drain = "gap" /\ pty' = [pty EXCEPT ![p].drain = "reading"]
Drain(p) == /\ DrainReads(p) \/ DrainAgain(p)
            /\ UNCHANGED <<listed, writer, call, said, sends, faults>>

\* proc_cleanup: close the list from its head until one fails, then free the root job.
ExitBegins == /\ call.pc = "idle" /\ call' = Calling("exit", 0, "exit")
              /\ UNCHANGED pty
ExitNext == /\ call.pc = "exit"
            /\ \/ listed = {} /\ Goto("root")
               \/ \E p \in listed : /\ \A q \in listed : q <= p
                                  /\ call' = Calling("exit", p, "free")
            /\ UNCHANGED pty
\* Every launch put its tree in the root job: closing it kills them.
ExitRoot == /\ call.pc = "root" /\ Goto("over")
            /\ pty' = [p \in Ptys |-> IF pty[p].tree = "alive"
                                      THEN [pty[p] EXCEPT !.tree = "dead"] ELSE pty[p]]
Exit == /\ ExitBegins \/ ExitNext \/ ExitRoot
        /\ UNCHANGED <<listed, writer, said, sends, faults>>
---------------------------------------------------------------------------
\* A call in progress takes its next step; a script that is idle need not begin one.
Tcl == Send \/ Read \/ Free \/ (Exit /\ call.pc # "idle")

Next == \/ \E p \in Ptys : \/ Spawn(p) \/ SendBegins(p) \/ SendCannot(p) \/ ReadBegins(p)
                           \/ CloseBegins(p) \/ HostServes(p) \/ HostActs(p) \/ Drain(p)
        \/ Writer \/ Send \/ Read \/ Free \/ Exit

(* The Tcl thread and the two helper threads are scheduled; a host that is *)
(* up reads its keyboard and writes its screen when there is room, whatever*)
(* the child does, and ends when it is told to and its output is out.      *)
Fairness == /\ WF_vars(Tcl) /\ WF_vars(Writer)
            /\ \A p \in Ptys : /\ WF_vars(Drain(p))
                               /\ WF_vars(HostServes(p))
Spec == Init /\ [][Next]_vars /\ Fairness
---------------------------------------------------------------------------
(* Properties *)

\* What a terminal's screen said reaches the script whole and in order while the
\* terminal is listed, retained or not, what is not yet given is what pty info counts,
\* and no more is retained than the limit allows (pty_output_capture, pty read, pty
\* info).
OutputIsKept == \A p \in listed :
    LET kept == Flat(pty[p].queue) IN
    /\ pty[p].given \o kept \o pty[p].screen = [i \in 1..pty[p].made |-> i]
    /\ pty[p].made - Len(pty[p].given) = Pending(p)
    /\ Len(kept) <= QueueLimit

\* The writer thread never outlives the call whose stack and string it reads, and a
\* send that answers ok has put every byte into the pipe (PtyCmd, SEND).
SendIsOver ==
    /\ writer.pc \in {"check", "gap", "write", "close"} => call.op = "send" /\ call.pc # "finish"
    /\ call.pc = "finish" /\ SendAnswersOk => writer.off = SendLen

\* Whatever call fails, nothing is closed twice and nothing is forgotten: between the calls
\* on it a listed terminal holds what its record names and no more, and one that is closed,
\* or was never made, holds nothing and has no living tree. Only a drain that was not seen
\* to end keeps the screen handle it may read, with the record, the process and the job
\* (proc.c:1732). Nothing lives after the exit (pty_spawn, pty_free, PtyCmd, proc_cleanup).
TeardownIsClean ==
    /\ \A p \in Ptys : /\ pty[p].bad = {}
                       /\ pty[p].drain \in {"reading", "gap", "left"} => "outR" \in pty[p].held
    /\ \A p \in listed : call.pty # p => pty[p].held = Handles
    /\ \A p \in Ptys \ listed : call.pty # p =>
         /\ pty[p].tree # "alive"
         /\ \/ pty[p].held = {}
            \/ pty[p].drain = "left" /\ pty[p].held \ {"jobH"} = {"outR", "proc", "job", "pty"}
    /\ call.pc = "over" => \A p \in Ptys : pty[p].tree # "alive"

\* Every call returns: a send to a host that talks while it is written to, and a close
\* of one that has more to say (PtyCmd, pty_free).
CallsReturn == (call.pc \notin {"idle", "over"}) ~> (call.pc \in {"idle", "over"})
===========================================================================
