------------------------------- MODULE Launch -------------------------------
(* Starting a process (winjob_launch.c, winjob_job.c and their callers in       *)
(* proc.c): child and run, captured or on machteld's own stdio, detach and pty. *)
(* Every system call may fail, and machteld may end between any two steps.      *)
EXTENDS Cmdline

CONSTANT Requests   \* what scripts ask to be started

(* argv[1] is the program or script as it was resolved, io the three handles   *)
(* the caller passes on, caps says that limits are set, rel that the program    *)
(* is relative while a directory is given, input what a captured process is to  *)
(* read, stream that its output goes to callbacks.                              *)
Kinds == {"capture", "inherit", "detach", "pty"}
Inputs == {"nul", "empty", "bytes", "channels"}
ASSUME RequestAssumption ==
  \A r \in Requests : /\ r.kind \in Kinds /\ DOMAIN r.io = 1 .. 3 /\ r.input \in Inputs
                      /\ r.argv \in Seq(Seq(Chars)) \ {<<>>} /\ r.batch \in BOOLEAN

VARIABLES
  req,      \* the request
  outer,    \* the jobs machteld is in: "none", or how many allow a breakaway
  pc,       \* the next step of the launch
  job,      \* the job of this process: "none", "open", "closed"
  kill,     \* closing that job kills what is in it
  line,     \* the command line
  slot,     \* the stream whose handle is duplicated next
  list,     \* the duplicates the process may inherit
  own,      \* the variables of the caller and fields of its record that are set,
            \* and the channels of Tcl
  held,     \* the handles machteld holds for this launch
  bad,      \* a handle was closed that was not held
  missed,   \* a wait has failed for what had not ended
  state,    \* the process: "none", "suspended", "running", "dead"
  jobs,     \* the jobs it is in
  given,    \* the handles it inherited
  us,       \* machteld runs
  rc        \* the result: "none", "ok", "error"
process == <<state, jobs, given>>
locals == <<slot, list>>
handles == <<own, held, bad, missed>>
vars == <<req, outer, pc, job, kill, line, locals, handles, process, us, rc>>

Supervised == req.kind # "detach"
Alive == state \in {"suspended", "running"}

\* A handle is a name and the stream it was duplicated for, 0 for an original.
\* Several variables may name one handle in turn, two at a time never should.
Handle(v) == CASE v \in {"c.inW", "wi.write", "chIn"} -> "stdinW" [] v = "chOut" -> "outR"
               [] v = "chErr" -> "errR" [] OTHER -> v
Handles(V) == {<<Handle(v), 0>> : v \in V}
Channels == {"chIn", "chOut", "chErr"}

\* CloseHandle for each of a family of handles, and for those the variables name.
Close(family) ==
  /\ held' = held \ Range(family)
  /\ bad' = (bad \/ ~IsInjective(family) \/ ~(Range(family) \subseteq held))
CloseOf(V) == Close([v \in V |-> <<Handle(v), 0>>])
\* The variables of a list that are set, closed and set to NULL.
CloseSet(V) == CloseOf(own \cap V) /\ own' = own \ V
Open(V) == own' = own \cup V /\ held' = held \cup Handles(V) /\ bad' = bad

Init ==
  /\ req \in Requests /\ outer \in {"none", "all", "some", "fixed"}
  /\ pc = "stdio" /\ job = "none" /\ kill = FALSE /\ line = <<>> /\ slot = 1 /\ list = <<>>
  /\ own = {} /\ held = {} /\ bad = FALSE /\ missed = FALSE /\ state = "none" /\ jobs = {} /\ given = {}
  /\ us = TRUE /\ rc = "none"

\* A step of the launch, while machteld runs.
Step(from, to) == us /\ pc = from /\ pc' = to /\ UNCHANGED <<req, outer, us>>
------------------------------------------------------------------------------
(* The callers: the handles of the process and its job.                     *)

\* What each call of the caller opens, in order.
Opens ==
  CASE req.kind = "capture" -> <<{"outR", "outW"}, {"errR", "errW"},
                                 IF req.input = "nul" THEN {"nul"} ELSE {"stdinR", "stdinW"}>>
    [] req.kind = "pty" -> <<{"inR", "inW"}, {"outR", "outW"}, {"hpc"}>>
    [] OTHER -> IF "nul" \in ToSet(req.io) THEN <<{"nul"}>> ELSE <<>>
Opened(n) == UNION {Opens[i] : i \in 1 .. n}
Stdio ==
  /\ \/ /\ Step("stdio", IF Supervised THEN "job" ELSE "checks")
        /\ Open(Opened(Len(Opens)) \ (IF req.kind = "pty" THEN {"inR", "outW"} ELSE {}))
     \/ /\ Step("stdio", "unwind")
        /\ \E n \in 1 .. Len(Opens) : Open(Opened(n - 1))
  /\ UNCHANGED <<job, kill, line, locals, missed, process, rc>>

\* wj_job_new, which leaves nothing behind where it fails.
JobNew ==
  /\ \/ Step("job", IF req.caps THEN "limits" ELSE "checks") /\ job' = "open" /\ kill' = TRUE
     \/ Step("job", "unwind") /\ UNCHANGED <<job, kill>>
  /\ UNCHANGED <<line, locals, handles, process, rc>>

\* wj_job_set_limits: its one write replaces every flag of the job.
\* Fault: the limits are written without the flag of the job.
KillFlagForgotten == FALSE
KillFlag == TRUE
SetLimits ==
  /\ \/ Step("limits", "checks") /\ kill' = KillFlag
     \/ Step("limits", "unwind") /\ UNCHANGED kill
  /\ UNCHANGED <<job, line, locals, handles, process, rc>>
------------------------------------------------------------------------------
(* wj_launch and wj_launch_pty: on failure every step goes to "cleanup".     *)

\* argv_with_arg0 and the record of a pty may lack the memory before the launcher
\* has a look at what it is given.
Checks ==
  /\ Step("checks", IF req.rel THEN "cleanup" ELSE "line") \/ Step("checks", "unwind")
  /\ UNCHANGED <<job, kill, line, locals, handles, process, rc>>

\* The line is for the program itself, or for the cmd.exe that runs a script.
Script == req.argv[1]
Args == Tail(req.argv)
MakeLine ==
  /\ \/ /\ Step("line", IF req.kind = "pty" THEN "attributes" ELSE "dup")
        /\ req.batch => ~BatchRefused(Script, Args)
        /\ line' = IF req.batch THEN MakeBatchCmdline(Script, Args) ELSE MakeCmdline(req.argv)
     \/ Step("line", "cleanup") /\ UNCHANGED line
  /\ UNCHANGED <<job, kill, locals, handles, process, rc>>

\* A handle that serves several streams is duplicated, and listed, once.
SharedWith(i) == \E k \in 1 .. i - 1 : req.io[k] = req.io[i]
Listed(i) == IF SharedWith(i) THEN list ELSE Append(list, <<req.io[i], i>>)
Dup ==
  /\ \/ /\ Step("dup", IF slot = 3 THEN "attributes" ELSE "dup")
        /\ slot' = slot + 1 /\ list' = Listed(slot) /\ held' = held \cup ToSet(list')
     \/ Step("dup", "cleanup") /\ ~SharedWith(slot) /\ UNCHANGED <<locals, held>>
  /\ UNCHANGED <<job, kill, line, own, bad, missed, process, rc>>

Attributes ==
  /\ Step("attributes", "create") \/ Step("attributes", "cleanup")
  /\ UNCHANGED <<job, kill, line, locals, handles, process, rc>>

\* CreateProcessW: a supervised process is born into the root job and its own; a
\* detached one leaves the jobs around machteld as far as they allow it.
BornInto ==
  IF Supervised THEN {"root", "own"} \cup (IF outer = "none" THEN {} ELSE {"outer"})
  ELSE IF outer = "some" THEN {"outer"} ELSE {}
Create ==
  /\ \/ /\ Step("create", IF Supervised THEN "close" ELSE "verify")
        /\ Supervised \/ outer # "fixed"
        /\ state' = IF Supervised THEN "running" ELSE "suspended"
        /\ jobs' = BornInto /\ given' = {list[i][1] : i \in DOMAIN list}
        /\ Open({"thread", "proc"})
     \/ Step("create", "cleanup") /\ UNCHANGED <<process, own, held, bad>>
  /\ UNCHANGED <<job, kill, line, locals, missed, rc>>

\* A detached process runs only once it is seen to be in no job. One that does not
\* is terminated, which may fail, and waited for, however long it lives.
Doomed == \/ state' = "dead" \/ UNCHANGED state
\* Fault: whatever job it is in will do.
BrokeAwayFromSome == TRUE
BrokeAway == jobs = {}
Verify ==
  /\ \/ Step("verify", "resume") /\ BrokeAway /\ UNCHANGED state
     \/ Step("verify", "giveup") /\ Doomed
  /\ UNCHANGED <<job, kill, line, locals, handles, jobs, given, rc>>
Resume ==
  /\ \/ Step("resume", "close") /\ state' = IF Alive THEN "running" ELSE state
     \/ Step("resume", "giveup") /\ Doomed
  /\ UNCHANGED <<job, kill, line, locals, handles, jobs, given, rc>>
GiveUp ==
  /\ Step("giveup", "cleanup") /\ CloseSet({"thread", "proc"})
  /\ missed' = (missed \/ Alive)
  /\ UNCHANGED <<job, kill, line, locals, process, rc>>

Launched ==
  /\ Step("close", "cleanup") /\ CloseSet({"thread"}) /\ rc' = "ok"
  /\ UNCHANGED <<job, kill, line, locals, missed, process>>
Cleanup ==
  /\ Step("cleanup", IF rc = "ok" THEN "after" ELSE "unwind")
  /\ Close(list) /\ list' = <<>>
  /\ UNCHANGED <<job, kill, line, slot, own, missed, process, rc>>
------------------------------------------------------------------------------
(* The callers again: what is needed no more once the process runs, and the     *)
(* threads and the event that serve it, each of which may not be had.           *)

ChildSide == CASE req.kind = "pty" -> {} [] req.kind = "detach" -> {"proc", "nul"}
               [] OTHER -> {"outW", "errW", "nul", "stdinR"}
After ==
  /\ Step("after", CASE req.kind = "capture" -> "readers" [] req.kind = "inherit" -> "event"
                     [] OTHER -> "done")
  /\ CloseSet(ChildSide)
  /\ UNCHANGED <<job, kill, line, locals, missed, process, rc>>

\* One call after the other makes some, all of them or not.
Makes(from, to, all, some) ==
  /\ \/ Step(from, to) /\ Open(all)
     \/ Step(from, "unwind") /\ \E V \in some : Open(V)
  /\ UNCHANGED <<job, kill, line, locals, missed, process, rc>>
Readers ==
  LET threads == IF req.stream \/ req.input = "channels" THEN {} ELSE {"tOut", "tErr"} IN
  req.kind = "capture" /\ Makes("readers", "input", threads, {{}, threads \cap {"tOut"}})
Event ==
  Makes("event", IF req.kind = "capture" /\ req.input = "channels" THEN "handover" ELSE "done",
        {"doneEv", "monitor"}, {{}, {"doneEv"}})

\* A handle goes from one variable to another.
Moves(from, to) == own' = (own \ from) \cup to /\ UNCHANGED <<held, bad>>
Input ==
  /\ \/ Step("input", "event") /\ req.input = "nul" /\ UNCHANGED <<own, held, bad>>
     \/ Step("input", "event") /\ req.input = "empty" /\ CloseSet({"stdinW"})
     \/ Step("input", "event") /\ req.input = "channels" /\ Moves({"stdinW"}, {"c.inW"})
     \/ Step("input", "writer") /\ req.input = "bytes" /\ Moves({"stdinW"}, {"wi.write"})
     \/ Step("input", "unwind") /\ req.input = "bytes" /\ UNCHANGED <<own, held, bad>>
  /\ UNCHANGED <<job, kill, line, locals, missed, process, rc>>
Writer == Makes("writer", "event", {"tIn"}, {{}})
\* The writer closes what it writes to at its end.
Writing == "wi.write" \in own /\ ("tIn" \in own \/ missed)
WriterEnds ==
  /\ us /\ Writing /\ CloseSet({"wi.write"})
  /\ UNCHANGED <<req, outer, pc, job, kill, line, locals, missed, process, us, rc>>

\* child_channels: one handle after the other is Tcl's; where one more or an option
\* is refused, the channels there are take theirs with them.
HandOvers == {{}, {"c.inW"}, {"c.inW", "outR"}, {"c.inW", "outR", "errR"}}
\* Fault: the record goes on naming what Tcl has.
NullsNone(V) == {}
Nulls(V) == V
Handover ==
  /\ \/ /\ Step("handover", "done") /\ Moves(Nulls({"c.inW", "outR", "errR"}), Channels)
        /\ UNCHANGED rc
     \/ /\ Step("handover", "free") /\ rc' = "error"
        /\ \E V \in HandOvers : CloseOf(V) /\ own' = own \ Nulls(V)
  /\ UNCHANGED <<job, kill, line, locals, missed, process>>
ScriptCloses ==
  /\ us /\ pc \in {"done", "reaped"} /\ \E c \in own \cap Channels : CloseSet({c})
  /\ UNCHANGED <<req, outer, pc, job, kill, line, locals, missed, process, us, rc>>
------------------------------------------------------------------------------
(* The clean-ups: each closes the variables it lists, where they are set.       *)

\* wj_job_terminate, which may fail, and wj_job_close.
EndJob(terminated, closed) ==
  /\ job' = (IF closed /\ job = "open" THEN "closed" ELSE job)
  /\ state' = IF Alive /\ "own" \in jobs /\ (terminated \/ (closed /\ kill)) THEN "dead" ELSE state
  /\ UNCHANGED <<jobs, given>>

\* child_launch leaves to the writer what it writes to.
\* Fault: also where there is no writer.
ChildFailsAsIfWriting ==
  {"outW", "errW", "nul", "stdinR", "stdinW", "c.inW", "tIn", "tOut", "tErr", "monitor", "proc",
   "doneEv", "outR", "errR"}
ChildFails ==
  {"outW", "errW", "nul", "stdinR", "stdinW", "c.inW", "tIn", "tOut", "tErr", "monitor", "proc",
   "doneEv", "outR", "errR"} \cup (IF "tIn" \in own THEN {} ELSE {"wi.write"})
UnwindCloses ==
  CASE req.kind = "pty" -> {"inR", "outW", "proc", "inW", "outR", "hpc"}
    [] req.kind = "detach" -> {"proc", "nul"} [] OTHER -> ChildFails
\* What the waits for the threads return is not looked at.
Unwind ==
  /\ Step("unwind", "done") /\ rc' = "error" /\ CloseSet(UnwindCloses)
  /\ missed' = (missed \/ Writing)
  /\ \E terminated \in BOOLEAN : EndJob(terminated, TRUE)
  /\ UNCHANGED <<kill, line, locals>>

\* child_reap, once the monitor has seen the process and the writer end: child wait
\* and run at its end, or child_free.
Reap(from, to) ==
  /\ Step(from, to) /\ ~Alive /\ "wi.write" \notin own
  /\ CloseSet({"monitor", "tIn", "tOut", "tErr", "proc", "outR", "errR", "doneEv"})
  /\ UNCHANGED <<job, kill, line, locals, missed, process, rc>>
OfChild == req.kind \in {"capture", "inherit"} /\ rc = "ok"
Wait == OfChild /\ Reap("done", "reaped")
\* child close gives the channels back first; run has none.
CloseChannels ==
  /\ OfChild /\ (Step("done", "free") \/ Step("reaped", "freed")) /\ CloseSet(Channels)
  /\ UNCHANGED <<job, kill, line, locals, missed, process, rc>>
\* child_free. Where the wait for the monitor fails everything is left as it is.
FreeKills ==
  /\ Step("free", "ending") /\ \E terminated \in BOOLEAN : EndJob(terminated, ~terminated)
  /\ UNCHANGED <<kill, line, locals, handles, rc>>
FreeReaps ==
  \/ Reap("ending", "freed")
  \/ Step("ending", "left") /\ UNCHANGED <<job, kill, line, locals, handles, process, rc>>
Freed ==
  /\ Step("freed", "over") /\ CloseSet({"c.inW", "doneEv"}) /\ EndJob(FALSE, TRUE)
  /\ UNCHANGED <<kill, line, locals, missed, rc>>
\* pty_free, whose threads Pty follows.
PtyFree ==
  /\ req.kind = "pty" /\ rc = "ok" /\ Step("done", "over")
  /\ CloseSet({"inW", "hpc", "outR", "proc"}) /\ \E terminated \in BOOLEAN : EndJob(terminated, TRUE)
  /\ UNCHANGED <<kill, line, locals, missed, rc>>
------------------------------------------------------------------------------
(* The surroundings.                                                         *)

\* A suspended process ends only by another's hand.
ProcessEnds ==
  /\ Alive /\ state' = "dead"
  /\ UNCHANGED <<req, outer, pc, job, kill, line, locals, handles, jobs, given, us, rc>>
\* The kernel closes every handle of machteld, those of its jobs too; the root job
\* was made to kill, as every job of wj_job_new is.
MachteldEnds ==
  /\ us /\ us' = FALSE /\ own' = {} /\ held' = {} /\ job' = (IF job = "open" THEN "closed" ELSE job)
  /\ state' = IF Alive /\ ("root" \in jobs \/ ("own" \in jobs /\ kill)) THEN "dead" ELSE state
  /\ UNCHANGED <<req, outer, pc, kill, line, locals, bad, missed, jobs, given, rc>>

\* What child_launch, pty_spawn and DetachCmd do themselves, and who closes later.
Serve == Readers \/ Input \/ Writer \/ Event \/ Handover
Release == Wait \/ CloseChannels \/ FreeKills \/ FreeReaps \/ Freed \/ PtyFree
Caller == Stdio \/ JobNew \/ SetLimits \/ After \/ Serve \/ Unwind \/ Release
\* wj_launch_pty takes the steps both launchers have; wj_launch takes these too.
BothLaunchers == Checks \/ MakeLine \/ Attributes \/ Create \/ Launched \/ Cleanup
StdioLauncher == Dup \/ Verify \/ Resume \/ GiveUp

Surroundings == WriterEnds \/ ScriptCloses \/ ProcessEnds \/ MachteldEnds
Next == Caller \/ BothLaunchers \/ StdioLauncher \/ Surroundings
Spec == Init /\ [][Next]_vars
------------------------------------------------------------------------------
(* Properties.                                                               *)

\* A program reads the arguments the script gave, each of them unchanged
\* (wj_escape_arg, wj_make_cmdline, read by the C runtime).
ArgumentsArrive == state = "running" /\ ~req.batch => ParseArgs(line) = req.argv

\* A batch file is run with a line in which cmd finds nothing to act on or to
\* replace, and reads from it the arguments the script gave (append_batch_arg).
BatchIsInert ==
  state = "running" /\ req.batch =>
    ~ActsOn(line) /\ ~ActsOn(Expand(line)) /\ ParseArgs(Expand(line)) = req.argv

\* A launch that fails, and a child or pty that is closed, leaves no process, no job
\* and no handle; a launch that succeeds leaves exactly the handles its owner goes on
\* naming; no handle is closed twice, whoever it was handed to (the cleanups of
\* wj_launch, child_launch, pty_spawn and DetachCmd, child_channels, child_reap and
\* child_free). Where a wait has failed, a detached process that could not be
\* terminated may live on and the writer of a failed launch keep its pipe.
Kept ==
  CASE req.kind = "pty" -> {"inW", "outR", "hpc", "proc"} [] req.kind = "detach" -> {}
    [] req.kind = "inherit" -> {"proc", "doneEv", "monitor"}
    [] OTHER -> {"proc", "doneEv", "monitor"} \cup
         (IF req.input = "channels" THEN Channels
          ELSE {"outR", "errR"} \cup (IF req.stream THEN {} ELSE {"tOut", "tErr"})
                 \cup (IF req.input = "bytes" THEN {"tIn", "wi.write"} ELSE {}))
NothingLeftBehind ==
  /\ ~bad
  /\ us /\ pc = "done" /\ rc = "ok" =>
       /\ held = Handles(own) /\ state \notin {"none", "suspended"}
       /\ own \subseteq Kept /\ Kept \ own \subseteq {"wi.write"} \cup Channels
  /\ us /\ ((pc = "done" /\ rc = "error") \/ pc = "over") =>
       /\ job # "open" /\ (Alive => missed /\ ~Supervised)
       /\ held \subseteq (IF missed THEN Handles({"wi.write"}) ELSE {})

\* A supervised process lives only inside the root job and its own, both of them
\* open and killing, and so never longer than machteld; a detached one runs only
\* outside of every job; neither inherits a handle it was not meant to have.
NeverLoose ==
  /\ Alive /\ Supervised =>
       us /\ {"root", "own"} \subseteq jobs /\ job = "open" /\ kill
  /\ state = "running" /\ ~Supervised => jobs = {}
  /\ Alive => given = (IF req.kind = "pty" THEN {} ELSE ToSet(req.io))
==============================================================================
