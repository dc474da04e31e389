----------------------------- MODULE ChildProofs -----------------------------
(***************************************************************************)
(* What Child promises about completion, release and results, for any tree,   *)
(* pipes, capture limit and number of failing calls. None of it is inductive: *)
(* what the completion event says was counted a step before it is set, and a  *)
(* release or a result relies on an event that was awaited commands ago.      *)
(***************************************************************************)
EXTENDS Child, TLAPS

Places == {"none", "running", "ended"}

\* The sets the argument needs the variables to stay in.
Types == /\ kids \in Nat /\ direct \in {"none", "running", "exited"}
         /\ tIn \in Places /\ tRead \in [Streams -> Places]
         /\ mon \in {"none", "proc", "job", "check", "ended"}
         /\ life \in {"none", "live", "freed", "failed", "leaked"}

\* Nothing runs before the launch, and only a captured output is read by threads.
Started == /\ life = "none" => mon = "none" /\ ~reaped
           /\ cmd # "idle" => life = "live"
           /\ direct = "none" => kids = 0
           /\ mode # "capture" => \A s \in Streams : tRead[s] # "running"
\* The monitor: one for every child whose launch did not fail, and what it knows.
Monitored == /\ done <=> mon = "ended"
             /\ life \in {"live", "freed", "leaked"} /\ cmd # "unwind" => mon # "none"
             /\ cmd = "unwind" => life = "live" /\ mon = "none"
             /\ life = "failed" => mon = "none"
             /\ queryFailed => monitorFailed
             /\ mon = "check" /\ empty => Active = 0 \/ queryFailed
             /\ reaped => done
\* A child that is being given up has been killed.
GivenUp == cmd \in {"close", "abort"} => doomed

IInv == Types /\ Started /\ Monitored /\ GivenUp /\ DoneMeansOver /\ ReleaseIsClean
------------------------------------------------------------------------------
\* Before the launch there is nothing.
LEMMA InitIInv == Init => IInv
BY DEF Init, IInv, Types, Started, Monitored, GivenUp, DoneMeansOver, ReleaseIsClean, Active, Places

\* The processes of the job.
LEMMA ActiveIs == ASSUME Types PROVE Active = 0 <=> kids = 0 /\ direct # "running"
BY DEF Types, Active

\* The threads and the script's variables as they were, while the tree does not come back.
LEMMA TreeKeeps ==
  ASSUME IInv, TreeStays, kids' \in Nat, direct' \in {"running", "exited"},
         Active = 0 => Active' = 0
  PROVE  IInv'
<1>1. Types'
  BY DEF IInv, Types, TreeStays, inVars, readVars, monVars, scriptVars
<1>2. Started'
  BY DEF IInv, Started, TreeStays, inVars, readVars, monVars, scriptVars
<1>3. Monitored'
  BY DEF IInv, Monitored, TreeStays, inVars, readVars, monVars, scriptVars
<1>4. GivenUp'
  BY DEF IInv, GivenUp, TreeStays, scriptVars
<1>5. DoneMeansOver'
  BY DEF IInv, DoneMeansOver, TreeStays, inVars, readVars, monVars, scriptVars
<1>6. ReleaseIsClean'
  BY DEF IInv, ReleaseIsClean, ThreadsEnded, TreeStays, endVars, inVars, readVars, monVars, scriptVars
<1> QED BY <1>1, <1>2, <1>3, <1>4, <1>5, <1>6 DEF IInv

\* The tree writes, reads, spawns and dies; it is over for good when nothing is left of it.
LEMMA TreeStep == ASSUME IInv, Tree PROVE IInv'
<1>0. kids \in Nat /\ direct \in {"none", "running", "exited"} /\ TreeStays
  BY DEF IInv, Types, Tree, Proc, ProcWrites, ProcReads, ProcFinishes, ProcEndsEarly, TreeSpawns,
    KidExits, TreeClosesOutput, DoomedDies
<1>1. direct \in {"running", "exited"}
  BY <1>0 DEF IInv, Started, Tree, Proc, ProcWrites, ProcReads, ProcFinishes, ProcEndsEarly,
    TreeSpawns, KidExits, TreeClosesOutput, DoomedDies, Active
<1>2. CASE UNCHANGED <<direct, kids>>
  BY <1>0, <1>1, <1>2, TreeKeeps DEF Active
<1>3. CASE direct' = "exited" /\ kids' = kids
  BY <1>0, <1>3, TreeKeeps DEF Active
<1>4. CASE direct' = direct /\ kids > 0 /\ kids' = kids - 1
  BY <1>0, <1>1, <1>4, TreeKeeps DEF Active
<1>5. CASE TreeSpawns
  BY <1>0, <1>1, <1>5, TreeKeeps DEF TreeSpawns, Active
<1> QED BY <1>2, <1>3, <1>4, <1>5 DEF Tree, Proc, ProcWrites, ProcReads, ProcFinishes,
  ProcEndsEarly, KidExits, TreeClosesOutput, DoomedDies, treeVars

\* A reader or the writer goes on, or ends.
LEMMA ThreadKeeps ==
  ASSUME IInv, ThreadStays, tIn' = tIn \/ tIn' = "ended", tRead' \in [Streams -> Places],
         \A s \in Streams : tRead'[s] = tRead[s] \/ tRead'[s] = "ended"
  PROVE  IInv'
<1>1. Types'
  BY DEF IInv, Types, ThreadStays, treeVars, monVars, scriptVars, Places
<1>2. Started'
  BY DEF IInv, Started, ThreadStays, treeVars, monVars, scriptVars
<1>3. Monitored'
  BY DEF IInv, Monitored, Active, ThreadStays, treeVars, monVars, scriptVars
<1>4. GivenUp'
  BY DEF IInv, GivenUp, ThreadStays, scriptVars, jobVars
<1>5. DoneMeansOver'
  BY DEF IInv, DoneMeansOver, Active, ThreadStays, treeVars, monVars
<1>6. ReleaseIsClean'
  BY DEF IInv, ReleaseIsClean, ThreadsEnded, Active, ThreadStays, endVars, treeVars, monVars, scriptVars, jobVars
<1> QED BY <1>1, <1>2, <1>3, <1>4, <1>5, <1>6 DEF IInv

\* Each step of a thread is one of those.
LEMMA ThreadStep == ASSUME IInv, Writer \/ \E s \in Streams : Reader(s) PROVE IInv'
<1>0. tRead \in [Streams -> Places]
  BY DEF IInv, Types
<1>1. CASE Writer
  BY <1>0, <1>1, ThreadKeeps DEF Writer, WriterWrites, WriterEnds, readVars
<1>2. ASSUME NEW s \in Streams, ReaderReads(s) PROVE IInv'
  BY <1>0, <1>2, ThreadKeeps DEF ReaderReads, inVars
<1>3. ASSUME NEW s \in Streams, ReaderEnds(s) PROVE IInv'
  <2>1. tRead' = [tRead EXCEPT ![s] = "ended"] /\ ThreadStays /\ tIn' = tIn
    BY <1>3 DEF ReaderEnds, inVars
  <2> QED BY <1>0, <2>1, ThreadKeeps DEF Places
<1> QED BY <1>1, <1>2, <1>3 DEF Reader

\* What a step of the monitor leaves alone.
LEMMA MonitorKeeps ==
  ASSUME IInv, MonitorStays, doomed => doomed', mon \in {"proc", "job", "check"},
         mon' \in {"proc", "job", "check", "ended"},
         done' <=> mon' = "ended", queryFailed' => monitorFailed',
         mon' = "check" /\ empty' => Active = 0 \/ queryFailed',
         DoneMeansOver'
  PROVE  IInv'
<1>1. Types'
  BY DEF IInv, Types, MonitorStays, treeVars, inVars, readVars, scriptVars
<1>2. Started'
  BY DEF IInv, Started, MonitorStays, treeVars, scriptVars, readVars
<1>3. Active' = Active
  BY DEF Active, MonitorStays, treeVars
<1>4. Monitored'
  BY <1>3 DEF IInv, Monitored, MonitorStays, scriptVars
<1>5. GivenUp'
  BY DEF IInv, GivenUp, MonitorStays, scriptVars
<1>6. ReleaseIsClean'
  <2>1. life \notin {"freed", "failed"}
    BY DEF IInv, Monitored, ReleaseIsClean, ThreadsEnded
  <2>2. life' = life
    BY DEF MonitorStays, scriptVars
  <2> QED BY <1>3, <2>1, <2>2 DEF IInv, ReleaseIsClean
<1> QED BY <1>1, <1>2, <1>4, <1>5, <1>6 DEF IInv

\* The monitor looks at the process, the job, the threads and the clock, in that order.
LEMMA MonitorStep == ASSUME IInv, Monitor PROVE IInv'
<1>0. ~done /\ (queryFailed => monitorFailed) /\ mon \in {"proc", "job", "check"}
  BY DEF IInv, Monitored, Monitor, MonitorProc, MonitorJob, MonitorDone, MonitorAgain
<1>1. CASE MonitorProc
  <2>1. ~done' /\ (queryFailed' => monitorFailed') /\ (doomed => doomed') /\ mon' = "job" /\ MonitorStays
    BY <1>0, <1>1 DEF MonitorProc, TerminateOrClose, jobVars
  <2> QED BY <1>0, <2>1, MonitorKeeps DEF DoneMeansOver
<1>2. CASE MonitorJob
  <2>1. ~done' /\ (queryFailed' => monitorFailed') /\ (doomed => doomed') /\ mon' = "check" /\ MonitorStays
    BY <1>0, <1>2 DEF MonitorJob, TerminateOrClose, jobVars
  <2>2. empty' => Active = 0 \/ queryFailed'
    <3>1. CASE queryFailed
      BY <1>2, <3>1 DEF MonitorJob
    <3>2. CASE empty' = (Active = 0)
      BY <3>2, Zenon
    <3>3. CASE queryFailed'
      BY <3>3
    <3> QED BY <1>2, <3>1, <3>2, <3>3, Zenon DEF MonitorJob
  <2> QED BY <1>0, <2>1, <2>2, MonitorKeeps DEF DoneMeansOver
<1>3. CASE MonitorDone
  <2>1. done' /\ mon' = "ended" /\ MonitorStays /\ UNCHANGED <<queryFailed, monitorFailed, doomed>>
    BY <1>3 DEF MonitorDone, jobVars
  <2>2. Active = 0 \/ monitorFailed
    BY <1>0, <1>3 DEF MonitorDone, IInv, Monitored
  <2>3. tIn # "running" /\ \A s \in Streams : tRead[s] # "running"
    BY <1>3 DEF MonitorDone, IoDone, IInv, Started
  <2>4. DoneMeansOver'
    BY <2>1, <2>2, <2>3 DEF DoneMeansOver, Active, MonitorStays, treeVars, inVars, readVars
  <2> QED BY <1>0, <2>1, <2>4, MonitorKeeps
<1>4. CASE MonitorAgain
  <2>1. ~done' /\ (queryFailed' => monitorFailed') /\ (doomed => doomed') /\ mon' = "proc" /\ MonitorStays
    BY <1>0, <1>4 DEF MonitorAgain, DeadlineKills, TerminateJob, jobVars
  <2> QED BY <1>0, <2>1, MonitorKeeps DEF DoneMeansOver
<1> QED BY <1>1, <1>2, <1>3, <1>4 DEF Monitor

\* A launch of any mode starts the threads of a child that had none.
LEMMA LaunchStep ==
  ASSUME IInv, ChildStart \/ RunCmd \/ ChildStartNoChannels \/ LaunchFails PROVE IInv'
<1>1. PICK m \in Modes, R \in SUBSET Streams, withInput \in BOOLEAN :
        Launch(m, R, withInput) /\ (m # "capture" => R = {})
  BY DEF ChildStart, RunCmd, ChildStartNoChannels, LaunchFails, Start, Readers
<1>2. /\ life = "none" /\ life' = "live" /\ direct' = "running" /\ kids' = kids /\ mode' = m
      /\ tRead' = [s \in Streams |-> IF s \in R THEN "running" ELSE "none"]
      /\ tIn' \in Places
      /\ UNCHANGED <<reaped, done, queryFailed, monitorFailed>>
  BY <1>1 DEF Launch, Places, ChildStart, RunCmd, ChildStartNoChannels, LaunchFails, Start
<1>3. mon = "none" /\ ~done /\ ~reaped /\ (queryFailed => monitorFailed) /\ kids \in Nat
  BY <1>2 DEF IInv, Started, Monitored, Types
<1>4. \/ mon' = "proc" /\ cmd' \in {"idle", "run", "pump"}
      \/ mon' = "proc" /\ cmd' = "close" /\ doomed'
      \/ mon' = "none" /\ cmd' = "unwind"
  BY <1>3 DEF ChildStart, RunCmd, ChildStartNoChannels, LaunchFails, Start
<1>5. Types'
  BY <1>2, <1>3, <1>4 DEF Types, Places
<1>6. Started'
  BY <1>1, <1>2 DEF Started
<1>7. Monitored'
  BY <1>2, <1>3, <1>4 DEF Monitored
<1>8. GivenUp' /\ DoneMeansOver' /\ ReleaseIsClean'
  BY <1>2, <1>3, <1>4 DEF GivenUp, DoneMeansOver, ReleaseIsClean
<1> QED BY <1>5, <1>6, <1>7, <1>8 DEF IInv

\* A command leaves the tree, the threads and the monitor alone.
LEMMA CommandKeeps ==
  ASSUME IInv, UNCHANGED <<mode, treeVars, tIn, tRead, monVars>>, doomed => doomed',
         life = "live", life' \in {"live", "freed", "leaked", "failed"}, reaped' => done,
         cmd' # "unwind", cmd' # "idle" => life' = "live", life' # "failed" => mon # "none",
         cmd' \in {"close", "abort"} => doomed',
         life' # "live" => doomed', life' = "freed" => ThreadsEnded,
         life' = "failed" => mon = "none" /\ (ThreadsEnded \/ unjoined')
  PROVE  IInv'
<1>0. Active' = Active /\ ThreadsEnded' = ThreadsEnded
  BY DEF Active, ThreadsEnded, treeVars, monVars
<1>1. Types' /\ DoneMeansOver'
  BY <1>0 DEF IInv, Types, DoneMeansOver, treeVars, monVars
<1>2. Started'
  BY DEF IInv, Started, treeVars, monVars
<1>3. Monitored'
  BY <1>0 DEF IInv, Monitored, monVars
<1>4. GivenUp' /\ ReleaseIsClean'
  BY <1>0 DEF GivenUp, ReleaseIsClean
<1> QED BY <1>1, <1>2, <1>3, <1>4 DEF IInv

\* What a command in progress may rely on.
LEMMA CommandFinds ==
  ASSUME IInv
  PROVE  /\ cmd # "idle" => life = "live"
         /\ done => ThreadsEnded /\ mon = "ended"
         /\ reaped => done
         /\ cmd # "unwind" /\ life = "live" => mon # "none"
<1>1. done => ThreadsEnded /\ mon = "ended"
  BY DEF IInv, DoneMeansOver, Monitored, ThreadsEnded
<1> QED BY <1>1 DEF IInv, Started, Monitored

\* The commands that only ask, wait or collect.
LEMMA ScriptStep ==
  ASSUME IInv, ChildWait \/ ChildKill \/ ChildClose \/ ScriptReads \/ ScriptClosesStdin
  PROVE  IInv'
<1>0. life = "live" /\ cmd = "idle"
  BY DEF ChildWait, ChildKill, ChildClose, ScriptReads, ScriptClosesStdin
<1>1. CASE ChildWait
  BY <1>0, <1>1, CommandKeeps, CommandFinds DEF ChildWait, CommandStays, inVars, readVars, jobVars
<1>2. CASE ChildKill
  BY <1>0, <1>2, CommandKeeps, CommandFinds DEF ChildKill, CommandStays, inVars, readVars, jobVars,
    TerminateJob, JobNotTerminated
<1>3. CASE ChildClose
  BY <1>0, <1>3, CommandKeeps, CommandFinds DEF ChildClose, CommandStays, inVars, readVars, Freed,
    JobFreed, FreeStarts, TerminateOrClose
<1>4. CASE ScriptReads \/ ScriptClosesStdin
  BY <1>0, <1>4, CommandKeeps, CommandFinds DEF ScriptReads, ScriptClosesStdin, CommandStays,
    inVars, readVars, scriptVars, jobVars
<1> QED BY <1>1, <1>2, <1>3, <1>4

\* The commands that go on across several steps.
LEMMA CommandStep == ASSUME IInv, Command PROVE IInv'
<1>0. life = "live"
  BY CommandFinds DEF Command, LaunchUnwound, ChildWaitReturns, ChildFree, RunReturns, GivesUp, PumpOnce, PumpStops,
         PumpAborts, PumpReturns, PumpAborted
<1>1. CASE LaunchUnwound
  BY <1>0, <1>1, CommandKeeps, CommandFinds DEF LaunchUnwound, inVars, readVars, JobFreed, IInv,
    Monitored
<1>2. CASE ChildWaitReturns
  BY <1>0, <1>2, CommandKeeps, CommandFinds DEF ChildWaitReturns, Reap, ReapFails, CommandStays,
    inVars, readVars, jobVars
<1>3. CASE ChildFree
  <2>1. cmd = "close" /\ CommandStays /\ cmd' = "idle"
    BY <1>3 DEF ChildFree, Freed
  <2>2. (life' = "freed" /\ done) \/ life' = "leaked"
    BY <1>3 DEF ChildFree, Freed
  <2>3. doomed /\ doomed'
    <3>1. doomed
      BY <2>1 DEF IInv, GivenUp
    <3>2. doomed' = doomed \/ doomed' = TRUE
      BY <1>3 DEF ChildFree, Freed, JobFreed, jobVars
    <3> QED BY <3>1, <3>2
  <2>4. reaped' => done
    BY <1>3, CommandFinds DEF ChildFree
  <2> QED BY <1>0, <2>1, <2>2, <2>3, <2>4, CommandKeeps, CommandFinds DEF CommandStays, inVars, readVars
<1>4. CASE RunReturns
  BY <1>0, <1>4, CommandKeeps, CommandFinds DEF RunReturns, GivesUp, TerminateOrClose, Reap, Freed, JobFreed, CommandStays,
    inVars, readVars
<1>5. CASE PumpOnce
  BY <1>0, <1>5, CommandKeeps, CommandFinds DEF PumpOnce, TakeChunk, Keep, scriptVars, jobVars, inVars
<1>9. CASE PumpStops
  BY <1>0, <1>9, CommandKeeps, CommandFinds DEF PumpStops, readVars, scriptVars, jobVars, inVars
<1>6. CASE PumpAborts
  BY <1>0, <1>6, CommandKeeps, CommandFinds DEF PumpAborts, inVars, readVars, TerminateOrClose
<1>7. CASE PumpReturns
  BY <1>0, <1>7, CommandKeeps, CommandFinds DEF PumpReturns, GivesUp, TerminateOrClose, Reap, Freed, JobFreed, CommandStays,
    inVars, readVars
<1>8. CASE PumpAborted
  <2>1. cmd = "abort" /\ CommandStays
    BY <1>8 DEF PumpAborted
  <2>3. doomed /\ doomed'
    <3>1. doomed
      BY <2>1 DEF IInv, GivenUp
    <3>2. doomed' = doomed \/ doomed' = TRUE
      BY <1>8 DEF PumpAborted, GivesUp, TerminateOrClose, Freed, JobFreed, jobVars
    <3> QED BY <3>1, <3>2
  <2>4. reaped' => done
    BY <1>8, CommandFinds DEF PumpAborted, GivesUp
  <2>2. \/ (life' = "freed" /\ done /\ cmd' = "idle")
        \/ life' = life /\ cmd' = "close"
    BY <1>8 DEF PumpAborted, GivesUp, TerminateOrClose, Freed
  <2> QED BY <1>0, <2>1, <2>2, <2>3, <2>4, CommandKeeps, CommandFinds DEF CommandStays, inVars, readVars
<1> QED BY <1>1, <1>2, <1>3, <1>4, <1>5, <1>6, <1>7, <1>8, <1>9 DEF Command

\* Every step preserves it.
LEMMA NextIInv == ASSUME IInv, [Next]_vars PROVE IInv'
<1>1. CASE ClockTicks
  BY <1>1 DEF ClockTicks, MonitorStays, scriptVars, endVars, treeVars, jobVars, inVars, readVars, IInv,
    Types, Started, Monitored, GivenUp, DoneMeansOver, ReleaseIsClean, ThreadsEnded, Active
<1>2. CASE UNCHANGED vars
  BY <1>2 DEF vars, scriptVars, endVars, treeVars, jobVars, inVars, readVars, monVars, IInv, Types, Started,
    Monitored, GivenUp, DoneMeansOver, ReleaseIsClean, ThreadsEnded, Active
<1> QED BY <1>1, <1>2, TreeStep, ThreadStep, MonitorStep, LaunchStep, ScriptStep,
  CommandStep DEF Next, Script

\* The completion event child_monitor_thread sets stands for the whole tree: no process of
\* the job is left, or a failing query made the monitor give up (DoneMeansOver).
THEOREM DoneMeansOverHolds == Spec => []DoneMeansOver
<1>1. IInv => DoneMeansOver
  BY DEF IInv
<1> QED BY <1>1, InitIInv, NextIInv, PTL DEF Spec

\* A child that child_free has released, or child_launch has unwound, has no thread that
\* could use its memory and no process (ReleaseIsClean).
THEOREM ReleaseIsCleanHolds == Spec => []ReleaseIsClean
<1>1. IInv => ReleaseIsClean
  BY DEF IInv
<1> QED BY <1>1, InitIInv, NextIInv, PTL DEF Spec
------------------------------------------------------------------------------
(* Results: VerdictIsTrue, AllOutputReported and ResultsAreKept. A report is made  *)
(* from child_t once, but it is read for as long as the script likes: what it says *)
(* is tied to what the threads, the tree and the pipes were when done was set.     *)

\* What the direct process became, what the monitor made of it, and who killed it: nobody
\* terminates the job of a child that can still be waited for without marking it killed.
Truth ==
  /\ code \in {"none", "ok", "err", "kill"} /\ (direct = "exited" => code # "none")
  /\ directDone /\ ~killed => direct = "exited" /\ exitCode = code
  /\ done => directDone
  /\ exitCode \in {"ok", "err", "kill"}
  /\ killed \/ code = "kill" => doomed
  /\ timeout => deadline = "spent"
  /\ doomed /\ life = "live" /\ cmd \notin {"close", "unwind"} => killed
  /\ life = "none" => ~directDone /\ ~killed /\ ~timeout /\ direct = "none" /\ code = "none"

\* The latest report is still what child_reap would say, and no snapshot is ahead of len.
Kept ==
  /\ len \in [Streams -> Nat]
  /\ cmd # "idle" => ~reaped
  /\ report.kind \in {"none", "error", "running", "final"}
  /\ report.kind = "final" => reaped /\ report = FinalReport
  /\ report.kind = "running" =>
       report.out \in [Streams -> Nat] /\ \A s \in Streams : report.out[s] <= len[s]

\* A chunk is in its pipe, kept, or beyond the capture limit; a callback's are all kept.
Taken(s) == wrote[s] - pipe[s]
Captured(s) == mode = "capture" \/ (mode = "stream" /\ s \notin Callbacks)
Flow ==
  /\ pipe \in [Streams -> Nat] /\ wrote \in [Streams -> Nat] /\ truncated \in [Streams -> BOOLEAN]
  /\ life = "none" => pipe = Zeros /\ wrote = Zeros /\ len = Zeros /\ \A s \in Streams : ~truncated[s]
  /\ \A s \in Streams : Captured(s) =>
       /\ len[s] = (IF Taken(s) < CaptureCap THEN Taken(s) ELSE CaptureCap)
       /\ truncated[s] <=> Taken(s) > CaptureCap
  /\ \A s \in Callbacks : mode = "stream" /\ (cmd = "pump" \/ report.kind = "final") => len[s] = Taken(s)
  /\ mode \in {"channels", "inherit"} => len = Zeros

\* A stream that was read to its end stays there.
Drained ==
  /\ \A s \in Streams : /\ life = "none" => tRead[s] = "none"
                        /\ tRead[s] = "ended" /\ ~ioError => Eof(s)
  /\ done /\ mode = "capture" => \A s \in Streams : tRead[s] = "ended"
  /\ \A s \in Streams : /\ pumpEof[s] = "end" => Eof(s) /\ life # "none"
                        /\ report.kind = "final" /\ mode = "stream" => pumpEof[s] # "no"
  /\ pumpEof \in [Streams -> {"no", "end", "failed"}]
  /\ mode = "stream" /\ life = "live" => cmd \in {"pump", "abort", "close", "unwind"}
  /\ cmd = "pump" => mode = "stream"
  /\ mode \in {"capture", "stream", "channels", "inherit"}

\* A child may be terminated after its result was collected, but its direct process was not.
Sealed == report.kind = "final" => killed \/ code # "kill"

CInv == Truth /\ Kept /\ Flow /\ Drained /\ Sealed

\* Before the launch.
LEMMA InitCInv == Init => CInv
<1> SUFFICES ASSUME Init PROVE CInv
  OBVIOUS
<1> USE StreamsAssumption, SizesAssumption DEF Init, Zeros
<1>1. Truth /\ Drained /\ Sealed
  BY DEF Truth, Drained, Eof, Sealed, NoReport
<1>2. Kept
  BY DEF Kept, NoReport
<1>3. Flow
  <2>1. ASSUME NEW s \in Streams PROVE wrote[s] = 0 /\ pipe[s] = 0 /\ len[s] = 0 /\ ~truncated[s]
    OBVIOUS
  <2>2. ASSUME NEW s \in Streams
        PROVE  /\ len[s] = (IF Taken(s) < CaptureCap THEN Taken(s) ELSE CaptureCap)
               /\ truncated[s] <=> Taken(s) > CaptureCap
    BY <2>1 DEF Taken
  <2>3. mode = "capture" /\ life = "none" /\ truncated \in [Streams -> BOOLEAN]
        /\ pipe = Zeros /\ wrote = Zeros /\ len = Zeros
    OBVIOUS
  <2> QED BY <2>1, <2>2, <2>3 DEF Flow
<1> QED BY <1>1, <1>2, <1>3 DEF CInv

\* What a chunk does to what a reader has.
LEMMA KeepGrows ==
  ASSUME NEW s \in Streams, len \in [Streams -> Nat], Keep(s)
  PROVE  len' \in [Streams -> Nat] /\ \A t \in Streams : len[t] <= len'[t]
BY DEF Keep

\* A step reports what child_t says then, and what a collected result says stays.
LEMMA ReportMoves ==
  ASSUME IInv, Kept, [Next]_vars
  PROVE  /\ \/ report' = report
            \/ report' = ErrorReport
            \/ report' = FinalReport /\ reaped' /\ UNCHANGED <<timeout, killed, exitCode, len>>
            \/ report' = RunningReport /\ ~reaped /\ UNCHANGED len
         /\ reaped => reaped' /\ UNCHANGED <<timeout, killed, exitCode, len>>
         /\ len' \in [Streams -> Nat] /\ \A s \in Streams : len[s] <= len'[s]
<1> DEFINE Grows == len' \in [Streams -> Nat] /\ \A s \in Streams : len[s] <= len'[s]
           Facts == <<timeout, killed, exitCode, len>>
<1>0. /\ len \in [Streams -> Nat] /\ (cmd # "idle" => ~reaped)
      /\ done => mon = "ended" /\ \A s \in Streams : tRead[s] # "running"
      /\ (reaped => done) /\ (life = "none" => ~reaped)
  BY DEF Kept, IInv, Monitored, DoneMeansOver, Started
<1>1. len' = len => Grows
  BY <1>0
<1>2. CASE Tree
  <2>1. UNCHANGED <<report, reaped>> /\ UNCHANGED Facts
    BY <1>2 DEF Tree, Proc, ProcWrites, ProcReads, ProcFinishes, ProcEndsEarly, TreeSpawns, KidExits,
      TreeClosesOutput, DoomedDies, TreeStays, scriptVars, readVars, monVars
  <2> QED BY <2>1, <1>1
<1>3. CASE Writer \/ \E s \in Streams : Reader(s)
  <2>1. UNCHANGED <<report, reaped, timeout, killed, exitCode>>
    BY <1>3 DEF Writer, WriterWrites, WriterEnds, Reader, ReaderReads, ReaderEnds, ThreadStays,
      scriptVars, monVars
  <2>2. len' = len \/ \E s \in Streams : tRead[s] = "running" /\ Keep(s)
    BY <1>3 DEF Writer, WriterWrites, WriterEnds, Reader, ReaderReads, ReaderEnds, readVars
  <2>3. Grows
    BY <1>0, <1>1, <2>2, KeepGrows
  <2> QED BY <1>0, <2>1, <2>2, <2>3
<1>4. CASE Monitor \/ ClockTicks
  <2>1. UNCHANGED <<report, reaped, len>> /\ (done => UNCHANGED <<timeout, killed, exitCode>>)
    BY <1>0, <1>4 DEF Monitor, MonitorProc, MonitorJob, MonitorDone, MonitorAgain, ClockTicks,
      MonitorStays, scriptVars, readVars
  <2> QED BY <1>0, <1>1, <2>1
<1>5. CASE LaunchUnwound \/ ChildWaitReturns \/ ChildFree \/ RunReturns \/ PumpReturns \/ PumpAborted
  <2>1. UNCHANGED Facts /\ (reaped => reaped')
    BY <1>5 DEF LaunchUnwound, ChildWaitReturns, ChildFree, RunReturns, PumpReturns, PumpAborted, GivesUp,
      CommandStays, readVars, monVars, Reap, ReapFails, Freed
  <2>2. \/ report' = report
        \/ report' = ErrorReport
        \/ report' = FinalReport /\ reaped'
        \/ report' = RunningReport /\ ~reaped
    BY <1>0, <1>5 DEF LaunchUnwound, ChildWaitReturns, ChildFree, RunReturns, PumpReturns, PumpAborted, GivesUp,
      Reap, ReapFails
  <2> QED BY <1>1, <2>1, <2>2
<1>6. CASE PumpOnce \/ PumpStops \/ PumpAborts
  <2>1. UNCHANGED <<report, reaped>> /\ ~reaped
    BY <1>0, <1>6 DEF PumpOnce, PumpStops, PumpAborts, scriptVars
  <2>2. Grows
    <3>1. ASSUME NEW s \in Streams, len' = [len EXCEPT ![s] = @ + 1] PROVE Grows
      BY <1>0, <3>1
    <3> QED BY <1>0, <1>1, <1>6, <3>1, KeepGrows DEF PumpOnce, PumpStops, PumpAborts, readVars
  <2> QED BY <2>1, <2>2
<1>7. CASE Script
  <2>1. UNCHANGED len /\ (reaped => reaped' /\ UNCHANGED <<timeout, killed, exitCode>>)
    BY <1>0, <1>7 DEF Script, ChildStart, RunCmd, ChildStartNoChannels, LaunchFails, Start, Launch,
      ChildWait, ChildKill, ChildClose, ScriptReads, ScriptClosesStdin, CommandStays, Freed,
      FreeStarts, scriptVars, readVars, monVars
  <2>2. report' = report \/ (report' = FinalReport /\ reaped /\ UNCHANGED killed)
    BY <1>7 DEF Script, ChildStart, RunCmd, ChildStartNoChannels, LaunchFails, Start, Launch,
      ChildWait, ChildKill, ChildClose, ScriptReads, ScriptClosesStdin, scriptVars
  <2> QED BY <1>1, <2>1, <2>2
<1>8. CASE UNCHANGED vars
  BY <1>1, <1>8 DEF vars, scriptVars, monVars, readVars
<1> QED BY <1>2, <1>3, <1>4, <1>5, <1>6, <1>7, <1>8 DEF Next, Command

\* So the latest report stays true of child_t.
LEMMA KeptStep == ASSUME IInv, Kept, [Next]_vars PROVE Kept'
<1>1. cmd' # "idle" => ~reaped'
  <2>0. (cmd # "idle" => ~reaped) /\ (life = "none" => ~reaped)
    BY DEF Kept, IInv, Started
  <2>1. CASE Command
    BY <2>0, <2>1 DEF Command, LaunchUnwound, ChildWaitReturns, ChildFree, RunReturns, GivesUp, PumpOnce, PumpStops,
      PumpAborts, PumpReturns, PumpAborted, Freed, scriptVars
  <2>2. CASE Script
    BY <2>0, <2>2 DEF Script, ChildStart, RunCmd, ChildStartNoChannels, LaunchFails, Start, Launch,
      ChildWait, ChildKill, ChildClose, ScriptReads, ScriptClosesStdin, Freed, FreeStarts, scriptVars
  <2>3. CASE ~Command /\ ~Script
    <3>1. UNCHANGED <<cmd, reaped>>
      BY <2>3 DEF Next, Tree, Proc, ProcWrites, ProcReads, ProcFinishes, ProcEndsEarly, TreeSpawns,
        KidExits, TreeClosesOutput, DoomedDies, TreeStays, Writer, WriterWrites, WriterEnds, Reader,
        ReaderReads, ReaderEnds, ThreadStays, Monitor, MonitorProc, MonitorJob, MonitorDone,
        MonitorAgain, ClockTicks, MonitorStays, scriptVars, vars
    <3> QED BY <2>0, <3>1
  <2> QED BY <2>1, <2>2, <2>3
<1>2. CASE report' = report
  <2>1. report.kind = "final" => reaped' /\ FinalReport' = FinalReport
    BY ReportMoves DEF Kept, FinalReport, Status
  <2>2. report.kind = "running" => \A s \in Streams : report.out[s] <= len'[s]
    <3>1. ASSUME report.kind = "running", NEW s \in Streams PROVE report.out[s] <= len'[s]
      <4>1. report.out[s] \in Nat /\ len[s] \in Nat /\ len'[s] \in Nat
        BY <3>1, ReportMoves DEF Kept
      <4> QED BY <3>1, <4>1, ReportMoves DEF Kept
    <3> QED BY <3>1
  <2> QED BY <1>1, <1>2, <2>1, <2>2, ReportMoves DEF Kept
<1>3. CASE report' = ErrorReport
  BY <1>1, <1>3, ReportMoves DEF Kept, ErrorReport
<1>4. CASE report' = FinalReport /\ reaped' /\ UNCHANGED <<timeout, killed, exitCode, len>>
  <2>1. report' = FinalReport' /\ report'.kind = "final"
    BY <1>4 DEF FinalReport, Status
  <2> QED BY <1>1, <1>4, <2>1, ReportMoves DEF Kept
<1>5. CASE report' = RunningReport /\ UNCHANGED len
  <2>1. report'.kind = "running" /\ report'.out = len'
    BY <1>5 DEF RunningReport
  <2>2. len' \in [Streams -> Nat] /\ \A s \in Streams : len'[s] <= len'[s]
    BY ReportMoves
  <2> QED BY <1>1, <2>1, <2>2 DEF Kept
<1> QED BY <1>2, <1>3, <1>4, <1>5, ReportMoves

\* Who killed the child, and what became of its direct process, stay known.
LEMMA TruthStep == ASSUME IInv, Truth, [Next]_vars PROVE Truth'
<1>0. /\ done <=> mon = "ended"
      /\ direct \in {"none", "running", "exited"}
      /\ cmd # "idle" => life = "live"
      /\ life = "none" => mon = "none" /\ ~done
  BY DEF IInv, Types, Monitored, Started
<1>1. CASE Tree
  <2>1. UNCHANGED <<life, cmd, doomed, directDone, done, timeout, killed, exitCode, deadline>>
    BY <1>1 DEF Tree, Proc, ProcWrites, ProcReads, ProcFinishes, ProcEndsEarly, TreeSpawns, KidExits,
      TreeClosesOutput, DoomedDies, TreeStays, scriptVars, monVars
  <2>2. \/ UNCHANGED <<direct, code>>
        \/ direct = "running" /\ direct' = "exited" /\ code' \in {"ok", "err"}
        \/ direct = "running" /\ direct' = "exited" /\ code' = "kill" /\ doomed
    BY <1>1 DEF Tree, Proc, ProcWrites, ProcReads, ProcFinishes, ProcEndsEarly, TreeSpawns, KidExits,
      TreeClosesOutput, DoomedDies, treeVars
  <2>3. direct = "running" => life # "none"
    BY DEF Truth
  <2> QED BY <2>1, <2>2, <2>3 DEF Truth
<1>2. CASE Writer \/ \E s \in Streams : Reader(s)
  BY <1>2 DEF Writer, WriterWrites, WriterEnds, Reader, ReaderReads, ReaderEnds, ThreadStays,
    scriptVars, treeVars, jobVars, monVars, Truth
<1>3. CASE MonitorProc
  BY <1>0, <1>3 DEF MonitorProc, MonitorStays, TerminateOrClose, scriptVars, treeVars, jobVars, Truth
<1>4. CASE MonitorJob
  BY <1>0, <1>4 DEF MonitorJob, MonitorStays, TerminateOrClose, scriptVars, treeVars, jobVars, Truth
<1>5. CASE MonitorDone \/ MonitorAgain \/ ClockTicks
  BY <1>0, <1>5 DEF MonitorDone, MonitorAgain, DeadlineKills, TerminateJob, JobNotTerminated, ClockTicks,
    MonitorStays, scriptVars, treeVars, jobVars, Truth
<1>6. CASE Command
  BY <1>0, <1>6 DEF Command, LaunchUnwound, ChildWaitReturns, ChildFree, RunReturns, GivesUp, PumpOnce, PumpStops, PumpAborts,
    PumpReturns, PumpAborted, CommandStays, Reap, ReapFails, Freed, JobFreed, TerminateOrClose,
    scriptVars, treeVars, jobVars, monVars, Truth
<1>7. CASE ChildStart \/ RunCmd \/ ChildStartNoChannels \/ LaunchFails
  BY <1>0, <1>7 DEF ChildStart, RunCmd, ChildStartNoChannels, LaunchFails, Start, Launch, Truth
<1>8. CASE ChildWait \/ ChildKill \/ ChildClose \/ ScriptReads \/ ScriptClosesStdin
  BY <1>0, <1>8 DEF ChildWait, ChildKill, ChildClose, ScriptReads, ScriptClosesStdin, CommandStays,
    Freed, JobFreed, FreeStarts, TerminateJob, JobNotTerminated, TerminateOrClose,
    scriptVars, treeVars, jobVars, monVars, Truth
<1>9. CASE UNCHANGED vars
  BY <1>9 DEF vars, scriptVars, treeVars, jobVars, monVars, Truth
<1> QED BY <1>1, <1>2, <1>3, <1>4, <1>5, <1>6, <1>7, <1>8, <1>9 DEF Next, Monitor, Script

\* A chunk goes from a pipe to a reader, or from the tree to a pipe; nothing else moves one.
LEMMA FlowTake ==
  ASSUME Flow, NEW s \in Streams, TakeChunk(s)
  PROVE  /\ pipe' \in [Streams -> Nat] /\ wrote' \in [Streams -> Nat] /\ wrote' = wrote
         /\ Taken(s)' = Taken(s) + 1 /\ Taken(s) \in Int
         /\ \A t \in Streams \ {s} : Taken(t)' = Taken(t)
BY DEF Flow, TakeChunk, Taken

\* What is kept of a chunk follows what was taken, up to the limit.
LEMMA FlowKeep ==
  ASSUME Flow, Kept, NEW s \in Streams, TakeChunk(s), Keep(s), Captured(s), UNCHANGED mode,
         life' # "none", mode \notin {"channels", "inherit"}, UNCHANGED <<cmd, report>>
  PROVE  Flow'
<1>1. /\ pipe' \in [Streams -> Nat] /\ wrote' \in [Streams -> Nat] /\ Taken(s)' = Taken(s) + 1
      /\ Taken(s) \in Int /\ \A t \in Streams \ {s} : Taken(t)' = Taken(t)
  BY FlowTake
<1>2. truncated' \in [Streams -> BOOLEAN] /\ len \in [Streams -> Nat]
      /\ \A t \in Streams \ {s} : len'[t] = len[t] /\ truncated'[t] = truncated[t]
  BY DEF Flow, Keep, Kept
<1>3. \/ len[s] < CaptureCap /\ len'[s] = len[s] + 1 /\ truncated'[s] = truncated[s]
      \/ ~(len[s] < CaptureCap) /\ len'[s] = len[s] /\ truncated'[s] = TRUE
  BY <1>2 DEF Flow, Keep
<1>4. /\ len[s] = (IF Taken(s) < CaptureCap THEN Taken(s) ELSE CaptureCap)
      /\ truncated[s] <=> Taken(s) > CaptureCap
  BY DEF Flow
<1>5. /\ len'[s] = (IF Taken(s)' < CaptureCap THEN Taken(s)' ELSE CaptureCap)
      /\ truncated'[s] <=> Taken(s)' > CaptureCap
  <2>1. CaptureCap \in Nat
    BY SizesAssumption
  <2> QED BY <1>1, <1>3, <1>4, <2>1
<1>6. \A t \in Streams : Captured(t)' = Captured(t)
  BY DEF Captured
<1>7. \A t \in Streams : Captured(t)' =>
        /\ len'[t] = (IF Taken(t)' < CaptureCap THEN Taken(t)' ELSE CaptureCap)
        /\ truncated'[t] <=> Taken(t)' > CaptureCap
  <2> SUFFICES ASSUME NEW t \in Streams, Captured(t)'
               PROVE  /\ len'[t] = (IF Taken(t)' < CaptureCap THEN Taken(t)' ELSE CaptureCap)
                      /\ truncated'[t] <=> Taken(t)' > CaptureCap
    OBVIOUS
  <2>1. CASE t = s
    BY <1>5, <2>1
  <2>2. CASE t # s
    <3>1. Taken(t)' = Taken(t) /\ len'[t] = len[t] /\ truncated'[t] = truncated[t] /\ Captured(t)
      BY <1>1, <1>2, <1>6, <2>2
    <3> QED BY <3>1 DEF Flow
  <2> QED BY <2>1, <2>2
<1>8. ASSUME NEW t \in Callbacks, mode' = "stream", cmd' = "pump" \/ report'.kind = "final"
      PROVE  len'[t] = Taken(t)'
  <2>1. t # s /\ t \in Streams
    BY <1>8, StreamsAssumption DEF Captured
  <2>2. Taken(t)' = Taken(t) /\ len'[t] = len[t]
    BY <1>1, <1>2, <2>1
  <2> QED BY <1>8, <2>2 DEF Flow
<1> QED BY <1>1, <1>2, <1>7, <1>8 DEF Flow

\* A step that moves no chunk, in a child already launched.
LEMMA FlowKeeps ==
  ASSUME Flow, UNCHANGED <<mode, pipe, wrote, len, truncated>>, life' = "none" => life = "none",
         mode = "stream" /\ (cmd' = "pump" \/ report'.kind = "final") =>
            cmd = "pump" \/ report.kind = "final"
  PROVE  Flow'
<1>1. \A s \in Streams : Taken(s)' = Taken(s) /\ (Captured(s)' <=> Captured(s))
  BY DEF Taken, Captured
<1>2. \A s \in Callbacks : Taken(s)' = Taken(s)
  BY DEF Taken
<1> QED BY <1>1, <1>2 DEF Flow

\* Every chunk of a stream is accounted for until the end.
LEMMA FlowStep == ASSUME IInv, Truth, Kept, Flow, Drained, [Next]_vars PROVE Flow'
<1>0. /\ cmd # "idle" => life = "live"
      /\ mode # "capture" => \A s \in Streams : tRead[s] # "running"
      /\ cmd = "pump" => mode = "stream" /\ report.kind # "final"
      /\ mode = "stream" /\ life = "live" => cmd \in {"pump", "abort", "close", "unwind"}
      /\ cmd = "run" => mode # "stream"
      /\ life = "none" => report.kind # "final"
  BY DEF IInv, Started, Kept, Drained
<1>1. CASE Tree
  <2>1. UNCHANGED <<life, mode, cmd, report, len, truncated>>
    BY <1>1 DEF Tree, Proc, ProcWrites, ProcReads, ProcFinishes, ProcEndsEarly, TreeSpawns, KidExits,
      TreeClosesOutput, DoomedDies, TreeStays, scriptVars, readVars
  <2>2. CASE ProcWrites
    <3>1. /\ pipe' \in [Streams -> Nat] /\ wrote' \in [Streams -> Nat]
          /\ \A s \in Streams : Taken(s)' = Taken(s)
      BY <2>2 DEF ProcWrites, Taken, Flow
    <3>2. \A s \in Callbacks : Taken(s)' = Taken(s)
      BY <3>1, StreamsAssumption
    <3>3. \A s \in Streams : Captured(s)' <=> Captured(s)
      BY <2>1 DEF Captured
    <3>4. life # "none"
      BY <2>2 DEF ProcWrites, Truth
    <3> QED BY <2>1, <3>1, <3>2, <3>3, <3>4 DEF Flow
  <2>3. CASE ~ProcWrites
    <3>1. UNCHANGED <<pipe, wrote>>
      BY <1>1, <2>3 DEF Tree, Proc, ProcReads, ProcFinishes, ProcEndsEarly, TreeSpawns, KidExits,
        TreeClosesOutput, DoomedDies, pipeVars
    <3> QED BY <2>1, <3>1, FlowKeeps
  <2> QED BY <2>2, <2>3
<1>2. CASE Writer
  BY <1>2, FlowKeeps DEF Writer, WriterWrites, WriterEnds, ThreadStays, scriptVars, readVars
<1>3. ASSUME NEW s \in Streams, Reader(s) PROVE Flow'
  <2>1. CASE ReaderReads(s)
    <3>1. tRead[s] = "running" /\ mode = "capture" /\ TakeChunk(s) /\ Keep(s) /\ UNCHANGED scriptVars
      BY <1>0, <2>1 DEF ReaderReads, ThreadStays
    <3>2. life # "none"
      BY <3>1 DEF Drained
    <3> QED BY <3>1, <3>2, FlowKeep DEF scriptVars, Captured
  <2>2. CASE ReaderEnds(s)
    BY <2>2, FlowKeeps DEF ReaderEnds, ThreadStays, scriptVars, pipeVars
  <2> QED BY <1>3, <2>1, <2>2 DEF Reader
<1>4. CASE Monitor \/ ClockTicks
  BY <1>4, FlowKeeps DEF Monitor, MonitorProc, MonitorJob, MonitorDone, MonitorAgain, ClockTicks,
    MonitorStays, scriptVars, pipeVars, readVars
<1>5. CASE LaunchUnwound \/ ChildWaitReturns \/ ChildFree \/ RunReturns \/ PumpReturns \/ PumpAborted
  <2>1. UNCHANGED <<mode, pipe, wrote, len, truncated>> /\ life = "live"
    BY <1>0, <1>5 DEF LaunchUnwound, ChildWaitReturns, ChildFree, RunReturns, PumpReturns, PumpAborted, GivesUp,
      CommandStays, readVars
  <2>2. life' # "none" /\ cmd' # "pump"
    BY <1>0, <1>5 DEF LaunchUnwound, ChildWaitReturns, ChildFree, RunReturns, PumpReturns, PumpAborted, GivesUp,
      Freed
  <2>3. mode = "stream" /\ report'.kind = "final" => cmd = "pump" \/ report.kind = "final"
    <3>1. report' = ErrorReport \/ report' = report \/ cmd = "pump" \/ mode # "stream"
      BY <1>0, <1>5 DEF LaunchUnwound, ChildWaitReturns, ChildFree, RunReturns, PumpReturns, PumpAborted, GivesUp
    <3>2. ErrorReport.kind = "error"
      BY DEF ErrorReport
    <3> QED BY <3>1, <3>2
  <2> QED BY <2>1, <2>2, <2>3, FlowKeeps
<1>6. CASE PumpOnce
  <2>1. PICK s \in Streams : TakeChunk(s)
                 /\ IF s \in Callbacks
                    THEN len' = [len EXCEPT ![s] = @ + 1] /\ UNCHANGED truncated
                    ELSE Keep(s)
    BY <1>6 DEF PumpOnce
  <2>2. cmd = "pump" /\ mode = "stream" /\ life = "live" /\ UNCHANGED scriptVars
    BY <1>0, <1>6 DEF PumpOnce
  <2>3. CASE s \notin Callbacks
    BY <2>1, <2>2, <2>3, FlowKeep DEF scriptVars, Captured
  <2>4. CASE s \in Callbacks
    <3>1. /\ pipe' \in [Streams -> Nat] /\ wrote' \in [Streams -> Nat] /\ Taken(s)' = Taken(s) + 1
          /\ Taken(s) \in Int /\ \A t \in Streams \ {s} : Taken(t)' = Taken(t)
      BY <2>1, FlowTake
    <3>2. len'[s] = len[s] + 1 /\ truncated' = truncated /\ \A t \in Streams \ {s} : len'[t] = len[t]
      BY <2>1, <2>4 DEF Kept
    <3>3. \A t \in Streams : Captured(t)' => Captured(t) /\ t # s
      BY <2>2, <2>4 DEF Captured, scriptVars
    <3>4. \A t \in Callbacks : len'[t] = Taken(t)'
      <4>1. \A t \in Callbacks : len[t] = Taken(t)
        BY <2>2 DEF Flow
      <4> QED BY <2>4, <3>1, <3>2, <4>1, StreamsAssumption
    <3> QED BY <2>2, <3>1, <3>2, <3>3, <3>4 DEF Flow, scriptVars
  <2> QED BY <2>3, <2>4
<1>7. CASE PumpAborts
  <2>1. /\ cmd = "pump" /\ mode = "stream" /\ life = "live" /\ cmd' = "abort"
        /\ UNCHANGED <<life, mode, report, len, truncated>> /\ report.kind # "final"
    BY <1>0, <1>7 DEF PumpAborts, readVars
  <2>2. CASE UNCHANGED pipeVars
    BY <2>1, <2>2, FlowKeeps DEF pipeVars
  <2>3. ASSUME NEW s \in Callbacks, TakeChunk(s) PROVE Flow'
    <3>1. /\ pipe' \in [Streams -> Nat] /\ wrote' \in [Streams -> Nat]
          /\ \A t \in Streams \ {s} : Taken(t)' = Taken(t)
      BY <2>3, FlowTake, StreamsAssumption
    <3>2. \A t \in Streams : Captured(t)' => Captured(t) /\ t # s
      BY <2>1 DEF Captured
    <3> QED BY <2>1, <3>1, <3>2 DEF Flow
  <2> QED BY <1>7, <2>2, <2>3 DEF PumpAborts
<1>8. CASE ChildStart \/ RunCmd \/ ChildStartNoChannels \/ LaunchFails
  <2>1. life = "none" /\ life' = "live" /\ UNCHANGED <<report, pipe, wrote, len, truncated>>
    BY <1>8 DEF ChildStart, RunCmd, ChildStartNoChannels, LaunchFails, Start, Launch
  <2>2. /\ pipe' = Zeros /\ wrote' = Zeros /\ len' = Zeros /\ truncated' \in [Streams -> BOOLEAN]
        /\ \A s \in Streams : ~truncated'[s]
    BY <2>1 DEF Flow
  <2>3. \A s \in Streams : len'[s] = 0 /\ Taken(s)' = 0
    BY <2>2 DEF Zeros, Taken
  <2>4. pipe' \in [Streams -> Nat] /\ wrote' \in [Streams -> Nat]
    BY <2>2 DEF Zeros
  <2>5. CaptureCap \in Nat
    BY SizesAssumption
  <2> QED BY <2>1, <2>2, <2>3, <2>4, <2>5, StreamsAssumption DEF Flow
<1>9. CASE ChildWait \/ ChildKill \/ ChildClose \/ ScriptClosesStdin
  <2>1. UNCHANGED <<mode, pipe, wrote, len, truncated>> /\ life = "live" /\ cmd = "idle" /\ life' # "none"
    BY <1>9 DEF ChildWait, ChildKill, ChildClose, ScriptClosesStdin, CommandStays, readVars, Freed,
      FreeStarts
  <2> QED BY <1>0, <2>1, FlowKeeps
<1>10. CASE ScriptReads
  <2>1. PICK s \in Streams : TakeChunk(s)
    BY <1>10 DEF ScriptReads
  <2>2. mode = "channels" /\ life = "live" /\ UNCHANGED <<life, mode, len, truncated>>
    BY <1>10 DEF ScriptReads, scriptVars, readVars
  <2>3. pipe' \in [Streams -> Nat] /\ wrote' \in [Streams -> Nat]
    BY <2>1, FlowTake
  <2> QED BY <2>2, <2>3 DEF Flow, Captured
<1>11. CASE UNCHANGED vars
  BY <1>11, FlowKeeps DEF vars, scriptVars, pipeVars, readVars
<1>12. CASE PumpStops
  BY <1>12, FlowKeeps DEF PumpStops, scriptVars, pipeVars, readVars
<1> QED BY <1>1, <1>2, <1>3, <1>4, <1>5, <1>6, <1>7, <1>8, <1>9, <1>10, <1>11, <1>12 DEF Next, Command, Script

\* A stream at its end has no writer and nothing left in its pipe.
LEMMA EofStays ==
  ASSUME IInv, Flow, [Next]_vars, life # "none", NEW s \in Streams, Eof(s) PROVE Eof(s)'
<1>0. kids \in Nat /\ direct \in {"none", "running", "exited"} /\ pipe[s] = 0
  BY DEF IInv, Types, Eof
<1>1. (Active = 0 => Active' = 0) /\ (~held => ~held')
  BY <1>0 DEF Next, Tree, Proc, ProcWrites, ProcReads, ProcFinishes, ProcEndsEarly, TreeSpawns, KidExits,
    TreeClosesOutput, DoomedDies, Active, Writer, WriterWrites, WriterEnds, Reader, ReaderReads, ReaderEnds,
    ThreadStays, Monitor, MonitorProc, MonitorJob, MonitorDone, MonitorAgain, ClockTicks, MonitorStays,
    Command, LaunchUnwound, ChildWaitReturns, ChildFree, RunReturns, GivesUp, PumpOnce, PumpStops, PumpAborts, PumpReturns,
    PumpAborted, Script, ChildStart, RunCmd, ChildStartNoChannels, LaunchFails, Start, Launch, ChildWait,
    ChildKill, ChildClose, ScriptReads, ScriptClosesStdin, CommandStays, treeVars, vars
<1>2. pipe'[s] = 0
  <2>1. CASE ProcWrites
    <3>1. held /\ Active > 0
      BY <1>0, <2>1 DEF ProcWrites, Active
    <3> QED BY <3>1, <1>0 DEF Eof
  <2>2. ASSUME NEW t \in Streams, TakeChunk(t) PROVE pipe'[s] = 0
    <3>1. t # s /\ pipe' = [pipe EXCEPT ![t] = @ - 1]
      BY <1>0, <2>2 DEF TakeChunk
    <3> QED BY <1>0, <3>1 DEF Flow
  <2>3. CASE UNCHANGED pipe
    BY <1>0, <2>3
  <2> QED BY <2>1, <2>2, <2>3, StreamsAssumption DEF Next, Tree, Proc, ProcReads, ProcFinishes, ProcEndsEarly,
    TreeSpawns, KidExits, TreeClosesOutput, DoomedDies, Writer, WriterWrites, WriterEnds, Reader, ReaderReads,
    ReaderEnds, Monitor, MonitorProc, MonitorJob, MonitorDone, MonitorAgain, ClockTicks, MonitorStays,
    Command, LaunchUnwound, ChildWaitReturns, ChildFree, RunReturns, GivesUp, PumpOnce, PumpStops, PumpAborts, PumpReturns,
    PumpAborted, Script, ChildStart, RunCmd, ChildStartNoChannels, LaunchFails, Start, Launch, ChildWait,
    ChildKill, ChildClose, ScriptReads, ScriptClosesStdin, CommandStays, pipeVars, vars
<1> QED BY <1>1, <1>2 DEF Eof

\* The end of a stream, once somebody has seen it, is the end.
LEMMA DrainedStep == ASSUME IInv, IInv', Kept, Flow, Drained, [Next]_vars PROVE Drained'
<1>0. /\ tRead \in [Streams -> Places]
      /\ mode # "capture" => \A s \in Streams : tRead[s] # "running"
      /\ cmd # "idle" => life = "live"
      /\ done => mon = "ended" /\ \A s \in Streams : tRead[s] # "running"
      /\ mode = "stream" /\ life = "live" => cmd \in {"pump", "abort", "close", "unwind"}
      /\ cmd = "pump" => mode = "stream"
      /\ life = "none" => mon = "none" /\ report.kind # "final" /\ ~done
  BY DEF IInv, Types, Started, Monitored, DoneMeansOver, Drained, Kept
<1>1. CASE ChildStart \/ RunCmd \/ ChildStartNoChannels \/ LaunchFails
  <2>1. /\ life = "none" /\ life' = "live" /\ UNCHANGED <<report, done, pumpEof>>
        /\ \A s \in Streams : tRead'[s] # "ended"
        /\ mode' = "stream" => cmd' \in {"pump", "close", "unwind"}
        /\ cmd' = "pump" => mode' = "stream"
        /\ mode' \in {"capture", "stream", "channels", "inherit"}
    BY <1>1, ModesAssumption DEF ChildStart, RunCmd, ChildStartNoChannels, LaunchFails, Start, Launch, endVars
  <2> QED BY <1>0, <2>1 DEF Drained
<1>2. CASE ~(ChildStart \/ RunCmd \/ ChildStartNoChannels \/ LaunchFails)
  <2>1. UNCHANGED mode /\ (life' = "none" => life = "none") /\ (life' = "live" => life = "live")
    BY <1>0, <1>2 DEF Next, Tree, Proc, ProcWrites, ProcReads, ProcFinishes, ProcEndsEarly, TreeSpawns, KidExits,
      TreeClosesOutput, DoomedDies, TreeStays, Writer, WriterWrites, WriterEnds, Reader, ReaderReads, ReaderEnds,
      ThreadStays, Monitor, MonitorProc, MonitorJob, MonitorDone, MonitorAgain, ClockTicks, MonitorStays,
      Command, LaunchUnwound, ChildWaitReturns, ChildFree, RunReturns, GivesUp, PumpOnce, PumpStops, PumpAborts, PumpReturns,
      PumpAborted, Script, ChildWait, ChildKill, ChildClose, ScriptReads, ScriptClosesStdin, CommandStays,
      Freed, FreeStarts, scriptVars, vars
  <2>2. \/ UNCHANGED <<tRead, ioError>>
        \/ \E s \in Streams : ReaderEnds(s)
    BY <1>2 DEF Next, Tree, Proc, ProcWrites, ProcReads, ProcFinishes, ProcEndsEarly, TreeSpawns, KidExits,
      TreeClosesOutput, DoomedDies, TreeStays, Writer, WriterWrites, WriterEnds, Reader, ReaderReads,
      Monitor, MonitorProc, MonitorJob, MonitorDone, MonitorAgain, ClockTicks, MonitorStays,
      Command, LaunchUnwound, ChildWaitReturns, ChildFree, RunReturns, GivesUp, PumpOnce, PumpStops, PumpAborts, PumpReturns,
      PumpAborted, Script, ChildWait, ChildKill, ChildClose, ScriptReads, ScriptClosesStdin, CommandStays,
      readVars, vars
  <2>3. ASSUME NEW s \in Streams
        PROVE  /\ life' = "none" => tRead'[s] = "none"
               /\ tRead'[s] = "ended" /\ ~ioError' => Eof(s)'
    <3>1. CASE UNCHANGED <<tRead, ioError>>
      <4>1. (life = "none" => tRead[s] = "none") /\ (tRead[s] = "ended" /\ ~ioError => Eof(s))
        BY DEF Drained
      <4>2. tRead[s] = "ended" /\ ~ioError => Eof(s)'
        BY <4>1, EofStays
      <4> QED BY <2>1, <3>1, <4>1, <4>2
    <3>2. ASSUME NEW t \in Streams, ReaderEnds(t)
          PROVE  /\ life' = "none" => tRead'[s] = "none"
                 /\ tRead'[s] = "ended" /\ ~ioError' => Eof(s)'
      <4>1. /\ tRead[t] = "running" /\ tRead' = [tRead EXCEPT ![t] = "ended"]
            /\ (Eof(t) /\ ioError' = ioError) \/ ioError' = TRUE
        BY <3>2 DEF ReaderEnds
      <4>2. life # "none"
        BY <4>1 DEF Drained
      <4>3. ~ioError' => ~ioError /\ Eof(t)
        BY <4>1
      <4>4. tRead'[s] = "ended" /\ ~ioError' => Eof(s)
        BY <1>0, <4>1, <4>3 DEF Drained
      <4> QED BY <2>1, <4>2, <4>4, EofStays
    <3> QED BY <2>2, <3>1, <3>2
  <2>4. done' /\ mode' = "capture" => \A s \in Streams : tRead'[s] = "ended"
    <3>1. CASE MonitorDone
      BY <2>1, <3>1 DEF MonitorDone, IoDone, MonitorStays, readVars
    <3>2. CASE ~MonitorDone
      <4>1. UNCHANGED done
        BY <1>2, <3>2 DEF Next, Tree, Proc, ProcWrites, ProcReads, ProcFinishes, ProcEndsEarly, TreeSpawns,
          KidExits, TreeClosesOutput, DoomedDies, TreeStays, Writer, WriterWrites, WriterEnds, Reader,
          ReaderReads, ReaderEnds, ThreadStays, Monitor, MonitorProc, MonitorJob, MonitorAgain, ClockTicks,
          Command, LaunchUnwound, ChildWaitReturns, ChildFree, RunReturns, GivesUp, PumpOnce, PumpStops, PumpAborts,
          PumpReturns, PumpAborted, Script, ChildWait, ChildKill, ChildClose, ScriptReads,
          ScriptClosesStdin, CommandStays, monVars, vars
      <4>2. done => ~\E s \in Streams : ReaderEnds(s)
        BY <1>0 DEF ReaderEnds
      <4> QED BY <2>1, <2>2, <4>1, <4>2 DEF Drained
    <3> QED BY <3>1, <3>2
  <2>7. /\ pumpEof' \in [Streams -> {"no", "end", "failed"}]
        /\ \A s \in Streams : /\ pumpEof[s] # "no" => pumpEof'[s] # "no"
                              /\ pumpEof'[s] = "end" => Eof(s)' /\ life' # "none"
    <3>0. pumpEof \in [Streams -> {"no", "end", "failed"}]
      BY DEF Drained
    <3>1. CASE PumpStops
      <4>1. PICK t \in Streams :
              /\ pumpEof[t] = "no"
              /\ \/ Eof(t) /\ pumpEof' = [pumpEof EXCEPT ![t] = "end"]
                 \/ pumpEof' = [pumpEof EXCEPT ![t] = "failed"]
        BY <3>1 DEF PumpStops
      <4>2. life = "live" /\ life' = "live"
        BY <1>0, <3>1 DEF PumpStops, scriptVars
      <4>3. ASSUME NEW s \in Streams, pumpEof'[s] = "end" PROVE Eof(s)'
        <5>1. Eof(s)
          BY <3>0, <4>1, <4>3 DEF Drained
        <5> QED BY <5>1, <4>2, EofStays
      <4> QED BY <3>0, <4>1, <4>2, <4>3
    <3>2. CASE ~PumpStops
      <4>1. UNCHANGED pumpEof
        BY <1>2, <3>2 DEF Next, Tree, Proc, ProcWrites, ProcReads, ProcFinishes, ProcEndsEarly, TreeSpawns,
          KidExits, TreeClosesOutput, DoomedDies, TreeStays, Writer, WriterWrites, WriterEnds, Reader,
          ReaderReads, ReaderEnds, ThreadStays, Monitor, MonitorProc, MonitorJob, MonitorDone, MonitorAgain,
          ClockTicks, MonitorStays, Command, LaunchUnwound, ChildWaitReturns, ChildFree, RunReturns, PumpOnce,
          PumpAborts, PumpReturns, PumpAborted, Script, ChildWait, ChildKill, ChildClose, ScriptReads,
          ScriptClosesStdin, CommandStays, endVars, vars
      <4>2. ASSUME NEW s \in Streams, pumpEof[s] = "end" PROVE Eof(s)' /\ life' # "none"
        BY <2>1, <4>2, EofStays DEF Drained
      <4> QED BY <3>0, <4>1, <4>2
    <3> QED BY <3>1, <3>2
  <2>5. report'.kind = "final" /\ mode' = "stream" => \A s \in Streams : pumpEof'[s] # "no"
    <3> SUFFICES ASSUME report'.kind = "final", mode' = "stream", NEW s \in Streams PROVE pumpEof'[s] # "no"
      OBVIOUS
    <3>1. mode = "stream"
      BY <2>1
    <3>2. report.kind = "final" \/ PumpReturns
      <4>1. CASE report' = report
        BY <4>1
      <4>2. CASE report' = ErrorReport
        BY <4>2 DEF ErrorReport
      <4>3. CASE report' # report /\ report' # ErrorReport
        BY <1>0, <1>2, <3>1, <4>3 DEF Next, Tree, Proc, ProcWrites, ProcReads, ProcFinishes, ProcEndsEarly,
          TreeSpawns, KidExits, TreeClosesOutput, DoomedDies, TreeStays, Writer, WriterWrites, WriterEnds,
          Reader, ReaderReads, ReaderEnds, ThreadStays, Monitor, MonitorProc, MonitorJob, MonitorDone,
          MonitorAgain, ClockTicks, MonitorStays, Command, LaunchUnwound, ChildWaitReturns, ChildFree,
          RunReturns, GivesUp, PumpOnce, PumpStops, PumpAborts, PumpAborted, Script, ChildWait, ChildKill, ChildClose,
          ScriptReads, ScriptClosesStdin, CommandStays, scriptVars, vars
      <4> QED BY <4>1, <4>2, <4>3
    <3>3. pumpEof[s] # "no"
      BY <3>1, <3>2 DEF PumpReturns, PumpOver, Drained
    <3> QED BY <3>3, <2>7
  <2>6. /\ mode' = "stream" /\ life' = "live" => cmd' \in {"pump", "abort", "close", "unwind"}
        /\ cmd' = "pump" => mode' = "stream"
    BY <1>0, <1>2, <2>1 DEF Next, Tree, Proc, ProcWrites, ProcReads, ProcFinishes, ProcEndsEarly, TreeSpawns,
      KidExits, TreeClosesOutput, DoomedDies, TreeStays, Writer, WriterWrites, WriterEnds, Reader, ReaderReads,
      ReaderEnds, ThreadStays, Monitor, MonitorProc, MonitorJob, MonitorDone, MonitorAgain, ClockTicks,
      MonitorStays, Command, LaunchUnwound, ChildWaitReturns, ChildFree, RunReturns, GivesUp, PumpOnce, PumpStops, PumpAborts,
      PumpReturns, PumpAborted, Script, ChildWait, ChildKill, ChildClose, ScriptReads, ScriptClosesStdin,
      Freed, FreeStarts, CommandStays, scriptVars, vars
  <2> QED BY <2>1, <2>3, <2>4, <2>5, <2>6, <2>7 DEF Drained
<1> QED BY <1>1, <1>2

\* A result that says the process ended by itself is collected before anything kills it.
LEMMA SealedStep == ASSUME IInv, Truth, Kept, Sealed, [Next]_vars PROVE Sealed'
<1> SUFFICES ASSUME report'.kind = "final" PROVE killed' \/ code' # "kill"
  BY DEF Sealed
<1>1. CASE report.kind = "final"
  <2>1. done /\ killed' = killed
    BY <1>1, ReportMoves DEF Kept, IInv, Monitored
  <2>2. ~killed => direct = "exited" /\ code # "kill"
    BY <1>1, <2>1 DEF Truth, Sealed
  <2>3. ASSUME direct = "exited", life # "none" PROVE code' = code
    BY <2>3 DEF Next, Tree, Proc, ProcWrites, ProcReads, ProcFinishes, ProcEndsEarly, TreeSpawns, KidExits,
      TreeClosesOutput, DoomedDies, Writer, WriterWrites, WriterEnds, Reader, ReaderReads, ReaderEnds,
      ThreadStays, Monitor, MonitorProc, MonitorJob, MonitorDone, MonitorAgain, ClockTicks, MonitorStays,
      Command, LaunchUnwound, ChildWaitReturns, ChildFree, RunReturns, GivesUp, PumpOnce, PumpStops, PumpAborts, PumpReturns,
      PumpAborted, Script, ChildStart, RunCmd, ChildStartNoChannels, LaunchFails, Start, Launch, ChildWait,
      ChildKill, ChildClose, ScriptReads, ScriptClosesStdin, CommandStays, treeVars, vars
  <2>4. life # "none"
    BY <2>1 DEF IInv, Started, Monitored
  <2> QED BY <2>1, <2>2, <2>3, <2>4
<1>2. CASE report.kind # "final"
  <2>1. report' # report /\ report' # ErrorReport
    <3>1. ErrorReport.kind = "error"
      BY DEF ErrorReport
    <3> QED BY <1>2, <3>1
  <2>2. ChildWait \/ ChildWaitReturns \/ RunReturns \/ PumpReturns
    BY <2>1 DEF Next, Tree, Proc, ProcWrites, ProcReads, ProcFinishes, ProcEndsEarly, TreeSpawns, KidExits,
      TreeClosesOutput, DoomedDies, TreeStays, Writer, WriterWrites, WriterEnds, Reader, ReaderReads, ReaderEnds,
      ThreadStays, Monitor, MonitorProc, MonitorJob, MonitorDone, MonitorAgain, ClockTicks, MonitorStays,
      Command, LaunchUnwound, ChildFree, PumpOnce, PumpStops, PumpAborts, PumpAborted, GivesUp, Script, ChildStart, RunCmd,
      ChildStartNoChannels, LaunchFails, Start, Launch, ChildKill, ChildClose, ScriptReads,
      ScriptClosesStdin, scriptVars, vars
  <2>3. life = "live" /\ cmd \notin {"close", "unwind"} /\ UNCHANGED <<killed, code>>
    <3>1. cmd # "idle" => life = "live"
      BY DEF IInv, Started
    <3> QED BY <2>2, <3>1 DEF ChildWait, ChildWaitReturns, RunReturns, PumpReturns, CommandStays, treeVars
  <2> QED BY <2>3 DEF Truth
<1> QED BY <1>1, <1>2

\* Together they are inductive.
LEMMA NextCInv == ASSUME IInv, CInv, [Next]_vars PROVE IInv' /\ CInv'
BY NextIInv, TruthStep, KeptStep, FlowStep, DrainedStep, SealedStep DEF CInv

\* A result is made of the facts it was collected with.
LEMMA FinalIs ==
  ASSUME IInv, CInv, report.kind = "final"
  PROVE  done /\ report.status = Status /\ report.exit = exitCode /\ report.out = len
BY DEF IInv, Monitored, CInv, Kept, FinalReport

\* The status child_dict_ex reports is the reason the child ended: ok and error are the exit
\* code of a process that ended by itself, a timeout is a deadline that passed, and a direct
\* process machteld killed is never reported ok or error (VerdictIsTrue).
THEOREM VerdictIsTrueHolds == Spec => []VerdictIsTrue
<1>1. ASSUME IInv, CInv PROVE VerdictIsTrue
  <2> SUFFICES ASSUME report.kind = "final" PROVE VerdictIsTrue
    BY DEF VerdictIsTrue
  <2>1. done /\ report.status = Status
    BY <1>1, FinalIs
  <2>2. /\ timeout => deadline = "spent"
        /\ killed => doomed
        /\ ~killed => exitCode = code /\ direct = "exited" /\ code \in {"ok", "err", "kill"}
    BY <1>1, <2>1 DEF CInv, Truth
  <2>3. ~killed => code # "kill"
    BY <1>1 DEF CInv, Sealed
  <2> QED BY <2>1, <2>2, <2>3 DEF VerdictIsTrue, Status
<1> QED BY <1>1, InitIInv, InitCInv, NextCInv, PTL DEF Spec

\* All the output of the tree is in the result, up to the capture limit, which says where it
\* was cut: reader_thread and child_pump leave nothing in a pipe, unless a read of the pump
\* failed, which it takes for the end of that stream (AllOutputReported).
THEOREM AllOutputReportedHolds == Spec => []AllOutputReported
<1>1. ASSUME IInv, CInv PROVE AllOutputReported
  <2> SUFFICES ASSUME report.kind = "final", NEW s \in Streams
      PROVE  CASE mode \in {"channels", "inherit"} -> report.out[s] = 0
               [] mode = "stream" /\ pumpEof[s] = "failed" -> report.out[s] <= wrote[s]
               [] mode = "stream" /\ pumpEof[s] # "failed" /\ s \in Callbacks -> report.out[s] = wrote[s]
               [] OTHER ->
                    ~ioError => /\ report.out[s] = (IF wrote[s] < CaptureCap THEN wrote[s] ELSE CaptureCap)
                                /\ truncated[s] <=> wrote[s] > CaptureCap
    BY DEF AllOutputReported
  <2>1. done /\ report.out = len
    BY <1>1, FinalIs
  <2>2. /\ mode \in {"capture", "stream", "channels", "inherit"}
        /\ wrote[s] \in Nat /\ pipe[s] \in Nat /\ CaptureCap \in Nat
    BY <1>1, SizesAssumption DEF CInv, Drained, Flow
  <2>3. ASSUME Eof(s) PROVE Taken(s) = wrote[s]
    BY <2>2, <2>3 DEF Eof, Taken
  <2>4. mode = "stream" /\ pumpEof[s] # "failed" => Eof(s)
    BY <1>1 DEF CInv, Drained
  <2>5. mode = "capture" /\ ~ioError => Eof(s)
    BY <1>1, <2>1 DEF CInv, Drained
  <2>6. CASE mode \in {"channels", "inherit"}
    BY <1>1, <2>1, <2>6 DEF CInv, Flow, Zeros
  <2>7. CASE mode = "stream" /\ s \in Callbacks
    <3>1. len[s] = Taken(s)
      BY <1>1, <2>7 DEF CInv, Flow
    <3> QED BY <2>1, <2>2, <2>3, <2>4, <2>7, <3>1 DEF Taken
  <2>8. CASE Captured(s)
    <3>1. /\ len[s] = (IF Taken(s) < CaptureCap THEN Taken(s) ELSE CaptureCap)
          /\ truncated[s] <=> Taken(s) > CaptureCap
      BY <1>1, <2>8 DEF CInv, Flow
    <3> QED BY <2>1, <2>2, <2>3, <2>4, <2>5, <2>8, <3>1 DEF Taken, Captured
  <2> QED BY <2>2, <2>6, <2>7, <2>8 DEF Captured
<1> QED BY <1>1, InitIInv, InitCInv, NextCInv, PTL DEF Spec

\* A collected result is never taken back or changed, and a snapshot of a running child never
\* shows less output than an earlier one (ResultsAreKept).
THEOREM ResultsAreKeptHolds == Spec => ResultsAreKept
<1> DEFINE Stays ==
     /\ report.kind = "final" /\ report'.kind = "final" => report' = report
     /\ report.kind \in {"running", "final"} /\ report'.kind \in {"running", "final"} =>
          \A s \in Streams : report.out[s] <= report'.out[s]
     /\ report.kind = "final" => report'.kind # "running"
<1>1. ASSUME IInv, CInv, [Next]_vars PROVE Stays
  <2>1. IInv' /\ CInv'
    BY <1>1, NextCInv
  <2>2. /\ report.kind = "final" => reaped /\ report = FinalReport /\ report.out = len
        /\ report'.kind = "final" => report' = FinalReport' /\ report'.out = len'
    BY <1>1, <2>1 DEF CInv, Kept, FinalReport
  <2>3. /\ reaped => reaped' /\ UNCHANGED <<timeout, killed, exitCode, len>>
        /\ len \in [Streams -> Nat] /\ len' \in [Streams -> Nat]
        /\ \A s \in Streams : len[s] <= len'[s]
    BY <1>1, ReportMoves DEF CInv, Kept
  <2>4. report.kind = "final" /\ report'.kind = "final" => report' = report
    BY <2>2, <2>3 DEF FinalReport, Status
  <2>5. report.kind = "final" => report'.kind # "running"
    <3>1. CASE report' = report
      BY <3>1
    <3>2. ErrorReport.kind # "running" /\ FinalReport.kind # "running"
      BY DEF ErrorReport, FinalReport
    <3> QED BY <1>1, <2>2, <3>1, <3>2, ReportMoves DEF CInv
  <2>6. ASSUME report.kind = "running", report'.kind \in {"running", "final"}, NEW s \in Streams
        PROVE  report.out[s] <= report'.out[s]
    <3>1. report.out \in [Streams -> Nat] /\ report.out[s] <= len[s]
      BY <1>1, <2>6 DEF CInv, Kept
    <3>2. report' = report \/ report'.out = len \/ report'.out = len'
      <4>1. ErrorReport.kind = "error" /\ RunningReport.out = len /\ FinalReport.out = len
        BY DEF ErrorReport, RunningReport, FinalReport
      <4>2. report' \in {report, ErrorReport, FinalReport, RunningReport}
        BY <1>1, ReportMoves DEF CInv
      <4> QED BY <2>6, <4>1, <4>2
    <3>3. report.out[s] \in Nat /\ len[s] \in Nat /\ len'[s] \in Nat /\ len[s] <= len'[s]
      BY <2>3, <3>1
    <3> QED BY <3>1, <3>2, <3>3
  <2>7. ASSUME report.kind = "final", report'.kind = "final", NEW s \in Streams
        PROVE  report.out[s] <= report'.out[s]
    BY <2>2, <2>3, <2>7
  <2> QED BY <2>4, <2>5, <2>6, <2>7
<1>2. ASSUME IInv, CInv, [Next]_vars PROVE [Stays]_vars
  BY <1>1, <1>2
<1>3. Spec => [](IInv /\ CInv)
  BY InitIInv, InitCInv, NextCInv, PTL DEF Spec
<1> QED BY <1>2, <1>3, PTL DEF Spec, ResultsAreKept
------------------------------------------------------------------------------
(* The promise of ChildPromise. Most steps cannot be told from outside: they leave *)
(* what the script sees of child_t alone. Those that can are one each of the       *)
(* promise's, because no thread is left once done is set, and no command is under   *)
(* way on a child whose result was collected.                                       *)

Seen == <<life, exitCode, done, timeout, killed, len, reaped, report>>

\* What the answers are.
LEMMA AnswersAre ==
  /\ NoReport = Promise!Nothing /\ ErrorReport = Promise!Failure
  /\ RunningReport = Promise!Snapshot
  /\ done => FinalReport = Promise!Result
BY DEF NoReport, ErrorReport, RunningReport, FinalReport, Status, Zeros, Promise!Nothing, Promise!Failure,
  Promise!Snapshot, Promise!Result, Promise!Verdict, Promise!Silence

\* Nothing of a child is seen before its launch.
LEMMA InitIsPromiseInit == Init => Promise!PromiseInit
BY AnswersAre DEF Init, Promise!PromiseInit, Promise!Silence, Zeros

\* A step that moves none of it is a stutter, and so is a change of an exit code nobody can see yet.
LEMMA UnseenIsStutter ==
  ASSUME UNCHANGED <<life, done, timeout, killed, len, reaped, report>>, done => exitCode' = exitCode
  PROVE  UNCHANGED Promise!promiseVars
BY DEF Promise!promiseVars

\* A chunk is one more of the output.
LEMMA ProduceStep ==
  ASSUME NEW s \in Streams, Keep(s) \/ len' = [len EXCEPT ![s] = @ + 1], life \in {"live", "failed", "leaked"}, ~reaped,
         UNCHANGED <<life, exitCode, done, timeout, killed, reaped, report>>
  PROVE  Promise!PromiseNext \/ UNCHANGED Promise!promiseVars
<1>1. CASE len' = [len EXCEPT ![s] = @ + 1]
  BY <1>1 DEF Promise!PromiseNext, Promise!Produce, Promise!Going
<1>2. CASE len' = len
  BY <1>2, UnseenIsStutter
<1> QED BY <1>1, <1>2 DEF Keep

\* The child is killed, before it is over if its time is up.
LEMMA KillStep ==
  ASSUME life \in {"live", "leaked"}, ~reaped, killed' = TRUE,
         timeout' = timeout \/ (~done /\ timeout' = TRUE), done => exitCode' = exitCode,
         UNCHANGED <<life, done, len, reaped, report>>
  PROVE  Promise!PromiseNext
BY DEF Promise!PromiseNext, Promise!Kill, Promise!Going, Promise!Over

\* The facts a step of the promise relies on.
LEMMA PromiseFinds ==
  ASSUME IInv, CInv
  PROVE  /\ exitCode \in {"ok", "err", "kill"}
         /\ done <=> mon = "ended"
         /\ reaped => done
         /\ cmd # "idle" => life = "live" /\ ~reaped
         /\ cmd = "unwind" => ~done
         /\ life = "none" => ~done /\ ~reaped
         /\ mon \in {"proc", "job", "check"} => life \in {"live", "leaked"} /\ ~reaped
         /\ \A s \in Streams : tRead[s] = "running" => life \in {"live", "failed", "leaked"} /\ ~reaped
<1>1. /\ mon \in {"none", "proc", "job", "check", "ended"}
      /\ life \in {"none", "live", "freed", "failed", "leaked"}
      /\ done <=> mon = "ended"
      /\ reaped => done
      /\ life = "none" => mon = "none" /\ ~reaped
      /\ life = "freed" => ThreadsEnded
      /\ life = "failed" => mon = "none"
  BY DEF IInv, Types, Monitored, Started, ReleaseIsClean
<1> QED BY <1>1 DEF IInv, Started, Monitored, DoneMeansOver, ThreadsEnded, CInv, Truth, Kept, Drained

\* The tree does not show.
LEMMA PromiseTree == ASSUME Tree PROVE UNCHANGED Seen
BY DEF Seen, Tree, Proc, ProcWrites, ProcReads, ProcFinishes, ProcEndsEarly, TreeSpawns, KidExits,
  TreeClosesOutput, DoomedDies, TreeStays, scriptVars, readVars, monVars

\* Of the threads, a reader's chunk shows.
LEMMA PromiseThread ==
  ASSUME IInv, CInv, Writer \/ \E s \in Streams : Reader(s)
  PROVE  Promise!PromiseNext \/ UNCHANGED Promise!promiseVars
<1>1. UNCHANGED <<life, exitCode, done, timeout, killed, reaped, report>>
  BY DEF Writer, WriterWrites, WriterEnds, Reader, ReaderReads, ReaderEnds, ThreadStays, scriptVars, monVars
<1>2. len' = len \/ \E s \in Streams : tRead[s] = "running" /\ Keep(s)
  BY DEF Writer, WriterWrites, WriterEnds, Reader, ReaderReads, ReaderEnds, readVars
<1> QED BY <1>1, <1>2, PromiseFinds, ProduceStep, UnseenIsStutter

\* Of the monitor, completion shows, and whatever kills.
LEMMA PromiseMonitor ==
  ASSUME IInv, CInv, Monitor \/ ClockTicks
  PROVE  Promise!PromiseNext \/ UNCHANGED Promise!promiseVars
<1>0. UNCHANGED <<life, len, reaped, report>>
  BY DEF Monitor, MonitorProc, MonitorJob, MonitorDone, MonitorAgain, ClockTicks, MonitorStays, scriptVars, readVars
<1>1. CASE ClockTicks
  BY <1>0, <1>1, UnseenIsStutter DEF ClockTicks
<1>2. CASE Monitor
  <2>0. life \in {"live", "leaked"} /\ ~reaped /\ ~done
    BY <1>2, PromiseFinds DEF Monitor, MonitorProc, MonitorJob, MonitorDone, MonitorAgain
  <2>1. CASE MonitorProc
    <3>1. done' = done /\ timeout' = timeout /\ (killed' = killed \/ killed' = TRUE)
      BY <2>1 DEF MonitorProc
    <3> QED BY <1>0, <2>0, <3>1, KillStep, UnseenIsStutter
  <2>2. CASE MonitorJob
    <3>1. done' = done /\ timeout' = timeout /\ (killed' = killed \/ killed' = TRUE)
      BY <2>2 DEF MonitorJob
    <3> QED BY <1>0, <2>0, <3>1, KillStep, UnseenIsStutter
  <2>3. CASE MonitorDone
    <3>1. done' /\ UNCHANGED <<timeout, killed, exitCode>>
      BY <2>3 DEF MonitorDone
    <3>2. Promise!Finish
      BY <1>0, <2>0, <3>1, PromiseFinds DEF Promise!Finish, Promise!Going, Promise!Over
    <3> QED BY <3>2 DEF Promise!PromiseNext
  <2>4. CASE MonitorAgain
    <3>1. done' = done
      BY <2>4 DEF MonitorAgain
    <3>2. (timeout' = TRUE /\ killed' = TRUE) \/ UNCHANGED <<timeout, killed>>
      BY <2>4 DEF MonitorAgain, DeadlineKills
    <3> QED BY <1>0, <2>0, <3>1, <3>2, KillStep, UnseenIsStutter
  <2> QED BY <1>2, <2>1, <2>2, <2>3, <2>4 DEF Monitor
<1> QED BY <1>1, <1>2

\* A launch begins the child.
LEMMA PromiseLaunch ==
  ASSUME IInv, CInv, ChildStart \/ RunCmd \/ ChildStartNoChannels \/ LaunchFails
  PROVE  Promise!PromiseNext
<1>1. life = "none" /\ life' = "live" /\ UNCHANGED <<exitCode, done, timeout, killed, len, reaped, report>>
  BY DEF ChildStart, RunCmd, ChildStartNoChannels, LaunchFails, Start, Launch
<1>2. Promise!Begin
  BY <1>1 DEF Promise!Begin, Promise!FactsStay
<1> QED BY <1>2 DEF Promise!PromiseNext

\* What Reap does is to collect, with or without a release.
LEMMA CollectStep ==
  ASSUME done, ~reaped, reaped', life = "live", UNCHANGED <<exitCode, done, timeout, killed, len>>,
         \/ life' \in {"live", "freed"} /\ report' \in {FinalReport, ErrorReport}
         \/ life' = "freed" /\ report' = report,
         exitCode \in {"ok", "err", "kill"}
  PROVE  Promise!PromiseNext
<1>1. Promise!Collect
  BY AnswersAre DEF Promise!Collect, Promise!Over, Promise!FactsStay
<1> QED BY <1>1 DEF Promise!PromiseNext

\* An error is answered, and that is all.
LEMMA RefuseStep ==
  ASSUME ~reaped, life = "live", report' = ErrorReport,
         UNCHANGED <<life, exitCode, done, timeout, killed, len, reaped>>
  PROVE  Promise!PromiseNext
<1>1. Promise!Refuse
  BY AnswersAre DEF Promise!Refuse, Promise!FactsStay
<1> QED BY <1>1 DEF Promise!PromiseNext

\* The commands under way.
LEMMA PromiseCommand ==
  ASSUME IInv, CInv, Command
  PROVE  Promise!PromiseNext \/ UNCHANGED Promise!promiseVars
<1>0. life = "live" /\ ~reaped /\ exitCode \in {"ok", "err", "kill"}
  BY PromiseFinds DEF Command, LaunchUnwound, ChildWaitReturns, ChildFree, RunReturns, GivesUp, PumpOnce, PumpStops, PumpAborts,
    PumpReturns, PumpAborted
<1>1. CASE LaunchUnwound
  <2>1. ~done /\ life' = "failed" /\ report' = ErrorReport
        /\ UNCHANGED <<exitCode, done, timeout, killed, len, reaped>>
    BY <1>1, PromiseFinds DEF LaunchUnwound, monVars, readVars
  <2>2. Promise!Fail
    BY <1>0, <2>1, AnswersAre DEF Promise!Fail, Promise!Over, Promise!FactsStay
  <2> QED BY <2>2 DEF Promise!PromiseNext
<1>2. CASE ChildWaitReturns
  <2>1. UNCHANGED <<life, exitCode, done, timeout, killed, len>>
    BY <1>2 DEF ChildWaitReturns, CommandStays, monVars, readVars
  <2>2. CASE Reap(FinalReport)
    BY <1>0, <2>1, <2>2, CollectStep DEF Reap
  <2>3. CASE ReapFails
    BY <1>0, <2>1, <2>3, RefuseStep DEF ReapFails
  <2>4. CASE ~done /\ report' = RunningReport /\ reaped' = reaped
    <3>1. Promise!Watch
      BY <1>0, <2>1, <2>4, AnswersAre DEF Promise!Watch, Promise!Over, Promise!FactsStay
    <3> QED BY <3>1 DEF Promise!PromiseNext
  <2> QED BY <1>2, <2>2, <2>3, <2>4 DEF ChildWaitReturns
<1>3. CASE ChildFree
  <2>1. UNCHANGED <<exitCode, done, timeout, killed, len, report>>
    BY <1>3 DEF ChildFree, CommandStays, monVars, readVars
  <2>2. CASE done /\ reaped' /\ life' = "freed"
    BY <1>0, <2>1, <2>2, CollectStep
  <2>3. CASE life' = "leaked" /\ reaped' = reaped
    <3>1. Promise!Leak
      BY <1>0, <2>1, <2>3 DEF Promise!Leak, Promise!FactsStay
    <3> QED BY <3>1 DEF Promise!PromiseNext
  <2> QED BY <1>3, <2>2, <2>3 DEF ChildFree, Freed
<1>4. CASE RunReturns
  <2>1. UNCHANGED <<exitCode, done, timeout, killed, len>>
    BY <1>4 DEF RunReturns, GivesUp, TerminateOrClose, CommandStays, monVars, readVars
  <2>2. CASE Reap(FinalReport) /\ life' = "freed"
    BY <1>0, <2>1, <2>2, CollectStep DEF Reap
  <2>3. CASE report' = ErrorReport /\ UNCHANGED <<life, reaped>>
    BY <1>0, <2>1, <2>3, RefuseStep
  <2> QED BY <1>4, <2>2, <2>3 DEF RunReturns, GivesUp, TerminateOrClose, Freed
<1>5. CASE PumpOnce
  <2>1. UNCHANGED <<life, exitCode, done, timeout, killed, reaped, report>>
    BY <1>5 DEF PumpOnce, scriptVars, monVars
  <2>2. \E s \in Streams : Keep(s) \/ len' = [len EXCEPT ![s] = @ + 1]
    BY <1>5 DEF PumpOnce
  <2> QED BY <1>0, <2>1, <2>2, ProduceStep
<1>6. CASE PumpAborts
  BY <1>0, <1>6, KillStep DEF PumpAborts, monVars, readVars
<1>7. CASE PumpReturns
  <2>1. UNCHANGED <<exitCode, done, timeout, killed, len>>
    BY <1>7 DEF PumpReturns, CommandStays, monVars, readVars
  <2>2. CASE (Reap(FinalReport) \/ Reap(ErrorReport)) /\ life' = "freed"
    BY <1>0, <2>1, <2>2, CollectStep DEF Reap
  <2>3. CASE report' = ErrorReport /\ UNCHANGED <<life, reaped>>
    BY <1>0, <2>1, <2>3, RefuseStep
  <2> QED BY <1>7, <2>2, <2>3 DEF PumpReturns, GivesUp, Freed
<1>8. CASE PumpAborted
  <2>1. UNCHANGED <<exitCode, done, timeout, killed, len>> /\ report' = ErrorReport
    BY <1>8 DEF PumpAborted, GivesUp, TerminateOrClose, CommandStays, monVars, readVars
  <2>2. CASE done /\ reaped' /\ life' = "freed"
    BY <1>0, <2>1, <2>2, CollectStep
  <2>3. CASE UNCHANGED <<life, reaped>>
    BY <1>0, <2>1, <2>3, RefuseStep
  <2> QED BY <1>8, <2>2, <2>3 DEF PumpAborted, GivesUp, TerminateOrClose, Freed
<1>9. CASE PumpStops
  <2>1. UNCHANGED <<life, exitCode, done, timeout, killed, len, reaped, report>>
    BY <1>9 DEF PumpStops, scriptVars, monVars, readVars
  <2> QED BY <2>1, UnseenIsStutter
<1> QED BY <1>1, <1>2, <1>3, <1>4, <1>5, <1>6, <1>7, <1>8, <1>9 DEF Command

\* The commands that come at once.
LEMMA PromiseScript ==
  ASSUME IInv, CInv, ChildWait \/ ChildKill \/ ChildClose \/ ScriptReads \/ ScriptClosesStdin
  PROVE  Promise!PromiseNext \/ UNCHANGED Promise!promiseVars
<1>0. life = "live" /\ UNCHANGED <<exitCode, done, timeout, len>>
  BY DEF ChildWait, ChildKill, ChildClose, ScriptReads, ScriptClosesStdin, CommandStays, monVars, readVars
<1>1. CASE ChildWait
  <2>1. UNCHANGED <<life, killed, reaped>>
    BY <1>1 DEF ChildWait
  <2>2. CASE reaped /\ report' = FinalReport
    <3>1. Promise!Again
      BY <1>0, <2>1, <2>2, AnswersAre, PromiseFinds DEF Promise!Again, Promise!FactsStay
    <3> QED BY <3>1 DEF Promise!PromiseNext
  <2>3. CASE report' = report
    BY <1>0, <2>1, <2>3, UnseenIsStutter
  <2> QED BY <1>1, <2>2, <2>3 DEF ChildWait
<1>2. CASE ChildKill
  <2>1. UNCHANGED <<life, report, reaped>> /\ ~reaped /\ (killed' = TRUE \/ killed' = killed)
    BY <1>2 DEF ChildKill
  <2> QED BY <1>0, <2>1, KillStep, UnseenIsStutter
<1>3. CASE ChildClose
  <2>1. UNCHANGED <<report, killed, reaped>>
    BY <1>3 DEF ChildClose, FreeStarts
  <2>2. CASE reaped /\ life' = "freed"
    <3>1. Promise!Release
      BY <1>0, <2>1, <2>2 DEF Promise!Release, Promise!FactsStay
    <3> QED BY <3>1 DEF Promise!PromiseNext
  <2>3. CASE life' = life
    BY <1>0, <2>1, <2>3, UnseenIsStutter
  <2> QED BY <1>3, <2>2, <2>3 DEF ChildClose, Freed, FreeStarts
<1>4. CASE ScriptReads \/ ScriptClosesStdin
  BY <1>0, <1>4, UnseenIsStutter DEF ScriptReads, ScriptClosesStdin, scriptVars
<1> QED BY <1>1, <1>2, <1>3, <1>4

\* Every step is one of those.
LEMMA StepIsPromiseStep ==
  ASSUME IInv, CInv, [Next]_vars
  PROVE  Promise!PromiseNext \/ UNCHANGED Promise!promiseVars
<1>1. CASE Tree \/ UNCHANGED vars
  <2>1. UNCHANGED Seen
    BY <1>1, PromiseTree DEF vars, scriptVars, monVars, readVars, Seen
  <2> QED BY <2>1, UnseenIsStutter DEF Seen
<1> QED BY <1>1, PromiseThread, PromiseMonitor, PromiseLaunch, PromiseCommand, PromiseScript DEF Next, Script

\* run and child keep the promise of ChildPromise, whatever the tree, its threads and the script
\* do and whichever calls fail: one exit, one collection, and no kill or deadline that comes too
\* late changes an answer (child_monitor_thread, child_reap, child_free, ChildCmd).
THEOREM ChildImplementsPromise == Spec => ImplementsPromise
<1>1. IInv /\ CInv /\ [Next]_vars => [Promise!PromiseNext]_Promise!promiseVars
  BY StepIsPromiseStep
<1> QED
  BY <1>1, InitIsPromiseInit, InitIInv, InitCInv, NextCInv, PTL
  DEF Spec, ImplementsPromise, Promise!PromiseSpec
==============================================================================
