---------------------------- MODULE LaunchProofs ----------------------------
(* Every launch is born right, leaves nothing behind and hands on the arguments  *)
(* it was given: NeverLoose, NothingLeftBehind, ArgumentsArrive and BatchIsInert  *)
(* hold for every set of requests. None is inductive: what CreateProcessW hands   *)
(* over was settled steps before, and a cleanup closes what its caller names: that *)
(* this is what is held takes that what is held is what the variables name, and   *)
(* that no two of them name one handle.                                           *)
EXTENDS Launch, SequenceTheorems, TLAPS

Names == {list[i][1] : i \in DOMAIN list}
Duplicates == ToSet(req.io) \X (1 .. 3)
Expected == IF req.kind = "pty" THEN {} ELSE ToSet(req.io)
BeforeDup == {"stdio", "job", "limits", "checks", "line"}
BeforeCreate == BeforeDup \cup {"dup", "attributes", "create"}

\* No process before its creation.
NotYet == pc \in BeforeCreate => state = "none"
\* The job is open and kills from wj_job_new on, as long as machteld runs.
JobIsReady ==
  us /\ Supervised /\ pc \in BeforeCreate \ {"stdio", "job"} => job = "open" /\ kill
\* The list of duplicates grows stream by stream, and is complete at the creation.
ListGrows ==
  /\ pc \in BeforeCreate => list \in Seq(Duplicates)
  /\ pc \in BeforeDup => list = <<>> /\ slot = 1
  /\ pc = "dup" => /\ req.kind # "pty" /\ slot \in 1 .. 3
                   /\ Names = {req.io[k] : k \in 1 .. slot - 1}
  /\ pc \in {"attributes", "create"} => Names = Expected
\* Only a detached process is ever suspended, and it is resumed outside of every job.
Detached == /\ state = "suspended" \/ pc \in {"verify", "resume", "giveup"} => ~Supervised
            /\ us /\ pc \in {"verify", "resume"} => state \in {"suspended", "dead"}
            /\ pc = "resume" => jobs = {}
IInv == /\ req \in Requests /\ NotYet /\ JobIsReady /\ ListGrows /\ Detached /\ NeverLoose
------------------------------------------------------------------------------
LEMMA InitIInv == Init => IInv
  BY DEF Init, IInv, NotYet, JobIsReady, ListGrows, Detached, NeverLoose, BeforeDup,
         BeforeCreate, Duplicates, Alive

\* The names listed after a stream is served are those of the streams so far.
LEMMA OneMoreStream ==
  ASSUME IInv, pc = "dup"
  PROVE  /\ Listed(slot) \in Seq(Duplicates)
         /\ {Listed(slot)[i][1] : i \in DOMAIN Listed(slot)} = {req.io[k] : k \in 1 .. slot}
<1>1. /\ list \in Seq(Duplicates) /\ slot \in 1 .. 3
      /\ Names = {req.io[k] : k \in 1 .. slot - 1} /\ DOMAIN req.io = 1 .. 3
  BY RequestAssumption DEF IInv, ListGrows, BeforeCreate, BeforeDup
<1>2. {req.io[k] : k \in 1 .. slot} = {req.io[k] : k \in 1 .. slot - 1} \cup {req.io[slot]}
  BY <1>1
<1>3. CASE SharedWith(slot)
  BY <1>1, <1>2, <1>3 DEF SharedWith, Listed, Names
<1>4. CASE ~SharedWith(slot)
  <2>1. <<req.io[slot], slot>> \in Duplicates
    BY <1>1 DEF Duplicates, ToSet
  <2>2. Listed(slot) = Append(list, <<req.io[slot], slot>>)
    BY <1>4 DEF Listed
  <2>3. Listed(slot) \in Seq(Duplicates)
    BY <1>1, <2>1, <2>2
  <2>4. {Listed(slot)[i][1] : i \in DOMAIN Listed(slot)} = Names \cup {req.io[slot]}
    <3>1. DOMAIN Listed(slot) = 1 .. Len(list) + 1 /\ DOMAIN list = 1 .. Len(list)
          /\ Len(list) \in Nat
      BY <1>1, <2>1, <2>2
    <3>2. \A i \in 1 .. Len(list) : Listed(slot)[i] = list[i]
      BY <1>1, <2>1, <2>2
    <3>3. Listed(slot)[Len(list) + 1] = <<req.io[slot], slot>>
      BY <1>1, <2>1, <2>2
    <3> QED
      BY <3>1, <3>2, <3>3 DEF Names
  <2> QED
    BY <1>1, <1>2, <2>3, <2>4
<1> QED
  BY <1>3, <1>4

\* Up to the creation there is no process, and the handles of the list are settled.
LEMMA PrepareStep ==
  ASSUME IInv, Stdio \/ JobNew \/ SetLimits \/ Checks \/ MakeLine \/ Attributes
  PROVE  IInv'
  BY DEF IInv, NotYet, JobIsReady, ListGrows, Detached, NeverLoose, BeforeDup, BeforeCreate,
         Duplicates, Names, Expected, Alive, Supervised, Step, Stdio, JobNew, SetLimits,
         KillFlag, Checks, MakeLine, Attributes, locals, handles, process

LEMMA DupStep == ASSUME IInv, Dup PROVE IInv'
<1>1. pc = "dup" /\ req.kind # "pty" /\ slot \in 1 .. 3 /\ state = "none"
      /\ DOMAIN req.io = 1 .. 3 /\ req' = req
  BY RequestAssumption DEF IInv, NotYet, ListGrows, BeforeDup, BeforeCreate, Dup, Step
<1>2. CASE pc' = "cleanup"
  BY <1>1, <1>2 DEF IInv, NotYet, JobIsReady, ListGrows, Detached, NeverLoose, BeforeDup,
     BeforeCreate, Alive, Supervised, Dup, Step, process
<1>3. CASE pc' # "cleanup"
  <2>1. list' = Listed(slot) /\ slot' = slot + 1
        /\ pc' = IF slot = 3 THEN "attributes" ELSE "dup"
    BY <1>3 DEF Dup, Step
  <2>2. list' \in Seq(Duplicates') /\ Names' = {req.io[k] : k \in 1 .. slot}
    BY <1>1, <2>1, OneMoreStream DEF Names, Duplicates
  <2>3. slot = 3 => Names' = Expected'
    BY <1>1, <2>2 DEF Expected, ToSet
  <2>4. ListGrows'
    BY <1>1, <2>1, <2>2, <2>3 DEF ListGrows, BeforeDup, BeforeCreate
  <2> QED
    BY <1>1, <2>1, <2>4 DEF IInv, NotYet, JobIsReady, Detached, NeverLoose, BeforeDup,
       BeforeCreate, Alive, Supervised, Dup, Step, process
<1> QED
  BY <1>2, <1>3

LEMMA CreateStep == ASSUME IInv, Create PROVE IInv'
<1>1. pc = "create" /\ state = "none" /\ us /\ Names = Expected /\ req' = req /\ us' = us
      /\ (Supervised => job = "open" /\ kill)
  BY DEF IInv, NotYet, JobIsReady, ListGrows, BeforeDup, BeforeCreate, Create, Step
<1>2. CASE pc' = "cleanup"
  BY <1>1, <1>2 DEF IInv, NotYet, JobIsReady, ListGrows, Detached, NeverLoose, BeforeDup,
     BeforeCreate, Alive, Supervised, Create, Step, process
<1>3. CASE pc' # "cleanup"
  <2>1. /\ jobs' = BornInto /\ given' = Expected /\ job' = job /\ kill' = kill
        /\ pc' = (IF Supervised THEN "close" ELSE "verify")
        /\ state' = (IF Supervised THEN "running" ELSE "suspended")
    BY <1>1, <1>3 DEF Create, Step, Names
  <2>2. Supervised => {"root", "own"} \subseteq jobs'
    BY <2>1 DEF BornInto
  <2> QED
    BY <1>1, <2>1, <2>2 DEF IInv, NotYet, JobIsReady, ListGrows, Detached, NeverLoose,
       BeforeDup, BeforeCreate, Alive, Supervised, Expected
<1> QED
  BY <1>2, <1>3

LEMMA VerifyStep == ASSUME IInv, Verify \/ Resume PROVE IInv'
<1>1. /\ pc \in {"verify", "resume"} /\ us' = us /\ us /\ req' = req /\ ~Supervised
      /\ pc' \in {"resume", "close", "giveup"} /\ (pc' = "resume" => jobs = {})
      /\ jobs' = jobs /\ given' = given /\ job' = job /\ kill' = kill
  BY DEF IInv, Detached, Verify, Resume, Step, BrokeAway
<1>2. /\ pc = "resume" => jobs = {}
      /\ state \in {"suspended", "dead"} /\ state' \in {state, "running", "dead"}
      /\ (pc' = "resume" => state' = state)
      /\ state' = "running" => pc = "resume" /\ state = "suspended"
  BY DEF IInv, Detached, Verify, Resume, Step, Doomed, Alive
<1>3. NeverLoose'
  BY <1>1, <1>2 DEF IInv, NeverLoose, Alive, Supervised
<1>4. Detached'
  BY <1>1, <1>2 DEF Detached, Supervised
<1> QED
  BY <1>1, <1>3, <1>4 DEF IInv, NotYet, JobIsReady, ListGrows, BeforeDup, BeforeCreate,
     Supervised

\* What only closes and opens handles, after the creation.
LEMMA ReturnStep ==
  ASSUME IInv, \/ GiveUp \/ Launched \/ Cleanup \/ After \/ Serve \/ Wait \/ CloseChannels \/ FreeReaps
  PROVE  IInv'
<1>1. /\ req' = req /\ us' = us /\ job' = job /\ kill' = kill
      /\ state' = state /\ jobs' = jobs /\ given' = given
      /\ pc' \notin BeforeCreate \cup {"verify", "resume", "giveup"}
  BY DEF GiveUp, Launched, Cleanup, After, Serve, Makes, Readers, Input, Writer, Event, Handover, Wait,
         CloseChannels, FreeReaps, Reap, Step, process, BeforeCreate, BeforeDup
<1> QED
  BY <1>1 DEF IInv, NotYet, JobIsReady, ListGrows, Detached, NeverLoose, BeforeDup,
     BeforeCreate, Alive, Supervised
LEMMA BesideStep == ASSUME IInv, WriterEnds \/ ScriptCloses PROVE IInv'
  BY DEF WriterEnds, ScriptCloses, process, locals, IInv, NotYet, JobIsReady, ListGrows, Detached,
         NeverLoose, BeforeDup, BeforeCreate, Duplicates, Names, Expected, Alive, Supervised

\* Terminated or closed, the job takes its processes with it.
LEMMA EndStep ==
  ASSUME IInv, Unwind \/ FreeKills \/ Freed \/ PtyFree \/ ProcessEnds \/ MachteldEnds
  PROVE  IInv'
<1>1. CASE Unwind \/ FreeKills \/ Freed \/ PtyFree
  <2>1. \E terminated, closed \in BOOLEAN : (terminated \/ closed) /\ EndJob(terminated, closed)
    BY <1>1 DEF Unwind, FreeKills, Freed, PtyFree
  <2>2. PICK terminated, closed \in BOOLEAN : (terminated \/ closed) /\ EndJob(terminated, closed)
    BY <2>1
  <2>3. /\ req' = req /\ us' = us /\ kill' = kill /\ jobs' = jobs /\ given' = given
        /\ pc' \in {"done", "ending", "over"}
    BY <1>1, <2>2 DEF Unwind, FreeKills, Freed, PtyFree, Step, EndJob
  <2>4. Alive' /\ Supervised' => FALSE
    BY <2>2, <2>3 DEF IInv, NeverLoose, EndJob, Alive, Supervised
  <2>5. state' = state \/ state' = "dead"
    BY <2>2 DEF EndJob
  <2> QED
    BY <2>3, <2>4, <2>5 DEF IInv, NotYet, JobIsReady, ListGrows, Detached, NeverLoose,
       BeforeDup, BeforeCreate, Alive, Supervised
<1>2. CASE ProcessEnds
  BY <1>2 DEF IInv, NotYet, JobIsReady, ListGrows, Detached, NeverLoose, BeforeDup,
     BeforeCreate, Duplicates, Names, Expected, Alive, Supervised, ProcessEnds, locals
<1>3. CASE MachteldEnds
  <2>1. /\ us' = FALSE /\ req' = req /\ pc' = pc /\ kill' = kill /\ jobs' = jobs
        /\ given' = given /\ list' = list /\ slot' = slot
        /\ (state' = state \/ (state' = "dead" /\ Alive))
    BY <1>3 DEF MachteldEnds, locals
  <2>2. Alive' /\ Supervised' => FALSE
    BY <1>3, <2>1 DEF IInv, NeverLoose, MachteldEnds, Alive, Supervised
  <2>3. NeverLoose'
    BY <2>1, <2>2 DEF IInv, NeverLoose, Alive, Supervised
  <2>4. NotYet' /\ ListGrows'
    BY <2>1 DEF IInv, NotYet, ListGrows, Names, Expected, Duplicates, Alive, BeforeDup,
       BeforeCreate
  <2> QED
    BY <2>1, <2>3, <2>4 DEF IInv, NotYet, JobIsReady, Detached, Supervised
<1> QED
  BY <1>1, <1>2, <1>3

LEMMA IInvStep == IInv /\ [Next]_vars => IInv'
<1> SUFFICES ASSUME IInv, [Next]_vars PROVE IInv'
  OBVIOUS
<1>1. CASE Next
  BY <1>1, PrepareStep, DupStep, CreateStep, VerifyStep, ReturnStep, BesideStep, EndStep
     DEF Next, Caller, Release, BothLaunchers, StdioLauncher, Surroundings
<1>2. CASE UNCHANGED vars
  BY <1>2 DEF IInv, NotYet, JobIsReady, ListGrows, Detached, NeverLoose, BeforeDup,
     BeforeCreate, Duplicates, Names, Expected, Alive, Supervised, vars, locals, handles, process
<1> QED
  BY <1>1, <1>2

\* Whatever is asked for and whatever fails, a supervised process lives only inside
\* its two open jobs and while machteld runs, a detached one runs only outside of
\* every job, and both inherit exactly the handles meant for them (wj_launch,
\* wj_launch_pty, wj_job_set_limits).
THEOREM NeverLooseHolds == Spec => []NeverLoose
<1>1. IInv => NeverLoose
  BY DEF IInv
<1> QED
  BY <1>1, InitIInv, IInvStep, PTL DEF Spec
------------------------------------------------------------------------------
(* What is held is what the variables name, and the duplicates: no two variables *)
(* that are set name one handle, and the step of the launch says which are set.  *)

Child == req.kind \in {"capture", "inherit"}
Start == CASE req.kind = "capture" -> {"outR", "outW", "errR", "errW"}
                \cup (IF req.input = "nul" THEN {"nul"} ELSE {"stdinR", "stdinW"})
           [] req.kind = "pty" -> {"inW", "outR", "hpc"}
           [] OTHER -> IF "nul" \in ToSet(req.io) THEN {"nul"} ELSE {}
Creating == {"job", "limits", "checks", "line", "dup", "attributes", "create"}
Threads == IF req.stream \/ req.input = "channels" THEN {} ELSE {"tOut", "tErr"}
Piped == IF req.input = "nul" THEN {} ELSE {"stdinW"}
\* What is set when the completion event is made.
Fed == IF req.kind = "inherit" THEN {"proc"}
       ELSE {"outR", "errR", "proc"} \cup Threads
              \cup (CASE req.input = "channels" -> {"c.inW"} [] req.input = "bytes" -> {"tIn", "wi.write"}
                      [] OTHER -> {})
\* What others may close meanwhile.
Theirs == {"wi.write"} \cup Channels
About(V) == own \subseteq V /\ V \ own \subseteq Theirs
\* What may be left where a call failed, and where the child is freed.
MostUnwound ==
  CASE req.kind = "pty" -> {"inR", "outW", "inW", "outR", "hpc"} [] req.kind = "detach" -> {"nul"}
    [] OTHER -> {"outW", "errW", "nul", "stdinR", "stdinW", "tIn", "tOut", "tErr",
                 "proc", "doneEv", "outR", "errR", "c.inW", "wi.write"}
MostFreed == {"c.inW", "wi.write", "outR", "errR", "tOut", "tErr", "tIn", "monitor", "doneEv", "proc"}
OwnKnown ==
  /\ pc = "stdio" => own = {}
  /\ pc \in Creating => own = Start
  /\ pc \in {"verify", "resume", "giveup", "close"} => own = Start \cup {"thread", "proc"}
  /\ pc \in {"cleanup", "after"} => own = Start \cup (IF rc = "ok" THEN {"proc"} ELSE {})
  /\ pc = "readers" => own = {"outR", "errR", "proc"} \cup Piped
  /\ pc = "input" => own = {"outR", "errR", "proc"} \cup Threads \cup Piped
  /\ pc = "writer" => About({"outR", "errR", "proc"} \cup Threads \cup {"wi.write"})
  /\ pc = "event" => About(Fed)
  /\ pc = "handover" => own = {"outR", "errR", "proc", "c.inW", "doneEv", "monitor"}
  /\ pc = "done" /\ rc = "ok" => About(Kept)
  /\ pc = "done" /\ rc = "error" => own \subseteq {"wi.write"} /\ (own # {} => missed)
  /\ pc = "unwind" => own \subseteq MostUnwound
  /\ pc \in {"free", "ending"} => own \subseteq MostFreed
  /\ pc = "reaped" => own \subseteq Channels
  /\ pc = "freed" => own \subseteq {"c.inW"}
  /\ pc = "over" => own = {}
\* No two variables name one handle.
Apart == \A v, w \in own : Handle(v) = Handle(w) => v = w
Held == held = Handles(own) \cup ToSet(list)
\* Each duplicate is made for a stream of its own.
ListOnce ==
  /\ list \in Seq(Duplicates)
  /\ \A i \in DOMAIN list : pc \in BeforeCreate => list[i][2] < slot
  /\ \A i, j \in DOMAIN list : list[i][2] = list[j][2] => i = j
  /\ pc \notin {"dup", "attributes", "create", "verify", "resume", "giveup", "close", "cleanup"} => list = <<>>
Serving == {"readers", "input", "writer", "event", "handover"}
Freeing == {"reaped", "free", "ending", "freed", "left"}
Steps == BeforeCreate \cup {"verify", "resume", "giveup", "close", "cleanup", "after", "unwind", "done", "over"}
           \cup Serving \cup Freeing
ResultKnown ==
  /\ pc \in Steps /\ rc \in {"none", "ok", "error"}
  /\ pc \in BeforeCreate \cup {"verify", "resume", "giveup", "close"} => rc = "none"
  /\ pc = "cleanup" => rc # "error"
  /\ pc \in {"after", "reaped"} \cup Serving => rc = "ok"
  /\ pc = "unwind" => rc # "error" /\ (rc = "ok" => Child)
  /\ pc = "done" => rc # "none"
  /\ pc \in Serving \ {"event"} => req.kind = "capture"
  /\ pc = "writer" => req.input = "bytes"
  /\ pc = "handover" => req.input = "channels"
  /\ pc \in Freeing \cup {"event"} => Child
  /\ pc = "over" => Supervised
\* A launch that goes well has a process, one that fails has none or a dead one, but
\* for the detached one that could be neither terminated nor waited for.
Loose == Alive => missed /\ ~Supervised
ProcessKnown ==
  /\ pc = "close" \/ rc = "ok" => state \in {"running", "dead"}
  /\ pc \in {"cleanup", "unwind"} /\ rc = "none" => Loose
  /\ (pc = "done" /\ rc = "error") \/ pc = "over" => Loose /\ job # "open"
LInv == ~bad /\ (us => OwnKnown /\ Apart /\ Held /\ ListOnce /\ ResultKnown /\ ProcessKnown)

\* A family of different handles, all of them held, is closed.
LEMMA ClosesAll ==
  ASSUME NEW h, Close(h), IsInjective(h), Range(h) \subseteq held, ~bad
  PROVE  ~bad' /\ held' = held \ Range(h)
BY DEF Close

\* The handles of variables that are set, none of which is a duplicate.
LEMMA ClosesOf ==
  ASSUME NEW V \in SUBSET own, Apart, Held, list \in Seq(Duplicates), ~bad, CloseOf(V)
  PROVE  ~bad' /\ held' = Handles(own \ V) \cup ToSet(list)
<1> DEFINE h == [v \in V |-> <<Handle(v), 0>>]
<1>1. DOMAIN h = V /\ \A v \in V : h[v] = <<Handle(v), 0>>
  OBVIOUS
<1>2. Close(h)
  BY DEF CloseOf
<1> HIDE DEF h
<1>3. IsInjective(h)
  BY <1>1 DEF IsInjective, Apart
<1>4. Range(h) = Handles(V)
  BY <1>1 DEF Range, Handles
<1>5. Range(h) \subseteq held
  BY <1>4 DEF Handles, Held
<1>6. ~bad' /\ held' = held \ Handles(V)
  BY <1>2, <1>3, <1>4, <1>5, ClosesAll
<1>7. ToSet(list) \cap Handles(V) = {}
  BY DEF ToSet, Duplicates, Handles
<1>8. Handles(own) \ Handles(V) = Handles(own \ V)
  BY DEF Handles, Apart
<1> QED BY <1>6, <1>7, <1>8 DEF Held

LEMMA ClosesSet ==
  ASSUME NEW V, Apart, Held, list \in Seq(Duplicates), ~bad, CloseSet(V), list' = list
  PROVE  ~bad' /\ Held' /\ Apart' /\ own' = own \ V
<1>1. CloseOf(own \cap V) /\ own' = own \ V /\ own \ (own \cap V) = own \ V
  BY DEF CloseSet
<1>2. ~bad' /\ held' = Handles(own \ V) \cup ToSet(list)
  BY <1>1, ClosesOf
<1>3. Handles(own)' = Handles(own') /\ ToSet(list)' = ToSet(list)
  BY DEF Handles, Handle
<1> QED BY <1>1, <1>2, <1>3 DEF Held, Apart, Handle

LEMMA Opens2 ==
  ASSUME NEW V, Held, ~bad, Open(V), list' = list
  PROVE  ~bad' /\ Held' /\ own' = own \cup V
<1>1. Handles(own \cup V) = Handles(own) \cup Handles(V)
  BY DEF Handles
<1>2. Handles(own)' = Handles(own') /\ ToSet(list)' = ToSet(list)
  BY DEF Handles, Handle
<1> QED BY <1>1, <1>2 DEF Held, Open

\* Variables of these kinds never share a handle.
LEMMA NeverShared ==
  /\ \A V : V \subseteq {"outR", "outW", "errR", "errW", "nul", "stdinR", "stdinW", "inR", "inW", "hpc",
                         "thread", "proc", "tIn", "tOut", "tErr", "doneEv", "monitor"}
              => \A v, w \in V : Handle(v) = Handle(w) => v = w
  /\ \A V : V \subseteq {"outR", "errR", "c.inW", "proc", "tIn", "tOut", "tErr", "doneEv", "monitor"}
              => \A v, w \in V : Handle(v) = Handle(w) => v = w
  /\ \A V : V \subseteq {"outR", "errR", "wi.write", "proc", "tIn", "tOut", "tErr", "doneEv", "monitor"}
              => \A v, w \in V : Handle(v) = Handle(w) => v = w
  /\ \A V : V \subseteq Channels \cup {"proc", "doneEv", "monitor"}
              => \A v, w \in V : Handle(v) = Handle(w) => v = w
  BY DEF Handle, Channels

LEMMA SameRequest ==
  ASSUME req' = req
  PROVE  /\ Start' = Start /\ Threads' = Threads /\ Piped' = Piped /\ Fed' = Fed /\ Kept' = Kept
         /\ MostUnwound' = MostUnwound /\ Child' = Child /\ Supervised' = Supervised
         /\ Duplicates' = Duplicates
  BY DEF Start, Threads, Piped, Fed, Kept, MostUnwound, Child, Supervised, Duplicates

\* What a request opens, all of it and until a call fails.
LEMMA OpensAre ==
  ASSUME req \in Requests
  PROVE  /\ Opened(Len(Opens)) \ (IF req.kind = "pty" THEN {"inR", "outW"} ELSE {}) = Start
         /\ \A n \in 1 .. Len(Opens) : Opened(n - 1) \subseteq MostUnwound
<1>0. req.kind \in Kinds
  BY RequestAssumption
<1>1. CASE req.kind = "capture"
  <2> DEFINE last == IF req.input = "nul" THEN {"nul"} ELSE {"stdinR", "stdinW"}
  <2>1. Opens = <<{"outR", "outW"}, {"errR", "errW"}, last>>
    BY <1>1 DEF Opens
  <2> HIDE DEF last
  <2>2. Len(Opens) = 3 /\ Opens[1] = {"outR", "outW"} /\ Opens[2] = {"errR", "errW"} /\ Opens[3] = last
    BY <2>1
  <2>3. 1 .. 3 = {1, 2, 3}
    OBVIOUS
  <2>4. Opened(3) = Opens[1] \cup Opens[2] \cup Opens[3]
    BY <2>3 DEF Opened
  <2>5. Opened(Len(Opens)) = Start /\ req.kind # "pty"
    BY <1>1, <2>2, <2>4 DEF Start, last
  <2>6. \A n \in 1 .. 3 : \A i \in 1 .. n - 1 : i = 1 \/ i = 2
    OBVIOUS
  <2>7. \A n \in 1 .. 3 : Opened(n - 1) \subseteq Opens[1] \cup Opens[2]
    BY <2>6 DEF Opened
  <2> QED BY <1>1, <2>2, <2>5, <2>7 DEF MostUnwound
<1>2. CASE req.kind = "pty"
  <2>1. Opens = <<{"inR", "inW"}, {"outR", "outW"}, {"hpc"}>>
    BY <1>2 DEF Opens
  <2>2. Len(Opens) = 3 /\ Opens[1] = {"inR", "inW"} /\ Opens[2] = {"outR", "outW"} /\ Opens[3] = {"hpc"}
    BY <2>1
  <2>3. 1 .. 3 = {1, 2, 3}
    OBVIOUS
  <2>4. Opened(3) = Opens[1] \cup Opens[2] \cup Opens[3]
    BY <2>3 DEF Opened
  <2>5. Opened(Len(Opens)) = {"inR", "inW", "outR", "outW", "hpc"}
    BY <2>2, <2>4
  <2>6. \A n \in 1 .. 3 : \A i \in 1 .. n - 1 : i = 1 \/ i = 2
    OBVIOUS
  <2>7. \A n \in 1 .. 3 : Opened(n - 1) \subseteq Opens[1] \cup Opens[2]
    BY <2>6 DEF Opened
  <2> QED BY <1>2, <2>2, <2>5, <2>7 DEF MostUnwound, Start
<1>3. CASE req.kind \in {"inherit", "detach"} /\ "nul" \in ToSet(req.io)
  <2>1. Opens = <<{"nul"}>>
    BY <1>3 DEF Opens
  <2>2. Len(Opens) = 1 /\ Opens[1] = {"nul"} /\ 1 .. 1 = {1} /\ \A n \in 1 .. 1 : 1 .. n - 1 = {}
    BY <2>1
  <2>3. Opened(Len(Opens)) = {"nul"} /\ \A n \in 1 .. 1 : Opened(n - 1) = {}
    BY <2>2 DEF Opened
  <2> QED BY <1>3, <2>2, <2>3 DEF Start
<1>4. CASE req.kind \in {"inherit", "detach"} /\ "nul" \notin ToSet(req.io)
  <2>1. Opens = <<>>
    BY <1>4 DEF Opens
  <2>2. Len(Opens) = 0 /\ 1 .. 0 = {}
    BY <2>1
  <2>3. Opened(Len(Opens)) = {}
    BY <2>2 DEF Opened
  <2> QED BY <1>4, <2>2, <2>3 DEF Start
<1> QED BY <1>0, <1>1, <1>2, <1>3, <1>4 DEF Kinds

\* What a launch starts with is safe to close, and may be all that is left.
LEMMA StartIs ==
  ASSUME req \in Requests
  PROVE  /\ Start \subseteq MostUnwound
         /\ Start \subseteq {"outR", "outW", "errR", "errW", "nul", "stdinR", "stdinW", "inW", "hpc"}
         /\ MostUnwound \subseteq {"inR", "outW", "inW", "outR", "hpc", "nul", "errW", "stdinR", "stdinW",
              "tIn", "tOut", "tErr", "proc", "doneEv", "errR", "c.inW", "wi.write"}
BY RequestAssumption DEF Start, MostUnwound, Kinds

\* The caller opens what it starts with, or what it opened until a call failed.
LEMMA StdioKnown == ASSUME IInv, LInv, Stdio PROVE LInv'
<1>1. /\ pc = "stdio" /\ us /\ us' = us /\ req' = req /\ list = <<>> /\ list' = list /\ slot' = slot
      /\ rc = "none" /\ rc' = rc /\ state' = state /\ state = "none" /\ own = {}
      /\ (pc' = (IF Supervised THEN "job" ELSE "checks") \/ pc' = "unwind")
      /\ req \in Requests /\ ~bad /\ Held
  BY DEF IInv, NotYet, LInv, OwnKnown, ListOnce, ResultKnown, Stdio, Step, locals, process, BeforeCreate,
         BeforeDup, Steps
<1>2. PICK V : Open(V) /\ (IF pc' = "unwind" THEN V \subseteq MostUnwound ELSE V = Start)
  <2>1. CASE pc' = "unwind"
    <3>1. PICK n \in 1 .. Len(Opens) : Open(Opened(n - 1))
      BY <1>1, <2>1 DEF Stdio, Step
    <3> QED BY <1>1, <2>1, <3>1, OpensAre
  <2>2. CASE pc' # "unwind"
    <3>1. Open(Opened(Len(Opens)) \ (IF req.kind = "pty" THEN {"inR", "outW"} ELSE {}))
      BY <1>1, <2>2 DEF Stdio, Step
    <3> QED BY <1>1, <2>2, <3>1, OpensAre
  <2> QED BY <2>1, <2>2
<1>3. ~bad' /\ Held' /\ own' = V
  BY <1>1, <1>2, Opens2
<1>4. OwnKnown'
  BY <1>1, <1>2, <1>3, SameRequest DEF OwnKnown, Creating
<1>5. Apart'
  <2>1. V \subseteq {"outR", "outW", "errR", "errW", "nul", "stdinR", "stdinW", "inR", "inW", "hpc",
                     "thread", "proc", "tIn", "tOut", "tErr", "doneEv", "monitor"}
    <3>1. CASE pc' # "unwind"
      BY <1>1, <1>2, <3>1, StartIs
    <3>2. CASE pc' = "unwind"
      <4>1. PICK n \in 1 .. Len(Opens) : Open(Opened(n - 1))
        BY <1>1, <3>2 DEF Stdio, Step
      <4>2. own' = Opened(n - 1)
        BY <1>1, <4>1 DEF Open
      <4>3. \A i \in 1 .. n - 1 : i \in 1 .. Len(Opens)
        BY DEF Opens
      <4>4. \A i \in 1 .. Len(Opens) : Opens[i] \subseteq
              {"outR", "outW", "errR", "errW", "nul", "stdinR", "stdinW", "inR", "inW", "hpc"}
        BY DEF Opens
      <4> QED BY <1>3, <4>2, <4>3, <4>4 DEF Opened
    <3> QED BY <3>1, <3>2
  <2> QED BY <1>3, <2>1, NeverShared DEF Apart, Handle
<1>6. ListOnce' /\ ResultKnown' /\ ProcessKnown'
  BY <1>1, SameRequest DEF LInv, ListOnce, ResultKnown, ProcessKnown, Loose, Duplicates, BeforeDup, BeforeCreate,
     Steps, Alive, Supervised, Serving, Freeing
<1> QED BY <1>1, <1>3, <1>4, <1>5, <1>6 DEF LInv

\* The job, its limits, the checks, the line and the attributes touch no handle.
LEMMA PrepareKnown ==
  ASSUME IInv, LInv, JobNew \/ SetLimits \/ Checks \/ MakeLine \/ Attributes
  PROVE  LInv'
<1>1. /\ pc \in Creating \ {"dup", "create"} /\ us /\ us' = us /\ req' = req
      /\ list' = list /\ slot' = slot /\ own' = own /\ missed' = missed
      /\ held' = held /\ bad' = bad /\ rc = "none" /\ rc' = rc /\ state' = state /\ state = "none"
      /\ pc' \in {"limits", "checks", "unwind", "cleanup", "line", "attributes", "dup", "create"}
      /\ (pc' = "unwind" => pc \in {"job", "limits", "checks"})
      /\ (pc' \in BeforeDup => pc \in BeforeDup)
      /\ req \in Requests /\ own = Start
  BY DEF IInv, NotYet, LInv, ResultKnown, OwnKnown, JobNew, SetLimits, Checks, MakeLine, Attributes, Step,
         locals, handles, process, BeforeCreate, BeforeDup, Creating, Steps, Serving, Freeing
<1>2. Held' /\ Apart' /\ ~bad'
  <2>1. Handles(own)' = Handles(own) /\ ToSet(list)' = ToSet(list)
    BY <1>1 DEF Handles, Handle
  <2> QED BY <1>1, <2>1 DEF LInv, Held, Apart, Handle
<1>3. OwnKnown'
  BY <1>1, SameRequest, StartIs DEF OwnKnown, Creating
<1>4. ListOnce'
  BY <1>1, SameRequest DEF LInv, ListOnce, BeforeCreate, BeforeDup, Creating
<1>5. ResultKnown' /\ ProcessKnown'
  BY <1>1, SameRequest DEF ResultKnown, ProcessKnown, Loose, BeforeDup, BeforeCreate, Steps, Alive, Supervised,
     Serving, Freeing
<1> QED BY <1>1, <1>2, <1>3, <1>4, <1>5 DEF LInv

\* A duplicate more for a stream that shares its handle with none before it.
LEMMA DupKnown == ASSUME IInv, LInv, Dup PROVE LInv'
<1>1. /\ pc = "dup" /\ us /\ us' = us /\ req' = req /\ bad' = bad /\ ~bad /\ rc = "none" /\ rc' = rc
      /\ state' = state /\ state = "none" /\ slot \in 1 .. 3 /\ DOMAIN req.io = 1 .. 3
      /\ pc' \in {"dup", "attributes", "cleanup"} /\ own' = own /\ own = Start /\ Apart
      /\ list \in Seq(Duplicates) /\ req \in Requests
      /\ held = Handles(own) \cup ToSet(list)
  BY RequestAssumption
     DEF IInv, NotYet, ListGrows, LInv, OwnKnown, Held, ListOnce, Creating,
         ResultKnown, Dup, Step, locals, process, BeforeDup, BeforeCreate
<1>2. /\ \A i \in DOMAIN list : list[i][2] < slot
      /\ \A i, j \in DOMAIN list : list[i][2] = list[j][2] => i = j
  BY <1>1 DEF LInv, ListOnce, BeforeCreate
<1>3. ResultKnown' /\ ProcessKnown' /\ OwnKnown' /\ Apart' /\ Duplicates' = Duplicates
      /\ Handles(own)' = Handles(own)
  BY <1>1, SameRequest DEF ResultKnown, ProcessKnown, Loose, OwnKnown, Apart, Handles, Handle, BeforeDup, BeforeCreate,
     Steps, Alive, Supervised, Creating, Serving, Freeing
<1>4. CASE pc' = "cleanup"
  <2>1. list' = list /\ held' = held /\ slot' = slot
    BY <1>1, <1>4 DEF Dup, Step, locals
  <2>2. ListOnce'
    BY <1>1, <1>2, <1>3, <1>4, <2>1 DEF ListOnce, BeforeCreate, BeforeDup
  <2>3. ToSet(list)' = ToSet(list)
    BY <2>1
  <2> QED BY <1>1, <1>3, <2>1, <2>2, <2>3 DEF LInv, Held
<1>5. CASE pc' # "cleanup"
  <2>1. list' = Listed(slot) /\ held' = held \cup ToSet(list') /\ slot' = slot + 1
    BY <1>5 DEF Dup, Step
  <2>2. CASE SharedWith(slot)
    <3>1. list' = list /\ held' = held
      BY <1>1, <2>1, <2>2 DEF Listed
    <3>2. \A i \in DOMAIN list : list[i][2] < slot + 1
      <4>1. \A i \in DOMAIN list : list[i][2] \in 1 .. 3
        BY <1>1 DEF Duplicates
      <4> QED BY <1>1, <1>2, <4>1
    <3>3. ListOnce'
      BY <1>1, <1>2, <1>3, <1>5, <2>1, <3>1, <3>2 DEF ListOnce, BeforeCreate, BeforeDup
    <3>4. ToSet(list)' = ToSet(list)
      BY <3>1
    <3> QED BY <1>1, <1>3, <3>1, <3>3, <3>4 DEF LInv, Held
  <2>3. CASE ~SharedWith(slot)
    <3> DEFINE d == <<req.io[slot], slot>>
    <3>1. list' = Append(list, d) /\ d \in Duplicates /\ d[2] = slot
      BY <1>1, <2>1, <2>3 DEF Listed, Duplicates, ToSet
    <3> HIDE DEF d
    <3>2. Len(list) \in Nat /\ DOMAIN list = 1 .. Len(list) /\ DOMAIN list' = 1 .. Len(list) + 1
          /\ list' \in Seq(Duplicates) /\ list'[Len(list) + 1] = d
          /\ \A i \in 1 .. Len(list) : list'[i] = list[i]
      BY <1>1, <3>1
    <3>3. ToSet(list)' = ToSet(list) \cup {d}
      BY <3>2 DEF ToSet
    <3>4. held' = Handles(own) \cup ToSet(list')
      BY <1>1, <2>1, <3>3
    <3>5. \A i \in 1 .. Len(list) + 1 : i \in 1 .. Len(list) \/ i = Len(list) + 1
      BY <3>2
    <3>6. \A i \in 1 .. Len(list) : list[i][2] \in 1 .. 3 /\ list[i][2] < slot
      BY <1>1, <1>2, <3>2 DEF Duplicates
    <3>7. \A i \in DOMAIN list' : list'[i][2] < slot'
      <4>1. ASSUME NEW i \in DOMAIN list' PROVE list'[i][2] < slot + 1
        <5>1. CASE i \in 1 .. Len(list)
          BY <1>1, <3>2, <3>6, <5>1
        <5>2. CASE i = Len(list) + 1
          BY <1>1, <3>1, <3>2, <5>2
        <5> QED BY <3>2, <3>5, <4>1, <5>1, <5>2
      <4> QED BY <2>1, <4>1
    <3>8. \A i, j \in DOMAIN list' : list'[i][2] = list'[j][2] => i = j
      <4>1. \A i \in 1 .. Len(list) : list'[i][2] # slot
        BY <1>1, <3>2, <3>6
      <4>2. list'[Len(list) + 1][2] = slot
        BY <3>1, <3>2
      <4> QED BY <1>2, <3>2, <3>5, <4>1, <4>2
    <3>9. ListOnce'
      BY <1>1, <1>3, <1>5, <3>2, <3>7, <3>8 DEF ListOnce, BeforeDup
    <3> QED BY <1>1, <1>3, <3>4, <3>9 DEF LInv, Held
  <2> QED BY <2>2, <2>3
<1> QED BY <1>4, <1>5

\* The new process adds its two handles.
LEMMA CreateKnown == ASSUME IInv, LInv, Create PROVE LInv'
<1>1. /\ pc = "create" /\ us /\ us' = us /\ req' = req /\ ~bad /\ rc = "none" /\ rc' = rc
      /\ pc' \in {"close", "verify", "cleanup"} /\ own = Start /\ Apart /\ Held
      /\ list' = list /\ slot' = slot /\ req \in Requests /\ state = "none"
  BY DEF IInv, NotYet, LInv, OwnKnown, Creating,
         ResultKnown, Create, Step, locals, BeforeDup, BeforeCreate
<1>2. ~bad' /\ Held' /\ Apart' /\ OwnKnown' /\ ProcessKnown'
  <2>1. CASE pc' = "cleanup"
    <3>1. own' = own /\ held' = held /\ bad' = bad /\ state' = state
      BY <2>1 DEF Create, Step, process
    <3>2. Handles(own)' = Handles(own) /\ ToSet(list)' = ToSet(list)
      BY <1>1, <3>1 DEF Handles, Handle
    <3> QED BY <1>1, <2>1, <3>1, <3>2, SameRequest DEF Held, Apart, Handle, OwnKnown, Creating, ProcessKnown, Loose, Alive
  <2>2. CASE pc' # "cleanup"
    <3>1. Open({"thread", "proc"}) /\ state' = (IF Supervised THEN "running" ELSE "suspended")
          /\ pc' = (IF Supervised THEN "close" ELSE "verify")
      BY <2>2 DEF Create, Step
    <3>2. PICK V : V = {"thread", "proc"}
      OBVIOUS
    <3>3. ~bad' /\ Held' /\ own' = own \cup V
      BY <1>1, <3>1, <3>2, Opens2
    <3>4. Apart'
      BY <1>1, <3>2, <3>3, StartIs, NeverShared DEF Apart, Handle
    <3>5. OwnKnown'
      BY <1>1, <3>1, <3>2, <3>3, SameRequest DEF OwnKnown, Creating
    <3>6. ProcessKnown'
      BY <1>1, <3>1 DEF ProcessKnown
    <3> QED BY <3>3, <3>4, <3>5, <3>6
  <2> QED BY <2>1, <2>2
<1>3. ListOnce'
  BY <1>1, SameRequest DEF LInv, ListOnce, BeforeDup, BeforeCreate
<1>4. ResultKnown'
  BY <1>1, SameRequest DEF ResultKnown, BeforeDup, BeforeCreate, Steps, Serving, Freeing
<1> QED BY <1>1, <1>2, <1>3, <1>4 DEF LInv

\* Nothing but the state of the process and the step change.
LEMMA VerifyKnown == ASSUME IInv, LInv, Verify \/ Resume PROVE LInv'
<1>1. /\ pc \in {"verify", "resume"} /\ us /\ us' = us /\ req' = req /\ ~bad /\ rc = "none" /\ rc' = rc
      /\ pc' \in {"resume", "close", "giveup"} /\ ~Supervised /\ state \in {"suspended", "dead"}
      /\ list' = list /\ slot' = slot /\ own' = own /\ held' = held /\ bad' = bad /\ missed' = missed
      /\ own = Start \cup {"thread", "proc"} /\ Apart /\ Held
      /\ (pc' = "close" => state' = IF Alive THEN "running" ELSE state)
  BY DEF IInv, Detached, LInv, OwnKnown, ResultKnown, Verify, Resume, Step, locals, handles
<1>2. Handles(own)' = Handles(own) /\ ToSet(list)' = ToSet(list)
  BY <1>1 DEF Handles, Handle
<1>3. OwnKnown' /\ Held' /\ Apart'
  BY <1>1, <1>2, SameRequest DEF OwnKnown, Creating, Held, Apart, Handle
<1>4. ListOnce' /\ ResultKnown' /\ ProcessKnown'
  BY <1>1, SameRequest DEF LInv, ListOnce, ResultKnown, ProcessKnown, Steps, Serving, Freeing, BeforeDup,
     BeforeCreate, Alive
<1> QED BY <1>1, <1>3, <1>4 DEF LInv

\* A detached process that is given up takes its handles with it.
LEMMA GiveUpKnown == ASSUME IInv, LInv, GiveUp PROVE LInv'
<1>1. /\ pc = "giveup" /\ pc' = "cleanup" /\ us /\ us' = us /\ req' = req /\ ~bad /\ rc = "none" /\ rc' = rc
      /\ ~Supervised /\ list' = list /\ slot' = slot /\ state' = state /\ CloseSet({"thread", "proc"})
      /\ missed' = (missed \/ Alive) /\ list \in Seq(Duplicates)
      /\ own = Start \cup {"thread", "proc"} /\ Apart /\ Held /\ req \in Requests
  BY DEF IInv, Detached, LInv, OwnKnown, ResultKnown, ListOnce, GiveUp, Step, locals, process
<1>2. PICK V : V = {"thread", "proc"}
  OBVIOUS
<1>3. ~bad' /\ Held' /\ Apart' /\ own' = own \ V
  BY <1>1, <1>2, ClosesSet
<1>4. own' = Start
  BY <1>1, <1>2, <1>3, StartIs
<1>5. OwnKnown'
  BY <1>1, <1>4, SameRequest DEF OwnKnown, Creating
<1>6. ListOnce' /\ ResultKnown' /\ ProcessKnown'
  BY <1>1, SameRequest DEF LInv, ListOnce, ResultKnown, ProcessKnown, Loose, Steps, Serving, Freeing, BeforeDup,
     BeforeCreate, Alive, Supervised
<1> QED BY <1>1, <1>3, <1>5, <1>6 DEF LInv

LEMMA LaunchedKnown == ASSUME IInv, LInv, Launched PROVE LInv'
<1>1. /\ pc = "close" /\ pc' = "cleanup" /\ us /\ us' = us /\ req' = req /\ ~bad /\ rc' = "ok"
      /\ list' = list /\ slot' = slot /\ state' = state /\ CloseSet({"thread"}) /\ list \in Seq(Duplicates)
      /\ own = Start \cup {"thread", "proc"} /\ Apart /\ Held /\ req \in Requests
  BY DEF IInv, LInv, OwnKnown, ListOnce, Launched, Step, locals, process
<1>2. PICK V : V = {"thread"}
  OBVIOUS
<1>3. ~bad' /\ Held' /\ Apart' /\ own' = own \ V
  BY <1>1, <1>2, ClosesSet
<1>4. own' = Start \cup {"proc"}
  BY <1>1, <1>2, <1>3, StartIs
<1>5. OwnKnown'
  BY <1>1, <1>4, SameRequest DEF OwnKnown, Creating
<1>6. ListOnce' /\ ResultKnown' /\ ProcessKnown'
  BY <1>1, SameRequest DEF LInv, ListOnce, ResultKnown, ProcessKnown, Loose, Steps, Serving, Freeing, BeforeDup,
     BeforeCreate, Alive, Supervised
<1> QED BY <1>1, <1>3, <1>5, <1>6 DEF LInv

\* The duplicates go, each once, and nothing else does.
LEMMA CleanupKnown == ASSUME IInv, LInv, Cleanup PROVE LInv'
<1>1. /\ pc = "cleanup" /\ us /\ us' = us /\ req' = req /\ ~bad /\ rc' = rc /\ rc # "error"
      /\ pc' = (IF rc = "ok" THEN "after" ELSE "unwind") /\ missed' = missed
      /\ list' = <<>> /\ slot' = slot /\ state' = state /\ own' = own /\ Close(list)
      /\ list \in Seq(Duplicates) /\ Apart /\ Held /\ req \in Requests
      /\ \A i, j \in DOMAIN list : list[i][2] = list[j][2] => i = j
      /\ own = Start \cup (IF rc = "ok" THEN {"proc"} ELSE {}) /\ rc \in {"none", "ok"}
  BY DEF IInv, LInv, OwnKnown, ListOnce, ResultKnown, Cleanup, Step, process
<1>2. IsInjective(list)
  BY <1>1 DEF IsInjective
<1>3. Range(list) = ToSet(list)
  BY <1>1 DEF Range, ToSet
<1>4. ~bad' /\ held' = held \ ToSet(list)
  BY <1>1, <1>2, <1>3, ClosesAll DEF Held
<1>5. ToSet(list)' = {} /\ Handles(own)' = Handles(own)
  BY <1>1 DEF ToSet, Handles, Handle
<1>6. ToSet(list) \cap Handles(own) = {}
  BY <1>1 DEF ToSet, Duplicates, Handles
<1>7. Held' /\ Apart'
  <2>1. Held'
    BY <1>1, <1>4, <1>5, <1>6 DEF Held
  <2>2. Apart'
    BY <1>1 DEF Apart, Handle
  <2> QED BY <2>1, <2>2
<1>8. OwnKnown'
  BY <1>1, StartIs, SameRequest DEF OwnKnown, Creating
<1>9. ListOnce'
  BY <1>1, SameRequest DEF ListOnce, BeforeDup, BeforeCreate
<1>10. ResultKnown' /\ ProcessKnown'
  BY <1>1, SameRequest DEF LInv, ResultKnown, ProcessKnown, Loose, Steps, Serving, Freeing, BeforeDup,
     BeforeCreate, Alive, Supervised
<1> QED BY <1>1, <1>4, <1>7, <1>8, <1>9, <1>10 DEF LInv

\* A step that leaves the list, the result and the process alone, from a successful
\* launch on.
Passes(from, to) ==
  /\ us /\ us' = us /\ req' = req /\ list' = list /\ slot' = slot /\ rc' = rc /\ state' = state
  /\ missed' = missed /\ pc = from /\ pc' = to
LEMMA PassesKnown ==
  ASSUME LInv, NEW from \in {"after"} \cup Serving \cup {"done"}, NEW to, Passes(from, to), rc = "ok",
         to \in {"done", "unwind", "free"} \cup Serving \cup Freeing, to # "reaped" \/ Child,
         to = "unwind" => Child, to \in Freeing \cup {"event"} => Child,
         to \in Serving \ {"event"} => req.kind = "capture",
         to = "writer" => req.input = "bytes", to = "handover" => req.input = "channels"
  PROVE  ListOnce' /\ ResultKnown' /\ ProcessKnown' /\ list = <<>> /\ list \in Seq(Duplicates)
<1>1. list = <<>> /\ ListOnce
  BY DEF LInv, ListOnce, Passes, Serving
<1>2. ListOnce'
  BY <1>1, SameRequest DEF Passes, ListOnce, BeforeCreate, BeforeDup, Serving, Freeing
<1>3. ResultKnown'
  BY SameRequest DEF LInv, ResultKnown, Passes, Steps, BeforeCreate, BeforeDup, Serving, Freeing
<1>4. ProcessKnown'
  BY SameRequest DEF LInv, ProcessKnown, Passes, Serving, Freeing
<1> QED BY <1>1, <1>2, <1>3, <1>4 DEF ListOnce

LEMMA AfterKnown == ASSUME IInv, LInv, After PROVE LInv'
<1>1. /\ pc = "after" /\ us /\ rc = "ok" /\ req \in Requests /\ req.kind \in Kinds /\ ~bad /\ Apart /\ Held
      /\ own = Start \cup {"proc"} /\ CloseSet(ChildSide)
      /\ Passes("after", pc') /\ req' = req /\ us' = us /\ rc' = rc
      /\ pc' = (CASE req.kind = "capture" -> "readers" [] req.kind = "inherit" -> "event" [] OTHER -> "done")
  BY RequestAssumption DEF IInv, LInv, OwnKnown, ResultKnown, After, Step, locals, process, Passes
<1>2. ListOnce' /\ ResultKnown' /\ ProcessKnown' /\ list' = list /\ list \in Seq(Duplicates)
  <2>1. pc' \in {"readers", "event", "done"} /\ "after" \in {"after"} \cup Serving \cup {"done"}
    BY <1>1 DEF Kinds
  <2>2. pc' = "readers" => req.kind = "capture"
    BY <1>1 DEF Kinds
  <2>3. pc' = "event" => Child
    BY <1>1 DEF Kinds, Child
  <2> QED BY <1>1, <2>1, <2>2, <2>3, PassesKnown DEF Serving, Freeing, Passes
<1>3. ~bad' /\ Held' /\ Apart' /\ own' = own \ ChildSide
  BY <1>1, <1>2, ClosesSet
<1>4. CASE req.kind = "capture"
  <2>1. own' = {"outR", "errR", "proc"} \cup Piped
    BY <1>1, <1>3, <1>4 DEF Start, ChildSide, Piped
  <2> QED BY <1>1, <1>2, <1>3, <1>4, <2>1, SameRequest DEF LInv, OwnKnown, Creating
<1>5. CASE req.kind = "inherit"
  <2>1. own' = Fed
    BY <1>1, <1>3, <1>5 DEF Start, ChildSide, Fed
  <2> QED BY <1>1, <1>2, <1>3, <1>5, <2>1, SameRequest DEF LInv, OwnKnown, Creating, About
<1>6. CASE req.kind = "pty"
  <2>1. own' = Kept
    BY <1>1, <1>3, <1>6 DEF Start, ChildSide, Kept
  <2> QED BY <1>1, <1>2, <1>3, <1>6, <2>1, SameRequest DEF LInv, OwnKnown, Creating, About
<1>7. CASE req.kind = "detach"
  <2>1. own' = Kept
    BY <1>1, <1>3, <1>7 DEF Start, ChildSide, Kept
  <2> QED BY <1>1, <1>2, <1>3, <1>7, <2>1, SameRequest DEF LInv, OwnKnown, Creating, About
<1> QED BY <1>1, <1>4, <1>5, <1>6, <1>7 DEF Kinds

\* A call that makes handles, or some of them where it fails.
LEMMA MakesKnown ==
  ASSUME IInv, LInv, NEW from \in Serving, NEW to, NEW all, NEW some, Makes(from, to, all, some),
         Child, to \in {"done", "unwind"} \cup Serving, to # "unwind",
         to \in Serving \ {"event"} => req.kind = "capture",
         to = "writer" => req.input = "bytes", to = "handover" => req.input = "channels"
  PROVE  /\ pc = from /\ us /\ us' = us /\ rc = "ok" /\ req \in Requests /\ ~bad' /\ Apart /\ Held'
         /\ ListOnce' /\ ResultKnown' /\ ProcessKnown' /\ req' = req /\ rc' = rc
         /\ \/ pc' = to /\ own' = own \cup all
            \/ pc' = "unwind" /\ \E V \in some : own' = own \cup V
<1>1. /\ pc = from /\ us /\ us' = us /\ req \in Requests /\ req' = req /\ rc' = rc /\ rc = "ok"
      /\ ~bad /\ Apart /\ Held /\ list' = list /\ Passes(from, pc')
      /\ pc' \in {to, "unwind"}
  BY DEF IInv, LInv, ResultKnown, Makes, Step, Passes, locals, process, Serving
<1>2. ListOnce' /\ ResultKnown' /\ ProcessKnown'
  BY <1>1, PassesKnown DEF Serving, Freeing
<1>3. PICK V : Open(V) /\ \/ pc' = to /\ V = all
                          \/ pc' = "unwind" /\ V \in some
  BY <1>1 DEF Makes, Step
<1>4. ~bad' /\ Held' /\ own' = own \cup V
  BY <1>1, <1>3, Opens2
<1> QED BY <1>1, <1>2, <1>3, <1>4

\* What is set stays apart, as long as Tcl has none of it.
LEMMA StaysApart ==
  ASSUME own' \subseteq MostUnwound \cup {"monitor"}, Child, "wi.write" \notin own' \/ "c.inW" \notin own',
         "stdinW" \notin own' \/ ("wi.write" \notin own' /\ "c.inW" \notin own')
  PROVE  Apart'
BY DEF Apart, Handle, MostUnwound, Child

LEMMA ReadersKnown == ASSUME IInv, LInv, Readers PROVE LInv'
<1>1. PICK to, all, some :
        /\ req.kind = "capture" /\ to = "input" /\ all = Threads /\ some = {{}, Threads \cap {"tOut"}}
        /\ Makes("readers", to, all, some)
  BY DEF Readers, Threads
<1>2. /\ pc = "readers" /\ us /\ us' = us /\ ~bad' /\ Held' /\ ListOnce' /\ ResultKnown' /\ ProcessKnown'
      /\ req' = req /\ \/ pc' = to /\ own' = own \cup all
                       \/ pc' = "unwind" /\ \E V \in some : own' = own \cup V
  <2>1. "readers" \in Serving /\ to \in Serving /\ to \notin {"unwind", "writer", "handover"} /\ Child
    BY <1>1 DEF Serving, Child
  <2>2. Makes("readers", to, all, some) /\ req.kind = "capture"
    BY <1>1
  <2> HIDE <1>1
  <2> QED BY <2>1, <2>2, MakesKnown
<1>3. own = {"outR", "errR", "proc"} \cup Piped
  BY <1>2 DEF LInv, OwnKnown
<1>6. \A V \in some : V \subseteq {"tOut"}
  BY <1>1
<1>4. OwnKnown'
  <2>1. CASE pc' = "input"
    BY <1>1, <1>2, <1>3, <2>1, SameRequest DEF OwnKnown, Creating
  <2>2. CASE pc' = "unwind"
    <3>1. own' \subseteq {"outR", "errR", "proc", "stdinW", "tOut"}
      <4>1. PICK V \in some : own' = own \cup V
        BY <1>1, <1>2, <2>2
      <4> QED BY <1>3, <1>6, <4>1 DEF Piped
    <3> QED BY <1>1, <1>2, <2>2, <3>1, SameRequest DEF OwnKnown, Creating, MostUnwound
  <2> QED BY <1>1, <1>2, <2>1, <2>2
<1>5. Apart'
  <2>1. own' \subseteq {"outR", "errR", "proc", "stdinW", "tOut", "tErr"}
    <3>1. CASE own' = own \cup all
      BY <1>1, <1>3, <3>1 DEF Piped, Threads
    <3>2. CASE \E V \in some : own' = own \cup V
      <4>1. PICK V \in some : own' = own \cup V
        BY <3>2
      <4> QED BY <1>3, <1>6, <4>1 DEF Piped
    <3> QED BY <1>2, <3>1, <3>2
  <2> QED BY <1>1, <2>1, StaysApart DEF MostUnwound, Child
<1> QED BY <1>2, <1>4, <1>5 DEF LInv

LEMMA WriterKnown == ASSUME IInv, LInv, Writer PROVE LInv'
<1>0. pc = "writer" /\ req.kind = "capture" /\ req.input = "bytes"
  BY DEF LInv, ResultKnown, Writer, Makes, Step, Serving
<1>1. PICK to, all, some : to = "event" /\ all = {"tIn"} /\ some = {{}} /\ Makes("writer", to, all, some)
  BY DEF Writer
<1>2. /\ us /\ us' = us /\ ~bad' /\ Held' /\ ListOnce' /\ ResultKnown' /\ ProcessKnown'
      /\ req' = req /\ \/ pc' = "event" /\ own' = own \cup {"tIn"}
                       \/ pc' = "unwind" /\ own' = own
  <2>1. "writer" \in Serving /\ to \in Serving /\ to \notin {"unwind", "writer", "handover"} /\ Child
    BY <1>0, <1>1 DEF Serving, Child
  <2>2. \A V \in some : own \cup V = own
    BY <1>1
  <2> QED BY <1>0, <1>1, <2>1, <2>2, MakesKnown
<1>3. About({"outR", "errR", "proc"} \cup Threads \cup {"wi.write"})
  BY <1>0, <1>2 DEF LInv, OwnKnown
<1>4. OwnKnown'
  <2>1. CASE pc' = "event"
    <3>1. Fed = {"outR", "errR", "proc", "tIn", "wi.write"} \cup Threads
      BY <1>0 DEF Fed
    <3>2. own' \subseteq Fed /\ Fed \ own' \subseteq Theirs
      BY <1>2, <1>3, <2>1, <3>1 DEF About
    <3> QED BY <1>2, <2>1, <3>2, SameRequest DEF OwnKnown, Creating, About
  <2>2. CASE pc' = "unwind"
    <3>1. own' \subseteq {"outR", "errR", "proc", "tOut", "tErr", "wi.write"}
      BY <1>2, <1>3, <2>2 DEF Threads, About
    <3> QED BY <1>0, <1>2, <2>2, <3>1, SameRequest DEF OwnKnown, Creating, MostUnwound
  <2> QED BY <1>2, <2>1, <2>2
<1>5. Apart'
  <2>1. own' \subseteq {"outR", "errR", "proc", "tOut", "tErr", "wi.write", "tIn"}
    BY <1>2, <1>3 DEF Threads, About
  <2> QED BY <1>0, <2>1, StaysApart DEF MostUnwound, Child
<1> QED BY <1>2, <1>4, <1>5 DEF LInv

LEMMA EventKnown == ASSUME IInv, LInv, Event PROVE LInv'
<1>0. pc = "event" /\ Child
  BY DEF LInv, ResultKnown, Event, Makes, Step, Serving
<1>1. PICK to, all, some :
                /\ to = (IF req.kind = "capture" /\ req.input = "channels" THEN "handover" ELSE "done")
                /\ all = {"doneEv", "monitor"} /\ some = {{}, {"doneEv"}} /\ Makes("event", to, all, some)
  BY DEF Event
<1>2. /\ us /\ us' = us /\ ~bad' /\ Held' /\ ListOnce' /\ ResultKnown' /\ ProcessKnown' /\ rc = "ok" /\ rc' = rc
      /\ req' = req /\ \/ pc' = to /\ own' = own \cup {"doneEv", "monitor"}
                       \/ pc' = "unwind" /\ \E V \in some : own' = own \cup V
  <2>1. "event" \in Serving /\ to \in {"done"} \cup Serving /\ to \notin {"unwind", "writer"}
        /\ (to = "handover" => req.input = "channels" /\ req.kind = "capture")
        /\ (to \in Serving \ {"event"} => req.kind = "capture")
    BY <1>0, <1>1 DEF Serving
  <2> QED BY <1>0, <1>1, <2>1, MakesKnown
<1>3. About(Fed)
  BY <1>0, <1>2 DEF LInv, OwnKnown
<1>4. OwnKnown'
  <2>1. CASE pc' = "handover"
    <3>1. Fed = {"outR", "errR", "proc", "c.inW"} /\ to = "handover"
      BY <1>1, <1>2, <2>1 DEF Fed, Threads
    <3>2. own = {"outR", "errR", "proc", "c.inW"}
      BY <1>3, <3>1 DEF About, Theirs, Channels
    <3> QED BY <1>2, <2>1, <3>1, <3>2, SameRequest DEF OwnKnown, Creating
  <2>2. CASE pc' = "done"
    <3>1. Kept = Fed \cup {"doneEv", "monitor"}
      BY <1>0, <1>1, <1>2, <2>2 DEF Fed, Kept, Threads, Child
    <3>2. own' \subseteq Kept /\ Kept \ own' \subseteq Theirs
      BY <1>1, <1>2, <1>3, <2>2, <3>1 DEF About
    <3> QED BY <1>2, <2>2, <3>2, SameRequest DEF OwnKnown, Creating, About
  <2>3. CASE pc' = "unwind"
    <3>1. own' \subseteq Fed \cup {"doneEv"}
      BY <1>1, <1>2, <1>3, <2>3 DEF About
    <3>2. Fed \cup {"doneEv"} \subseteq MostUnwound
      BY <1>0 DEF Fed, MostUnwound, Threads, Child
    <3> QED BY <1>2, <2>3, <3>1, <3>2, SameRequest DEF OwnKnown, Creating
  <2> QED BY <1>1, <1>2, <2>1, <2>2, <2>3
<1>5. Apart'
  <2>1. own' \subseteq Fed \cup {"doneEv", "monitor"}
    <3>1. \A V \in some : V \subseteq {"doneEv"}
      BY <1>1
    <3> QED BY <1>2, <1>3, <3>1 DEF About
  <2>2. Fed \cup {"doneEv", "monitor"} \subseteq MostUnwound \cup {"monitor"}
    BY <1>0 DEF Fed, MostUnwound, Threads, Child
  <2>3. "stdinW" \notin Fed /\ ("c.inW" \notin Fed \/ "wi.write" \notin Fed)
    BY DEF Fed, Threads
  <2>4. own' \subseteq MostUnwound \cup {"monitor"}
    BY <2>1, <2>2
  <2>5. "stdinW" \notin own' /\ ("c.inW" \notin own' \/ "wi.write" \notin own')
    BY <2>1, <2>3
  <2> QED BY <1>0, <2>4, <2>5, StaysApart
<1> QED BY <1>2, <1>4, <1>5 DEF LInv

\* A handle that goes from one variable to another stays held.
LEMMA MovesKnown ==
  ASSUME Held, ~bad, NEW from, NEW to, from \in own, Handle(from) = Handle(to), Apart,
         Moves({from}, {to}), list' = list
  PROVE  ~bad' /\ Held' /\ own' = (own \ {from}) \cup {to}
<1>1. own' = (own \ {from}) \cup {to} /\ held' = held /\ bad' = bad
  BY DEF Moves
<1>2. Handles(own') = Handles(own)
  BY <1>1 DEF Handles
<1>3. Handles(own)' = Handles(own') /\ ToSet(list)' = ToSet(list)
  BY DEF Handles, Handle
<1> QED BY <1>1, <1>2, <1>3 DEF Held

LEMMA InputKnown == ASSUME IInv, LInv, Input PROVE LInv'
<1>0. /\ pc = "input" /\ us /\ us' = us /\ rc = "ok" /\ req' = req /\ ~bad /\ Apart /\ Held /\ list' = list
      /\ req.kind = "capture" /\ Child /\ own = {"outR", "errR", "proc"} \cup Threads \cup Piped
      /\ pc' \in {"event", "writer", "unwind"} /\ (pc' = "writer" => req.input = "bytes")
      /\ Passes("input", pc') /\ req.input \in Inputs
  BY RequestAssumption
     DEF IInv, LInv, OwnKnown, ResultKnown, Input, Step, Passes, locals, process, Serving, Child
<1>1. ListOnce' /\ ResultKnown' /\ ProcessKnown' /\ list \in Seq(Duplicates)
  <2>1. "input" \in Serving
    BY DEF Serving
  <2> QED BY <1>0, <2>1, PassesKnown DEF Serving, Freeing
<1>2. ~bad' /\ Held' /\ Apart' /\ OwnKnown'
  <2>0. Threads \subseteq {"tOut", "tErr"} /\ Piped \subseteq {"stdinW"}
    BY DEF Threads, Piped
  <2>1. CASE req.input = "nul" \/ pc' = "unwind"
    <3>1. own' = own /\ held' = held /\ bad' = bad
      BY <2>1, <1>0 DEF Input, Step, CloseSet, Moves
    <3>2. Handles(own)' = Handles(own) /\ ToSet(list)' = ToSet(list)
      BY <1>0, <3>1 DEF Handles, Handle
    <3>3. Held' /\ Apart' /\ ~bad'
      BY <1>0, <3>1, <3>2 DEF Held, Apart, Handle
    <3>4. CASE pc' = "unwind"
      <4>1. own' \subseteq MostUnwound
        BY <1>0, <2>0, <3>1 DEF MostUnwound
      <4> QED BY <1>0, <3>3, <3>4, <4>1, SameRequest DEF OwnKnown, Creating
    <3>5. CASE pc' # "unwind"
      <4>1. pc' = "event" /\ own' = Fed
        BY <1>0, <2>1, <3>1, <3>5 DEF Fed, Piped, Input, Step
      <4> QED BY <1>0, <3>3, <4>1, SameRequest DEF OwnKnown, Creating, About
    <3> QED BY <3>4, <3>5
  <2>2. CASE req.input = "empty" /\ pc' # "unwind"
    <3>1. CloseSet({"stdinW"}) /\ pc' = "event"
      BY <1>0, <2>2 DEF Input, Step
    <3>2. PICK V : V = {"stdinW"}
      OBVIOUS
    <3>3. ~bad' /\ Held' /\ Apart' /\ own' = own \ V
      BY <1>0, <1>1, <3>1, <3>2, ClosesSet
    <3>4. own' = Fed
      BY <1>0, <2>0, <2>2, <3>2, <3>3 DEF Fed, Piped
    <3> QED BY <1>0, <3>1, <3>3, <3>4, SameRequest DEF OwnKnown, Creating, About
  <2>3. CASE req.input \in {"channels", "bytes"} /\ pc' # "unwind"
    <3>1. PICK to : /\ to = (IF req.input = "channels" THEN "c.inW" ELSE "wi.write")
                    /\ Moves({"stdinW"}, {to})
                    /\ pc' = (IF req.input = "channels" THEN "event" ELSE "writer")
      BY <1>0, <2>3 DEF Input, Step
    <3>2. "stdinW" \in own /\ Handle("stdinW") = Handle(to)
      BY <1>0, <2>3, <3>1 DEF Piped, Handle
    <3>3. ~bad' /\ Held' /\ own' = (own \ {"stdinW"}) \cup {to}
      BY <1>0, <3>1, <3>2, MovesKnown
    <3>4. own' = {"outR", "errR", "proc", to} \cup Threads
      BY <1>0, <2>0, <2>3, <3>1, <3>3 DEF Piped
    <3>5. Apart'
      <4>1. own' \subseteq MostUnwound \cup {"monitor"}
        BY <1>0, <2>0, <3>1, <3>4 DEF MostUnwound
      <4>2. "stdinW" \notin own' /\ ("wi.write" \notin own' \/ "c.inW" \notin own')
        BY <2>0, <3>1, <3>4
      <4> QED BY <1>0, <4>1, <4>2, StaysApart
    <3>6. CASE req.input = "channels"
      <4>1. own' = Fed /\ pc' = "event"
        BY <1>0, <3>1, <3>4, <3>6 DEF Fed, Threads
      <4> QED BY <1>0, <3>3, <3>5, <4>1, SameRequest DEF OwnKnown, Creating, About
    <3>7. CASE req.input = "bytes"
      BY <1>0, <3>1, <3>3, <3>4, <3>5, <3>7, SameRequest DEF OwnKnown, Creating, About
    <3> QED BY <2>3, <3>6, <3>7
  <2> QED BY <1>0, <2>1, <2>2, <2>3 DEF Inputs
<1> QED BY <1>0, <1>1, <1>2 DEF LInv

\* What Tcl is given it holds, and where it is refused it gives back what it has.
LEMMA HandoverKnown == ASSUME IInv, LInv, Handover PROVE LInv'
<1>0. /\ pc = "handover" /\ us /\ us' = us /\ rc = "ok" /\ req' = req /\ ~bad /\ Apart /\ Held /\ list' = list
      /\ req.kind = "capture" /\ req.input = "channels" /\ Child /\ state' = state /\ slot' = slot
      /\ own = {"outR", "errR", "proc", "c.inW", "doneEv", "monitor"} /\ missed' = missed
      /\ pc' \in {"done", "free"}
  BY DEF IInv, LInv, OwnKnown, ResultKnown, Handover, Step, locals, process, Serving, Child
<1>1. list = <<>> /\ list \in Seq(Duplicates)
  BY <1>0 DEF LInv, ListOnce
<1>2. CASE pc' = "done"
  <2>1. Moves({"c.inW", "outR", "errR"}, Channels) /\ rc' = rc
    BY <1>0, <1>2 DEF Handover, Step, Nulls
  <2>2. own' = {"proc", "doneEv", "monitor"} \cup Channels /\ held' = held /\ bad' = bad
    BY <1>0, <2>1 DEF Moves, Channels
  <2>3. Handles(own') = Handles(own)
    BY <1>0, <2>2 DEF Handles, Handle, Channels
  <2>4. Handles(own)' = Handles(own') /\ ToSet(list)' = ToSet(list)
    BY <1>0 DEF Handles, Handle
  <2>5. Held'
    BY <1>0, <2>2, <2>3, <2>4 DEF Held
  <2>6. Apart'
    BY <2>2, NeverShared DEF Apart, Handle
  <2>7. OwnKnown'
    <3>1. own' = Kept
      BY <1>0, <2>2 DEF Kept, Channels
    <3> QED BY <1>0, <1>2, <2>1, <3>1, SameRequest DEF OwnKnown, Creating, About
  <2>8. ListOnce' /\ ResultKnown' /\ ProcessKnown'
    <3>1. Passes("handover", "done") /\ "handover" \in Serving
      BY <1>0, <1>2, <2>1 DEF Passes, Serving
    <3> QED BY <1>0, <3>1, PassesKnown DEF Serving, Freeing
  <2> QED BY <1>0, <2>2, <2>5, <2>6, <2>7, <2>8 DEF LInv
<1>3. CASE pc' = "free"
  <2>1. PICK V \in HandOvers : CloseOf(V) /\ own' = own \ V /\ rc' = "error"
    BY <1>0, <1>3 DEF Handover, Step, Nulls
  <2>2. V \in SUBSET own
    BY <1>0, <2>1 DEF HandOvers
  <2>3. ~bad' /\ held' = Handles(own \ V) \cup ToSet(list)
    BY <1>0, <1>1, <2>1, <2>2, ClosesOf
  <2>4. Handles(own)' = Handles(own') /\ ToSet(list)' = ToSet(list)
    BY <1>0 DEF Handles, Handle
  <2>5. Held' /\ Apart'
    BY <1>0, <2>1, <2>3, <2>4 DEF Held, Apart, Handle
  <2>6. OwnKnown'
    <3>1. own' \subseteq MostFreed
      BY <1>0, <2>1 DEF MostFreed
    <3> QED BY <1>0, <1>3, <3>1, SameRequest DEF OwnKnown, Creating
  <2>7. ListOnce'
    BY <1>0, <1>1, <1>3, SameRequest DEF ListOnce, BeforeCreate, BeforeDup
  <2>8. ResultKnown' /\ ProcessKnown'
    BY <1>0, <1>3, <2>1, SameRequest DEF ResultKnown, ProcessKnown, Steps, Serving, Freeing, BeforeCreate,
       BeforeDup
  <2> QED BY <1>0, <2>3, <2>5, <2>6, <2>7, <2>8 DEF LInv
<1> QED BY <1>0, <1>2, <1>3

\* The monitor has seen the writer end: what is left is Tcl's, or an end of the pipe
\* that Tcl was to have.
LEMMA ReapKnown ==
  ASSUME IInv, LInv, NEW from, NEW to, Reap(from, to), Child, list = <<>>,
         \/ from = "done" /\ to = "reaped" /\ rc = "ok"
         \/ from = "ending" /\ to = "freed"
  PROVE  LInv'
<1>0. /\ pc = from /\ pc' = to /\ us /\ us' = us /\ req' = req /\ rc' = rc /\ ~bad /\ Apart /\ Held
      /\ list' = list /\ slot' = slot /\ state' = state /\ missed' = missed /\ "wi.write" \notin own
      /\ CloseSet({"monitor", "tIn", "tOut", "tErr", "proc", "outR", "errR", "doneEv"})
      /\ ListOnce /\ list \in Seq(Duplicates) /\ OwnKnown /\ ResultKnown /\ ProcessKnown
  BY DEF LInv, ListOnce, Reap, Step, locals, process
<1>1. PICK V : V = {"monitor", "tIn", "tOut", "tErr", "proc", "outR", "errR", "doneEv"}
  OBVIOUS
<1>2. ~bad' /\ Held' /\ Apart' /\ own' = own \ V
  BY <1>0, <1>1, ClosesSet
<1>3. OwnKnown'
  <2>1. CASE from = "done"
    <3>1. own \subseteq Kept /\ Kept \subseteq Channels \cup V \cup {"wi.write"}
      BY <1>0, <1>1, <2>1 DEF OwnKnown, About, Kept, Child, Channels
    <3>2. own' \subseteq Channels
      BY <1>0, <1>2, <3>1
    <3> QED BY <1>0, <2>1, <3>2, SameRequest DEF OwnKnown, Creating
  <2>2. CASE from = "ending"
    <3>1. own \subseteq MostFreed
      BY <1>0, <2>2 DEF OwnKnown
    <3>2. own' \subseteq {"c.inW"}
      BY <1>0, <1>1, <1>2, <3>1 DEF MostFreed
    <3> QED BY <1>0, <2>2, <3>2, SameRequest DEF OwnKnown, Creating
  <2> QED BY <2>1, <2>2
<1>4. ListOnce'
  BY <1>0, SameRequest DEF ListOnce, BeforeCreate, BeforeDup
<1>5. ResultKnown' /\ ProcessKnown'
  BY <1>0, SameRequest DEF ResultKnown, ProcessKnown, Steps, Serving, Freeing, BeforeCreate, BeforeDup
<1> QED BY <1>0, <1>2, <1>3, <1>4, <1>5 DEF LInv

\* From the end of a launch on there are no duplicates.
LEMMA NoneListed ==
  ASSUME LInv, us, pc \in {"unwind", "done"} \cup Freeing
  PROVE  list = <<>> /\ list \in Seq(Duplicates)
BY DEF LInv, ListOnce, Freeing

LEMMA CloseChannelsKnown == ASSUME IInv, LInv, CloseChannels PROVE LInv'
<1>0. /\ us /\ us' = us /\ req' = req /\ rc' = rc /\ rc = "ok" /\ ~bad /\ Apart /\ Held /\ Child
      /\ list' = list /\ slot' = slot /\ state' = state /\ missed' = missed /\ CloseSet(Channels)
      /\ ListOnce /\ OwnKnown /\ ResultKnown /\ ProcessKnown
      /\ \/ pc = "done" /\ pc' = "free"
         \/ pc = "reaped" /\ pc' = "freed"
  BY DEF LInv, CloseChannels, OfChild, Child, Step, locals, process
<1>1. list = <<>> /\ list \in Seq(Duplicates)
  BY <1>0, NoneListed DEF Freeing
<1>2. ~bad' /\ Held' /\ Apart' /\ own' = own \ Channels
  BY <1>0, <1>1, ClosesSet
<1>3. OwnKnown'
  <2>1. CASE pc = "done"
    <3>1. own \subseteq Kept /\ Kept \subseteq Channels \cup MostFreed
      BY <1>0, <2>1 DEF OwnKnown, About, Kept, Child, MostFreed
    <3>2. own' \subseteq MostFreed
      BY <1>2, <3>1
    <3> QED BY <1>0, <2>1, <3>2, SameRequest DEF OwnKnown, Creating
  <2>2. CASE pc = "reaped"
    <3>1. own' = {}
      BY <1>0, <1>2, <2>2 DEF OwnKnown
    <3> QED BY <1>0, <2>2, <3>1, SameRequest DEF OwnKnown, Creating
  <2> QED BY <1>0, <2>1, <2>2
<1>4. ListOnce'
  BY <1>0, <1>1, SameRequest DEF ListOnce, BeforeCreate, BeforeDup
<1>5. ResultKnown' /\ ProcessKnown'
  BY <1>0, SameRequest DEF ResultKnown, ProcessKnown, Steps, Serving, Freeing, BeforeCreate, BeforeDup
<1> QED BY <1>0, <1>2, <1>3, <1>4, <1>5 DEF LInv

\* A job that is terminated or closed leaves no supervised process.
LEMMA NoneLives ==
  ASSUME IInv, NEW t \in BOOLEAN, NEW c \in BOOLEAN, EndJob(t, c), t \/ c, Supervised, req' = req
  PROVE  ~Alive' /\ (c => job' # "open") /\ (state \in {"running", "dead"} => state' \in {"running", "dead"})
BY DEF IInv, NeverLoose, EndJob, Alive, Supervised

LEMMA FreeKillsKnown == ASSUME IInv, LInv, FreeKills PROVE LInv'
<1>0. /\ us /\ us' = us /\ req' = req /\ rc' = rc /\ ~bad /\ Apart /\ Held /\ pc = "free" /\ pc' = "ending"
      /\ list' = list /\ slot' = slot /\ missed' = missed /\ own' = own /\ held' = held /\ bad' = bad
      /\ ListOnce /\ OwnKnown /\ ResultKnown /\ ProcessKnown
  BY DEF LInv, FreeKills, Step, locals, handles
<1>1. PICK t \in BOOLEAN : EndJob(t, ~t)
  BY DEF FreeKills
<1>2. Supervised
  BY <1>0 DEF ResultKnown, Freeing, Child, Supervised
<1>3. PICK c \in BOOLEAN : EndJob(t, c) /\ (t \/ c)
  BY <1>1
<1>4. state \in {"running", "dead"} => state' \in {"running", "dead"}
  BY <1>0, <1>2, <1>3, NoneLives
<1>5. list = <<>> /\ Handles(own)' = Handles(own) /\ ToSet(list)' = ToSet(list)
  BY <1>0, NoneListed DEF Freeing, Handles, Handle
<1>6. Held' /\ OwnKnown'
  BY <1>0, <1>5, SameRequest DEF Held, OwnKnown, Creating
<1>7. Apart'
  BY <1>0 DEF Apart, Handle
<1>8. ListOnce'
  BY <1>0, <1>5, SameRequest DEF ListOnce, BeforeCreate, BeforeDup
<1>9. ResultKnown' /\ ProcessKnown'
  BY <1>0, <1>4, SameRequest DEF ResultKnown, ProcessKnown, Steps, Serving, Freeing, BeforeCreate, BeforeDup
<1> QED BY <1>0, <1>6, <1>7, <1>8, <1>9 DEF LInv

LEMMA FreeReapsKnown == ASSUME IInv, LInv, FreeReaps PROVE LInv'
<1>1. CASE Reap("ending", "freed")
  <2>1. pc = "ending" /\ us
    BY <1>1 DEF Reap, Step
  <2>2. Child /\ list = <<>>
    BY <2>1, NoneListed DEF LInv, ResultKnown, Freeing
  <2>3. PICK from, to : from = "ending" /\ to = "freed" /\ Reap(from, to)
    BY <1>1
  <2> QED BY <2>2, <2>3, ReapKnown
<1>2. CASE ~Reap("ending", "freed")
  <2>0. /\ us /\ us' = us /\ req' = req /\ rc' = rc /\ ~bad /\ Apart /\ Held /\ pc = "ending" /\ pc' = "left"
        /\ list' = list /\ slot' = slot /\ missed' = missed /\ own' = own /\ held' = held /\ bad' = bad
        /\ state' = state /\ ListOnce /\ OwnKnown /\ ResultKnown /\ ProcessKnown
    BY <1>2 DEF LInv, FreeReaps, Step, locals, handles, process
  <2>1. list = <<>> /\ Handles(own)' = Handles(own) /\ ToSet(list)' = ToSet(list)
    BY <2>0, NoneListed DEF Freeing, Handles, Handle
  <2>2. Held' /\ OwnKnown'
    BY <2>0, <2>1, SameRequest DEF Held, OwnKnown, Creating
  <2>3. Apart'
    BY <2>0 DEF Apart, Handle
  <2>4. ListOnce'
    BY <2>0, <2>1, SameRequest DEF ListOnce, BeforeCreate, BeforeDup
  <2>5. ResultKnown' /\ ProcessKnown'
    BY <2>0, SameRequest DEF ResultKnown, ProcessKnown, Steps, Serving, Freeing, BeforeCreate, BeforeDup
  <2> QED BY <2>0, <2>2, <2>3, <2>4, <2>5 DEF LInv
<1> QED BY <1>1, <1>2

\* The last two that may be set, or all of a pty, go with the job.
LEMMA OverKnown == ASSUME IInv, LInv, Freed \/ PtyFree PROVE LInv'
<1>0. /\ us /\ us' = us /\ req' = req /\ rc' = rc /\ ~bad /\ Apart /\ Held /\ pc' = "over"
      /\ list' = list /\ slot' = slot /\ missed' = missed /\ Supervised
      /\ ListOnce /\ OwnKnown /\ ResultKnown /\ ProcessKnown
      /\ \/ pc = "freed" \/ (pc = "done" /\ req.kind = "pty" /\ rc = "ok")
  BY DEF LInv, Freed, PtyFree, Step, locals, ResultKnown, Freeing, Child, Supervised
<1>1. list = <<>> /\ list \in Seq(Duplicates)
  BY <1>0, NoneListed DEF Freeing
<1>2. PICK V : CloseSet(V) /\ V = (IF pc = "freed" THEN {"c.inW", "doneEv"} ELSE {"inW", "hpc", "outR", "proc"})
  BY <1>0 DEF Freed, PtyFree, Step
<1>3. ~bad' /\ Held' /\ Apart' /\ own' = own \ V
  BY <1>0, <1>1, <1>2, ClosesSet
<1>4. own' = {}
  <2>1. CASE pc = "freed"
    BY <1>0, <1>2, <1>3, <2>1 DEF OwnKnown
  <2>2. CASE pc = "done"
    <3>1. own \subseteq {"inW", "hpc", "outR", "proc"}
      BY <1>0, <2>2 DEF OwnKnown, About, Kept
    <3> QED BY <1>2, <1>3, <2>2, <3>1
  <2> QED BY <1>0, <2>1, <2>2
<1>5. \E t, c \in BOOLEAN : c = TRUE /\ EndJob(t, c)
  BY DEF Freed, PtyFree
<1>6. ~Alive' /\ job' # "open" /\ (state \in {"running", "dead"} => state' \in {"running", "dead"})
  BY <1>0, <1>5, NoneLives
<1>7. OwnKnown'
  BY <1>0, <1>4 DEF OwnKnown, Creating
<1>8. ListOnce'
  BY <1>0, <1>1, SameRequest DEF ListOnce, BeforeCreate, BeforeDup
<1>9. ResultKnown' /\ ProcessKnown'
  BY <1>0, <1>6, SameRequest DEF ResultKnown, ProcessKnown, Loose, Steps, Serving, Freeing, BeforeCreate, BeforeDup
<1> QED BY <1>0, <1>3, <1>7, <1>8, <1>9 DEF LInv

LEMMA WaitKnown == ASSUME IInv, LInv, Wait PROVE LInv'
<1>1. Reap("done", "reaped") /\ Child /\ rc = "ok" /\ us /\ pc = "done"
  BY DEF Wait, OfChild, Child, Reap, Step
<1>2. list = <<>>
  BY <1>1, NoneListed
<1>3. PICK from, to : from = "done" /\ to = "reaped" /\ Reap(from, to)
  BY <1>1
<1> QED BY <1>1, <1>2, <1>3, ReapKnown

\* What the caller's clean-up does not name is what the writer closes, where the wait
\* for the writer has failed.
LEMMA UnwindKnown == ASSUME IInv, LInv, Unwind PROVE LInv'
<1>0. /\ us /\ us' = us /\ req' = req /\ rc' = "error" /\ ~bad /\ Apart /\ Held /\ pc = "unwind" /\ pc' = "done"
      /\ list' = list /\ slot' = slot /\ missed' = (missed \/ Writing) /\ CloseSet(UnwindCloses)
      /\ ListOnce /\ OwnKnown /\ ResultKnown /\ ProcessKnown
  BY DEF LInv, Unwind, Step, locals
<1>1. list = <<>> /\ list \in Seq(Duplicates)
  BY <1>0, NoneListed
<1>2. ~bad' /\ Held' /\ Apart' /\ own' = own \ UnwindCloses
  BY <1>0, <1>1, ClosesSet
<1>3. own' \subseteq {"wi.write"} /\ (own' # {} => missed')
  <2>1. own \subseteq MostUnwound
    BY <1>0 DEF OwnKnown
  <2>2. CASE req.kind = "pty"
    <3>1. own' = {}
      BY <1>2, <2>1, <2>2 DEF MostUnwound, UnwindCloses
    <3> QED BY <3>1
  <2>3. CASE req.kind = "detach"
    <3>1. own' = {}
      BY <1>2, <2>1, <2>3 DEF MostUnwound, UnwindCloses
    <3> QED BY <3>1
  <2>4. CASE req.kind \notin {"pty", "detach"}
    <3>1. UnwindCloses = ChildFails /\ own' \subseteq {"wi.write"}
      BY <1>2, <2>1, <2>4 DEF MostUnwound, UnwindCloses, ChildFails
    <3>2. own' # {} => "wi.write" \in own /\ "tIn" \in own
      BY <1>2, <3>1 DEF ChildFails
    <3> QED BY <1>0, <3>1, <3>2 DEF Writing
  <2> QED BY <2>2, <2>3, <2>4
<1>4. \E t, c \in BOOLEAN : c = TRUE /\ EndJob(t, c)
  BY DEF Unwind
<1>5. job' # "open" /\ Loose'
  <2>1. CASE Supervised
    BY <1>0, <1>4, <2>1, NoneLives DEF Loose
  <2>2. CASE ~Supervised
    <3>1. rc = "none"
      BY <1>0, <2>2 DEF ResultKnown, Child, Supervised
    <3>2. Loose
      BY <1>0, <3>1 DEF ProcessKnown
    <3>3. job' # "open" /\ (Alive' => Alive)
      BY <1>4 DEF EndJob, Alive
    <3>4. Alive' => missed'
      BY <1>0, <3>2, <3>3 DEF Loose
    <3>5. ~Supervised'
      BY <1>0, <2>2 DEF Supervised
    <3> QED BY <3>3, <3>4, <3>5 DEF Loose
  <2> QED BY <2>1, <2>2
<1>6. OwnKnown'
  BY <1>0, <1>3 DEF OwnKnown, Creating
<1>7. ListOnce'
  BY <1>0, <1>1, SameRequest DEF ListOnce, BeforeCreate, BeforeDup
<1>8. ResultKnown' /\ ProcessKnown'
  BY <1>0, <1>5, SameRequest DEF ResultKnown, ProcessKnown, Steps, Serving, Freeing, BeforeCreate, BeforeDup
<1> QED BY <1>0, <1>2, <1>6, <1>7, <1>8 DEF LInv

\* The writer and a script close what is theirs at any step that leaves it to them.
LEMMA BesideKnown ==
  ASSUME IInv, LInv, us, NEW V \in SUBSET Theirs, CloseSet(V),
         UNCHANGED <<req, pc, job, slot, list, missed, state, us, rc>>
  PROVE  LInv'
<1>0. /\ ~bad /\ Apart /\ Held /\ ListOnce /\ OwnKnown /\ ResultKnown /\ ProcessKnown
      /\ list \in Seq(Duplicates) /\ list' = list /\ req' = req
  BY DEF LInv, ListOnce
<1>1. ~bad' /\ Held' /\ Apart' /\ own' = own \ V
  BY <1>0, ClosesSet
<1>2. OwnKnown'
  <2>1. own \cap Theirs = {} => own' = own
    BY <1>1
  <2>2. /\ Start \cap Theirs = {} /\ Threads \cap Theirs = {} /\ Piped \cap Theirs = {}
        /\ {"thread", "proc", "outR", "errR", "c.inW", "doneEv", "monitor"} \cap Theirs = {}
    BY DEF Start, Threads, Piped, Theirs, Channels
  <2>3. \A S : About(S) => About(S)'
    BY <1>1 DEF About
  <2>4. \A S : own = S /\ S \cap Theirs = {} => own' = S
    BY <2>1
  <2>5. /\ pc \in Creating => own' = Start
        /\ pc \in {"verify", "resume", "giveup", "close"} => own' = Start \cup {"thread", "proc"}
        /\ pc \in {"cleanup", "after"} => own' = Start \cup (IF rc = "ok" THEN {"proc"} ELSE {})
        /\ pc = "readers" => own' = {"outR", "errR", "proc"} \cup Piped
        /\ pc = "input" => own' = {"outR", "errR", "proc"} \cup Threads \cup Piped
        /\ pc = "handover" => own' = {"outR", "errR", "proc", "c.inW", "doneEv", "monitor"}
    BY <1>0, <2>1, <2>2 DEF OwnKnown
  <2>6. /\ pc = "writer" => About({"outR", "errR", "proc"} \cup Threads \cup {"wi.write"})'
        /\ pc = "event" => About(Fed)'
        /\ pc = "done" /\ rc = "ok" => About(Kept)'
    <3>1. pc = "writer" => About({"outR", "errR", "proc"} \cup Threads \cup {"wi.write"})
      BY <1>0 DEF OwnKnown
    <3>2. pc = "event" => About(Fed)
      BY <1>0 DEF OwnKnown
    <3>3. pc = "done" /\ rc = "ok" => About(Kept)
      BY <1>0 DEF OwnKnown
    <3> QED BY <1>0, <1>1, <3>1, <3>2, <3>3, SameRequest DEF About
  <2>7. own' \subseteq own
    BY <1>1
  <2> QED BY <1>0, <2>5, <2>6, <2>7, SameRequest DEF OwnKnown, Creating
<1>3. ListOnce'
  BY <1>0, SameRequest DEF ListOnce, BeforeCreate, BeforeDup
<1>4. ResultKnown' /\ ProcessKnown'
  BY <1>0, SameRequest DEF ResultKnown, ProcessKnown, Loose, Alive, Steps, Serving, Freeing, BeforeCreate,
     BeforeDup
<1> QED BY <1>0, <1>1, <1>2, <1>3, <1>4 DEF LInv

LEMMA SurroundingsKnown == ASSUME IInv, LInv, Surroundings PROVE LInv'
<1>1. CASE WriterEnds
  <2>1. PICK V \in SUBSET Theirs : V = {"wi.write"}
    BY DEF Theirs
  <2> QED BY <1>1, <2>1, BesideKnown DEF WriterEnds, locals, process
<1>2. CASE ScriptCloses
  <2>1. PICK c \in Channels : CloseSet({c})
    BY <1>2 DEF ScriptCloses
  <2>2. PICK V \in SUBSET Theirs : V = {c}
    BY <2>1 DEF Theirs
  <2> QED BY <1>2, <2>1, <2>2, BesideKnown DEF ScriptCloses, locals, process
<1>3. CASE ProcessEnds
  <2>0. /\ UNCHANGED <<req, pc, job, slot, list, own, held, bad, missed, us, rc>>
        /\ Alive /\ ~Alive' /\ state' = "dead"
    BY <1>3 DEF ProcessEnds, locals, handles, Alive
  <2>1. CASE us
    <3>1. /\ ~bad /\ Apart /\ Held /\ ListOnce /\ OwnKnown /\ ResultKnown /\ ProcessKnown
      BY <2>1 DEF LInv
    <3>2. Handles(own)' = Handles(own) /\ ToSet(list)' = ToSet(list)
      BY <2>0 DEF Handles, Handle
    <3>3. Held' /\ Apart'
      BY <2>0, <3>1, <3>2 DEF Held, Apart, Handle
    <3>4. OwnKnown'
      BY <2>0, <3>1, SameRequest DEF OwnKnown, Creating, About
    <3>5. ListOnce'
      BY <2>0, <3>1, SameRequest DEF ListOnce, BeforeCreate, BeforeDup
    <3>6. ResultKnown' /\ ProcessKnown'
      BY <2>0, <3>1, SameRequest DEF ResultKnown, ProcessKnown, Loose, Steps, Serving, Freeing, BeforeCreate,
         BeforeDup
    <3> QED BY <2>0, <3>1, <3>3, <3>4, <3>5, <3>6 DEF LInv
  <2>2. CASE ~us
    BY <2>0, <2>2 DEF LInv
  <2> QED BY <2>1, <2>2
<1>4. CASE MachteldEnds
  BY <1>4 DEF MachteldEnds, LInv
<1> QED BY <1>1, <1>2, <1>3, <1>4 DEF Surroundings

LEMMA InitKnown == ASSUME Init PROVE LInv
<1>1. list = <<>> /\ own = {} /\ held = {} /\ ~bad /\ pc = "stdio" /\ rc = "none" /\ state = "none"
  BY DEF Init, locals
<1>2. Handles(own) \cup ToSet(list) = {}
  BY <1>1 DEF Handles, ToSet
<1>3. OwnKnown /\ Apart /\ Held
  BY <1>1, <1>2 DEF OwnKnown, Apart, Held, Creating
<1>4. ListOnce
  BY <1>1 DEF ListOnce
<1>5. ResultKnown /\ ProcessKnown
  BY <1>1 DEF ResultKnown, ProcessKnown, Steps, Serving, Freeing, BeforeCreate, BeforeDup
<1> QED BY <1>1, <1>3, <1>4, <1>5 DEF LInv

LEMMA StandsKnown == ASSUME IInv, LInv, UNCHANGED vars PROVE LInv'
<1>0. UNCHANGED <<req, pc, job, slot, list, own, held, bad, missed, state, us, rc>>
  BY DEF vars, locals, handles, process
<1>1. CASE us
  <2>1. /\ ~bad /\ Apart /\ Held /\ ListOnce /\ OwnKnown /\ ResultKnown /\ ProcessKnown
    BY <1>1 DEF LInv
  <2>3. Handles(own)' = Handles(own) /\ ToSet(list)' = ToSet(list)
    BY <1>0 DEF Handles, Handle
  <2>4. Held' /\ Apart'
    BY <1>0, <2>1, <2>3 DEF Held, Apart, Handle
  <2>5. OwnKnown'
    BY <1>0, <2>1, SameRequest DEF OwnKnown, Creating, About
  <2>6. ListOnce'
    BY <1>0, <2>1, SameRequest DEF ListOnce, BeforeCreate, BeforeDup
  <2>7. ResultKnown' /\ ProcessKnown'
    BY <1>0, <2>1, SameRequest DEF ResultKnown, ProcessKnown, Loose, Alive, Steps, Serving, Freeing,
       BeforeCreate, BeforeDup
  <2> QED BY <1>0, <2>1, <2>4, <2>5, <2>6, <2>7 DEF LInv
<1>2. CASE ~us
  BY <1>0, <1>2 DEF LInv
<1> QED BY <1>1, <1>2

LEMMA StepKnown == ASSUME IInv, LInv, [Next]_vars PROVE LInv'
<1>1. CASE Caller
  <2>1. CASE Stdio
    BY <2>1, StdioKnown
  <2>2. CASE JobNew \/ SetLimits
    BY <2>2, PrepareKnown
  <2>3. CASE After
    BY <2>3, AfterKnown
  <2>4. CASE Serve
    BY <2>4, ReadersKnown, InputKnown, WriterKnown, EventKnown, HandoverKnown DEF Serve
  <2>5. CASE Unwind
    BY <2>5, UnwindKnown
  <2>6. CASE Release
    BY <2>6, WaitKnown, CloseChannelsKnown, FreeKillsKnown, FreeReapsKnown, OverKnown DEF Release
  <2> QED BY <1>1, <2>1, <2>2, <2>3, <2>4, <2>5, <2>6 DEF Caller
<1>2. CASE BothLaunchers
  BY <1>2, PrepareKnown, CreateKnown, LaunchedKnown, CleanupKnown DEF BothLaunchers
<1>3. CASE StdioLauncher
  BY <1>3, DupKnown, VerifyKnown, GiveUpKnown DEF StdioLauncher
<1>4. CASE Surroundings
  BY <1>4, SurroundingsKnown
<1>5. CASE UNCHANGED vars
  BY <1>5, StandsKnown
<1> QED BY <1>1, <1>2, <1>3, <1>4, <1>5 DEF Next

\* Whatever step of a launch fails, no process, job or handle of it is left, but for a
\* detached process or a writer whose wait has failed; one that goes well leaves what its
\* owner goes on naming; whether its owner waits, closes or hands over to Tcl, no handle is
\* closed twice and none is forgotten (the cleanups of wj_launch, child_launch, pty_spawn
\* and DetachCmd, child_channels, child_reap and child_free).
THEOREM NothingLeftBehindHolds == Spec => []NothingLeftBehind
<1>1. LInv => NothingLeftBehind
  <2> SUFFICES ASSUME LInv PROVE NothingLeftBehind
    OBVIOUS
  <2>0. ~bad
    BY DEF LInv
  <2>1. CASE us /\ pc = "done" /\ rc = "ok"
    <3>1. list = <<>> /\ OwnKnown /\ Held /\ ProcessKnown
      BY <2>1, NoneListed DEF LInv
    <3>2. held = Handles(own) /\ About(Kept) /\ state \in {"running", "dead"}
      BY <2>1, <3>1 DEF Held, ToSet, OwnKnown, ProcessKnown
    <3> QED BY <2>0, <2>1, <3>2 DEF NothingLeftBehind, About, Theirs
  <2>2. CASE us /\ ((pc = "done" /\ rc = "error") \/ pc = "over")
    <3>1. OwnKnown /\ Held /\ ProcessKnown /\ ListOnce
      BY <2>2 DEF LInv
    <3>2. list = <<>>
      BY <2>2, <3>1 DEF ListOnce
    <3>3. held = Handles(own) /\ own \subseteq {"wi.write"} /\ (own # {} => missed)
      BY <2>2, <3>1, <3>2 DEF Held, ToSet, OwnKnown
    <3>4. held \subseteq (IF missed THEN Handles({"wi.write"}) ELSE {})
      BY <3>3 DEF Handles
    <3>5. Loose /\ job # "open"
      BY <2>2, <3>1 DEF ProcessKnown
    <3> QED BY <2>0, <2>2, <3>4, <3>5 DEF NothingLeftBehind, Loose
  <2>3. CASE ~us \/ ~(pc = "over" \/ (pc = "done" /\ rc \in {"ok", "error"}))
    BY <2>0, <2>3 DEF NothingLeftBehind
  <2> QED BY <2>1, <2>2, <2>3
<1>2. Init /\ [][Next]_vars => [](IInv /\ LInv)
  BY InitIInv, IInvStep, InitKnown, StepKnown, PTL
<1> QED
  BY <1>1, <1>2, PTL DEF Spec
------------------------------------------------------------------------------
(* The readers of a command line read back what the quoting of Cmdline writes,   *)
(* for every list of arguments: ProgramReadsBack for programs, BatchReadsBack for *)
(* batch files. A reader is followed character by character: Inside says that it  *)
(* has read all of an argument but the run of backslashes it still counts, the    *)
(* run the quoting has counted, and Sends that a piece of a line gets through cmd. *)

\* What the folds of the readers and of the quoting compute, step by step.
Parse == INSTANCE SeqProofs WITH Step <- ParseStep
Escape == INSTANCE SeqProofs WITH Step <- EscapeStep
Reads(st, s) == FoldLeft(ParseStep, st, s)
Escapes(acc, s) == FoldLeft(EscapeStep, acc, s)

LEMMA ReadsIs == \A st, s : Reads(st, s) = Parse!FoldLeft(ParseStep, st, s)
  BY DEF Reads, FoldLeft, Parse!FoldLeft, MapThenFoldSet, Parse!MapThenFoldSet, Max, Parse!Max
LEMMA EscapesIs == \A st, s : Escapes(st, s) = Escape!FoldLeft(EscapeStep, st, s)
  BY DEF Escapes, FoldLeft, Escape!FoldLeft, MapThenFoldSet, Escape!MapThenFoldSet, Max, Escape!Max
LEMMA JoinsIs == \A q : FlattenSeq(q) = Parse!FlattenSeq(q)
  BY DEF FlattenSeq, Parse!FlattenSeq

LEMMA ReadsNone == \A st : Reads(st, <<>>) = st
  BY ReadsIs, Parse!FoldEmpty
LEMMA ReadsLast ==
  ASSUME NEW A, NEW s \in Seq(A), NEW c \in A, NEW st
  PROVE  Reads(st, Append(s, c)) = ParseStep(Reads(st, s), c)
  BY ReadsIs, Parse!FoldAppend
LEMMA ReadsBoth ==
  ASSUME NEW A, NEW s \in Seq(A), NEW t \in Seq(A), NEW st
  PROVE  Reads(st, s \o t) = Reads(Reads(st, s), t)
  BY ReadsIs, Parse!FoldConcat
LEMMA ReadsOne == ASSUME NEW st, NEW c PROVE Reads(st, <<c>>) = ParseStep(st, c)
<1>1. <<>> \in Seq({c}) /\ c \in {c} /\ Append(<<>>, c) = <<c>>
  BY EmptySeq
<1>2. Reads(st, Append(<<>>, c)) = ParseStep(Reads(st, <<>>), c)
  BY <1>1, ReadsLast
<1> QED BY <1>1, <1>2, ReadsNone
---------------------------------------------------------------------------
(* Runs of backslashes *)

LEMMA SlashesAre ==
  ASSUME NEW n \in Nat
  PROVE  /\ Slashes(n) \in Seq(Chars)
         /\ Slashes(0) = <<>>
         /\ Slashes(n + 1) = Append(Slashes(n), "b")
<1>1. \A i \in 1 .. n : "b" \in Chars
  BY DEF Chars
<1>2. Slashes(n) \in Seq(Chars) /\ Len(Slashes(n)) = n
  BY <1>1 DEF Slashes
<1>3. Slashes(n + 1) \in Seq(Chars) /\ Len(Slashes(n + 1)) = n + 1
  BY DEF Slashes, Chars
<1>4. Slashes(0) = <<>>
  BY DEF Slashes
<1>5. Slashes(n + 1) = Append(Slashes(n), "b")
  <2> DEFINE r == Append(Slashes(n), "b")
  <2>1. r \in Seq(Chars) /\ Len(r) = n + 1 /\ r[n + 1] = "b"
        /\ \A i \in 1 .. n : r[i] = Slashes(n)[i]
    BY <1>2, AppendProperties DEF Chars
  <2>2. \A i \in 1 .. n + 1 : r[i] = Slashes(n + 1)[i]
    BY <2>1 DEF Slashes
  <2> HIDE DEF r
  <2>3. r = Slashes(n + 1)
    BY <1>3, <2>1, <2>2, SeqEqual
  <2> QED BY <2>3 DEF r
<1> QED BY <1>2, <1>4, <1>5

\* A state of the reader: the arguments it has, the text of the one it is in, the run
\* of backslashes behind that, whether it is in quotes, in an argument, just out of quotes.
State(A, k, r, w, y, z) ==
  [args |-> A, cur |-> k, run |-> r, in |-> w, any |-> y, closed |-> z]
At(st, A, k, r, w, y, z) == st = State(A, k, r, w, y, z)
Begin(A) == State(A, <<>>, 0, FALSE, FALSE, FALSE)
\* The text p is k and a run of backslashes; a text and one more character.
Cut(k, r, p) == k \o Slashes(r) = p
Plus(p, c) == p \o <<c>>
\* A character of the text that means nothing else where it stands.
Literal(c, w) == c # "b" /\ c # "q" /\ (c # "s" \/ w = TRUE)

\* What one character does.
LEMMA ReadSlash ==
  ASSUME NEW st, NEW A, NEW k, NEW r, NEW w, NEW y, NEW z, At(st, A, k, r, w, y, z)
  PROVE  At(ParseStep(st, "b"), A, k, r + 1, w, TRUE, FALSE)
<1>1. ParseStep(st, "b") = [st EXCEPT !.run = @ + 1, !.any = TRUE, !.closed = FALSE]
  BY DEF ParseStep
<1> QED BY <1>1 DEF At, State

LEMMA ReadOther ==
  ASSUME NEW st, NEW A, NEW k, NEW r, NEW w, NEW y, NEW z, At(st, A, k, r, w, y, z),
         NEW p, Cut(k, r, p), NEW c, Literal(c, w)
  PROVE  At(ParseStep(st, c), A, Plus(p, c), 0, w, TRUE, FALSE)
<1>1. ParseStep(State(A, k, r, w, y, z), c) = State(A, Plus(p, c), 0, w, TRUE, FALSE)
  BY DEF ParseStep, State, Cut, Plus, Literal
<1> QED BY <1>1 DEF At

LEMMA ReadSpace ==
  ASSUME NEW st, NEW A, NEW k, NEW r, NEW z, At(st, A, k, r, FALSE, TRUE, z), NEW p, Cut(k, r, p)
  PROVE  ParseStep(st, "s") = Begin(Append(A, p))
<1>1. st.in = FALSE /\ st.any = TRUE /\ st.args = A
  BY DEF At, State
<1>2. [st EXCEPT !.cur = st.cur \o Slashes(st.run), !.run = 0, !.closed = FALSE].cur = p
  BY DEF At, State, Cut
<1>3. ParseStep(st, "s") = [args |-> Append(A, p), cur |-> <<>>, run |-> 0,
                            in |-> FALSE, any |-> FALSE, closed |-> FALSE]
  BY <1>1, <1>2 DEF ParseStep
<1> QED BY <1>3 DEF State, Begin

LEMMA ReadLiteralQuote ==
  ASSUME NEW st, NEW A, NEW k, NEW r \in Nat, NEW w, NEW y, NEW z,
         At(st, A, k, 2 * r + 1, w, y, z), NEW p, Cut(k, r, p)
  PROVE  At(ParseStep(st, "q"), A, Plus(p, "q"), 0, w, y, FALSE)
<1> DEFINE s == State(A, k, 2 * r + 1, w, y, z)
<1>1. s.run = 2 * r + 1 /\ s.cur = k
  BY DEF State
<1>2. s.run \in Nat /\ s.run # 0 /\ s.run % 2 = 1 /\ s.run \div 2 = r
  <2>1. 2 * r + 1 \in Nat /\ 2 * r + 1 # 0 /\ (2 * r + 1) % 2 = 1 /\ (2 * r + 1) \div 2 = r
    OBVIOUS
  <2> HIDE DEF s
  <2> QED BY <1>1, <2>1
<1>3. ParseStep(s, "q") = [s EXCEPT !.cur = Plus(p, "q"), !.run = 0, !.closed = FALSE]
  <2> HIDE DEF s
  <2>1. (s.cur \o Slashes(s.run \div 2)) \o <<"q">> = Plus(p, "q")
    BY <1>1, <1>2 DEF Cut, Plus
  <2> QED BY <1>2, <2>1 DEF ParseStep
<1>4. ParseStep(s, "q") = State(A, Plus(p, "q"), 0, w, y, FALSE)
  BY <1>3 DEF State
<1> QED BY <1>4 DEF At

LEMMA ReadQuote ==
  ASSUME NEW st, NEW A, NEW k, NEW r \in Nat, NEW w, NEW y,
         At(st, A, k, 2 * r, w, y, FALSE), NEW p, Cut(k, r, p)
  PROVE  /\ w = TRUE => At(ParseStep(st, "q"), A, p, 0, FALSE, TRUE, TRUE)
         /\ w = FALSE => At(ParseStep(st, "q"), A, p, 0, TRUE, TRUE, FALSE)
<1> DEFINE s == State(A, k, 2 * r, w, y, FALSE)
<1>1. s.run = 2 * r /\ s.cur = k /\ s.in = w /\ s.closed = FALSE
  BY DEF State
<1>2. s.run \in Nat /\ s.run % 2 = 0 /\ s.run \div 2 = r
  <2>1. 2 * r \in Nat /\ (2 * r) % 2 = 0 /\ (2 * r) \div 2 = r
    OBVIOUS
  <2> HIDE DEF s
  <2> QED BY <1>1, <2>1
<1>3. ParseStep(s, "q") = [s EXCEPT !.cur = p, !.run = 0, !.in = ~ s.in,
                                    !.any = TRUE, !.closed = s.in]
  <2> HIDE DEF s
  <2>1. ~(s.run % 2 = 1)
    BY <1>2
  <2>2. ~(s.closed /\ s.run = 0)
    BY <1>1
  <2>3. s.cur \o Slashes(s.run \div 2) = p
    BY <1>1, <1>2 DEF Cut
  <2> QED BY <2>1, <2>2, <2>3 DEF ParseStep
<1>4. CASE w = TRUE
  <2>1. ParseStep(s, "q") = State(A, p, 0, FALSE, TRUE, TRUE)
    BY <1>3, <1>4 DEF State
  <2> QED BY <1>4, <2>1 DEF At
<1>5. CASE w = FALSE
  <2>1. ParseStep(s, "q") = State(A, p, 0, TRUE, TRUE, FALSE)
    BY <1>3, <1>5 DEF State
  <2> QED BY <1>5, <2>1 DEF At
<1> QED BY <1>4, <1>5

LEMMA ReadDoubledQuote ==
  ASSUME NEW st, NEW A, NEW k, NEW w, NEW y, At(st, A, k, 0, w, y, TRUE)
  PROVE  At(ParseStep(st, "q"), A, Plus(k, "q"), 0, TRUE, y, FALSE)
<1> DEFINE s == State(A, k, 0, w, y, TRUE)
<1>1. s.run = 0 /\ s.closed = TRUE /\ s.cur = k
  BY DEF State
<1>2. ParseStep(s, "q") = [s EXCEPT !.cur = s.cur \o <<"q">>, !.in = TRUE, !.closed = FALSE]
  <2> HIDE DEF s
  <2>1. 0 % 2 # 1
    OBVIOUS
  <2> QED BY <1>1, <2>1 DEF ParseStep
<1>3. ParseStep(s, "q") = State(A, Plus(k, "q"), 0, TRUE, y, FALSE)
  BY <1>2 DEF State, Plus
<1> QED BY <1>3 DEF At
---------------------------------------------------------------------------
(* What the pieces do that the quoting writes *)

LEMMA Pair == \A c, d : <<c, d>> = Append(<<c>>, d)
  OBVIOUS
LEMMA PairIs ==
  ASSUME NEW S, NEW c \in S, NEW d \in S
  PROVE  <<c>> \in Seq(S) /\ <<c, d>> \in Seq(S)
  OBVIOUS
LEMMA ReadsTwo ==
  ASSUME NEW st, NEW c \in Chars, NEW d \in Chars
  PROVE  Reads(st, <<c, d>>) = ParseStep(ParseStep(st, c), d)
<1>1. PICK s \in Seq(Chars) : s = <<c>>
  BY PairIs
<1>2. Append(s, d) = <<c, d>>
  BY <1>1, Pair
<1>3. Reads(st, s) = ParseStep(st, c)
  BY <1>1, ReadsOne
<1>4. Reads(st, Append(s, d)) = ParseStep(Reads(st, s), d)
  BY ReadsLast
<1> QED BY <1>2, <1>3, <1>4

\* A run of as many backslashes as there were doubles it.
LEMMA ReadSlashes ==
  ASSUME NEW st, NEW A, NEW k, NEW r \in Nat, NEW w, NEW y, At(st, A, k, r, w, y, FALSE), NEW n \in Nat
  PROVE  At(Reads(st, Slashes(n)), A, k, r + n, w, IF n = 0 THEN y ELSE TRUE, FALSE)
<1> DEFINE some(m) == IF m = 0 THEN y ELSE TRUE
           D == {m \in Nat : At(Reads(st, Slashes(m)), A, k, r + m, w, some(m), FALSE)}
<1>1. 0 \in D
  <2>1. Slashes(0) = <<>>
    BY SlashesAre
  <2>2. r + 0 = r /\ some(0) = y
    OBVIOUS
  <2> QED BY <2>1, <2>2, ReadsNone
<1>2. ASSUME NEW m \in D PROVE m + 1 \in D
  <2>1. m \in Nat /\ At(Reads(st, Slashes(m)), A, k, r + m, w, some(m), FALSE)
    OBVIOUS
  <2>2. Slashes(m) \in Seq(Chars) /\ Slashes(m + 1) = Append(Slashes(m), "b") /\ "b" \in Chars
    BY <2>1, SlashesAre DEF Chars
  <2>3. Reads(st, Slashes(m + 1)) = ParseStep(Reads(st, Slashes(m)), "b")
    BY <2>2, ReadsLast
  <2>4. (r + m) + 1 = r + (m + 1) /\ m + 1 \in Nat /\ some(m + 1) = TRUE
    BY <2>1
  <2> HIDE DEF D, some
  <2>5. At(Reads(st, Slashes(m + 1)), A, k, (r + m) + 1, w, TRUE, FALSE)
    BY <2>1, <2>3, ReadSlash
  <2> QED BY <2>4, <2>5 DEF D
<1>3. D = Nat
  BY <1>1, <1>2, Parse!NatSetInduction
<1> QED BY <1>3

LEMMA ReadSlashesTwice ==
  ASSUME NEW st, NEW A, NEW k, NEW r \in Nat, NEW w, NEW y, At(st, A, k, r, w, y, FALSE)
  PROVE  \E v : At(Reads(st, Slashes(r)), A, k, 2 * r, w, v, FALSE)
<1>1. At(Reads(st, Slashes(r)), A, k, r + r, w, IF r = 0 THEN y ELSE TRUE, FALSE)
  BY ReadSlashes
<1>2. r + r = 2 * r
  OBVIOUS
<1> QED BY <1>1, <1>2

LEMMA PlusIs ==
  ASSUME NEW p \in Seq(Chars), NEW c \in Chars
  PROVE  Plus(p, c) = Append(p, c) /\ Plus(p, c) \in Seq(Chars) /\ Cut(Plus(p, c), 0, Plus(p, c))
<1>1. Plus(p, c) = Append(p, c) /\ Append(p, c) \in Seq(Chars)
  BY AppendIsConcat, AppendProperties DEF Plus
<1>2. Slashes(0) = <<>>
  BY SlashesAre
<1> QED BY <1>1, <1>2, ConcatEmptySeq DEF Cut
LEMMA CutMore ==
  ASSUME NEW k \in Seq(Chars), NEW r \in Nat, NEW p, Cut(k, r, p)
  PROVE  Cut(k, r + 1, Append(p, "b")) /\ p \in Seq(Chars)
<1>1. Slashes(r) \in Seq(Chars) /\ Slashes(r + 1) = Append(Slashes(r), "b") /\ "b" \in Chars
  BY SlashesAre DEF Chars
<1>2. PICK x \in Seq(Chars) : x = Slashes(r)
  BY <1>1
<1>3. k \o Append(x, "b") = Append(k \o x, "b")
  BY <1>1
<1>4. k \o x \in Seq(Chars)
  OBVIOUS
<1> HIDE DEF Slashes
<1> QED BY <1>1, <1>2, <1>3, <1>4 DEF Cut

\* In an argument: its text so far, p, is read but for a run of r backslashes.
Inside(st, A, p, r, w) ==
  \E k, y :
    /\ k \in Seq(Chars) /\ At(st, A, k, r, w, y, FALSE) /\ Cut(k, r, p)
    /\ y = TRUE \/ (p = <<>> /\ w = FALSE)
\* An argument is read, and a space or the end of the line will say so.
Ended(st, A, a) ==
  \E k, r, z : k \in Seq(Chars) /\ r \in Nat /\ At(st, A, k, r, FALSE, TRUE, z) /\ Cut(k, r, a)

LEMMA InsideSlash ==
  ASSUME NEW st, NEW A, NEW p, NEW r \in Nat, NEW w, Inside(st, A, p, r, w)
  PROVE  Inside(ParseStep(st, "b"), A, Append(p, "b"), r + 1, w)
<1>1. PICK k, y : k \in Seq(Chars) /\ At(st, A, k, r, w, y, FALSE) /\ Cut(k, r, p)
  BY Zenon DEF Inside
<1>2. At(ParseStep(st, "b"), A, k, r + 1, w, TRUE, FALSE)
  BY <1>1, ReadSlash
<1>3. Cut(k, r + 1, Append(p, "b"))
  BY <1>1, CutMore
<1> QED BY <1>1, <1>2, <1>3, Zenon DEF Inside

\* A character of the text ends the run.
LEMMA InsideOther ==
  ASSUME NEW st, NEW A, NEW p \in Seq(Chars), NEW r \in Nat, NEW w, Inside(st, A, p, r, w),
         NEW c \in Chars, Literal(c, w)
  PROVE  Inside(ParseStep(st, c), A, Append(p, c), 0, w)
<1>1. PICK k, y : k \in Seq(Chars) /\ At(st, A, k, r, w, y, FALSE) /\ Cut(k, r, p)
  BY Zenon DEF Inside
<1>2. At(ParseStep(st, c), A, Plus(p, c), 0, w, TRUE, FALSE)
  BY <1>1, ReadOther
<1> QED BY <1>2, PlusIs, Zenon DEF Inside

\* What stands for a quote: the run doubled, and a backslash for the quote itself.
LEMMA InsideQuote ==
  ASSUME NEW st, NEW A, NEW p \in Seq(Chars), NEW r \in Nat, NEW w, Inside(st, A, p, r, w)
  PROVE  Inside(Reads(st, Slashes(r) \o <<"b", "q">>), A, Append(p, "q"), 0, w)
<1>1. PICK k, y : k \in Seq(Chars) /\ At(st, A, k, r, w, y, FALSE) /\ Cut(k, r, p)
  BY Zenon DEF Inside
<1>2. Slashes(r) \in Seq(Chars) /\ <<"b", "q">> \in Seq(Chars) /\ "b" \in Chars /\ "q" \in Chars
  <2>1. "b" \in Chars /\ "q" \in Chars
    BY DEF Chars
  <2> QED BY <2>1, SlashesAre, PairIs
<1> DEFINE s1 == Reads(st, Slashes(r))
<1>3. Reads(st, Slashes(r) \o <<"b", "q">>) = ParseStep(ParseStep(s1, "b"), "q")
  <2>1. Reads(st, Slashes(r) \o <<"b", "q">>) = Reads(s1, <<"b", "q">>)
    BY <1>2, ReadsBoth
  <2> QED BY <1>2, <2>1, ReadsTwo
<1>4. PICK v : At(s1, A, k, 2 * r, w, v, FALSE)
  BY <1>1, ReadSlashesTwice
<1> HIDE DEF s1
<1>5. At(ParseStep(s1, "b"), A, k, 2 * r + 1, w, TRUE, FALSE)
  BY <1>4, ReadSlash
<1>6. At(ParseStep(ParseStep(s1, "b"), "q"), A, Plus(p, "q"), 0, w, TRUE, FALSE)
  BY <1>1, <1>5, ReadLiteralQuote
<1> QED BY <1>2, <1>3, <1>6, PlusIs, Zenon DEF Inside

\* The quotes around an argument: the run before the closing one is doubled.
LEMMA InsideCloses ==
  ASSUME NEW st, NEW A, NEW p \in Seq(Chars), NEW r \in Nat, Inside(st, A, p, r, TRUE)
  PROVE  Ended(Reads(st, Slashes(r) \o <<"q">>), A, p)
<1>1. PICK k, y : k \in Seq(Chars) /\ At(st, A, k, r, TRUE, y, FALSE) /\ Cut(k, r, p)
  BY Zenon DEF Inside
<1>2. Slashes(r) \in Seq(Chars) /\ <<"q">> \in Seq(Chars) /\ "q" \in Chars
  <2>1. "q" \in Chars
    BY DEF Chars
  <2> QED BY <2>1, SlashesAre, PairIs
<1> DEFINE s1 == Reads(st, Slashes(r))
<1>3. Reads(st, Slashes(r) \o <<"q">>) = ParseStep(s1, "q")
  <2>1. Reads(st, Slashes(r) \o <<"q">>) = Reads(s1, <<"q">>)
    BY <1>2, ReadsBoth
  <2> QED BY <2>1, ReadsOne
<1>4. PICK v : At(s1, A, k, 2 * r, TRUE, v, FALSE)
  BY <1>1, ReadSlashesTwice
<1> HIDE DEF s1
<1>5. At(ParseStep(s1, "q"), A, p, 0, FALSE, TRUE, TRUE)
  BY <1>1, <1>4, ReadQuote
<1>6. Cut(p, 0, p) /\ 0 \in Nat
  BY SlashesAre, ConcatEmptySeq DEF Cut
<1> QED BY <1>3, <1>5, <1>6, Zenon DEF Ended
---------------------------------------------------------------------------
(* Programs: what wj_escape_arg writes for an argument is read as that argument. *)

\* What is written so far is read as p, but for the run just written.
Written(acc, A, p, w) ==
  /\ acc.out \in Seq(Chars) /\ acc.run \in Nat
  /\ Inside(Reads(Begin(A), acc.out), A, p, acc.run, w)
Opening(w) == [out |-> IF w THEN <<"q">> ELSE <<>>, run |-> 0]

LEMMA ReadsMore ==
  ASSUME NEW s \in Seq(Chars), NEW c \in Chars, NEW st
  PROVE  s \o <<c>> \in Seq(Chars) /\ Reads(st, s \o <<c>>) = ParseStep(Reads(st, s), c)
<1>1. <<c>> \in Seq(Chars)
  BY PairIs
<1>2. Reads(st, s \o <<c>>) = Reads(Reads(st, s), <<c>>)
  BY <1>1, ReadsBoth
<1> QED BY <1>1, <1>2, ReadsOne, ConcatProperties

LEMMA OpeningReads ==
  ASSUME NEW A, NEW w \in BOOLEAN
  PROVE  Written(Opening(w), A, <<>>, w)
<1>0. <<>> \in Seq(Chars) /\ "q" \in Chars /\ 0 \in Nat /\ 2 * 0 = 0
  BY EmptySeq DEF Chars
<1>1. At(Begin(A), A, <<>>, 0, FALSE, FALSE, FALSE)
  BY DEF At, Begin
<1>2. Cut(<<>>, 0, <<>>)
  BY <1>0, SlashesAre, ConcatEmptySeq DEF Cut
<1>3. CASE w = FALSE
  <2>1. Opening(w).out = <<>> /\ Opening(w).run = 0
    BY <1>3 DEF Opening
  <2>2. Inside(Begin(A), A, <<>>, 0, FALSE)
    BY <1>0, <1>1, <1>2, Zenon DEF Inside
  <2> QED BY <1>0, <1>3, <2>1, <2>2, ReadsNone DEF Written
<1>4. CASE w = TRUE
  <2>1. Opening(w).out = <<"q">> /\ Opening(w).run = 0
    BY <1>4 DEF Opening
  <2>2. At(ParseStep(Begin(A), "q"), A, <<>>, 0, TRUE, TRUE, FALSE)
    <3>1. At(Begin(A), A, <<>>, 2 * 0, FALSE, FALSE, FALSE)
      BY <1>0, <1>1
    <3> QED BY <1>0, <1>2, <3>1, ReadQuote
  <2>3. Inside(ParseStep(Begin(A), "q"), A, <<>>, 0, TRUE)
    BY <1>0, <1>2, <2>2, Zenon DEF Inside
  <2>4. <<"q">> \in Seq(Chars)
    BY <1>0, PairIs
  <2> QED BY <1>0, <1>4, <2>1, <2>3, <2>4, ReadsOne DEF Written
<1> QED BY <1>3, <1>4

LEMMA WrittenBy ==
  ASSUME NEW acc, NEW A, NEW p, NEW w, NEW n \in Nat, NEW o \in Seq(Chars), acc = [out |-> o, run |-> n],
         Inside(Reads(Begin(A), o), A, p, n, w)
  PROVE  Written(acc, A, p, w)
<1>1. acc.out = o /\ acc.run = n
  OBVIOUS
<1> QED BY <1>1 DEF Written

LEMMA EscapeOne ==
  ASSUME NEW acc, NEW A, NEW p \in Seq(Chars), NEW w, Written(acc, A, p, w),
         NEW c \in Chars, c = "s" => w = TRUE
  PROVE  Written(EscapeStep(acc, c), A, Append(p, c), w)
<1> DEFINE st == Reads(Begin(A), acc.out)
<1>1. acc.out \in Seq(Chars) /\ acc.run \in Nat /\ Inside(st, A, p, acc.run, w)
  BY DEF Written
<1>2. CASE c = "b"
  <2>1. EscapeStep(acc, c) = [out |-> acc.out \o <<"b">>, run |-> acc.run + 1]
    BY <1>2 DEF EscapeStep, Put
  <2>2. Inside(ParseStep(st, "b"), A, Append(p, "b"), acc.run + 1, w)
    BY <1>1, InsideSlash
  <2>3. acc.out \o <<"b">> \in Seq(Chars) /\ Reads(Begin(A), acc.out \o <<"b">>) = ParseStep(st, "b")
    BY <1>1, <1>2, ReadsMore
  <2>4. acc.run + 1 \in Nat
    BY <1>1
  <2>5. Written(EscapeStep(acc, c), A, Append(p, "b"), w)
    BY <2>1, <2>2, <2>3, <2>4, WrittenBy
  <2> QED BY <1>2, <2>5
<1>3. CASE c = "q"
  <2> DEFINE t == Slashes(acc.run) \o <<"b", "q">>
  <2>1. EscapeStep(acc, c) = [out |-> acc.out \o t, run |-> 0]
    BY <1>3 DEF EscapeStep, Put
  <2>2. Inside(Reads(st, t), A, Append(p, "q"), 0, w)
    BY <1>1, InsideQuote
  <2>3. t \in Seq(Chars)
    <3>1. "b" \in Chars /\ "q" \in Chars
      BY DEF Chars
    <3>2. Slashes(acc.run) \in Seq(Chars) /\ <<"b", "q">> \in Seq(Chars)
      BY <1>1, <3>1, SlashesAre, PairIs
    <3> QED BY <3>2, ConcatProperties
  <2> HIDE DEF t
  <2>4. acc.out \o t \in Seq(Chars) /\ Reads(Begin(A), acc.out \o t) = Reads(st, t)
    BY <1>1, <2>3, ReadsBoth, ConcatProperties
  <2>5. 0 \in Nat
    OBVIOUS
  <2>6. Written(EscapeStep(acc, c), A, Append(p, "q"), w)
    BY <2>1, <2>2, <2>4, <2>5, WrittenBy
  <2> QED BY <1>3, <2>6
<1>4. CASE c # "b" /\ c # "q"
  <2>1. EscapeStep(acc, c) = [out |-> acc.out \o <<c>>, run |-> 0]
    BY <1>4 DEF EscapeStep, Put
  <2>2. Inside(ParseStep(st, c), A, Append(p, c), 0, w)
    <3>1. Literal(c, w)
      BY <1>4 DEF Literal
    <3> QED BY <1>1, <3>1, InsideOther
  <2>3. acc.out \o <<c>> \in Seq(Chars) /\ Reads(Begin(A), acc.out \o <<c>>) = ParseStep(st, c)
    BY <1>1, ReadsMore
  <2> QED BY <2>1, <2>2, <2>3 DEF Written
<1> QED BY <1>2, <1>3, <1>4

LEMMA HasLast ==
  ASSUME NEW s \in Seq(Chars), NEW c \in Chars, NEW C
  PROVE  Has(Append(s, c), C) <=> Has(s, C) \/ c \in C
<1> DEFINE r == Append(s, c)
           N == Len(s)
<1>1. N \in Nat /\ DOMAIN s = 1 .. N /\ DOMAIN r = 1 .. N + 1 /\ r[N + 1] = c
      /\ \A i \in 1 .. N : r[i] = s[i]
  BY AppendProperties, LenProperties
<1> HIDE DEF r, N
<1>2. 1 .. N + 1 = (1 .. N) \cup {N + 1}
  BY <1>1
<1>3. Has(r, C) <=> Has(s, C) \/ c \in C
  BY <1>1, <1>2 DEF Has
<1> QED BY <1>3 DEF r

LEMMA EscapedSoFar ==
  ASSUME NEW A, NEW w \in BOOLEAN, NEW s \in Seq(Chars), Has(s, {"s"}) => w = TRUE
  PROVE  Written(Escapes(Opening(w), s), A, s, w)
<1> DEFINE D == {u \in Seq(Chars) : (Has(u, {"s"}) => w = TRUE)
                   => Written(Escapes(Opening(w), u), A, u, w)}
<1>1. <<>> \in D
  BY EmptySeq, OpeningReads, EscapesIs, Escape!FoldEmpty
<1>2. ASSUME NEW u \in D, NEW c \in Chars PROVE Append(u, c) \in D
  <2>1. u \in Seq(Chars) /\ ((Has(u, {"s"}) => w = TRUE) => Written(Escapes(Opening(w), u), A, u, w))
    OBVIOUS
  <2>2. Append(u, c) \in Seq(Chars)
    BY <2>1, AppendProperties
  <2>3. ASSUME Has(Append(u, c), {"s"}) => w = TRUE
        PROVE  Written(Escapes(Opening(w), Append(u, c)), A, Append(u, c), w)
    <3>1. (Has(u, {"s"}) => w = TRUE) /\ (c = "s" => w = TRUE)
      BY <2>1, <2>3, HasLast
    <3>2. Written(EscapeStep(Escapes(Opening(w), u), c), A, Append(u, c), w)
      BY <2>1, <3>1, EscapeOne
    <3>3. Escapes(Opening(w), Append(u, c)) = EscapeStep(Escapes(Opening(w), u), c)
      BY <2>1, EscapesIs, Escape!FoldAppend
    <3> QED BY <3>2, <3>3
  <2> QED BY <2>2, <2>3
<1>3. D = Seq(Chars)
  BY <1>1, <1>2, Parse!SeqSetInduction
<1> QED BY <1>3

LEMMA EscapeArgReads ==
  ASSUME NEW A, NEW a \in Seq(Chars)
  PROVE  EscapeArg(a) \in Seq(Chars) /\ Ended(Reads(Begin(A), EscapeArg(a)), A, a)
<1>0. "q" \in Chars
  BY DEF Chars
<1> DEFINE w == Has(a, {"s"})
           acc == Escapes(Opening(w), a)
<1>1. w \in BOOLEAN
  BY DEF Has
<1>2. CASE a = <<>>
  <2>1. EscapeArg(a) = <<"q", "q">>
    BY <1>2 DEF EscapeArg
  <2>2. Written(Opening(TRUE), A, <<>>, TRUE)
    BY OpeningReads
  <2>3. Opening(TRUE).out = <<"q">> /\ Opening(TRUE).run = 0
    BY DEF Opening
  <2>4. Inside(ParseStep(Begin(A), "q"), A, <<>>, 0, TRUE)
    BY <2>2, <2>3, ReadsOne DEF Written
  <2>5. Ended(Reads(ParseStep(Begin(A), "q"), Slashes(0) \o <<"q">>), A, <<>>)
    BY <2>4, EmptySeq, InsideCloses
  <2>6. Slashes(0) \o <<"q">> = <<"q">>
    <3>1. Slashes(0) = <<>> /\ <<"q">> \in Seq(Chars)
      BY <1>0, SlashesAre, PairIs
    <3> QED BY <3>1, ConcatEmptySeq
  <2>7. Reads(Begin(A), <<"q", "q">>) = ParseStep(ParseStep(Begin(A), "q"), "q")
    BY <1>0, ReadsTwo
  <2>8. Reads(ParseStep(Begin(A), "q"), <<"q">>) = ParseStep(ParseStep(Begin(A), "q"), "q")
    BY ReadsOne
  <2>9. <<"q", "q">> \in Seq(Chars)
    BY <1>0, PairIs
  <2> QED BY <1>2, <2>1, <2>5, <2>6, <2>7, <2>8, <2>9
<1>3. CASE a # <<>>
  <2>1. Written(acc, A, a, w)
    BY <1>1, EscapedSoFar
  <2>2. EscapeArg(a) = IF w THEN acc.out \o Slashes(acc.run) \o <<"q">> ELSE acc.out
    BY <1>3 DEF EscapeArg, Quoted, Escapes, Opening
  <2>3. acc.out \in Seq(Chars) /\ acc.run \in Nat /\ Inside(Reads(Begin(A), acc.out), A, a, acc.run, w)
    BY <2>1 DEF Written
  <2> HIDE DEF acc, w
  <2>4. CASE w = TRUE
    <3>1. Ended(Reads(Reads(Begin(A), acc.out), Slashes(acc.run) \o <<"q">>), A, a)
      BY <2>3, <2>4, InsideCloses
    <3>2. PICK o, x, y : o = acc.out /\ x = Slashes(acc.run) /\ y = <<"q">>
      OBVIOUS
    <3>3. o \in Seq(Chars) /\ x \in Seq(Chars) /\ y \in Seq(Chars)
      BY <1>0, <2>3, <3>2, SlashesAre, PairIs
    <3>4. x \o y \in Seq(Chars) /\ o \o (x \o y) \in Seq(Chars) /\ (o \o x) \o y = o \o (x \o y)
      BY <3>3, ConcatProperties, ConcatAssociative
    <3>5. Reads(Begin(A), o \o (x \o y)) = Reads(Reads(Begin(A), o), x \o y)
      BY <3>3, <3>4, ReadsBoth
    <3> QED BY <2>2, <2>4, <3>1, <3>2, <3>4, <3>5
  <2>5. CASE w = FALSE
    <3>1. PICK k, y :
            /\ k \in Seq(Chars) /\ At(Reads(Begin(A), acc.out), A, k, acc.run, FALSE, y, FALSE)
            /\ Cut(k, acc.run, a) /\ y = TRUE
      BY <1>3, <2>3, <2>5 DEF Inside
    <3>2. Ended(Reads(Begin(A), acc.out), A, a)
      BY <2>3, <3>1 DEF Ended
    <3> QED BY <2>2, <2>3, <2>5, <3>2
  <2> QED BY <1>1, <2>4, <2>5 DEF w
<1> QED BY <1>2, <1>3

\* A space ends an argument, and the end of the line does.
LEMMA SpaceEnds ==
  ASSUME NEW st, NEW A, NEW a, Ended(st, A, a) PROVE ParseStep(st, "s") = Begin(Append(A, a))
<1>1. PICK k, r, z : k \in Seq(Chars) /\ r \in Nat /\ At(st, A, k, r, FALSE, TRUE, z) /\ Cut(k, r, a)
  BY Zenon DEF Ended
<1> QED BY <1>1, ReadSpace
LEMMA LineEnds ==
  ASSUME NEW text, NEW A, NEW a, Ended(Reads(Begin(<<>>), text), A, a)
  PROVE  ParseArgs(text) = Append(A, a)
<1> DEFINE st == Reads(Begin(<<>>), text)
<1>1. PICK k, r, z : k \in Seq(Chars) /\ r \in Nat /\ At(st, A, k, r, FALSE, TRUE, z) /\ Cut(k, r, a)
  BY Zenon DEF Ended
<1>2. st.any = TRUE /\ st.args = A /\ st.cur \o Slashes(st.run) = a
  <2> HIDE DEF st
  <2> QED BY <1>1 DEF At, State, Cut
<1>3. ParseArgs(text) = IF st.any THEN Append(st.args, st.cur \o Slashes(st.run)) ELSE st.args
  BY DEF ParseArgs, Reads, Begin, State
<1> HIDE DEF st
<1> QED BY <1>2, <1>3

\* A sequence given place by place.
LEMMA GivenByPlace ==
  ASSUME NEW S, NEW v \in Seq(S), NEW c \in S, NEW u, u = [i \in DOMAIN u |-> u[i]],
         DOMAIN u = 1 .. Len(v) + 1, \A i \in 1 .. Len(v) : u[i] = v[i], u[Len(v) + 1] = c
  PROVE  u = Append(v, c)
<1>1. Len(v) \in Nat /\ \A i \in 1 .. Len(v) : v[i] \in S
  BY LenProperties, ElementOfSeq
<1>2. \A i \in 1 .. Len(v) + 1 : i \in 1 .. Len(v) \/ i = Len(v) + 1
  BY <1>1
<1>3. \A i \in 1 .. Len(v) + 1 : u[i] \in S
  BY <1>1, <1>2
<1>4. u \in Seq(S) /\ Len(u) = Len(v) + 1
  BY <1>1, <1>3
<1>5. Append(v, c) \in Seq(S) /\ Len(Append(v, c)) = Len(v) + 1 /\ Append(v, c)[Len(v) + 1] = c
      /\ \A i \in 1 .. Len(v) : Append(v, c)[i] = v[i]
  BY AppendProperties
<1>6. PICK r \in Seq(S) : r = Append(v, c)
  BY <1>5
<1>7. \A i \in 1 .. Len(u) : u[i] = r[i]
  BY <1>1, <1>2, <1>4, <1>5, <1>6
<1>8. Len(u) = Len(r)
  BY <1>4, <1>5, <1>6
<1> QED BY <1>4, <1>6, <1>7, <1>8, SeqEqual

Pieces(argv) ==
  [i \in DOMAIN argv |-> IF i > 1 THEN <<"s">> \o EscapeArg(argv[i]) ELSE EscapeArg(argv[i])]
LEMMA PiecesNone == Pieces(<<>>) = <<>> /\ MakeCmdline(<<>>) = <<>>
<1>1. Pieces(<<>>) = <<>>
  BY DEF Pieces
<1> QED BY <1>1 DEF MakeCmdline, Pieces, FlattenSeq

LEMMA PiecesLast ==
  ASSUME NEW v \in Seq(Seq(Chars)), NEW c \in Seq(Chars)
  PROVE  /\ Pieces(v) \in Seq(Seq(Chars))
         /\ Pieces(Append(v, c))
              = Append(Pieces(v), IF v = <<>> THEN EscapeArg(c) ELSE <<"s">> \o EscapeArg(c))
<1> DEFINE N == Len(v)
           r == Append(v, c)
           e == IF v = <<>> THEN EscapeArg(c) ELSE <<"s">> \o EscapeArg(c)
<1>0. <<"s">> \in Seq(Chars)
  <2>1. "s" \in Chars
    BY DEF Chars
  <2> QED BY <2>1, PairIs
<1>1. N \in Nat /\ DOMAIN v = 1 .. N /\ DOMAIN r = 1 .. N + 1 /\ r[N + 1] = c
      /\ (\A i \in 1 .. N : r[i] = v[i] /\ v[i] \in Seq(Chars)) /\ (N = 0 <=> v = <<>>)
  BY AppendProperties, LenProperties, EmptySeq, ElementOfSeq
<1>2. \A x \in Seq(Chars) : EscapeArg(x) \in Seq(Chars) /\ <<"s">> \o EscapeArg(x) \in Seq(Chars)
  BY <1>0, EscapeArgReads, ConcatProperties
<1>3. e \in Seq(Chars)
  BY <1>2
<1>4. Pieces(v) \in Seq(Seq(Chars)) /\ Len(Pieces(v)) = N
  <2>1. \A i \in 1 .. N : Pieces(v)[i] \in Seq(Chars)
    BY <1>1, <1>2 DEF Pieces
  <2>2. Pieces(v) = [i \in 1 .. N |-> Pieces(v)[i]]
    BY <1>1 DEF Pieces
  <2> QED BY <1>1, <2>1, <2>2
<1> HIDE DEF N, r
<1>5. /\ DOMAIN Pieces(r) = 1 .. N + 1 /\ Pieces(r) = [i \in DOMAIN Pieces(r) |-> Pieces(r)[i]]
      /\ \A i \in 1 .. N + 1 :
            Pieces(r)[i] = IF i > 1 THEN <<"s">> \o EscapeArg(r[i]) ELSE EscapeArg(r[i])
  BY <1>1 DEF Pieces
<1>6. \A i \in 1 .. N : Pieces(r)[i] = Pieces(v)[i]
  <2>1. \A i \in 1 .. N : i \in 1 .. N + 1
    BY <1>1
  <2>2. \A i \in 1 .. N : Pieces(v)[i] = IF i > 1 THEN <<"s">> \o EscapeArg(v[i]) ELSE EscapeArg(v[i])
    BY <1>1 DEF Pieces
  <2> QED BY <1>1, <1>5, <2>1, <2>2
<1>7. Pieces(r)[N + 1] = e
  <2>1. N + 1 \in 1 .. N + 1 /\ (N + 1 > 1 <=> v # <<>>)
    BY <1>1
  <2> QED BY <1>1, <1>5, <2>1
<1> HIDE DEF e
<1>8. Pieces(r) = Append(Pieces(v), e)
  BY <1>3, <1>4, <1>5, <1>6, <1>7, GivenByPlace
<1> QED BY <1>4, <1>8 DEF r, e

LEMMA CmdlineLast ==
  ASSUME NEW v \in Seq(Seq(Chars)), NEW c \in Seq(Chars)
  PROVE  /\ MakeCmdline(v) \in Seq(Chars)
         /\ MakeCmdline(Append(v, c))
              = MakeCmdline(v) \o (IF v = <<>> THEN EscapeArg(c) ELSE <<"s">> \o EscapeArg(c))
<1> DEFINE e == IF v = <<>> THEN EscapeArg(c) ELSE <<"s">> \o EscapeArg(c)
<1>1. e \in Seq(Chars)
  <2>1. "s" \in Chars
    BY DEF Chars
  <2>2. <<"s">> \in Seq(Chars) /\ EscapeArg(c) \in Seq(Chars)
    BY <2>1, PairIs, EscapeArgReads
  <2> QED BY <2>2, ConcatProperties
<1>2. Pieces(v) \in Seq(Seq(Chars)) /\ Pieces(Append(v, c)) = Append(Pieces(v), e)
  BY PiecesLast
<1> HIDE DEF e
<1>3. /\ FlattenSeq(Pieces(v)) \in Seq(Chars)
      /\ FlattenSeq(Append(Pieces(v), e)) = FlattenSeq(Pieces(v)) \o e
  BY <1>1, <1>2, JoinsIs, Parse!FlatType, Parse!FlatAppend
<1>4. \A x : MakeCmdline(x) = FlattenSeq(Pieces(x))
  BY DEF MakeCmdline, Pieces
<1>5. MakeCmdline(v) \in Seq(Chars) /\ MakeCmdline(Append(v, c)) = MakeCmdline(v) \o e
  BY <1>2, <1>3, <1>4
<1> QED BY <1>5 DEF e

\* What a program reads of a line: all arguments but the last, and the last.
ReadSoFar(text, v) == \E u, a : v = Append(u, a) /\ Ended(Reads(Begin(<<>>), text), u, a)
LEMMA CmdlineReads ==
  ASSUME NEW v \in Seq(Seq(Chars)), v # <<>> PROVE ReadSoFar(MakeCmdline(v), v)
<1> DEFINE D == {x \in Seq(Seq(Chars)) : x # <<>> => ReadSoFar(MakeCmdline(x), x)}
<1>1. <<>> \in D
  BY EmptySeq
<1>2. ASSUME NEW x \in D, NEW c \in Seq(Chars) PROVE Append(x, c) \in D
  <2>1. x \in Seq(Seq(Chars)) /\ (x # <<>> => ReadSoFar(MakeCmdline(x), x))
    OBVIOUS
  <2>2. Append(x, c) \in Seq(Seq(Chars))
    BY <2>1, AppendProperties
  <2>3. PICK e : e = EscapeArg(c)
    OBVIOUS
  <2>4. e \in Seq(Chars) /\ \A A : Ended(Reads(Begin(A), e), A, c)
    BY <2>3, EscapeArgReads
  <2>5. PICK m \in Seq(Chars) : m = MakeCmdline(x)
    BY <2>1, CmdlineLast
  <2>6. MakeCmdline(Append(x, c)) = m \o (IF x = <<>> THEN e ELSE <<"s">> \o e)
    BY <2>1, <2>3, <2>5, CmdlineLast
  <2> HIDE DEF D
  <2>7. CASE x = <<>>
    <3>1. m = <<>>
      BY <2>5, <2>7, PiecesNone
    <3>2. MakeCmdline(Append(x, c)) = e
      BY <2>4, <2>6, <2>7, <3>1, ConcatEmptySeq
    <3>3. Ended(Reads(Begin(<<>>), e), x, c)
      BY <2>4, <2>7
    <3>4. ReadSoFar(MakeCmdline(Append(x, c)), Append(x, c))
      BY <3>2, <3>3, Zenon DEF ReadSoFar
    <3> QED BY <2>2, <3>4 DEF D
  <2>8. CASE x # <<>>
    <3>1. PICK u, a : x = Append(u, a) /\ Ended(Reads(Begin(<<>>), m), u, a)
      BY <2>1, <2>5, <2>8 DEF ReadSoFar
    <3>2. ParseStep(Reads(Begin(<<>>), m), "s") = Begin(x)
      BY <3>1, SpaceEnds
    <3>3. PICK q \in Seq(Chars) : q = <<"s">>
      <4>1. "s" \in Chars
        BY DEF Chars
      <4> QED BY <4>1, PairIs
    <3>4. q \o e \in Seq(Chars)
      BY <2>4, ConcatProperties
    <3>5. Reads(Begin(<<>>), m \o (q \o e)) = Reads(Reads(Reads(Begin(<<>>), m), q), e)
      <4>1. Reads(Begin(<<>>), m \o (q \o e)) = Reads(Reads(Begin(<<>>), m), q \o e)
        BY <3>4, ReadsBoth
      <4>2. Reads(Reads(Begin(<<>>), m), q \o e) = Reads(Reads(Reads(Begin(<<>>), m), q), e)
        BY <2>4, ReadsBoth
      <4> QED BY <4>1, <4>2
    <3>6. Reads(Reads(Begin(<<>>), m), q) = Begin(x)
      BY <3>2, <3>3, ReadsOne
    <3>7. MakeCmdline(Append(x, c)) = m \o (q \o e)
      BY <2>6, <2>8, <3>3
    <3>8. Ended(Reads(Begin(<<>>), MakeCmdline(Append(x, c))), x, c)
      BY <2>4, <3>5, <3>6, <3>7
    <3>9. ReadSoFar(MakeCmdline(Append(x, c)), Append(x, c))
      BY <3>8, Zenon DEF ReadSoFar
    <3> QED BY <2>2, <3>9 DEF D
  <2> QED BY <2>2, <2>7, <2>8 DEF D
<1>3. D = Seq(Seq(Chars))
  BY <1>1, <1>2, Parse!SeqSetInduction
<1> QED BY <1>3

\* A program reads from its command line the arguments that were given, whatever they hold
\* (wj_escape_arg, wj_make_cmdline).
THEOREM ProgramReadsBack == ASSUME NEW argv \in Seq(Seq(Chars)) PROVE ParseArgs(MakeCmdline(argv)) = argv
<1>1. CASE argv = <<>>
  <2>1. ParseArgs(<<>>) = <<>>
    <3>1. Reads(Begin(<<>>), <<>>) = Begin(<<>>)
      BY ReadsNone
    <3> DEFINE st == Reads(Begin(<<>>), <<>>)
    <3>2. ParseArgs(<<>>) = IF st.any THEN Append(st.args, st.cur \o Slashes(st.run)) ELSE st.args
      BY DEF ParseArgs, Reads, Begin, State
    <3>3. st.any = FALSE /\ st.args = <<>>
      BY <3>1 DEF Begin, State
    <3> HIDE DEF st
    <3> QED BY <3>2, <3>3
  <2> QED BY <1>1, <2>1, PiecesNone
<1>2. CASE argv # <<>>
  <2>1. PICK u, a : argv = Append(u, a) /\ Ended(Reads(Begin(<<>>), MakeCmdline(argv)), u, a)
    BY <1>2, CmdlineReads DEF ReadSoFar
  <2> QED BY <2>1, LineEnds
<1> QED BY <1>1, <1>2
---------------------------------------------------------------------------
(* Batch files: cmd finds nothing to act on in the line, neither before its percent   *)
(* phase nor behind it, and the script is given what the line was made of.            *)

Batch == INSTANCE SeqProofs WITH Step <- BatchStep
Percent == INSTANCE SeqProofs WITH Step <- ExpandStep
Acting == INSTANCE SeqProofs WITH Step <- ActsStep
Batches(acc, s) == FoldLeft(BatchStep, acc, s)
Expands(st, s) == FoldLeft(ExpandStep, st, s)
Acts(st, s) == FoldLeft(ActsStep, st, s)

LEMMA BatchesIs == \A st, s : Batches(st, s) = Batch!FoldLeft(BatchStep, st, s)
  BY DEF Batches, FoldLeft, Batch!FoldLeft, MapThenFoldSet, Batch!MapThenFoldSet, Max, Batch!Max
LEMMA ExpandsIs == \A st, s : Expands(st, s) = Percent!FoldLeft(ExpandStep, st, s)
  BY DEF Expands, FoldLeft, Percent!FoldLeft, MapThenFoldSet, Percent!MapThenFoldSet, Max, Percent!Max
LEMMA ActsIs == \A st, s : Acts(st, s) = Acting!FoldLeft(ActsStep, st, s)
  BY DEF Acts, FoldLeft, Acting!FoldLeft, MapThenFoldSet, Acting!MapThenFoldSet, Max, Acting!Max

\* What a line for cmd is made of.
Signs == Chars \cup {"c"}
\* The percent phase makes t of s, and is then where it was.
Shut(o) == [out |-> o, open |-> FALSE, name |-> <<>>]
Turns(s, t) == /\ s \in Seq(Signs) /\ t \in Seq(Chars)
               /\ \A o \in Seq(Chars) : Expands(Shut(o), s) = Shut(o \o t)
\* cmd finds nothing to act on in s; o and n say whether a quote is open before and behind.
Calm(o) == [open |-> o, acts |-> FALSE]
Quiet(s, o, n) == Acts(Calm(o), s) = Calm(n)
\* All of it: s is a piece of the line, t what becomes of it, and the reader goes from u to v.
Piece(s, t, u, v, o, n) == Turns(s, t) /\ Reads(u, t) = v /\ Quiet(s, o, n) /\ Quiet(t, o, n)
Sends(s, u, v, o, n) == \E t : Piece(s, t, u, v, o, n)

LEMMA TurnsThen ==
  ASSUME NEW s1, NEW t1, NEW s2, NEW t2, Turns(s1, t1), Turns(s2, t2)
  PROVE  Turns(s1 \o s2, t1 \o t2)
<1>1. s1 \in Seq(Signs) /\ t1 \in Seq(Chars) /\ s2 \in Seq(Signs) /\ t2 \in Seq(Chars)
  BY DEF Turns
<1>2. s1 \o s2 \in Seq(Signs) /\ t1 \o t2 \in Seq(Chars)
  BY <1>1, ConcatProperties
<1>3. ASSUME NEW o \in Seq(Chars) PROVE Expands(Shut(o), s1 \o s2) = Shut(o \o (t1 \o t2))
  <2>1. Expands(Shut(o), s1 \o s2) = Expands(Expands(Shut(o), s1), s2)
    BY <1>1, ExpandsIs, Percent!FoldConcat
  <2>2. Expands(Shut(o), s1) = Shut(o \o t1) /\ o \o t1 \in Seq(Chars)
    BY <1>1, ConcatProperties DEF Turns
  <2>3. Expands(Shut(o \o t1), s2) = Shut((o \o t1) \o t2)
    BY <2>2 DEF Turns
  <2>4. (o \o t1) \o t2 = o \o (t1 \o t2)
    BY <1>1, ConcatAssociative
  <2> QED BY <2>1, <2>2, <2>3, <2>4
<1> QED BY <1>2, <1>3 DEF Turns

LEMMA QuietThen ==
  ASSUME NEW S, NEW s1 \in Seq(S), NEW s2 \in Seq(S), NEW o, NEW m, NEW n,
         Quiet(s1, o, m), Quiet(s2, m, n)
  PROVE  Quiet(s1 \o s2, o, n)
<1>1. Acts(Calm(o), s1 \o s2) = Acts(Acts(Calm(o), s1), s2)
  BY ActsIs, Acting!FoldConcat
<1> QED BY <1>1 DEF Quiet

LEMMA PieceThen ==
  ASSUME NEW s1, NEW s2, NEW u, NEW v, NEW x, NEW o, NEW m, NEW n,
         Sends(s1, u, v, o, m), Sends(s2, v, x, m, n)
  PROVE  Sends(s1 \o s2, u, x, o, n)
<1>1. PICK t1 : Piece(s1, t1, u, v, o, m)
  BY DEF Sends
<1>2. PICK t2 : Piece(s2, t2, v, x, m, n)
  BY DEF Sends
<1>3. s1 \in Seq(Signs) /\ t1 \in Seq(Chars) /\ s2 \in Seq(Signs) /\ t2 \in Seq(Chars)
  BY <1>1, <1>2 DEF Piece, Turns
<1>4. Turns(s1 \o s2, t1 \o t2)
  BY <1>1, <1>2, TurnsThen DEF Piece
<1>5. Reads(u, t1 \o t2) = x
  <2>1. Reads(u, t1 \o t2) = Reads(Reads(u, t1), t2)
    BY <1>3, ReadsBoth
  <2> QED BY <1>1, <1>2, <2>1 DEF Piece
<1>6. Quiet(s1 \o s2, o, n) /\ Quiet(t1 \o t2, o, n)
  BY <1>1, <1>2, <1>3, QuietThen DEF Piece
<1>7. Piece(s1 \o s2, t1 \o t2, u, x, o, n)
  BY <1>4, <1>5, <1>6 DEF Piece
<1> QED BY <1>7 DEF Sends

LEMMA ExpandsOne == ASSUME NEW st, NEW c PROVE Expands(st, <<c>>) = ExpandStep(st, c)
<1>1. <<>> \in Seq({c}) /\ c \in {c} /\ Append(<<>>, c) = <<c>>
  BY EmptySeq
<1>2. Percent!FoldLeft(ExpandStep, st, Append(<<>>, c))
        = ExpandStep(Percent!FoldLeft(ExpandStep, st, <<>>), c)
  BY <1>1, Percent!FoldAppend
<1>3. Percent!FoldLeft(ExpandStep, st, <<>>) = st
  BY Percent!FoldEmpty
<1> QED BY <1>1, <1>2, <1>3, ExpandsIs
LEMMA ActsOne == ASSUME NEW st, NEW c PROVE Acts(st, <<c>>) = ActsStep(st, c)
<1>1. <<>> \in Seq({c}) /\ c \in {c} /\ Append(<<>>, c) = <<c>>
  BY EmptySeq
<1>2. Acting!FoldLeft(ActsStep, st, Append(<<>>, c))
        = ActsStep(Acting!FoldLeft(ActsStep, st, <<>>), c)
  BY <1>1, Acting!FoldAppend
<1>3. Acting!FoldLeft(ActsStep, st, <<>>) = st
  BY Acting!FoldEmpty
<1> QED BY <1>1, <1>2, <1>3, ActsIs

LEMMA PieceNone == ASSUME NEW u, NEW o PROVE Sends(<<>>, u, u, o, o)
<1>0. <<>> \in Seq(Signs) /\ <<>> \in Seq(Chars)
  BY EmptySeq
<1>1. ASSUME NEW x \in Seq(Chars) PROVE Expands(Shut(x), <<>>) = Shut(x \o <<>>)
  BY ConcatEmptySeq, ExpandsIs, Percent!FoldEmpty
<1>2. Quiet(<<>>, o, o)
  BY ActsIs, Acting!FoldEmpty DEF Quiet
<1>3. Piece(<<>>, <<>>, u, u, o, o)
  BY <1>0, <1>1, <1>2, ReadsNone DEF Piece, Turns
<1> QED BY <1>3 DEF Sends

\* What cmd finds at one character.
LEMMA QuietOther ==
  ASSUME NEW c, c # "q", NEW o, o = TRUE \/ o = FALSE, c = "m" => o = TRUE
  PROVE  Quiet(<<c>>, o, o)
<1>1. CASE o = TRUE
  <2>1. ActsStep(Calm(TRUE), c) = Calm(TRUE)
    BY DEF ActsStep, Calm
  <2> QED BY <1>1, <2>1, ActsOne DEF Quiet
<1>2. CASE o = FALSE
  <2>1. ActsStep(Calm(FALSE), c) = Calm(FALSE)
    BY <1>2 DEF ActsStep, Calm
  <2> QED BY <1>2, <2>1, ActsOne DEF Quiet
<1> QED BY <1>1, <1>2
LEMMA QuietQuote == Quiet(<<"q">>, TRUE, FALSE) /\ Quiet(<<"q">>, FALSE, TRUE)
<1>1. ActsStep(Calm(TRUE), "q") = Calm(FALSE) /\ ActsStep(Calm(FALSE), "q") = Calm(TRUE)
  BY DEF ActsStep, Calm
<1> QED BY <1>1, ActsOne DEF Quiet

LEMMA TurnsOne == ASSUME NEW c \in Chars, c # "p" PROVE Turns(<<c>>, <<c>>)
<1>1. <<c>> \in Seq(Chars) /\ <<c>> \in Seq(Signs)
  BY PairIs DEF Signs
<1>2. ASSUME NEW x \in Seq(Chars) PROVE Expands(Shut(x), <<c>>) = Shut(x \o <<c>>)
  <2>1. ExpandStep(Shut(x), c) = Shut(Append(x, c))
    BY DEF ExpandStep, Shut
  <2> QED BY <2>1, AppendIsConcat, ExpandsOne
<1> QED BY <1>1, <1>2 DEF Turns

LEMMA PieceOther ==
  ASSUME NEW u, NEW c \in Chars, c # "p", c # "q", NEW o, o = TRUE \/ o = FALSE, c = "m" => o = TRUE
  PROVE  Sends(<<c>>, u, ParseStep(u, c), o, o)
<1>1. Piece(<<c>>, <<c>>, u, ParseStep(u, c), o, o)
  BY TurnsOne, QuietOther, ReadsOne DEF Piece
<1> QED BY <1>1 DEF Sends
LEMMA PieceQuote ==
  ASSUME NEW u
  PROVE  /\ Sends(<<"q">>, u, ParseStep(u, "q"), TRUE, FALSE)
         /\ Sends(<<"q">>, u, ParseStep(u, "q"), FALSE, TRUE)
<1>0. "q" \in Chars
  BY DEF Chars
<1>1. /\ Piece(<<"q">>, <<"q">>, u, ParseStep(u, "q"), TRUE, FALSE)
      /\ Piece(<<"q">>, <<"q">>, u, ParseStep(u, "q"), FALSE, TRUE)
  BY <1>0, TurnsOne, QuietQuote, ReadsOne DEF Piece
<1> QED BY <1>1 DEF Sends

LEMMA TwoAndTwo ==
  ASSUME NEW S, NEW c \in S, NEW d \in S, NEW e \in S, NEW f \in S
  PROVE  <<c, d>> \o <<e, f>> = <<c, d, e, f>>
<1>1. /\ <<c, d>> \in Seq(S) /\ Len(<<c, d>>) = 2 /\ <<e, f>> \in Seq(S) /\ Len(<<e, f>>) = 2
      /\ <<c, d, e, f>> \in Seq(S) /\ Len(<<c, d, e, f>>) = 4
  OBVIOUS
<1>2. PICK s \in Seq(S) : s = <<c, d>> \o <<e, f>>
  BY <1>1, ConcatProperties
<1>3. Len(s) = 4 /\ s[1] = c /\ s[2] = d /\ s[3] = e /\ s[4] = f
  BY <1>1, <1>2, ConcatProperties
<1>4. \A i \in 1 .. 4 : s[i] = <<c, d, e, f>>[i]
  <2>1. LET t == <<c, d, e, f>> IN t[1] = c /\ t[2] = d /\ t[3] = e /\ t[4] = f
    OBVIOUS
  <2>2. 1 .. 4 = {1, 2, 3, 4}
    OBVIOUS
  <2> QED BY <1>3, <2>1, <2>2
<1> QED BY <1>1, <1>2, <1>3, <1>4, SeqEqual
\* A percent is written so that cmd makes a percent of it.
LEMMA PieceNeutral ==
  ASSUME NEW u, NEW o, o = TRUE \/ o = FALSE
  PROVE  Sends(Neutral, u, ParseStep(u, "p"), o, o)
<1>0. "p" \in Chars /\ "p" \in Signs /\ "c" \in Signs /\ <<"p">> \in Seq(Chars)
  BY PairIs DEF Chars, Signs
<1>a. PICK a, b : a = <<"p", "p">> /\ b = <<"c", "p">>
  OBVIOUS
<1>1. a \in Seq(Signs) /\ b \in Seq(Signs) /\ a \o b = Neutral
  <2>1. a \in Seq(Signs) /\ b \in Seq(Signs)
    BY <1>0, <1>a, PairIs
  <2>2. <<"p", "p">> \o <<"c", "p">> = <<"p", "p", "c", "p">>
    BY <1>0, TwoAndTwo
  <2> QED BY <1>a, <2>1, <2>2 DEF Neutral
<1>2. ASSUME NEW x \in Seq(Chars) PROVE Expands(Shut(x), Neutral) = Shut(x \o <<"p">>)
  <2> DEFINE O(y, n) == [out |-> y, open |-> TRUE, name |-> n]
  <2>1. ExpandStep(Shut(x), "p") = O(x, <<>>)
    BY DEF ExpandStep, Shut
  <2>2. ExpandStep(O(x, <<>>), "p") = O(Append(x, "p"), <<>>)
    BY DEF ExpandStep
  <2>3. ExpandStep(O(Append(x, "p"), <<>>), "c") = O(Append(x, "p"), <<"c">>)
    <3>1. Append(<<>>, "c") = <<"c">>
      OBVIOUS
    <3> QED BY <3>1 DEF ExpandStep
  <2>4. ExpandStep(O(Append(x, "p"), <<"c">>), "p") = Shut(Append(x, "p"))
    <3>1. <<"c">> # <<>>
      OBVIOUS
    <3> QED BY <3>1 DEF ExpandStep, Shut
  <2>5. \A st : /\ Expands(st, a) = ExpandStep(ExpandStep(st, "p"), "p")
                /\ Expands(st, b) = ExpandStep(ExpandStep(st, "c"), "p")
    <3>1. <<"p">> \in Seq(Signs) /\ <<"c">> \in Seq(Signs) /\ a = <<"p">> \o <<"p">>
       /\ b = <<"c">> \o <<"p">>
      BY <1>0, <1>a, PairIs
    <3>2. \A st : /\ Expands(st, <<"p">> \o <<"p">>) = Expands(Expands(st, <<"p">>), <<"p">>)
                  /\ Expands(st, <<"c">> \o <<"p">>) = Expands(Expands(st, <<"c">>), <<"p">>)
      BY <3>1, ExpandsIs, Percent!FoldConcat
    <3> QED BY <3>1, <3>2, ExpandsOne
  <2> HIDE DEF O
  <2>6. Expands(Shut(x), Neutral) = Expands(Expands(Shut(x), a), b)
    BY <1>1, ExpandsIs, Percent!FoldConcat
  <2> QED BY <2>1, <2>2, <2>3, <2>4, <2>5, <2>6, AppendIsConcat, <1>0
<1>3. Quiet(Neutral, o, o)
  <2>1. \A c \in {"p", "c"} : Quiet(<<c>>, o, o)
    BY QuietOther
  <2>2. <<"p">> \in Seq(Signs) /\ <<"c">> \in Seq(Signs) /\ a = <<"p">> \o <<"p">>
       /\ b = <<"c">> \o <<"p">>
    BY <1>0, <1>a, PairIs
  <2>3. Quiet(a, o, o) /\ Quiet(b, o, o)
    BY <2>1, <2>2, QuietThen
  <2> QED BY <1>1, <2>3, QuietThen
<1>4. Quiet(<<"p">>, o, o)
  BY QuietOther
<1>5. Neutral \in Seq(Signs)
  BY <1>1, ConcatProperties
<1>6. Piece(Neutral, <<"p">>, u, ParseStep(u, "p"), o, o)
  BY <1>0, <1>2, <1>3, <1>4, <1>5, ReadsOne DEF Piece, Turns
<1> QED BY <1>6 DEF Sends

LEMMA PieceSlashes ==
  ASSUME NEW u, NEW o, o = TRUE \/ o = FALSE, NEW n \in Nat
  PROVE  Sends(Slashes(n), u, Reads(u, Slashes(n)), o, o)
<1> DEFINE D == {m \in Nat : Sends(Slashes(m), u, Reads(u, Slashes(m)), o, o)}
<1>1. 0 \in D
  BY SlashesAre, ReadsNone, PieceNone
<1>2. ASSUME NEW m \in D PROVE m + 1 \in D
  <2>1. m \in Nat /\ Sends(Slashes(m), u, Reads(u, Slashes(m)), o, o)
    OBVIOUS
  <2>2. Slashes(m) \in Seq(Chars) /\ Slashes(m + 1) = Append(Slashes(m), "b") /\ "b" \in Chars
    BY <2>1, SlashesAre DEF Chars
  <2>3. Reads(u, Slashes(m + 1)) = ParseStep(Reads(u, Slashes(m)), "b")
    BY <2>2, ReadsLast
  <2>4. Sends(<<"b">>, Reads(u, Slashes(m)), Reads(u, Slashes(m + 1)), o, o)
    BY <2>2, <2>3, PieceOther
  <2>5. Slashes(m + 1) = Slashes(m) \o <<"b">>
    BY <2>2, AppendIsConcat
  <2>6. Sends(Slashes(m + 1), u, Reads(u, Slashes(m + 1)), o, o)
    BY <2>1, <2>4, <2>5, PieceThen
  <2> QED BY <2>1, <2>6
<1>3. D = Nat
  BY <1>1, <1>2, Parse!NatSetInduction
<1> QED BY <1>3
---------------------------------------------------------------------------
(* What wj_make_batch_cmdline writes for an argument. *)

\* What stands for a quote in a batch file's argument: the run doubled, and two quotes.
LEMMA InsideDoubled ==
  ASSUME NEW st, NEW A, NEW p \in Seq(Chars), NEW r \in Nat, Inside(st, A, p, r, TRUE)
  PROVE  Inside(ParseStep(ParseStep(Reads(st, Slashes(r)), "q"), "q"), A, Append(p, "q"), 0, TRUE)
<1>1. PICK k, y : k \in Seq(Chars) /\ At(st, A, k, r, TRUE, y, FALSE) /\ Cut(k, r, p)
  BY Zenon DEF Inside
<1>2. "q" \in Chars
  BY DEF Chars
<1> DEFINE s1 == Reads(st, Slashes(r))
<1>4. PICK v : At(s1, A, k, 2 * r, TRUE, v, FALSE)
  BY <1>1, ReadSlashesTwice
<1> HIDE DEF s1
<1>5. At(ParseStep(s1, "q"), A, p, 0, FALSE, TRUE, TRUE)
  BY <1>1, <1>4, ReadQuote
<1>6. At(ParseStep(ParseStep(s1, "q"), "q"), A, Plus(p, "q"), 0, TRUE, TRUE, FALSE)
  BY <1>5, ReadDoubledQuote
<1> QED BY <1>2, <1>6, PlusIs, Zenon DEF Inside, s1

\* The line so far, acc.out, brings the reader from where the last argument ended into one
\* whose text so far is p, but for the run just written.
BatchWritten(acc, A, p, w) ==
  /\ acc.run \in Nat
  /\ \E v : Sends(acc.out, Begin(A), v, FALSE, w) /\ Inside(v, A, p, acc.run, w)
LEMMA BatchWrittenBy ==
  ASSUME NEW acc, NEW A, NEW p, NEW w, NEW n \in Nat, NEW o, acc = [out |-> o, run |-> n],
         NEW v, Sends(o, Begin(A), v, FALSE, w), Inside(v, A, p, n, w)
  PROVE  BatchWritten(acc, A, p, w)
<1>1. acc.out = o /\ acc.run = n
  OBVIOUS
<1> QED BY <1>1 DEF BatchWritten

LEMMA BatchStart ==
  ASSUME NEW A, NEW w \in BOOLEAN
  PROVE  BatchWritten(Opening(w), A, <<>>, w)
<1>1. Written(Opening(w), A, <<>>, w)
  BY OpeningReads
<1>2. CASE w = FALSE
  <2>1. Opening(w) = [out |-> <<>>, run |-> 0] /\ Opening(w).out = <<>> /\ Opening(w).run = 0
    BY <1>2 DEF Opening
  <2>2. Inside(Begin(A), A, <<>>, 0, FALSE)
    BY <1>1, <1>2, <2>1, ReadsNone DEF Written
  <2>3. Sends(<<>>, Begin(A), Begin(A), FALSE, FALSE)
    BY PieceNone
  <2>4. 0 \in Nat
    OBVIOUS
  <2> QED BY <1>2, <2>1, <2>2, <2>3, <2>4 DEF BatchWritten
<1>3. CASE w = TRUE
  <2>1. Opening(w) = [out |-> <<"q">>, run |-> 0] /\ Opening(w).out = <<"q">> /\ Opening(w).run = 0
    BY <1>3 DEF Opening
  <2>2. Inside(ParseStep(Begin(A), "q"), A, <<>>, 0, TRUE)
    BY <1>1, <1>3, <2>1, ReadsOne DEF Written
  <2>3. Sends(<<"q">>, Begin(A), ParseStep(Begin(A), "q"), FALSE, TRUE)
    BY PieceQuote
  <2>4. 0 \in Nat
    OBVIOUS
  <2> QED BY <1>3, <2>1, <2>2, <2>3, <2>4 DEF BatchWritten
<1> QED BY <1>2, <1>3

LEMMA BatchOne ==
  ASSUME NEW acc, NEW A, NEW p \in Seq(Chars), NEW w \in BOOLEAN, BatchWritten(acc, A, p, w),
         NEW c \in Chars, c \in {"q", "s", "p", "m"} => w = TRUE
  PROVE  BatchWritten(BatchStep(acc, c), A, Append(p, c), w)
<1>0. w = TRUE \/ w = FALSE
  OBVIOUS
<1>1. PICK v : Sends(acc.out, Begin(A), v, FALSE, w) /\ Inside(v, A, p, acc.run, w)
  BY DEF BatchWritten
<1>2. acc.run \in Nat /\ acc.run + 1 \in Nat /\ 0 \in Nat
  BY DEF BatchWritten
<1>3. CASE c = "b"
  <2>1. BatchStep(acc, c) = [out |-> acc.out \o <<"b">>, run |-> acc.run + 1]
    BY <1>3 DEF BatchStep, Put
  <2>2. Inside(ParseStep(v, "b"), A, Append(p, "b"), acc.run + 1, w)
    BY <1>1, <1>2, InsideSlash
  <2>3. Sends(<<"b">>, v, ParseStep(v, "b"), w, w)
    BY <1>0, <1>3, PieceOther
  <2>4. Sends(acc.out \o <<"b">>, Begin(A), ParseStep(v, "b"), FALSE, w)
    BY <1>1, <2>3, PieceThen
  <2>5. BatchWritten(BatchStep(acc, c), A, Append(p, "b"), w)
    BY <1>2, <2>1, <2>2, <2>4, BatchWrittenBy
  <2> QED BY <1>3, <2>5
<1>4. CASE c = "q"
  <2>1. BatchStep(acc, c) = [out |-> acc.out \o (Slashes(acc.run) \o <<"q", "q">>), run |-> 0]
    BY <1>4 DEF BatchStep, Put
  <2>2. w = TRUE
    BY <1>4
  <2> DEFINE s1 == Reads(v, Slashes(acc.run))
             s2 == ParseStep(ParseStep(s1, "q"), "q")
  <2>3. Inside(s2, A, Append(p, "q"), 0, TRUE)
    BY <1>1, <1>2, <2>2, InsideDoubled
  <2>4. Sends(Slashes(acc.run), v, s1, TRUE, TRUE)
    BY <1>2, PieceSlashes
  <2>5. /\ Sends(<<"q">>, s1, ParseStep(s1, "q"), TRUE, FALSE)
        /\ Sends(<<"q">>, ParseStep(s1, "q"), s2, FALSE, TRUE)
    BY PieceQuote
  <2> HIDE DEF s1, s2
  <2>6. Sends(<<"q">> \o <<"q">>, s1, s2, TRUE, TRUE)
    BY <2>5, PieceThen
  <2>7. <<"q">> \o <<"q">> = <<"q", "q">>
    <3>1. "q" \in Chars
      BY DEF Chars
    <3>2. <<"q">> \in Seq(Chars)
      BY <3>1, PairIs
    <3> QED BY <3>1, <3>2, Pair, AppendIsConcat
  <2>8. Sends(Slashes(acc.run) \o <<"q", "q">>, v, s2, TRUE, TRUE)
    BY <2>4, <2>6, <2>7, PieceThen
  <2>9. Sends(acc.out \o (Slashes(acc.run) \o <<"q", "q">>), Begin(A), s2, FALSE, TRUE)
    BY <1>1, <2>2, <2>8, PieceThen
  <2>10. BatchWritten(BatchStep(acc, c), A, Append(p, "q"), TRUE)
    BY <1>2, <2>1, <2>3, <2>9, BatchWrittenBy
  <2> QED BY <1>4, <2>2, <2>10
<1>5. CASE c = "p"
  <2>1. BatchStep(acc, c) = [out |-> acc.out \o Neutral, run |-> 0]
    BY <1>5 DEF BatchStep, Put
  <2>2. Inside(ParseStep(v, "p"), A, Append(p, "p"), 0, w)
    <3>1. Literal("p", w)
      BY DEF Literal
    <3> QED BY <1>1, <1>2, <1>5, <3>1, InsideOther
  <2>3. Sends(Neutral, v, ParseStep(v, "p"), w, w)
    BY <1>0, PieceNeutral
  <2>4. Sends(acc.out \o Neutral, Begin(A), ParseStep(v, "p"), FALSE, w)
    BY <1>1, <2>3, PieceThen
  <2>5. BatchWritten(BatchStep(acc, c), A, Append(p, "p"), w)
    BY <1>2, <2>1, <2>2, <2>4, BatchWrittenBy
  <2> QED BY <1>5, <2>5
<1>6. CASE c # "b" /\ c # "q" /\ c # "p"
  <2>1. BatchStep(acc, c) = [out |-> acc.out \o <<c>>, run |-> 0]
    BY <1>6 DEF BatchStep, Put
  <2>2. Inside(ParseStep(v, c), A, Append(p, c), 0, w)
    <3>1. Literal(c, w)
      BY <1>6 DEF Literal
    <3> QED BY <1>1, <1>2, <3>1, InsideOther
  <2>3. Sends(<<c>>, v, ParseStep(v, c), w, w)
    BY <1>0, <1>6, PieceOther
  <2>4. Sends(acc.out \o <<c>>, Begin(A), ParseStep(v, c), FALSE, w)
    BY <1>1, <2>3, PieceThen
  <2> QED BY <1>2, <2>1, <2>2, <2>4, BatchWrittenBy
<1> QED BY <1>3, <1>4, <1>5, <1>6

Special == {"q", "s", "p", "m"}
LEMMA BatchSoFar ==
  ASSUME NEW A, NEW w \in BOOLEAN, NEW s \in Seq(Chars), Has(s, Special) => w = TRUE
  PROVE  BatchWritten(Batches(Opening(w), s), A, s, w)
<1> DEFINE D == {u \in Seq(Chars) : (Has(u, Special) => w = TRUE)
                   => BatchWritten(Batches(Opening(w), u), A, u, w)}
<1>1. <<>> \in D
  BY EmptySeq, BatchStart, BatchesIs, Batch!FoldEmpty
<1>2. ASSUME NEW u \in D, NEW c \in Chars PROVE Append(u, c) \in D
  <2>1. u \in Seq(Chars) /\ ((Has(u, Special) => w = TRUE)
        => BatchWritten(Batches(Opening(w), u), A, u, w))
    OBVIOUS
  <2>2. Append(u, c) \in Seq(Chars)
    BY <2>1, AppendProperties
  <2>3. ASSUME Has(Append(u, c), Special) => w = TRUE
        PROVE  BatchWritten(Batches(Opening(w), Append(u, c)), A, Append(u, c), w)
    <3>1. (Has(u, Special) => w = TRUE) /\ (c \in Special => w = TRUE)
      BY <2>1, <2>3, HasLast
    <3>2. BatchWritten(BatchStep(Batches(Opening(w), u), c), A, Append(u, c), w)
      BY <2>1, <3>1, BatchOne DEF Special
    <3>3. Batches(Opening(w), Append(u, c)) = BatchStep(Batches(Opening(w), u), c)
      BY <2>1, BatchesIs, Batch!FoldAppend
    <3> QED BY <3>2, <3>3
  <2> QED BY <2>2, <2>3
<1>3. D = Seq(Chars)
  BY <1>1, <1>2, Parse!SeqSetInduction
<1> QED BY <1>3

LEMMA BatchArgReads ==
  ASSUME NEW A, NEW a \in Seq(Chars)
  PROVE  \E v : Sends(BatchArg(a), Begin(A), v, FALSE, FALSE) /\ Ended(v, A, a)
<1> DEFINE w == a = <<>> \/ EndsWith(a, "b") \/ Has(a, Special)
           acc == Batches(Opening(w), a)
<1>1. w \in BOOLEAN /\ (Has(a, Special) => w = TRUE)
  BY DEF Has, EndsWith
<1>2. BatchWritten(acc, A, a, w)
  BY <1>1, BatchSoFar
<1>3. BatchArg(a) = IF w THEN acc.out \o Slashes(acc.run) \o <<"q">> ELSE acc.out
  BY DEF BatchArg, Quoted, Batches, Opening, Special
<1>4. w = FALSE => a # <<>>
  OBVIOUS
<1> HIDE DEF acc, w
<1>5. PICK v : Sends(acc.out, Begin(A), v, FALSE, w) /\ Inside(v, A, a, acc.run, w)
  BY <1>2 DEF BatchWritten
<1>6. acc.run \in Nat
  BY <1>2 DEF BatchWritten
<1>7. CASE w = TRUE
  <2> DEFINE s1 == Reads(v, Slashes(acc.run))
  <2>1. Ended(Reads(v, Slashes(acc.run) \o <<"q">>), A, a)
    BY <1>5, <1>6, <1>7, InsideCloses
  <2>2. Reads(v, Slashes(acc.run) \o <<"q">>) = ParseStep(s1, "q")
    <3>1. "q" \in Chars
      BY DEF Chars
    <3>2. Slashes(acc.run) \in Seq(Chars)
      BY <1>6, SlashesAre
    <3> QED BY <3>1, <3>2, ReadsMore
  <2>3. Sends(Slashes(acc.run), v, s1, TRUE, TRUE)
    BY <1>6, PieceSlashes
  <2> HIDE DEF s1
  <2>4. Sends(<<"q">>, s1, ParseStep(s1, "q"), TRUE, FALSE)
    BY PieceQuote
  <2>5. Sends(acc.out \o Slashes(acc.run), Begin(A), s1, FALSE, TRUE)
    BY <1>5, <1>7, <2>3, PieceThen
  <2>6. Sends((acc.out \o Slashes(acc.run)) \o <<"q">>, Begin(A), ParseStep(s1, "q"), FALSE, FALSE)
    BY <2>4, <2>5, PieceThen
  <2> QED BY <1>3, <1>7, <2>1, <2>2, <2>6
<1>8. CASE w = FALSE
  <2>1. PICK k, y :
          k \in Seq(Chars) /\ At(v, A, k, acc.run, FALSE, y, FALSE) /\ Cut(k, acc.run, a) /\ y = TRUE
    BY <1>4, <1>5, <1>8 DEF Inside
  <2>2. Ended(v, A, a)
    BY <1>6, <2>1 DEF Ended
  <2> QED BY <1>3, <1>5, <1>8, <2>2
<1> QED BY <1>1, <1>7, <1>8
---------------------------------------------------------------------------
(* What it writes for the script. *)

ScriptPiece(c) == IF c = "p" THEN Neutral ELSE <<c>>
ScriptPieces(x) == [i \in DOMAIN x |-> IF x[i] = "p" THEN Neutral ELSE <<x[i]>>]
LEMMA ScriptPieceType == ASSUME NEW c \in Chars PROVE ScriptPiece(c) \in Seq(Signs)
<1>1. Neutral \in Seq(Signs)
  BY DEF Neutral, Signs, Chars
<1>2. <<c>> \in Seq(Signs)
  BY PairIs DEF Signs
<1> QED BY <1>1, <1>2 DEF ScriptPiece

LEMMA ScriptLast ==
  ASSUME NEW x \in Seq(Chars), NEW c \in Chars
  PROVE  /\ ScriptPieces(x) \in Seq(Seq(Signs))
         /\ ScriptPieces(Append(x, c)) = Append(ScriptPieces(x), ScriptPiece(c))
<1> DEFINE N == Len(x)
           r == Append(x, c)
<1>1. N \in Nat /\ DOMAIN x = 1 .. N /\ DOMAIN r = 1 .. N + 1 /\ r[N + 1] = c
      /\ (\A i \in 1 .. N : r[i] = x[i] /\ x[i] \in Chars)
  BY AppendProperties, LenProperties, ElementOfSeq
<1>2. /\ DOMAIN ScriptPieces(x) = 1 .. N /\ ScriptPieces(x) = [i \in 1 .. N |-> ScriptPieces(x)[i]]
      /\ \A i \in 1 .. N : ScriptPieces(x)[i] = ScriptPiece(x[i])
  BY <1>1 DEF ScriptPieces, ScriptPiece
<1>3. ScriptPieces(x) \in Seq(Seq(Signs)) /\ Len(ScriptPieces(x)) = N
  <2>1. \A i \in 1 .. N : ScriptPieces(x)[i] \in Seq(Signs)
    BY <1>1, <1>2, ScriptPieceType
  <2> QED BY <1>1, <1>2, <2>1
<1> HIDE DEF N, r
<1>4. /\ DOMAIN ScriptPieces(r) = 1 .. N + 1
      /\ ScriptPieces(r) = [i \in DOMAIN ScriptPieces(r) |-> ScriptPieces(r)[i]]
      /\ \A i \in 1 .. N + 1 : ScriptPieces(r)[i] = ScriptPiece(r[i])
  BY <1>1 DEF ScriptPieces, ScriptPiece
<1>5. \A i \in 1 .. N : ScriptPieces(r)[i] = ScriptPieces(x)[i]
  <2>1. \A i \in 1 .. N : i \in 1 .. N + 1
    BY <1>1
  <2> QED BY <1>1, <1>2, <1>4, <2>1
<1>6. ScriptPieces(r)[N + 1] = ScriptPiece(c)
  <2>1. N + 1 \in 1 .. N + 1
    BY <1>1
  <2> QED BY <1>1, <1>4, <2>1
<1>7. ScriptPieces(r) = Append(ScriptPieces(x), ScriptPiece(c))
  BY <1>3, <1>4, <1>5, <1>6, ScriptPieceType, GivenByPlace
<1> QED BY <1>3, <1>7 DEF r

\* Up to here in the script, quoted.
ScriptTo(x) == <<"q">> \o FlattenSeq(ScriptPieces(x))
LEMMA ScriptToNone == ScriptTo(<<>>) = <<"q">>
<1>1. ScriptPieces(<<>>) = <<>>
  BY DEF ScriptPieces
<1>2. FlattenSeq(<<>>) = <<>>
  BY DEF FlattenSeq
<1>3. "q" \in Chars
  BY DEF Chars
<1>4. <<"q">> \in Seq(Chars)
  BY <1>3, PairIs
<1> QED BY <1>1, <1>2, <1>4, ConcatEmptySeq DEF ScriptTo
LEMMA ScriptToMore ==
  ASSUME NEW x \in Seq(Chars), NEW c \in Chars
  PROVE  ScriptTo(Append(x, c)) = ScriptTo(x) \o ScriptPiece(c)
<1>1. PICK e \in Seq(Signs) : e = ScriptPiece(c)
  BY ScriptPieceType
<1>2. PICK f \in Seq(Signs) : f = FlattenSeq(ScriptPieces(x))
  BY ScriptLast, JoinsIs, Parse!FlatType
<1>3. FlattenSeq(ScriptPieces(Append(x, c))) = f \o e
  BY <1>1, <1>2, ScriptLast, JoinsIs, Parse!FlatAppend
<1>4. <<"q">> \in Seq(Signs)
  <2>1. "q" \in Signs
    BY DEF Chars, Signs
  <2> QED BY <2>1, PairIs
<1>5. <<"q">> \o (f \o e) = (<<"q">> \o f) \o e
  BY <1>4, ConcatAssociative
<1> QED BY <1>1, <1>2, <1>3, <1>5 DEF ScriptTo

\* A last backslash is the only run left open.
Scripted(text, x) ==
  \E v : \E r \in Nat : /\ Sends(text, Begin(<<>>), v, FALSE, TRUE) /\ Inside(v, <<>>, x, r, TRUE)
                        /\ r = 0 \/ EndsWith(x, "b")
LEMMA ScriptMore ==
  ASSUME NEW text, NEW x \in Seq(Chars), Scripted(text, x), NEW c \in Chars, c # "q"
  PROVE  Scripted(text \o ScriptPiece(c), Append(x, c))
<1>1. PICK v : \E r \in Nat : Sends(text, Begin(<<>>), v, FALSE, TRUE) /\ Inside(v, <<>>, x, r, TRUE)
  BY DEF Scripted
<1>a. PICK r \in Nat : Sends(text, Begin(<<>>), v, FALSE, TRUE) /\ Inside(v, <<>>, x, r, TRUE)
  BY <1>1
<1>2. Sends(ScriptPiece(c), v, ParseStep(v, c), TRUE, TRUE)
  <2>1. CASE c = "p"
    BY <2>1, PieceNeutral DEF ScriptPiece
  <2>2. CASE c # "p"
    BY <2>2, PieceOther DEF ScriptPiece
  <2> QED BY <2>1, <2>2
<1>3. Sends(text \o ScriptPiece(c), Begin(<<>>), ParseStep(v, c), FALSE, TRUE)
  BY <1>a, <1>2, PieceThen
<1>4. CASE c = "b"
  <2>1. Inside(ParseStep(v, c), <<>>, Append(x, c), r + 1, TRUE)
    BY <1>a, <1>4, InsideSlash
  <2>2. EndsWith(Append(x, c), "b")
    <3>1. Len(Append(x, c)) = Len(x) + 1 /\ Append(x, c)[Len(x) + 1] = c /\ Append(x, c) # <<>>
      BY AppendProperties
    <3> QED BY <1>4, <3>1 DEF EndsWith
  <2>3. r + 1 \in Nat
    OBVIOUS
  <2> QED BY <1>3, <2>1, <2>2, <2>3 DEF Scripted
<1>5. CASE c # "b"
  <2>1. Literal(c, TRUE)
    BY <1>5 DEF Literal
  <2>2. Inside(ParseStep(v, c), <<>>, Append(x, c), 0, TRUE)
    BY <1>a, <2>1, InsideOther
  <2>3. 0 \in Nat
    OBVIOUS
  <2> QED BY <1>3, <2>2, <2>3 DEF Scripted
<1> QED BY <1>4, <1>5

LEMMA ScriptSoFar ==
  ASSUME NEW s \in Seq(Chars), ~ Has(s, {"q", "n"})
  PROVE  Scripted(ScriptTo(s), s)
<1> DEFINE D == {x \in Seq(Chars) : ~ Has(x, {"q", "n"}) => Scripted(ScriptTo(x), x)}
<1>1. <<>> \in D
  <2>1. BatchWritten(Opening(TRUE), <<>>, <<>>, TRUE)
    BY BatchStart
  <2>2. Opening(TRUE).out = <<"q">> /\ Opening(TRUE).run = 0
    BY DEF Opening
  <2>3. PICK v : Sends(<<"q">>, Begin(<<>>), v, FALSE, TRUE) /\ Inside(v, <<>>, <<>>, 0, TRUE)
    BY <2>1, <2>2 DEF BatchWritten
  <2>4. 0 \in Nat
    OBVIOUS
  <2>5. Scripted(ScriptTo(<<>>), <<>>)
    BY <2>3, <2>4, ScriptToNone DEF Scripted
  <2> QED BY <2>5, EmptySeq
<1>2. ASSUME NEW x \in D, NEW c \in Chars PROVE Append(x, c) \in D
  <2>1. x \in Seq(Chars) /\ (~ Has(x, {"q", "n"}) => Scripted(ScriptTo(x), x))
    OBVIOUS
  <2>2. Append(x, c) \in Seq(Chars)
    BY <2>1, AppendProperties
  <2>3. ASSUME ~ Has(Append(x, c), {"q", "n"}) PROVE Scripted(ScriptTo(Append(x, c)), Append(x, c))
    <3>1. ~ Has(x, {"q", "n"}) /\ c # "q"
      BY <2>1, <2>3, HasLast
    <3> QED BY <2>1, <3>1, ScriptMore, ScriptToMore
  <2> QED BY <2>2, <2>3
<1>3. D = Seq(Chars)
  BY <1>1, <1>2, Parse!SeqSetInduction
<1> QED BY <1>3
---------------------------------------------------------------------------
(* The whole line. *)

ArgPieces(v) == [i \in DOMAIN v |-> <<"s">> \o BatchArg(v[i])]
LEMMA ArgPieceType ==
  ASSUME NEW a \in Seq(Chars)
  PROVE  BatchArg(a) \in Seq(Signs) /\ <<"s">> \o BatchArg(a) \in Seq(Signs)
<1>1. PICK v : Sends(BatchArg(a), Begin(<<>>), v, FALSE, FALSE)
  BY BatchArgReads
<1>2. BatchArg(a) \in Seq(Signs)
  BY <1>1 DEF Sends, Piece, Turns
<1>3. "s" \in Signs
  BY DEF Signs, Chars
<1>4. <<"s">> \in Seq(Signs)
  BY <1>3, PairIs
<1> QED BY <1>2, <1>4, ConcatProperties

LEMMA ArgsLast ==
  ASSUME NEW v \in Seq(Seq(Chars)), NEW c \in Seq(Chars)
  PROVE  /\ ArgPieces(v) \in Seq(Seq(Signs))
         /\ ArgPieces(Append(v, c)) = Append(ArgPieces(v), <<"s">> \o BatchArg(c))
<1> DEFINE N == Len(v)
           r == Append(v, c)
           e(x) == <<"s">> \o BatchArg(x)
<1>1. N \in Nat /\ DOMAIN v = 1 .. N /\ DOMAIN r = 1 .. N + 1 /\ r[N + 1] = c
      /\ (\A i \in 1 .. N : r[i] = v[i] /\ v[i] \in Seq(Chars))
  BY AppendProperties, LenProperties, ElementOfSeq
<1>2. \A x \in Seq(Chars) : e(x) \in Seq(Signs)
  BY ArgPieceType
<1>3. /\ DOMAIN ArgPieces(v) = 1 .. N /\ ArgPieces(v) = [i \in 1 .. N |-> ArgPieces(v)[i]]
      /\ \A i \in 1 .. N : ArgPieces(v)[i] = e(v[i])
  BY <1>1 DEF ArgPieces
<1>4. ArgPieces(v) \in Seq(Seq(Signs)) /\ Len(ArgPieces(v)) = N
  <2>1. \A i \in 1 .. N : ArgPieces(v)[i] \in Seq(Signs)
    BY <1>1, <1>2, <1>3
  <2> QED BY <1>1, <1>3, <2>1
<1> HIDE DEF N, r
<1>5. /\ DOMAIN ArgPieces(r) = 1 .. N + 1
      /\ ArgPieces(r) = [i \in DOMAIN ArgPieces(r) |-> ArgPieces(r)[i]]
      /\ \A i \in 1 .. N + 1 : ArgPieces(r)[i] = e(r[i])
  BY <1>1 DEF ArgPieces
<1> HIDE DEF e
<1>6. \A i \in 1 .. N : ArgPieces(r)[i] = ArgPieces(v)[i]
  <2>1. \A i \in 1 .. N : i \in 1 .. N + 1
    BY <1>1
  <2> QED BY <1>1, <1>3, <1>5, <2>1
<1>7. ArgPieces(r)[N + 1] = e(c)
  <2>1. N + 1 \in 1 .. N + 1
    BY <1>1
  <2> QED BY <1>1, <1>5, <2>1
<1>8. ArgPieces(r) = Append(ArgPieces(v), e(c))
  BY <1>2, <1>4, <1>5, <1>6, <1>7, GivenByPlace
<1> QED BY <1>4, <1>8 DEF r, e

\* With the script and these arguments.
LineTo(script, v) == (ScriptTo(script) \o <<"q">>) \o FlattenSeq(ArgPieces(v))
LEMMA ScriptToType == ASSUME NEW x \in Seq(Chars) PROVE ScriptTo(x) \o <<"q">> \in Seq(Signs)
<1>0. "q" \in Chars
  BY DEF Chars
<1>1. PICK f \in Seq(Signs) : f = FlattenSeq(ScriptPieces(x))
  BY <1>0, ScriptLast, JoinsIs, Parse!FlatType
<1>2. <<"q">> \in Seq(Signs)
  <2>1. "q" \in Signs
    BY <1>0 DEF Signs
  <2> QED BY <2>1, PairIs
<1> QED BY <1>1, <1>2, ConcatProperties DEF ScriptTo
LEMMA LineToNone == ASSUME NEW x \in Seq(Chars) PROVE LineTo(x, <<>>) = ScriptTo(x) \o <<"q">>
<1>1. ArgPieces(<<>>) = <<>>
  BY DEF ArgPieces
<1>2. FlattenSeq(<<>>) = <<>>
  BY DEF FlattenSeq
<1> QED BY <1>1, <1>2, ScriptToType, ConcatEmptySeq DEF LineTo
Join(i, j) == i \o j
LEMMA JoinsAre == ASSUME NEW S, NEW i \in Seq(S), NEW j \in Seq(S) PROVE Join(i, j) \in Seq(S)
  BY ConcatProperties DEF Join
LEMMA Associates == ASSUME NEW S, NEW i \in Seq(S), NEW j \in Seq(S), NEW k \in Seq(S)
  PROVE Join(Join(i, j), k) = Join(i, Join(j, k))
  BY ConcatAssociative DEF Join
LEMMA FourParts ==
  ASSUME NEW S, NEW h \in Seq(S), NEW f \in Seq(S), NEW s \in Seq(S), NEW b \in Seq(S)
  PROVE  Join(h, Join(f, Join(s, b))) = Join(Join(Join(h, f), s), b)
<1>1. Join(h, f) \in Seq(S) /\ Join(s, b) \in Seq(S)
  BY JoinsAre
<1>3. Join(h, Join(f, Join(s, b))) = Join(Join(h, f), Join(s, b))
  BY <1>1, Associates
<1>4. Join(Join(h, f), Join(s, b)) = Join(Join(Join(h, f), s), b)
  BY <1>1, Associates
<1> QED BY <1>3, <1>4
LEMMA LineToMore ==
  ASSUME NEW x \in Seq(Chars), NEW v \in Seq(Seq(Chars)), NEW c \in Seq(Chars)
  PROVE  LineTo(x, Append(v, c)) = (LineTo(x, v) \o <<"s">>) \o BatchArg(c)
<1>1. PICK b \in Seq(Signs) : b = BatchArg(c)
  BY ArgPieceType
<1>2. PICK f \in Seq(Signs) : f = FlattenSeq(ArgPieces(v))
  BY ArgsLast, JoinsIs, Parse!FlatType
<1>3. PICK s \in Seq(Signs) : s = <<"s">>
  <2>1. "s" \in Signs
    BY DEF Signs, Chars
  <2> QED BY <2>1, PairIs
<1>4. PICK h \in Seq(Signs) : h = ScriptTo(x) \o <<"q">>
  BY ScriptToType
<1>5. FlattenSeq(ArgPieces(Append(v, c))) = f \o (s \o b)
  <2>1. s \o b \in Seq(Signs)
    BY ConcatProperties
  <2>2. ArgPieces(Append(v, c)) = Append(ArgPieces(v), s \o b)
    BY <1>1, <1>3, ArgsLast
  <2> QED BY <1>2, <2>1, <2>2, ArgsLast, JoinsIs, Parse!FlatAppend
<1>6. h \o (f \o (s \o b)) = ((h \o f) \o s) \o b
  <2>1. Join(h, Join(f, Join(s, b))) = Join(Join(Join(h, f), s), b)
    BY FourParts
  <2> QED BY <2>1 DEF Join
<1> QED BY <1>1, <1>2, <1>3, <1>4, <1>5, <1>6 DEF LineTo
LEMMA LineIs ==
  ASSUME NEW script \in Seq(Chars), NEW args \in Seq(Seq(Chars))
  PROVE  MakeBatchCmdline(script, args) = LineTo(script, args)
<1>1. MakeBatchCmdline(script, args)
        = <<"q">> \o FlattenSeq(ScriptPieces(script)) \o <<"q">> \o FlattenSeq(ArgPieces(args))
  BY DEF MakeBatchCmdline, ScriptPieces, ArgPieces
<1> QED BY <1>1 DEF LineTo, ScriptTo

\* All arguments but the last are read, and the last.
Given(text, v) ==
  \E u, a, w : v = Append(u, a) /\ Sends(text, Begin(<<>>), w, FALSE, FALSE) /\ Ended(w, u, a)
LEMMA ScriptGiven ==
  ASSUME NEW script \in Seq(Chars), ~ Has(script, {"q", "n"}), ~ EndsWith(script, "b")
  PROVE  Given(LineTo(script, <<>>), <<script>>)
<1>1. PICK v : \E r \in Nat : /\ Sends(ScriptTo(script), Begin(<<>>), v, FALSE, TRUE)
                              /\ Inside(v, <<>>, script, r, TRUE) /\ r = 0
  BY ScriptSoFar DEF Scripted
<1>2. Sends(ScriptTo(script), Begin(<<>>), v, FALSE, TRUE) /\ Inside(v, <<>>, script, 0, TRUE)
  BY <1>1
<1>3. Ended(Reads(v, Slashes(0) \o <<"q">>), <<>>, script)
  BY <1>2, InsideCloses
<1>4. Slashes(0) \o <<"q">> = <<"q">>
  <2>1. "q" \in Chars
    BY DEF Chars
  <2>2. Slashes(0) = <<>> /\ <<"q">> \in Seq(Chars)
    BY <2>1, SlashesAre, PairIs
  <2> QED BY <2>2, ConcatEmptySeq
<1>5. Ended(ParseStep(v, "q"), <<>>, script)
  BY <1>3, <1>4, ReadsOne
<1>6. Sends(<<"q">>, v, ParseStep(v, "q"), TRUE, FALSE)
  BY PieceQuote
<1>7. Sends(ScriptTo(script) \o <<"q">>, Begin(<<>>), ParseStep(v, "q"), FALSE, FALSE)
  BY <1>2, <1>6, PieceThen
<1>8. <<script>> = Append(<<>>, script)
  OBVIOUS
<1> QED BY <1>5, <1>7, <1>8, LineToNone DEF Given

LEMMA ArgGiven ==
  ASSUME NEW text, NEW v \in Seq(Seq(Chars)), Given(text, v), NEW c \in Seq(Chars)
  PROVE  Given((text \o <<"s">>) \o BatchArg(c), Append(v, c))
<1>1. PICK u, a, w : v = Append(u, a) /\ Sends(text, Begin(<<>>), w, FALSE, FALSE) /\ Ended(w, u, a)
  BY Zenon DEF Given
<1>2. ParseStep(w, "s") = Begin(v)
  BY <1>1, SpaceEnds
<1>3. Sends(<<"s">>, w, Begin(v), FALSE, FALSE)
  <2>1. "s" \in Chars /\ "s" # "p" /\ "s" # "q" /\ "s" # "m"
    BY DEF Chars
  <2> QED BY <1>2, <2>1, PieceOther
<1>4. Sends(text \o <<"s">>, Begin(<<>>), Begin(v), FALSE, FALSE)
  BY <1>1, <1>3, PieceThen
<1>5. PICK x : Sends(BatchArg(c), Begin(v), x, FALSE, FALSE) /\ Ended(x, v, c)
  BY BatchArgReads
<1>6. Sends((text \o <<"s">>) \o BatchArg(c), Begin(<<>>), x, FALSE, FALSE)
  BY <1>4, <1>5, PieceThen
<1> QED BY <1>5, <1>6, Zenon DEF Given

LEMMA LineGiven ==
  ASSUME NEW script \in Seq(Chars), NEW args \in Seq(Seq(Chars)),
         ~ Has(script, {"q", "n"}), ~ EndsWith(script, "b")
  PROVE  Given(LineTo(script, args), <<script>> \o args)
<1>0. <<script>> \in Seq(Seq(Chars))
  BY PairIs
<1> DEFINE D == {v \in Seq(Seq(Chars)) : Given(LineTo(script, v), <<script>> \o v)}
<1>1. <<>> \in D
  <2>1. <<script>> \o <<>> = <<script>>
    BY <1>0, ConcatEmptySeq
  <2> QED BY <2>1, ScriptGiven, EmptySeq
<1>2. ASSUME NEW v \in D, NEW c \in Seq(Chars) PROVE Append(v, c) \in D
  <2>1. v \in Seq(Seq(Chars)) /\ Given(LineTo(script, v), <<script>> \o v)
    OBVIOUS
  <2>2. Append(v, c) \in Seq(Seq(Chars)) /\ <<script>> \o v \in Seq(Seq(Chars))
    BY <1>0, <2>1, AppendProperties, ConcatProperties
  <2>3. <<script>> \o Append(v, c) = Append(<<script>> \o v, c)
    <3>1. <<c>> \in Seq(Seq(Chars))
      BY PairIs
    <3>2. Append(v, c) = v \o <<c>> /\ Append(<<script>> \o v, c) = (<<script>> \o v) \o <<c>>
      BY <2>1, <2>2, AppendIsConcat
    <3>3. <<script>> \o (v \o <<c>>) = (<<script>> \o v) \o <<c>>
      BY <1>0, <2>1, <3>1, ConcatAssociative
    <3> QED BY <3>2, <3>3
  <2>4. Given((LineTo(script, v) \o <<"s">>) \o BatchArg(c), Append(<<script>> \o v, c))
    BY <2>1, <2>2, ArgGiven
  <2>5. Given(LineTo(script, Append(v, c)), <<script>> \o Append(v, c))
    BY <2>1, <2>3, <2>4, LineToMore
  <2> QED BY <2>2, <2>5
<1>3. D = Seq(Seq(Chars))
  BY <1>1, <1>2, Parse!SeqSetInduction
<1> QED BY <1>3

\* What cmd is given to run a batch file with holds nothing it acts on, neither as it is
\* written nor behind the percent phase, and the script reads what was given
\* (wj_make_batch_cmdline), unless the quoting refused it.
THEOREM BatchReadsBack ==
  ASSUME NEW script \in Seq(Chars), NEW args \in Seq(Seq(Chars)), ~ BatchRefused(script, args)
  PROVE  LET text == MakeBatchCmdline(script, args)
         IN  ~ ActsOn(text) /\ ~ ActsOn(Expand(text)) /\ ParseArgs(Expand(text)) = <<script>> \o args
<1> DEFINE text == MakeBatchCmdline(script, args)
<1>1. Given(text, <<script>> \o args)
  BY LineIs, LineGiven DEF BatchRefused
<1> HIDE DEF text
<1>2. PICK u, a, v : /\ <<script>> \o args = Append(u, a) /\ Ended(v, u, a)
                     /\ Sends(text, Begin(<<>>), v, FALSE, FALSE)
  BY <1>1, Zenon DEF Given
<1>3. PICK t : Piece(text, t, Begin(<<>>), v, FALSE, FALSE)
  BY <1>2 DEF Sends
<1>4. ~ ActsOn(text) /\ ~ ActsOn(t)
  <2>1. \A s : Quiet(s, FALSE, FALSE) => ~ ActsOn(s)
    <3> TAKE s
    <3> HAVE Quiet(s, FALSE, FALSE)
    <3>1. Acts(Calm(FALSE), s) = Calm(FALSE)
      BY DEF Quiet
    <3>2. ActsOn(s) = Acts(Calm(FALSE), s).acts
      BY DEF ActsOn, Acts, Calm
    <3>3. Calm(FALSE).acts = FALSE
      BY DEF Calm
    <3> QED BY <3>1, <3>2, <3>3
  <2> QED BY <1>3, <2>1 DEF Piece
<1>5. Expand(text) = t
  <2>1. t \in Seq(Chars) /\ Expands(Shut(<<>>), text) = Shut(<<>> \o t) /\ <<>> \o t = t
    BY <1>3, EmptySeq, ConcatEmptySeq DEF Piece, Turns
  <2> DEFINE end == Expands(Shut(<<>>), text)
  <2>2. Expand(text) = IF end.open THEN end.out \o <<"p">> \o end.name ELSE end.out
    BY DEF Expand, Expands, Shut
  <2>3. end.open = FALSE /\ end.out = t
    BY <2>1 DEF Shut
  <2> HIDE DEF end
  <2> QED BY <2>2, <2>3
<1>6. ParseArgs(t) = <<script>> \o args
  <2>1. Reads(Begin(<<>>), t) = v
    BY <1>3 DEF Piece
  <2> QED BY <1>2, <2>1, LineEnds
<1> QED BY <1>4, <1>5, <1>6 DEF text
------------------------------------------------------------------------------
(* The command line. It is settled before there is a process, and what its        *)
(* readers make of it was shown above.                                            *)

Line == IF req.batch THEN MakeBatchCmdline(Script, Args) ELSE MakeCmdline(req.argv)
LineIsMade ==
  pc \in {"dup", "attributes", "create"} \/ state # "none" =>
    line = Line /\ (req.batch => ~BatchRefused(Script, Args))

LEMMA MadeStep == ASSUME IInv, LineIsMade, [Next]_vars PROVE LineIsMade'
<1> DEFINE Late(p, s) == p \in {"dup", "attributes", "create"} \/ s # "none"
<1>1. req \in Requests /\ NotYet /\ Detached
  BY DEF IInv
<1>2. Line' = Line /\ BatchRefused(Script, Args)' = BatchRefused(Script, Args)
  <2>1. Caller => req' = req
    BY DEF Caller, Serve, Release, Stdio, JobNew, SetLimits, After, Readers, Input, Writer, Event, Makes,
       Handover, Unwind, Wait, CloseChannels, FreeKills, FreeReaps, Reap, Freed, PtyFree, Step
  <2>2. BothLaunchers \/ StdioLauncher => req' = req
    BY DEF BothLaunchers, StdioLauncher, Checks, MakeLine, Attributes, Create, Launched, Cleanup, Dup,
       Verify, Resume, GiveUp, Step
  <2>3. Surroundings \/ UNCHANGED vars => req' = req
    BY DEF Surroundings, WriterEnds, ScriptCloses, ProcessEnds, MachteldEnds, vars
  <2>4. req' = req
    BY <2>1, <2>2, <2>3 DEF Next
  <2> QED BY <2>4 DEF Line, Script, Args
<1>3. CASE MakeLine
  <2>1. state' = state /\ pc = "line" /\ req' = req
    BY <1>3 DEF MakeLine, Step, process
  <2>2. state = "none"
    BY <1>1, <2>1 DEF NotYet, BeforeCreate, BeforeDup
  <2>3. CASE pc' = "cleanup"
    BY <2>1, <2>2, <2>3 DEF LineIsMade
  <2>4. CASE pc' # "cleanup"
    <3>1. line' = Line /\ (req.batch => ~BatchRefused(Script, Args))
      BY <1>3, <2>4 DEF MakeLine, Step, Line
    <3> QED BY <1>2, <2>1, <3>1 DEF LineIsMade
  <2> QED BY <2>3, <2>4
<1>4. CASE ~MakeLine
  <2>1. ASSUME Caller
        PROVE  line' = line /\ req' = req /\ (Late(pc', state') => Late(pc, state))
    <3>1. line' = line /\ req' = req
      BY <2>1 DEF Caller, Serve, Release, Stdio, JobNew, SetLimits, After, Readers, Input, Writer, Event,
         Makes, Handover, Unwind, Wait, CloseChannels, FreeKills, FreeReaps, Reap, Freed, PtyFree, Step
    <3>2. pc' \notin {"dup", "attributes", "create"}
      BY <2>1 DEF Caller, Serve, Release, Stdio, JobNew, SetLimits, After, Readers, Input, Writer, Event,
         Makes, Handover, Unwind, Wait, CloseChannels, FreeKills, FreeReaps, Reap, Freed, PtyFree, Step
    <3>3. state' = state \/ Alive
      BY <2>1 DEF Caller, Serve, Release, Stdio, JobNew, SetLimits, After, Readers, Input, Writer, Event,
         Makes, Handover, Unwind, Wait, CloseChannels, FreeKills, FreeReaps, Reap, Freed, PtyFree, EndJob,
         process
    <3> QED BY <3>1, <3>2, <3>3 DEF Alive
  <2>2. ASSUME BothLaunchers \/ StdioLauncher
        PROVE  line' = line /\ req' = req /\ (Late(pc', state') => Late(pc, state))
    <3>1. line' = line /\ req' = req
      BY <1>4, <2>2 DEF BothLaunchers, StdioLauncher, Checks, Attributes, Create, Launched, Cleanup, Dup,
         Verify, Resume, GiveUp, Step
    <3>2. pc' \in {"dup", "attributes", "create"} => pc \in {"dup", "attributes"}
      BY <1>4, <2>2 DEF BothLaunchers, StdioLauncher, Checks, Attributes, Create, Launched, Cleanup, Dup,
         Verify, Resume, GiveUp, Step
    <3>3. state' = state \/ Late(pc, state)
      BY <1>1, <1>4, <2>2 DEF BothLaunchers, StdioLauncher, Checks, Attributes, Create, Launched, Cleanup,
         Dup, Verify, Resume, GiveUp, Step, Detached, Doomed, process
    <3> QED BY <3>1, <3>2, <3>3
  <2>3. ASSUME Surroundings \/ UNCHANGED vars
        PROVE  line' = line /\ req' = req /\ (Late(pc', state') => Late(pc, state))
    <3>1. line' = line /\ pc' = pc /\ req' = req /\ (state' = state \/ Alive)
      BY <2>3 DEF Surroundings, WriterEnds, ScriptCloses, ProcessEnds, MachteldEnds, vars, process
    <3> QED BY <3>1 DEF Alive
  <2>4. line' = line /\ req' = req /\ (Late(pc', state') => Late(pc, state))
    BY <2>1, <2>2, <2>3 DEF Next
  <2> QED BY <1>2, <2>4 DEF LineIsMade
<1> QED BY <1>3, <1>4

LEMMA MadeAlways == Spec => [](IInv /\ LineIsMade)
<1>1. Init => LineIsMade
  BY DEF Init, LineIsMade
<1> QED BY <1>1, InitIInv, IInvStep, MadeStep, PTL DEF Spec

\* A running program reads the arguments the script gave, whatever they hold
\* (wj_make_cmdline).
THEOREM ArgumentsArriveHolds == Spec => []ArgumentsArrive
<1>1. IInv /\ LineIsMade => ArgumentsArrive
  <2> SUFFICES ASSUME IInv, LineIsMade, state = "running", ~req.batch PROVE ParseArgs(line) = req.argv
    BY DEF ArgumentsArrive
  <2>1. line = MakeCmdline(req.argv)
    BY DEF LineIsMade, Line
  <2>2. req.argv \in Seq(Seq(Chars))
    BY RequestAssumption DEF IInv
  <2> QED BY <2>1, <2>2, ProgramReadsBack
<1> QED BY <1>1, MadeAlways, PTL

\* A running batch file was started by a line in which cmd found nothing to act on, and
\* reads the arguments the script gave (wj_make_batch_cmdline).
THEOREM BatchIsInertHolds == Spec => []BatchIsInert
<1>1. IInv /\ LineIsMade => BatchIsInert
  <2> SUFFICES ASSUME IInv, LineIsMade, state = "running", req.batch
               PROVE  ~ActsOn(line) /\ ~ActsOn(Expand(line)) /\ ParseArgs(Expand(line)) = req.argv
    BY DEF BatchIsInert
  <2>1. line = MakeBatchCmdline(Script, Args) /\ ~BatchRefused(Script, Args)
    BY DEF LineIsMade, Line
  <2>2. req.argv \in Seq(Seq(Chars)) /\ req.argv # <<>>
    BY RequestAssumption DEF IInv
  <2>3. Script \in Seq(Chars) /\ Args \in Seq(Seq(Chars)) /\ Script = Head(req.argv)
    BY <2>2, HeadTailProperties DEF Script, Args
  <2>4. <<Script>> \o Args = req.argv
    <3>1. <<Script>> \in Seq(Seq(Chars)) /\ Len(<<Script>>) = 1 /\ <<Script>>[1] = Script
      BY <2>3
    <3>2. PICK v \in Seq(Seq(Chars)) : v = req.argv
      BY <2>2
    <3>3. PICK u \in Seq(Seq(Chars)) : u = <<Script>> \o Args
      BY <2>3, <3>1, ConcatProperties
    <3>4. Len(Args) = Len(v) - 1 /\ \A i \in 1 .. Len(v) - 1 : Args[i] = v[i + 1]
      BY <2>2, <3>2, HeadTailProperties DEF Args
    <3>5. Len(u) = 1 + Len(Args) /\ u[1] = Script /\ \A i \in 1 .. Len(Args) : u[i + 1] = Args[i]
      BY <2>3, <3>1, <3>3, ConcatProperties
    <3>6. Len(v) \in Nat \ {0}
      BY <2>2, <3>2, EmptySeq
    <3>7. Len(u) = Len(v)
      BY <3>4, <3>5, <3>6
    <3>8. \A i \in 1 .. Len(u) : u[i] = v[i]
      <4> TAKE i \in 1 .. Len(u)
      <4>1. CASE i = 1
        BY <3>2, <3>5, <4>1 DEF Script
      <4>2. CASE i # 1
        <5>1. i - 1 \in 1 .. Len(Args) /\ i - 1 \in 1 .. Len(v) - 1 /\ (i - 1) + 1 = i
          BY <3>4, <3>6, <3>7, <4>2
        <5> QED BY <3>4, <3>5, <5>1
      <4> QED BY <4>1, <4>2
    <3> QED BY <3>2, <3>3, <3>7, <3>8, SeqEqual
  <2>5. /\ ~ActsOn(line) /\ ~ActsOn(Expand(line))
        /\ ParseArgs(Expand(line)) = <<Script>> \o Args
    BY <2>1, <2>3, BatchReadsBack
  <2> QED BY <2>4, <2>5
<1> QED BY <1>1, MadeAlways, PTL
==============================================================================
