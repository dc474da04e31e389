-------------------------------- MODULE Mtps --------------------------------
(* The command mtps (ps.c): list, info and kill of processes machteld did not   *)
(* start, by pid. The system may let processes start, exit and vanish, and hand *)
(* a pid out again, between any two of the command's calls.                     *)
EXTENDS Naturals, Sequences, FiniteSets

CONSTANTS Pids,      \* the pids the system hands out
          System,    \* the pids mtps never terminates (0 and 4)
          MaxBirths, \* bound: processes that are ever started
          MaxMoves,  \* bound: what the system does during the command
          MaxOdd,    \* bound: processes whose rights or exit code are out of the ordinary
          Roots      \* the pids the command is given

ASSUME PidsAssumption == Pids \subseteq Nat /\ System \subseteq Pids /\ Roots \subseteq Pids
ASSUME BirthsAssumption == MaxBirths \in Nat \ {0}

Ids == 1 .. MaxBirths
Rights == {"open", "noquery", "shut"}  \* what our token may do to a process

VARIABLES
  who,     \* per pid: the process that has it (a corpse keeps it), 0 when free
  proc,    \* per process: [pid, ppid, parent, rights, exit]; ppid is what it was told
  births, moves,
  op, root,   \* the command and the pid it was given
  pc,
  snap,       \* the Toolhelp snapshot: entries [pid, ppid, id]
  todo,       \* pids still to be terminated (or listed), with their depth
  cur,        \* the pid being worked on
  h,          \* our open handle: [id, query], id = 0 when none
  tried,      \* the pids a termination was attempted on, in order
  rows,       \* what it reports: [pid, what, id, late, living]: the process it looked at,
              \* whether that was started between two attempts to open it, and whether it
              \* was living when this was said
  snapped,    \* births when the snapshot was taken (for properties)
  asked       \* births when the pid being worked on was first opened (for properties)
vars == <<who, proc, births, moves, op, root, pc, snap, todo, cur, h, tried, rows, snapped, asked>>
system == <<who, proc, births, moves>>

NoHandle == [id |-> 0, query |-> FALSE]
Odd == {i \in 2 .. births : proc[i].rights # "open" \/ proc[i].exit = "active"}
Alive(i) == i \in 1 .. births /\ proc[i].exit = "none"
\* The system moves at will before the command, and a bounded number of times in it.
Moves == /\ pc \notin {"done", "notfound", "error"}
         /\ pc # "idle" => moves < MaxMoves
         /\ moves' = IF pc = "idle" THEN 0 ELSE moves + 1
------------------------------------------------------------------------------
(* The system.                                                              *)

Born(p, pp, par, r) ==
  [pid |-> p, ppid |-> pp, parent |-> par, rights |-> r, exit |-> "none"]

Init ==
  /\ \E s \in System : /\ who = [p \in Pids |-> IF p = s THEN 1 ELSE 0]
                       /\ proc = <<Born(s, s, 0, "shut")>>
  /\ births = 1 /\ moves = 0
  /\ op = "none" /\ root = 0 /\ pc = "idle"
  /\ snap = {} /\ todo = {} /\ cur = 0 /\ h = NoHandle
  /\ tried = <<>> /\ rows = {} /\ snapped = 0 /\ asked = 0

\* The pids of the system's own processes are nobody else's.
Start ==
  /\ Moves /\ births < MaxBirths
  /\ \E p \in Pids \ System, pp \in Pids, r \in Rights :
       /\ who[p] = 0 /\ who[pp] # 0 /\ Alive(who[pp])
       /\ r = "open" \/ Cardinality(Odd) < MaxOdd
       /\ births' = births + 1
       /\ proc' = Append(proc, Born(p, pp, who[pp], r))
       /\ who' = [who EXCEPT ![p] = births + 1]
  /\ UNCHANGED <<op, root, pc, snap, todo, cur, h, tried, rows, snapped, asked>>

\* "active" is an exit with code 259, which is what STILL_ACTIVE is.
Exit ==
  /\ Moves /\ \E i \in 2 .. births, e \in {"code", "active"} :
       /\ Alive(i) /\ (e = "code" \/ Cardinality(Odd \ {i}) < MaxOdd)
       /\ proc' = [proc EXCEPT ![i].exit = e]
  /\ UNCHANGED <<who, births, op, root, pc, snap, todo, cur, h, tried, rows, snapped, asked>>

\* The last handle to a dead process is closed: its pid is free again.
Vanish ==
  /\ Moves /\ \E p \in Pids : /\ who[p] # 0 /\ ~Alive(who[p]) /\ h.id # who[p]
                     /\ who' = [who EXCEPT ![p] = 0]
  /\ UNCHANGED <<proc, births, op, root, pc, snap, todo, cur, h, tried, rows, snapped, asked>>
------------------------------------------------------------------------------
(* The command.                                                             *)

Running == {[pid |-> p, ppid |-> proc[who[p]].ppid, id |-> who[p]] :
              p \in {q \in Pids : who[q] # 0 /\ Alive(who[q])}}

\* Entries by distance from the root, along the parent pids of the snapshot.
\* Fault: an entry may be put under the root although its parent is not.
LevelsByAnyParent(S, r) ==
  LET L[k \in 0 .. Cardinality(S)] ==
        IF k = 0 THEN {e \in S : e.pid = r}
        ELSE {e \in S : /\ e.pid \notin System
                        /\ \A j \in 0 .. k - 1 : e \notin L[j]
                        /\ L[k - 1] # {} /\ \E d \in S : e.ppid = d.pid}
  IN L
Levels(S, r) ==
  LET L[k \in 0 .. Cardinality(S)] ==
        IF k = 0 THEN {e \in S : e.pid = r}
        ELSE {e \in S : /\ e.pid \notin System
                        /\ \A j \in 0 .. k - 1 : e \notin L[j]
                        /\ \E d \in L[k - 1] : e.ppid = d.pid}
  IN L

\* Fault: only the root's own children are found.
OneLevel(S, r) == {[pid |-> e.pid, depth |-> 1] : e \in Levels(S, r)[1]} \ {[pid |-> r, depth |-> 1]}
Descendants(S, r) ==
  UNION {{[pid |-> e.pid, depth |-> k] : e \in Levels(S, r)[k]} : k \in 1 .. Cardinality(S)}

Refuse == /\ rows' = {[pid |-> root', what |-> "denied", id |-> 0, late |-> FALSE, living |-> FALSE]} /\ pc' = "done"

Call ==
  /\ pc = "idle"
  /\ op' \in {"list", "info", "kill", "tree"} /\ root' \in Roots
  /\ \/ /\ op' \in {"kill", "tree"} /\ root' \in System
        /\ Refuse /\ UNCHANGED todo
     \/ /\ op' = "kill" /\ root' \notin System
        /\ pc' = "next" /\ todo' = {[pid |-> root', depth |-> 0]} /\ UNCHANGED rows
     \/ /\ op' # "kill" /\ (op' = "tree" => root' \notin System)
        /\ pc' = "snapshot" /\ UNCHANGED <<rows, todo>>
  /\ UNCHANGED <<system, snap, cur, h, tried, snapped, asked>>

\* Taking the snapshot, or reading on in it, may fail.
SnapshotFails ==
  /\ pc = "snapshot"
  /\ pc' = "error"
  /\ UNCHANGED <<system, op, root, snap, todo, cur, h, tried, rows, snapped, asked>>

TakeSnapshot ==
  /\ pc = "snapshot"
  /\ snap' = Running /\ snapped' = births
  /\ todo' = CASE op = "tree" -> Descendants(snap', root) \cup {[pid |-> root, depth |-> 0]}
               [] op = "info" -> {[pid |-> e.pid, depth |-> 0] : e \in {d \in snap' : d.pid = root}}
               [] op = "list" -> {[pid |-> e.pid, depth |-> 0] : e \in snap'}
  /\ pc' = IF todo' = {} THEN "notfound" ELSE "next"
  /\ UNCHANGED <<system, op, root, cur, h, tried, rows, asked>>

\* Deepest first, the smaller pid first among equals (ps_depth_desc).
\* Fault: shallowest first.
ShallowFirst(t, u) == t.depth < u.depth \/ (t.depth = u.depth /\ t.pid <= u.pid)
Before(t, u) == t.depth > u.depth \/ (t.depth = u.depth /\ t.pid <= u.pid)

Next1 ==
  /\ pc = "next"
  /\ IF todo = {} THEN pc' = "done" /\ UNCHANGED <<todo, cur>>
     ELSE \E t \in todo : /\ \A u \in todo : Before(t, u)
                          /\ todo' = todo \ {t} /\ cur' = t.pid
                          /\ pc' = IF op \in {"list", "info"} THEN "look" ELSE "open"
  /\ UNCHANGED <<system, op, root, snap, h, tried, rows, snapped, asked>>

Said(what, id) ==
  rows' = rows \cup {[pid |-> cur, what |-> what, id |-> id, late |-> id > asked, living |-> Alive(id)]}

\* ps_row: the details are those of whoever has the pid now.
Look ==
  /\ pc = "look"
  /\ IF who[cur] # 0 /\ proc[who[cur]].rights = "open"
     THEN Said("access", who[cur]) ELSE Said("noaccess", 0)
  /\ pc' = "next"
  /\ UNCHANGED <<system, op, root, snap, todo, cur, h, tried, snapped, asked>>

\* ps_kill_one: the handle with the right to query, then the one without.
Open ==
  /\ pc = "open"
  /\ tried' = Append(tried, cur) /\ asked' = births
  /\ IF who[cur] # 0 /\ proc[who[cur]].rights = "open"
     THEN h' = [id |-> who[cur], query |-> TRUE] /\ pc' = "terminate"
     ELSE pc' = "openless" /\ UNCHANGED h
  /\ UNCHANGED <<system, op, root, snap, todo, cur, rows, snapped>>

OpenLess ==
  /\ pc = "openless"
  /\ IF who[cur] # 0 /\ proc[who[cur]].rights # "shut"
     THEN h' = [id |-> who[cur], query |-> FALSE] /\ pc' = "terminate" /\ UNCHANGED rows
     ELSE /\ Said(IF who[cur] = 0 THEN "notfound" ELSE "denied", who[cur])
          /\ pc' = "next" /\ UNCHANGED h
  /\ UNCHANGED <<system, op, root, snap, todo, cur, tried, snapped, asked>>

\* TerminateProcess fails for a corpse, and may fail for a living process as well.
Terminate ==
  /\ pc = "terminate"
  /\ \/ /\ Alive(h.id)
        /\ proc' = [proc EXCEPT ![h.id].exit = "killed"] /\ Said("killed", h.id)
        /\ h' = NoHandle /\ pc' = "next"
     \/ pc' = "refused" /\ UNCHANGED <<proc, h, rows>>
  /\ UNCHANGED <<who, births, moves, op, root, snap, todo, cur, tried, snapped, asked>>

\* Why it failed: the exit code, where it may be read, tells a corpse from a refusal.
\* Faults: the refusal is taken at face value; any exit code makes a corpse.
ExitCode(i) == IF proc[i].exit \in {"none", "active"} THEN "STILL_ACTIVE" ELSE proc[i].exit
FaceValue(hh) == "denied"
AnyCode(hh) == IF hh.query THEN "notfound" ELSE "denied"
Reason(hh) == IF hh.query /\ ExitCode(hh.id) # "STILL_ACTIVE" THEN "notfound" ELSE "denied"

ReadExitCode ==
  /\ pc = "refused"
  /\ Said(Reason(h), h.id) /\ h' = NoHandle /\ pc' = "next"
  /\ UNCHANGED <<system, op, root, snap, todo, cur, tried, snapped, asked>>

Kill == Open \/ OpenLess \/ Terminate \/ ReadExitCode
Command == Call \/ SnapshotFails \/ TakeSnapshot \/ Next1 \/ Look \/ Kill
Next == Start \/ Exit \/ Vanish \/ Command
Spec == Init /\ [][Next]_vars
------------------------------------------------------------------------------
(* Properties.                                                              *)

\* The process the snapshot found under a pid, 0 if none.
SeenAt(p) == IF \E e \in snap : e.pid = p THEN (CHOOSE e \in snap : e.pid = p).id ELSE 0

\* The forefathers of a process, by who started whom.
Forefathers(i) ==
  LET F[n \in 0 .. MaxBirths] ==
        IF n = 0 THEN {i} ELSE F[n - 1] \cup {proc[j].parent : j \in F[n - 1] \ {0}}
  IN F[MaxBirths] \ {0}

PidReused == \E i, j \in 1 .. births : i # j /\ proc[i].pid = proc[j].pid

\* "killed" is said exactly of the processes this command ended; "notfound" only
\* of a pid whose process was not living when that was said, so never of one that
\* refused to be terminated; and "denied" of a living process, or of a corpse that
\* could not be recognised: the token is refused or may not query, the exit code
\* reads as still active, or the process took the pid between the two attempts to
\* open it.
ReportIsTrue ==
  /\ \A i \in 1 .. births : proc[i].exit = "killed" =>
       \E r \in rows : r.what = "killed" /\ r.id = i
  /\ \A r \in rows :
       /\ r.what = "killed" => proc[r.id].exit = "killed" /\ proc[r.id].pid = r.pid
       /\ r.what = "notfound" => ~r.living
       /\ r.what = "denied" /\ r.id # 0 =>
            r.living \/ proc[r.id].rights # "open" \/ proc[r.id].exit = "active" \/ r.late

\* When mtps kill -tree returns, a living process that the root's process brought
\* forth was born after the snapshot, is reported as not terminated, had lost a
\* forefather below the root before the snapshot, or the root itself was gone
\* then: nobody outlives the call without one of these reasons, unless a pid
\* was handed out again.
SurvivorsExplained ==
  pc = "done" /\ op = "tree" /\ root \notin System /\ ~PidReused =>
    \A i \in 2 .. births :
      Alive(i) /\ SeenAt(root) \in Forefathers(i) =>
        \/ i > snapped
        \/ \E r \in rows : r.pid = proc[i].pid /\ r.what \in {"denied", "notfound"}
        \/ \E j \in Forefathers(i) \ (Forefathers(SeenAt(root)) \cup {i}) :
             ~\E e \in snap : e.id = j

\* A process is never terminated before those the snapshot shows below it: no
\* child is orphaned by the walk and then missed.
ChildrenFirst ==
  \A i, j \in 1 .. Len(tried) :
    i < j /\ tried[j] # root =>
      ~\E e \in snap : e.pid = tried[j] /\ e.ppid = tried[i]

\* A row's details, or a termination, are those of the process that was meant (the
\* one the snapshot showed, and in a tree one the root's process brought forth),
\* unless the system handed out some pid again: that is the whole of the
\* documented "best effort".
StrangerOnlyByReuse ==
  ~PidReused => \A r \in rows :
    /\ r.what = "access" => r.id = SeenAt(r.pid)
    /\ r.what = "killed" /\ op = "tree" /\ SeenAt(root) # 0 => SeenAt(root) \in Forefathers(r.id)
    /\ r.what = "killed" /\ op = "kill" => r.pid = root
==============================================================================
