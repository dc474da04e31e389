------------------------------ MODULE WalkProofs ------------------------------
(***************************************************************************)
(* Two commands that walk something which other programs change meanwhile:    *)
(* mtps the processes, dirs (with links and canon) the directories.           *)
(***************************************************************************)
EXTENDS Mtps, Dirs, SequenceTheorems, FiniteSetTheorems, TLAPS

(***************************************************************************)
(* What Mtps promises, for any number of pids, processes and moves of the     *)
(* system. A command knows processes by their pids, so its invariant says who *)
(* may be behind a pid, and behind a handle, at each call.                    *)
(***************************************************************************)

\* Induction over a set of naturals is in SeqProofs; nothing is folded here.
Seqs == INSTANCE SeqProofs WITH Step <- Append

Process == [pid : Pids, ppid : Pids, parent : Nat, rights : Rights,
            exit : {"none", "code", "active", "killed"}]
Started == 1 .. births
SystemTypes == /\ births \in 1 .. MaxBirths /\ proc \in Seq(Process) /\ Len(proc) = births
               /\ who \in [Pids -> 0 .. births]
\* Processes are numbered as they are born; only the first one is the system's.
Pedigree ==
  \A i \in Started : /\ proc[i].parent \in 0 .. i - 1 /\ (proc[i].parent = 0 <=> i = 1)
                     /\ proc[i].pid \in System <=> i = 1
                     /\ proc[i].parent # 0 => proc[i].ppid = proc[proc[i].parent].pid
\* A pid is a process's for as long as that lives, and may outlive it.
Holders == /\ \A p \in Pids : who[p] # 0 => proc[who[p]].pid = p
           /\ \A i \in Started : Alive(i) => who[proc[i].pid] = i
SystemInv == SystemTypes /\ Pedigree /\ Holders

Entries == [pid : Pids, ppid : Pids, id : Nat]
Walking == {"next", "look", "open", "openless", "terminate", "refused", "done"}
Killing == op \in {"kill", "tree"}

\* How far the command is.
Course ==
  /\ pc \in Walking \cup {"idle", "snapshot", "notfound", "error"}
  /\ IF pc = "idle" THEN op = "none" ELSE op \in {"list", "info", "kill", "tree"} /\ root \in Roots
  /\ pc \notin Walking => rows = {} /\ tried = <<>>
  /\ pc \in {"idle", "snapshot", "error"} \/ op = "kill" => snap = {}
  /\ pc = "idle" => todo = {}
  /\ pc = "look" => ~Killing
  /\ pc \in {"open", "openless", "terminate", "refused"} => Killing
  /\ Killing /\ pc # "done" => root \notin System
  /\ pc = "snapshot" => op # "kill"
\* The snapshot shows each process as it was, and every one that still lives.
SnapIsTrue ==
  /\ snap \subseteq Entries /\ IsFiniteSet(snap) /\ snapped \in 0 .. births
  /\ \A e \in snap : e.id \in 1 .. snapped /\ e.pid = proc[e.id].pid /\ e.ppid = proc[e.id].ppid
  /\ \A e, f \in snap : e.pid = f.pid => e = f
  /\ pc \in Walking /\ op = "tree" /\ root \notin System =>
       \A i \in 1 .. snapped : Alive(i) => \E e \in snap : e.id = i

\* Whom a kill is meant for.
Tree == Descendants(snap, root) \cup {[pid |-> root, depth |-> 0]}
Meant == {t.pid : t \in Tree}
\* The pid a call is about, once it was taken from the list.
Held == pc \in {"look", "open", "openless", "terminate", "refused"}
HandleIsTrue ==
  /\ asked \in 0 .. births
  /\ Held => cur \in (IF Killing THEN Meant ELSE {e.pid : e \in snap})
  /\ pc = "openless" => who[cur] = 0 \/ proc[who[cur]].rights # "open" \/ who[cur] > asked
  /\ pc \in {"terminate", "refused"} =>
       /\ h.id \in Started /\ proc[h.id].pid = cur
       /\ h.query \/ proc[h.id].rights # "open" \/ h.id > asked

\* What is still to be done, and that everything meant was.
Ends == {"killed", "denied", "notfound"}
Answered(p) == \E r \in rows : r.pid = p /\ r.what \in Ends
ListIsTrue ==
  pc \in Walking =>
    IF ~Killing THEN \A t \in todo : t.pid \in {e.pid : e \in snap}
    ELSE root \notin System =>
      /\ todo \subseteq Tree /\ (pc = "done" => todo = {})
      /\ \A t \in Tree : t \in todo \/ (Held /\ cur = t.pid) \/ Answered(t.pid)

\* A row is about a process that had the pid.
RowIsTrue(r) ==
  /\ r.id \in 0 .. births
  /\ r.what = "killed" => /\ r.id \in Started /\ proc[r.id].exit = "killed" /\ proc[r.id].pid = r.pid
                          /\ Killing /\ r.pid \in Meant
  /\ r.what = "notfound" => ~r.living
  /\ r.what = "denied" /\ r.id # 0 =>
       r.living \/ proc[r.id].rights # "open" \/ proc[r.id].exit = "active" \/ r.late
  /\ r.what = "access" => /\ r.id \in Started /\ proc[r.id].pid = r.pid
                          /\ \E e \in snap : e.pid = r.pid
RowsAreTrue ==
  /\ \A r \in rows : RowIsTrue(r)
  /\ \A i \in Started : proc[i].exit = "killed" => \E r \in rows : r.what = "killed" /\ r.id = i

\* Nothing is tried before what is deeper in the tree.
Behind(p, q) == \A t, u \in Tree : t.pid = p /\ u.pid = q => t.depth >= u.depth
Order ==
  /\ tried \in Seq(Pids)
  /\ \A i, j \in 1 .. Len(tried) : i < j => Behind(tried[i], tried[j])
  /\ Killing /\ pc \in Walking => \A i \in 1 .. Len(tried), u \in todo : Behind(tried[i], u.pid)
  /\ pc = "open" => \A i \in 1 .. Len(tried) : Behind(tried[i], cur)
  /\ pc \in {"open", "openless", "terminate", "refused"} => \A u \in todo : Behind(cur, u.pid)
  /\ \A i \in 1 .. Len(tried) : Killing /\ tried[i] \in Meant

IInv == SystemInv /\ Course /\ SnapIsTrue /\ HandleIsTrue /\ ListIsTrue /\ RowsAreTrue /\ Order
------------------------------------------------------------------------------
(* The system.                                                              *)

\* What a step leaves of those that were there, and who takes a pid.
Grows ==
  /\ births' \in births .. MaxBirths
  /\ \A i \in Started : /\ i \in Started' /\ proc'[i].pid = proc[i].pid /\ proc'[i].ppid = proc[i].ppid
                        /\ proc'[i].parent = proc[i].parent /\ proc'[i].rights = proc[i].rights
                        /\ proc[i].exit # "none" => proc'[i].exit = proc[i].exit
  /\ \A p \in Pids : who'[p] \in {0, who[p]} \/ who'[p] > births

LEMMA InitSystem == Init => SystemInv
<1> SUFFICES ASSUME Init PROVE SystemInv
  OBVIOUS
<1>1. PICK s \in System : who = [p \in Pids |-> IF p = s THEN 1 ELSE 0] /\ proc = <<Born(s, s, 0, "shut")>>
  BY DEF Init
<1>2. s \in Pids /\ births = 1 /\ MaxBirths \in Nat \ {0}
  BY PidsAssumption, BirthsAssumption DEF Init
<1>3. Born(s, s, 0, "shut") \in Process
  BY <1>2 DEF Born, Process, Rights
<1>4. proc \in Seq(Process) /\ Len(proc) = 1 /\ proc[1] = Born(s, s, 0, "shut")
  BY <1>1, <1>3
<1>5. SystemTypes
  BY <1>1, <1>2, <1>4 DEF SystemTypes
<1>6. Pedigree /\ Holders
  BY <1>1, <1>2, <1>4 DEF Pedigree, Holders, Started, Alive, Born
<1> QED BY <1>5, <1>6 DEF SystemInv

\* One process changes: it exits or is killed.
LEMMA ExitKeeps ==
  ASSUME SystemInv, NEW i \in Started, NEW e \in {"code", "active", "killed"}, Alive(i),
         proc' = [proc EXCEPT ![i].exit = e], UNCHANGED <<who, births>>
  PROVE  SystemInv' /\ Grows
<1>1. /\ proc \in Seq(Process) /\ births \in Nat /\ Len(proc) = births /\ births <= MaxBirths
      /\ MaxBirths \in Nat /\ who \in [Pids -> 0 .. births]
  BY BirthsAssumption DEF SystemInv, SystemTypes
<1>2. /\ proc[i] \in Process /\ i \in 1 .. Len(proc)
      /\ proc' = [proc EXCEPT ![i] = [proc[i] EXCEPT !.exit = e]]
  BY <1>1 DEF Started
<1>3. [proc[i] EXCEPT !.exit = e] \in Process
  BY <1>2 DEF Process
<1>4. /\ proc' \in Seq(Process) /\ Len(proc') = births /\ proc'[i] = [proc[i] EXCEPT !.exit = e]
      /\ \A j \in Started \ {i} : proc'[j] = proc[j]
  BY <1>1, <1>2, <1>3, ExceptSeq DEF Started
<1>5. \A j \in Started : /\ proc'[j].pid = proc[j].pid /\ proc'[j].ppid = proc[j].ppid
                         /\ proc'[j].parent = proc[j].parent /\ proc'[j].rights = proc[j].rights
                         /\ proc[j].exit # "none" => proc'[j].exit = proc[j].exit
  BY <1>2, <1>4 DEF Process, Alive
<1>6. Started' = Started
  BY DEF Started
<1>7. Grows
  BY <1>1, <1>5, <1>6 DEF Grows
<1>8. SystemTypes'
  BY <1>1, <1>4 DEF SystemTypes, SystemInv
<1>9. Pedigree'
  BY <1>1, <1>5, <1>6 DEF SystemInv, Pedigree, Started
<1>10. Holders'
  <2>1. \A j \in Started : Alive(j)' => Alive(j)
    BY <1>5 DEF Alive, Started
  <2> QED BY <1>1, <1>5, <1>6, <2>1 DEF SystemInv, Holders, Started
<1> QED BY <1>7, <1>8, <1>9, <1>10 DEF SystemInv

\* Processes are started, exit, leave their pids, and are killed.
LEMMA SystemStep == ASSUME SystemInv, [Next]_vars PROVE SystemInv' /\ Grows
<1>0. /\ proc \in Seq(Process) /\ births \in Nat \ {0} /\ Len(proc) = births /\ births <= MaxBirths
      /\ MaxBirths \in Nat /\ who \in [Pids -> 0 .. births] /\ \A i \in Started : proc[i] \in Process
  BY BirthsAssumption DEF SystemInv, SystemTypes, Started
<1>1. CASE Start
  <2>1. PICK p \in Pids \ System, pp \in Pids, r \in Rights :
          /\ who[p] = 0 /\ who[pp] # 0 /\ Alive(who[pp]) /\ births < MaxBirths
          /\ births' = births + 1 /\ proc' = Append(proc, Born(p, pp, who[pp], r))
          /\ who' = [who EXCEPT ![p] = births + 1]
    BY <1>1 DEF Start
  <2> DEFINE b == Born(p, pp, who[pp], r)
  <2>2. who[pp] \in Started
    BY <1>0, <2>1 DEF Started
  <2>3. b \in Process
    BY <1>0, <2>2 DEF Born, Process, Started
  <2>4. /\ proc' \in Seq(Process) /\ Len(proc') = births + 1 /\ proc'[births + 1] = b
        /\ \A i \in Started : proc'[i] = proc[i]
    BY <1>0, <2>1, <2>3 DEF Started
  <2>5. Started' = Started \cup {births + 1} /\ births + 1 \notin Started
    BY <1>0, <2>1 DEF Started
  <2>6. Grows
    <3>1. \A q \in Pids : who'[q] = who[q] \/ who'[q] = births + 1
      BY <1>0, <2>1
    <3>2. births' \in births .. MaxBirths /\ births + 1 > births
      BY <1>0, <2>1
    <3> QED BY <2>4, <2>5, <3>1, <3>2 DEF Grows
  <2>7. SystemTypes'
    BY <1>0, <2>1, <2>4 DEF SystemTypes
  <2>8. Pedigree'
    <3>1. ASSUME NEW i \in Started
          PROVE  /\ proc'[i].parent \in 0 .. i - 1 /\ (proc'[i].parent = 0 <=> i = 1)
                 /\ proc'[i].pid \in System <=> i = 1
                 /\ proc'[i].parent # 0 => proc'[i].ppid = proc'[proc'[i].parent].pid
      <4>1. /\ proc[i].parent \in 0 .. i - 1 /\ (proc[i].parent = 0 <=> i = 1)
            /\ proc[i].pid \in System <=> i = 1
            /\ proc[i].parent # 0 => proc[i].ppid = proc[proc[i].parent].pid
        BY DEF SystemInv, Pedigree
      <4>2. proc[i].parent # 0 => proc[i].parent \in Started
        BY <1>0, <4>1 DEF Started
      <4> QED BY <2>4, <4>1, <4>2
    <3>2. b.parent \in 1 .. births /\ b.pid \notin System /\ b.ppid = proc'[b.parent].pid
      <4>1. proc'[who[pp]] = proc[who[pp]] /\ proc[who[pp]].pid = pp
        BY <2>1, <2>2, <2>4 DEF SystemInv, Holders
      <4> QED BY <1>0, <2>1, <4>1 DEF Born
    <3> QED BY <1>0, <2>4, <2>5, <3>1, <3>2 DEF Pedigree
  <2>9. Holders'
    <3>1. ASSUME NEW q \in Pids, who'[q] # 0 PROVE proc'[who'[q]].pid = q
      <4>1. CASE q = p
        BY <1>0, <2>1, <2>4, <4>1 DEF Born
      <4>2. CASE q # p
        BY <1>0, <2>1, <2>4, <3>1, <4>2 DEF SystemInv, Holders, Started
      <4> QED BY <4>1, <4>2
    <3>2. ASSUME NEW i \in Started', Alive(i)' PROVE who'[proc'[i].pid] = i
      <4>1. CASE i = births + 1
        BY <1>0, <2>1, <2>4, <4>1 DEF Born
      <4>2. CASE i # births + 1
        <5>1. i \in Started /\ proc'[i] = proc[i] /\ Alive(i)
          BY <2>4, <2>5, <3>2, <4>2 DEF Alive, Started
        <5>2. who[proc[i].pid] = i /\ i # 0
          BY <5>1, <1>0 DEF SystemInv, Holders, Started
        <5>3. proc[i].pid # p /\ proc[i].pid \in Pids
          BY <2>1, <5>1, <5>2, <1>0 DEF Process
        <5> QED BY <1>0, <2>1, <5>1, <5>2, <5>3
      <4> QED BY <4>1, <4>2
    <3> QED BY <3>1, <3>2 DEF Holders
  <2> QED BY <2>6, <2>7, <2>8, <2>9 DEF SystemInv
<1>2. CASE Exit
  <2>1. PICK i \in 2 .. births, e \in {"code", "active"} :
          Alive(i) /\ proc' = [proc EXCEPT ![i].exit = e] /\ UNCHANGED <<who, births>>
    BY <1>2 DEF Exit
  <2>2. i \in Started
    BY <1>0, <2>1 DEF Started
  <2> QED BY <2>1, <2>2, ExitKeeps
<1>3. CASE Terminate /\ pc' = "next"
  <2>1. /\ proc' = [proc EXCEPT ![h.id].exit = "killed"] /\ UNCHANGED <<who, births>>
        /\ h.id \in Started /\ Alive(h.id)
    BY <1>3 DEF Terminate, Alive, Started
  <2> QED BY <1>3, <2>1, ExitKeeps
<1>4. CASE Vanish
  <2>1. PICK p \in Pids : ~Alive(who[p]) /\ who' = [who EXCEPT ![p] = 0] /\ UNCHANGED <<proc, births>>
    BY <1>4 DEF Vanish
  <2>2. SystemTypes' /\ Pedigree' /\ Grows
    BY <1>0, <2>1 DEF SystemInv, SystemTypes, Pedigree, Started, Grows
  <2>3. Holders'
    <3>1. ASSUME NEW i \in Started, Alive(i) PROVE who'[proc[i].pid] = i
      <4>1. who[proc[i].pid] = i /\ proc[i].pid \in Pids
        BY <1>0, <3>1 DEF SystemInv, Holders, Process
      <4>2. proc[i].pid # p
        BY <2>1, <3>1, <4>1
      <4> QED BY <1>0, <2>1, <4>1, <4>2
    <3> QED BY <1>0, <2>1, <3>1 DEF SystemInv, Holders, Started, Alive
  <2> QED BY <2>2, <2>3 DEF SystemInv
<1>5. CASE UNCHANGED <<who, proc, births>>
  BY <1>0, <1>5 DEF SystemInv, SystemTypes, Pedigree, Holders, Alive, Started, Grows
<1>6. \/ Start \/ Exit \/ Vanish \/ UNCHANGED <<who, proc, births>>
      \/ (Terminate /\ pc' = "next")
  BY DEF Next, Command, Kill, Call, SnapshotFails, TakeSnapshot, Next1, Look, Open, OpenLess, Terminate,
    ReadExitCode, system, vars
<1> QED BY <1>1, <1>2, <1>3, <1>4, <1>5, <1>6
------------------------------------------------------------------------------
(* Levels. The depths that the passes over the snapshot settle.               *)

\* Who is at distance k, when L says who is nearer.
Level(L, S, r, k) ==
  IF k = 0 THEN {e \in S : e.pid = r}
  ELSE {e \in S : /\ e.pid \notin System
                  /\ \A j \in 0 .. k - 1 : e \notin L[j]
                  /\ \E d \in L[k - 1] : e.ppid = d.pid}
AreLevels(L, S, r, n) == L = [k \in 0 .. n |-> Level(L, S, r, k)]

\* There is such a function.
LEMMA LevelsExist == ASSUME NEW S, NEW r, NEW N \in Nat PROVE \E L : AreLevels(L, S, r, N)
<1> DEFINE D == {n \in Nat : \E L : AreLevels(L, S, r, n)}
<1>1. 0 \in D
  <2> DEFINE L == [k \in 0 .. 0 |-> {e \in S : e.pid = r}]
  <2>1. AreLevels(L, S, r, 0)
    BY DEF AreLevels, Level
  <2> QED BY <2>1
<1>2. ASSUME NEW n \in D PROVE n + 1 \in D
  <2>1. n \in Nat
    OBVIOUS
  <2>2. PICK L : AreLevels(L, S, r, n)
    OBVIOUS
  <2> DEFINE M == [k \in 0 .. n + 1 |-> IF k = n + 1 THEN Level(L, S, r, k) ELSE L[k]]
  <2> HIDE DEF D
  <2>3. \A k \in 0 .. n : M[k] = L[k] /\ L[k] = Level(L, S, r, k)
    BY <2>1, <2>2 DEF AreLevels
  <2>4. M[n + 1] = Level(L, S, r, n + 1)
    BY <2>1
  <2> HIDE DEF M
  <2>5. ASSUME NEW k \in 0 .. n + 1 PROVE Level(M, S, r, k) = Level(L, S, r, k)
    <3>1. \A j \in 0 .. k - 1 : j \in 0 .. n
      BY <2>1
    <3>2. CASE k = 0
      BY <3>2 DEF Level
    <3>3. CASE k # 0
      <4>1. \A j \in 0 .. k - 1 : M[j] = L[j]
        BY <2>3, <3>1
      <4>2. k - 1 \in 0 .. n
        BY <2>1, <3>3
      <4>3. M[k - 1] = L[k - 1]
        BY <2>3, <4>2
      <4> QED BY <3>3, <4>1, <4>3 DEF Level
    <3> QED BY <3>2, <3>3
  <2>6. \A k \in 0 .. n + 1 : M[k] = Level(M, S, r, k)
    <3>1. \A k \in 0 .. n + 1 : k = n + 1 \/ k \in 0 .. n
      BY <2>1
    <3> QED BY <2>3, <2>4, <2>5, <3>1
  <2>7. M = [k \in 0 .. n + 1 |-> Level(M, S, r, k)]
    BY <2>6 DEF M
  <2>8. AreLevels(M, S, r, n + 1)
    BY <2>7 DEF AreLevels
  <2> QED BY <2>1, <2>8 DEF D
<1>3. D = Nat
  BY <1>1, <1>2, Seqs!NatSetInduction
<1> QED BY <1>3

\* The root is at level 0; who is at another level has a parent one level up, and no other level.
LEMMA LevelsAre ==
  ASSUME NEW S, IsFiniteSet(S), NEW r
  PROVE  /\ Levels(S, r)[0] = {e \in S : e.pid = r}
         /\ \A k \in 1 .. Cardinality(S), e \in S :
              e \in Levels(S, r)[k] <=> /\ e.pid \notin System
                                        /\ \A j \in 0 .. k - 1 : e \notin Levels(S, r)[j]
                                        /\ \E d \in Levels(S, r)[k - 1] : e.ppid = d.pid
         /\ \A k \in 0 .. Cardinality(S) : Levels(S, r)[k] \subseteq S
<1> DEFINE n == Cardinality(S)
           L == CHOOSE f : AreLevels(f, S, r, n)
<1>1. n \in Nat
  BY FS_CardinalityType
<1>2. AreLevels(L, S, r, n)
  BY <1>1, LevelsExist
<1>3. Levels(S, r) = L
  BY DEF Levels, AreLevels, Level
<1> HIDE DEF L
<1>4. \A k \in 0 .. n : L[k] = Level(L, S, r, k)
  BY <1>2 DEF AreLevels
<1>5. L[0] = {e \in S : e.pid = r}
  <2>1. 0 \in 0 .. n
    BY <1>1
  <2> QED BY <2>1, <1>4 DEF Level
<1>6. ASSUME NEW k \in 1 .. n, NEW e \in S
      PROVE  e \in L[k] <=> /\ e.pid \notin System
                            /\ \A j \in 0 .. k - 1 : e \notin L[j]
                            /\ \E d \in L[k - 1] : e.ppid = d.pid
  <2>1. k \in 0 .. n /\ k # 0
    BY <1>1, <1>6
  <2>2. L[k] = Level(L, S, r, k)
    BY <1>4, <2>1
  <2> QED BY <2>1, <2>2 DEF Level
<1>7. ASSUME NEW k \in 0 .. n PROVE L[k] \subseteq S
  <2>1. L[k] = Level(L, S, r, k)
    BY <1>4
  <2> QED BY <2>1 DEF Level
<1>8. /\ L[0] = {e \in S : e.pid = r}
      /\ \A k \in 1 .. n, e \in S :
           e \in L[k] <=> /\ e.pid \notin System
                         /\ \A j \in 0 .. k - 1 : e \notin L[j]
                         /\ \E d \in L[k - 1] : e.ppid = d.pid
      /\ \A k \in 0 .. n : L[k] \subseteq S
  BY <1>5, <1>6, <1>7
<1> QED BY <1>3, <1>8

\* What every snapshot is: finite, with one entry to a pid.
Snapshot(S) == IsFiniteSet(S) /\ \A e, f \in S : e.pid = f.pid => e = f

\* Nobody is at two levels.
LEMMA OneLevelEach ==
  ASSUME NEW S, Snapshot(S), NEW r, NEW j \in 0 .. Cardinality(S), NEW k \in 0 .. Cardinality(S),
         NEW e, e \in Levels(S, r)[j], e \in Levels(S, r)[k]
  PROVE  j = k
<1> DEFINE L == Levels(S, r)
           n == Cardinality(S)
<1>1. n \in Nat /\ e \in S
  BY LevelsAre, FS_CardinalityType DEF Snapshot
<1>2. \A i \in 1 .. n, f \in S : f \in L[i] => \A m \in 0 .. i - 1 : f \notin L[m]
  BY LevelsAre DEF Snapshot
<1> HIDE DEF L, n
<1>3. \A i, m \in 0 .. n : e \in L[i] /\ e \in L[m] => ~(m < i)
  BY <1>1, <1>2
<1>4. e \in L[j] /\ e \in L[k] /\ j \in 0 .. n /\ k \in 0 .. n
  BY DEF L, n
<1> QED BY <1>1, <1>3, <1>4

\* The list of a kill, by levels.
LEMMA TreeIs ==
  ASSUME NEW t
  PROVE  t \in Tree <=> \/ t = [pid |-> root, depth |-> 0]
                        \/ \E k \in 1 .. Cardinality(snap) : \E e \in Levels(snap, root)[k] :
                             t = [pid |-> e.pid, depth |-> k]
BY DEF Tree, Descendants

\* A pid is on the list once.
LEMMA TreeKeyed ==
  ASSUME Snapshot(snap), NEW t \in Tree, NEW u \in Tree, t.pid = u.pid
  PROVE  t = u
<1> DEFINE L == Levels(snap, root)
           n == Cardinality(snap)
<1>0. n \in Nat
  BY FS_CardinalityType DEF Snapshot
<1>1. ASSUME NEW k \in 1 .. n, NEW e \in L[k] PROVE e.pid # root /\ e \in snap
  <2>1. k \in 0 .. n /\ 0 \in 0 .. n /\ k # 0
    BY <1>0
  <2>2. e \in snap
    BY <1>1, <2>1, LevelsAre DEF Snapshot
  <2>3. e.pid = root => e \in L[0]
    BY <2>2, LevelsAre DEF Snapshot
  <2>4. e \notin L[0]
    BY <1>1, <2>1, OneLevelEach
  <2> QED BY <2>2, <2>3, <2>4
<1>2. CASE t = [pid |-> root, depth |-> 0] \/ u = [pid |-> root, depth |-> 0]
  <2>1. \A v \in Tree : v.pid = root => v = [pid |-> root, depth |-> 0]
    BY <1>1, TreeIs
  <2>2. t.pid = root
    BY <1>2
  <2> QED BY <2>1, <2>2
<1>3. CASE t # [pid |-> root, depth |-> 0] /\ u # [pid |-> root, depth |-> 0]
  <2>1. PICK j \in 1 .. n : \E e \in L[j] : t = [pid |-> e.pid, depth |-> j]
    BY <1>3, TreeIs
  <2>2. PICK e \in L[j] : t = [pid |-> e.pid, depth |-> j]
    BY <2>1
  <2>3. PICK k \in 1 .. n : \E f \in L[k] : u = [pid |-> f.pid, depth |-> k]
    BY <1>3, TreeIs
  <2>4. PICK f \in L[k] : u = [pid |-> f.pid, depth |-> k]
    BY <2>3
  <2>5. e \in snap /\ f \in snap /\ e.pid = f.pid
    BY <1>1, <2>2, <2>4
  <2>6. e = f
    BY <2>5 DEF Snapshot
  <2>7. j \in 0 .. n /\ k \in 0 .. n
    BY <1>0
  <2>8. j = k
    BY <2>6, <2>7, OneLevelEach
  <2> QED BY <2>2, <2>4, <2>6, <2>8
<1> QED BY <1>2, <1>3

\* Whoever is on the list below the root is deeper than its parent, which is on it too.
LEMMA ParentAbove ==
  ASSUME Snapshot(snap), NEW e \in snap, e.pid \in Meant, e.pid # root
  PROVE  \E t, u \in Tree : t.pid = e.ppid /\ u.pid = e.pid /\ t.depth < u.depth
<1> DEFINE L == Levels(snap, root)
           n == Cardinality(snap)
<1>0. n \in Nat
  BY FS_CardinalityType DEF Snapshot
<1>1. PICK u \in Tree : u.pid = e.pid
  BY DEF Meant
<1>2. PICK k \in 1 .. n : \E f \in L[k] : u = [pid |-> f.pid, depth |-> k]
  BY <1>1, TreeIs
<1>3. PICK f \in L[k] : u = [pid |-> f.pid, depth |-> k]
  BY <1>2
<1>4. k \in 0 .. n /\ k \in Nat /\ k - 1 \in Nat /\ k - 1 \in 0 .. n /\ k - 1 < k
  BY <1>0
<1>5. f \in snap
  BY <1>3, <1>4, LevelsAre DEF Snapshot
<1>6. f = e
  BY <1>1, <1>3, <1>5 DEF Snapshot
<1>7. PICK d \in L[k - 1] : e.ppid = d.pid
  BY <1>3, <1>5, <1>6, LevelsAre DEF Snapshot
<1> DEFINE t == [pid |-> d.pid, depth |-> k - 1]
<1>8. t \in Tree
  <2>1. CASE k - 1 = 0
    <3>1. d.pid = root
      BY <2>1, <1>7, LevelsAre DEF Snapshot
    <3> QED BY <2>1, <3>1, TreeIs
  <2>2. CASE k - 1 # 0
    <3>1. k - 1 \in 1 .. n
      BY <1>4, <2>2
    <3> QED BY <1>7, <3>1, TreeIs
  <2> QED BY <2>1, <2>2
<1>9. t.pid = e.ppid /\ t.depth < u.depth
  BY <1>3, <1>4, <1>7
<1> QED BY <1>1, <1>8, <1>9
------------------------------------------------------------------------------
(* Forefathers.                                                             *)

IsLine(F, i, n) ==
  F = [m \in 0 .. n |-> IF m = 0 THEN {i} ELSE F[m - 1] \cup {proc[j].parent : j \in F[m - 1] \ {0}}]

LEMMA LineExists == ASSUME NEW i, NEW N \in Nat PROVE \E F : IsLine(F, i, N)
<1> DEFINE D == {n \in Nat : \E F : IsLine(F, i, n)}
<1>1. 0 \in D
  <2> DEFINE F == [m \in 0 .. 0 |-> {i}]
  <2>1. IsLine(F, i, 0)
    BY DEF IsLine
  <2> QED BY <2>1
<1>2. ASSUME NEW n \in D PROVE n + 1 \in D
  <2>1. n \in Nat
    OBVIOUS
  <2>2. PICK F : IsLine(F, i, n)
    OBVIOUS
  <2> DEFINE More(A) == A \cup {proc[j].parent : j \in A \ {0}}
             G == [m \in 0 .. n + 1 |-> IF m = n + 1 THEN More(F[n]) ELSE F[m]]
  <2> HIDE DEF D, More
  <2>3. \A m \in 0 .. n : F[m] = IF m = 0 THEN {i} ELSE More(F[m - 1])
    BY <2>2 DEF IsLine, More
  <2>4. /\ \A m \in 0 .. n : G[m] = F[m]
        /\ G[n + 1] = More(F[n])
    BY <2>1
  <2> HIDE DEF G
  <2>5. ASSUME NEW m \in 0 .. n + 1 PROVE G[m] = IF m = 0 THEN {i} ELSE More(G[m - 1])
    <3>1. CASE m = n + 1
      BY <2>1, <2>4, <3>1
    <3>2. CASE m # n + 1
      <4>1. m \in 0 .. n /\ (m # 0 => m - 1 \in 0 .. n)
        BY <2>1, <3>2
      <4> QED BY <2>3, <2>4, <4>1
    <3> QED BY <3>1, <3>2
  <2>6. G = [m \in 0 .. n + 1 |-> IF m = 0 THEN {i} ELSE More(G[m - 1])]
    BY <2>5 DEF G
  <2>7. IsLine(G, i, n + 1)
    BY <2>6 DEF IsLine, More
  <2> QED BY <2>1, <2>7 DEF D
<1>3. D = Nat
  BY <1>1, <1>2, Seqs!NatSetInduction
<1> QED BY <1>3

\* The function Forefathers chooses, step by step.
LEMMA ForefathersBy ==
  ASSUME NEW i
  PROVE  \E F : /\ Forefathers(i) = F[MaxBirths] \ {0} /\ F[0] = {i}
                /\ \A m \in 0 .. MaxBirths - 1 :
                     F[m + 1] = F[m] \cup {proc[j].parent : j \in F[m] \ {0}}
<1> DEFINE L == CHOOSE F : IsLine(F, i, MaxBirths)
<1>1. MaxBirths \in Nat
  BY BirthsAssumption
<1>2. IsLine(L, i, MaxBirths)
  BY <1>1, LineExists
<1>3. Forefathers(i) = L[MaxBirths] \ {0}
  BY DEF Forefathers, IsLine
<1> HIDE DEF L
<1>4. L[0] = {i}
  BY <1>1, <1>2 DEF IsLine
<1>5. ASSUME NEW m \in 0 .. MaxBirths - 1
      PROVE  L[m + 1] = L[m] \cup {proc[j].parent : j \in L[m] \ {0}}
  <2> DEFINE More(A) == A \cup {proc[j].parent : j \in A \ {0}}
  <2> HIDE DEF More
  <2>1. m + 1 \in 0 .. MaxBirths /\ m + 1 # 0 /\ m + 1 - 1 = m
    BY <1>1
  <2>2. L = [k \in 0 .. MaxBirths |-> IF k = 0 THEN {i} ELSE More(L[k - 1])]
    BY <1>2 DEF IsLine, More
  <2>3. \A k \in 0 .. MaxBirths : L[k] = IF k = 0 THEN {i} ELSE More(L[k - 1])
    BY <2>2
  <2>4. \A k \in 0 .. MaxBirths : k # 0 => L[k] = More(L[k - 1])
    BY <2>3
  <2>5. L[m + 1] = More(L[m + 1 - 1])
    BY <2>1, <2>4
  <2>6. L[m + 1] = More(L[m])
    BY <2>1, <2>5
  <2> QED BY <2>6 DEF More
<1> QED BY <1>3, <1>4, <1>5

\* A process and those above it: the least set that is closed under parents.
Closed(A) == \A j \in A : proc[j].parent # 0 => proc[j].parent \in A
LEMMA ForefathersAre ==
  ASSUME SystemInv, NEW i \in Started
  PROVE  i \in Forefathers(i) /\ Forefathers(i) \subseteq 1 .. i /\ Closed(Forefathers(i))
<1>1. PICK F : /\ Forefathers(i) = F[MaxBirths] \ {0} /\ F[0] = {i}
               /\ \A m \in 0 .. MaxBirths - 1 :
                    F[m + 1] = F[m] \cup {proc[j].parent : j \in F[m] \ {0}}
  BY ForefathersBy
<1>2. MaxBirths \in Nat \ {0} /\ births \in Nat /\ births <= MaxBirths /\ i \in 1 .. births
  BY BirthsAssumption DEF SystemInv, SystemTypes, Started
<1>3. \A j \in 1 .. i : proc[j].parent \in 0 .. j - 1
  BY <1>2 DEF SystemInv, Pedigree, Started
\* What the last step added is at most i less the steps made, so there is an end to it.
<1> DEFINE Near(m) == /\ i \in F[m] /\ F[m] \subseteq 0 .. i
                      /\ \A j \in F[m] \ {0} : proc[j].parent \in F[m] \/ j <= i - m
           D == {n \in Nat : n > MaxBirths \/ Near(n)}
<1>4. 0 \in D
  BY <1>1, <1>2
<1>5. ASSUME NEW n \in D PROVE n + 1 \in D
  <2> SUFFICES ASSUME n + 1 <= MaxBirths PROVE Near(n + 1)
    BY <1>2
  <2>1. n \in 0 .. MaxBirths - 1 /\ Near(n)
    BY <1>2
  <2>2. F[n + 1] = F[n] \cup {proc[j].parent : j \in F[n] \ {0}}
    BY <1>1, <2>1
  <2>3. i \in F[n + 1]
    BY <2>1, <2>2
  <2>4. F[n + 1] \subseteq 0 .. i
    <3>1. \A j \in F[n] \ {0} : j \in 1 .. i /\ proc[j].parent \in 0 .. i
      BY <1>2, <1>3, <2>1
    <3> QED BY <2>1, <2>2, <3>1
  <2>5. ASSUME NEW j \in F[n + 1] \ {0} PROVE proc[j].parent \in F[n + 1] \/ j <= i - (n + 1)
    <3>1. CASE j \in F[n]
      BY <2>2, <3>1
    <3>2. CASE j \notin F[n]
      <4>1. PICK k \in F[n] \ {0} : j = proc[k].parent
        BY <2>2, <3>2
      <4>2. k <= i - n /\ k \in 1 .. i
        BY <1>2, <2>1, <3>2, <4>1
      <4> QED BY <1>2, <1>3, <2>1, <4>1, <4>2
    <3> QED BY <3>1, <3>2
  <2> QED BY <2>3, <2>4, <2>5
<1>6. D = Nat
  BY <1>4, <1>5, Seqs!NatSetInduction
<1>7. Near(MaxBirths)
  BY <1>2, <1>6
<1>8. \A j \in F[MaxBirths] \ {0} : proc[j].parent \in F[MaxBirths]
  BY <1>2, <1>7
<1> QED BY <1>1, <1>2, <1>7, <1>8 DEF Closed

LEMMA ForefathersLeast ==
  ASSUME NEW A, NEW i \in A, Closed(A), 0 \notin A
  PROVE  Forefathers(i) \subseteq A
<1>1. PICK F : /\ Forefathers(i) = F[MaxBirths] \ {0} /\ F[0] = {i}
               /\ \A m \in 0 .. MaxBirths - 1 :
                    F[m + 1] = F[m] \cup {proc[j].parent : j \in F[m] \ {0}}
  BY ForefathersBy
<1>2. MaxBirths \in Nat
  BY BirthsAssumption
<1> DEFINE D == {n \in Nat : n > MaxBirths \/ F[n] \subseteq A \cup {0}}
<1>3. 0 \in D
  BY <1>1
<1>4. ASSUME NEW n \in D PROVE n + 1 \in D
  <2> SUFFICES ASSUME n + 1 <= MaxBirths PROVE F[n + 1] \subseteq A \cup {0}
    BY <1>2
  <2>1. n \in 0 .. MaxBirths - 1 /\ F[n] \subseteq A \cup {0}
    BY <1>2
  <2>2. F[n + 1] = F[n] \cup {proc[j].parent : j \in F[n] \ {0}}
    BY <1>1, <2>1
  <2> QED BY <2>1, <2>2 DEF Closed
<1>5. D = Nat
  BY <1>3, <1>4, Seqs!NatSetInduction
<1> QED BY <1>1, <1>2, <1>5

\* The forefathers of a parent are forefathers, and with the process itself they are all of them.
LEMMA ForefathersUp ==
  ASSUME SystemInv, NEW i \in Started, NEW p \in Started, proc[i].parent = p
  PROVE  Forefathers(i) = {i} \cup Forefathers(p)
<1>1. 0 \notin Started /\ 0 \notin 1 .. i /\ 0 \notin 1 .. p
  BY DEF Started, SystemInv, SystemTypes
<1>2. /\ i \in Forefathers(i) /\ Closed(Forefathers(i)) /\ 0 \notin Forefathers(i)
      /\ p \in Forefathers(p) /\ Closed(Forefathers(p)) /\ 0 \notin Forefathers(p)
  BY <1>1, ForefathersAre
<1>3. p \in Forefathers(i)
  BY <1>1, <1>2 DEF Closed
<1>4. Forefathers(p) \subseteq Forefathers(i)
  BY <1>2, <1>3, ForefathersLeast
<1>5. Closed({i} \cup Forefathers(p))
  BY <1>2 DEF Closed
<1>6. 0 \notin {i} \cup Forefathers(p)
  BY <1>1, <1>2
<1>7. Forefathers(i) \subseteq {i} \cup Forefathers(p)
  BY <1>5, <1>6, ForefathersLeast
<1> QED BY <1>2, <1>4, <1>7
------------------------------------------------------------------------------
(* The command.                                                             *)

command == <<op, root, pc, snap, todo, cur, h, tried, rows, snapped, asked>>

LEMMA InitCommand ==
  Init => Course /\ SnapIsTrue /\ HandleIsTrue /\ ListIsTrue /\ RowsAreTrue /\ Order
<1> SUFFICES ASSUME Init
    PROVE  Course /\ SnapIsTrue /\ HandleIsTrue /\ ListIsTrue /\ RowsAreTrue /\ Order
  OBVIOUS
<1>0. /\ op = "none" /\ root = 0 /\ pc = "idle" /\ snap = {} /\ todo = {} /\ cur = 0 /\ h = NoHandle
      /\ tried = <<>> /\ rows = {} /\ snapped = 0 /\ asked = 0 /\ births = 1
      /\ Started = {1} /\ proc[1].exit = "none"
  BY DEF Init, Started, Born
<1>1. Course /\ HandleIsTrue /\ ListIsTrue
  BY <1>0 DEF Course, HandleIsTrue, ListIsTrue, Walking, Killing, Held
<1>2. SnapIsTrue
  BY <1>0, FS_EmptySet DEF SnapIsTrue, Walking
<1>3. RowsAreTrue
  BY <1>0 DEF RowsAreTrue
<1>4. Order
  BY <1>0 DEF Order, Walking, Killing
<1> QED BY <1>1, <1>2, <1>3, <1>4

\* A step of the system leaves the command alone.
LEMMA SystemFrame ==
  ASSUME [Next]_vars
  PROVE  \/ UNCHANGED command
         \/ Call \/ SnapshotFails \/ TakeSnapshot \/ Next1 \/ Look \/ Open \/ OpenLess \/ Terminate
         \/ ReadExitCode
BY DEF Next, Command, Kill, Start, Exit, Vanish, command, vars

LEMMA CourseStep == ASSUME Course, [Next]_vars PROVE Course'
<1> USE DEF Course, Walking, Killing
<1>1. CASE UNCHANGED command
  BY <1>1 DEF command
<1>2. CASE Call
  BY <1>2 DEF Call, Refuse
<1>3. CASE SnapshotFails \/ TakeSnapshot
  BY <1>3 DEF SnapshotFails, TakeSnapshot
<1>4. CASE Next1
  BY <1>4 DEF Next1
<1>5. CASE Look \/ Open \/ OpenLess \/ Terminate \/ ReadExitCode
  BY <1>5 DEF Look, Open, OpenLess, Terminate, ReadExitCode, Said
<1> QED BY <1>1, <1>2, <1>3, <1>4, <1>5, SystemFrame

\* The snapshot shows the living.
LEMMA RunningIs ==
  ASSUME SystemInv
  PROVE  /\ Running \subseteq Entries /\ IsFiniteSet(Running)
         /\ \A e \in Running : e.id \in Started /\ e.pid = proc[e.id].pid /\ e.ppid = proc[e.id].ppid
         /\ \A e, f \in Running : e.pid = f.pid => e = f
         /\ \A i \in Started : Alive(i) => \E e \in Running : e.id = i
<1>0. /\ proc \in Seq(Process) /\ births \in Nat /\ Len(proc) = births /\ who \in [Pids -> 0 .. births]
      /\ \A i \in Started : proc[i] \in Process
  BY DEF SystemInv, SystemTypes, Started
<1>1. \A p \in Pids : who[p] # 0 => who[p] \in Started /\ proc[who[p]].pid = p
  BY <1>0 DEF SystemInv, Holders, Started
<1>2. Running \subseteq Entries
  BY <1>0, <1>1 DEF Running, Entries, Process, Started
<1>3. \A e \in Running : e.id \in Started /\ e.pid = proc[e.id].pid /\ e.ppid = proc[e.id].ppid
  BY <1>1 DEF Running
<1>4. \A e, f \in Running : e.pid = f.pid => e = f
  BY DEF Running
<1>5. ASSUME NEW i \in Started, Alive(i) PROVE \E e \in Running : e.id = i
  <2>1. who[proc[i].pid] = i /\ proc[i].pid \in Pids /\ i # 0
    BY <1>0, <1>5 DEF SystemInv, Holders, Process, Started
  <2> DEFINE e == [pid |-> proc[i].pid, ppid |-> proc[i].ppid, id |-> i]
  <2>2. e \in Running
    BY <1>5, <2>1 DEF Running
  <2> QED BY <2>2
<1>6. IsFiniteSet(Running)
  <2> DEFINE f == [e \in Running |-> e.id]
  <2>1. \A e, d \in Running : f[e] = f[d] => e = d
    BY <1>3, <1>4
  <2>2. f \in [Running -> Started]
    BY <1>3
  <2>3. f \in Injection(Running, Started)
    BY <2>1, <2>2 DEF Injection, IsInjective
  <2>4. IsFiniteSet(Started)
    BY <1>0, FS_Interval DEF Started
  <2> QED BY <2>3, <2>4, FS_Injection
<1> QED BY <1>2, <1>3, <1>4, <1>5, <1>6

LEMMA SnapStep == ASSUME SystemInv, Course, SnapIsTrue, [Next]_vars PROVE SnapIsTrue'
<1>0. Grows /\ births \in Nat /\ births' \in Nat
  BY SystemStep DEF SystemInv, SystemTypes
<1>1. CASE TakeSnapshot
  <2>1. /\ snap' = Running /\ snapped' = births /\ UNCHANGED <<births, proc, who, op, root>>
        /\ \A i \in Started : Alive(i)' <=> Alive(i)
    BY <1>1 DEF TakeSnapshot, system, Alive
  <2> QED BY <1>0, <2>1, RunningIs DEF SnapIsTrue, Started
<1>2. CASE ~TakeSnapshot
  <2>1. UNCHANGED <<snap, snapped>>
    BY <1>2, SystemFrame DEF Call, SnapshotFails, Next1, Look, Open, OpenLess, Terminate, ReadExitCode,
      command
  <2>2. \A i \in 1 .. snapped : i \in Started
    BY <1>0 DEF SnapIsTrue, Started
  <2>3. \A i \in Started : Alive(i)' => Alive(i)
    BY <1>0 DEF Grows, Alive, Started
  <2>4. snapped \in 0 .. births'
    BY <1>0 DEF SnapIsTrue, Grows
  <2>5. \A e \in snap : e.id \in 1 .. snapped /\ e.pid = proc'[e.id].pid /\ e.ppid = proc'[e.id].ppid
    BY <1>0, <2>2 DEF SnapIsTrue, Grows
  <2>6. pc' \in Walking /\ op' = "tree" /\ root' \notin System
          => pc \in Walking /\ op = "tree" /\ root \notin System
    BY <1>2, SystemFrame DEF Call, Refuse, SnapshotFails, Next1, Look, Open, OpenLess, Terminate,
      ReadExitCode, command, Walking, Course
  <2> QED BY <2>1, <2>2, <2>3, <2>4, <2>5, <2>6 DEF SnapIsTrue
<1> QED BY <1>1, <1>2

\* The list is that of the snapshot and the root.
LEMMA TreeSame ==
  ASSUME UNCHANGED <<snap, root>>
  PROVE  Tree' = Tree /\ Meant' = Meant /\ \A p, q : Behind(p, q)' <=> Behind(p, q)
<1>1. Tree' = Tree
  BY DEF Tree, Descendants, Levels
<1> QED BY <1>1 DEF Meant, Behind

LEMMA TreeAlone ==
  ASSUME snap = {}
  PROVE  Tree = {[pid |-> root, depth |-> 0]} /\ Meant = {root}
<1>1. 1 .. Cardinality(snap) = {}
  BY FS_EmptySet
<1>2. Tree = {[pid |-> root, depth |-> 0]}
  BY <1>1, TreeIs
<1> QED BY <1>2 DEF Meant

\* Only pids of the snapshot, and the root, are meant.
LEMMA MeantIs ==
  ASSUME Course, SnapIsTrue, pc # "idle"
  PROVE  Meant \subseteq Pids /\ \A t \in Tree : t.depth \in Nat
<1>1. root \in Pids
  BY PidsAssumption DEF Course
<1>2. IsFiniteSet(snap) /\ Cardinality(snap) \in Nat
  BY FS_CardinalityType DEF SnapIsTrue
<1>3. ASSUME NEW k \in 1 .. Cardinality(snap), NEW e \in Levels(snap, root)[k]
      PROVE  e.pid \in Pids /\ k \in Nat
  <2>1. k \in 0 .. Cardinality(snap) /\ k \in Nat
    BY <1>2
  <2>2. e \in snap
    BY <1>2, <1>3, <2>1, LevelsAre
  <2> QED BY <2>1, <2>2 DEF SnapIsTrue, Entries
<1>4. ASSUME NEW t \in Tree PROVE t.pid \in Pids /\ t.depth \in Nat
  BY <1>1, <1>3, TreeIs
<1> QED BY <1>4 DEF Meant

LEMMA HeldIs == ASSUME Course, SnapIsTrue, HandleIsTrue, Held PROVE cur \in Pids
<1>1. pc # "idle"
  BY DEF Held
<1> QED BY <1>1, MeantIs DEF HandleIsTrue, SnapIsTrue, Entries

\* Behind a pid and a handle is whoever was there when the call before was made, or a newcomer.
LEMMA HandleStep ==
  ASSUME SystemInv, Course, SnapIsTrue, HandleIsTrue, ListIsTrue, [Next]_vars
  PROVE  HandleIsTrue'
<1>0. /\ Grows /\ births \in Nat /\ births' \in Nat /\ births <= births' /\ who \in [Pids -> 0 .. births]
      /\ \A p \in Pids : who[p] \in Started \cup {0}
      /\ \A i \in Started : i \in Started' /\ i \in Nat
      /\ \A p \in Pids : who[p] # 0 => proc[who[p]].pid = p
  BY SystemStep DEF SystemInv, SystemTypes, Started, Grows, Holders
<1>1. CASE UNCHANGED command
  <2>1. UNCHANGED <<snap, root, pc, op, cur, h, asked>> /\ Meant' = Meant
    BY <1>1, TreeSame DEF command
  <2>2. asked' \in 0 .. births' /\ asked \in Nat
    BY <1>0, <2>1 DEF HandleIsTrue
  <2>3. Held' => cur' \in (IF Killing THEN Meant ELSE {e.pid : e \in snap})'
    BY <2>1 DEF HandleIsTrue, Held, Killing
  <2>4. ASSUME pc' = "openless"
        PROVE  who'[cur'] = 0 \/ proc'[who'[cur']].rights # "open" \/ who'[cur'] > asked'
    <3>1. cur \in Pids /\ pc = "openless" /\ cur' = cur
      BY <2>1, <2>4, HeldIs DEF Held
    <3>2. CASE who'[cur] = who[cur]
      BY <1>0, <2>1, <3>1, <3>2 DEF HandleIsTrue, Grows
    <3>3. CASE who'[cur] # who[cur] /\ who'[cur] # 0
      <4>1. who'[cur] > births
        BY <3>1, <3>3, <1>0 DEF Grows
      <4>2. who'[cur] \in Nat
        BY <3>1, SystemStep DEF SystemInv, SystemTypes
      <4> QED BY <1>0, <2>1, <2>2, <3>1, <4>1, <4>2 DEF HandleIsTrue
    <3> QED BY <3>1, <3>2, <3>3
  <2>5. ASSUME pc' \in {"terminate", "refused"}
        PROVE  /\ h'.id \in Started' /\ proc'[h'.id].pid = cur'
               /\ h'.query \/ proc'[h'.id].rights # "open" \/ h'.id > asked'
    BY <1>0, <2>1, <2>5 DEF HandleIsTrue, Grows
  <2> QED BY <2>2, <2>3, <2>4, <2>5 DEF HandleIsTrue
<1>2. CASE Call \/ SnapshotFails \/ TakeSnapshot \/ Look \/ ReadExitCode
  <2>1. pc' \in {"idle", "snapshot", "next", "done", "notfound", "error"} /\ asked' = asked
    BY <1>2 DEF Call, Refuse, SnapshotFails, TakeSnapshot, Look, ReadExitCode
  <2> QED BY <1>0, <2>1 DEF HandleIsTrue, Held
<1>3. CASE Next1
  <2>1. UNCHANGED <<snap, root, op, asked, who, proc, births>> /\ pc = "next" /\ Meant' = Meant
    BY <1>3, TreeSame DEF Next1, system
  <2>2. CASE todo = {}
    BY <1>3, <2>1, <2>2 DEF Next1, HandleIsTrue, Held, Started
  <2>3. CASE todo # {}
    <3>1. PICK t \in todo : cur' = t.pid /\ pc' = IF op \in {"list", "info"} THEN "look" ELSE "open"
      BY <1>3, <2>3 DEF Next1
    <3>2. t.pid \in (IF Killing THEN Meant ELSE {e.pid : e \in snap})
      BY <2>1 DEF ListIsTrue, Walking, Course, Meant
    <3> QED BY <2>1, <3>1, <3>2 DEF HandleIsTrue, Held, Killing, Started
  <2> QED BY <2>2, <2>3
<1>4. CASE Open
  <2>1. /\ UNCHANGED <<snap, root, op, cur, who, proc, births>> /\ pc = "open" /\ Meant' = Meant
        /\ asked' = births /\ cur \in Pids
    BY <1>4, TreeSame, HeldIs DEF Open, system, Held
  <2>2. CASE who[cur] # 0 /\ proc[who[cur]].rights = "open"
    <3>1. h' = [id |-> who[cur], query |-> TRUE] /\ pc' = "terminate"
      BY <1>4, <2>2 DEF Open
    <3> QED BY <1>0, <2>1, <2>2, <3>1 DEF HandleIsTrue, Held, Killing, Started
  <2>3. CASE ~(who[cur] # 0 /\ proc[who[cur]].rights = "open")
    <3>1. pc' = "openless"
      BY <1>4, <2>3 DEF Open
    <3> QED BY <1>0, <2>1, <2>3, <3>1 DEF HandleIsTrue, Held, Killing, Started
  <2> QED BY <2>2, <2>3
<1>5. CASE OpenLess
  <2>1. /\ UNCHANGED <<snap, root, op, cur, who, proc, births, asked>> /\ pc = "openless"
        /\ Meant' = Meant /\ cur \in Pids
    BY <1>5, TreeSame, HeldIs DEF OpenLess, system, Held
  <2>2. CASE who[cur] # 0 /\ proc[who[cur]].rights # "shut"
    <3>1. h' = [id |-> who[cur], query |-> FALSE] /\ pc' = "terminate"
      BY <1>5, <2>2 DEF OpenLess
    <3> QED BY <1>0, <2>1, <2>2, <3>1 DEF HandleIsTrue, Held, Killing, Started
  <2>3. CASE ~(who[cur] # 0 /\ proc[who[cur]].rights # "shut")
    <3>1. pc' = "next"
      BY <1>5, <2>3 DEF OpenLess
    <3> QED BY <1>0, <2>1, <3>1 DEF HandleIsTrue, Held
  <2> QED BY <2>2, <2>3
<1>6. CASE Terminate
  <2>1. UNCHANGED <<snap, root, op, cur, births, asked>> /\ pc = "terminate" /\ Meant' = Meant
    BY <1>6, TreeSame DEF Terminate
  <2>2. CASE pc' = "refused"
    <3>1. h' = h
      BY <1>6, <2>2 DEF Terminate
    <3> QED BY <1>0, <2>1, <2>2, <3>1 DEF HandleIsTrue, Held, Killing, Grows
  <2>3. CASE pc' # "refused"
    BY <1>0, <1>6, <2>1, <2>3 DEF Terminate, HandleIsTrue, Held
  <2> QED BY <2>2, <2>3
<1> QED BY <1>1, <1>2, <1>3, <1>4, <1>5, <1>6, SystemFrame

\* Who was taken from the list is answered before the next one is.
LEMMA ListStep ==
  ASSUME Course, SnapIsTrue, ListIsTrue, [Next]_vars
  PROVE  ListIsTrue'
<1> USE DEF Course, Walking, Killing
<1>1. CASE UNCHANGED command
  BY <1>1, TreeSame DEF command, ListIsTrue, Held, Answered
<1>2. CASE Call
  <2>1. CASE op' = "kill" /\ root' \notin System
    <3>1. snap' = {} /\ todo' = {[pid |-> root', depth |-> 0]}
      BY <1>2, <2>1 DEF Call
    <3>2. Tree' = {[pid |-> root', depth |-> 0]}
      <4>1. (1 .. Cardinality(snap'))  = {}
        BY <3>1, FS_EmptySet
      <4> QED BY <3>1, <4>1 DEF Tree, Descendants
    <3> QED BY <1>2, <2>1, <3>1, <3>2 DEF Call, ListIsTrue
  <2>2. CASE ~(op' = "kill" /\ root' \notin System)
    BY <1>2, <2>2 DEF Call, Refuse, ListIsTrue
  <2> QED BY <2>1, <2>2
<1>3. CASE SnapshotFails
  BY <1>3 DEF SnapshotFails, ListIsTrue
<1>4. CASE TakeSnapshot
  <2>1. CASE op = "tree"
    <3>1. todo' = Tree' /\ pc' \in {"next", "notfound"} /\ op' = "tree"
      BY <1>4, <2>1 DEF TakeSnapshot, Tree
    <3> QED BY <3>1 DEF ListIsTrue
  <2>2. CASE op \in {"list", "info"}
    BY <1>4, <2>2 DEF TakeSnapshot, ListIsTrue
  <2> QED BY <1>4, <2>1, <2>2 DEF TakeSnapshot
<1>5. CASE Next1
  <2>1. UNCHANGED <<snap, root, op, rows>> /\ pc = "next" /\ Tree' = Tree
    BY <1>5, TreeSame DEF Next1
  <2>2. CASE todo = {}
    BY <1>5, <2>1, <2>2 DEF Next1, ListIsTrue, Held, Answered
  <2>3. CASE todo # {}
    <3>1. PICK t \in todo : todo' = todo \ {t} /\ cur' = t.pid
                            /\ pc' = IF op \in {"list", "info"} THEN "look" ELSE "open"
      BY <1>5, <2>3 DEF Next1
    <3> QED BY <2>1, <3>1 DEF ListIsTrue, Held, Answered
  <2> QED BY <2>2, <2>3
<1>6. CASE Look
  BY <1>6 DEF Look, ListIsTrue
<1>7. CASE Open
  BY <1>7, TreeSame DEF Open, ListIsTrue, Held, Answered
<1>8. ASSUME UNCHANGED <<op, root, snap, todo, cur>>, pc' = "next", pc \in {"openless", "terminate", "refused"},
             NEW what \in Ends, NEW id, Said(what, id)
      PROVE  ListIsTrue'
  <2>1. rows \subseteq rows'
    BY <1>8 DEF Said
  <2>2. Answered(cur)'
    <3> DEFINE r == [pid |-> cur, what |-> what, id |-> id, late |-> id > asked, living |-> Alive(id)]
    <3>1. r \in rows' /\ r.pid = cur /\ r.what \in Ends
      BY <1>8 DEF Said
    <3> HIDE DEF r
    <3>2. \E q \in rows' : q.pid = cur /\ q.what \in Ends
      BY <3>1
    <3> QED BY <1>8, <3>2 DEF Answered
  <2> QED BY <1>8, <2>1, <2>2, TreeSame DEF ListIsTrue, Held, Answered
<1>9. CASE OpenLess
  <2>1. CASE pc' = "terminate"
    BY <1>9, <2>1, TreeSame DEF OpenLess, Said, ListIsTrue, Held, Answered
  <2>2. CASE pc' # "terminate"
    BY <1>8, <1>9, <2>2 DEF OpenLess, Ends
  <2> QED BY <2>1, <2>2
<1>10. CASE Terminate
  <2>1. CASE pc' = "refused"
    BY <1>10, <2>1, TreeSame DEF Terminate, ListIsTrue, Held, Answered
  <2>2. CASE pc' # "refused"
    BY <1>8, <1>10, <2>2 DEF Terminate, Ends
  <2> QED BY <2>1, <2>2
<1>11. CASE ReadExitCode
  <2>1. Reason(h) \in Ends
    BY DEF Reason, Ends
  <2> QED BY <1>8, <1>11, <2>1 DEF ReadExitCode
<1> QED BY <1>1, <1>2, <1>3, <1>4, <1>5, <1>6, <1>7, <1>9, <1>10, <1>11, SystemFrame

\* A row stays true.
LEMMA RowKeeps ==
  ASSUME SystemInv, Grows, NEW r, RowIsTrue(r), UNCHANGED <<snap, root, op>>
  PROVE  RowIsTrue(r)'
<1>1. births \in Nat /\ births' \in Nat /\ births <= births'
  BY DEF SystemInv, SystemTypes, Grows
<1>2. r.id \in 0 .. births'
  BY <1>1 DEF RowIsTrue
<1>3. r.id \in 0 .. births /\ (r.id # 0 => r.id \in Started)
  BY <1>1 DEF RowIsTrue, Started
<1>4. ASSUME r.id # 0
      PROVE  /\ r.id \in Started' /\ proc'[r.id].pid = proc[r.id].pid
             /\ proc'[r.id].rights = proc[r.id].rights
             /\ proc[r.id].exit # "none" => proc'[r.id].exit = proc[r.id].exit
  BY <1>3, <1>4 DEF Grows
<1>5. 0 \notin Started
  BY <1>1 DEF Started
<1> QED BY <1>2, <1>3, <1>4, <1>5, TreeSame DEF RowIsTrue, Killing

\* Rows say what happened, and every termination has one.
LEMMA RowsStep ==
  ASSUME SystemInv, Course, SnapIsTrue, HandleIsTrue, ListIsTrue, RowsAreTrue, [Next]_vars
  PROVE  RowsAreTrue'
<1> DEFINE Told == \A i \in Started : proc[i].exit = "killed" => \E r \in rows : r.what = "killed" /\ r.id = i
<1>0. /\ SystemInv' /\ Grows /\ births \in Nat /\ births' \in Nat /\ births <= births'
      /\ who \in [Pids -> 0 .. births] /\ Started \subseteq Started'
      /\ \A p \in Pids : who[p] # 0 => who[p] \in Started /\ proc[who[p]].pid = p
  BY SystemStep DEF SystemInv, SystemTypes, Started, Grows, Holders
<1>1. ASSUME UNCHANGED <<snap, root, op>>, rows' = rows PROVE \A r \in rows' : RowIsTrue(r)'
  BY <1>0, <1>1, RowKeeps DEF RowsAreTrue
<1>2. ASSUME UNCHANGED <<snap, root, op>>, NEW r, rows' = rows \cup {r}, RowIsTrue(r)'
      PROVE  \A q \in rows' : RowIsTrue(q)'
  BY <1>0, <1>2, RowKeeps DEF RowsAreTrue
<1>3. ASSUME \A i \in Started' : proc'[i].exit = "killed" => i \in Started /\ proc[i].exit = "killed",
             rows \subseteq rows'
      PROVE  Told'
  BY <1>3 DEF RowsAreTrue
<1>4. CASE Start \/ Exit \/ Vanish
  <2>1. UNCHANGED command
    BY <1>4 DEF Start, Exit, Vanish, command
  <2>2. \A i \in Started' : proc'[i].exit = "killed" => i \in Started /\ proc[i].exit = "killed"
    <3>1. proc \in Seq(Process) /\ Len(proc) = births
      BY DEF SystemInv, SystemTypes
    <3>2. CASE Start
      BY <1>0, <3>1, <3>2 DEF Start, Started, Born
    <3>3. CASE Exit
      <4>1. PICK i \in 2 .. births, e \in {"code", "active"} :
              proc' = [proc EXCEPT ![i].exit = e] /\ births' = births
        BY <3>3 DEF Exit
      <4>2. \A j \in Started : j # i => proc'[j] = proc[j]
        BY <3>1, <4>1 DEF Started
      <4>3. proc'[i].exit = e
        <5>1. i \in 1 .. Len(proc) /\ proc[i] \in Process
          BY <1>0, <3>1
        <5> QED BY <3>1, <4>1, <5>1 DEF Process
      <4> QED BY <4>1, <4>2, <4>3 DEF Started
    <3>4. CASE Vanish
      BY <3>4 DEF Vanish, Started
    <3> QED BY <1>4, <3>2, <3>3, <3>4
  <2> QED BY <1>1, <1>3, <2>1, <2>2 DEF RowsAreTrue, command
<1>5. CASE Call
  <2>1. rows = {} /\ UNCHANGED <<proc, births>> /\ Started' = Started
    BY <1>5 DEF Call, Course, Walking, system, Started
  <2>2. \A r \in rows' : RowIsTrue(r)'
    BY <1>0, <1>5, <2>1 DEF Call, Refuse, RowIsTrue
  <2> QED BY <2>1, <2>2 DEF RowsAreTrue
<1>6. CASE SnapshotFails \/ TakeSnapshot
  <2>1. rows = {} /\ rows' = rows /\ UNCHANGED <<proc, births>> /\ Started' = Started
    BY <1>6 DEF SnapshotFails, TakeSnapshot, Course, Walking, system, Started
  <2> QED BY <2>1 DEF RowsAreTrue
<1>7. CASE Next1 \/ Open \/ UNCHANGED vars
  <2>1. UNCHANGED <<snap, root, op, rows, proc, births>> /\ Started' = Started
    BY <1>7 DEF Next1, Open, vars, system, Started
  <2> QED BY <1>1, <1>3, <2>1 DEF RowsAreTrue
<1>8. CASE Look
  <2>1. /\ UNCHANGED <<snap, root, op, proc, births, asked>> /\ Started' = Started /\ rows \subseteq rows'
        /\ pc = "look" /\ ~Killing /\ cur \in {e.pid : e \in snap} /\ cur \in Pids
    BY <1>8, HeldIs DEF Look, Said, system, Started, Course, HandleIsTrue, Held
  <2>2. CASE who[cur] # 0 /\ proc[who[cur]].rights = "open"
    <3>0. PICK r : r = [pid |-> cur, what |-> "access", id |-> who[cur], late |-> who[cur] > asked,
                 living |-> Alive(who[cur])]
      OBVIOUS
    <3>1. rows' = rows \cup {r}
      BY <3>0, <1>8, <2>2 DEF Look, Said
    <3>2. RowIsTrue(r)'
      BY <3>0, <1>0, <2>1, <2>2 DEF RowIsTrue, Started
    <3> QED BY <1>2, <1>3, <2>1, <3>1, <3>2 DEF RowsAreTrue
  <2>3. CASE ~(who[cur] # 0 /\ proc[who[cur]].rights = "open")
    <3>0. PICK r : r = [pid |-> cur, what |-> "noaccess", id |-> 0, late |-> 0 > asked,
                 living |-> Alive(0)]
      OBVIOUS
    <3>1. rows' = rows \cup {r}
      BY <3>0, <1>8, <2>3 DEF Look, Said
    <3>2. RowIsTrue(r)'
      BY <3>0, <1>0 DEF RowIsTrue
    <3> QED BY <1>2, <1>3, <2>1, <3>1, <3>2 DEF RowsAreTrue
  <2> QED BY <2>2, <2>3
<1>9. CASE OpenLess
  <2>1. /\ UNCHANGED <<snap, root, op, proc, births, asked>> /\ Started' = Started /\ rows \subseteq rows'
        /\ cur \in Pids
    BY <1>9, HeldIs DEF OpenLess, Said, system, Started, Held
  <2>2. CASE who[cur] # 0 /\ proc[who[cur]].rights # "shut"
    <3>1. rows' = rows
      BY <1>9, <2>2 DEF OpenLess
    <3> QED BY <1>1, <1>3, <2>1, <3>1 DEF RowsAreTrue
  <2>3. CASE ~(who[cur] # 0 /\ proc[who[cur]].rights # "shut")
    <3> DEFINE w == IF who[cur] = 0 THEN "notfound" ELSE "denied"
    <3>0. PICK r : r = [pid |-> cur, what |-> w, id |-> who[cur], late |-> who[cur] > asked,
                 living |-> Alive(who[cur])]
      OBVIOUS
    <3>1. rows' = rows \cup {r}
      BY <3>0, <1>9, <2>3 DEF OpenLess, Said
    <3>2. RowIsTrue(r)'
      <4>1. who[cur] \in 0 .. births /\ (who[cur] = 0 => ~Alive(who[cur])) /\ UNCHANGED <<proc, births>>
        BY <1>0, <2>1 DEF Alive
      <4>2. r.id = who[cur] /\ r.what = w /\ (r.living <=> Alive(who[cur]))
        BY <3>0
      <4>3. w \in {"notfound", "denied"} /\ (w = "notfound" => who[cur] = 0)
            /\ (w = "denied" /\ who[cur] # 0 => proc[who[cur]].rights # "open")
        BY <2>3
      <4> HIDE DEF w
      <4> QED BY <4>1, <4>2, <4>3 DEF RowIsTrue
    <3> QED BY <1>2, <1>3, <2>1, <3>1, <3>2 DEF RowsAreTrue
  <2> QED BY <2>2, <2>3
<1>10. CASE Terminate
  <2>1. /\ UNCHANGED <<snap, root, op, births, asked>> /\ Started' = Started /\ Meant' = Meant
        /\ pc = "terminate" /\ cur \in Meant /\ Killing
        /\ h.id \in Started /\ proc[h.id].pid = cur /\ h.id \in Nat /\ h.id # 0
    BY <1>10, TreeSame DEF Terminate, Started, HandleIsTrue, Held, Course
  <2>2. proc \in Seq(Process) /\ h.id \in 1 .. Len(proc) /\ proc[h.id] \in Process
    BY <2>1 DEF SystemInv, SystemTypes, Started
  <2>3. CASE pc' = "next"
    <3>0. PICK r : r = [pid |-> cur, what |-> "killed", id |-> h.id, late |-> h.id > asked,
                 living |-> Alive(h.id)]
      OBVIOUS
    <3>1. rows' = rows \cup {r} /\ proc' = [proc EXCEPT ![h.id].exit = "killed"]
      BY <3>0, <1>10, <2>3 DEF Terminate, Said
    <3>2. proc'[h.id].exit = "killed" /\ proc'[h.id].pid = cur
      BY <2>1, <2>2, <3>1 DEF Process
    <3>3. \A i \in Started : i # h.id => proc'[i] = proc[i]
      BY <2>2, <3>1 DEF Started, SystemInv, SystemTypes
    <3>4. RowIsTrue(r)'
      BY <3>0, <1>0, <2>1, <3>2 DEF RowIsTrue, Killing, Started
    <3>5. Told'
      BY <3>0, <2>1, <3>1, <3>3 DEF RowsAreTrue
    <3> QED BY <1>2, <2>1, <3>1, <3>4, <3>5 DEF RowsAreTrue
  <2>4. CASE pc' # "next"
    <3>1. UNCHANGED <<rows, proc>>
      BY <1>10, <2>4 DEF Terminate
    <3> QED BY <1>1, <1>3, <2>1, <3>1 DEF RowsAreTrue
  <2> QED BY <2>3, <2>4
<1>11. CASE ReadExitCode
  <2>1. /\ UNCHANGED <<snap, root, op, proc, births, asked>> /\ Started' = Started
        /\ pc = "refused" /\ h.id \in Started /\ h.id \in Nat
        /\ h.query \/ proc[h.id].rights # "open" \/ h.id > asked
    BY <1>11 DEF ReadExitCode, Started, HandleIsTrue, system
  <2>2. PICK r : r = [pid |-> cur, what |-> Reason(h), id |-> h.id, late |-> h.id > asked,
                      living |-> Alive(h.id)]
    OBVIOUS
  <2>3. rows' = rows \cup {r}
    BY <1>11, <2>2 DEF ReadExitCode, Said
  <2>4. /\ Reason(h) \in {"notfound", "denied"}
        /\ Reason(h) = "notfound" => ~Alive(h.id)
        /\ Reason(h) = "denied" => ~h.query \/ Alive(h.id) \/ proc[h.id].exit = "active"
    <3>1. h.id \in 1 .. births /\ proc[h.id] \in Process
      BY <2>1 DEF SystemInv, SystemTypes, Started
    <3>2. proc[h.id].exit \in {"none", "killed", "code", "active"}
      BY <3>1 DEF Process
    <3> QED BY <3>1, <3>2 DEF Reason, ExitCode, Alive
  <2>5. /\ r.id = h.id /\ (r.late <=> h.id > asked) /\ r.what = Reason(h) /\ (r.living <=> Alive(h.id))
        /\ r.what = "denied" =>
             r.living \/ r.late \/ proc[h.id].rights # "open" \/ proc[h.id].exit = "active"
    BY <2>1, <2>2, <2>4
  <2>6. RowIsTrue(r)'
    BY <1>0, <2>1, <2>4, <2>5 DEF RowIsTrue, Started
  <2> QED BY <1>2, <1>3, <2>1, <2>3, <2>6 DEF RowsAreTrue
<1> QED BY <1>4, <1>5, <1>6, <1>7, <1>8, <1>9, <1>10, <1>11 DEF Next, Command, Kill

\* Deepest first.
LEMMA OrderStep ==
  ASSUME Course, SnapIsTrue, HandleIsTrue, ListIsTrue, Order, [Next]_vars
  PROVE  Order'
<1> USE DEF Course, Walking, Killing
<1>0. tried \in Seq(Pids) /\ Len(tried) \in Nat
  BY DEF Order
<1>1. CASE Call \/ SnapshotFails \/ TakeSnapshot
  <2>1. tried = <<>> /\ tried' = <<>> /\ pc' \notin {"open", "openless", "terminate", "refused"}
    BY <1>1 DEF Call, Refuse, SnapshotFails, TakeSnapshot
  <2>2. Len(tried') = 0 /\ tried' \in Seq(Pids)
    BY <2>1
  <2> QED BY <2>1, <2>2 DEF Order
<1>2. ASSUME UNCHANGED <<snap, root, op, tried, todo>>,
             pc' \in {"next", "look", "done"} \/ UNCHANGED <<pc, cur>>
             \/ (pc = "openless" /\ pc' = "terminate" /\ cur' = cur)
             \/ (pc = "terminate" /\ pc' = "refused" /\ cur' = cur), pc \in Walking \/ pc' = pc
      PROVE  Order'
  BY <1>2, TreeSame DEF Order
<1>3. CASE UNCHANGED command \/ Look \/ OpenLess \/ Terminate \/ ReadExitCode
  BY <1>2, <1>3 DEF command, Look, OpenLess, Terminate, ReadExitCode
<1>4. CASE Next1
  <2>1. UNCHANGED <<snap, root, op, tried>> /\ pc = "next"
    BY <1>4 DEF Next1
  <2>2. CASE todo = {}
    BY <1>2, <1>4, <2>1, <2>2 DEF Next1
  <2>3. CASE todo # {} /\ ~Killing
    <3>1. Len(tried) = 0
      BY <1>0, <2>3 DEF Order
    <3>2. pc' = "look"
      BY <1>4, <2>3 DEF Next1
    <3> QED BY <1>0, <2>1, <2>3, <3>1, <3>2 DEF Order
  <2>4. CASE todo # {} /\ Killing
    <3>1. PICK t \in todo : /\ \A u \in todo : Before(t, u)
                            /\ todo' = todo \ {t} /\ cur' = t.pid /\ pc' = "open"
      BY <1>4, <2>4 DEF Next1
    <3>2. todo \subseteq Tree /\ Snapshot(snap) /\ \A u \in Tree : u.depth \in Nat
      BY <2>1, <2>4, MeantIs DEF ListIsTrue, SnapIsTrue, Snapshot
    <3>3. ASSUME NEW u \in todo PROVE Behind(t.pid, u.pid)
      <4> SUFFICES ASSUME NEW v \in Tree, NEW w \in Tree, v.pid = t.pid, w.pid = u.pid
          PROVE  v.depth >= w.depth
        BY DEF Behind
      <4>1. v = t /\ w = u
        BY <3>2, TreeKeyed
      <4> QED BY <3>1, <3>2, <4>1 DEF Before
    <3>4. \A i \in 1 .. Len(tried), u \in todo : Behind(tried[i], u.pid)
      BY <2>1, <2>4 DEF Order
    <3> QED BY <2>1, <2>4, <3>1, <3>3, <3>4, TreeSame DEF Order
  <2> QED BY <2>2, <2>3, <2>4
<1>5. CASE Open
  <2>1. /\ UNCHANGED <<snap, root, op, todo, cur>> /\ pc = "open" /\ pc' \in {"openless", "terminate"}
        /\ tried' = Append(tried, cur) /\ cur \in Meant /\ cur \in Pids /\ Killing
    BY <1>5, HeldIs DEF Open, HandleIsTrue, Held
  <2>2. /\ tried' \in Seq(Pids) /\ Len(tried') = Len(tried) + 1 /\ tried'[Len(tried) + 1] = cur
        /\ \A i \in 1 .. Len(tried) : tried'[i] = tried[i]
    BY <1>0, <2>1
  <2>3. \A i \in 1 .. Len(tried') : i = Len(tried) + 1 \/ i \in 1 .. Len(tried)
    BY <1>0, <2>2
  <2>4. ASSUME NEW i \in 1 .. Len(tried'), NEW j \in 1 .. Len(tried'), i < j
        PROVE  Behind(tried'[i], tried'[j])
    <3>1. i \in 1 .. Len(tried)
      BY <1>0, <2>2, <2>4
    <3> QED BY <2>1, <2>2, <2>3, <2>4, <3>1 DEF Order
  <2>5. ASSUME NEW i \in 1 .. Len(tried'), NEW u \in todo PROVE Behind(tried'[i], u.pid)
    BY <2>1, <2>2, <2>3, <2>5 DEF Order
  <2>6. \A i \in 1 .. Len(tried') : tried'[i] \in Meant
    BY <2>1, <2>2, <2>3 DEF Order
  <2>7. \A u \in todo : Behind(cur, u.pid)
    BY <2>1 DEF Order
  <2> QED BY <2>1, <2>2, <2>4, <2>5, <2>6, <2>7, TreeSame DEF Order
<1> QED BY <1>1, <1>3, <1>4, <1>5, SystemFrame

LEMMA IInvStep == IInv /\ [Next]_vars => IInv'
BY SystemStep, CourseStep, SnapStep, HandleStep, ListStep, RowsStep, OrderStep DEF IInv

LEMMA IInvHolds == Spec => []IInv
<1>1. Init => IInv
  BY InitSystem, InitCommand DEF IInv
<1> QED BY <1>1, IInvStep, PTL DEF Spec
------------------------------------------------------------------------------
(* What it promises.                                                        *)

\* The report of mtps kill says what happened to each pid (ps_kill_one, the corpse case).
THEOREM ReportIsTrueHolds == Spec => []ReportIsTrue
<1>1. IInv => ReportIsTrue
  <2> SUFFICES ASSUME IInv PROVE ReportIsTrue
    OBVIOUS
  <2>1. /\ \A r \in rows : RowIsTrue(r)
        /\ \A i \in Started : proc[i].exit = "killed" => \E r \in rows : r.what = "killed" /\ r.id = i
    BY DEF IInv, RowsAreTrue
  <2> QED BY <2>1 DEF ReportIsTrue, RowIsTrue, Started
<1> QED BY <1>1, IInvHolds, PTL

\* mtps kill -tree terminates children before their parents (ps_depth_desc).
THEOREM ChildrenFirstHolds == Spec => []ChildrenFirst
<1>1. IInv => ChildrenFirst
  <2> SUFFICES ASSUME IInv, NEW i \in 1 .. Len(tried), NEW j \in 1 .. Len(tried), i < j,
                      tried[j] # root, NEW e \in snap, e.pid = tried[j], e.ppid = tried[i]
               PROVE  FALSE
    BY DEF ChildrenFirst
  <2>1. Snapshot(snap) /\ tried[j] \in Meant /\ Behind(tried[i], tried[j]) /\ pc # "idle"
    BY DEF IInv, SnapIsTrue, Snapshot, Order, Course, Killing
  <2>2. PICK t \in Tree, u \in Tree : t.pid = e.ppid /\ u.pid = e.pid /\ t.depth < u.depth
    BY <2>1, ParentAbove
  <2>3. t.depth \in Nat /\ u.depth \in Nat
    BY <2>1, MeantIs DEF IInv
  <2> QED BY <2>1, <2>2, <2>3 DEF Behind
<1> QED BY <1>1, IInvHolds, PTL

\* A level is left for whoever has a parent on the last one and is on none.
LEMMA RoomBelow ==
  ASSUME NEW S, Snapshot(S), NEW r, NEW k \in 0 .. Cardinality(S), NEW e \in S,
         Levels(S, r)[k] # {}, \A j \in 0 .. k : e \notin Levels(S, r)[j]
  PROVE  k + 1 \in 1 .. Cardinality(S)
<1> DEFINE L == Levels(S, r)
           n == Cardinality(S)
           U(m) == {f \in S : \E j \in 0 .. m : f \in L[j]}
<1>0. n \in Nat /\ IsFiniteSet(S)
  BY FS_CardinalityType DEF Snapshot
<1>1. ASSUME NEW m \in 1 .. n, NEW f \in L[m]
      PROVE  f \in S /\ f \notin U(m - 1) /\ L[m - 1] # {}
  <2>1. f \in S
    <3>1. m \in 0 .. n
      BY <1>0
    <3> QED BY <1>0, <1>1, <3>1, LevelsAre
  <2> QED BY <1>0, <1>1, <2>1, LevelsAre
<1>2. \A m \in Nat : IsFiniteSet(U(m)) /\ Cardinality(U(m)) \in Nat
  BY <1>0, FS_Subset, FS_CardinalityType
<1>3. ASSUME NEW m \in Nat, m + 1 <= n, L[m + 1] # {}
      PROVE  Cardinality(U(m)) < Cardinality(U(m + 1)) /\ L[m] # {}
  <2>1. PICK f \in L[m + 1] : TRUE
    BY <1>3
  <2>2. m + 1 \in 1 .. n /\ m + 1 - 1 = m /\ m + 1 \in 0 .. m + 1 /\ m + 1 \in Nat
    BY <1>0, <1>3
  <2>3. f \in S /\ f \notin U(m) /\ L[m] # {}
    BY <1>1, <2>1, <2>2
  <2>4. f \in U(m + 1) /\ U(m) \subseteq U(m + 1)
    BY <2>1, <2>2, <2>3
  <2>5. U(m) # U(m + 1) /\ U(m) \in SUBSET U(m + 1)
    BY <2>3, <2>4
  <2> HIDE DEF U, L
  <2> QED BY <1>2, <2>2, <2>3, <2>5, FS_Subset
<1>4. L[0] # {} => Cardinality(U(0)) # 0
  <2> SUFFICES ASSUME L[0] # {} PROVE U(0) # {}
    BY <1>2, FS_EmptySet
  <2>1. PICK f \in L[0] : TRUE
    OBVIOUS
  <2> QED BY <1>0, <2>1, LevelsAre
<1> DEFINE C(m) == Cardinality(U(m))
           D == {m \in Nat : m <= n /\ L[m] # {} => m + 1 <= C(m)}
<1>5. /\ \A m \in Nat : C(m) \in Nat
      /\ \A m \in Nat : m + 1 <= n /\ L[m + 1] # {} => C(m) < C(m + 1) /\ L[m] # {}
      /\ L[0] # {} => C(0) # 0
  BY <1>2, <1>3, <1>4
<1> HIDE DEF L, C
<1>6. 0 \in D
  <2>1. C(0) \in Nat
    BY <1>5
  <2> QED BY <1>5, <2>1
<1>7. ASSUME NEW m \in D PROVE m + 1 \in D
  <2>1. m \in Nat /\ (m <= n /\ L[m] # {} => m + 1 <= C(m)) /\ m + 1 \in Nat
    OBVIOUS
  <2>2. C(m) \in Nat /\ C(m + 1) \in Nat
    BY <1>5, <2>1
  <2>3. ASSUME m + 1 <= n, L[m + 1] # {} PROVE m + 1 + 1 <= C(m + 1)
    <3>1. C(m) < C(m + 1) /\ L[m] # {}
      BY <1>5, <2>1, <2>3
    <3> QED BY <1>0, <2>1, <2>2, <2>3, <3>1
  <2> QED BY <2>1, <2>3
<1>8. D = Nat
  BY <1>6, <1>7, Seqs!NatSetInduction
<1>9. k \in Nat /\ k <= n /\ k + 1 <= Cardinality(U(k))
  <2>1. k \in D /\ L[k] # {}
    BY <1>0, <1>8 DEF L
  <2> QED BY <1>0, <2>1 DEF C
<1>10. e \notin U(k) /\ U(k) \in SUBSET S
  BY DEF L
<1>11. Cardinality(U(k)) <= n /\ Cardinality(U(k)) # n
  BY <1>0, <1>10, FS_Subset
<1> HIDE DEF U
<1> QED BY <1>0, <1>2, <1>9, <1>11

\* What the snapshot found under a pid.
LEMMA SeenIs ==
  ASSUME SnapIsTrue
  PROVE  /\ \A e \in snap : SeenAt(e.pid) = e.id
         /\ \A p : SeenAt(p) # 0 => \E e \in snap : e.pid = p /\ e.id = SeenAt(p)
<1>1. \A e, f \in snap : e.pid = f.pid => e = f
  BY DEF SnapIsTrue
<1>2. ASSUME NEW p, NEW e \in snap, e.pid = p PROVE SeenAt(p) = e.id
  <2>1. (CHOOSE f \in snap : f.pid = p) = e
    BY <1>1, <1>2
  <2> QED BY <1>2, <2>1 DEF SeenAt
<1>3. ASSUME NEW p, SeenAt(p) # 0 PROVE \E e \in snap : e.pid = p
  BY <1>3 DEF SeenAt
<1> QED BY <1>2, <1>3

\* While no pid is handed out again, a pid is a process.
LEMMA SamePid ==
  ASSUME ~PidReused, NEW i \in Started, NEW j \in Started, proc[i].pid = proc[j].pid
  PROVE  i = j
BY DEF PidReused, Started

\* An entry whose parent pid is another's is that one's child.
LEMMA ParentIs ==
  ASSUME SystemInv, SnapIsTrue, ~PidReused, NEW e \in snap, NEW d \in snap,
         e.pid \notin System, e.ppid = d.pid
  PROVE  e.id \in Started /\ d.id \in Started /\ proc[e.id].parent = d.id
<1>1. e.id \in Started /\ d.id \in Started
  BY DEF SnapIsTrue, SystemInv, SystemTypes, Started
<1>2. /\ proc[e.id].parent \in 0 .. e.id - 1 /\ proc[e.id].parent # 0
      /\ proc[e.id].ppid = proc[proc[e.id].parent].pid
  BY <1>1 DEF SystemInv, Pedigree, SnapIsTrue
<1>3. proc[e.id].parent \in Started
  BY <1>1, <1>2 DEF Started, SystemInv, SystemTypes
<1>4. proc[proc[e.id].parent].pid = proc[d.id].pid
  BY <1>2 DEF SnapIsTrue
<1> QED BY <1>1, <1>3, <1>4, SamePid

\* Whoever is on a level descends from the root's process.
LEMMA LevelsDescend ==
  ASSUME SystemInv, SnapIsTrue, ~PidReused, SeenAt(root) # 0,
         NEW k \in 0 .. Cardinality(snap), NEW e \in Levels(snap, root)[k]
  PROVE  e \in snap /\ SeenAt(root) \in Forefathers(e.id)
<1> DEFINE L == Levels(snap, root)
           n == Cardinality(snap)
           D == {m \in Nat : m <= n => \A f \in L[m] : SeenAt(root) \in Forefathers(f.id)}
<1>0. n \in Nat /\ IsFiniteSet(snap) /\ Snapshot(snap)
  BY FS_CardinalityType DEF SnapIsTrue, Snapshot
<1>1. \A m \in 0 .. n : L[m] \subseteq snap
  BY <1>0, LevelsAre
<1>2. \A f \in snap : f.id \in Started
  BY DEF SnapIsTrue, SystemInv, SystemTypes, Started
<1>3. 0 \in D
  <2> SUFFICES ASSUME NEW f \in L[0] PROVE SeenAt(root) \in Forefathers(f.id)
    OBVIOUS
  <2>1. f \in snap /\ f.pid = root
    BY <1>0, LevelsAre
  <2>2. SeenAt(root) = f.id
    BY <2>1, SeenIs
  <2> QED BY <1>2, <2>1, <2>2, ForefathersAre
<1>4. ASSUME NEW m \in D PROVE m + 1 \in D
  <2> SUFFICES ASSUME m + 1 <= n, NEW f \in L[m + 1] PROVE SeenAt(root) \in Forefathers(f.id)
    OBVIOUS
  <2>1. m \in Nat /\ m + 1 \in 1 .. n /\ m + 1 \in 0 .. n /\ m \in 0 .. n /\ m + 1 - 1 = m
    BY <1>0
  <2>2. f \in snap
    BY <1>1, <2>1
  <2>3. f.pid \notin System /\ \E d \in L[m + 1 - 1] : f.ppid = d.pid
    BY <1>0, <2>1, <2>2, LevelsAre
  <2>4. PICK d \in L[m] : f.ppid = d.pid
    BY <2>1, <2>3
  <2>5. d \in snap /\ SeenAt(root) \in Forefathers(d.id)
    BY <1>0, <1>1, <2>1
  <2>6. f.id \in Started /\ d.id \in Started /\ proc[f.id].parent = d.id
    BY <2>2, <2>3, <2>4, <2>5, ParentIs
  <2> QED BY <2>5, <2>6, ForefathersUp
<1>5. D = Nat
  BY <1>3, <1>4, Seqs!NatSetInduction
<1> QED BY <1>0, <1>1, <1>5

\* Whoever descends from the root's process, in an unbroken line of processes of the snapshot, is
\* on a level.
LEMMA Reached ==
  ASSUME SystemInv, SnapIsTrue, NEW R \in Started, R = SeenAt(root), NEW i \in Started,
         R \in Forefathers(i),
         \A j \in Forefathers(i) \ Forefathers(R) : \E e \in snap : e.id = j
  PROVE  \E k \in 0 .. Cardinality(snap) : \E e \in Levels(snap, root)[k] : e.id = i
<1> DEFINE L == Levels(snap, root)
           n == Cardinality(snap)
           Unbroken(m) == /\ m \in Started /\ R \in Forefathers(m)
                          /\ \A j \in Forefathers(m) \ Forefathers(R) : \E e \in snap : e.id = j
           OnLevel(m) == \E k \in 0 .. n : \E e \in L[k] : e.id = m
           D == {b \in Nat : \A m \in 1 .. b : Unbroken(m) => OnLevel(m)}
<1>0. n \in Nat /\ IsFiniteSet(snap) /\ Snapshot(snap) /\ R \in Nat \ {0} /\ Started \subseteq Nat
  BY FS_CardinalityType DEF SnapIsTrue, Snapshot, Started
<1>1. OnLevel(R)
  <2>1. PICK e \in snap : e.pid = root /\ e.id = R
    BY <1>0, SeenIs
  <2>2. e \in L[0] /\ 0 \in 0 .. n
    BY <1>0, <2>1, LevelsAre
  <2> QED BY <2>1, <2>2
<1>2. 0 \in D
  OBVIOUS
<1>3. ASSUME NEW b \in D PROVE b + 1 \in D
  <2>0. b \in Nat /\ \A m \in 1 .. b : Unbroken(m) => OnLevel(m)
    OBVIOUS
  <2>1. ASSUME Unbroken(b + 1), b + 1 # R PROVE OnLevel(b + 1)
    <3> DEFINE p == proc[b + 1].parent
    <3>1. /\ b + 1 \in Started /\ p \in 0 .. b /\ (p = 0 <=> b + 1 = 1)
          /\ proc[b + 1].pid \in System <=> b + 1 = 1
          /\ p # 0 => proc[b + 1].ppid = proc[p].pid
      <4>1. b + 1 - 1 = b
        BY <2>0
      <4> QED BY <2>1, <4>1 DEF SystemInv, Pedigree
    <3>2. b + 1 # 1
      <4>1. Forefathers(b + 1) \subseteq 1 .. b + 1
        BY <3>1, ForefathersAre
      <4> QED BY <2>0, <2>1, <4>1
    <3>3. p \in 1 .. b /\ p \in Started
      BY <2>0, <3>1, <3>2 DEF Started, SystemInv, SystemTypes
    <3>4. Forefathers(b + 1) = {b + 1} \cup Forefathers(p)
      BY <3>1, <3>3, ForefathersUp
    <3>5. Unbroken(p)
      BY <2>1, <3>3, <3>4
    <3>6. PICK k \in 0 .. n : \E d \in L[k] : d.id = p
      BY <2>0, <3>3, <3>5
    <3>7. PICK d \in L[k] : d.id = p
      BY <3>6
    <3>8. b + 1 \notin Forefathers(R)
      <4>1. R \in 1 .. b + 1 /\ Forefathers(R) \subseteq 1 .. R
        BY <2>1, <3>1, ForefathersAre
      <4> QED BY <2>0, <2>1, <4>1
    <3>9. PICK e \in snap : e.id = b + 1
      BY <2>1, <3>4, <3>8
    <3>10. d \in snap
      BY <1>0, LevelsAre
    <3>11. e.pid \notin System /\ e.ppid = d.pid
      BY <3>1, <3>2, <3>3, <3>7, <3>9, <3>10 DEF SnapIsTrue
    <3>12. CASE \E j \in 0 .. k : e \in L[j]
      <4>1. PICK j \in 0 .. k : e \in L[j]
        BY <3>12
      <4>2. j \in 0 .. n
        BY <1>0
      <4> QED BY <3>9, <4>1, <4>2
    <3>13. CASE \A j \in 0 .. k : e \notin L[j]
      <4>1. k + 1 \in 1 .. n
        BY <1>0, <3>13, RoomBelow
      <4>2. k + 1 - 1 = k /\ k + 1 \in 0 .. n
        BY <1>0, <4>1
      <4>3. e \in L[k + 1]
        BY <1>0, <3>11, <3>13, <4>1, <4>2, LevelsAre
      <4> QED BY <3>9, <4>2, <4>3
    <3> QED BY <3>12, <3>13
  <2> HIDE DEF Unbroken, OnLevel
  <2>2. \A m \in 1 .. b + 1 : m = b + 1 \/ m \in 1 .. b
    BY <2>0
  <2>3. \A m \in 1 .. b + 1 : Unbroken(m) => OnLevel(m)
    BY <1>1, <2>0, <2>1, <2>2
  <2> QED BY <2>0, <2>3
<1> HIDE DEF Unbroken, OnLevel
<1>4. D = Nat
  BY <1>2, <1>3, Seqs!NatSetInduction
<1>5. Unbroken(i) /\ i \in D /\ i \in 1 .. i
  BY <1>0, <1>4 DEF Unbroken, Started
<1>6. OnLevel(i)
  BY <1>5
<1> QED BY <1>6 DEF OnLevel

\* Details and terminations hit the process that was meant, unless a pid was handed out again
\* (comment at KILL in PsCmd).
THEOREM StrangerOnlyByReuseHolds == Spec => []StrangerOnlyByReuse
<1>1. IInv => StrangerOnlyByReuse
  <2> SUFFICES ASSUME IInv, ~PidReused, NEW r \in rows
      PROVE  /\ r.what = "access" => r.id = SeenAt(r.pid)
             /\ r.what = "killed" /\ op = "tree" /\ SeenAt(root) # 0 => SeenAt(root) \in Forefathers(r.id)
             /\ r.what = "killed" /\ op = "kill" => r.pid = root
    BY DEF StrangerOnlyByReuse
  <2>0. SystemInv /\ SnapIsTrue /\ Course /\ RowIsTrue(r)
    BY DEF IInv, RowsAreTrue
  <2>1. \A e \in snap : e.id \in Started /\ e.pid = proc[e.id].pid /\ SeenAt(e.pid) = e.id
    BY <2>0, SeenIs DEF SnapIsTrue, SystemInv, SystemTypes, Started
  <2>2. ASSUME r.what = "access" PROVE r.id = SeenAt(r.pid)
    <3>1. PICK e \in snap : e.pid = r.pid
      BY <2>0, <2>2 DEF RowIsTrue
    <3>2. r.id \in Started /\ proc[r.id].pid = r.pid
      BY <2>0, <2>2 DEF RowIsTrue
    <3> QED BY <2>1, <3>1, <3>2, SamePid
  <2>3. ASSUME r.what = "killed", op = "tree", SeenAt(root) # 0
        PROVE  SeenAt(root) \in Forefathers(r.id)
    <3>1. r.id \in Started /\ proc[r.id].pid = r.pid /\ r.pid \in Meant
      BY <2>0, <2>3 DEF RowIsTrue
    <3>2. ASSUME NEW e \in snap, e.pid = r.pid PROVE e.id = r.id
      BY <2>1, <3>1, <3>2, SamePid
    <3>3. CASE r.pid = root
      <4>1. PICK e \in snap : e.pid = root /\ e.id = SeenAt(root)
        BY <2>0, <2>3, SeenIs
      <4> QED BY <2>0, <3>1, <3>2, <3>3, <4>1, ForefathersAre
    <3>4. CASE r.pid # root
      <4>1. PICK t \in Tree : t.pid = r.pid
        BY <3>1 DEF Meant
      <4>2. PICK k \in 1 .. Cardinality(snap) : \E e \in Levels(snap, root)[k] :
              t = [pid |-> e.pid, depth |-> k]
        BY <3>4, <4>1, TreeIs
      <4>3. PICK e \in Levels(snap, root)[k] : t = [pid |-> e.pid, depth |-> k]
        BY <4>2
      <4>4. k \in 0 .. Cardinality(snap)
        BY <2>0, FS_CardinalityType DEF SnapIsTrue
      <4>5. e \in snap /\ SeenAt(root) \in Forefathers(e.id)
        BY <2>0, <2>3, <4>4, LevelsDescend
      <4> QED BY <3>2, <4>1, <4>3, <4>5
    <3> QED BY <3>3, <3>4
  <2>4. ASSUME r.what = "killed", op = "kill" PROVE r.pid = root
    BY <2>0, <2>4, TreeAlone DEF RowIsTrue, Course
  <2> QED BY <2>2, <2>3, <2>4
<1> QED BY <1>1, IInvHolds, PTL

\* Nobody outlives mtps kill -tree without one of the reasons it states (PsCmd: the list, its order,
\* the answers).
THEOREM SurvivorsExplainedHolds == Spec => []SurvivorsExplained
<1>1. IInv => SurvivorsExplained
  <2> DEFINE R == SeenAt(root)
  <2> SUFFICES ASSUME IInv, pc = "done", op = "tree", root \notin System, ~PidReused,
                      NEW i \in 2 .. births, Alive(i), R \in Forefathers(i), i <= snapped,
                      \A j \in Forefathers(i) \ (Forefathers(R) \cup {i}) : \E e \in snap : e.id = j
               PROVE  \E r \in rows : r.pid = proc[i].pid /\ r.what \in {"denied", "notfound"}
    <3>1. IInv => births \in Nat /\ snapped \in Nat
      BY DEF IInv, SnapIsTrue, SystemInv, SystemTypes
    <3> QED BY <3>1 DEF SurvivorsExplained, IInv, SnapIsTrue, SystemInv, SystemTypes
  <2>0. /\ SystemInv /\ SnapIsTrue /\ Course /\ ListIsTrue /\ births \in Nat
        /\ \A r \in rows : RowIsTrue(r)
    BY DEF IInv, RowsAreTrue, SystemInv, SystemTypes
  <2>1. i \in Started /\ i \in 1 .. snapped
    BY <2>0 DEF Started, SnapIsTrue
  <2>2. R \in Started
    BY <2>0, <2>1, ForefathersAre DEF Started
  <2>3. \E e \in snap : e.id = i
    BY <2>0, <2>1 DEF SnapIsTrue, Walking
  <2>4. PICK k \in 0 .. Cardinality(snap) : \E e \in Levels(snap, root)[k] : e.id = i
    <3>1. \A j \in Forefathers(i) \ Forefathers(R) : \E e \in snap : e.id = j
      BY <2>3
    <3> QED BY <2>0, <2>1, <2>2, <3>1, Reached
  <2>5. PICK e \in Levels(snap, root)[k] : e.id = i
    BY <2>4
  <2>6. IsFiniteSet(snap) /\ Cardinality(snap) \in Nat
    BY <2>0, FS_CardinalityType DEF SnapIsTrue
  <2>7. e \in snap /\ e.pid = proc[i].pid
    BY <2>0, <2>5, <2>6, LevelsAre DEF SnapIsTrue
  <2>8. \E t \in Tree : t.pid = e.pid
    <3>1. CASE k = 0
      <4>1. e.pid = root
        BY <2>5, <2>6, <3>1, LevelsAre
      <4>2. [pid |-> root, depth |-> 0] \in Tree
        BY TreeIs
      <4> QED BY <4>1, <4>2
    <3>2. CASE k # 0
      <4>1. k \in 1 .. Cardinality(snap)
        BY <2>6, <3>2
      <4>2. [pid |-> e.pid, depth |-> k] \in Tree
        BY <2>5, <4>1, TreeIs
      <4> QED BY <4>2
    <3> QED BY <3>1, <3>2
  <2>9. PICK r \in rows : r.pid = proc[i].pid /\ r.what \in Ends
    BY <2>0, <2>7, <2>8 DEF ListIsTrue, Walking, Killing, Held, Answered
  <2>10. r.what # "killed"
    <3> SUFFICES ASSUME r.what = "killed" PROVE FALSE
      OBVIOUS
    <3>1. r.id \in Started /\ proc[r.id].exit = "killed" /\ proc[r.id].pid = r.pid
      BY <2>0 DEF RowIsTrue
    <3>2. r.id = i
      BY <2>1, <2>9, <3>1, SamePid
    <3> QED BY <3>1, <3>2 DEF Alive
  <2> QED BY <2>9, <2>10 DEF Ends
<1> QED BY <1>1, IInvHolds, PTL

(***************************************************************************)
(* What Dirs promises, for any tree, any command and any changes and faults.  *)
(* Nothing the walk has read need be so any more: each part of its invariant  *)
(* speaks of names that nobody moved, or says which change is to blame.       *)
(***************************************************************************)

Kinds == Folders \cup Files \cup {"none"}
Decisions == {"descended", "depthlimited", "pruned", "nofollow", "failed", "missing", "denied", "unreadable"}
WalkSteps == {"root", "classify", "pop", "open", "check", "reopen", "list", "row"}
CanonSteps == {"canon", "raw", "identify"}
Items == [path : Paths, seen : Kinds, pruned : BOOLEAN]
Handles == [kind : Kinds, where : {"in", "out"}, kids : SUBSET [name : 1 .. Width, kind : Kinds]]

Codes == {"none", "ok", "badvalue", "notfound", "oserror", "dangling"}
Whys == {"classify", "name", "open", "list", "lost", "cut", "file", "type", "target"}
Results == [code : Codes, paths : Seq(Paths), count : Nat, links : SUBSET (Paths \X Kinds \X Decisions),
            errors : SUBSET (Paths \X Whys \X Nat), pruned : Nat, limited : Nat,
            entries : SUBSET Paths, multi : SUBSET Paths, entered : SUBSET Paths, blank : SUBSET Paths]

StateTypes ==
  /\ fs \in [Paths -> Kinds] /\ swaps \subseteq Paths \X Kinds /\ faults \in Nat /\ opt \in Options
  /\ at \in {"start", "done"} \cup WalkSteps \cup CanonSteps
  /\ opt.mode = "canon" => at \notin WalkSteps
  /\ opt.mode # "canon" => at \notin CanonSteps
ItemTypes ==
  /\ stack \in Seq(Items)
  /\ it \in [path : Paths, seen : Kinds, action : Decisions]
  /\ via \in Handles
  /\ \A c, d \in via.kids : c.name = d.name => c = d
  /\ via.kids # {} => Len(it.path) < MaxDepth
  /\ at \notin {"check", "list"} => via = NoVia
OutTypes ==
  /\ got \subseteq Paths \X {"in", "out"}
  /\ out \in Results
  /\ at # "done" => out.code = "none"
TypesInv == StateTypes /\ ItemTypes /\ OutTypes

\* A name below the root was changed, or is below one that was.
Moved(p) == \E s \in swaps : IsPrefix(s[1], p)
Chain(p) == \A q \in Ancestors(p) : q # Root /\ fs[q] \in {"junction", "alias"} => Moved(q)
Above(p) == \E s \in swaps : IsStrictPrefix(s[1], p)
Filtered(p) == fs[p] = "cloud" \/ <<p, "cloud">> \in swaps \/ Above(p)
Cause(p) == Above(p) \/ <<p, "cloud">> \in swaps
EscapeInv ==
  /\ \A i \in DOMAIN stack : Chain(stack[i].path)
  /\ Chain(it.path)
  /\ via.kids # {} /\ it.path # Root /\ fs[it.path] \in {"junction", "alias"} => Moved(it.path)
  /\ at \in {"check", "reopen"} => it.path # Root
  /\ at = "check" => /\ via.kind = "cloud" => Filtered(it.path)
                     /\ via.where = "out" => Above(it.path)
  /\ at = "reopen" => Filtered(it.path)
  /\ at = "list" /\ via.where = "out" => Cause(it.path)
  /\ \A g \in got : g[2] = "out" => Cause(g[1])

Moments == {fs[Root]} \cup {s[2] : s \in swaps}
CanonInv ==
  opt.mode = "canon" =>
    /\ \A s \in swaps : s[1] = Root
    /\ at = "identify" => Moments \ {"none", "broken"} # {}
    /\ at = "raw" => \/ it.action = "missing" /\ Moments \cap {"none", "broken"} # {}
                     \/ it.action \in {"denied", "unreadable"} /\ faults > 0
    /\ at = "done" => /\ CanonTellsApart
                      /\ out.code \in {"badvalue", "ok", "notfound", "dangling", "oserror"}

\* Where the walk is.
Busy == at \in {"open", "check", "reopen", "list", "row"}
Trying == at \in {"open", "check", "reopen", "list"}
Waiting == {stack[i].path : i \in DOMAIN stack}
Entered == {g[1] : g \in got}
OfKind(whys) == {e \in out.errors : e[2] \in whys}
Failing == {e[1] : e \in OfKind({"open", "list"})}
Named == {r[1] : r \in out.links}
Unnamed == OfKind({"name"})
Nameless == {e[1] : e \in Unnamed}
Met == Waiting \cup Entered \cup Failing \cup Named \cup Nameless
         \cup (IF Busy THEN {it.path} ELSE {})

OnceInv ==
  /\ \A p \in Met : p # Root => Parent(p) \in Entered
  /\ \A i, j \in DOMAIN stack : stack[i].path = stack[j].path => i = j
  /\ Waiting \cap (Entered \cup Failing \cup Named \cup Nameless) = {}
  /\ Busy => it.path \notin Waiting \cup Named
  /\ Trying => it.action = "descended" /\ it.path \notin Entered \cup Failing
  /\ at \in {"start", "root", "classify"} => stack = <<>> /\ Entered = {} /\ out.links = {} /\ Failing = {} /\ Unnamed = {}
DecidedInv ==
  /\ at = "row" => /\ it.action = "descended" => it.path \in Entered
                   /\ it.action = "failed" => it.path \in Failing
                   /\ it.action # "descended" => it.path \notin Entered
                   /\ it.action = "nofollow" => IsName(it.seen)
  /\ \A r \in out.links : /\ r[3] = "descended" => r[1] \in Entered
                          /\ r[3] = "failed" => r[1] \in Failing
                          /\ r[3] # "descended" => r[1] \notin Entered
NotFollowed == {r \in out.links : r[3] = "nofollow"}
CountInv ==
  /\ IsFiniteSet(Entered) /\ IsFiniteSet(Failing) /\ IsFiniteSet(Unnamed) /\ IsFiniteSet(NotFollowed)
  /\ out.count + Cardinality(Unnamed)
       = Cardinality(Entered) + Cardinality(Failing) + out.pruned + out.limited + Cardinality(NotFollowed)
         + IF Trying \/ (at = "row" /\ it.action = "nofollow") THEN 1 ELSE 0
RootExcused == Errors(Root) # {} \/ (fs[Root] = "cloud" /\ faults > 0)
RootShown == fs[Root] \in Reparse => Shown(Root) # {} \/ RootExcused
RootInv ==
  opt.mode # "canon" =>
    /\ \A s \in swaps : s[1] # Root
    /\ \A i \in DOMAIN stack : stack[i].path = Root => stack[i].seen = fs[Root] \/ RootExcused
    /\ Busy /\ it.path = Root => it.seen = fs[Root] \/ RootExcused
    /\ \/ at \in {"start", "root", "classify"} \/ (at # "done" /\ Root \in Waiting) \/ (Busy /\ it.path = Root)
       \/ at = "done" /\ out.code # "ok"
       \/ RootShown

\* The tree stays one; what a handle shows of a directory is there as long as nobody
\* touches it; a walk ends when nothing waits.
TreeInv == \A p \in Paths \ {Root} : fs[p] # "none" => fs[Parent(p)] \in {"dir", "cloud"} \/ Parent(p) = Root
Below(q) == {p \in Paths : p # Root /\ Parent(p) = q /\ ~Moved(p) /\ fs[p] # "none"}
FreshInv ==
  at \in {"check", "list"} /\ via.kind \notin Files =>
    \A p \in Below(it.path) : [name |-> Last(p), kind |-> fs[p]] \in via.kids
EndInv == opt.mode # "canon" /\ at = "done" /\ out.code = "ok" => stack = <<>>

\* What is owed below q is in the answer, will be, or has a row; what is not is counted by
\* the one row of q.
Coming(p) == IF opt.mode = "dirs" THEN p \in Waiting
             ELSE /\ fs[p] # "multi"
                  /\ \/ \E i \in DOMAIN stack : stack[i].path = p /\ IsName(stack[i].seen)
                     \/ at = "row" /\ it.path = p /\ IsName(it.seen)
Noted(p) == Given(p) \/ Errors(p) # {} \/ Coming(p)
Missed(q) == {p \in Below(q) : Owed(p) /\ ~Noted(p)}
Cut(q) == \E e \in out.errors : e[1] = q /\ e[2] = "cut"
LostRows(q) == {e \in out.errors : e[1] = q /\ e[2] = "lost"}
Told(q) == \/ Cut(q) \/ Missed(q) = {}
           \/ \E e \in LostRows(q) : Cardinality(Missed(q)) <= e[3]
ToldInv == opt.mode # "canon" => \A q \in Entered : Told(q)
AnswerInv ==
  opt.mode = "dirs" =>
    /\ \A i \in DOMAIN stack : stack[i].pruned => stack[i].path # Root /\ Last(stack[i].path) \in opt.prune
    /\ at = "row" => it.action = "nofollow" \/ it.path \in Entered \/ Explains(it.path)
    /\ \A q \in ToSet(out.paths) : Explains(q) \/ q \in Entered \/ (Busy /\ it.path = q)
---------------------------------------------------------------------------
(* Paths: sequences of names, one below the other.                           *)

LEMMA PathsAre ==
  /\ \A p \in Paths : p \in Seq(1 .. Width) /\ Len(p) \in 0 .. MaxDepth
  /\ \A p \in Seq(1 .. Width) : Len(p) <= MaxDepth => p \in Paths
  /\ Root \in Paths /\ Root \in Seq(1 .. Width) /\ Len(Root) = 0
<1>1. ASSUME NEW p \in Paths PROVE p \in Seq(1 .. Width) /\ Len(p) \in 0 .. MaxDepth
  <2>1. PICK n \in 0 .. MaxDepth : p \in [1 .. n -> 1 .. Width]
    BY DEF Paths
  <2>2. n \in Nat
    BY SizeAssumption
  <2>3. p \in Seq(1 .. Width)
    BY <2>1, <2>2, SeqDef, Zenon
  <2>4. Len(p) = n
    BY <2>1, <2>2
  <2> QED BY <2>3, <2>4
<1>2. ASSUME NEW p \in Seq(1 .. Width), Len(p) <= MaxDepth PROVE p \in Paths
  <2>1. Len(p) \in Nat /\ p \in [1 .. Len(p) -> 1 .. Width]
    BY LenProperties
  <2>2. Len(p) \in 0 .. MaxDepth
    BY <1>2, <2>1, SizeAssumption
  <2> QED BY <2>1, <2>2 DEF Paths
<1>3. Root \in Seq(1 .. Width) /\ Len(Root) = 0 /\ 0 <= MaxDepth
  BY EmptySeq, SizeAssumption DEF Root
<1> QED BY <1>1, <1>2, <1>3

\* One path is the beginning of another.
LEMMA PrefixIs ==
  ASSUME NEW p \in Seq(1 .. Width), NEW q \in Seq(1 .. Width)
  PROVE  IsPrefix(p, q) <=> Len(p) <= Len(q) /\ \A i \in 1 .. Len(p) : p[i] = q[i]
<1>1. Len(p) \in Nat /\ Len(q) \in Nat /\ SubSeq(p, 1, Len(p)) = p
  BY LenProperties, SubSeqFull
<1>2. ASSUME Len(p) <= Len(q)
      PROVE  p = SubSeq(q, 1, Len(p)) <=> \A i \in 1 .. Len(p) : p[i] = q[i]
  <2> DEFINE r == SubSeq(q, 1, Len(p))
  <2>1. \A i \in 1 .. Len(p) : q[i] \in 1 .. Width
    <3>1. \A i \in 1 .. Len(p) : i \in 1 .. Len(q)
      BY <1>1, <1>2
    <3> QED BY <3>1, ElementOfSeq
  <2>2. /\ r \in Seq(1 .. Width) /\ Len(r) = Len(p)
        /\ \A i \in 1 .. Len(p) : r[i] = q[i]
    <3>1. /\ r \in Seq(1 .. Width) /\ Len(r) = IF 1 <= Len(p) THEN Len(p) - 1 + 1 ELSE 0
          /\ \A i \in 1 .. Len(p) - 1 + 1 : r[i] = q[1 + i - 1]
      BY <1>1, <2>1, SubSeqProperties
    <3> HIDE DEF r
    <3>2. \A i \in 1 .. Len(p) : 1 + i - 1 = i /\ i \in 1 .. Len(p) - 1 + 1
      BY <1>1
    <3>3. Len(r) = Len(p)
      BY <1>1, <3>1
    <3> QED BY <3>1, <3>2, <3>3
  <2> HIDE DEF r
  <2>3. (\A i \in 1 .. Len(p) : p[i] = q[i]) => p = r
    BY <2>2, SeqEqual
  <2> QED BY <2>2, <2>3 DEF r
<1> QED BY <1>1, <1>2 DEF IsPrefix

LEMMA PrefixOrder ==
  /\ \A p \in Paths : IsPrefix(p, p) /\ IsPrefix(Root, p)
  /\ \A p \in Paths : IsPrefix(p, Root) => p = Root
  /\ \A p, q, r \in Paths : IsPrefix(p, q) /\ IsPrefix(q, r) => IsPrefix(p, r)
  /\ \A p, q \in Paths : IsPrefix(p, q) /\ IsPrefix(q, p) => p = q
  /\ \A p, q, r \in Paths : IsPrefix(p, q) /\ IsStrictPrefix(q, r) => IsStrictPrefix(p, r)
  /\ \A p, q, r \in Paths : IsStrictPrefix(p, q) /\ IsPrefix(q, r) => IsStrictPrefix(p, r)
<1> DEFINE Pre(p, q) == Len(p) <= Len(q) /\ \A i \in 1 .. Len(p) : p[i] = q[i]
<1>1. \A p \in Paths : p \in Seq(1 .. Width) /\ Len(p) \in Nat
  BY PathsAre
<1>2. \A p, q \in Paths : IsPrefix(p, q) <=> Pre(p, q)
  BY <1>1, PrefixIs
<1>3. \A p \in Paths : Pre(p, p) /\ Pre(Root, p)
  BY <1>1, PathsAre
<1>4. \A p, q, r \in Paths : Pre(p, q) /\ Pre(q, r) => Pre(p, r)
  <2> TAKE p, q, r \in Paths
  <2> HAVE Pre(p, q) /\ Pre(q, r)
  <2>1. Len(p) \in Nat /\ Len(q) \in Nat /\ Len(r) \in Nat
    BY <1>1
  <2>2. Len(p) <= Len(r)
    BY <2>1
  <2>3. \A i \in 1 .. Len(p) : i \in 1 .. Len(q)
    BY <2>1
  <2> QED BY <2>2, <2>3
<1>5. \A p, q \in Paths : Pre(p, q) /\ Pre(q, p) => p = q
  BY <1>1, SeqEqual
<1> HIDE DEF Pre
<1>6. \A p, q, r \in Paths : IsPrefix(p, q) /\ IsPrefix(q, r) => IsPrefix(p, r)
  BY <1>2, <1>4
<1>7. \A p, q \in Paths : IsPrefix(p, q) /\ IsPrefix(q, p) => p = q
  BY <1>2, <1>5
<1>8. Root \in Paths
  BY PathsAre
<1>9. \A p \in Paths : IsPrefix(p, p) /\ IsPrefix(Root, p)
  BY <1>2, <1>3, <1>8
<1>10. \A p \in Paths : IsPrefix(p, Root) => p = Root
  BY <1>7, <1>8, <1>9
<1>11. \A p, q, r \in Paths : IsPrefix(p, q) /\ IsStrictPrefix(q, r) => IsStrictPrefix(p, r)
  BY <1>6, <1>7 DEF IsStrictPrefix
<1>12. \A p, q, r \in Paths : IsStrictPrefix(p, q) /\ IsPrefix(q, r) => IsStrictPrefix(p, r)
  BY <1>6, <1>7 DEF IsStrictPrefix
<1> QED BY <1>6, <1>7, <1>9, <1>10, <1>11, <1>12

\* A name below a directory.
LEMMA BelowIs ==
  ASSUME NEW p \in Paths, Len(p) < MaxDepth, NEW i \in 1 .. Width
  PROVE  LET c == Append(p, i)
         IN c \in Paths /\ c # Root /\ Parent(c) = p /\ Last(c) = i /\ IsStrictPrefix(p, c)
<1> DEFINE c == Append(p, i)
<1>1. p \in Seq(1 .. Width) /\ Len(p) \in Nat /\ MaxDepth \in Nat
  BY PathsAre, SizeAssumption
<1>2. /\ c \in Seq(1 .. Width) /\ Len(c) = Len(p) + 1 /\ c[Len(p) + 1] = i
      /\ \A j \in 1 .. Len(p) : c[j] = p[j]
  BY <1>1, AppendProperties
<1>3. c \in Paths /\ c # Root
  <2>1. Len(c) <= MaxDepth /\ Len(c) # 0
    BY <1>1, <1>2
  <2> QED BY <1>2, <2>1, PathsAre
<1>4. Last(c) = i
  BY <1>2 DEF Last
<1>5. IsPrefix(p, c) /\ p # c
  <2>1. Len(p) <= Len(c) /\ Len(p) # Len(c)
    BY <1>1, <1>2
  <2> HIDE DEF c
  <2> QED BY <1>1, <1>2, <2>1, PrefixIs
<1>6. Parent(c) = p
  <2>1. SubSeq(c, 1, Len(p)) = SubSeq(p, 1, Len(p)) /\ SubSeq(p, 1, Len(p)) = p
    BY <1>1, <1>5, SubSeqFull DEF IsPrefix
  <2>2. Len(c) - 1 = Len(p)
    BY <1>1, <1>2
  <2> QED BY <2>1, <2>2 DEF Parent, Front
<1> QED BY <1>3, <1>4, <1>5, <1>6 DEF IsStrictPrefix

\* The directory a name is in.
LEMMA ParentPath ==
  ASSUME NEW p \in Paths, p # Root
  PROVE  /\ Parent(p) \in Paths /\ Len(Parent(p)) < MaxDepth /\ Last(p) \in 1 .. Width
         /\ p = Append(Parent(p), Last(p)) /\ IsStrictPrefix(Parent(p), p)
<1>1. p \in Seq(1 .. Width) /\ Len(p) \in 1 .. MaxDepth /\ MaxDepth \in Nat
  BY PathsAre, EmptySeq, SizeAssumption DEF Root
<1>2. PICK f \in Seq(1 .. Width), i \in 1 .. Width : p = Append(f, i)
  BY <1>1, SequenceEmptyOrAppend DEF Root
<1>3. Len(f) \in Nat /\ Len(p) = Len(f) + 1
  BY <1>2, AppendProperties
<1>4. f \in Paths /\ Len(f) < MaxDepth
  BY <1>1, <1>3, PathsAre
<1> QED BY <1>2, <1>4, BelowIs

\* What is above a name is what its parent is, and what is above that.
LEMMA AncestorsAre ==
  /\ \A p \in Paths : Ancestors(p) = {q \in Paths : IsStrictPrefix(q, p)}
  /\ \A p \in Paths, i \in 1 .. Width :
       Len(p) < MaxDepth => Ancestors(Append(p, i)) = Ancestors(p) \cup {p}
  /\ Ancestors(Root) = {}
<1> DEFINE Strict(q, p) == Len(q) < Len(p) /\ \A i \in 1 .. Len(q) : q[i] = p[i]
<1>0. \A p \in Paths : p \in Seq(1 .. Width) /\ Len(p) \in 0 .. MaxDepth /\ Len(p) \in Nat
  BY PathsAre
<1>1. \A p, q \in Paths : IsStrictPrefix(q, p) <=> Strict(q, p)
  <2> TAKE p, q \in Paths
  <2>1. IsPrefix(q, p) <=> Len(q) <= Len(p) /\ \A i \in 1 .. Len(q) : q[i] = p[i]
    BY <1>0, PrefixIs
  <2>2. IsPrefix(q, p) /\ Len(q) = Len(p) => q = p
    BY <1>0, <2>1, SeqEqual
  <2> QED BY <1>0, <2>1, <2>2 DEF IsStrictPrefix
<1>2. ASSUME NEW p \in Paths, NEW n \in 0 .. Len(p) - 1
      PROVE  /\ SubSeq(p, 1, n) \in Paths /\ Len(SubSeq(p, 1, n)) = n
             /\ \A i \in 1 .. n : SubSeq(p, 1, n)[i] = p[i]
  <2>1. n \in Nat /\ n < Len(p) /\ Len(p) \in Nat /\ Len(p) <= MaxDepth /\ MaxDepth \in Nat
    BY <1>0, SizeAssumption
  <2>2. \A i \in 1 .. n : p[i] \in 1 .. Width
    <3>1. \A i \in 1 .. n : i \in 1 .. Len(p)
      BY <2>1
    <3> QED BY <1>0, <3>1, ElementOfSeq
  <2>3. /\ SubSeq(p, 1, n) \in Seq(1 .. Width)
        /\ Len(SubSeq(p, 1, n)) = (IF 1 <= n THEN n - 1 + 1 ELSE 0)
        /\ \A i \in 1 .. n - 1 + 1 : SubSeq(p, 1, n)[i] = p[1 + i - 1]
    BY <2>1, <2>2, SubSeqProperties
  <2> DEFINE r == SubSeq(p, 1, n)
  <2> HIDE DEF r
  <2>4. Len(r) = n /\ r \in Seq(1 .. Width)
    BY <2>1, <2>3 DEF r
  <2>5. \A i \in 1 .. n : i \in 1 .. n - 1 + 1 /\ 1 + i - 1 = i
    BY <2>1
  <2>6. \A i \in 1 .. n : r[i] = p[i]
    BY <2>3, <2>5 DEF r
  <2>7. Len(r) <= MaxDepth
    BY <2>1, <2>4
  <2> QED BY <2>4, <2>6, <2>7, PathsAre DEF r
<1>3. ASSUME NEW p \in Paths PROVE Ancestors(p) = {q \in Paths : IsStrictPrefix(q, p)}
  <2>1. ASSUME NEW q \in Ancestors(p) PROVE q \in Paths /\ IsStrictPrefix(q, p)
    <3>1. PICK n \in 0 .. Len(p) - 1 : q = SubSeq(p, 1, n)
      BY DEF Ancestors
    <3>2. n < Len(p)
      BY <1>0
    <3> QED BY <1>1, <1>2, <3>1, <3>2
  <2>2. ASSUME NEW q \in Paths, IsStrictPrefix(q, p) PROVE q \in Ancestors(p)
    <3>1. Len(q) \in 0 .. Len(p) - 1 /\ \A i \in 1 .. Len(q) : q[i] = p[i]
      BY <1>0, <1>1, <2>2
    <3>2. q = SubSeq(p, 1, Len(q))
      <4>1. /\ SubSeq(p, 1, Len(q)) \in Paths /\ Len(SubSeq(p, 1, Len(q))) = Len(q)
            /\ \A i \in 1 .. Len(q) : SubSeq(p, 1, Len(q))[i] = p[i]
        BY <1>2, <3>1
      <4> QED BY <1>0, <3>1, <4>1, SeqEqual
    <3> QED BY <3>1, <3>2 DEF Ancestors
  <2> QED BY <2>1, <2>2
<1>4. ASSUME NEW p \in Paths, NEW i \in 1 .. Width, Len(p) < MaxDepth
      PROVE  Ancestors(Append(p, i)) = Ancestors(p) \cup {p}
  <2> DEFINE c == Append(p, i)
  <2>1. c \in Paths /\ IsStrictPrefix(p, c)
    BY <1>4, BelowIs
  <2>2. Len(c) = Len(p) + 1 /\ \A j \in 1 .. Len(p) : c[j] = p[j]
    BY <1>0, AppendProperties
  <2> HIDE DEF c
  <2>3. ASSUME NEW q \in Paths, IsStrictPrefix(q, c), q # p PROVE IsStrictPrefix(q, p)
    <3>1. Len(q) < Len(c) /\ \A j \in 1 .. Len(q) : q[j] = c[j]
      BY <1>1, <2>1, <2>3
    <3>2. Len(q) <= Len(p) /\ Len(q) \in Nat /\ Len(p) \in Nat
      BY <1>0, <2>2, <3>1
    <3>3. \A j \in 1 .. Len(q) : j \in 1 .. Len(p)
      BY <3>2
    <3>4. \A j \in 1 .. Len(q) : q[j] = p[j]
      BY <2>2, <3>1, <3>3
    <3>5. IsPrefix(q, p)
      BY <1>0, <3>2, <3>4, PrefixIs
    <3> QED BY <2>3, <3>5 DEF IsStrictPrefix
  <2>4. \A q \in Paths : IsStrictPrefix(q, p) => IsStrictPrefix(q, c)
    BY <2>1, PrefixOrder DEF IsStrictPrefix
  <2>5. Ancestors(c) = {q \in Paths : IsStrictPrefix(q, c)} /\ Ancestors(p) = {q \in Paths : IsStrictPrefix(q, p)}
    BY <1>3, <2>1
  <2> QED BY <2>1, <2>3, <2>4, <2>5 DEF c
<1>5. Ancestors(Root) = {}
  <2>1. \A q \in Paths : ~ IsStrictPrefix(q, Root)
    BY PrefixOrder DEF IsStrictPrefix
  <2> QED BY <1>3, <2>1, PathsAre
<1> QED BY <1>3, <1>4, <1>5
---------------------------------------------------------------------------
(* The children of a directory, in order.                                     *)

LEMMA NthIs ==
  ASSUME NEW kept, IsFiniteSet(kept), \A c \in kept : c.name \in Int,
         \A c, d \in kept : c.name = d.name => c = d
  PROVE  /\ Cardinality(kept) \in Nat
         /\ \A i \in 1 .. Cardinality(kept) : Nth(kept, i) \in kept
         /\ \A c \in kept : \E i \in 1 .. Cardinality(kept) : Nth(kept, i) = c
         /\ \A i, j \in 1 .. Cardinality(kept) : Nth(kept, i) = Nth(kept, j) => i = j
<1> DEFINE n == Cardinality(kept)
           From(c) == {d \in kept : d.name >= c.name}
           rank == [c \in kept |-> Cardinality(From(c))]
<1>1. n \in Nat
  BY FS_CardinalityType
<1>2. \A c \in kept : From(c) \in SUBSET kept /\ IsFiniteSet(From(c)) /\ c \in From(c)
  BY FS_Subset
<1>3. ASSUME NEW c \in kept PROVE rank[c] \in 1 .. n
  <2>1. Cardinality(From(c)) <= n /\ Cardinality(From(c)) \in Nat /\ Cardinality(From(c)) # 0
    BY <1>2, FS_Subset, FS_CardinalityType, FS_EmptySet
  <2> QED BY <1>1, <2>1
<1>4. ASSUME NEW c \in kept, NEW d \in kept, c.name > d.name PROVE rank[c] # rank[d]
  <2>1. From(c) \in SUBSET From(d) /\ d \notin From(c)
    <3>1. \A e \in kept : e.name >= c.name => e.name >= d.name
      BY <1>4
    <3> QED BY <1>4, <3>1
  <2>2. IsFiniteSet(From(c)) /\ IsFiniteSet(From(d)) /\ d \in From(d)
    BY <1>2
  <2> HIDE DEF From
  <2>3. Cardinality(From(c)) # Cardinality(From(d))
    BY <2>1, <2>2, FS_Subset
  <2> QED BY <2>3
<1>5. \A c, d \in kept : rank[c] = rank[d] => c = d
  <2> TAKE c, d \in kept
  <2>1. c.name = d.name \/ c.name > d.name \/ d.name > c.name
    OBVIOUS
  <2> QED BY <1>4, <2>1
<1>6. rank \in [kept -> 1 .. n]
  BY <1>3
<1> HIDE DEF rank
<1>7. rank \in Injection(kept, 1 .. n)
  BY <1>5, <1>6 DEF Injection, IsInjective
<1>8. IsFiniteSet(1 .. n) /\ Cardinality(1 .. n) = n
  BY <1>1, FS_Interval
<1>9. rank \in Surjection(kept, 1 .. n)
  BY <1>7, <1>8, FS_Injection
<1>10. \A i \in 1 .. n : \E c \in kept : rank[c] = i
  BY <1>9 DEF Surjection
<1>11. ASSUME NEW i \in 1 .. n PROVE Nth(kept, i) \in kept /\ rank[Nth(kept, i)] = i
  <2>1. \E c \in kept : Cardinality({d \in kept : d.name >= c.name}) = i
    BY <1>10 DEF rank
  <2>2. Nth(kept, i) \in kept /\ Cardinality({d \in kept : d.name >= Nth(kept, i).name}) = i
    BY <2>1 DEF Nth
  <2> QED BY <2>2 DEF rank
<1>12. ASSUME NEW c \in kept PROVE \E i \in 1 .. n : Nth(kept, i) = c
  <2>1. rank[c] \in 1 .. n
    BY <1>6
  <2> QED BY <1>5, <1>11, <2>1
<1> QED BY <1>1, <1>11, <1>12
---------------------------------------------------------------------------
(* Types                                                                      *)

Distinct(kids) == \A c, d \in kids : c.name = d.name => c = d
Entry == [name : 1 .. Width, kind : Kinds]

LEMMA KidsAre ==
  ASSUME NEW p \in Paths, fs \in [Paths -> Kinds]
  PROVE  /\ Kids(p) \subseteq Entry /\ Distinct(Kids(p))
         /\ Kids(p) # {} => Len(p) < MaxDepth
<1>1. \A i \in 1 .. Width : Len(p) < MaxDepth => fs[Append(p, i)] \in Kinds
  BY BelowIs
<1> QED BY <1>1 DEF Kids, Distinct, Entry

\* What a handle can be.
GoodHandle(v, p) == v \in Handles /\ Distinct(v.kids) /\ (v.kids # {} => Len(p) < MaxDepth)

LEMMA OpenedIs ==
  ASSUME NEW p \in Paths, fs \in [Paths -> Kinds], NEW follow \in BOOLEAN
  PROVE  GoodHandle(Leads(p), p) /\ GoodHandle(Opened(p, follow), p) /\ GoodHandle(NoVia, p)
<1>1. 1 \in 1 .. Width /\ "dir" \in Kinds /\ "none" \in Kinds
  BY SizeAssumption DEF Kinds, Folders
<1>2. GoodHandle(NoVia, p)
  BY <1>1 DEF GoodHandle, NoVia, Handles, Distinct
<1>3. GoodHandle(Outside(p), p)
  BY <1>1 DEF GoodHandle, Outside, Handles, Distinct
<1>4. GoodHandle(Leads(p), p)
  BY <1>3, KidsAre DEF Leads, GoodHandle, Handles, Distinct, Entry
<1>5. GoodHandle(Follow(Leads(p), p), p)
  BY <1>1, <1>2, <1>3, <1>4, KidsAre DEF Follow, GoodHandle, Handles, Distinct, Entry
<1> QED BY <1>2, <1>4, <1>5 DEF Opened

\* The rows of a result.
LEMMA RowsAre ==
  ASSUME NEW o \in Results, NEW p \in Paths, NEW why \in Whys, NEW n \in Nat
  PROVE  \E new \in SUBSET (Paths \X Whys \X Nat) :
           /\ new = IF n = 0 THEN {} ELSE {<<p, why, n>>}
           /\ WithRows(o, p, why, n) = [o EXCEPT !.errors = o.errors \cup new]
           /\ WithRows(o, p, why, n) \in Results
<1> DEFINE new == IF n = 0 THEN {} ELSE {<<p, why, n>>}
<1>1. new \in SUBSET (Paths \X Whys \X Nat)
  OBVIOUS
<1>2. o.errors \cup new \in SUBSET (Paths \X Whys \X Nat)
  BY <1>1 DEF Results
<1>3. WithRows(o, p, why, n) = [o EXCEPT !.errors = o.errors \cup new]
  <2>1. CASE n = 0
    <3>1. o.errors \cup new = o.errors
      BY <2>1
    <3>2. [o EXCEPT !.errors = o.errors] = o
      BY DEF Results
    <3> QED BY <2>1, <3>1, <3>2 DEF WithRows
  <2>2. CASE n # 0
    BY <2>2 DEF WithRows
  <2> QED BY <2>1, <2>2
<1> HIDE DEF new
<1>4. [o EXCEPT !.errors = o.errors \cup new] \in Results
  BY <1>2 DEF Results
<1> QED BY <1>1, <1>3, <1>4 DEF new

LEMMA CountedIs ==
  ASSUME NEW o \in Results, NEW action \in Decisions
  PROVE  \E n, m \in 0 .. 1 :
           /\ n = 1 <=> action = "pruned"
           /\ m = 1 <=> action = "depthlimited"
           /\ Counted(o, action) = [o EXCEPT !.pruned = o.pruned + n, !.limited = o.limited + m]
           /\ Counted(o, action) \in Results
<1> DEFINE n == IF action = "pruned" THEN 1 ELSE 0
           m == IF action = "depthlimited" THEN 1 ELSE 0
<1>1. n \in 0 .. 1 /\ m \in 0 .. 1 /\ (n = 1 <=> action = "pruned") /\ (m = 1 <=> action = "depthlimited")
  OBVIOUS
<1>2. Counted(o, action) = [o EXCEPT !.pruned = o.pruned + n, !.limited = o.limited + m]
  BY DEF Counted
<1> HIDE DEF n, m
<1>3. o.pruned + n \in Nat /\ o.limited + m \in Nat
  BY <1>1 DEF Results
<1>4. [o EXCEPT !.pruned = o.pruned + n, !.limited = o.limited + m] \in Results
  BY <1>3 DEF Results
<1> QED BY <1>1, <1>2, <1>4

\* A path put at the end of a list.
LEMMA ListAppend ==
  ASSUME NEW s \in Seq(Paths), NEW p \in Paths
  PROVE  Append(s, p) \in Seq(Paths) /\ ToSet(Append(s, p)) = ToSet(s) \cup {p}
<1> DEFINE t == Append(s, p)
<1>1. /\ t \in Seq(Paths) /\ Len(t) = Len(s) + 1 /\ t[Len(s) + 1] = p /\ Len(s) \in Nat
      /\ \A i \in 1 .. Len(s) : t[i] = s[i]
  BY AppendProperties, LenProperties
<1> HIDE DEF t
<1>2. DOMAIN s = 1 .. Len(s) /\ DOMAIN t = 1 .. Len(s) + 1
  BY <1>1, LenProperties
<1>3. \A i \in 1 .. Len(s) + 1 : i = Len(s) + 1 \/ i \in 1 .. Len(s)
  BY <1>1
<1>4. \A i \in 1 .. Len(s) : i \in 1 .. Len(s) + 1
  BY <1>1
<1>5. Len(s) + 1 \in 1 .. Len(s) + 1
  BY <1>1
<1>6. ToSet(t) = ToSet(s) \cup {p}
  BY <1>1, <1>2, <1>3, <1>4, <1>5 DEF ToSet
<1> QED BY <1>1, <1>6 DEF t

LEMMA ListedIs ==
  ASSUME NEW o \in Results, NEW p \in Paths
  PROVE  \E list \in Seq(Paths) :
           /\ ToSet(list) = ToSet(o.paths) \cup (IF opt.mode = "dirs" THEN {p} ELSE {})
           /\ Listed(o, p) = [o EXCEPT !.count = o.count + 1, !.paths = list]
           /\ Listed(o, p) \in Results
<1> DEFINE list == IF opt.mode = "dirs" THEN Append(o.paths, p) ELSE o.paths
<1>1. o.paths \in Seq(Paths) /\ o.count + 1 \in Nat
  BY DEF Results
<1>2. list \in Seq(Paths) /\ ToSet(list) = ToSet(o.paths) \cup (IF opt.mode = "dirs" THEN {p} ELSE {})
  BY <1>1, ListAppend
<1>3. Listed(o, p) = [o EXCEPT !.count = o.count + 1, !.paths = list]
  BY DEF Listed
<1> HIDE DEF list
<1>4. [o EXCEPT !.count = o.count + 1, !.paths = list] \in Results
  BY <1>1, <1>2 DEF Results
<1> QED BY <1>2, <1>3, <1>4

\* The stack without the directory that is visited next.
LEMMA PoppedIs ==
  ASSUME NEW s \in Seq(Items), s # <<>>
  PROVE  /\ Front(s) \in Seq(Items) /\ Last(s) \in Items /\ Len(s) \in DOMAIN s /\ Last(s) = s[Len(s)]
         /\ DOMAIN Front(s) = DOMAIN s \ {Len(s)}
         /\ \A i \in DOMAIN Front(s) : Front(s)[i] = s[i]
<1> DEFINE f == Front(s)
<1>1. Len(s) \in Nat \ {0} /\ DOMAIN s = 1 .. Len(s)
  BY EmptySeq, LenProperties
<1>2. \A i \in 1 .. Len(s) - 1 : s[i] \in Items
  <2>1. \A i \in 1 .. Len(s) - 1 : i \in 1 .. Len(s)
    BY <1>1
  <2> QED BY <2>1, ElementOfSeq
<1>3. /\ f \in Seq(Items) /\ Len(f) = IF 1 <= Len(s) - 1 THEN Len(s) - 1 - 1 + 1 ELSE 0
      /\ \A i \in 1 .. Len(s) - 1 - 1 + 1 : f[i] = s[1 + i - 1]
  <2>1. Len(s) - 1 \in Int
    BY <1>1
  <2> QED BY <1>2, <2>1, SubSeqProperties DEF Front
<1> HIDE DEF f
<1>4. Len(f) = Len(s) - 1 /\ \A i \in 1 .. Len(s) - 1 : i \in 1 .. Len(s) - 1 - 1 + 1 /\ 1 + i - 1 = i
  <2>1. Len(s) = 1 \/ 1 <= Len(s) - 1
    BY <1>1
  <2>2. Len(f) = Len(s) - 1
    <3>1. CASE Len(s) = 1
      <4>1. ~ (1 <= Len(s) - 1)
        BY <3>1
      <4>2. Len(f) = 0
        BY <1>3, <4>1
      <4> QED BY <3>1, <4>2
    <3>2. CASE 1 <= Len(s) - 1
      <4>1. Len(f) = Len(s) - 1 - 1 + 1
        BY <1>3, <3>2
      <4> QED BY <1>1, <4>1
    <3> QED BY <2>1, <3>1, <3>2
  <2>3. \A i \in 1 .. Len(s) - 1 : i \in 1 .. Len(s) - 1 - 1 + 1 /\ 1 + i - 1 = i
    BY <1>1
  <2> QED BY <2>2, <2>3
<1>5. DOMAIN f = 1 .. Len(s) - 1
  BY <1>3, <1>4, LenProperties
<1>6. 1 .. Len(s) - 1 = (1 .. Len(s)) \ {Len(s)}
  BY <1>1
<1>7. Len(s) \in 1 .. Len(s)
  BY <1>1
<1> QED BY <1>1, <1>3, <1>4, <1>5, <1>6, <1>7, ElementOfSeq DEF f, Last

\* What a listing finds has different names, finitely many.
LEMMA KidsFinite ==
  ASSUME NEW kids \in SUBSET Entry, Distinct(kids)
  PROVE  /\ IsFiniteSet(kids)
         /\ \A kept \in SUBSET kids : IsFiniteSet(kept) /\ Distinct(kept) /\ \A c \in kept : c.name \in Int
<1>1. \A c \in kids : c.name \in 1 .. Width
  BY DEF Entry
<1> DEFINE f == [c \in kids |-> c.name]
<1>2. f \in Injection(kids, 1 .. Width)
  BY <1>1 DEF Injection, IsInjective, Distinct
<1>3. IsFiniteSet(1 .. Width)
  BY SizeAssumption, FS_Interval
<1>4. IsFiniteSet(kids)
  BY <1>2, <1>3, FS_Injection
<1> QED BY <1>1, <1>4, FS_Subset DEF Distinct

\* The names of the directory visited are below it, one path each.
LEMMA ChildIs ==
  ASSUME TypesInv
  PROVE  /\ \A c \in via.kids : /\ c \in Entry /\ Child(c) \in Paths /\ Child(c) # Root
                                /\ Parent(Child(c)) = it.path /\ Last(Child(c)) = c.name
                                /\ Ancestors(Child(c)) = Ancestors(it.path) \cup {it.path}
                                /\ IsStrictPrefix(it.path, Child(c))
         /\ \A c, d \in via.kids : Child(c) = Child(d) => c = d
<1>1. it.path \in Paths /\ via.kids \subseteq Entry
  BY DEF TypesInv, ItemTypes, Handles, Entry
<1>2. ASSUME NEW c \in via.kids
      PROVE  /\ c \in Entry /\ Child(c) \in Paths /\ Child(c) # Root
             /\ Parent(Child(c)) = it.path /\ Last(Child(c)) = c.name
             /\ Ancestors(Child(c)) = Ancestors(it.path) \cup {it.path}
             /\ IsStrictPrefix(it.path, Child(c))
  <2>1. Len(it.path) < MaxDepth
    BY <1>2 DEF TypesInv, ItemTypes
  <2>2. c.name \in 1 .. Width
    BY <1>1 DEF Entry
  <2> QED BY <1>1, <2>1, <2>2, BelowIs, AncestorsAre DEF Child
<1>3. \A c, d \in via.kids : c.name = d.name => c = d
  BY DEF TypesInv, ItemTypes
<1> QED BY <1>2, <1>3

\* The stack with some of them pushed.
LEMMA PushedIs ==
  ASSUME TypesInv, NEW kept \in SUBSET via.kids
  PROVE  LET new == Pushed(kept)
         IN /\ new \in Seq(Items)
            /\ DOMAIN stack \subseteq DOMAIN new
            /\ \A i \in DOMAIN stack : new[i] = stack[i]
            /\ \A i \in DOMAIN new \ DOMAIN stack : \E c \in kept : new[i] = Item(c)
            /\ \A c \in kept : \E i \in DOMAIN new \ DOMAIN stack : new[i] = Item(c)
            /\ \A i, j \in DOMAIN new \ DOMAIN stack : new[i].path = new[j].path => i = j
<1> DEFINE n == Cardinality(kept)
           more == [i \in 1 .. n |-> Item(Nth(kept, i))]
           new == stack \o more
           k == Len(stack)
<1>1. via.kids \in SUBSET Entry /\ Distinct(via.kids)
  BY DEF TypesInv, ItemTypes, Handles, Entry, Distinct
<1>2. IsFiniteSet(kept) /\ Distinct(kept) /\ \A c \in kept : c.name \in Int
  BY <1>1, KidsFinite
<1>3. /\ n \in Nat
      /\ \A i \in 1 .. n : Nth(kept, i) \in kept
      /\ \A c \in kept : \E i \in 1 .. n : Nth(kept, i) = c
      /\ \A i, j \in 1 .. n : Nth(kept, i) = Nth(kept, j) => i = j
  BY <1>2, NthIs DEF Distinct
<1>4. \A c \in kept : Item(c) \in Items /\ Item(c).path = Child(c)
  <2>1. \A c \in kept : Child(c) \in Paths /\ c \in Entry
    BY ChildIs
  <2> QED BY <2>1 DEF Item, Items, Entry
<1> HIDE DEF n
<1>5. more \in Seq(Items) /\ Len(more) = n /\ \A i \in 1 .. n : more[i] = Item(Nth(kept, i))
  <2>1. \A i \in 1 .. n : Item(Nth(kept, i)) \in Items
    BY <1>3, <1>4
  <2>2. more \in [1 .. n -> Items]
    BY <2>1
  <2>3. \A i \in 1 .. n : more[i] = Item(Nth(kept, i))
    OBVIOUS
  <2> HIDE DEF more
  <2>0. n \in Nat
    BY <1>3
  <2>4. more \in Seq(Items)
    <3>1. more \in UNION {[1 .. m -> Items] : m \in Nat}
      BY <2>0, <2>2
    <3> QED BY <3>1, SeqDef, Zenon
  <2>5. Len(more) = n
    BY <1>3, <2>2
  <2> QED BY <2>3, <2>4, <2>5
<1> HIDE DEF more
<1>6. stack \in Seq(Items) /\ k \in Nat /\ DOMAIN stack = 1 .. k
  BY LenProperties DEF TypesInv, ItemTypes
<1>7. /\ new \in Seq(Items) /\ Len(new) = k + n
      /\ \A i \in 1 .. k + n : new[i] = IF i <= k THEN stack[i] ELSE more[i - k]
  BY <1>5, <1>6, ConcatProperties
<1> HIDE DEF new, k
<1>8. DOMAIN new = 1 .. k + n
  BY <1>7, LenProperties
<1>9. DOMAIN stack \subseteq DOMAIN new
  BY <1>3, <1>6, <1>8
<1>10. \A i \in DOMAIN stack : new[i] = stack[i]
  BY <1>3, <1>6, <1>7
<1>11. \A i \in DOMAIN new \ DOMAIN stack : i - k \in 1 .. n /\ new[i] = Item(Nth(kept, i - k)) /\ i \in Int
  BY <1>3, <1>5, <1>6, <1>7, <1>8
<1>12. \A j \in 1 .. n : j + k \in DOMAIN new \ DOMAIN stack /\ (j + k) - k = j
  BY <1>3, <1>6, <1>8
<1>13. \A i \in DOMAIN new \ DOMAIN stack : \E c \in kept : new[i] = Item(c)
  BY <1>3, <1>11
<1>14. ASSUME NEW c \in kept PROVE \E i \in DOMAIN new \ DOMAIN stack : new[i] = Item(c)
  <2>1. PICK j \in 1 .. n : Nth(kept, j) = c
    BY <1>3
  <2>2. j + k \in DOMAIN new \ DOMAIN stack /\ new[j + k] = Item(c)
    BY <1>11, <1>12, <2>1
  <2> QED BY <2>2
<1>15. ASSUME NEW i \in DOMAIN new \ DOMAIN stack, NEW j \in DOMAIN new \ DOMAIN stack,
              new[i].path = new[j].path
       PROVE  i = j
  <2>1. /\ i - k \in 1 .. n /\ new[i] = Item(Nth(kept, i - k)) /\ i \in Int
        /\ j - k \in 1 .. n /\ new[j] = Item(Nth(kept, j - k)) /\ j \in Int
    BY <1>11
  <2>2. Nth(kept, i - k) \in kept /\ Nth(kept, j - k) \in kept
    BY <1>3, <2>1
  <2>3. Child(Nth(kept, i - k)) = Child(Nth(kept, j - k))
    BY <1>4, <1>15, <2>1, <2>2
  <2>4. Nth(kept, i - k) = Nth(kept, j - k)
    BY <2>2, <2>3, ChildIs
  <2>5. i - k = j - k
    BY <1>3, <2>1, <2>4
  <2> QED BY <1>6, <2>1, <2>5
<1>16. new = Pushed(kept)
  BY DEF new, more, n, Pushed
<1> QED BY <1>7, <1>9, <1>10, <1>13, <1>14, <1>15, <1>16

\* What the files of a listing that were not lost add to the result.
NewFiles(es, ls, ms, bs, lost) ==
  /\ \A e \in es : e[2] = "file"
  /\ opt.mode = "dirs" => es = {}
  /\ opt.mode # "dirs" => \A c \in via.kids \ lost :
       /\ c.kind = "flink" => Child(c) \in ls \cup bs
       /\ c.kind = "multi" /\ opt.hardlinks /\ Leads(Child(c)).kind = "multi" =>
            Child(c) \in ms \cup bs \/ <<Child(c), "file", 1>> \in es
FilesInto(o, p, es, ls, ms, bs, lost) ==
  /\ p = [o EXCEPT !.entries = o.entries \cup ls, !.multi = o.multi \cup ms, !.blank = o.blank \cup bs,
                   !.errors = o.errors \cup es]
  /\ p \in Results /\ NewFiles(es, ls, ms, bs, lost)
LEMMA FilesAre ==
  ASSUME TypesInv, NEW o \in Results, NEW lost, NEW unread, NEW unnamed
  PROVE  \E es \in SUBSET (Paths \X Whys \X Nat), ls, ms, bs \in SUBSET Paths :
           FilesInto(o, WithFiles(o, lost, unread, unnamed), es, ls, ms, bs, lost)
<1> DEFINE links == {Child(c) : c \in {c \in Wanted \ lost : c.kind = "flink"}}
           handled == {Child(c) : c \in {c \in Wanted \ lost : c.kind # "flink"}}
           silent == {p \in links \cup handled : p \in unread \/ Leads(p).kind = "none"}
           many == {p \in handled \ silent : Leads(p).kind = "multi"}
           named == links \ unnamed
           several == many \ unnamed
           empty == (links \cup many) \cap unnamed
           unasked == {<<p, "file", 1>> : p \in silent}
           new == [o EXCEPT !.entries = o.entries \cup named, !.multi = o.multi \cup several,
                            !.blank = o.blank \cup empty, !.errors = o.errors \cup unasked]
<1>1. links \subseteq Paths /\ handled \subseteq Paths /\ (opt.mode = "dirs" => links = {} /\ handled = {})
  <2>1. Wanted \subseteq via.kids /\ (opt.mode = "dirs" => Wanted = {})
    BY DEF Wanted
  <2> QED BY <2>1, ChildIs
<1>2. WithFiles(o, lost, unread, unnamed) = new
  BY DEF WithFiles
<1>3. opt.mode # "dirs" => \A c \in via.kids \ lost :
        /\ c.kind = "flink" => Child(c) \in links
        /\ c.kind = "multi" /\ opt.hardlinks => Child(c) \in handled
  BY DEF Wanted, Files
<1> HIDE DEF links, handled
<1>4. opt.mode # "dirs" => \A c \in via.kids \ lost :
        /\ c.kind = "flink" => Child(c) \in named \cup empty
        /\ c.kind = "multi" /\ opt.hardlinks /\ Leads(Child(c)).kind = "multi" =>
             Child(c) \in several \cup empty \/ <<Child(c), "file", 1>> \in unasked
  BY <1>3
<1>5. unasked \subseteq Paths \X Whys \X Nat /\ \A e \in unasked : e[2] = "file"
  BY <1>1 DEF Whys
<1>6. named \subseteq Paths /\ several \subseteq Paths /\ empty \subseteq Paths
      /\ (opt.mode = "dirs" => unasked = {})
  BY <1>1
<1> HIDE DEF silent, unasked, named, many, several, empty
<1>7. new \in Results
  BY <1>5, <1>6 DEF Results
<1>8. unasked \in SUBSET (Paths \X Whys \X Nat) /\ named \in SUBSET Paths
      /\ several \in SUBSET Paths /\ empty \in SUBSET Paths
  BY <1>5, <1>6
<1>9. FilesInto(o, WithFiles(o, lost, unread, unnamed), unasked, named, several, empty, lost)
  BY <1>2, <1>4, <1>5, <1>6, <1>7 DEF FilesInto, NewFiles
<1> QED BY <1>8, <1>9
---------------------------------------------------------------------------
(* Types are kept.                                                            *)

LEMMA TypesInit == WalkInit => TypesInv
<1> SUFFICES ASSUME WalkInit PROVE TypesInv
  OBVIOUS
<1>1. Root \in Paths
  BY PathsAre
<1>2. StateTypes
  <2>1. fs \in [Paths -> Kinds]
    BY TreeAssumption DEF WalkInit, Kinds
  <2> QED BY <2>1 DEF WalkInit, StateTypes, WalkSteps, CanonSteps
<1>3. ItemTypes
  BY <1>1, EmptySeq DEF WalkInit, ItemTypes, NoItem, NoVia, Handles, Kinds, Folders, Decisions
<1>4. OutTypes
  <2>1. NoResult \in Results
    BY EmptySeq DEF NoResult, Results, Codes
  <2>2. NoResult.code = "none"
    BY DEF NoResult
  <2> QED BY <2>1, <2>2 DEF WalkInit, OutTypes
<1> QED BY <1>2, <1>3, <1>4 DEF TypesInv

\* A step of the command changes nothing outside of it; at most one call fails.
Quiet == UNCHANGED <<fs, swaps, opt>> /\ (faults' = faults \/ faults' = faults + 1)

\* From where to where each step goes.
LEMMA WalkMoves ==
  /\ Prefix => at = "start" /\ at' \in {"done", "canon", "root"} /\ Quiet
       /\ (at' = "canon" => opt.mode = "canon") /\ (at' = "root" => opt.mode # "canon")
  /\ RootOpen => at = "root" /\ at' \in {"done", "classify"} /\ Quiet
  /\ RootClassify => at = "classify" /\ at' = "pop" /\ Quiet
  /\ Pop => at = "pop" /\ at' \in {"open", "row"} /\ Quiet
  /\ OpenDir => at = "open" /\ at' \in {"check", "list", "row"} /\ Quiet
  /\ Check => at = "check" /\ at' \in {"row", "reopen", "list"} /\ Quiet
  /\ Reopen => at = "reopen" /\ at' \in {"list", "row"} /\ Quiet
  /\ List => at = "list" /\ at' = "row" /\ Quiet
  /\ Row => at = "row" /\ at' = "pop" /\ Quiet
  /\ Finish => at = "pop" /\ at' = "done" /\ Quiet
  /\ CanonOpen => at = "canon" /\ at' \in {"identify", "raw"} /\ Quiet
  /\ CanonRaw => at = "raw" /\ at' = "done" /\ Quiet
  /\ CanonIdentify => at = "identify" /\ at' = "done" /\ Quiet
<1> USE DEF Step, Quiet, Fails
<1>0. \A from, code : Answer(from, code) => at = from /\ at' = "done" /\ Quiet
  BY DEF Answer
<1>a. \A from, follow, to : Opening(from, follow, to) => at = from /\ at' \in {to, "row"} /\ Quiet
  BY DEF Opening, Failed
<1>1. Prefix => at = "start" /\ at' \in {"done", "canon", "root"} /\ Quiet
       /\ (at' = "canon" => opt.mode = "canon") /\ (at' = "root" => opt.mode # "canon")
  BY <1>0 DEF Prefix
<1>2. RootOpen => at = "root" /\ at' \in {"done", "classify"} /\ Quiet
  BY <1>0 DEF RootOpen
<1>3. RootClassify => at = "classify" /\ at' = "pop" /\ Quiet
  BY DEF RootClassify
<1>4. Pop => at = "pop" /\ at' \in {"open", "row"} /\ Quiet
  BY DEF Pop
<1>5. OpenDir => at = "open" /\ at' \in {"check", "list", "row"} /\ Quiet
  BY <1>a DEF OpenDir
<1>6. Check => at = "check" /\ at' \in {"row", "reopen", "list"} /\ Quiet
  BY DEF Check
<1>7. Reopen => at = "reopen" /\ at' \in {"list", "row"} /\ Quiet
  BY <1>a DEF Reopen
<1>8. List => at = "list" /\ at' = "row" /\ Quiet
  <2> SUFFICES ASSUME List PROVE at = "list" /\ at' = "row" /\ Quiet
    OBVIOUS
  <2>1. Step("list", "row")
    BY DEF List
  <2>2. /\ \A lost, why : Lost(lost, why) => faults' = faults \/ faults' = faults + 1
        /\ \A c : Unclear(c) => faults' = faults \/ faults' = faults + 1
    BY DEF Lost, Unclear
  <2>3. faults' = faults \/ faults' = faults + 1
    BY <2>2 DEF List
  <2> QED BY <2>1, <2>3
<1>9. Row => at = "row" /\ at' = "pop" /\ Quiet
  BY DEF Row
<1>10. Finish => at = "pop" /\ at' = "done" /\ Quiet
  BY <1>0 DEF Finish
<1>11. CanonOpen => at = "canon" /\ at' \in {"identify", "raw"} /\ Quiet
  BY DEF CanonOpen
<1>12. CanonRaw => at = "raw" /\ at' = "done" /\ Quiet
  BY <1>0 DEF CanonRaw
<1>13. CanonIdentify => at = "identify" /\ at' = "done" /\ Quiet
  BY <1>0 DEF CanonIdentify
<1> QED BY <1>1, <1>2, <1>3, <1>4, <1>5, <1>6, <1>7, <1>8, <1>9, <1>10, <1>11, <1>12, <1>13, Zenon

LEMMA StateTypesStep == ASSUME TypesInv, WalkNext PROVE StateTypes'
<1> USE DEF StateTypes, WalkSteps, CanonSteps
<1>0. StateTypes /\ \A p \in Paths : fs[p] \in Kinds
  BY DEF TypesInv
<1>1. CASE ~ Swap
  <2>1. /\ Quiet
        /\ \/ at = "start" /\ at' \in {"done", "canon", "root"}
              /\ (at' = "canon" => opt.mode = "canon") /\ (at' = "root" => opt.mode # "canon")
           \/ at \in WalkSteps /\ at' \in WalkSteps \cup {"done"}
           \/ at \in CanonSteps /\ at' \in CanonSteps \cup {"done"}
    BY <1>1, WalkMoves, SMTT(60) DEF WalkNext
  <2>2. faults' \in Nat
    BY <1>0, <2>1 DEF Quiet
  <2>3. fs' = fs /\ swaps' = swaps /\ opt' = opt
    BY <2>1 DEF Quiet
  <2> QED BY <1>0, <2>1, <2>2, <2>3
<1>2. CASE Swap
  <2>1. PICK p \in Paths, k \in {"none", "file", "dir", "junction", "broken"} :
          /\ swaps' = swaps \cup {<<p, fs[p]>>}
          /\ fs' = [q \in Paths |-> IF q = p THEN k ELSE IF IsStrictPrefix(p, q) THEN "none" ELSE fs[q]]
    BY <1>2 DEF Swap
  <2>2. k \in Kinds /\ "none" \in Kinds
    BY DEF Kinds, Folders, Files
  <2>3. fs' \in [Paths -> Kinds] /\ swaps' \subseteq Paths \X Kinds
    BY <1>0, <2>1, <2>2
  <2> QED BY <1>0, <1>2, <2>3 DEF Swap
<1> QED BY <1>1, <1>2

LEMMA ItemTypesStep == ASSUME TypesInv, WalkNext PROVE ItemTypes'
<1> USE DEF ItemTypes
<1>0. /\ ItemTypes /\ \A p \in Paths : fs[p] \in Kinds
      /\ fs \in [Paths -> Kinds] /\ it.path \in Paths /\ Root \in Paths
      /\ GoodHandle(NoVia, it.path) /\ it.seen \in Kinds
  BY OpenedIs, PathsAre DEF TypesInv, StateTypes
<1>a. ASSUME UNCHANGED <<stack, it, via>>, (at' \notin {"check", "list"} /\ via = NoVia) \/ UNCHANGED at
      PROVE  ItemTypes'
  BY <1>0, <1>a
<1>b. at \notin {"check", "list"} => via = NoVia
  BY <1>0
<1>c. ASSUME stack' \in Seq(Items), it' \in [path : Paths, seen : Kinds, action : Decisions], via' = NoVia
      PROVE  ItemTypes'
  BY <1>0, <1>c DEF GoodHandle, NoVia, Distinct
<1>d. ASSUME UNCHANGED <<stack, it>>, at' \in {"check", "list"}, GoodHandle(via', it.path)
      PROVE  ItemTypes'
  BY <1>0, <1>d DEF GoodHandle, Distinct
<1>e. \A s \in Seq(Items) : s # <<>> => Last(s) \in Items /\ Front(s) \in Seq(Items)
  BY PoppedIs
<1>f. ASSUME NEW k \in Kinds, NEW a \in Decisions
      PROVE  /\ [it EXCEPT !.action = a] \in [path : Paths, seen : Kinds, action : Decisions]
             /\ [it EXCEPT !.seen = k, !.action = a] \in [path : Paths, seen : Kinds, action : Decisions]
             /\ [it EXCEPT !.seen = k] \in [path : Paths, seen : Kinds, action : Decisions]
  BY <1>0
<1>g. {"failed", "nofollow", "missing", "denied", "unreadable"} \subseteq Decisions
  BY DEF Decisions
<1>1. CASE Prefix
  BY <1>1, <1>a, <1>b, WalkMoves DEF Prefix, Answer
<1>2. CASE RootOpen
  <2>1. UNCHANGED <<stack, it, via>>
    BY <1>2 DEF RootOpen, Answer
  <2> QED BY <1>2, <1>a, <1>b, <2>1, WalkMoves
<1>3. CASE RootClassify
  <2>1. ASSUME NEW b \in BOOLEAN
        PROVE  [path |-> Root, seen |-> RootSeen(b), pruned |-> FALSE] \in Items
    BY <1>0 DEF RootSeen, Items, Kinds, Folders
  <2>2. stack' \in Seq(Items)
    <3>1. PICK b \in BOOLEAN : stack' = <<[path |-> Root, seen |-> RootSeen(b), pruned |-> FALSE]>>
      BY <1>3 DEF RootClassify
    <3> QED BY <2>1, <3>1
  <2>3. UNCHANGED <<it, via>>
    BY <1>3 DEF RootClassify
  <2> QED BY <1>0, <1>3, <1>b, <1>c, <2>2, <2>3, WalkMoves
<1>4. CASE Pop
  <2>1. stack # <<>> /\ Last(stack) \in Items /\ stack' = Front(stack) /\ stack' \in Seq(Items)
    BY <1>0, <1>4, <1>e DEF Pop
  <2>2. it' = [path |-> Last(stack).path, seen |-> Last(stack).seen, action |-> Policy(Last(stack))] /\ via' = via
    BY <1>4 DEF Pop
  <2>3. Policy(Last(stack)) \in Decisions
    BY DEF Policy, Decisions
  <2>4. it' \in [path : Paths, seen : Kinds, action : Decisions]
    BY <2>1, <2>2, <2>3 DEF Items
  <2> QED BY <1>4, <1>b, <1>c, <2>1, <2>2, <2>4, WalkMoves
<1>5. ASSUME NEW from, NEW follow \in BOOLEAN, NEW to \in {"check", "list"}, Opening(from, follow, to)
      PROVE  ItemTypes'
  <2>1. CASE /\ Step(from, to) /\ via' = Opened(it.path, follow) /\ UNCHANGED <<faults, it, out>>
    BY <1>0, <1>5, <1>d, <2>1, OpenedIs DEF Opening, Step
  <2>2. ASSUME NEW why, Failed(why) PROVE ItemTypes'
    BY <1>0, <1>5, <1>c, <1>f, <1>g, <2>2 DEF Opening, Failed
  <2> QED BY <1>5, <2>1, <2>2 DEF Opening
<1>6. CASE OpenDir \/ Reopen
  BY <1>5, <1>6 DEF OpenDir, Reopen
<1>7. CASE Check
  <2>1. UNCHANGED stack /\ via.kind \in Kinds
    BY <1>0, <1>7 DEF Check, Handles
  <2>2. CASE via' = NoVia
    <3>1. it' = [it EXCEPT !.seen = via.kind, !.action = "nofollow"] \/ it' = [it EXCEPT !.seen = via.kind] \/ it' = it
      BY <1>7 DEF Check
    <3> QED BY <1>0, <1>c, <1>f, <1>g, <2>1, <2>2, <3>1
  <2>3. CASE UNCHANGED <<it, via>> /\ at' = "list"
    BY <1>0, <1>7, <2>1, <2>3, WalkMoves
  <2> QED BY <1>7, <2>2, <2>3 DEF Check, Step
<1>8. CASE List
  <2>1. via' = NoVia
    BY <1>8 DEF List, Failed
  <2>2. it' = it \/ it' = [it EXCEPT !.action = "failed"]
    BY <1>8 DEF List, Failed
  <2>3. stack' = stack \/ \E kept \in SUBSET via.kids : stack' = Pushed(kept)
    <3>1. Subfolders \subseteq via.kids
      BY DEF Subfolders
    <3>2. /\ \A lost, why : Lost(lost, why) => stack' = Pushed(Subfolders \ lost)
          /\ \A c : Unclear(c) => stack' = Pushed(Subfolders)
      BY DEF Lost, Unclear
    <3> QED BY <1>8, <3>1, <3>2 DEF List
  <2>4. stack' \in Seq(Items)
    BY <1>0, <2>3, PushedIs
  <2> QED BY <1>0, <1>c, <1>f, <1>g, <2>1, <2>2, <2>4
<1>9. CASE Row
  BY <1>9, <1>a, <1>b, WalkMoves DEF Row
<1>10. CASE Finish
  BY <1>10, <1>a, <1>b, WalkMoves DEF Finish, Answer
<1>11. CASE CanonOpen
  <2>1. UNCHANGED <<stack, via>> /\ via = NoVia
    BY <1>11, <1>b, WalkMoves DEF CanonOpen
  <2>2. it' = it \/ \E why \in {"missing", "denied", "unreadable"} : it' = [it EXCEPT !.action = why]
    BY <1>11 DEF CanonOpen
  <2> QED BY <1>0, <1>c, <1>f, <1>g, <2>1, <2>2
<1>12. CASE CanonRaw
  BY <1>12, <1>a, <1>b, WalkMoves DEF CanonRaw, Answer
<1>13. CASE CanonIdentify
  BY <1>13, <1>a, <1>b, WalkMoves DEF CanonIdentify, Answer
<1>14. CASE Swap
  BY <1>14, <1>a DEF Swap
<1> QED BY <1>1, <1>2, <1>3, <1>4, <1>6, <1>7, <1>8, <1>9, <1>10, <1>11, <1>12, <1>13, <1>14
        DEF WalkNext

LEMMA OutTypesStep == ASSUME TypesInv, WalkNext PROVE OutTypes'
<1> USE DEF OutTypes
<1>0. /\ OutTypes /\ out \in Results /\ it.path \in Paths /\ Root \in Paths
      /\ it.action \in Decisions /\ it.seen \in Kinds
  BY PathsAre DEF TypesInv, ItemTypes
<1>a. ASSUME UNCHANGED <<got, out>>, at' # "done"
      PROVE  OutTypes'
  <2>1. CASE at = "done"
    BY <2>1, <1>a, WalkMoves DEF WalkNext, Swap
  <2>2. CASE at # "done"
    BY <1>0, <1>a, <2>2
  <2> QED BY <2>1, <2>2
<1>b. ASSUME got' \subseteq Paths \X {"in", "out"}, out' \in Results, out'.code = out.code, at # "done"
      PROVE  OutTypes'
  BY <1>0, <1>b
<1>c. ASSUME NEW from, NEW code \in Codes, Answer(from, code) PROVE OutTypes'
  <2>1. out' = [out EXCEPT !.code = code] /\ got' = got /\ at' = "done"
    BY <1>c DEF Answer, Step
  <2> QED BY <1>0, <2>1 DEF Results
<1>d. ASSUME NEW n \in Nat, NEW p \in Paths, NEW why \in Whys, NEW o \in Results
      PROVE  WithRows(o, p, why, n) \in Results /\ WithRows(o, p, why, n).code = o.code
  BY RowsAre DEF Results
<1>e. {"ok", "badvalue", "notfound", "dangling", "oserror"} \subseteq Codes
  BY DEF Codes
<1>f. {"classify", "name", "open", "list", "lost", "cut", "file", "type", "target"} \subseteq Whys /\ 1 \in Nat
  BY DEF Whys
<1>1. CASE Prefix
  <2>1. CASE Answer("start", "badvalue")
    BY <1>c, <1>e, <2>1
  <2>2. CASE ~ Answer("start", "badvalue")
    BY <1>1, <1>a, <2>2 DEF Prefix, Step
  <2> QED BY <2>1, <2>2
<1>2. CASE RootOpen
  <2>1. CASE Opened(Root, TRUE).kind # "dir" /\ Answer("root", "notfound")
    BY <1>c, <1>e, <2>1
  <2>2. CASE at' = "classify"
    BY <1>2, <1>a, <2>2 DEF RootOpen, Answer, Step
  <2>3. CASE at' = "done" /\ out' = [out EXCEPT !.code = "notfound"]
    <3>1. got' = got
      BY <1>2 DEF RootOpen, Answer
    <3> QED BY <1>0, <1>e, <2>3, <3>1 DEF Results
  <2> QED BY <1>2, <2>1, <2>2, <2>3, WalkMoves DEF RootOpen, Step
<1>3. CASE RootClassify
  <2>1. got' = got /\ (out' = out \/ out' = WithRows(out, Root, "classify", 1))
    BY <1>3 DEF RootClassify
  <2> QED BY <1>0, <1>3, <1>b, <1>d, <1>f, <2>1, WalkMoves
<1>4. CASE Pop
  <2>1. Last(stack).path \in Paths
    BY <1>4, PoppedIs DEF Pop, TypesInv, ItemTypes, Items
  <2> DEFINE p == Last(stack).path  a == Policy(Last(stack))
  <2>2. got' = got /\ (out' = Counted(Listed(out, p), a) \/ out' = Counted(WithRows(out, p, "name", 1), a))
    BY <1>4 DEF Pop
  <2>3. a \in Decisions
    BY DEF Policy, Decisions
  <2> HIDE DEF p, a
  <2>4. \A o \in Results : Counted(o, a) \in Results /\ Counted(o, a).code = o.code
    <3> TAKE o \in Results
    <3>1. PICK n, m \in 0 .. 1 :
            /\ n = 1 <=> a = "pruned"
            /\ m = 1 <=> a = "depthlimited"
            /\ Counted(o, a) = [o EXCEPT !.pruned = o.pruned + n, !.limited = o.limited + m]
            /\ Counted(o, a) \in Results
      BY <2>3, CountedIs, Zenon
    <3> QED BY <3>1 DEF Results, FilesInto
  <2>5. Listed(out, p) \in Results /\ Listed(out, p).code = out.code
    <3>1. p \in Paths
      BY <2>1 DEF p
    <3>2. PICK list \in Seq(Paths) : /\ Listed(out, p) = [out EXCEPT !.count = out.count + 1, !.paths = list]
                                     /\ Listed(out, p) \in Results
      BY <1>0, <3>1, ListedIs
    <3> QED BY <1>0, <3>2 DEF Results
  <2>6. WithRows(out, p, "name", 1) \in Results /\ WithRows(out, p, "name", 1).code = out.code
    BY <1>0, <1>d, <1>f, <2>1 DEF p
  <2>7. out' \in Results /\ out'.code = out.code
    BY <2>2, <2>4, <2>5, <2>6
  <2> QED BY <1>0, <1>4, <1>b, <2>2, <2>7, WalkMoves
<1>5. ASSUME NEW from \in WalkSteps, NEW follow, NEW to, Opening(from, follow, to)
      PROVE  OutTypes'
  <2>1. got' = got /\ at = from /\ (out' = out \/ out' = WithRows(out, it.path, "open", 1))
    BY <1>5 DEF Opening, Failed, Step
  <2> QED BY <1>0, <1>b, <1>d, <1>f, <1>5, <2>1 DEF WalkSteps
<1>6. CASE OpenDir \/ Reopen
  BY <1>5, <1>6 DEF OpenDir, Reopen, WalkSteps
<1>7. CASE Check
  BY <1>0, <1>7, <1>a, WalkMoves DEF Check
<1>8. CASE List
  <2>1. at = "list" /\ got' \subseteq Paths \X {"in", "out"}
    <3>1. via.where \in {"in", "out"}
      BY DEF TypesInv, ItemTypes, Handles
    <3>2. got' = got \/ got' = got \cup {<<it.path, via.where>>}
      BY <1>8 DEF List
    <3> QED BY <1>0, <1>8, <3>1, <3>2, WalkMoves
  <2>2. \A o \in Results : \A l, u, n : WithFiles(o, l, u, n) \in Results /\ WithFiles(o, l, u, n).code = o.code
    <3> TAKE o \in Results
    <3> TAKE l, u, n
    <3>1. PICK es \in SUBSET (Paths \X Whys \X Nat), ls, ms, bs \in SUBSET Paths :
            FilesInto(o, WithFiles(o, l, u, n), es, ls, ms, bs, l)
      BY FilesAre
    <3> QED BY <3>1 DEF Results, FilesInto
  <2>3. CASE Failed("list")
    <3>1. out' = WithRows(out, it.path, "list", 1)
      BY <2>3 DEF Failed
    <3>2. out' \in Results /\ out'.code = out.code
      BY <1>0, <1>d, <1>f, <3>1
    <3> QED BY <1>b, <2>1, <3>2
  <2>4. ASSUME NEW lost \in SUBSET via.kids, NEW why \in {"lost", "cut"}, Lost(lost, why) PROVE OutTypes'
    <3> DEFINE n == IF why = "cut" THEN 1 ELSE RowsFor(lost)
    <3>1. n \in Nat
      <4>1. via.kids \in SUBSET Entry /\ Distinct(via.kids)
        BY DEF TypesInv, ItemTypes, Handles, Entry, Distinct
      <4>2. IsFiniteSet(lost)
        BY <4>1, KidsFinite
      <4> QED BY <4>2, FS_CardinalityType DEF RowsFor
    <3>2. out' = WithFiles(WithRows(out, it.path, why, n), lost, {}, {})
      BY <2>4 DEF Lost
    <3> HIDE DEF n
    <3> QED BY <1>0, <1>b, <1>d, <1>f, <2>1, <2>2, <3>1, <3>2
  <2>5. ASSUME NEW c, Unclear(c) PROVE OutTypes'
    <3>1. \E u, n : out' = WithFiles(out, {}, u, n)
      BY <2>5 DEF Unclear
    <3> QED BY <1>0, <1>b, <2>1, <2>2, <3>1
  <2> QED BY <1>8, <2>3, <2>4, <2>5 DEF List
<1>9. CASE Row
  <2>1. got' = got
    BY <1>9 DEF Row
  <2>2. CASE it.seen \notin Reparse
    BY <1>0, <1>9, <1>b, <2>1, <2>2, WalkMoves DEF Row
  <2>3. CASE it.seen \in Reparse
    <3>0. PICK why \in {"", "type", "target"} :
            out' = [out EXCEPT !.links = @ \cup {<<it.path, it.seen, Action(it)>>},
               !.entries = IF LinkRow THEN @ \cup {it.path} ELSE @,
               !.errors = IF why = "" THEN @ ELSE @ \cup {<<it.path, why, 1>>},
               !.entered = IF opt.mode = "links" /\ ~LinkRow /\ it.action = "descended"
                           THEN @ \cup {it.path} ELSE @]
      BY <1>9, <2>3 DEF Row
    <3> DEFINE l == out.links \cup {<<it.path, it.seen, Action(it)>>}
               en == IF LinkRow THEN out.entries \cup {it.path} ELSE out.entries
               er == IF why = "" THEN out.errors ELSE out.errors \cup {<<it.path, why, 1>>}
               ed == IF opt.mode = "links" /\ ~LinkRow /\ it.action = "descended"
                     THEN out.entered \cup {it.path} ELSE out.entered
    <3>1. out' = [out EXCEPT !.links = l, !.entries = en, !.errors = er, !.entered = ed]
      BY <3>0
    <3>a. out.links \in SUBSET (Paths \X Kinds \X Decisions) /\ out.errors \in SUBSET (Paths \X Whys \X Nat)
      BY <1>0 DEF Results
    <3>2. l \in SUBSET (Paths \X Kinds \X Decisions)
      <4>1. <<it.path, it.seen, Action(it)>> \in Paths \X Kinds \X Decisions
        BY <1>0 DEF Action
      <4> QED BY <3>a, <4>1
    <3>3. en \in SUBSET Paths /\ ed \in SUBSET Paths
      BY <1>0 DEF Results
    <3>4. er \in SUBSET (Paths \X Whys \X Nat)
      <4>1. why # "" => <<it.path, why, 1>> \in Paths \X Whys \X Nat
        BY <1>0, <1>f
      <4> QED BY <3>a, <4>1
    <3> HIDE DEF l, en, er, ed
    <3>5. out' \in Results /\ out'.code = out.code
      BY <1>0, <3>1, <3>2, <3>3, <3>4 DEF Results
    <3> QED BY <1>0, <1>9, <1>b, <2>1, <3>5, WalkMoves
  <2> QED BY <2>2, <2>3
<1>10. CASE Finish
  BY <1>10, <1>c, <1>e DEF Finish
<1>11. CASE CanonOpen
  BY <1>11, <1>a, WalkMoves DEF CanonOpen
<1>12. CASE CanonRaw
  <2>1. CanonCode \in Codes /\ "dangling" \in Codes
    BY <1>e DEF CanonCode
  <2>2. ASSUME NEW code \in Codes, Answer("raw", code) PROVE OutTypes'
    BY <1>c, <2>2
  <2>3. CASE out' = [out EXCEPT !.code = CanonCode] /\ at' = "done" /\ got' = got
    BY <1>0, <2>1, <2>3 DEF Results
  <2> QED BY <1>12, <2>1, <2>2, <2>3 DEF CanonRaw, Step
<1>13. CASE CanonIdentify
  <2>1. CASE Answer("identify", "ok")
    BY <1>c, <1>e, <2>1
  <2>2. CASE out' = [out EXCEPT !.code = "oserror"] /\ at' = "done"
    <3>1. got' = got
      BY <1>13 DEF CanonIdentify, Answer
    <3> QED BY <1>0, <1>e, <2>2, <3>1 DEF Results
  <2> QED BY <1>13, <2>1, <2>2 DEF CanonIdentify, Step
<1>14. CASE Swap
  BY <1>0, <1>14, <1>a DEF Swap
<1> QED BY <1>1, <1>2, <1>3, <1>4, <1>6, <1>7, <1>8, <1>9, <1>10, <1>11, <1>12, <1>13, <1>14
        DEF WalkNext

LEMMA TypesStep == ASSUME TypesInv, [WalkNext]_walkVars PROVE TypesInv'
<1>1. CASE WalkNext
  BY <1>1, StateTypesStep, ItemTypesStep, OutTypesStep DEF TypesInv
<1>2. CASE UNCHANGED walkVars
  <2>1. UNCHANGED Results
    OBVIOUS
  <2> QED BY <1>2, <2>1 DEF walkVars, TypesInv, StateTypes, ItemTypes, OutTypes
<1> QED BY <1>1, <1>2
---------------------------------------------------------------------------
(* The walk leaves the tree only through a name that was replaced.             *)

\* What depends on the file system and its changes only.
LEMMA QuietKeeps ==
  ASSUME Quiet
  PROVE  \A p : /\ Moved(p)' <=> Moved(p)
                /\ Chain(p)' <=> Chain(p)
                /\ Above(p)' <=> Above(p)
                /\ Filtered(p)' <=> Filtered(p)
                /\ Cause(p)' <=> Cause(p)
                /\ Leads(p)' = Leads(p)
<1>1. fs' = fs /\ swaps' = swaps
  BY DEF Quiet
<1>2. \A p : (Moved(p)' <=> Moved(p)) /\ (Above(p)' <=> Above(p))
  BY <1>1 DEF Moved, Above
<1>3. \A p : Chain(p)' <=> Chain(p)
  BY <1>1 DEF Chain, Moved
<1>4. \A p : Filtered(p)' <=> Filtered(p)
  BY <1>1 DEF Filtered, Above
<1>5. \A p : Cause(p)' <=> Cause(p)
  BY <1>1 DEF Cause, Above
<1>6. \A p : Leads(p)' = Leads(p)
  BY <1>1 DEF Leads, Outside, Kids
<1> QED BY <1>2, <1>3, <1>4, <1>5, <1>6

\* A name that was moved moves what is below it.
LEMMA MovedBelow ==
  ASSUME TypesInv, NEW p \in Paths, NEW q \in Paths
  PROVE  /\ Moved(p) /\ IsPrefix(p, q) => Moved(q)
         /\ Moved(p) /\ IsStrictPrefix(p, q) => Above(q)
         /\ Above(p) => Moved(p)
         /\ Above(p) /\ IsPrefix(p, q) => Above(q)
<1>1. \A s \in swaps : s[1] \in Paths
  BY DEF TypesInv, StateTypes
<1>2. \A s \in swaps : /\ IsPrefix(s[1], p) /\ IsPrefix(p, q) => IsPrefix(s[1], q)
                       /\ IsPrefix(s[1], p) /\ IsStrictPrefix(p, q) => IsStrictPrefix(s[1], q)
                       /\ IsStrictPrefix(s[1], p) => IsPrefix(s[1], p)
                       /\ IsStrictPrefix(s[1], p) /\ IsPrefix(p, q) => IsStrictPrefix(s[1], q)
  BY <1>1, PrefixOrder DEF IsStrictPrefix
<1> QED BY <1>2 DEF Moved, Above

\* Where a path leads whose chain is accounted for.
LEMMA LeadsIs ==
  ASSUME TypesInv, NEW p \in Paths, Chain(p)
  PROVE  /\ Leads(p).where = "out" => Above(p)
         /\ Leads(p).kind = "cloud" => fs[p] = "cloud"
         /\ Leads(p).where = "out" => Leads(p).kind = "dir"
         /\ Leads(p).where = "in" => Leads(p).kind = fs[p]
         /\ Leads(p).where = "in" /\ Leads(p).kids # {} => fs[p] \in {"dir", "cloud"}
         /\ Leads(p).where \in {"in", "out"}
<1>1. CASE \E q \in Ancestors(p) : q # Root /\ fs[q] \in {"junction", "alias"}
  <2>1. PICK q \in Ancestors(p) : Moved(q)
    BY <1>1 DEF Chain
  <2>2. q \in Paths /\ IsStrictPrefix(q, p)
    BY <2>1, AncestorsAre
  <2>3. Above(p)
    BY <2>1, <2>2, MovedBelow
  <2> QED BY <1>1, <2>3 DEF Leads, Outside
<1>2. CASE ~ \E q \in Ancestors(p) : q # Root /\ fs[q] \in {"junction", "alias"}
  BY <1>2 DEF Leads
<1> QED BY <1>1, <1>2

LEMMA EscapeInit == WalkInit => EscapeInv
<1>1. Ancestors(Root) = {}
  BY AncestorsAre
<1> QED BY <1>1 DEF WalkInit, EscapeInv, Chain, NoItem, NoVia

LEMMA EscapeStep == ASSUME TypesInv, EscapeInv, WalkNext PROVE EscapeInv'
<1>0. /\ it.path \in Paths /\ Root \in Paths /\ (at \notin {"check", "list"} => via = NoVia)
      /\ fs \in [Paths -> Kinds] /\ stack \in Seq(Items)
  BY PathsAre DEF TypesInv, StateTypes, ItemTypes
<1>a. ASSUME Quiet, stack' = stack, it'.path = it.path, via' = via, got' = got,
             at' \notin {"check", "reopen", "list"}
      PROVE  EscapeInv'
  BY <1>a DEF EscapeInv, Chain, Moved, Above, Filtered, Cause, Quiet
<1>f. \A a, k : /\ [it EXCEPT !.action = a].path = it.path /\ [it EXCEPT !.seen = k].path = it.path
                /\ [it EXCEPT !.seen = k, !.action = a].path = it.path
  BY DEF TypesInv, ItemTypes
<1>g. \A i \in DOMAIN stack : stack[i] \in Items /\ stack[i].path \in Paths
  <2>1. \A i \in DOMAIN stack : stack[i] \in Items
    BY <1>0, LenProperties, ElementOfSeq
  <2> QED BY <2>1 DEF Items
<1>h. Leads(it.path) \in Handles /\ Leads(Root) \in Handles
  BY <1>0, OpenedIs DEF GoodHandle
<1>i. ASSUME NEW v \in Handles, NEW q
      PROVE  /\ Follow(v, Root).where = "out" => v.where = "out"
             /\ \/ Follow(v, q) = NoVia \/ (Follow(v, q) = Outside(q) /\ v.kind \in {"junction", "alias"})
                \/ q = Root \/ (Follow(v, q).where = v.where /\ Follow(v, q).kids = v.kids)
  <2>1. CASE v.kind \in {"junction", "alias"}
    BY <2>1 DEF Follow, Outside
  <2>2. CASE v.kind = "cloud"
    <3>1. Follow(v, q) = [v EXCEPT !.kind = "dir"] /\ Follow(v, Root) = [v EXCEPT !.kind = "dir"]
      BY <2>2 DEF Follow
    <3>2. [v EXCEPT !.kind = "dir"].where = v.where /\ [v EXCEPT !.kind = "dir"].kids = v.kids
      BY DEF Handles
    <3> QED BY <3>1, <3>2
  <2>3. CASE v.kind = "broken"
    BY <2>3 DEF Follow, NoVia
  <2>4. CASE v.kind \notin {"junction", "alias", "cloud", "broken"}
    BY <2>4 DEF Follow
  <2> QED BY <2>1, <2>2, <2>3, <2>4
<1>b. NoVia.kids = {} /\ NoVia.where = "in" /\ NoVia.kind = "none"
  BY DEF NoVia
<1>1. CASE Prefix
  BY <1>1, <1>a, WalkMoves DEF Prefix, Answer
<1>2. CASE RootOpen
  BY <1>2, <1>a, WalkMoves DEF RootOpen, Answer
<1>3. CASE RootClassify
  <2>0. PICK b \in BOOLEAN : stack' = <<[path |-> Root, seen |-> RootSeen(b), pruned |-> FALSE]>>
    BY <1>3 DEF RootClassify
  <2>1. Quiet /\ at' = "pop" /\ it' = it /\ via' = via /\ got' = got
    BY <1>3, WalkMoves DEF RootClassify
  <2>2. \A i \in DOMAIN stack' : stack'[i].path = Root
    BY <2>0
  <2>4. \A i \in DOMAIN stack' : Chain(stack[i].path)'
    BY <2>2, AncestorsAre DEF Chain
  <2> QED BY <1>b, <2>1, <2>4 DEF EscapeInv, Chain, Moved, Above, Cause, Quiet
<1>4. CASE Pop
  <2>1. /\ Quiet /\ at' \in {"open", "row"} /\ via' = via /\ got' = got
        /\ stack # <<>> /\ stack' = Front(stack) /\ it'.path = Last(stack).path /\ via = NoVia
    BY <1>0, <1>4, WalkMoves DEF Pop
  <2>2. Chain(it'.path) /\ \A i \in DOMAIN stack' : Chain(stack'[i].path)
    <3>1. /\ Len(stack) \in DOMAIN stack /\ Last(stack) = stack[Len(stack)]
          /\ DOMAIN stack' = DOMAIN stack \ {Len(stack)}
          /\ \A i \in DOMAIN stack' : stack'[i] = stack[i]
      BY <1>0, <2>1, PoppedIs
    <3> QED BY <2>1, <3>1 DEF EscapeInv
  <2>3. Chain(it.path)' /\ \A i \in DOMAIN stack' : Chain(stack[i].path)'
    BY <2>1, <2>2 DEF Chain, Moved, Quiet
  <2> QED BY <1>b, <2>1, <2>3 DEF EscapeInv, Above, Cause, Moved, Quiet
<1>5. ASSUME NEW follow, NEW to \in {"check", "list"}, NEW from, Opening(from, follow, to),
             Quiet, at' \in {to, "row"},
             /\ via'.kids # {} /\ it.path # Root /\ fs[it.path] \in {"junction", "alias"} => Moved(it.path)
             /\ to = "check" => /\ via'.kind = "cloud" => Filtered(it.path)
                                /\ via'.where = "out" => Above(it.path)
                                /\ it.path # Root
             /\ to = "list" /\ via'.where = "out" => Cause(it.path)
      PROVE  EscapeInv'
  <2>1. stack' = stack /\ it'.path = it.path /\ got' = got
    BY <1>5, <1>f DEF Opening, Failed
  <2>2. via' = NoVia \/ at' = to
    BY <1>5 DEF Opening, Failed, Step
  <2>3. CASE at' = "row"
    BY <1>5, <2>1, <2>3 DEF EscapeInv, Chain, Moved, Above, Filtered, Cause, Quiet
  <2>4. CASE at' = to
    BY <1>5, <2>1, <2>4 DEF EscapeInv, Chain, Moved, Above, Filtered, Cause, Quiet
  <2> QED BY <1>5, <2>3, <2>4
<1>c. Chain(it.path) /\ \A p \in Paths : Moved(p) /\ Above(p) => Cause(p)
  BY DEF EscapeInv, Cause
<1>d. /\ Cause(it.path) => Moved(it.path)
      /\ Above(it.path) => Moved(it.path) /\ Cause(it.path)
  <2>1. Above(it.path) => Moved(it.path)
    BY <1>0, MovedBelow
  <2>2. IsPrefix(it.path, it.path)
    BY <1>0, PrefixOrder
  <2>3. <<it.path, "cloud">> \in swaps => Moved(it.path)
    BY <2>2 DEF Moved
  <2> QED BY <2>1, <2>3 DEF Cause
<1>e. /\ Leads(it.path).where = "out" => Above(it.path)
      /\ Leads(it.path).kind = "cloud" => fs[it.path] = "cloud"
      /\ Leads(it.path).where = "out" => Leads(it.path).kind = "dir"
      /\ Leads(it.path).where = "in" => Leads(it.path).kind = fs[it.path]
      /\ Leads(it.path).where = "in" /\ Leads(it.path).kids # {} => fs[it.path] \in {"dir", "cloud"}
      /\ Leads(it.path).where \in {"in", "out"}
  BY <1>0, <1>c, LeadsIs
<1>6. CASE OpenDir
  <2>1. CASE it.path = Root
    <3>1. Opening("open", TRUE, "list")
      BY <1>6, <2>1 DEF OpenDir
    <3>2. via' = NoVia \/ via' = Follow(Leads(Root), Root)
      BY <2>1, <3>1 DEF Opening, Failed, Opened
    <3>3. via'.where = "out" => Leads(Root).where = "out"
      <4>1. Follow(Leads(Root), Root).where = "out" => Leads(Root).where = "out"
        BY <1>h, <1>i
      <4> QED BY <1>b, <3>2, <4>1
    <3> QED BY <1>5, <1>6, <1>d, <1>e, <2>1, <3>1, <3>3, WalkMoves DEF Opening, Failed, Step
  <2>2. CASE it.path # Root
    <3>1. Opening("open", FALSE, "check")
      BY <1>6, <2>2 DEF OpenDir
    <3>2. via' = NoVia \/ via' = Leads(it.path)
      BY <3>1 DEF Opening, Failed, Opened
    <3>3. /\ via'.kids # {} /\ fs[it.path] \in {"junction", "alias"} => Moved(it.path)
          /\ via'.kind = "cloud" => Filtered(it.path)
          /\ via'.where = "out" => Above(it.path)
      BY <1>b, <1>d, <1>e, <3>2 DEF Filtered
    <3>4. Quiet /\ at' \in {"check", "row"}
      BY <1>6, <3>1, WalkMoves DEF Opening, Failed, Step
    <3> QED BY <1>5, <2>2, <3>1, <3>3, <3>4
  <2> QED BY <2>1, <2>2
<1>7. CASE Reopen
  <2>1. Opening("reopen", TRUE, "list") /\ Quiet /\ at' \in {"list", "row"} /\ at = "reopen"
    BY <1>7, WalkMoves DEF Reopen
  <2>2. it.path # Root /\ Filtered(it.path)
    BY <2>1 DEF EscapeInv
  <2>3. via' = NoVia \/ via' = Follow(Leads(it.path), it.path)
    BY <2>1 DEF Opening, Failed, Opened
  <2> DEFINE l == Leads(it.path)
  <2>4. CASE via' = Outside(it.path) /\ l.kind \in {"junction", "alias"}
    <3>1. l.where = "in" /\ fs[it.path] \in {"junction", "alias"}
      BY <1>e, <2>4
    <3>2. Cause(it.path)
      BY <2>2, <3>1 DEF Filtered, Cause
    <3> QED BY <1>5, <1>d, <2>1, <3>2
  <2>5. CASE via' = NoVia \/ (via'.where = l.where /\ via'.kids = l.kids)
    <3>1. via'.where = "out" => Cause(it.path)
      BY <1>b, <1>d, <1>e, <2>5
    <3>2. via'.kids # {} /\ fs[it.path] \in {"junction", "alias"} => Moved(it.path)
      BY <1>b, <1>d, <1>e, <2>5
    <3> QED BY <1>5, <2>1, <3>1, <3>2
  <2>6. \/ Follow(l, it.path) = NoVia \/ (Follow(l, it.path) = Outside(it.path) /\ l.kind \in {"junction", "alias"})
        \/ it.path = Root \/ (Follow(l, it.path).where = l.where /\ Follow(l, it.path).kids = l.kids)
    BY <1>h, <1>i
  <2> QED BY <2>2, <2>3, <2>4, <2>5, <2>6
<1>8. CASE Check
  <2>1. stack' = stack /\ it'.path = it.path /\ got' = got /\ Quiet /\ at = "check" /\ it.path # Root
    <3>1. stack' = stack /\ it'.path = it.path /\ got' = got
      BY <1>0, <1>8 DEF Check, TypesInv, ItemTypes
    <3> QED BY <1>8, <3>1, WalkMoves DEF EscapeInv
  <2>2. CASE at' = "row"
    <3>1. via' = NoVia
      BY <1>8, <2>2 DEF Check, Step
    <3> QED BY <1>b, <2>1, <2>2, <3>1 DEF EscapeInv, Chain, Moved, Above, Filtered, Cause, Quiet
  <2>3. CASE at' = "reopen"
    <3>1. via' = NoVia /\ via.kind \in Reparse /\ ~ Vetoes(via.kind)
      BY <1>8, <2>3 DEF Check, Step
    <3>2. via.kind = "cloud"
      BY <3>1 DEF Vetoes, IsName
    <3>3. Filtered(it.path)
      BY <2>1, <3>2 DEF EscapeInv
    <3> QED BY <1>b, <2>1, <2>3, <3>1, <3>3 DEF EscapeInv, Chain, Moved, Above, Filtered, Cause, Quiet
  <2>4. CASE at' = "list"
    <3>1. via' = via
      BY <1>8, <2>4 DEF Check, Step
    <3>2. via.where = "out" => Cause(it.path)
      BY <1>d, <2>1 DEF EscapeInv
    <3> QED BY <2>1, <2>4, <3>1, <3>2 DEF EscapeInv, Chain, Moved, Above, Filtered, Cause, Quiet
  <2> QED BY <1>8, <2>2, <2>3, <2>4, WalkMoves
<1>9. CASE List
  <2>1. Quiet /\ at' = "row" /\ at = "list" /\ via' = NoVia /\ it'.path = it.path
    <3>1. via' = NoVia /\ it'.path = it.path
      BY <1>9, <1>f DEF List, Failed
    <3> QED BY <1>9, <3>1, WalkMoves
  <2>2. got' = got \/ got' = got \cup {<<it.path, via.where>>}
    BY <1>9 DEF List
  <2>3. \A g \in got' : g[2] = "out" => Cause(g[1])
    BY <2>1, <2>2 DEF EscapeInv
  <2>4. stack' = stack \/ \E kept \in SUBSET via.kids : stack' = Pushed(kept)
    <3>1. Subfolders \subseteq via.kids
      BY DEF Subfolders
    <3>2. /\ \A lost, why : Lost(lost, why) => stack' = Pushed(Subfolders \ lost)
          /\ \A c : Unclear(c) => stack' = Pushed(Subfolders)
      BY DEF Lost, Unclear
    <3> QED BY <1>9, <3>1, <3>2 DEF List
  <2>5. \A i \in DOMAIN stack' : Chain(stack'[i].path)
    <3>1. CASE stack' = stack
      BY <3>1 DEF EscapeInv
    <3>2. ASSUME NEW kept \in SUBSET via.kids, stack' = Pushed(kept), NEW i \in DOMAIN stack'
          PROVE  Chain(stack'[i].path)
      <4>1. CASE i \in DOMAIN stack
        BY <3>2, <4>1, PushedIs DEF EscapeInv
      <4>2. CASE i \notin DOMAIN stack
        <5>1. PICK c \in kept : stack'[i] = Item(c)
          BY <3>2, <4>2, PushedIs
        <5>2. stack'[i].path = Child(c) /\ c \in via.kids
          BY <5>1 DEF Item
        <5>3. Ancestors(Child(c)) = Ancestors(it.path) \cup {it.path}
          BY <5>2, ChildIs
        <5>4. it.path # Root /\ fs[it.path] \in {"junction", "alias"} => Moved(it.path)
          BY <5>2 DEF EscapeInv
        <5> QED BY <1>c, <5>2, <5>3, <5>4 DEF Chain
      <4> QED BY <4>1, <4>2
    <3> QED BY <2>4, <3>1, <3>2
  <2>6. \A i \in DOMAIN stack' : Chain(stack[i].path)'
    BY <2>1, <2>5 DEF Chain, Moved, Quiet
  <2> QED BY <1>b, <2>1, <2>3, <2>6 DEF EscapeInv, Chain, Moved, Above, Cause, Quiet
<1>10. CASE Row
  BY <1>10, <1>a, WalkMoves DEF Row
<1>11. CASE Finish
  BY <1>11, <1>a, WalkMoves DEF Finish, Answer
<1>12. CASE CanonOpen
  <2>1. it'.path = it.path
    BY <1>0, <1>12 DEF CanonOpen, TypesInv, ItemTypes
  <2> QED BY <1>12, <1>a, <2>1, WalkMoves DEF CanonOpen
<1>13. CASE CanonRaw
  BY <1>13, <1>a, WalkMoves DEF CanonRaw, Answer
<1>14. CASE CanonIdentify
  BY <1>14, <1>a, WalkMoves DEF CanonIdentify, Answer
<1>15. CASE Swap
  <2>1. /\ UNCHANGED <<stack, it, via, got, at>>
        /\ \E p \in Paths, k \in {"none", "file", "dir", "junction", "broken"} :
          /\ swaps' = swaps \cup {<<p, fs[p]>>}
          /\ fs' = [q \in Paths |-> IF q = p THEN k ELSE IF IsStrictPrefix(p, q) THEN "none" ELSE fs[q]]
    BY <1>15 DEF Swap
  <2>2. PICK p \in Paths, k \in {"none", "file", "dir", "junction", "broken"} :
          /\ swaps' = swaps \cup {<<p, fs[p]>>}
          /\ fs' = [q \in Paths |-> IF q = p THEN k ELSE IF IsStrictPrefix(p, q) THEN "none" ELSE fs[q]]
    BY <2>1
  <2>3. swaps \subseteq swaps' /\ \E s \in swaps' : s[1] = p
    <3>1. <<p, fs[p]>> \in swaps' /\ <<p, fs[p]>>[1] = p
      BY <2>2
    <3> QED BY <2>2, <3>1
  <2>4. \A q : (Moved(q) => Moved(q)') /\ (Above(q) => Above(q)') /\ (Cause(q) => Cause(q)')
    BY <2>3 DEF Moved, Above, Cause
  <2>5. \A q \in Paths : fs'[q] \in {"junction", "alias"} => fs[q] \in {"junction", "alias"} \/ Moved(q)'
    <3>1. \A q \in Paths : IsPrefix(q, q)
      BY PrefixOrder
    <3>2. Moved(p)'
      BY <2>3, <3>1 DEF Moved
    <3> QED BY <2>2, <3>2
  <2>6. \A q \in Paths : Chain(q) => Chain(q)'
    <3>1. \A q \in Paths : \A r \in Ancestors(q) : r \in Paths
      BY AncestorsAre
    <3> QED BY <2>4, <2>5, <3>1 DEF Chain
  <2>7. \A q \in Paths : Filtered(q) => Filtered(q)'
    <3>1. \A q \in Paths : fs[q] = "cloud" => fs'[q] = "cloud" \/ <<q, "cloud">> \in swaps' \/ IsStrictPrefix(p, q)
      BY <2>2
    <3>2. \A q : IsStrictPrefix(p, q) => Above(q)'
      BY <2>3 DEF Above
    <3> QED BY <2>3, <2>4, <3>1, <3>2 DEF Filtered
  <2>8. \A i \in DOMAIN stack' : Chain(stack[i].path)'
    <3>1. \A i \in DOMAIN stack : stack[i].path \in Paths /\ Chain(stack[i].path)
      BY <1>g DEF EscapeInv
    <3> QED BY <2>1, <2>6, <3>1 DEF Chain
  <2>9. Chain(it.path)'
    BY <1>0, <1>c, <2>1, <2>6 DEF Chain
  <2>10. via.kids # {} /\ it.path # Root /\ fs'[it.path] \in {"junction", "alias"} => Moved(it.path)'
    BY <1>0, <2>1, <2>4, <2>5 DEF EscapeInv, Moved
  <2>11. at = "check" => /\ via.kind = "cloud" => Filtered(it.path)'
                         /\ via.where = "out" => Above(it.path)'
    BY <1>0, <2>1, <2>4, <2>7 DEF EscapeInv, Filtered, Above
  <2>12. at = "reopen" => Filtered(it.path)'
    BY <1>0, <2>1, <2>7 DEF EscapeInv, Filtered, Above
  <2>13. at = "list" /\ via.where = "out" => Cause(it.path)'
    BY <2>1, <2>4 DEF EscapeInv, Cause, Above
  <2>14. \A g \in got : g[2] = "out" => Cause(g[1])'
    BY <2>1, <2>4 DEF EscapeInv, Cause, Above
  <2>15. at \in {"check", "reopen"} => it.path # Root
    BY DEF EscapeInv
  <2> QED BY <2>1, <2>8, <2>9, <2>10, <2>11, <2>12, <2>13, <2>14, <2>15 DEF EscapeInv
<1> QED BY <1>1, <1>2, <1>3, <1>4, <1>6, <1>7, <1>8, <1>9, <1>10, <1>11, <1>12, <1>13, <1>14, <1>15
        DEF WalkNext
---------------------------------------------------------------------------
(* canon tells what it saw.                                                   *)

LEMMA RootIs ==
  ASSUME fs \in [Paths -> Kinds]
  PROVE  /\ Leads(Root).kind = fs[Root] /\ Leads(Root).where = "in"
         /\ Leads(Root).kids = IF fs[Root] \in {"dir", "cloud"} THEN Kids(Root) ELSE {}
         /\ Opened(Root, FALSE).kind = fs[Root]
         /\ Opened(Root, TRUE).kind = "none" <=> fs[Root] \in {"none", "broken"}
<1>1. Leads(Root) = [kind |-> fs[Root], where |-> "in",
                     kids |-> IF fs[Root] \in {"dir", "cloud"} THEN Kids(Root) ELSE {}]
  BY AncestorsAre DEF Leads
<1>2. Opened(Root, FALSE).kind = fs[Root]
  BY <1>1 DEF Opened
<1>3. Follow(Leads(Root), Root).kind = "none" <=> fs[Root] \in {"none", "broken"}
  <2>1. CASE fs[Root] \in {"junction", "alias"}
    BY <1>1, <2>1 DEF Follow
  <2>2. CASE fs[Root] = "cloud"
    BY <1>1, <2>2 DEF Follow
  <2>3. CASE fs[Root] = "broken"
    BY <1>1, <2>3 DEF Follow, NoVia
  <2>4. CASE fs[Root] \notin {"junction", "alias", "cloud", "broken"}
    BY <1>1, <2>4 DEF Follow
  <2> QED BY <2>1, <2>2, <2>3, <2>4
<1> QED BY <1>1, <1>2, <1>3 DEF Opened

LEMMA CanonInit == WalkInit => CanonInv
BY DEF WalkInit, CanonInv

LEMMA CanonStep == ASSUME TypesInv, CanonInv, WalkNext PROVE CanonInv'
<1> SUFFICES ASSUME opt'.mode = "canon" PROVE CanonInv'
  BY DEF CanonInv
<1>0. opt' = opt /\ opt.mode = "canon" /\ at \notin WalkSteps /\ fs \in [Paths -> Kinds] /\ faults \in Nat
  <2>1. opt' = opt
    BY WalkMoves DEF WalkNext, Quiet, Swap
  <2> QED BY <2>1 DEF TypesInv, StateTypes
<1>1. /\ \A s \in swaps : s[1] = Root
      /\ at = "identify" => Moments \ {"none", "broken"} # {}
      /\ at = "raw" => \/ it.action = "missing" /\ Moments \cap {"none", "broken"} # {}
                       \/ it.action \in {"denied", "unreadable"} /\ faults > 0
  BY <1>0 DEF CanonInv
<1>2. fs[Root] \in Moments
  BY DEF Moments
<1>a. Quiet => Moments' = Moments /\ swaps' = swaps
  BY DEF Quiet, Moments
<1>b. Opened(Root, FALSE).kind = fs[Root] /\ (Opened(Root, TRUE).kind = "none" <=> fs[Root] \in {"none", "broken"})
  BY <1>0, RootIs
<1>c. \A code : out' = [out EXCEPT !.code = code] => out'.code = code
  BY DEF TypesInv, OutTypes, Results
<1>3. CASE Prefix
  <2>1. at' = "done" => out'.code = "badvalue"
    BY <1>3, <1>c DEF Prefix, Answer, Step
  <2> QED BY <1>0, <1>1, <1>3, <1>a, <2>1, WalkMoves DEF CanonInv, CanonTellsApart
<1>4. CASE CanonOpen
  <2>1. CASE Opened(Root, TRUE).kind # "none" /\ Step("canon", "identify")
    <3>1. Moments \ {"none", "broken"} # {}
      BY <1>2, <1>b, <2>1
    <3> QED BY <1>0, <1>1, <1>4, <1>a, <2>1, <3>1, WalkMoves DEF CanonInv, Step
  <2>2. CASE /\ Opened(Root, TRUE).kind = "none" /\ Step("canon", "raw")
             /\ it' = [it EXCEPT !.action = "missing"] /\ UNCHANGED faults
    <3>1. Moments \cap {"none", "broken"} # {}
      BY <1>2, <1>b, <2>2
    <3>2. it'.action = "missing"
      BY <2>2 DEF TypesInv, ItemTypes
    <3> QED BY <1>0, <1>1, <1>4, <1>a, <2>2, <3>1, <3>2, WalkMoves DEF CanonInv, Step
  <2>3. CASE /\ Fails /\ Step("canon", "raw")
             /\ \E why \in {"denied", "unreadable"} : it' = [it EXCEPT !.action = why]
    <3>1. it'.action \in {"denied", "unreadable"} /\ faults' > 0
      BY <1>0, <2>3 DEF TypesInv, ItemTypes, Fails
    <3> QED BY <1>0, <1>1, <1>4, <1>a, <2>3, <3>1, WalkMoves DEF CanonInv, Step
  <2> QED BY <1>4, <2>1, <2>2, <2>3 DEF CanonOpen
<1>5. CASE CanonRaw
  <2>1. at = "raw" /\ at' = "done" /\ Quiet /\ it' = it
    BY <1>5, WalkMoves DEF CanonRaw, Answer
  <2>2. \/ There(fs[Root]) /\ faults' = faults /\ out'.code = "dangling"
        \/ ~There(fs[Root]) /\ faults' = faults /\ out'.code = CanonCode
        \/ it.action # "missing" /\ faults' = faults /\ out'.code = CanonCode
        \/ faults' = faults + 1 /\ out'.code = CanonCode
    BY <1>5, <1>b, <1>c DEF CanonRaw, Answer, Fails
  <2>3. CASE There(fs[Root]) /\ faults' = faults /\ out'.code = "dangling"
    <3>1. fs[Root] # "none"
      BY <2>3 DEF There
    <3>2. Moments # {"none"} /\ (faults > 0 \/ Moments \cap {"none", "broken"} # {})
      BY <1>1, <1>2, <2>1, <3>1
    <3> QED BY <1>0, <1>1, <1>a, <2>1, <2>3, <3>2 DEF CanonInv, CanonTellsApart, Moments
  <2>4. CASE /\ out'.code = CanonCode /\ faults' \in {faults, faults + 1}
             /\ ~There(fs[Root]) \/ it.action # "missing" \/ faults' = faults + 1
    <3>1. out'.code \in {"notfound", "oserror"} /\ (out'.code = "oserror" <=> it.action = "denied")
      BY <2>4 DEF CanonCode
    <3>2. it.action # "missing" => faults' > 0
      BY <1>0, <1>1, <2>1, <2>4
    <3>3. ~There(fs[Root]) => "none" \in Moments
      BY <1>2 DEF There
    <3>4. "none" \in Moments \/ faults' > 0
      BY <1>0, <2>4, <3>2, <3>3
    <3> QED BY <1>0, <1>1, <1>a, <2>1, <3>1, <3>2, <3>4 DEF CanonInv, CanonTellsApart, Moments
  <2> QED BY <2>2, <2>3, <2>4
<1>6. CASE CanonIdentify
  <2>1. at = "identify" /\ at' = "done" /\ Quiet
    BY <1>6, WalkMoves
  <2>2. out'.code = "ok" \/ (out'.code = "oserror" /\ faults' > 0)
    BY <1>0, <1>6, <1>c DEF CanonIdentify, Answer, Fails
  <2> QED BY <1>0, <1>1, <1>a, <2>1, <2>2 DEF CanonInv, CanonTellsApart, Moments
<1>7. CASE Swap
  <2>1. /\ UNCHANGED <<faults, it, at>> /\ at # "done"
        /\ \E p \in Paths : (p = Root <=> opt.mode = "canon") /\ swaps' = swaps \cup {<<p, fs[p]>>}
    BY <1>7 DEF Swap
  <2>2. swaps' = swaps \cup {<<Root, fs[Root]>>}
    BY <1>0, <2>1
  <2>3. \A s \in swaps' : s[1] = Root
    BY <1>1, <2>2
  <2>4. Moments \subseteq Moments'
    <3>1. <<Root, fs[Root]>> \in swaps' /\ <<Root, fs[Root]>>[2] = fs[Root] /\ swaps \subseteq swaps'
      BY <2>2
    <3>2. fs[Root] \in {s[2] : s \in swaps'}
      BY <3>1
    <3> QED BY <3>1, <3>2 DEF Moments
  <2>5. /\ at = "identify" => Moments' \ {"none", "broken"} # {}
        /\ at = "raw" => \/ it.action = "missing" /\ Moments' \cap {"none", "broken"} # {}
                         \/ it.action \in {"denied", "unreadable"} /\ faults > 0
    BY <1>1, <2>4
  <2> QED BY <2>1, <2>3, <2>5 DEF CanonInv
<1> QED BY <1>0, <1>3, <1>4, <1>5, <1>6, <1>7, WalkMoves DEF WalkNext, WalkSteps
---------------------------------------------------------------------------
(* What each step of the walk does to the result.                             *)

\* The fields of the result that a step leaves alone, of those the rows are counted by.
SameTotals == out'.count = out.count /\ out'.paths = out.paths /\ out'.pruned = out.pruned
              /\ out'.limited = out.limited /\ out'.code = out.code
SameFinds == out'.links = out.links /\ out'.entries = out.entries /\ out'.multi = out.multi
             /\ out'.blank = out.blank
Adds(new) == out'.errors = out.errors \cup new

LEMMA ItIs ==
  ASSUME TypesInv
  PROVE  /\ it.path \in Paths /\ it.action \in Decisions /\ it.seen \in Kinds
         /\ \A a, k : /\ [it EXCEPT !.action = a].path = it.path
                      /\ [it EXCEPT !.action = a].seen = it.seen
                      /\ [it EXCEPT !.action = a].action = a
                      /\ [it EXCEPT !.seen = k].path = it.path
                      /\ [it EXCEPT !.seen = k].seen = k
                      /\ [it EXCEPT !.seen = k].action = it.action
                      /\ [it EXCEPT !.seen = k, !.action = a].path = it.path
                      /\ [it EXCEPT !.seen = k, !.action = a].seen = k
                      /\ [it EXCEPT !.seen = k, !.action = a].action = a
BY DEF TypesInv, ItemTypes

LEMMA RowsInto ==
  ASSUME TypesInv, NEW p \in Paths, NEW why \in Whys, out' = WithRows(out, p, why, 1)
  PROVE  SameTotals /\ SameFinds /\ Adds({<<p, why, 1>>})
<1>1. 1 \in Nat /\ out \in Results
  BY DEF TypesInv, OutTypes
<1>2. PICK new \in SUBSET (Paths \X Whys \X Nat) :
        /\ new = IF 1 = 0 THEN {} ELSE {<<p, why, 1>>}
        /\ out' = [out EXCEPT !.errors = out.errors \cup new]
        /\ WithRows(out, p, why, 1) \in Results
  BY <1>1, RowsAre
<1> QED BY <1>1, <1>2 DEF SameTotals, SameFinds, Adds, Results

LEMMA PopIs ==
  ASSUME TypesInv, Pop
  PROVE  LET item == Last(stack)
         IN /\ stack # <<>> /\ item \in Items /\ Len(stack) \in DOMAIN stack /\ item = stack[Len(stack)]
            /\ stack' = Front(stack) /\ DOMAIN stack' = DOMAIN stack \ {Len(stack)}
            /\ \A i \in DOMAIN stack' : stack'[i] = stack[i]
            /\ it'.path = item.path /\ it'.seen = item.seen /\ it'.action = Policy(item)
            /\ Policy(item) \in Decisions
            /\ at' = (IF Policy(item) = "descended" THEN "open" ELSE "row")
            /\ got' = got /\ SameFinds /\ out'.code = out.code
            /\ out'.pruned = out.pruned + (IF Policy(item) = "pruned" THEN 1 ELSE 0)
            /\ out'.limited = out.limited + (IF Policy(item) = "depthlimited" THEN 1 ELSE 0)
            /\ \/ /\ out'.errors = out.errors /\ out'.count = out.count + 1
                  /\ ToSet(out'.paths) = ToSet(out.paths) \cup (IF opt.mode = "dirs" THEN {item.path} ELSE {})
               \/ Adds({<<item.path, "name", 1>>}) /\ out'.count = out.count /\ out'.paths = out.paths
<1> DEFINE item == Last(stack)  p == Last(stack).path  a == Policy(Last(stack))
<1>1. stack # <<>> /\ stack \in Seq(Items) /\ stack' = Front(stack) /\ got' = got
  BY DEF Pop, TypesInv, ItemTypes
<1>2. /\ item \in Items /\ Len(stack) \in DOMAIN stack /\ item = stack[Len(stack)]
      /\ DOMAIN stack' = DOMAIN stack \ {Len(stack)}
      /\ \A i \in DOMAIN stack' : stack'[i] = stack[i]
  BY <1>1, PoppedIs
<1>3. it' = [path |-> p, seen |-> item.seen, action |-> a]
  BY DEF Pop
<1>4. at' = (IF a = "descended" THEN "open" ELSE "row")
  BY DEF Pop, Step
<1>5. a \in Decisions /\ p \in Paths /\ out \in Results
  BY <1>2 DEF Policy, Decisions, Items, TypesInv, OutTypes
<1>6. out' = Counted(Listed(out, p), a) \/ out' = Counted(WithRows(out, p, "name", 1), a)
  BY DEF Pop
<1> HIDE DEF item, p, a
<1>7. CASE out' = Counted(Listed(out, p), a)
  <2>1. PICK list \in Seq(Paths) :
           /\ ToSet(list) = ToSet(out.paths) \cup (IF opt.mode = "dirs" THEN {p} ELSE {})
           /\ Listed(out, p) = [out EXCEPT !.count = out.count + 1, !.paths = list]
           /\ Listed(out, p) \in Results
    BY <1>5, ListedIs
  <2> DEFINE o == Listed(out, p)
  <2>2. /\ o \in Results /\ o.count = out.count + 1 /\ o.paths = list /\ o.code = out.code
        /\ o.pruned = out.pruned /\ o.limited = out.limited
        /\ o.errors = out.errors /\ o.links = out.links /\ o.entries = out.entries /\ o.multi = out.multi
        /\ o.blank = out.blank
    BY <1>5, <2>1 DEF Results
  <2>3. out' = Counted(o, a)
    BY <1>7
  <2> HIDE DEF o
  <2>4. PICK n, m \in 0 .. 1 :
           /\ n = 1 <=> a = "pruned"
           /\ m = 1 <=> a = "depthlimited"
           /\ out' = [o EXCEPT !.pruned = o.pruned + n, !.limited = o.limited + m]
           /\ Counted(o, a) \in Results
    BY <1>5, <2>2, <2>3, CountedIs
  <2>5. /\ out'.count = out.count + 1 /\ out'.paths = list /\ out'.code = out.code
        /\ out'.errors = out.errors /\ SameFinds
        /\ out'.pruned = out.pruned + n /\ out'.limited = out.limited + m
    BY <2>2, <2>4 DEF Results, SameFinds
  <2>6. n = (IF a = "pruned" THEN 1 ELSE 0) /\ m = (IF a = "depthlimited" THEN 1 ELSE 0)
    BY <2>4
  <2> QED BY <1>1, <1>2, <1>3, <1>4, <1>5, <2>1, <2>5, <2>6 DEF item, p, a
<1>8. CASE out' = Counted(WithRows(out, p, "name", 1), a)
  <2>1. PICK new \in SUBSET (Paths \X Whys \X Nat) :
           /\ new = IF 1 = 0 THEN {} ELSE {<<p, "name", 1>>}
           /\ WithRows(out, p, "name", 1) = [out EXCEPT !.errors = out.errors \cup new]
           /\ WithRows(out, p, "name", 1) \in Results
    <3>1. "name" \in Whys /\ 1 \in Nat
      BY DEF Whys
    <3> QED BY <1>5, <3>1, RowsAre
  <2> DEFINE o == WithRows(out, p, "name", 1)
  <2>2. /\ o \in Results /\ o.count = out.count /\ o.paths = out.paths /\ o.code = out.code
        /\ o.pruned = out.pruned /\ o.limited = out.limited
        /\ o.errors = out.errors \cup {<<p, "name", 1>>}
        /\ o.links = out.links /\ o.entries = out.entries /\ o.multi = out.multi /\ o.blank = out.blank
    BY <1>5, <2>1 DEF Results
  <2>3. out' = Counted(o, a)
    BY <1>8
  <2> HIDE DEF o
  <2>4. PICK n, m \in 0 .. 1 :
           /\ n = 1 <=> a = "pruned"
           /\ m = 1 <=> a = "depthlimited"
           /\ out' = [o EXCEPT !.pruned = o.pruned + n, !.limited = o.limited + m]
           /\ Counted(o, a) \in Results
    BY <1>5, <2>2, <2>3, CountedIs
  <2>5. /\ out'.count = out.count /\ out'.paths = out.paths /\ out'.code = out.code
        /\ Adds({<<p, "name", 1>>}) /\ SameFinds
        /\ out'.pruned = out.pruned + n /\ out'.limited = out.limited + m
    BY <2>2, <2>4 DEF Results, SameFinds, Adds
  <2>6. n = (IF a = "pruned" THEN 1 ELSE 0) /\ m = (IF a = "depthlimited" THEN 1 ELSE 0)
    BY <2>4
  <2> QED BY <1>1, <1>2, <1>3, <1>4, <1>5, <2>5, <2>6 DEF item, p, a
<1> QED BY <1>6, <1>7, <1>8

\* An opening succeeds or is a row.
LEMMA OpeningIs ==
  ASSUME TypesInv, OpenDir \/ Reopen
  PROVE  /\ UNCHANGED <<stack, got>> /\ it'.path = it.path /\ it'.seen = it.seen
         /\ \/ at' \in {"check", "list"} /\ it' = it /\ out' = out
            \/ /\ at' = "row" /\ it'.action = "failed" /\ via' = NoVia
               /\ SameTotals /\ SameFinds /\ Adds({<<it.path, "open", 1>>})
<1>1. ASSUME NEW from, NEW follow, NEW to \in {"check", "list"}, Opening(from, follow, to)
      PROVE  /\ UNCHANGED <<stack, got>> /\ it'.path = it.path /\ it'.seen = it.seen
             /\ \/ at' \in {"check", "list"} /\ it' = it /\ out' = out
                \/ /\ at' = "row" /\ it'.action = "failed" /\ via' = NoVia
                   /\ SameTotals /\ SameFinds /\ Adds({<<it.path, "open", 1>>})
  <2>1. UNCHANGED <<stack, got>>
    BY <1>1 DEF Opening
  <2>2. CASE at' = to /\ it' = it /\ out' = out
    BY <2>1, <2>2
  <2>3. CASE Failed("open")
    <3>1. it' = [it EXCEPT !.action = "failed"] /\ at' = "row" /\ via' = NoVia /\ out' = WithRows(out, it.path, "open", 1)
      BY <2>3 DEF Failed
    <3>2. "open" \in Whys /\ it.path \in Paths
      BY ItIs DEF Whys
    <3>3. SameTotals /\ SameFinds /\ Adds({<<it.path, "open", 1>>})
      BY <3>1, <3>2, RowsInto
    <3> QED BY <2>1, <3>1, <3>3, ItIs
  <2> QED BY <1>1, <2>2, <2>3 DEF Opening, Step
<1> QED BY <1>1 DEF OpenDir, Reopen

\* The handle has the last word about what is opened.
LEMMA CheckIs ==
  ASSUME TypesInv, Check
  PROVE  /\ UNCHANGED <<stack, got, out>> /\ it'.path = it.path
         /\ \/ at' = "row" /\ it'.action = "nofollow" /\ it'.seen = via.kind /\ IsName(via.kind)
            \/ at' = "reopen" /\ it'.action = it.action /\ it'.seen = "cloud" /\ via.kind = "cloud"
            \/ at' = "list" /\ it' = it /\ via' = via
<1>1. UNCHANGED <<stack, got, out>>
  BY DEF Check
<1>2. CASE Step("check", "row") /\ Vetoes(via.kind) /\ it' = [it EXCEPT !.seen = via.kind, !.action = "nofollow"]
  BY <1>1, <1>2, ItIs DEF Step, Vetoes
<1>3. CASE Step("check", "reopen") /\ via.kind \in Reparse /\ ~Vetoes(via.kind) /\ it' = [it EXCEPT !.seen = via.kind]
  <2>1. via.kind = "cloud"
    BY <1>3 DEF Vetoes, IsName
  <2> QED BY <1>1, <1>3, <2>1, ItIs DEF Step
<1>4. CASE Step("check", "list") /\ UNCHANGED <<it, via>>
  BY <1>1, <1>4 DEF Step
<1> QED BY <1>2, <1>3, <1>4 DEF Check

\* What a listing adds: its row, the rows of the files that could not be asked, the
\* files it names.
Row1(lost, why) == LET n == IF why = "cut" THEN 1 ELSE Cardinality(lost)
                   IN IF n = 0 THEN {} ELSE {<<it.path, why, n>>}
Gains(lost, why, es, ls, ms, bs) ==
  /\ Adds(Row1(lost, why) \cup es)
  /\ out'.entries = out.entries \cup ls /\ out'.multi = out.multi \cup ms /\ out'.blank = out.blank \cup bs
  /\ NewFiles(es, ls, ms, bs, lost)

\* A listing fails as a whole, or enters the directory.
LEMMA ListIs ==
  ASSUME TypesInv, List
  PROVE  /\ it'.path = it.path /\ it'.seen = it.seen /\ at' = "row" /\ SameTotals /\ out'.links = out.links
         /\ \/ /\ UNCHANGED <<stack, got>> /\ it'.action = "failed" /\ SameFinds
               /\ Adds({<<it.path, "list", 1>>})
            \/ /\ it' = it /\ got' = got \cup {<<it.path, via.where>>} /\ via.kind \notin Files
               /\ \E lost \in SUBSET via.kids, why \in {"lost", "cut"} :
                    /\ stack' = Pushed(Subfolders \ lost)
                    /\ \E es \in SUBSET (Paths \X Whys \X Nat), ls, ms, bs \in SUBSET Paths :
                         Gains(lost, why, es, ls, ms, bs)
<1>0. at' = "row" /\ it.path \in Paths /\ out \in Results /\ "list" \in Whys /\ {"lost", "cut"} \subseteq Whys
  BY WalkMoves, ItIs DEF TypesInv, OutTypes, Whys
<1>1. CASE Failed("list") /\ UNCHANGED <<stack, got>>
  <2>1. it' = [it EXCEPT !.action = "failed"] /\ out' = WithRows(out, it.path, "list", 1)
    BY <1>1 DEF Failed
  <2>2. SameTotals /\ SameFinds /\ Adds({<<it.path, "list", 1>>})
    BY <1>0, <2>1, RowsInto
  <2> QED BY <1>0, <1>1, <2>1, <2>2, ItIs DEF SameFinds
<1>2. ASSUME NEW lost \in SUBSET via.kids, NEW why \in {"lost", "cut"}, NEW unread, NEW unnamed,
             out' = WithFiles(WithRows(out, it.path, why, IF why = "cut" THEN 1 ELSE Cardinality(lost)),
                              lost, unread, unnamed)
      PROVE  /\ SameTotals /\ out'.links = out.links
             /\ \E es \in SUBSET (Paths \X Whys \X Nat), ls, ms, bs \in SUBSET Paths :
                  Gains(lost, why, es, ls, ms, bs)
  <2> DEFINE n == IF why = "cut" THEN 1 ELSE Cardinality(lost)
             o == WithRows(out, it.path, why, n)
             new == IF n = 0 THEN {} ELSE {<<it.path, why, n>>}
  <2>1. n \in Nat
    <3>1. via.kids \in SUBSET Entry /\ Distinct(via.kids)
      BY DEF TypesInv, ItemTypes, Handles, Entry, Distinct
    <3>2. IsFiniteSet(lost)
      BY <3>1, KidsFinite
    <3> QED BY <3>2, FS_CardinalityType
  <2>a. new = Row1(lost, why)
    BY DEF Row1
  <2>b. out' = WithFiles(o, lost, unread, unnamed)
    BY <1>2
  <2> HIDE DEF n
  <2>2. /\ new \in SUBSET (Paths \X Whys \X Nat)
        /\ o = [out EXCEPT !.errors = out.errors \cup new]
        /\ o \in Results
    <3>1. why \in Whys
      BY <1>0
    <3>2. PICK noted \in SUBSET (Paths \X Whys \X Nat) :
            /\ noted = IF n = 0 THEN {} ELSE {<<it.path, why, n>>}
            /\ WithRows(out, it.path, why, n) = [out EXCEPT !.errors = out.errors \cup noted]
            /\ WithRows(out, it.path, why, n) \in Results
      BY <1>0, <2>1, <3>1, RowsAre, Zenon
    <3> QED BY <3>2
  <2> HIDE DEF o, new
  <2>3. o \in Results
    BY <2>2
  <2>4. PICK es \in SUBSET (Paths \X Whys \X Nat), ls, ms, bs \in SUBSET Paths :
           FilesInto(o, WithFiles(o, lost, unread, unnamed), es, ls, ms, bs, lost)
    BY <2>3, FilesAre
  <2>5. /\ o.count = out.count /\ o.paths = out.paths /\ o.code = out.code
        /\ o.pruned = out.pruned /\ o.limited = out.limited
        /\ o.errors = out.errors \cup new
        /\ o.links = out.links /\ o.entries = out.entries /\ o.multi = out.multi /\ o.blank = out.blank
    BY <1>0, <2>2 DEF Results
  <2>6. /\ SameTotals /\ out'.links = out.links
        /\ out'.entries = out.entries \cup ls /\ out'.multi = out.multi \cup ms
        /\ out'.blank = out.blank \cup bs
        /\ out'.errors = (out.errors \cup new) \cup es
    <3>1. out' = [o EXCEPT !.entries = o.entries \cup ls, !.multi = o.multi \cup ms,
                           !.blank = o.blank \cup bs, !.errors = o.errors \cup es]
      BY <2>b, <2>4 DEF FilesInto
    <3>2. /\ out'.entries = o.entries \cup ls /\ out'.multi = o.multi \cup ms /\ out'.errors = o.errors \cup es
          /\ out'.blank = o.blank \cup bs
          /\ out'.links = o.links /\ out'.count = o.count /\ out'.paths = o.paths /\ out'.code = o.code
          /\ out'.pruned = o.pruned /\ out'.limited = o.limited
      BY <2>3, <3>1 DEF Results
    <3> QED BY <2>5, <3>2 DEF SameTotals
  <2>7. Adds(Row1(lost, why) \cup es)
    BY <2>a, <2>6 DEF Adds
  <2>8. Gains(lost, why, es, ls, ms, bs)
    BY <2>4, <2>6, <2>7 DEF Gains, FilesInto
  <2> QED BY <2>6, <2>8
<1>3. ASSUME NEW lost \in SUBSET via.kids, NEW why \in {"lost", "cut"}, Lost(lost, why)
      PROVE  /\ SameTotals /\ out'.links = out.links /\ stack' = Pushed(Subfolders \ lost)
             /\ \E es \in SUBSET (Paths \X Whys \X Nat), ls, ms, bs \in SUBSET Paths :
                  Gains(lost, why, es, ls, ms, bs)
  <2>1. /\ stack' = Pushed(Subfolders \ lost)
        /\ out' = WithFiles(WithRows(out, it.path, why, IF why = "cut" THEN 1 ELSE Cardinality(lost)),
                            lost, {}, {})
    BY <1>3 DEF Lost, RowsFor
  <2> QED BY <1>2, <2>1
<1>4. ASSUME NEW c, Unclear(c)
      PROVE  /\ SameTotals /\ out'.links = out.links /\ stack' = Pushed(Subfolders \ {})
             /\ \E es \in SUBSET (Paths \X Whys \X Nat), ls, ms, bs \in SUBSET Paths :
                  Gains({}, "lost", es, ls, ms, bs)
  <2>0. PICK unread, unnamed : out' = WithFiles(out, {}, unread, unnamed) /\ stack' = Pushed(Subfolders)
    BY <1>4 DEF Unclear
  <2>1. Cardinality({}) = 0 /\ {} \in SUBSET via.kids /\ Subfolders \ {} = Subfolders
    BY FS_EmptySet
  <2>2. WithRows(out, it.path, "lost", IF "lost" = "cut" THEN 1 ELSE Cardinality({})) = out
    BY <2>1 DEF WithRows
  <2>3. out' = WithFiles(WithRows(out, it.path, "lost", IF "lost" = "cut" THEN 1 ELSE Cardinality({})),
                         {}, unread, unnamed)
    BY <2>0, <2>2
  <2>4. /\ SameTotals /\ out'.links = out.links
        /\ \E es \in SUBSET (Paths \X Whys \X Nat), ls, ms, bs \in SUBSET Paths :
             Gains({}, "lost", es, ls, ms, bs)
    BY <1>2, <2>1, <2>3
  <2> QED BY <2>0, <2>1, <2>4
<1>5. CASE /\ via.kind \notin Files /\ it' = it /\ got' = got \cup {<<it.path, via.where>>}
           /\ \E lost \in SUBSET via.kids, why \in {"lost", "cut"} : Lost(lost, why)
  <2>1. PICK lost \in SUBSET via.kids, why \in {"lost", "cut"} : Lost(lost, why)
    BY <1>5
  <2>2. /\ SameTotals /\ out'.links = out.links /\ stack' = Pushed(Subfolders \ lost)
        /\ \E es \in SUBSET (Paths \X Whys \X Nat), ls, ms, bs \in SUBSET Paths :
             Gains(lost, why, es, ls, ms, bs)
    BY <1>3, <2>1
  <2> QED BY <1>0, <1>5, <2>1, <2>2
<1>6. CASE /\ via.kind \notin Files /\ it' = it /\ got' = got \cup {<<it.path, via.where>>}
           /\ \E c \in Wanted : Unclear(c)
  <2>1. /\ SameTotals /\ out'.links = out.links /\ stack' = Pushed(Subfolders \ {})
        /\ \E es \in SUBSET (Paths \X Whys \X Nat), ls, ms, bs \in SUBSET Paths :
             Gains({}, "lost", es, ls, ms, bs)
    BY <1>4, <1>6
  <2>2. {} \in SUBSET via.kids /\ "lost" \in {"lost", "cut"}
    OBVIOUS
  <2> QED BY <1>0, <1>6, <2>1, <2>2
<1>7. \/ Failed("list") /\ UNCHANGED <<stack, got>>
      \/ /\ via.kind \notin Files /\ it' = it /\ got' = got \cup {<<it.path, via.where>>}
         /\ \/ \E lost \in SUBSET via.kids, why \in {"lost", "cut"} : Lost(lost, why)
            \/ \E c \in Wanted : Unclear(c)
  BY DEF List
<1> QED BY <1>1, <1>5, <1>6, <1>7

\* A row of a reparse directory.
NoteOf(new) == new = {} \/ \E why \in {"type", "target"} : new = {<<it.path, why, 1>>}
LEMMA RowIs ==
  ASSUME TypesInv, Row
  PROVE  /\ UNCHANGED <<stack, it, via, got>> /\ SameTotals /\ out'.multi = out.multi /\ out'.blank = out.blank
         /\ IF it.seen \in Reparse THEN out'.links = out.links \cup {<<it.path, it.seen, it.action>>}
            ELSE out'.links = out.links
         /\ out.entries \subseteq out'.entries
         /\ opt.mode = "links" /\ IsName(it.seen) => it.path \in out'.entries
         /\ \E new : NoteOf(new) /\ Adds(new)
<1>1. out \in Results
  BY DEF TypesInv, OutTypes
<1>2. UNCHANGED <<stack, it, via, got>>
  BY DEF Row
<1>0. PICK why \in {"", "type", "target"} :
        out' = IF it.seen \notin Reparse THEN out ELSE
            [out EXCEPT !.links = @ \cup {<<it.path, it.seen, Action(it)>>},
               !.entries = IF LinkRow THEN @ \cup {it.path} ELSE @,
               !.errors = IF why = "" THEN @ ELSE @ \cup {<<it.path, why, 1>>},
               !.entered = IF opt.mode = "links" /\ ~LinkRow /\ it.action = "descended"
                           THEN @ \cup {it.path} ELSE @]
  BY DEF Row
<1> DEFINE names == IF LinkRow THEN out.entries \cup {it.path} ELSE out.entries
           new == IF why = "" THEN {} ELSE {<<it.path, why, 1>>}
           gone == IF opt.mode = "links" /\ ~LinkRow /\ it.action = "descended"
                   THEN out.entered \cup {it.path} ELSE out.entered
<1>3. CASE it.seen \notin Reparse
  <2>1. out' = out /\ ~IsName(it.seen)
    BY <1>0, <1>3 DEF IsName
  <2>2. NoteOf({}) /\ Adds({})
    BY <2>1 DEF NoteOf, Adds
  <2> QED BY <1>2, <1>3, <2>1, <2>2 DEF SameTotals
<1>4. CASE it.seen \in Reparse
  <2>1. out' = [out EXCEPT !.links = out.links \cup {<<it.path, it.seen, it.action>>},
                           !.entries = names, !.errors = out.errors \cup new, !.entered = gone]
    BY <1>0, <1>1, <1>4 DEF Action, Results
  <2>2. NoteOf(new)
    BY DEF NoteOf
  <2>3. /\ out.entries \subseteq names
        /\ opt.mode = "links" /\ IsName(it.seen) => it.path \in names
    BY DEF LinkRow
  <2> HIDE DEF names, new, gone
  <2>4. /\ SameTotals /\ out'.multi = out.multi /\ out'.blank = out.blank /\ out'.entries = names /\ Adds(new)
        /\ out'.links = out.links \cup {<<it.path, it.seen, it.action>>}
    BY <1>1, <2>1 DEF SameTotals, Results, Adds
  <2> QED BY <1>2, <1>4, <2>2, <2>3, <2>4
<1> QED BY <1>3, <1>4
---------------------------------------------------------------------------
(* The directories met: each is waited for, entered, given up or named once.   *)

\* The steps that do not walk.
LEMMA StillIs ==
  ASSUME TypesInv, [WalkNext]_walkVars, ~RootClassify, ~Pop, ~OpenDir, ~Reopen, ~Check, ~List, ~Row
  PROVE  /\ UNCHANGED <<stack, got>> /\ it'.path = it.path /\ it'.seen = it.seen
         /\ out'.links = out.links /\ out'.errors = out.errors /\ out'.count = out.count
         /\ out'.pruned = out.pruned /\ out'.limited = out.limited /\ out'.paths = out.paths
         /\ out'.entries = out.entries /\ out'.multi = out.multi /\ out'.blank = out.blank
         /\ \/ at' = at /\ it' = it /\ via' = via /\ out' = out
            \/ /\ at \notin {"open", "check", "reopen", "list", "row"}
               /\ at' \notin {"open", "check", "reopen", "list", "row", "pop"}
               /\ UNCHANGED <<fs, swaps>> /\ via' = via
               /\ at' \in {"start", "root", "classify"} => at \in {"start", "root", "classify"} /\ out'.code = out.code
               /\ at' = "done" => (out'.code = "ok" /\ opt.mode # "canon" => at = "pop" /\ stack = <<>>)
<1>1. /\ out \in Results /\ it.path \in Paths /\ opt \in Options
      /\ (opt.mode = "canon" => at \notin WalkSteps) /\ (opt.mode # "canon" => at \notin CanonSteps)
  BY ItIs DEF TypesInv, OutTypes, StateTypes
<1>2. \A code : /\ [out EXCEPT !.code = code].links = out.links /\ [out EXCEPT !.code = code].errors = out.errors
                /\ [out EXCEPT !.code = code].count = out.count /\ [out EXCEPT !.code = code].pruned = out.pruned
                /\ [out EXCEPT !.code = code].limited = out.limited /\ [out EXCEPT !.code = code].paths = out.paths
                /\ [out EXCEPT !.code = code].entries = out.entries /\ [out EXCEPT !.code = code].multi = out.multi
                /\ [out EXCEPT !.code = code].blank = out.blank
                /\ [out EXCEPT !.code = code].code = code
  BY <1>1 DEF Results
<1>3. CASE Prefix
  <2>1. UNCHANGED <<stack, got, it, via>> /\ (out' = out \/ out' = [out EXCEPT !.code = "badvalue"])
        /\ (at' = "done" => out' = [out EXCEPT !.code = "badvalue"]) /\ UNCHANGED <<fs, swaps>>
    BY <1>3 DEF Prefix, Answer, Step
  <2>2. at = "start" /\ at' \in {"done", "canon", "root"}
    BY <1>3, WalkMoves
  <2>3. at' # "done" => out' = out
    BY <1>3 DEF Prefix, Answer, Step
  <2>4. CASE at' = "done"
    <3>1. out' = [out EXCEPT !.code = "badvalue"]
      BY <2>1, <2>4
    <3>2. /\ out'.links = out.links /\ out'.errors = out.errors /\ out'.count = out.count
          /\ out'.pruned = out.pruned /\ out'.limited = out.limited /\ out'.paths = out.paths
          /\ out'.entries = out.entries /\ out'.multi = out.multi /\ out'.blank = out.blank
          /\ out'.code = "badvalue"
      BY <1>2, <3>1
    <3> QED BY <2>1, <2>2, <2>4, <3>2
  <2>5. CASE at' # "done"
    BY <2>1, <2>2, <2>3, <2>5
  <2> QED BY <2>4, <2>5
<1>4. CASE RootOpen
  <2>1. UNCHANGED <<stack, got, it, via>> /\ (out' = out \/ out' = [out EXCEPT !.code = "notfound"])
        /\ (at' = "done" => out' = [out EXCEPT !.code = "notfound"]) /\ UNCHANGED <<fs, swaps>>
    BY <1>4 DEF RootOpen, Answer, Step
  <2>2. at = "root" /\ at' \in {"done", "classify"}
    BY <1>4, WalkMoves
  <2>3. at' = "classify" => out' = out
    BY <1>4 DEF RootOpen, Answer, Step
  <2>4. CASE at' = "done"
    <3>1. out' = [out EXCEPT !.code = "notfound"]
      BY <2>1, <2>4
    <3>2. /\ out'.links = out.links /\ out'.errors = out.errors /\ out'.count = out.count
          /\ out'.pruned = out.pruned /\ out'.limited = out.limited /\ out'.paths = out.paths
          /\ out'.entries = out.entries /\ out'.multi = out.multi /\ out'.blank = out.blank
          /\ out'.code = "notfound"
      BY <1>2, <3>1
    <3> QED BY <2>1, <2>2, <2>4, <3>2
  <2>5. CASE at' = "classify"
    BY <2>1, <2>2, <2>3, <2>5
  <2> QED BY <2>2, <2>4, <2>5
<1>5. CASE Finish
  <2>1. UNCHANGED <<stack, got, it, via>> /\ out' = [out EXCEPT !.code = "ok"] /\ stack = <<>> /\ UNCHANGED <<fs, swaps>>
    BY <1>5 DEF Finish, Answer, Step
  <2>2. at = "pop" /\ at' = "done"
    BY <1>5, WalkMoves
  <2> QED BY <1>2, <2>1, <2>2
<1>6. CASE CanonOpen
  <2>0. UNCHANGED <<stack, got, via, out, fs, swaps>>
        /\ (it' = it \/ \E why : it' = [it EXCEPT !.action = why])
    BY <1>6 DEF CanonOpen, Step
  <2>1. UNCHANGED <<stack, got, via, out, fs, swaps>> /\ it'.path = it.path /\ it'.seen = it.seen
    <3>1. \A a : [it EXCEPT !.action = a].path = it.path /\ [it EXCEPT !.action = a].seen = it.seen
      BY DEF TypesInv, ItemTypes
    <3> QED BY <2>0, <3>1
  <2>2. at = "canon" /\ at' \in {"identify", "raw"}
    BY <1>6, WalkMoves
  <2> QED BY <1>2, <2>1, <2>2
<1>7. CASE CanonRaw \/ CanonIdentify
  <2>1. UNCHANGED <<stack, got, it, via, fs, swaps>> /\ \E code : out' = [out EXCEPT !.code = code]
    BY <1>7 DEF CanonRaw, CanonIdentify, Answer, Step
  <2>2. at \in {"raw", "identify"} /\ at' = "done"
    BY <1>7, WalkMoves
  <2>3. opt.mode = "canon"
    BY <1>1, <2>2 DEF CanonSteps
  <2> QED BY <1>2, <2>1, <2>2, <2>3
<1>8. CASE Swap
  BY <1>8 DEF Swap
<1>9. CASE UNCHANGED walkVars
  BY <1>9 DEF walkVars
<1> QED BY <1>3, <1>4, <1>5, <1>6, <1>7, <1>8, <1>9 DEF WalkNext

\* The rows by their reasons.
LEMMA ErrorSets ==
  /\ out'.errors = out.errors => Failing' = Failing /\ Unnamed' = Unnamed /\ Nameless' = Nameless
  /\ \A new : Adds(new) /\ (\A e \in new : e[2] \notin {"open", "list", "name"}) =>
       Failing' = Failing /\ Unnamed' = Unnamed /\ Nameless' = Nameless
  /\ \A p, why : why \in {"open", "list"} /\ Adds({<<p, why, 1>>}) =>
       Failing' = Failing \cup {p} /\ Unnamed' = Unnamed /\ Nameless' = Nameless
  /\ \A p : Adds({<<p, "name", 1>>}) =>
       Failing' = Failing /\ Unnamed' = Unnamed \cup {<<p, "name", 1>>} /\ Nameless' = Nameless \cup {p}
<1> USE DEF Adds, OfKind, Failing, Unnamed, Nameless
<1>1. ASSUME out'.errors = out.errors PROVE Failing' = Failing /\ Unnamed' = Unnamed /\ Nameless' = Nameless
  BY <1>1
<1>2. ASSUME NEW new, Adds(new), \A e \in new : e[2] \notin {"open", "list", "name"}
      PROVE  Failing' = Failing /\ Unnamed' = Unnamed /\ Nameless' = Nameless
  <2>1. OfKind({"open", "list"})' = OfKind({"open", "list"}) /\ OfKind({"name"})' = OfKind({"name"})
    BY <1>2
  <2> QED BY <2>1
<1>3. ASSUME NEW p, NEW why \in {"open", "list"}, Adds({<<p, why, 1>>})
      PROVE  Failing' = Failing \cup {p} /\ Unnamed' = Unnamed /\ Nameless' = Nameless
  <2>1. OfKind({"open", "list"})' = OfKind({"open", "list"}) \cup {<<p, why, 1>>} /\ OfKind({"name"})' = OfKind({"name"})
    BY <1>3
  <2>2. <<p, why, 1>>[1] = p
    OBVIOUS
  <2>3. \A q : (\E e \in OfKind({"open", "list"})' : e[1] = q) <=> (\E e \in OfKind({"open", "list"}) : e[1] = q) \/ q = p
    BY <2>1, <2>2
  <2> QED BY <2>1, <2>3
<1>4. ASSUME NEW p, Adds({<<p, "name", 1>>})
      PROVE  Failing' = Failing /\ Unnamed' = Unnamed \cup {<<p, "name", 1>>} /\ Nameless' = Nameless \cup {p}
  <2>1. OfKind({"open", "list"})' = OfKind({"open", "list"}) /\ OfKind({"name"})' = OfKind({"name"}) \cup {<<p, "name", 1>>}
    BY <1>4
  <2>2. <<p, "name", 1>>[1] = p
    OBVIOUS
  <2>3. \A q : (\E e \in OfKind({"name"})' : e[1] = q) <=> (\E e \in OfKind({"name"}) : e[1] = q) \/ q = p
    BY <2>1, <2>2
  <2> QED BY <2>1, <2>3
<1> QED BY <1>1, <1>2, <1>3, <1>4

LEMMA NoteKeeps ==
  ASSUME NEW new, NoteOf(new), Adds(new)
  PROVE  /\ Failing' = Failing /\ Unnamed' = Unnamed /\ Nameless' = Nameless
         /\ out.errors \subseteq out'.errors
<1>1. \A e \in new : e[2] \notin {"open", "list", "name"}
  BY DEF NoteOf
<1> QED BY <1>1, ErrorSets DEF Adds

LEMMA NamedIs ==
  ASSUME NEW p, NEW k, NEW a, out'.links = out.links \cup {<<p, k, a>>}
  PROVE  /\ Named' = Named \cup {p}
         /\ NotFollowed' = IF a = "nofollow" THEN NotFollowed \cup {<<p, k, a>>} ELSE NotFollowed
<1> USE DEF Named, NotFollowed
<1>1. <<p, k, a>>[1] = p /\ <<p, k, a>>[3] = a
  OBVIOUS
<1>2. \A q : (\E r \in out'.links : r[1] = q) <=> (\E r \in out.links : r[1] = q) \/ q = p
  BY <1>1
<1>3. NotFollowed' = IF a = "nofollow" THEN NotFollowed \cup {<<p, k, a>>} ELSE NotFollowed
  BY <1>1
<1> QED BY <1>2, <1>3

LEMMA OtherSets ==
  /\ got' = got => Entered' = Entered
  /\ \A p, w : got' = got \cup {<<p, w>>} => Entered' = Entered \cup {p}
  /\ out'.links = out.links => Named' = Named /\ NotFollowed' = NotFollowed
  /\ stack' = stack => Waiting' = Waiting
<1> USE DEF Entered, Named, NotFollowed, Waiting
<1>1. ASSUME NEW p, NEW w, got' = got \cup {<<p, w>>} PROVE Entered' = Entered \cup {p}
  <2>1. <<p, w>>[1] = p
    OBVIOUS
  <2>2. \A q : (\E g \in got' : g[1] = q) <=> (\E g \in got : g[1] = q) \/ q = p
    BY <1>1, <2>1
  <2> QED BY <2>2
<1>3. got' = got => Entered' = Entered
  OBVIOUS
<1>4. out'.links = out.links => Named' = Named /\ NotFollowed' = NotFollowed
  OBVIOUS
<1>5. stack' = stack => Waiting' = Waiting
  OBVIOUS
<1> HIDE DEF Entered, Named, NotFollowed, Waiting
<1> QED BY <1>1, <1>3, <1>4, <1>5

\* The directory popped waits no longer.
LEMMA PopSets ==
  ASSUME TypesInv, OnceInv, Pop
  PROVE  /\ it'.path \in Waiting /\ Waiting' = Waiting \ {it'.path}
         /\ Entered' = Entered /\ Named' = Named /\ Failing' = Failing /\ NotFollowed' = NotFollowed
         /\ \/ Nameless' = Nameless /\ Unnamed' = Unnamed /\ out'.count = out.count + 1
            \/ /\ Nameless' = Nameless \cup {it'.path} /\ Unnamed' = Unnamed \cup {<<it'.path, "name", 1>>}
               /\ out'.count = out.count
<1> DEFINE item == Last(stack)  n == Len(stack)
<1>1. /\ n \in DOMAIN stack /\ item = stack[n] /\ DOMAIN stack' = DOMAIN stack \ {n}
      /\ \A i \in DOMAIN stack' : stack'[i] = stack[i]
      /\ it'.path = item.path /\ got' = got /\ out'.links = out.links
      /\ \/ out'.errors = out.errors /\ out'.count = out.count + 1
         \/ Adds({<<item.path, "name", 1>>}) /\ out'.count = out.count
  BY PopIs DEF SameFinds
<1> HIDE DEF item, n
<1>2. it'.path \in Waiting
  BY <1>1 DEF Waiting
<1>3. \A i, j \in DOMAIN stack : stack[i].path = stack[j].path => i = j
  BY DEF OnceInv
<1>4. Waiting' = Waiting \ {it'.path}
  BY <1>1, <1>3 DEF Waiting
<1>5. \/ Nameless' = Nameless /\ Unnamed' = Unnamed /\ out'.count = out.count + 1 /\ Failing' = Failing
      \/ /\ Nameless' = Nameless \cup {it'.path} /\ Unnamed' = Unnamed \cup {<<it'.path, "name", 1>>}
         /\ out'.count = out.count /\ Failing' = Failing
  BY <1>1, ErrorSets
<1> QED BY <1>1, <1>2, <1>4, <1>5, OtherSets

\* The children of the directory entered wait; nobody has met them before.
LEMMA ListSets ==
  ASSUME TypesInv, OnceInv, List
  PROVE  /\ Named' = Named /\ Nameless' = Nameless /\ Unnamed' = Unnamed /\ NotFollowed' = NotFollowed
         /\ \/ /\ Waiting' = Waiting /\ stack' = stack /\ Entered' = Entered /\ Failing' = Failing \cup {it.path}
               /\ it'.action = "failed"
            \/ /\ Entered' = Entered \cup {it.path} /\ Failing' = Failing /\ it' = it
               /\ \E new \in SUBSET Paths :
                    /\ Waiting' = Waiting \cup new /\ it.path \notin new
                    /\ \A p \in new : p # Root /\ Parent(p) = it.path /\ p \notin Met
               /\ \A i, j \in DOMAIN stack' : stack'[i].path = stack'[j].path => i = j
<1>1. /\ it'.path = it.path /\ at = "list" /\ out'.links = out.links /\ Named' = Named /\ NotFollowed' = NotFollowed
  BY ListIs, WalkMoves, OtherSets
<1>2. CASE UNCHANGED <<stack, got>> /\ it'.action = "failed" /\ Adds({<<it.path, "list", 1>>})
  <2>1. Failing' = Failing \cup {it.path} /\ Nameless' = Nameless /\ Unnamed' = Unnamed
    BY <1>2, ErrorSets
  <2> QED BY <1>1, <1>2, <2>1, OtherSets
<1>3. CASE /\ it' = it /\ got' = got \cup {<<it.path, via.where>>}
           /\ \E lost \in SUBSET via.kids, why \in {"lost", "cut"} :
                /\ stack' = Pushed(Subfolders \ lost)
                /\ \E es \in SUBSET (Paths \X Whys \X Nat), ls, ms, bs \in SUBSET Paths :
                     Gains(lost, why, es, ls, ms, bs)
  <2>1. PICK lost \in SUBSET via.kids, why \in {"lost", "cut"} :
                /\ stack' = Pushed(Subfolders \ lost)
                /\ \E es \in SUBSET (Paths \X Whys \X Nat), ls, ms, bs \in SUBSET Paths :
                     Gains(lost, why, es, ls, ms, bs)
    BY <1>3
  <2>2. PICK es \in SUBSET (Paths \X Whys \X Nat), ls \in SUBSET Paths, ms \in SUBSET Paths, bs \in SUBSET Paths :
          Gains(lost, why, es, ls, ms, bs)
    BY <2>1
  <2>3. Failing' = Failing /\ Nameless' = Nameless /\ Unnamed' = Unnamed
    <3>1. Adds(Row1(lost, why) \cup es)
      BY <2>2 DEF Gains
    <3>2. \A e \in Row1(lost, why) : e[2] = why
      BY DEF Row1
    <3>3. \A e \in es : e[2] = "file"
      BY <2>2 DEF Gains, NewFiles
    <3> QED BY <3>1, <3>2, <3>3, ErrorSets
  <2> DEFINE kept == Subfolders \ lost
             new == {Child(c) : c \in kept}
  <2>4. kept \in SUBSET via.kids
    BY DEF Subfolders
  <2>5. stack' = Pushed(kept)
    BY <2>1
  <2> HIDE DEF kept
  <2>6. /\ DOMAIN stack \subseteq DOMAIN stack'
        /\ \A i \in DOMAIN stack : stack'[i] = stack[i]
        /\ \A i \in DOMAIN stack' \ DOMAIN stack : \E c \in kept : stack'[i] = Item(c)
        /\ \A c \in kept : \E i \in DOMAIN stack' \ DOMAIN stack : stack'[i] = Item(c)
        /\ \A i, j \in DOMAIN stack' \ DOMAIN stack : stack'[i].path = stack'[j].path => i = j
    BY <2>4, <2>5, PushedIs
  <2>7. \A c : Item(c).path = Child(c)
    BY DEF Item
  <2>8. Waiting' = Waiting \cup new
    BY <2>6, <2>7 DEF Waiting
  <2>9. \A c \in kept : /\ Child(c) \in Paths /\ Child(c) # Root /\ Parent(Child(c)) = it.path
                        /\ IsStrictPrefix(it.path, Child(c))
    BY <2>4, ChildIs
  <2>10. it.path \notin Entered
    BY <1>1 DEF OnceInv, Trying
  <2>11. \A p \in new : p \in Paths /\ p # Root /\ Parent(p) = it.path /\ p # it.path
    BY <2>9 DEF IsStrictPrefix
  <2>12. \A p \in new : p \notin Met
    BY <2>10, <2>11 DEF OnceInv
  <2>13. \A i, j \in DOMAIN stack' : stack'[i].path = stack'[j].path => i = j
    <3>1. \A i, j \in DOMAIN stack : stack[i].path = stack[j].path => i = j
      BY DEF OnceInv
    <3>2. \A i \in DOMAIN stack : stack'[i].path \in Waiting
      BY <2>6 DEF Waiting
    <3>3. \A i \in DOMAIN stack' \ DOMAIN stack : stack'[i].path \notin Waiting
      BY <2>6, <2>7, <2>12 DEF Met
    <3> QED BY <2>6, <3>1, <3>2, <3>3
  <2>14. Entered' = Entered \cup {it.path}
    BY <1>3, OtherSets
  <2>15. new \in SUBSET Paths /\ it.path \notin new
    BY <2>11
  <2> HIDE DEF new
  <2> QED BY <1>1, <1>3, <2>3, <2>8, <2>11, <2>12, <2>13, <2>14, <2>15
<1> QED BY <1>2, <1>3, ListIs

LEMMA OnceInit == WalkInit => OnceInv
<1> SUFFICES ASSUME WalkInit PROVE OnceInv
  OBVIOUS
<1>1. stack = <<>> /\ DOMAIN stack = {} /\ got = {} /\ out.links = {} /\ out.errors = {} /\ at = "start"
  BY DEF WalkInit, NoResult
<1>2. Waiting = {} /\ Entered = {} /\ Failing = {} /\ Named = {} /\ Nameless = {} /\ Unnamed = {}
  BY <1>1 DEF Waiting, Entered, Failing, Named, Nameless, Unnamed, OfKind
<1> QED BY <1>1, <1>2 DEF OnceInv, Met, Busy, Trying

LEMMA OnceStep == ASSUME TypesInv, OnceInv, [WalkNext]_walkVars PROVE OnceInv'
<1> DEFINE early == {"start", "root", "classify"}
           busy == {"open", "check", "reopen", "list", "row"}
           trying == {"open", "check", "reopen", "list"}
<1>0. /\ \A p \in Waiting \cup Entered \cup Failing \cup Named \cup Nameless : p # Root => Parent(p) \in Entered
      /\ at \in busy /\ it.path # Root => Parent(it.path) \in Entered
      /\ \A i, j \in DOMAIN stack : stack[i].path = stack[j].path => i = j
      /\ Waiting \cap (Entered \cup Failing \cup Named \cup Nameless) = {}
      /\ at \in busy => it.path \notin Waiting \cup Named
      /\ at \in trying => it.action = "descended" /\ it.path \notin Entered \cup Failing
      /\ at \in early => Waiting = {} /\ Entered = {} /\ Named = {} /\ Failing = {} /\ Nameless = {}
      /\ at \in early => stack = <<>> /\ out.links = {} /\ Unnamed = {}
  <2>1. at \in early => stack = <<>> /\ Entered = {} /\ out.links = {} /\ Failing = {} /\ Unnamed = {}
    BY DEF OnceInv
  <2>2. stack = <<>> => Waiting = {}
    BY DEF Waiting
  <2>3. (out.links = {} => Named = {}) /\ (Unnamed = {} => Nameless = {})
    BY DEF Named, Nameless
  <2> QED BY <2>1, <2>2, <2>3 DEF OnceInv, Met, Busy, Trying
<1>a. ASSUME \A p \in Waiting' \cup Entered' \cup Failing' \cup Named' \cup Nameless' : p # Root => Parent(p) \in Entered',
             at' \in busy /\ it'.path # Root => Parent(it'.path) \in Entered',
             \A i, j \in DOMAIN stack' : stack'[i].path = stack'[j].path => i = j,
             Waiting' \cap (Entered' \cup Failing' \cup Named' \cup Nameless') = {},
             at' \in busy => it'.path \notin Waiting' \cup Named',
             at' \in trying => it'.action = "descended" /\ it'.path \notin Entered' \cup Failing',
             at' \in early => stack' = <<>> /\ Entered' = {} /\ out'.links = {} /\ Failing' = {} /\ Unnamed' = {}
      PROVE  OnceInv'
  <2>1. /\ Busy' <=> at' \in busy
        /\ Trying' <=> at' \in trying
    BY DEF Busy, Trying
  <2>2. Met' = (Waiting' \cup Entered' \cup Failing' \cup Named' \cup Nameless')
                 \cup (IF at' \in busy THEN {it'.path} ELSE {})
    BY <2>1 DEF Met
  <2>3. \A p \in Met' : p # Root => Parent(p) \in Entered'
    BY <1>a, <2>2
  <2> QED BY <1>a, <2>1, <2>3 DEF OnceInv
<1>1. CASE ~RootClassify /\ ~Pop /\ ~OpenDir /\ ~Reopen /\ ~Check /\ ~List /\ ~Row
  <2>1. /\ UNCHANGED <<stack, got>> /\ it'.path = it.path
        /\ out'.links = out.links /\ out'.errors = out.errors
        /\ \/ at' = at /\ it' = it
           \/ at' \notin busy /\ (at' \in early => at \in early)
    BY <1>1, StillIs
  <2>2. /\ Waiting' = Waiting /\ Entered' = Entered /\ Failing' = Failing /\ Named' = Named
        /\ Nameless' = Nameless /\ Unnamed' = Unnamed
    BY <2>1, ErrorSets, OtherSets
  <2> QED BY <1>0, <1>a, <2>1, <2>2
<1>2. CASE RootClassify
  <2>1. at = "classify" /\ at' = "pop" /\ got' = got
    BY <1>2, WalkMoves DEF RootClassify
  <2>2. PICK known \in BOOLEAN : stack' = <<[path |-> Root, seen |-> RootSeen(known), pruned |-> FALSE]>>
    BY <1>2 DEF RootClassify
  <2>3. out' = out \/ out' = WithRows(out, Root, "classify", 1)
    BY <1>2 DEF RootClassify
  <2>4. out'.links = out.links /\ (out'.errors = out.errors \/ Adds({<<Root, "classify", 1>>}))
    <3>1. "classify" \in Whys /\ Root \in Paths
      BY PathsAre DEF Whys
    <3> QED BY <2>3, <3>1, RowsInto DEF SameFinds
  <2>5. /\ Entered' = {} /\ Failing' = {} /\ Named' = {} /\ Nameless' = {}
    BY <1>0, <2>1, <2>4, ErrorSets, OtherSets
  <2>6. DOMAIN stack' = {1} /\ stack'[1].path = Root
    BY <2>2
  <2>7. Waiting' = {Root}
    BY <2>6 DEF Waiting
  <2> QED BY <1>a, <2>1, <2>5, <2>6, <2>7
<1>3. CASE Pop
  <2>1. /\ it'.path \in Waiting /\ Waiting' = Waiting \ {it'.path}
        /\ Entered' = Entered /\ Named' = Named /\ Failing' = Failing
        /\ \/ Nameless' = Nameless
           \/ Nameless' = Nameless \cup {it'.path}
    BY <1>3, PopSets
  <2>2. /\ DOMAIN stack' \subseteq DOMAIN stack /\ \A i \in DOMAIN stack' : stack'[i] = stack[i]
        /\ at' = "open" => it'.action = "descended"
        /\ at' \in {"open", "row"}
    BY <1>3, PopIs
  <2>3. \A i, j \in DOMAIN stack' : stack'[i].path = stack'[j].path => i = j
    BY <1>0, <2>2
  <2> QED BY <1>0, <1>a, <2>1, <2>2, <2>3
<1>4. CASE OpenDir \/ Reopen
  <2>1. /\ UNCHANGED <<stack, got>> /\ it'.path = it.path
        /\ \/ at' \in {"check", "list"} /\ it' = it /\ out' = out
           \/ at' = "row" /\ SameFinds /\ Adds({<<it.path, "open", 1>>})
    BY <1>4, OpeningIs
  <2>2. at \in {"open", "reopen"}
    BY <1>4, WalkMoves
  <2>3. /\ Waiting' = Waiting /\ Entered' = Entered /\ Named' = Named /\ Nameless' = Nameless
        /\ \/ at' \in {"check", "list"} /\ Failing' = Failing
           \/ at' = "row" /\ Failing' = Failing \cup {it.path}
    <3>1. CASE at' \in {"check", "list"} /\ it' = it /\ out' = out
      BY <2>1, <3>1, ErrorSets, OtherSets
    <3>2. CASE at' = "row" /\ SameFinds /\ Adds({<<it.path, "open", 1>>})
      <4>1. Failing' = Failing \cup {it.path} /\ Nameless' = Nameless
        BY <3>2, ErrorSets
      <4> QED BY <2>1, <3>2, <4>1, OtherSets DEF SameFinds
    <3> QED BY <2>1, <3>1, <3>2
  <2> QED BY <1>0, <1>a, <2>1, <2>2, <2>3
<1>5. CASE Check
  <2>1. /\ UNCHANGED <<stack, got, out>> /\ it'.path = it.path
        /\ \/ at' = "row"
           \/ at' \in {"reopen", "list"} /\ it'.action = it.action
    BY <1>5, CheckIs
  <2>2. at = "check"
    BY <1>5, WalkMoves
  <2>3. /\ Waiting' = Waiting /\ Entered' = Entered /\ Named' = Named /\ Nameless' = Nameless
        /\ Failing' = Failing
    BY <2>1, ErrorSets, OtherSets
  <2> QED BY <1>0, <1>a, <2>1, <2>2, <2>3
<1>6. CASE List
  <2>1. at = "list" /\ at' = "row" /\ it'.path = it.path
    BY <1>6, ListIs, WalkMoves
  <2>2. Named' = Named /\ Nameless' = Nameless
    BY <1>6, ListSets
  <2>3. CASE Waiting' = Waiting /\ stack' = stack /\ Entered' = Entered /\ Failing' = Failing \cup {it.path}
    BY <1>0, <1>a, <2>1, <2>2, <2>3
  <2>4. CASE /\ Entered' = Entered \cup {it.path} /\ Failing' = Failing
             /\ \E new \in SUBSET Paths :
                  /\ Waiting' = Waiting \cup new /\ it.path \notin new
                  /\ \A p \in new : p # Root /\ Parent(p) = it.path /\ p \notin Met
             /\ \A i, j \in DOMAIN stack' : stack'[i].path = stack'[j].path => i = j
    <3>1. PICK new \in SUBSET Paths :
                  /\ Waiting' = Waiting \cup new /\ it.path \notin new
                  /\ \A p \in new : p # Root /\ Parent(p) = it.path /\ p \notin Met
      BY <2>4
    <3>2. \A p \in new : p \notin Entered \cup Failing \cup Named \cup Nameless
      BY <3>1 DEF Met
    <3> QED BY <1>0, <1>a, <2>1, <2>2, <2>4, <3>1, <3>2
  <2> QED BY <1>6, <2>3, <2>4, ListSets
<1>7. CASE Row
  <2>1. /\ UNCHANGED <<stack, it, got>> /\ at = "row" /\ at' = "pop"
        /\ out'.links = out.links \cup {<<it.path, it.seen, it.action>>} \/ out'.links = out.links
        /\ \E new : NoteOf(new) /\ Adds(new)
    BY <1>7, RowIs, WalkMoves
  <2>2. /\ Waiting' = Waiting /\ Entered' = Entered /\ Nameless' = Nameless /\ Failing' = Failing
        /\ Named' = Named \/ Named' = Named \cup {it.path}
    <3>1. Nameless' = Nameless /\ Failing' = Failing
      BY <2>1, NoteKeeps
    <3>2. Named' = Named \/ Named' = Named \cup {it.path}
      <4>1. CASE out'.links = out.links
        BY <4>1, OtherSets
      <4>2. CASE out'.links = out.links \cup {<<it.path, it.seen, it.action>>}
        BY <4>2, NamedIs
      <4> QED BY <2>1, <4>1, <4>2
    <3>3. Waiting' = Waiting /\ Entered' = Entered
      BY <2>1, OtherSets
    <3> QED BY <3>1, <3>2, <3>3
  <2> QED BY <1>0, <1>a, <2>1, <2>2
<1> QED BY <1>1, <1>2, <1>3, <1>4, <1>5, <1>6, <1>7
---------------------------------------------------------------------------
(* What the rows say was done.                                                *)

LEMMA DecidedInit == WalkInit => DecidedInv
BY DEF WalkInit, DecidedInv, NoResult

LEMMA DecidedStep == ASSUME TypesInv, OnceInv, DecidedInv, [WalkNext]_walkVars PROVE DecidedInv'
<1> DEFINE Says(r, entered, failing) == /\ r[3] = "descended" => r[1] \in entered
                                        /\ r[3] = "failed" => r[1] \in failing
                                        /\ r[3] # "descended" => r[1] \notin entered
<1>0. /\ at = "row" => /\ it.action = "descended" => it.path \in Entered
                       /\ it.action = "failed" => it.path \in Failing
                       /\ it.action # "descended" => it.path \notin Entered
                       /\ it.action = "nofollow" => IsName(it.seen)
      /\ \A r \in out.links : Says(r, Entered, Failing) /\ r[1] \in Named
      /\ at \in {"open", "check", "reopen", "list"} =>
           it.action = "descended" /\ it.path \notin Entered \cup Failing \cup Named
      /\ Waiting \cap (Entered \cup Failing \cup Named) = {}
  BY DEF DecidedInv, OnceInv, Busy, Trying, Named
<1>a. ASSUME at' = "row" => /\ it'.action = "descended" => it'.path \in Entered'
                            /\ it'.action = "failed" => it'.path \in Failing'
                            /\ it'.action # "descended" => it'.path \notin Entered'
                            /\ it'.action = "nofollow" => IsName(it'.seen),
             \A r \in out'.links : Says(r, Entered', Failing')
      PROVE  DecidedInv'
  BY <1>a DEF DecidedInv, IsName
<1>1. CASE ~RootClassify /\ ~Pop /\ ~OpenDir /\ ~Reopen /\ ~Check /\ ~List /\ ~Row
  <2>1. /\ got' = got /\ out'.links = out.links /\ out'.errors = out.errors
        /\ (at' = "row" => at = "row" /\ it' = it)
    BY <1>1, StillIs
  <2>2. Entered' = Entered /\ Failing' = Failing
    BY <2>1, ErrorSets, OtherSets
  <2> QED BY <1>0, <1>a, <2>1, <2>2
<1>2. CASE RootClassify
  <2>1. at = "classify" /\ at' = "pop" /\ got' = got
    BY <1>2, WalkMoves DEF RootClassify
  <2>2. out' = out \/ out' = WithRows(out, Root, "classify", 1)
    BY <1>2 DEF RootClassify
  <2>3. out'.links = out.links
    <3>1. "classify" \in Whys /\ Root \in Paths
      BY PathsAre DEF Whys
    <3> QED BY <2>2, <3>1, RowsInto DEF SameFinds
  <2>4. out.links = {}
    BY <2>1 DEF OnceInv
  <2> QED BY <1>a, <2>1, <2>3, <2>4
<1>3. CASE Pop
  <2>1. it'.path \in Waiting /\ Entered' = Entered /\ Failing' = Failing
    BY <1>3, PopSets
  <2>2. /\ out'.links = out.links /\ it'.seen = Last(stack).seen /\ it'.action = Policy(Last(stack))
        /\ at' = "row" => it'.action # "descended"
    BY <1>3, PopIs DEF SameFinds
  <2>3. it'.action # "failed" /\ (it'.action = "nofollow" => IsName(it'.seen))
    BY <2>2 DEF Policy
  <2> QED BY <1>0, <1>a, <2>1, <2>2, <2>3
<1>4. CASE OpenDir \/ Reopen
  <2>1. /\ UNCHANGED got /\ it'.path = it.path
        /\ \/ at' \in {"check", "list"} /\ it' = it /\ out' = out
           \/ at' = "row" /\ it'.action = "failed" /\ SameFinds /\ Adds({<<it.path, "open", 1>>})
    BY <1>4, OpeningIs
  <2>2. at \in {"open", "reopen"}
    BY <1>4, WalkMoves
  <2>3. CASE at' \in {"check", "list"} /\ out' = out
    <3>1. Failing' = Failing /\ Entered' = Entered
      BY <2>1, <2>3, ErrorSets, OtherSets
    <3> QED BY <1>0, <1>a, <2>3, <3>1
  <2>4. CASE at' = "row" /\ it'.action = "failed" /\ SameFinds /\ Adds({<<it.path, "open", 1>>})
    <3>1. Failing' = Failing \cup {it.path} /\ Entered' = Entered /\ out'.links = out.links
      BY <2>1, <2>4, ErrorSets, OtherSets DEF SameFinds
    <3> QED BY <1>0, <1>a, <2>1, <2>2, <2>4, <3>1
  <2> QED BY <2>1, <2>3, <2>4
<1>5. CASE Check
  <2>1. /\ UNCHANGED <<stack, got, out>> /\ it'.path = it.path
        /\ at' = "row" => it'.action = "nofollow" /\ IsName(it'.seen)
    BY <1>5, CheckIs
  <2>2. at = "check"
    BY <1>5, WalkMoves
  <2>3. Entered' = Entered /\ Failing' = Failing
    BY <2>1, ErrorSets, OtherSets
  <2> QED BY <1>0, <1>a, <2>1, <2>2, <2>3
<1>6. CASE List
  <2>1. at = "list" /\ at' = "row" /\ it'.path = it.path /\ out'.links = out.links
    BY <1>6, ListIs, WalkMoves
  <2>2. \/ Entered' = Entered /\ Failing' = Failing \cup {it.path} /\ it'.action = "failed"
        \/ Entered' = Entered \cup {it.path} /\ Failing' = Failing /\ it' = it
    BY <1>6, ListSets
  <2>3. \A r \in out.links : r[1] # it.path
    BY <1>0, <2>1
  <2>4. \A r \in out'.links : Says(r, Entered', Failing')
    BY <1>0, <2>1, <2>2, <2>3
  <2> QED BY <1>0, <1>a, <2>1, <2>2, <2>4
<1>7. CASE Row
  <2>1. /\ UNCHANGED <<it, got>> /\ at = "row" /\ at' = "pop"
        /\ out'.links = out.links \cup {<<it.path, it.seen, it.action>>} \/ out'.links = out.links
        /\ \E new : NoteOf(new) /\ Adds(new)
    BY <1>7, RowIs, WalkMoves
  <2>2. Entered' = Entered /\ Failing' = Failing
    BY <2>1, NoteKeeps, OtherSets
  <2>3. <<it.path, it.seen, it.action>>[1] = it.path /\ <<it.path, it.seen, it.action>>[3] = it.action
    OBVIOUS
  <2>4. Says(<<it.path, it.seen, it.action>>, Entered, Failing)
    BY <1>0, <2>1, <2>3
  <2>5. \A r \in out'.links : Says(r, Entered', Failing')
    BY <1>0, <2>1, <2>2, <2>4
  <2> QED BY <1>a, <2>1, <2>5
<1> QED BY <1>1, <1>2, <1>3, <1>4, <1>5, <1>6, <1>7

\* The numbers. One more of the directories listed is in hand while it is tried, and
\* until the row of one that is not followed is written.
InHand == IF Trying \/ (at = "row" /\ it.action = "nofollow") THEN 1 ELSE 0

LEMMA CountInit == WalkInit => CountInv
<1> SUFFICES ASSUME WalkInit PROVE CountInv
  OBVIOUS
<1>1. got = {} /\ out.links = {} /\ out.errors = {} /\ at = "start" /\ out.count = 0 /\ out.pruned = 0 /\ out.limited = 0
  BY DEF WalkInit, NoResult
<1>2. Entered = {} /\ Failing = {} /\ Unnamed = {} /\ NotFollowed = {}
  BY <1>1 DEF Entered, Failing, NotFollowed, Unnamed, OfKind
<1> QED BY <1>1, <1>2, FS_EmptySet DEF CountInv, Trying

LEMMA CountStep == ASSUME TypesInv, OnceInv, DecidedInv, CountInv, [WalkNext]_walkVars PROVE CountInv'
<1> DEFINE Sum == Cardinality(Entered) + Cardinality(Failing) + out.pruned + out.limited + Cardinality(NotFollowed)
<1>0. /\ IsFiniteSet(Entered) /\ IsFiniteSet(Failing) /\ IsFiniteSet(Unnamed) /\ IsFiniteSet(NotFollowed)
      /\ out.count + Cardinality(Unnamed)
           = Cardinality(Entered) + Cardinality(Failing) + out.pruned + out.limited + Cardinality(NotFollowed) + InHand
  BY DEF CountInv, InHand
<1>n. /\ out.count \in Nat /\ out.pruned \in Nat /\ out.limited \in Nat
      /\ Cardinality(Unnamed) \in Nat /\ Cardinality(Entered) \in Nat /\ Cardinality(Failing) \in Nat
      /\ Cardinality(NotFollowed) \in Nat
  BY <1>0, FS_CardinalityType DEF TypesInv, OutTypes, Results
<1>a. ASSUME /\ IsFiniteSet(Entered') /\ IsFiniteSet(Failing') /\ IsFiniteSet(Unnamed') /\ IsFiniteSet(NotFollowed')
             /\ out'.count + Cardinality(Unnamed')
                  = Cardinality(Entered') + Cardinality(Failing') + out'.pruned + out'.limited
                    + Cardinality(NotFollowed') + InHand'
      PROVE  CountInv'
  BY <1>a DEF CountInv, InHand
<1>b. \A S, x : IsFiniteSet(S) /\ x \notin S =>
        IsFiniteSet(S \cup {x}) /\ Cardinality(S \cup {x}) = Cardinality(S) + 1
  BY FS_AddElement
<1>h. /\ Trying <=> at \in {"open", "check", "reopen", "list"}
      /\ Trying' <=> at' \in {"open", "check", "reopen", "list"}
  BY DEF Trying
<1>i. /\ InHand = (IF at \in {"open", "check", "reopen", "list"} \/ (at = "row" /\ it.action = "nofollow") THEN 1 ELSE 0)
      /\ InHand' = (IF at' \in {"open", "check", "reopen", "list"} \/ (at' = "row" /\ it'.action = "nofollow") THEN 1 ELSE 0)
  BY <1>h DEF InHand
<1>o. /\ at \in {"open", "check", "reopen", "list"} => it.action = "descended" /\ it.path \notin Entered \cup Failing
      /\ Waiting \cap Nameless = {}
      /\ at = "row" => it.path \notin Named
  BY DEF OnceInv, Trying, Busy
<1>1. CASE ~RootClassify /\ ~Pop /\ ~OpenDir /\ ~Reopen /\ ~Check /\ ~List /\ ~Row
  <2>1. /\ got' = got /\ out'.links = out.links /\ out'.errors = out.errors
        /\ out'.count = out.count /\ out'.pruned = out.pruned /\ out'.limited = out.limited
        /\ \/ at' = at /\ it' = it
           \/ /\ at \notin {"open", "check", "reopen", "list", "row"}
              /\ at' \notin {"open", "check", "reopen", "list", "row", "pop"}
    BY <1>1, StillIs
  <2>2. Entered' = Entered /\ Failing' = Failing /\ Unnamed' = Unnamed /\ NotFollowed' = NotFollowed
    BY <2>1, ErrorSets, OtherSets
  <2>3. InHand' = InHand
    BY <1>i, <2>1
  <2> QED BY <1>0, <1>a, <2>1, <2>2, <2>3
<1>2. CASE RootClassify
  <2>1. at = "classify" /\ at' = "pop" /\ got' = got
    BY <1>2, WalkMoves DEF RootClassify
  <2>2. out' = out \/ out' = WithRows(out, Root, "classify", 1)
    BY <1>2 DEF RootClassify
  <2>3. /\ out'.links = out.links /\ (out'.errors = out.errors \/ Adds({<<Root, "classify", 1>>}))
        /\ out'.count = out.count /\ out'.pruned = out.pruned /\ out'.limited = out.limited
    <3>1. "classify" \in Whys /\ Root \in Paths
      BY PathsAre DEF Whys
    <3> QED BY <2>2, <3>1, RowsInto DEF SameFinds, SameTotals
  <2>4. Entered' = Entered /\ Failing' = Failing /\ Unnamed' = Unnamed /\ NotFollowed' = NotFollowed
    BY <2>1, <2>3, ErrorSets, OtherSets
  <2>5. InHand' = InHand
    BY <1>i, <2>1
  <2> QED BY <1>0, <1>a, <2>3, <2>4, <2>5
<1>3. CASE Pop
  <2>1. /\ it'.path \in Waiting /\ Entered' = Entered /\ Failing' = Failing /\ NotFollowed' = NotFollowed
        /\ \/ Unnamed' = Unnamed /\ out'.count = out.count + 1
           \/ Unnamed' = Unnamed \cup {<<it'.path, "name", 1>>} /\ out'.count = out.count
    BY <1>3, PopSets
  <2>2. /\ it'.action = Policy(Last(stack))
        /\ at' = (IF Policy(Last(stack)) = "descended" THEN "open" ELSE "row")
        /\ out'.pruned = out.pruned + (IF Policy(Last(stack)) = "pruned" THEN 1 ELSE 0)
        /\ out'.limited = out.limited + (IF Policy(Last(stack)) = "depthlimited" THEN 1 ELSE 0)
    BY <1>3, PopIs
  <2>3. Policy(Last(stack)) \in {"depthlimited", "pruned", "nofollow", "descended"}
    BY DEF Policy
  <2>4. at = "pop"
    BY <1>3, WalkMoves
  <2>5. <<it'.path, "name", 1>> \notin Unnamed
    <3>1. \A e \in Unnamed : e[1] \in Nameless
      BY DEF Nameless
    <3>2. <<it'.path, "name", 1>>[1] = it'.path
      OBVIOUS
    <3> QED BY <1>o, <2>1, <3>1, <3>2
  <2>6. out'.count + Cardinality(Unnamed') = out.count + Cardinality(Unnamed) + 1 /\ IsFiniteSet(Unnamed')
    <3>1. CASE Unnamed' = Unnamed /\ out'.count = out.count + 1
      BY <1>0, <1>n, <3>1
    <3>2. CASE Unnamed' = Unnamed \cup {<<it'.path, "name", 1>>} /\ out'.count = out.count
      <4>1. IsFiniteSet(Unnamed') /\ Cardinality(Unnamed') = Cardinality(Unnamed) + 1
        BY <1>0, <1>b, <2>5, <3>2
      <4> QED BY <1>n, <3>2, <4>1
    <3> QED BY <2>1, <3>1, <3>2
  <2>7. InHand = 0 /\ out'.pruned + out'.limited + InHand' = out.pruned + out.limited + 1
        /\ out'.pruned \in Nat /\ out'.limited \in Nat /\ InHand' \in Nat
    BY <1>i, <1>n, <2>2, <2>3, <2>4
  <2>8. out'.count + Cardinality(Unnamed')
          = Cardinality(Entered) + Cardinality(Failing) + out'.pruned + out'.limited + Cardinality(NotFollowed) + InHand'
    <3>1. InHand = 0 /\ out'.pruned + out'.limited + InHand' = out.pruned + out.limited + 1
          /\ out'.pruned \in Nat /\ out'.limited \in Nat /\ InHand' \in Nat
      BY <2>7
    <3>a. out.count + Cardinality(Unnamed)
            = Cardinality(Entered) + Cardinality(Failing) + out.pruned + out.limited + Cardinality(NotFollowed)
      BY <1>0, <1>n, <3>1
    <3>2. out.count + Cardinality(Unnamed) + 1
            = Cardinality(Entered) + Cardinality(Failing) + out'.pruned + out'.limited + Cardinality(NotFollowed) + InHand'
      <4> DEFINE c == out.count  u == Cardinality(Unnamed)  e == Cardinality(Entered)  f == Cardinality(Failing)
                 n == Cardinality(NotFollowed)  p == out.pruned  l == out.limited
                 q == out'.pruned  m == out'.limited  w == InHand'
      <4>1. c \in Nat /\ u \in Nat /\ e \in Nat /\ f \in Nat /\ n \in Nat /\ p \in Nat /\ l \in Nat
        BY <1>n
      <4>2. q \in Nat /\ m \in Nat /\ w \in Nat /\ q + m + w = p + l + 1
        BY <3>1
      <4>3. c + u = e + f + p + l + n
        BY <3>a
      <4> HIDE DEF c, u, e, f, n, p, l, q, m, w
      <4>4. c + u + 1 = e + f + q + m + n + w
        BY <4>1, <4>2, <4>3
      <4> QED BY <4>4 DEF c, u, e, f, n, p, l, q, m, w
    <3> QED BY <2>6, <3>2
  <2> QED BY <1>0, <1>a, <2>1, <2>6, <2>8
<1>4. CASE OpenDir \/ Reopen
  <2>1. /\ UNCHANGED got /\ it'.path = it.path
        /\ \/ at' \in {"check", "list"} /\ it' = it /\ out' = out
           \/ at' = "row" /\ it'.action = "failed" /\ SameTotals /\ SameFinds /\ Adds({<<it.path, "open", 1>>})
    BY <1>4, OpeningIs
  <2>2. at \in {"open", "reopen"}
    BY <1>4, WalkMoves
  <2>3. CASE at' \in {"check", "list"} /\ out' = out
    <3>1. Failing' = Failing /\ Entered' = Entered /\ Unnamed' = Unnamed /\ NotFollowed' = NotFollowed
      BY <2>1, <2>3, ErrorSets, OtherSets
    <3>2. InHand' = InHand
      BY <1>i, <2>2, <2>3
    <3> QED BY <1>0, <1>a, <2>3, <3>1, <3>2
  <2>4. CASE at' = "row" /\ it'.action = "failed" /\ SameTotals /\ SameFinds /\ Adds({<<it.path, "open", 1>>})
    <3>1. Failing' = Failing \cup {it.path} /\ Unnamed' = Unnamed
      BY <2>4, ErrorSets
    <3>2. Entered' = Entered /\ NotFollowed' = NotFollowed
      BY <2>1, <2>4, OtherSets DEF SameFinds
    <3>3. out'.count = out.count /\ out'.pruned = out.pruned /\ out'.limited = out.limited
      BY <2>4 DEF SameTotals
    <3>4. IsFiniteSet(Failing') /\ Cardinality(Failing') = Cardinality(Failing) + 1
      BY <1>0, <1>b, <1>o, <2>2, <3>1
    <3>5. InHand = 1 /\ InHand' = 0
      BY <1>i, <2>2, <2>4
    <3> QED BY <1>0, <1>a, <1>n, <3>1, <3>2, <3>3, <3>4, <3>5
  <2> QED BY <2>1, <2>3, <2>4
<1>5. CASE Check
  <2>1. /\ UNCHANGED <<got, out>>
        /\ \/ at' = "row" /\ it'.action = "nofollow"
           \/ at' \in {"reopen", "list"}
    BY <1>5, CheckIs
  <2>2. at = "check"
    BY <1>5, WalkMoves
  <2>3. Entered' = Entered /\ Failing' = Failing /\ Unnamed' = Unnamed /\ NotFollowed' = NotFollowed
    BY <2>1, ErrorSets, OtherSets
  <2>4. InHand' = InHand
    BY <1>i, <2>1, <2>2
  <2> QED BY <1>0, <1>a, <2>1, <2>3, <2>4
<1>6. CASE List
  <2>1. at = "list" /\ at' = "row" /\ SameTotals
    BY <1>6, ListIs, WalkMoves
  <2>2. /\ Unnamed' = Unnamed /\ NotFollowed' = NotFollowed
        /\ \/ Entered' = Entered /\ Failing' = Failing \cup {it.path} /\ it'.action = "failed"
           \/ Entered' = Entered \cup {it.path} /\ Failing' = Failing /\ it' = it
    BY <1>6, ListSets
  <2>3. out'.count = out.count /\ out'.pruned = out.pruned /\ out'.limited = out.limited
    BY <2>1 DEF SameTotals
  <2>4. InHand = 1 /\ InHand' = 0
    BY <1>i, <1>o, <2>1, <2>2
  <2>5. CASE Entered' = Entered /\ Failing' = Failing \cup {it.path}
    <3>1. IsFiniteSet(Failing') /\ Cardinality(Failing') = Cardinality(Failing) + 1
      BY <1>0, <1>b, <1>o, <2>1, <2>5
    <3> QED BY <1>0, <1>a, <1>n, <2>2, <2>3, <2>4, <2>5, <3>1
  <2>6. CASE Entered' = Entered \cup {it.path} /\ Failing' = Failing
    <3>1. IsFiniteSet(Entered') /\ Cardinality(Entered') = Cardinality(Entered) + 1
      BY <1>0, <1>b, <1>o, <2>1, <2>6
    <3> QED BY <1>0, <1>a, <1>n, <2>2, <2>3, <2>4, <2>6, <3>1
  <2> QED BY <2>2, <2>5, <2>6
<1>7. CASE Row
  <2>1. /\ UNCHANGED <<it, got>> /\ at = "row" /\ at' = "pop" /\ SameTotals
        /\ IF it.seen \in Reparse THEN out'.links = out.links \cup {<<it.path, it.seen, it.action>>}
           ELSE out'.links = out.links
        /\ \E new : NoteOf(new) /\ Adds(new)
    BY <1>7, RowIs, WalkMoves
  <2>2. Entered' = Entered /\ Failing' = Failing /\ Unnamed' = Unnamed
    BY <2>1, NoteKeeps, OtherSets
  <2>3. out'.count = out.count /\ out'.pruned = out.pruned /\ out'.limited = out.limited
    BY <2>1 DEF SameTotals
  <2>4. CASE it.action = "nofollow"
    <3>1. it.seen \in Reparse
      BY <2>1, <2>4 DEF DecidedInv, IsName
    <3>2. NotFollowed' = NotFollowed \cup {<<it.path, it.seen, it.action>>}
      <4>1. out'.links = out.links \cup {<<it.path, it.seen, it.action>>}
        BY <2>1, <3>1
      <4>2. NotFollowed' = IF it.action = "nofollow" THEN NotFollowed \cup {<<it.path, it.seen, it.action>>}
                           ELSE NotFollowed
        BY <4>1, NamedIs
      <4> QED BY <2>4, <4>2
    <3>3. <<it.path, it.seen, it.action>> \notin NotFollowed
      <4>1. <<it.path, it.seen, it.action>>[1] = it.path
        OBVIOUS
      <4>2. \A r \in NotFollowed : r[1] \in Named
        BY DEF NotFollowed, Named
      <4> QED BY <1>o, <2>1, <4>1, <4>2
    <3>4. IsFiniteSet(NotFollowed') /\ Cardinality(NotFollowed') = Cardinality(NotFollowed) + 1
      BY <1>0, <1>b, <3>2, <3>3
    <3>5. InHand = 1 /\ InHand' = 0
      BY <1>i, <2>1, <2>4
    <3> QED BY <1>0, <1>a, <1>n, <2>2, <2>3, <3>4, <3>5
  <2>5. CASE it.action # "nofollow"
    <3>1. NotFollowed' = NotFollowed
      <4>1. CASE out'.links = out.links
        BY <4>1, OtherSets
      <4>2. CASE out'.links = out.links \cup {<<it.path, it.seen, it.action>>}
        <5>1. NotFollowed' = IF it.action = "nofollow" THEN NotFollowed \cup {<<it.path, it.seen, it.action>>} ELSE NotFollowed
          BY <4>2, NamedIs
        <5> QED BY <2>5, <5>1
      <4> QED BY <2>1, <4>1, <4>2
    <3>2. InHand = 0 /\ InHand' = 0
      BY <1>i, <2>1, <2>5
    <3> QED BY <1>0, <1>a, <2>2, <2>3, <3>1, <3>2
  <2> QED BY <2>4, <2>5
<1> QED BY <1>1, <1>2, <1>3, <1>4, <1>5, <1>6, <1>7

LEMMA RootInit == WalkInit => RootInv
BY DEF WalkInit, RootInv, Busy

LEMMA RootStep == ASSUME TypesInv, EscapeInv, RootInv, [WalkNext]_walkVars PROVE RootInv'
<1> SUFFICES ASSUME opt'.mode # "canon" PROVE RootInv'
  BY DEF RootInv
<1> DEFINE busy == {"open", "check", "reopen", "list", "row"}
           early == {"start", "root", "classify"}
           known == fs[Root]
<1>0. /\ opt' = opt /\ opt.mode # "canon" /\ fs \in [Paths -> Kinds] /\ Root \in Paths /\ it.path \in Paths
  <2>1. opt' = opt
    BY WalkMoves DEF WalkNext, Swap, walkVars, Quiet
  <2> QED BY <2>1, ItIs, PathsAre DEF TypesInv, StateTypes
<1>1. /\ \A s \in swaps : s[1] # Root
      /\ \A i \in DOMAIN stack : stack[i].path = Root => stack[i].seen = known \/ RootExcused
      /\ at \in busy /\ it.path = Root => it.seen = known \/ RootExcused
      /\ \/ at \in early \/ (at # "done" /\ Root \in Waiting) \/ (at \in busy /\ it.path = Root)
         \/ at = "done" /\ out.code # "ok"
         \/ RootShown
  BY <1>0 DEF RootInv, Busy
<1>2. known' = known /\ \A s \in swaps' : s[1] # Root
  <2>1. CASE Swap
    <3>1. PICK p \in Paths, k \in {"none", "file", "dir", "junction", "broken"} :
            /\ p # Root
            /\ swaps' = swaps \cup {<<p, fs[p]>>}
            /\ fs' = [q \in Paths |-> IF q = p THEN k ELSE IF IsStrictPrefix(p, q) THEN "none" ELSE fs[q]]
      BY <1>0, <2>1 DEF Swap
    <3>2. ~IsStrictPrefix(p, Root)
      BY <1>0, <3>1, PrefixOrder DEF IsStrictPrefix
    <3>3. <<p, fs[p]>>[1] # Root
      BY <3>1
    <3> QED BY <1>0, <1>1, <3>1, <3>2, <3>3
  <2>2. CASE ~Swap
    BY <1>1, <2>2, WalkMoves DEF WalkNext, walkVars, Quiet
  <2> QED BY <2>1, <2>2
<1>a. ASSUME \A i \in DOMAIN stack' : stack'[i].path = Root => stack'[i].seen = known \/ RootExcused',
             at' \in busy /\ it'.path = Root => it'.seen = known \/ RootExcused',
             \/ at' \in early \/ (at' # "done" /\ Root \in Waiting') \/ (at' \in busy /\ it'.path = Root)
             \/ at' = "done" /\ out'.code # "ok"
             \/ RootShown'
      PROVE  RootInv'
  BY <1>a, <1>2 DEF RootInv, Busy
<1>b. out.errors \subseteq out'.errors => (RootExcused => RootExcused')
  <2>1. faults \in Nat /\ (faults' = faults \/ faults' = faults + 1)
    BY WalkMoves DEF WalkNext, Swap, walkVars, Quiet, TypesInv, StateTypes
  <2>2. faults > 0 => faults' > 0
    BY <2>1
  <2> QED BY <1>2, <2>2 DEF RootExcused, Errors
<1>c. out.errors \subseteq out'.errors /\ out.links \subseteq out'.links => (RootShown => RootShown')
  BY <1>2, <1>b DEF RootShown, Shown
<1>3. CASE ~RootClassify /\ ~Pop /\ ~OpenDir /\ ~Reopen /\ ~Check /\ ~List /\ ~Row
  <2>1. /\ stack' = stack /\ it'.path = it.path /\ it'.seen = it.seen
        /\ out'.links = out.links /\ out'.errors = out.errors
        /\ \/ at' = at /\ out' = out
           \/ /\ at \notin busy /\ at' \notin busy \cup {"pop"}
              /\ at' \in early => at \in early
              /\ at' = "done" => (out'.code = "ok" => at = "pop" /\ stack = <<>>)
    BY <1>0, <1>3, StillIs
  <2>2. Waiting' = Waiting /\ (RootExcused => RootExcused') /\ (RootShown => RootShown')
    BY <1>b, <1>c, <2>1, OtherSets
  <2>3. at' \in early \cup busy \cup {"pop", "done"}
    BY <1>0, TypesStep DEF TypesInv, StateTypes, WalkSteps
  <2>4. CASE at' = at /\ out' = out
    BY <1>1, <1>a, <2>1, <2>2, <2>4
  <2>5. CASE /\ at \notin busy /\ at' \notin busy \cup {"pop"}
             /\ at' \in early => at \in early
             /\ at' = "done" => (out'.code = "ok" => at = "pop" /\ stack = <<>>)
    <3>1. stack = <<>> => Waiting = {}
      BY DEF Waiting
    <3> QED BY <1>1, <1>a, <2>1, <2>2, <2>3, <2>5, <3>1
  <2> QED BY <2>1, <2>4, <2>5
<1>4. CASE RootClassify
  <2>1. at = "classify" /\ at' = "pop" /\ got' = got
    BY <1>4, WalkMoves DEF RootClassify
  <2>2. PICK sees \in BOOLEAN : /\ stack' = <<[path |-> Root, seen |-> RootSeen(sees), pruned |-> FALSE]>>
                                /\ \/ sees \/ out' = WithRows(out, Root, "classify", 1)
                                   \/ fs[Root] = "cloud" /\ Fails
    BY <1>4 DEF RootClassify
  <2>3. sees \/ RootExcused'
    <3>1. "classify" \in Whys
      BY DEF Whys
    <3>3. CASE fs[Root] = "cloud" /\ Fails
      BY <1>2, <3>3 DEF RootExcused, Fails, TypesInv, StateTypes
    <3>2. CASE out' = WithRows(out, Root, "classify", 1)
      <4>1. <<Root, "classify", 1>> \in out'.errors /\ <<Root, "classify", 1>>[1] = Root
        BY <1>0, <3>1, <3>2, RowsInto DEF Adds
      <4> QED BY <4>1 DEF RootExcused, Errors
    <3> QED BY <2>2, <3>2, <3>3
  <2>4. DOMAIN stack' = {1} /\ stack'[1].path = Root /\ (sees => stack'[1].seen = known)
    BY <2>2 DEF RootSeen
  <2>5. Root \in Waiting'
    BY <2>4 DEF Waiting
  <2> QED BY <1>a, <2>1, <2>3, <2>4, <2>5
<1>5. CASE Pop
  <2>1. /\ Len(stack) \in DOMAIN stack /\ Last(stack) = stack[Len(stack)] /\ DOMAIN stack' = DOMAIN stack \ {Len(stack)}
        /\ \A i \in DOMAIN stack' : stack'[i] = stack[i]
        /\ it'.path = Last(stack).path /\ it'.seen = Last(stack).seen
        /\ at' \in {"open", "row"} /\ out'.links = out.links
        /\ out'.errors = out.errors \/ Adds({<<Last(stack).path, "name", 1>>})
    BY <1>5, PopIs DEF SameFinds
  <2>2. out.errors \subseteq out'.errors /\ out.links \subseteq out'.links
    BY <2>1 DEF Adds
  <2>3. at = "pop"
    BY <1>5, WalkMoves
  <2>4. Root \in Waiting => Root \in Waiting' \/ it'.path = Root
    BY <2>1 DEF Waiting
  <2> QED BY <1>1, <1>a, <1>b, <1>c, <2>1, <2>2, <2>3, <2>4
<1>6. CASE OpenDir \/ Reopen
  <2>1. /\ stack' = stack /\ it'.path = it.path /\ it'.seen = it.seen /\ at' \in {"check", "list", "row"}
        /\ out' = out \/ (SameFinds /\ Adds({<<it.path, "open", 1>>}))
    BY <1>6, OpeningIs
  <2>2. out.errors \subseteq out'.errors /\ out.links \subseteq out'.links
    BY <2>1 DEF Adds, SameFinds
  <2>3. at \in {"open", "reopen"} /\ Waiting' = Waiting
    BY <1>6, <2>1, WalkMoves, OtherSets
  <2> QED BY <1>1, <1>a, <1>b, <1>c, <2>1, <2>2, <2>3
<1>7. CASE Check
  <2>1. /\ UNCHANGED <<stack, out>> /\ it'.path = it.path /\ at' \in {"row", "reopen", "list"}
    BY <1>7, CheckIs
  <2>2. at = "check" /\ it.path # Root
    BY <1>7, WalkMoves DEF EscapeInv
  <2>3. Waiting' = Waiting /\ (RootExcused => RootExcused') /\ (RootShown => RootShown')
    BY <1>b, <1>c, <2>1, OtherSets
  <2> QED BY <1>1, <1>a, <2>1, <2>2, <2>3
<1>8. CASE List
  <2>1. /\ it'.path = it.path /\ it'.seen = it.seen /\ at = "list" /\ at' = "row" /\ out'.links = out.links
    BY <1>8, ListIs, WalkMoves
  <2>2. \/ stack' = stack /\ \E es : Adds(es)
        \/ \E kept \in SUBSET via.kids : \E es : stack' = Pushed(kept) /\ Adds(es)
    <3>1. \A lost : Subfolders \ lost \in SUBSET via.kids
      BY DEF Subfolders
    <3>2. CASE stack' = stack /\ Adds({<<it.path, "list", 1>>})
      BY <3>2
    <3>3. CASE \E lost \in SUBSET via.kids, why \in {"lost", "cut"} :
                 /\ stack' = Pushed(Subfolders \ lost)
                 /\ \E es \in SUBSET (Paths \X Whys \X Nat), ls, ms, bs \in SUBSET Paths :
                      Gains(lost, why, es, ls, ms, bs)
      BY <3>1, <3>3 DEF Gains
    <3> QED BY <1>8, <3>2, <3>3, ListIs
  <2>3. out.errors \subseteq out'.errors /\ out.links \subseteq out'.links
    BY <2>1, <2>2 DEF Adds
  <2>4. \A i \in DOMAIN stack' : (i \in DOMAIN stack /\ stack'[i] = stack[i]) \/ stack'[i].path # Root
    <3>1. CASE stack' = stack
      BY <3>1
    <3>2. ASSUME NEW kept \in SUBSET via.kids, stack' = Pushed(kept), NEW i \in DOMAIN stack'
          PROVE  (i \in DOMAIN stack /\ stack'[i] = stack[i]) \/ stack'[i].path # Root
      <4>1. CASE i \in DOMAIN stack
        BY <3>2, <4>1, PushedIs
      <4>2. CASE i \notin DOMAIN stack
        <5>1. PICK c \in kept : stack'[i] = Item(c)
          BY <3>2, <4>2, PushedIs
        <5> QED BY <5>1, ChildIs DEF Item
      <4> QED BY <4>1, <4>2
    <3> QED BY <2>2, <3>1, <3>2
  <2>5. Waiting \subseteq Waiting'
    <3>1. DOMAIN stack \subseteq DOMAIN stack' /\ \A i \in DOMAIN stack : stack'[i] = stack[i]
      BY <2>2, PushedIs
    <3> QED BY <3>1 DEF Waiting
  <2> QED BY <1>1, <1>a, <1>b, <1>c, <2>1, <2>3, <2>4, <2>5
<1>9. CASE Row
  <2>1. /\ UNCHANGED <<stack, it>> /\ at = "row" /\ at' = "pop"
        /\ IF it.seen \in Reparse THEN out'.links = out.links \cup {<<it.path, it.seen, it.action>>}
           ELSE out'.links = out.links
        /\ \E new : NoteOf(new) /\ Adds(new)
    BY <1>9, RowIs, WalkMoves
  <2>2. out.errors \subseteq out'.errors /\ out.links \subseteq out'.links /\ Waiting' = Waiting
    BY <2>1, OtherSets DEF Adds
  <2>3. CASE it.path = Root
    <3>1. CASE it.seen \in Reparse
      <4>1. <<it.path, it.seen, it.action>> \in out'.links /\ <<it.path, it.seen, it.action>>[1] = Root
        BY <2>1, <2>3, <3>1
      <4>2. RootShown'
        BY <4>1 DEF RootShown, Shown
      <4> QED BY <1>1, <1>a, <1>b, <2>1, <2>2, <4>2
    <3>2. CASE it.seen \notin Reparse
      <4>1. known \notin Reparse \/ RootExcused'
        BY <1>1, <1>b, <2>1, <2>2, <2>3, <3>2
      <4>2. RootShown'
        BY <1>2, <4>1 DEF RootShown
      <4> QED BY <1>1, <1>a, <1>b, <2>1, <2>2, <4>2
    <3> QED BY <3>1, <3>2
  <2>4. CASE it.path # Root
    BY <1>1, <1>a, <1>b, <1>c, <2>1, <2>2, <2>4
  <2> QED BY <2>3, <2>4
<1> QED BY <1>3, <1>4, <1>5, <1>6, <1>7, <1>8, <1>9
---------------------------------------------------------------------------
(* What is below a directory, and what a handle shows of it.                  *)

\* A name that nobody touched is what it was.
LEMMA ChangeKeeps ==
  ASSUME TypesInv, [WalkNext]_walkVars
  PROVE  /\ opt' = opt /\ swaps \subseteq swaps'
         /\ \A p \in Paths : ~Moved(p)' => ~Moved(p) /\ fs'[p] = fs[p]
         /\ \A q : Below(q)' \subseteq Below(q)
<1>1. CASE Swap
  <2>1. PICK r \in Paths, k \in {"none", "file", "dir", "junction", "broken"} :
          /\ swaps' = swaps \cup {<<r, fs[r]>>}
          /\ fs' = [q \in Paths |-> IF q = r THEN k ELSE IF IsStrictPrefix(r, q) THEN "none" ELSE fs[q]]
    BY <1>1 DEF Swap
  <2>2. <<r, fs[r]>> \in swaps' /\ <<r, fs[r]>>[1] = r /\ IsPrefix(r, r)
    BY <2>1, PrefixOrder
  <2>3. \A p \in Paths : fs'[p] = fs[p] \/ IsPrefix(r, p)
    BY <2>1, <2>2 DEF IsStrictPrefix
  <2>4. \A p \in Paths : ~Moved(p)' => ~Moved(p) /\ fs'[p] = fs[p]
    BY <2>1, <2>2, <2>3 DEF Moved
  <2>5. opt' = opt /\ swaps \subseteq swaps'
    BY <1>1, <2>1 DEF Swap
  <2> QED BY <2>4, <2>5 DEF Below
<1>2. CASE ~Swap
  <2>1. UNCHANGED <<fs, swaps, opt>>
    BY <1>2, WalkMoves DEF WalkNext, walkVars, Quiet
  <2> QED BY <2>1 DEF Moved, Below
<1> QED BY <1>1, <1>2

LEMMA TreeInit == WalkInit => TreeInv
BY TreeAssumption DEF WalkInit, TreeInv

LEMMA TreeStep == ASSUME TypesInv, TreeInv, [WalkNext]_walkVars PROVE TreeInv'
<1>1. CASE Swap
  <2>1. PICK r \in Paths, k \in {"none", "file", "dir", "junction", "broken"} :
          /\ r # Root => fs[r] # "none"
          /\ fs' = [q \in Paths |-> IF q = r THEN k ELSE IF IsStrictPrefix(r, q) THEN "none" ELSE fs[q]]
    BY <1>1 DEF Swap
  <2>2. SUFFICES ASSUME NEW p \in Paths \ {Root}, fs'[p] # "none"
                 PROVE  fs'[Parent(p)] \in {"dir", "cloud"} \/ Parent(p) = Root
    BY DEF TreeInv
  <2>3. Parent(p) \in Paths /\ IsStrictPrefix(Parent(p), p)
    BY ParentPath
  <2>a. ~IsStrictPrefix(r, p)
    <3>1. p = r => ~IsStrictPrefix(r, p)
      BY DEF IsStrictPrefix
    <3>2. fs'[p] = IF p = r THEN k ELSE IF IsStrictPrefix(r, p) THEN "none" ELSE fs[p]
      BY <2>1
    <3> QED BY <2>2, <3>1, <3>2
  <2>4. fs[p] # "none" /\ ~IsStrictPrefix(r, p)
    <3>1. fs'[p] = IF p = r THEN k ELSE fs[p]
      BY <2>1, <2>a
    <3> QED BY <2>1, <2>2, <2>a, <3>1
  <2>5. Parent(p) # r
    BY <2>3, <2>4
  <2>6. ~IsStrictPrefix(r, Parent(p))
    BY <2>3, <2>4, PrefixOrder DEF IsStrictPrefix
  <2>7. fs'[Parent(p)] = fs[Parent(p)]
    BY <2>1, <2>3, <2>5, <2>6
  <2> QED BY <2>4, <2>7 DEF TreeInv
<1>2. CASE ~Swap
  <2>1. UNCHANGED fs
    BY <1>2, WalkMoves DEF WalkNext, walkVars, Quiet
  <2> QED BY <2>1 DEF TreeInv
<1> QED BY <1>1, <1>2

\* A handle that was opened shows all that nobody touched.
LEMMA OpenedShows ==
  ASSUME TypesInv, TreeInv, NEW p \in Paths, Chain(p), NEW follow \in BOOLEAN, p = Root => follow,
         Opened(p, follow).kind \notin Files \cup {"none"}
  PROVE  \A q \in Below(p) : [name |-> Last(q), kind |-> fs[q]] \in Opened(p, follow).kids
<1> SUFFICES ASSUME NEW q \in Below(p) PROVE [name |-> Last(q), kind |-> fs[q]] \in Opened(p, follow).kids
  OBVIOUS
<1>0. fs \in [Paths -> Kinds] /\ q \in Paths /\ q # Root /\ Parent(q) = p /\ ~Moved(q) /\ fs[q] # "none"
  BY DEF TypesInv, StateTypes, Below
<1>1. Len(p) < MaxDepth /\ Last(q) \in 1 .. Width /\ q = Append(p, Last(q)) /\ IsStrictPrefix(p, q)
  BY <1>0, ParentPath
<1>2. ~Moved(p)
  BY <1>0, <1>1, MovedBelow DEF Above, Moved, IsStrictPrefix
<1>3. \A r \in Ancestors(p) : r # Root => fs[r] \notin {"junction", "alias"}
  <2>1. \A r \in Ancestors(p) : r \in Paths /\ IsStrictPrefix(r, p)
    BY AncestorsAre
  <2>2. \A r \in Ancestors(p) : Moved(r) => Moved(p)
    BY <2>1, MovedBelow DEF IsStrictPrefix
  <2> QED BY <1>2, <2>2 DEF Chain
<1>4. Leads(p) = [kind |-> fs[p], where |-> "in", kids |-> IF fs[p] \in {"dir", "cloud"} THEN Kids(p) ELSE {}]
  BY <1>3 DEF Leads
<1>5. [name |-> Last(q), kind |-> fs[q]] \in Kids(p)
  BY <1>0, <1>1 DEF Kids
<1>6. fs[p] \in {"dir", "cloud"} \/ p = Root
  BY <1>0 DEF TreeInv
<1>7. CASE fs[p] \in {"dir", "cloud"}
  <2>1. Leads(p).kids = Kids(p) /\ Leads(p).kind = fs[p]
    BY <1>4, <1>7
  <2>2. Opened(p, follow) = Leads(p) \/ Opened(p, follow) = [Leads(p) EXCEPT !.kind = "dir"]
    BY <1>7, <2>1 DEF Opened, Follow
  <2>3. [Leads(p) EXCEPT !.kind = "dir"].kids = Leads(p).kids
    BY <1>4
  <2> QED BY <1>5, <2>1, <2>2, <2>3
<1>8. CASE fs[p] \notin {"dir", "cloud"}
  <2>1. p = Root /\ follow /\ Leads(p).kind = fs[p] /\ fs[p] \in Kinds
    BY <1>0, <1>4, <1>6, <1>8
  <2>2. Opened(p, follow) = Follow(Leads(p), p)
    BY <2>1 DEF Opened
  <2>3. CASE fs[p] \in {"junction", "alias"}
    <3>1. Follow(Leads(p), p) = [kind |-> "dir", where |-> "in", kids |-> Kids(p)]
      BY <2>1, <2>3 DEF Follow
    <3> QED BY <1>5, <2>2, <3>1
  <2>4. CASE fs[p] = "broken"
    <3>1. Follow(Leads(p), p) = NoVia
      BY <2>1, <2>4 DEF Follow
    <3>2. NoVia.kind = "none"
      BY DEF NoVia
    <3> QED BY <2>2, <3>1, <3>2
  <2>5. CASE fs[p] \in Files \cup {"none"}
    <3>1. Opened(p, follow) = Leads(p)
      BY <2>1, <2>2, <2>5 DEF Follow, Files
    <3> QED BY <2>1, <2>5, <3>1
  <2> QED BY <1>8, <2>1, <2>3, <2>4, <2>5 DEF Kinds, Folders
<1> QED BY <1>7, <1>8

LEMMA FreshStep == ASSUME TypesInv, EscapeInv, TreeInv, FreshInv, [WalkNext]_walkVars PROVE FreshInv'
<1>0. it.path \in Paths /\ Chain(it.path) /\ \A p \in Paths : ~Moved(p)' => ~Moved(p) /\ fs'[p] = fs[p]
  BY ItIs, ChangeKeeps DEF EscapeInv
<1>1. CASE OpenDir \/ Reopen
  <2>1. PICK follow \in BOOLEAN : /\ it.path = Root => follow
                                  /\ \E from, to : Opening(from, follow, to)
    <3>1. at = "reopen" => it.path # Root
      BY DEF EscapeInv
    <3>2. CASE Reopen
      BY <3>1, <3>2, WalkMoves DEF Reopen
    <3>3. CASE OpenDir
      BY <3>3 DEF OpenDir
    <3> QED BY <1>1, <3>2, <3>3
  <2>2. UNCHANGED <<fs, swaps>>
    BY <1>1, WalkMoves DEF Quiet
  <2>3. CASE at' \in {"check", "list"}
    <3>1. via' = Opened(it.path, follow) /\ via'.kind # "none" /\ it' = it
      BY <2>1, <2>3 DEF Opening, Failed, Step
    <3>2. via'.kind \notin Files => \A q \in Below(it.path) : [name |-> Last(q), kind |-> fs[q]] \in via'.kids
      BY <1>0, <2>1, <3>1, OpenedShows
    <3> QED BY <2>2, <3>1, <3>2 DEF FreshInv, Below, Moved
  <2>4. CASE at' \notin {"check", "list"}
    BY <2>4 DEF FreshInv
  <2> QED BY <2>3, <2>4
<1>2. CASE ~OpenDir /\ ~Reopen /\ at' \in {"check", "list"}
  <2>1. at \in {"check", "list"} /\ via' = via /\ it'.path = it.path
    <3>1. CASE Check
      BY <1>2, <3>1, CheckIs, WalkMoves
    <3>2. CASE ~Check
      <4>1. ~RootClassify /\ ~Pop /\ ~List /\ ~Row
        BY <1>2, WalkMoves
      <4> QED BY <1>2, <3>2, <4>1, StillIs
    <3> QED BY <3>1, <3>2
  <2>2. \A p \in Below(it.path)' : p \in Below(it.path) /\ fs'[p] = fs[p]
    BY <1>0, <2>1, ChangeKeeps DEF Below
  <2> QED BY <2>1, <2>2 DEF FreshInv, Below
<1>3. CASE at' \notin {"check", "list"}
  BY <1>3 DEF FreshInv
<1> QED BY <1>1, <1>2, <1>3

LEMMA EndStep == ASSUME TypesInv, EndInv, [WalkNext]_walkVars PROVE EndInv'
<1>0. opt' = opt
  BY ChangeKeeps
<1>1. CASE ~RootClassify /\ ~Pop /\ ~OpenDir /\ ~Reopen /\ ~Check /\ ~List /\ ~Row
  BY <1>0, <1>1, StillIs DEF EndInv
<1>2. CASE ~(~RootClassify /\ ~Pop /\ ~OpenDir /\ ~Reopen /\ ~Check /\ ~List /\ ~Row)
  BY <1>2, WalkMoves DEF EndInv
<1> QED BY <1>1, <1>2
---------------------------------------------------------------------------
(* What becomes of the names below a directory that was listed.               *)

LEMMA BelowFinite ==
  ASSUME NEW q \in Paths
  PROVE  IsFiniteSet(Below(q)) /\ IsFiniteSet(Missed(q))
<1>1. IsFiniteSet(1 .. Width)
  BY SizeAssumption, FS_Interval
<1>2. IsFiniteSet({Append(q, i) : i \in 1 .. Width})
  <2> DEFINE T == {Append(q, i) : i \in 1 .. Width}
             f == [i \in 1 .. Width |-> Append(q, i)]
  <2>1. f \in Surjection(1 .. Width, T)
    BY DEF Surjection
  <2> HIDE DEF T, f
  <2>2. IsFiniteSet(T)
    BY <1>1, <2>1, FS_Surjection
  <2> QED BY <2>2 DEF T
<1>3. Below(q) \subseteq {Append(q, i) : i \in 1 .. Width}
  BY ParentPath DEF Below
<1>4. Missed(q) \subseteq Below(q)
  BY DEF Missed
<1> QED BY <1>2, <1>3, <1>4, FS_Subset

\* A step adds rows and loses nothing; so what was told stays told.
LEMMA ToldKept ==
  ASSUME TypesInv, [WalkNext]_walkVars, NEW q \in Paths, Told(q), out.errors \subseteq out'.errors,
         \A p \in Paths \ {Root} : fs'[p] = fs[p] /\ Noted(p) => Noted(p)'
  PROVE  Told(q)'
<1>1. Missed(q)' \subseteq Missed(q)
  <2>1. opt' = opt /\ \A p \in Below(q)' : p \in Below(q) /\ fs'[p] = fs[p] /\ p \in Paths \ {Root}
    BY ChangeKeeps DEF Below
  <2> QED BY <2>1 DEF Missed, Owed
<1>2. IsFiniteSet(Missed(q)) /\ IsFiniteSet(Missed(q)')
  BY <1>1, BelowFinite, FS_Subset
<1>3. Cardinality(Missed(q)') <= Cardinality(Missed(q)) /\ Cardinality(Missed(q)') \in Nat /\ Cardinality(Missed(q)) \in Nat
  BY <1>1, <1>2, FS_Subset, FS_CardinalityType
<1>4. CASE Cut(q)
  BY <1>4 DEF Told, Cut
<1>5. CASE Missed(q) = {}
  BY <1>1, <1>5 DEF Told
<1>6. CASE \E e \in LostRows(q) : Cardinality(Missed(q)) <= e[3]
  <2>1. PICK e \in LostRows(q) : Cardinality(Missed(q)) <= e[3]
    BY <1>6
  <2>2. e \in LostRows(q)' /\ e[3] \in Nat
    BY <2>1 DEF LostRows, TypesInv, OutTypes, Results
  <2>3. Cardinality(Missed(q)') <= e[3]
    BY <1>3, <2>1, <2>2
  <2> QED BY <2>2, <2>3 DEF Told
<1> QED BY <1>4, <1>5, <1>6 DEF Told

\* The explanations stay, too.
LEMMA ExplainsKept ==
  ASSUME opt' = opt, out.errors \subseteq out'.errors, out.links \subseteq out'.links
  PROVE  \A q : Explains(q) => Explains(q)'
BY DEF Explains, Shown, Errors

\* What nobody touched leads where it stands, as a directory that was listed has it.
LEMMA LeadsTrue ==
  ASSUME TypesInv, EscapeInv, NEW c \in via.kids, ~Moved(Child(c))
  PROVE  Leads(Child(c)).kind = fs[Child(c)]
<1>1. /\ it.path \in Paths /\ Child(c) \in Paths
      /\ Ancestors(Child(c)) = Ancestors(it.path) \cup {it.path}
      /\ Chain(it.path)
      /\ it.path # Root /\ fs[it.path] \in {"junction", "alias"} => Moved(it.path)
  BY ItIs, ChildIs DEF EscapeInv
<1>2. Chain(Child(c))
  BY <1>1 DEF Chain
<1>3. Leads(Child(c)).where # "out"
  BY <1>1, <1>2, LeadsIs, MovedBelow
<1> QED BY <1>1, <1>2, <1>3, LeadsIs

\* What is owed below the directory that is listed is noted, unless it was lost.
LEMMA ListNotes ==
  ASSUME TypesInv, EscapeInv, FreshInv, List, it' = it, via.kind \notin Files, opt.mode # "canon",
         NEW lost \in SUBSET via.kids, NEW why \in {"lost", "cut"}, stack' = Pushed(Subfolders \ lost),
         NEW es, NEW ls, NEW ms, NEW bs, Gains(lost, why, es, ls, ms, bs),
         NEW p \in Below(it.path), Owed(p)
  PROVE  Noted(p)' \/ \E c \in lost : Child(c) = p
<1> DEFINE c == [name |-> Last(p), kind |-> fs[p]]
<1>0. UNCHANGED <<fs, opt>> /\ at = "list" /\ opt \in Options
  BY WalkMoves DEF Quiet, TypesInv, StateTypes
<1>1. c \in via.kids
  BY <1>0 DEF FreshInv
<1>2. c.name = Last(p) /\ c.kind = fs[p]
  OBVIOUS
<1>3. Child(c) = p
  BY <1>2, ParentPath DEF Child, Below
<1> HIDE DEF c
<1>4. SUFFICES ASSUME c \notin lost PROVE Noted(p)'
  BY <1>3
<1>5. CASE fs[p] \in Folders /\ (opt.mode = "dirs" \/ IsName(fs[p]))
  <2> DEFINE kept == Subfolders \ lost
  <2>1. stack' = Pushed(kept) /\ kept \in SUBSET via.kids /\ c \in kept
    BY <1>1, <1>2, <1>4, <1>5 DEF Subfolders
  <2> HIDE DEF kept
  <2>2. \A d \in kept : \E i \in DOMAIN Pushed(kept) \ DOMAIN stack : Pushed(kept)[i] = Item(d)
    BY ONLY TypesInv, <2>1, PushedIs
  <2>3. PICK i \in DOMAIN stack' : stack'[i] = Item(c)
    BY <2>1, <2>2
  <2>4. stack'[i].path = p /\ stack'[i].seen = fs[p]
    BY <1>2, <1>3, <2>3 DEF Item
  <2>5. Coming(p)'
    <3>1. opt'.mode # "dirs" => IsName(stack'[i].seen) /\ fs'[p] # "multi"
      BY <1>0, <1>5, <2>4 DEF IsName, Reparse
    <3>2. i \in DOMAIN stack' /\ stack'[i].path = p
      BY <2>3, <2>4
    <3> QED BY <3>1, <3>2 DEF Coming, Waiting
  <2> QED BY <2>5 DEF Noted
<1>6. CASE ~(fs[p] \in Folders /\ (opt.mode = "dirs" \/ IsName(fs[p])))
  <2>1. opt.mode # "dirs" /\ (fs[p] = "flink" \/ (fs[p] = "multi" /\ opt.hardlinks))
    BY <1>6 DEF Owed, IsName, Reparse, Folders
  <2>2. Leads(p).kind = fs[p]
    <3>1. ~Moved(p)
      BY DEF Below
    <3> QED BY <1>1, <1>3, <3>1, LeadsTrue
  <2>3. \/ fs[p] = "flink" /\ p \in ls \cup bs
        \/ fs[p] = "multi" /\ (p \in ms \cup bs \/ <<p, "file", 1>> \in es)
    BY <1>1, <1>2, <1>3, <1>4, <2>1, <2>2 DEF Gains, NewFiles
  <2>4. ls \subseteq out'.entries /\ ms \subseteq out'.multi /\ bs \subseteq out'.blank /\ es \subseteq out'.errors
    BY DEF Gains, Adds
  <2>5. CASE <<p, "file", 1>> \in es
    <3>1. <<p, "file", 1>>[1] = p
      OBVIOUS
    <3> QED BY <2>4, <2>5, <3>1 DEF Noted, Errors
  <2>6. CASE <<p, "file", 1>> \notin es
    <3>1. Given(p)'
      BY <1>0, <2>1, <2>3, <2>4, <2>6 DEF Given
    <3> QED BY <3>1 DEF Noted
  <2> QED BY <2>5, <2>6
<1> QED BY <1>5, <1>6

\* What a listing tells of the directory it entered.
LEMMA ListTells ==
  ASSUME TypesInv, EscapeInv, FreshInv, List, it' = it, via.kind \notin Files, opt.mode # "canon",
         NEW lost \in SUBSET via.kids, NEW why \in {"lost", "cut"}, stack' = Pushed(Subfolders \ lost),
         NEW es, NEW ls, NEW ms, NEW bs, Gains(lost, why, es, ls, ms, bs)
  PROVE  \A q : q = it.path => Told(q)'
<1> SUFFICES Told(it.path)'
  <2> SUFFICES ASSUME Told(it.path)', NEW q, q = it.path PROVE Told(q)'
    OBVIOUS
  <2>0. q = it'.path
    OBVIOUS
  <2>1. Cut(q)' = Cut(it.path)' /\ LostRows(q)' = LostRows(it.path)'
    BY <2>0 DEF Cut, LostRows
  <2>2. Missed(q)' = Missed(it.path)'
    BY <2>0 DEF Missed, Below
  <2> QED BY <2>1, <2>2 DEF Told
<1>0. it.path \in Paths /\ UNCHANGED <<fs, swaps, opt>> /\ Adds(Row1(lost, why) \cup es)
  BY ItIs, WalkMoves DEF Quiet, Gains
<1>2. IsFiniteSet(lost)
  <2>1. via.kids \in SUBSET Entry /\ Distinct(via.kids)
    BY DEF TypesInv, ItemTypes, Handles, Entry, Distinct
  <2> QED BY <2>1, KidsFinite
<1>3. \A p \in Below(it.path) : Owed(p) => Noted(p)' \/ \E c \in lost : Child(c) = p
  BY ListNotes
<1>4. Missed(it.path)' \subseteq {Child(c) : c \in lost}
  <2>1. \A p \in Below(it.path)' : p \in Below(it.path) /\ (Owed(p)' => Owed(p))
    BY <1>0 DEF Below, Moved, Owed
  <2>2. it'.path = it.path
    OBVIOUS
  <2> QED BY <1>3, <2>1, <2>2 DEF Missed
<1>5. CASE why = "cut"
  <2>1. <<it.path, "cut", 1>> \in out'.errors
    BY <1>0, <1>5 DEF Adds, Row1
  <2>2. <<it.path, "cut", 1>>[1] = it.path /\ <<it.path, "cut", 1>>[2] = "cut"
    OBVIOUS
  <2> QED BY <2>1, <2>2 DEF Told, Cut
<1>6. CASE why = "lost" /\ lost = {}
  BY <1>4, <1>6 DEF Told
<1>7. CASE why = "lost" /\ lost # {}
  <2> DEFINE n == Cardinality(lost)
  <2>1. n \in Nat /\ n # 0
    BY <1>2, <1>7, FS_CardinalityType, FS_EmptySet
  <2>2. <<it.path, "lost", n>> \in out'.errors
    BY <1>0, <1>7, <2>1 DEF Adds, Row1
  <2>3. Cardinality(Missed(it.path)') <= n
    <3>1. IsFiniteSet({Child(c) : c \in lost}) /\ Cardinality({Child(c) : c \in lost}) <= n
      <4> DEFINE T == {Child(c) : c \in lost}
                 f == [c \in lost |-> Child(c)]
      <4>1. f \in Surjection(lost, T)
        BY DEF Surjection
      <4> HIDE DEF T, f
      <4>2. IsFiniteSet(T) /\ Cardinality(T) <= Cardinality(lost)
        BY <1>2, <4>1, FS_Surjection
      <4> QED BY <4>2 DEF T
    <3>2. /\ IsFiniteSet(Missed(it.path)')
          /\ Cardinality(Missed(it.path)') <= Cardinality({Child(c) : c \in lost})
      BY <1>4, <3>1, FS_Subset
    <3> QED BY <2>1, <3>1, <3>2, FS_CardinalityType
  <2> HIDE DEF n
  <2>4. <<it.path, "lost", n>> \in LostRows(it.path)' /\ <<it.path, "lost", n>>[3] = n
    BY <2>2 DEF LostRows
  <2> QED BY <2>3, <2>4 DEF Told
<1> QED BY <1>5, <1>6, <1>7

\* The answer only grows, and what waits is kept until it is popped.
LEMMA WalkGrows ==
  ASSUME TypesInv, OnceInv, [WalkNext]_walkVars
  PROVE  /\ out.errors \subseteq out'.errors /\ out.links \subseteq out'.links
         /\ out.entries \subseteq out'.entries /\ out.multi \subseteq out'.multi
         /\ out.blank \subseteq out'.blank /\ ToSet(out.paths) \subseteq ToSet(out'.paths)
         /\ ~Pop => out'.paths = out.paths /\ DOMAIN stack \subseteq DOMAIN stack'
                    /\ \A i \in DOMAIN stack : stack'[i] = stack[i]
<1> DEFINE Kept == /\ out'.paths = out.paths /\ DOMAIN stack \subseteq DOMAIN stack'
                   /\ \A i \in DOMAIN stack : stack'[i] = stack[i]
           More == /\ out.errors \subseteq out'.errors /\ out.links \subseteq out'.links
                   /\ out.entries \subseteq out'.entries /\ out.multi \subseteq out'.multi
                   /\ out.blank \subseteq out'.blank
<1>1. CASE ~RootClassify /\ ~Pop /\ ~OpenDir /\ ~Reopen /\ ~Check /\ ~List /\ ~Row
  <2>1. Kept /\ More
    BY <1>1, StillIs
  <2> QED BY <2>1
<1>2. CASE RootClassify
  <2>1. stack = <<>>
    BY <1>2, WalkMoves DEF OnceInv
  <2>2. out' = out \/ out' = WithRows(out, Root, "classify", 1)
    BY <1>2 DEF RootClassify
  <2>3. More /\ out'.paths = out.paths
    <3>1. "classify" \in Whys /\ Root \in Paths
      BY PathsAre DEF Whys
    <3>2. CASE out' = out
      BY <3>2
    <3>3. CASE out' = WithRows(out, Root, "classify", 1)
      BY <3>1, <3>3, RowsInto DEF SameFinds, SameTotals, Adds
    <3> QED BY <2>2, <3>2, <3>3
  <2>4. DOMAIN stack = {}
    BY <2>1
  <2>5. Kept
    BY <2>3, <2>4
  <2> QED BY <2>3, <2>5
<1>3. CASE Pop
  <2>1. /\ SameFinds /\ it'.path = Last(stack).path
        /\ \/ /\ out'.errors = out.errors
              /\ ToSet(out'.paths) = ToSet(out.paths) \cup (IF opt.mode = "dirs" THEN {Last(stack).path} ELSE {})
           \/ Adds({<<Last(stack).path, "name", 1>>}) /\ out'.paths = out.paths
    BY <1>3, PopIs
  <2>2. More /\ ToSet(out.paths) \subseteq ToSet(out'.paths)
    BY <2>1 DEF SameFinds, Adds
  <2> QED BY <1>3, <2>2
<1>4. CASE OpenDir \/ Reopen
  <2>1. /\ stack' = stack
        /\ out' = out \/ (SameTotals /\ SameFinds /\ Adds({<<it.path, "open", 1>>}))
    BY <1>4, OpeningIs
  <2>2. Kept /\ More
    BY <2>1 DEF SameTotals, SameFinds, Adds
  <2> QED BY <2>2
<1>5. CASE Check
  <2>1. Kept /\ More
    BY <1>5, CheckIs
  <2> QED BY <2>1
<1>6. CASE List
  <2>1. SameTotals /\ out'.links = out.links
    BY <1>6, ListIs
  <2>2. CASE stack' = stack /\ SameFinds /\ Adds({<<it.path, "list", 1>>})
    <3>1. Kept /\ More
      BY <2>1, <2>2 DEF SameTotals, SameFinds, Adds
    <3> QED BY <3>1
  <2>3. CASE \E lost \in SUBSET via.kids, why \in {"lost", "cut"} :
               /\ stack' = Pushed(Subfolders \ lost)
               /\ \E es \in SUBSET (Paths \X Whys \X Nat), ls, ms, bs \in SUBSET Paths :
                    Gains(lost, why, es, ls, ms, bs)
    <3>1. PICK lost \in SUBSET via.kids, why \in {"lost", "cut"} :
               /\ stack' = Pushed(Subfolders \ lost)
               /\ \E es \in SUBSET (Paths \X Whys \X Nat), ls, ms, bs \in SUBSET Paths :
                    Gains(lost, why, es, ls, ms, bs)
      BY <2>3
    <3>2. Subfolders \ lost \in SUBSET via.kids
      BY DEF Subfolders
    <3>3. Kept
      BY <2>1, <3>1, <3>2, PushedIs DEF SameTotals
    <3>4. More
      BY <2>1, <3>1 DEF Gains, Adds
    <3> QED BY <3>3, <3>4
  <2> QED BY <1>6, <2>2, <2>3, ListIs
<1>7. CASE Row
  <2>1. Kept /\ More
    <3>1. /\ stack' = stack /\ SameTotals /\ out'.multi = out.multi /\ out'.blank = out.blank
          /\ out'.links = out.links \/ out'.links = out.links \cup {<<it.path, it.seen, it.action>>}
          /\ out.entries \subseteq out'.entries
          /\ \E new : Adds(new)
      BY <1>7, RowIs
    <3> QED BY <3>1 DEF SameTotals, Adds
  <2> QED BY <2>1
<1> QED BY <1>1, <1>2, <1>3, <1>4, <1>5, <1>6, <1>7

\* What was noted stays so, as long as the name is what it was.
LEMMA NotedKept ==
  ASSUME TypesInv, OnceInv, [WalkNext]_walkVars, opt.mode # "canon", NEW p \in Paths \ {Root}, fs'[p] = fs[p], Noted(p)
  PROVE  Noted(p)'
<1>0. /\ opt' = opt
      /\ out.errors \subseteq out'.errors /\ out.entries \subseteq out'.entries
      /\ out.multi \subseteq out'.multi /\ out.blank \subseteq out'.blank
      /\ ToSet(out.paths) \subseteq ToSet(out'.paths)
      /\ ~Pop => DOMAIN stack \subseteq DOMAIN stack' /\ \A i \in DOMAIN stack : stack'[i] = stack[i]
  BY ChangeKeeps, WalkGrows
<1>1. CASE Given(p) \/ Errors(p) # {}
  BY <1>0, <1>1 DEF Noted, Given, Seen, Errors
<1>2. CASE Coming(p) /\ opt.mode = "dirs"
  <2>1. CASE ~Pop
    <3>1. p \in Waiting'
      BY <1>0, <1>2, <2>1 DEF Coming, Waiting
    <3> QED BY <1>0, <1>2, <3>1 DEF Noted, Coming
  <2>2. CASE Pop /\ p # it'.path
    <3>1. p \in Waiting'
      BY <1>2, <2>2, PopSets DEF Coming
    <3> QED BY <1>0, <1>2, <3>1 DEF Noted, Coming
  <2>3. CASE Pop /\ p = it'.path
    <3>1. \/ ToSet(out'.paths) = ToSet(out.paths) \cup {p}
          \/ Adds({<<p, "name", 1>>})
      BY <1>2, <2>3, PopIs
    <3>2. CASE ToSet(out'.paths) = ToSet(out.paths) \cup {p}
      BY <1>0, <1>2, <3>2 DEF Noted, Given, Seen
    <3>3. CASE Adds({<<p, "name", 1>>})
      <4>1. <<p, "name", 1>> \in out'.errors /\ <<p, "name", 1>>[1] = p
        BY <3>3 DEF Adds
      <4> QED BY <4>1 DEF Noted, Errors
    <3> QED BY <3>1, <3>2, <3>3
  <2> QED BY <2>1, <2>2, <2>3
<1>3. CASE Coming(p) /\ opt.mode # "dirs"
  <2>0. \/ \E i \in DOMAIN stack : stack[i].path = p /\ IsName(stack[i].seen)
        \/ at = "row" /\ it.path = p /\ IsName(it.seen)
    BY <1>3 DEF Coming
  <2>b. fs[p] # "multi" /\ opt.mode = "links"
    BY <1>3, OptionsAssumption DEF Coming, TypesInv, StateTypes
  <2>a. ASSUME \/ \E i \in DOMAIN stack' : stack'[i].path = p /\ IsName(stack'[i].seen)
               \/ at' = "row" /\ it'.path = p /\ IsName(it'.seen)
        PROVE  Noted(p)'
    BY <1>0, <1>3, <2>a, <2>b DEF Noted, Coming
  <2>1. CASE Pop
    <3>1. /\ Last(stack) = stack[Len(stack)] /\ Last(stack) \in Items
          /\ DOMAIN stack' = DOMAIN stack \ {Len(stack)}
          /\ \A i \in DOMAIN stack' : stack'[i] = stack[i]
          /\ it'.path = Last(stack).path /\ it'.seen = Last(stack).seen
          /\ at' = (IF Policy(Last(stack)) = "descended" THEN "open" ELSE "row")
      BY <2>1, PopIs
    <3>2. at = "pop"
      BY <2>1, WalkMoves
    <3>3. CASE \E i \in DOMAIN stack' : stack[i].path = p /\ IsName(stack[i].seen)
      BY <2>a, <3>1, <3>3
    <3>4. CASE Last(stack).path = p /\ IsName(Last(stack).seen)
      <4>1. Policy(Last(stack)) # "descended"
        BY <3>4 DEF Policy
      <4> QED BY <2>a, <3>1, <3>4, <4>1
    <3> QED BY <2>0, <3>1, <3>2, <3>3, <3>4
  <2>2. CASE Row
    <3>1. /\ UNCHANGED <<stack, it>> /\ at = "row" /\ out'.blank = out.blank
          /\ opt.mode = "links" /\ IsName(it.seen) => it.path \in out'.entries
      BY <2>2, RowIs, WalkMoves
    <3>2. CASE it.path = p /\ IsName(it.seen)
      BY <1>0, <2>b, <3>1, <3>2 DEF Noted, Given
    <3> QED BY <2>0, <2>a, <3>1, <3>2
  <2>3. CASE ~Pop /\ ~Row
    <3>1. at = "row" => at' = "row" /\ it' = it
      <4>1. CASE at = "row"
        <5>1. ~RootClassify /\ ~OpenDir /\ ~Reopen /\ ~Check /\ ~List
          BY <4>1, WalkMoves
        <5> QED BY <2>3, <4>1, <5>1, StillIs
      <4> QED BY <4>1
    <3> QED BY <1>0, <2>0, <2>3, <2>a, <3>1
  <2> QED BY <2>1, <2>2, <2>3
<1> QED BY <1>1, <1>2, <1>3 DEF Noted

LEMMA AnswerInit == WalkInit => AnswerInv
<1> SUFFICES ASSUME WalkInit PROVE AnswerInv
  OBVIOUS
<1>1. out.paths = <<>> /\ DOMAIN stack = {} /\ at = "start"
  BY DEF WalkInit, NoResult
<1>2. ToSet(out.paths) = {}
  BY <1>1 DEF ToSet
<1> QED BY <1>1, <1>2 DEF AnswerInv

LEMMA AnswerStep ==
  ASSUME TypesInv, OnceInv, DecidedInv, AnswerInv, [WalkNext]_walkVars
  PROVE  AnswerInv'
<1> SUFFICES ASSUME opt'.mode = "dirs" PROVE AnswerInv'
  BY DEF AnswerInv
<1> DEFINE busy == {"open", "check", "reopen", "list", "row"}
           Marked(item) == item.pruned => item.path # Root /\ Last(item.path) \in opt.prune
<1>0. opt' = opt /\ opt.mode = "dirs"
  BY ChangeKeeps
<1>1. /\ \A i \in DOMAIN stack : Marked(stack[i])
      /\ at = "row" => it.action = "nofollow" \/ it.path \in Entered \/ Explains(it.path)
      /\ \A q \in ToSet(out.paths) : Explains(q) \/ q \in Entered \/ (at \in busy /\ it.path = q)
  BY <1>0 DEF AnswerInv, Busy
<1>a. ASSUME /\ \A i \in DOMAIN stack' : Marked(stack'[i])
             /\ \A q : at' = "row" /\ q = it'.path => it'.action = "nofollow" \/ q \in Entered' \/ Explains(q)'
             /\ \A q \in ToSet(out'.paths) : Explains(q)' \/ q \in Entered' \/ (at' \in busy /\ it'.path = q)
      PROVE  AnswerInv'
  <2>1. at' = "row" => it'.action = "nofollow" \/ it'.path \in Entered' \/ Explains(it.path)'
    BY <1>a DEF Explains, Errors, Shown
  <2> QED BY <1>0, <1>a, <2>1 DEF AnswerInv, Busy
<1>2. \A q : Explains(q) => Explains(q)'
  BY <1>0, WalkGrows, ExplainsKept
<1>4. CASE ~RootClassify /\ ~Pop /\ ~OpenDir /\ ~Reopen /\ ~Check /\ ~List /\ ~Row
  <2>1. /\ UNCHANGED <<stack, got>> /\ it'.path = it.path /\ out'.paths = out.paths
        /\ \/ at' = at /\ it' = it
           \/ at \notin busy /\ at' \notin busy
    BY <1>4, StillIs
  <2>2. Entered' = Entered
    BY <2>1, OtherSets
  <2> QED BY <1>1, <1>a, <1>2, <2>1, <2>2
<1>5. CASE RootClassify
  <2>1. at = "classify" /\ at' = "pop" /\ got' = got /\ out'.paths = out.paths
    BY <1>5, WalkMoves, WalkGrows DEF RootClassify
  <2>2. Entered' = Entered
    BY <2>1, OtherSets
  <2>3. PICK b \in BOOLEAN : stack' = <<[path |-> Root, seen |-> RootSeen(b), pruned |-> FALSE]>>
    BY <1>5 DEF RootClassify
  <2>4. \A i \in DOMAIN stack' : ~stack'[i].pruned
    BY <2>3
  <2> QED BY <1>1, <1>a, <1>2, <2>1, <2>2, <2>4
<1>6. CASE Pop
  <2>1. /\ Len(stack) \in DOMAIN stack /\ Last(stack) = stack[Len(stack)]
        /\ DOMAIN stack' = DOMAIN stack \ {Len(stack)}
        /\ \A i \in DOMAIN stack' : stack'[i] = stack[i]
        /\ it'.path = Last(stack).path /\ it'.action = Policy(Last(stack))
        /\ at' = (IF Policy(Last(stack)) = "descended" THEN "open" ELSE "row")
        /\ got' = got
    BY <1>6, PopIs
  <2>2. \A q \in ToSet(out'.paths) : q \in ToSet(out.paths) \/ q = it'.path
    BY <1>6, PopIs
  <2>3. Entered' = Entered /\ at = "pop"
    BY <1>6, <2>1, WalkMoves, OtherSets
  <2>4. Marked(Last(stack))
    BY <1>1, <2>1
  <2>5. \A q : at' = "row" /\ q = it'.path => it'.action = "nofollow" \/ Explains(q)
    <3>1. CASE Policy(Last(stack)) = "depthlimited"
      <4>1. Limited(Last(stack))
        BY <3>1 DEF Policy
      <4> QED BY <2>1, <4>1 DEF Limited, Explains
    <3>2. CASE Policy(Last(stack)) = "pruned"
      <4>1. Last(stack).pruned
        BY <3>2 DEF Policy
      <4> QED BY <2>1, <2>4, <4>1 DEF Explains
    <3> QED BY <2>1, <3>1, <3>2 DEF Policy
  <2> QED BY <1>1, <1>a, <1>2, <2>1, <2>2, <2>3, <2>5
<1>7. CASE OpenDir \/ Reopen
  <2>1. /\ UNCHANGED <<stack, got>> /\ it'.path = it.path
        /\ at' \in {"check", "list"} \/ (at' = "row" /\ Adds({<<it.path, "open", 1>>}))
    BY <1>7, OpeningIs
  <2>2. Entered' = Entered /\ out'.paths = out.paths /\ at \in {"open", "reopen"}
    BY <1>7, <2>1, WalkMoves, WalkGrows, OtherSets
  <2>3. \A q : at' = "row" /\ q = it.path => Explains(q)'
    <3>1. ASSUME NEW q, q = it.path, Adds({<<it.path, "open", 1>>}) PROVE Explains(q)'
      <4>1. <<q, "open", 1>> \in out'.errors /\ <<q, "open", 1>>[1] = q /\ <<q, "open", 1>>[2] = "open"
        BY <3>1 DEF Adds
      <4> QED BY <4>1 DEF Explains, Errors
    <3> QED BY <2>1, <3>1
  <2> QED BY <1>1, <1>a, <1>2, <2>1, <2>2, <2>3
<1>8. CASE Check
  <2>1. /\ UNCHANGED <<stack, got, out>> /\ it'.path = it.path
        /\ \/ at' = "row" /\ it'.action = "nofollow"
           \/ at' \in {"reopen", "list"}
    BY <1>8, CheckIs
  <2>2. Entered' = Entered /\ at = "check"
    BY <1>8, <2>1, WalkMoves, OtherSets
  <2> QED BY <1>1, <1>a, <1>2, <2>1, <2>2
<1>9. CASE List
  <2>1. at = "list" /\ at' = "row" /\ it'.path = it.path /\ out'.paths = out.paths
    BY <1>9, ListIs, WalkMoves, WalkGrows
  <2>2. CASE UNCHANGED <<stack, got>> /\ Adds({<<it.path, "list", 1>>})
    <3>1. Entered' = Entered
      BY <2>2, OtherSets
    <3>2. ASSUME NEW q, q = it.path PROVE Explains(q)'
      <4>1. <<q, "list", 1>> \in out'.errors /\ <<q, "list", 1>>[1] = q /\ <<q, "list", 1>>[2] = "list"
        BY <2>2, <3>2 DEF Adds
      <4> QED BY <4>1 DEF Explains, Errors
    <3> QED BY <1>1, <1>a, <1>2, <2>1, <2>2, <3>1, <3>2
  <2>3. CASE /\ it' = it /\ got' = got \cup {<<it.path, via.where>>} /\ via.kind \notin Files
             /\ \E lost \in SUBSET via.kids, why \in {"lost", "cut"} :
                  /\ stack' = Pushed(Subfolders \ lost)
                  /\ \E es \in SUBSET (Paths \X Whys \X Nat), ls, ms, bs \in SUBSET Paths :
                       Gains(lost, why, es, ls, ms, bs)
    <3>1. PICK lost \in SUBSET via.kids, why \in {"lost", "cut"} :
             /\ stack' = Pushed(Subfolders \ lost)
             /\ \E es \in SUBSET (Paths \X Whys \X Nat), ls, ms, bs \in SUBSET Paths :
                  Gains(lost, why, es, ls, ms, bs)
      BY <2>3
    <3>4. Entered' = Entered \cup {it.path}
      BY <2>3, OtherSets
    <3>5. \A i \in DOMAIN stack' : Marked(stack'[i])
      <4> SUFFICES ASSUME NEW i \in DOMAIN stack' PROVE Marked(stack'[i])
        OBVIOUS
      <4>1. Subfolders \ lost \in SUBSET via.kids
        BY DEF Subfolders
      <4>2. CASE i \in DOMAIN stack
        BY <1>1, <3>1, <4>1, <4>2, PushedIs
      <4>3. CASE i \notin DOMAIN stack
        <5>1. PICK c \in Subfolders \ lost : stack'[i] = Item(c)
          BY <3>1, <4>1, <4>3, PushedIs
        <5>2. c \in via.kids
          BY <4>1
        <5>3. stack'[i].path = Child(c) /\ stack'[i].pruned = (c.name \in opt.prune)
          BY <5>1 DEF Item
        <5> QED BY <5>2, <5>3, ChildIs
      <4> QED BY <4>2, <4>3
    <3> QED BY <1>1, <1>a, <1>2, <2>1, <2>3, <3>4, <3>5
  <2> QED BY <1>9, <2>2, <2>3, ListIs
<1>10. CASE Row
  <2>1. /\ UNCHANGED <<stack, it, got>> /\ at = "row" /\ at' = "pop" /\ out'.paths = out.paths
        /\ it.seen \in Reparse => out'.links = out.links \cup {<<it.path, it.seen, it.action>>}
    BY <1>10, RowIs, WalkMoves DEF SameTotals
  <2>2. Entered' = Entered
    BY <2>1, OtherSets
  <2>3. \A q : it.action = "nofollow" /\ q = it.path => Explains(q)'
    <3>1. SUFFICES ASSUME NEW q, q = it.path, it.action = "nofollow" PROVE Explains(q)'
      OBVIOUS
    <3>2. it.seen \in Reparse
      BY <2>1, <3>1 DEF DecidedInv, IsName
    <3> DEFINE r == <<it.path, it.seen, it.action>>
    <3>3. r \in out'.links /\ r[1] = q /\ r[3] = "nofollow"
      BY <2>1, <3>1, <3>2
    <3> HIDE DEF r
    <3> QED BY <3>3 DEF Explains, Shown
  <2> QED BY <1>1, <1>a, <1>2, <2>1, <2>2, <2>3
<1> QED BY <1>4, <1>5, <1>6, <1>7, <1>8, <1>9, <1>10

LEMMA ToldInit == WalkInit => ToldInv
BY DEF WalkInit, ToldInv, Entered

LEMMA ToldStep ==
  ASSUME TypesInv, EscapeInv, OnceInv, FreshInv, ToldInv, [WalkNext]_walkVars
  PROVE  ToldInv'
<1> SUFFICES ASSUME opt'.mode # "canon" PROVE ToldInv'
  BY DEF ToldInv
<1>0. opt' = opt /\ opt.mode # "canon"
  BY ChangeKeeps
<1>1. \A q \in Entered : q \in Paths /\ Told(q)'
  <2>1. \A q \in Entered : q \in Paths /\ Told(q)
    BY <1>0 DEF ToldInv, Entered, TypesInv, OutTypes
  <2>2. out.errors \subseteq out'.errors
    BY WalkGrows
  <2>3. \A p \in Paths \ {Root} : fs'[p] = fs[p] /\ Noted(p) => Noted(p)'
    BY <1>0, NotedKept
  <2> QED BY <2>1, <2>2, <2>3, ToldKept
<1>a. ASSUME \A q \in Entered' : q \in Entered \/ Told(q)' PROVE ToldInv'
  BY <1>1, <1>a DEF ToldInv
<1>2. CASE List /\ got' # got
  <2>1. /\ it' = it /\ got' = got \cup {<<it.path, via.where>>} /\ via.kind \notin Files
        /\ \E lost \in SUBSET via.kids, why \in {"lost", "cut"} :
             /\ stack' = Pushed(Subfolders \ lost)
             /\ \E es \in SUBSET (Paths \X Whys \X Nat), ls, ms, bs \in SUBSET Paths :
                  Gains(lost, why, es, ls, ms, bs)
    BY <1>2, ListIs
  <2>2. \A q : q = it.path => Told(q)'
    BY <1>0, <1>2, <2>1, ListTells
  <2>3. Entered' = Entered \cup {it.path}
    BY <2>1, OtherSets
  <2> QED BY <1>a, <2>2, <2>3
<1>3. CASE got' = got
  BY <1>a, <1>3, OtherSets
<1>4. got' = got \/ List
  <2>1. CASE ~RootClassify /\ ~Pop /\ ~OpenDir /\ ~Reopen /\ ~Check /\ ~List /\ ~Row
    BY <2>1, StillIs
  <2>2. CASE RootClassify
    BY <2>2 DEF RootClassify
  <2>3. CASE Pop
    BY <2>3, PopIs
  <2>4. CASE OpenDir \/ Reopen
    BY <2>4, OpeningIs
  <2>5. CASE Check
    BY <2>5, CheckIs
  <2>6. CASE Row
    BY <2>6, RowIs
  <2> QED BY <2>1, <2>2, <2>3, <2>4, <2>5, <2>6
<1> QED BY <1>2, <1>3, <1>4
---------------------------------------------------------------------------
(* The theorems.                                                              *)

WalkInv == /\ TypesInv /\ EscapeInv /\ CanonInv /\ OnceInv /\ DecidedInv /\ CountInv /\ RootInv
           /\ TreeInv /\ FreshInv /\ EndInv /\ AnswerInv /\ ToldInv

LEMMA WalkInvHolds == WalkSpec => []WalkInv
<1>1. WalkInit => WalkInv
  <2>1. WalkInit => FreshInv /\ EndInv
    BY DEF WalkInit, FreshInv, EndInv
  <2> QED BY <2>1, TypesInit, EscapeInit, CanonInit, OnceInit, DecidedInit, CountInit, RootInit,
             TreeInit, AnswerInit, ToldInit DEF WalkInv
<1>2. WalkInv /\ [WalkNext]_walkVars => WalkInv'
  <2> SUFFICES ASSUME WalkInv, [WalkNext]_walkVars PROVE WalkInv'
    OBVIOUS
  <2>1. TypesInv' /\ OnceInv' /\ DecidedInv' /\ CountInv' /\ RootInv'
    BY TypesStep, OnceStep, DecidedStep, CountStep, RootStep DEF WalkInv
  <2>2. EscapeInv' /\ CanonInv'
    <3>1. CASE WalkNext
      BY <3>1, EscapeStep, CanonStep DEF WalkInv
    <3>2. CASE UNCHANGED walkVars
      <4>1. EscapeInv'
        BY <3>2 DEF WalkInv, walkVars, EscapeInv, Chain, Moved, Above, Filtered, Cause
      <4>2. CanonInv'
        BY <3>2 DEF WalkInv, walkVars, CanonInv, CanonTellsApart, Moments
      <4> QED BY <4>1, <4>2
    <3> QED BY <3>1, <3>2
  <2>3. TreeInv' /\ FreshInv' /\ EndInv' /\ AnswerInv' /\ ToldInv'
    BY TreeStep, FreshStep, EndStep, AnswerStep, ToldStep DEF WalkInv
  <2> QED BY <2>1, <2>2, <2>3 DEF WalkInv
<1> QED BY <1>1, <1>2, PTL DEF WalkSpec

\* The walk leaves the tree only through a directory that was replaced behind its back
\* (dirs_open and dirs_walk, whose handle vetoes what the scan allowed).
THEOREM EscapeNeedsASwapHolds == WalkSpec => []EscapeNeedsASwap
<1>1. WalkInv => EscapeNeedsASwap
  <2> SUFFICES ASSUME EscapeInv, NEW g \in got, g[2] = "out"
               PROVE  \E s \in swaps : IsStrictPrefix(s[1], g[1]) \/ (s[1] = g[1] /\ s[2] = "cloud")
    BY DEF WalkInv, EscapeNeedsASwap
  <2>1. Cause(g[1])
    BY DEF EscapeInv
  <2>2. CASE <<g[1], "cloud">> \in swaps
    <3>1. <<g[1], "cloud">>[1] = g[1] /\ <<g[1], "cloud">>[2] = "cloud"
      OBVIOUS
    <3> QED BY <2>2, <3>1
  <2> QED BY <2>1, <2>2 DEF Cause, Above
<1> QED BY <1>1, WalkInvHolds, PTL

\* canon tells a name that is not there from a link that leads nowhere, as far as the name was
\* one or the other at some moment of the call (CanonCmd).
THEOREM CanonTellsApartHolds == WalkSpec => []CanonTellsApart
<1>1. WalkInv => CanonTellsApart
  <2>1. CASE at = "done" /\ opt.mode = "canon"
    BY <2>1 DEF WalkInv, CanonInv
  <2>2. CASE ~(at = "done" /\ opt.mode = "canon")
    BY <2>2 DEF CanonTellsApart
  <2> QED BY <2>1, <2>2
<1> QED BY <1>1, WalkInvHolds, PTL

\* The rows say what was done, and the numbers add up (dirs_walk).
THEOREM RowsAgreeHolds == WalkSpec => []RowsAgree
<1>1. WalkInv => RowsAgree
  <2> SUFFICES ASSUME WalkInv, at = "done", out.code = "ok", opt.mode # "canon" PROVE RowsAgree
    BY DEF RowsAgree
  <2>1. \A r \in out.links : /\ r[3] = "descended" => r[1] \in Entered
                             /\ r[3] = "failed" => r[1] \in Failing
                             /\ r[3] # "descended" => r[1] \notin Entered
    BY DEF WalkInv, DecidedInv
  <2>2. fs[Root] \in Reparse /\ Errors(Root) = {} =>
          Shown(Root) # {} \/ (fs[Root] = "cloud" /\ faults > 0)
    <3>1. ~Busy /\ at \notin {"start", "root", "classify"}
      BY DEF Busy
    <3>2. RootShown
      BY <3>1 DEF WalkInv, RootInv
    <3> QED BY <3>2 DEF RootShown, RootExcused
  <2>3. out.count + Cardinality(Unnamed)
          = Cardinality(Entered) + Cardinality(Failing) + out.pruned + out.limited + Cardinality(NotFollowed)
    BY FS_CardinalityType DEF WalkInv, CountInv, Trying, TypesInv, OutTypes, Results
  <2>4. Unnamed = {e \in out.errors : e[2] = "name"} /\ OfKind({"open", "list"}) = {e \in out.errors : e[2] \in {"open", "list"}}
    BY DEF Unnamed, OfKind
  <2> QED BY <2>1, <2>2, <2>3, <2>4 DEF RowsAgree, Entered, Failing, NotFollowed
<1> QED BY <1>1, WalkInvHolds, PTL

\* Nothing that nobody touched is missing without an explanation: a folder from dirs, a link
\* or a file with several links from links (dirs_walk, dirs_children).
THEOREM AccountedHolds == WalkSpec => []Accounted
<1>1. WalkInv => Accounted
  <2> DEFINE listed == IF opt.mode = "dirs" THEN ToSet(out.paths) ELSE {g[1] : g \in got}
  <2> SUFFICES ASSUME WalkInv, at = "done", out.code = "ok", opt.mode # "canon",
                      NEW q \in listed, ~Explains(q)
               PROVE  Missing(q) = {} \/ \E e \in Errors(q) : e[2] = "lost" /\ Cardinality(Missing(q)) <= e[3]
    BY DEF Accounted, Done
  <2>1. stack = <<>> /\ DOMAIN stack = {} /\ ~Busy
    BY DEF WalkInv, EndInv, Busy
  <2>2. \A p : Untouched(p) <=> ~Moved(p)
    BY DEF Untouched, Moved
  <2>3. q \in Entered
    <3>1. CASE opt.mode = "dirs"
      BY <2>1, <3>1 DEF WalkInv, AnswerInv
    <3>2. CASE opt.mode # "dirs"
      BY <3>2 DEF Entered
    <3> QED BY <3>1, <3>2
  <2>4. Told(q) /\ ~Cut(q)
    BY <2>3 DEF WalkInv, ToldInv, Cut, Explains, Errors
  <2>5. Missing(q) = Missed(q)
    <3>1. \A p : ~Coming(p)
      BY <2>1 DEF Coming, Waiting
    <3>2. \A p : Owed(p) => fs[p] # "none"
      BY DEF Owed, IsName, Folders, Reparse
    <3> QED BY <2>2, <3>1, <3>2 DEF Missing, Missed, Below, Noted
  <2> QED BY <2>4, <2>5 DEF Told, LostRows, Errors
<1> QED BY <1>1, WalkInvHolds, PTL
=============================================================================
