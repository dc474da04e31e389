------------------------------- MODULE Coalesce -------------------------------
(***************************************************************************)
(* How watch read turns a batch of records into rows (WatchCmd in            *)
(* src/src/proc.c): the two names of a rename are joined, then the records of  *)
(* one path become one row. The loops of the code are given as sets of          *)
(* positions of the batch.                                                   *)
(*                                                                         *)
(* The batches are those a directory can produce: files are created, written,  *)
(* removed and renamed, onto other files too, and a read may take the batch at  *)
(* any point, between the two records of a rename too. A record whose name has   *)
(* no UTF-8 form is dropped and counted.                                     *)
(***************************************************************************)
EXTENDS Integers, Sequences, FiniteSets, FiniteSetsExt

CONSTANTS
  Names,       \* names in the directory
  Unnamable,   \* those mt_wide_to_utf8 cannot convert
  None,
  MaxRecords   \* bound: records of a batch

ASSUME NamesAssumption == Unnamable \subseteq Names /\ None \notin Names
ASSUME RecordsAssumption == MaxRecords \in Nat

VARIABLES
  exists,   \* names in use
  coming,   \* the new name a rename has yet to report, or None
  batch,    \* w->ev
  droppedNames,  \* w->dropped, which counts those of a batch
  renames,  \* history: old and new name of the renames reported in this batch
  before    \* history: names in use when the batch began

batchVars == <<exists, coming, batch, droppedNames, renames, before>>
------------------------------------------------------------------------------
(* The first pass: an old name is joined with the next new name. Only old       *)
(* names are marked done, so two of them may be joined with one new name.       *)

Reports(b, action) == {i \in DOMAIN b : b[i].action = action}

NewNamesAfter(b, i) == {j \in Reports(b, "renamed-new") : j > i}
Joined(b) == {i \in Reports(b, "renamed-old") : NewNamesAfter(b, i) # {}}
JoinedWith(b, j) == {i \in Joined(b) : Min(NewNamesAfter(b, i)) = j}

(* The second pass: each record that is not done leads a row, and takes the      *)
(* later records of its path with it.                                        *)


Left(b) == DOMAIN b \ Joined(b)
Group(b, i) == {j \in Left(b) : j >= i /\ b[j].path = b[i].path}

Leads(b) == {i \in Left(b) : \A k \in Left(b) : k < i => b[k].path # b[i].path}

Seen(b, i) == {b[j].action : j \in Group(b, i)}

Action(b, i) ==
  CASE "removed" \in Seen(b, i) -> "removed"
    [] "removed" \notin Seen(b, i) /\ "added" \in Seen(b, i) -> "added"
    [] Seen(b, i) \cap {"removed", "added"} = {} /\ "renamed-new" \in Seen(b, i) -> "renamed"
    [] OTHER -> b[i].action

\* Fault: only a row that says renamed has a from.
FromOfRenamed(b, i) ==
  LET named == {j \in Group(b, i) : JoinedWith(b, j) # {}}
  IN IF named = {} \/ Action(b, i) # "renamed" THEN None
     ELSE b[Max(JoinedWith(b, Max(named)))].path

\* from of the last new name of the path that has one.
From(b, i) ==
  LET named == {j \in Group(b, i) : JoinedWith(b, j) # {}}
  IN IF named = {} THEN None ELSE b[Max(JoinedWith(b, Max(named)))].path

Row(b, i) == [path |-> b[i].path, action |-> Action(b, i), from |-> From(b, i)]
Rows(b) == {Row(b, i) : i \in Leads(b)}
------------------------------------------------------------------------------
(* The directory, as the reader thread queues what it reports.               *)

BatchInit ==
  /\ exists \in SUBSET Names /\ coming = None
  /\ batch = <<>> /\ droppedNames = 0 /\ renames = {} /\ before = exists

\* Fault: a name that cannot be converted is skipped.
ReportOrSkip(action, n) ==
  /\ batch' = (IF n \in Unnamable THEN batch ELSE Append(batch, [action |-> action, path |-> n]))
  /\ UNCHANGED droppedNames

Report(action, n) ==
  IF n \in Unnamable
  THEN droppedNames' = droppedNames + 1 /\ UNCHANGED batch
  ELSE batch' = Append(batch, [action |-> action, path |-> n]) /\ UNCHANGED droppedNames

Room == coming = None /\ Len(batch) + droppedNames < MaxRecords

Create(n) ==
  /\ Room /\ n \notin exists
  /\ exists' = exists \cup {n} /\ Report("added", n)
  /\ UNCHANGED <<coming, renames, before>>

Delete(n) ==
  /\ Room /\ n \in exists
  /\ exists' = exists \ {n} /\ Report("removed", n)
  /\ UNCHANGED <<coming, renames, before>>

Modify(n) ==
  /\ Room /\ n \in exists /\ Report("modified", n)
  /\ UNCHANGED <<exists, coming, renames, before>>

\* A rename onto a name in use removes that first (Delete); it reports the old name,
\* then the new one.
RenameFrom(m, n) ==
  /\ Room /\ m \in exists /\ n \notin exists
  /\ exists' = (exists \ {m}) \cup {n}
  /\ Report("renamed-old", m) /\ coming' = n
  /\ renames' = renames \cup {<<m, n>>} /\ UNCHANGED before

RenameTo ==
  /\ coming # None /\ Report("renamed-new", coming)
  /\ coming' = None /\ UNCHANGED <<exists, renames, before>>

\* watch read takes the batch. A rename it cuts in two is in neither batch.
Read ==
  /\ batch # <<>> \/ droppedNames > 0
  /\ batch' = <<>> /\ droppedNames' = 0 /\ renames' = {}
  /\ before' = exists \ {coming} /\ UNCHANGED <<exists, coming>>

BatchNext ==
  \/ \E n \in Names : Create(n) \/ Delete(n) \/ Modify(n)
  \/ \E m, n \in Names : RenameFrom(m, n)
  \/ RenameTo \/ Read

BatchSpec == BatchInit /\ [][BatchNext]_batchVars
------------------------------------------------------------------------------

\* A row's from is the old name of a rename to its path, when nothing was dropped:
\* renames that overlap, repeat or form a chain are not mixed up.
FromIsTrue ==
  droppedNames = 0 =>
    \A r \in Rows(batch) : r.from # None => <<r.from, r.path>> \in renames

\* A name that was removed and came back within the batch.
CameBack(n) ==
  \E i, j \in DOMAIN batch :
    /\ i < j /\ batch[i].path = n /\ batch[j].path = n
    /\ batch[i].action = "removed" /\ batch[j].action \in {"added", "renamed-new"}

\* A name that came into use and still is has a row that says so, whatever else was
\* reported of it, unless the batch ends before its record. The exception is a name that was
\* removed and came back: removed goes before all else, and the row says that of a name in use.
ArrivalIsSaid ==
  droppedNames = 0 =>
    \A n \in exists \ (before \cup {coming}) :
      \E r \in Rows(batch) :
        r.path = n /\ (r.action \in {"added", "renamed"} \/ (r.action = "removed" /\ CameBack(n)))

Mentioned == {r.path : r \in {r \in Rows(batch) : r.action \in {"removed", "renamed-old"}}}
               \cup {r.from : r \in Rows(batch)}

\* Names that this batch has records of and that are free now.
Gone == {batch[i].path : i \in DOMAIN batch} \ (exists \cup {coming})

\* A name that is no longer in use is said to be removed or renamed, with two
\* exceptions: another file was renamed to the same new name later, or the batch
\* ends inside its rename.
LeavingIsSaid ==
  droppedNames = 0 =>
    \A n \in Gone \ Mentioned :
      \/ \E m, p \in Names : m # n /\ <<n, p>> \in renames /\ <<m, p>> \in renames
      \/ batch[Len(batch)] = [action |-> "renamed-old", path |-> n]

\* A reader who replays the rows of a batch misses no name that came and stayed and none
\* that went, but for a name that was removed in between, a rename that another one to the
\* same name hides, and one the batch cuts (WatchCmd's merging of the records of one path).
NothingUnsaid == ArrivalIsSaid /\ LeavingIsSaid
==============================================================================
