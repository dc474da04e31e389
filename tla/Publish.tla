------------------------------- MODULE Publish -------------------------------
(***************************************************************************)
(* ::machteld::Publish (src/src/publish.c): a finished candidate is moved to *)
(* a destination by name, one Windows call after another, while programs that *)
(* know nothing of it create, remove, rename and replace the same names, and   *)
(* other publishers publish to the same destination.                         *)
(*                                                                         *)
(* A name holds a file or None; a file is who made it and a number. Every call  *)
(* may fail, MaxFaults times in all. Other programs leave the random backup     *)
(* names alone. ReplaceFileW is atomic when it succeeds; it fails with nothing  *)
(* moved, or with the destination moved to the backup name only.               *)
(***************************************************************************)
EXTENDS Integers

CONSTANTS
  Publishers,   \* each one call of Publish, with a candidate of its own
  Attempts,     \* rounds of PublishCmd's loop (8 in the code)
  MaxMeddling,  \* bound: changes other programs make to the names
  MaxFaults     \* bound: calls that fail

ASSUME PublishersAssumption == Publishers \subseteq Nat
ASSUME AttemptsAssumption == Attempts \in Nat \ {0}
ASSUME BoundsAssumption == MaxMeddling \in Nat /\ MaxFaults \in Nat

VARIABLES
  dest,       \* the destination's name
  aside,      \* a name other programs move the destination to
  cand,       \* publisher -> its candidate's name
  backup,     \* publisher -> attempt -> the backup name of that attempt
  pc,         \* publisher -> the call it makes next
  attempt,    \* publisher -> its round
  original,   \* publisher -> original_candidate
  old,        \* publisher -> old_destination
  held,       \* publisher -> the file its old_handle is open on
  missing,    \* publisher -> missing_error(error) of its ReplaceFileW
  result,     \* publisher -> kind; why it failed; claim: names a retained backup
  prior,      \* history: what was last put at the destination on purpose
  installed,  \* history: publisher -> the file it moved to the destination
  displaced,  \* history: publisher -> the file its ReplaceFileW moved away
  deleted,    \* history: publisher -> the file its clean-up deleted
  touched,    \* history: publishers whose candidate changed since they looked
  changes,    \* history: changes of the destination or a candidate
  since,      \* history: publisher -> changes before it started
  meddled,    \* changes by other programs
  faults      \* calls that have failed

nameVars == <<dest, aside, cand, backup>>
localVars == <<pc, attempt, original, old, held, missing, result>>
historyVars == <<prior, installed, displaced, deleted, touched, changes, since>>
vars == <<nameVars, localVars, historyVars, meddled, faults>>

None == [by |-> "none", n |-> 0]
Candidate(p) == [by |-> "candidate", n |-> p]
Marker(p) == [by |-> "marker", n |-> p]
Theirs(n) == [by |-> "others", n |-> n]
Directory(n) == [by |-> "directory", n |-> n]

\* is_regular: neither a directory nor a reparse point.
Regular(f) == f # None /\ f.by # "directory"

Open == [kind |-> "none", why |-> "", claim |-> FALSE]
Success == [kind |-> "ok", why |-> "", claim |-> FALSE]
Error(why) == [kind |-> "error", why |-> why, claim |-> FALSE]
Claim == [kind |-> "error", why |-> "replace", claim |-> TRUE]

Backup(p) == backup[p][attempt[p]]
Fault == faults < MaxFaults /\ faults' = faults + 1
NoFault == UNCHANGED faults
------------------------------------------------------------------------------
(* Ways a step of publisher p can end.                                     *)

Goto(p, next) == pc' = [pc EXCEPT ![p] = next] /\ UNCHANGED <<attempt, result>>

Return(p, how) ==
  /\ result' = [result EXCEPT ![p] = how]
  /\ pc' = [pc EXCEPT ![p] = "done"]
  /\ UNCHANGED attempt

\* Fault: a round that follows a change trusts what the round before saw.
RetryTrusting(p) ==
  IF attempt[p] < Attempts
  THEN /\ attempt' = [attempt EXCEPT ![p] = @ + 1]
       /\ pc' = [pc EXCEPT ![p] = IF old[p] = None THEN "check" ELSE "reserve"]
       /\ UNCHANGED result
  ELSE Return(p, Error("changed"))

\* The next round starts from the checks; after the last one the loop gives up.
Retry(p) ==
  IF attempt[p] < Attempts
  THEN /\ attempt' = [attempt EXCEPT ![p] = @ + 1]
       /\ pc' = [pc EXCEPT ![p] = "check"]
       /\ UNCHANGED result
  ELSE Return(p, Error("changed"))

SetBackup(p, f) == backup' = [backup EXCEPT ![p][attempt[p]] = f]

\* Fault: a round that is given up forgets its marker.
DiscardNot(p) == UNCHANGED <<backup, faults>>

\* delete_identity of the marker: only if the backup name still holds it.
Discard(p) ==
  /\ SetBackup(p, IF Backup(p) = Marker(p) THEN None ELSE Backup(p))
  /\ NoFault

\* A round is given up: the answer of delete_identity is ignored.
GiveUpRound(p) == Discard(p) \/ (Fault /\ UNCHANGED backup)

\* A round ends with a call that failed: deleting the marker may fail with it.
RoundFails(p) ==
  /\ Fault
  /\ SetBackup(p, None) \/ UNCHANGED backup
  /\ Return(p, Error("os"))

DestChanges(f) == dest' = f /\ changes' = changes + 1
DestStays == UNCHANGED <<dest, changes>>
NamesStay == DestStays /\ UNCHANGED <<aside, cand>>
HistoryStays == UNCHANGED <<prior, installed, displaced, deleted, since>>
LooksOnly == NamesStay /\ HistoryStays /\ UNCHANGED <<missing, meddled>>
------------------------------------------------------------------------------
(* PublishCmd.                                                             *)

\* The first look at the candidate, and at both parent directories.
Begin(p) ==
  /\ pc[p] = "idle"
  /\ since' = [since EXCEPT ![p] = changes]
  /\ \/ /\ Regular(cand[p]) /\ NoFault
        /\ original' = [original EXCEPT ![p] = cand[p]]
        /\ Goto(p, "check")
     \/ /\ ~Regular(cand[p]) /\ NoFault
        /\ Return(p, Error("candidate")) /\ UNCHANGED original
     \/ Fault /\ Return(p, Error("os")) /\ UNCHANGED original
  /\ NamesStay /\ UNCHANGED <<backup, old, held, missing, meddled>>
  /\ UNCHANGED <<prior, installed, displaced, deleted, touched>>

\* check_candidate: the same file as at the start.
CheckCandidate(p) ==
  /\ pc[p] = "check"
  /\ \/ /\ cand[p] = original[p] /\ NoFault
        /\ Goto(p, "probe") /\ touched' = touched \ {p}
     \/ cand[p] # original[p] /\ NoFault /\ Return(p, Error("candidate")) /\ UNCHANGED touched
     \/ Fault /\ Return(p, Error("os")) /\ UNCHANGED touched
  /\ LooksOnly /\ UNCHANGED <<backup, original, old, held>>

\* check_destination, and the refusal of a candidate that is the destination.
ProbeDestination(p) ==
  /\ pc[p] = "probe"
  /\ \/ dest = None /\ NoFault /\ Goto(p, "move") /\ UNCHANGED old
     \/ /\ Regular(dest) /\ dest # original[p] /\ NoFault
        /\ old' = [old EXCEPT ![p] = dest] /\ Goto(p, "reserve")
     \/ /\ dest # None /\ ~(Regular(dest) /\ dest # original[p]) /\ NoFault
        /\ Return(p, Error("destination")) /\ UNCHANGED old
     \/ Fault /\ Return(p, Error("os")) /\ UNCHANGED old
  /\ LooksOnly /\ UNCHANGED <<backup, original, held, touched>>

Install(p) ==
  /\ DestChanges(cand[p]) /\ prior' = cand[p]
  /\ installed' = [installed EXCEPT ![p] = cand[p]]
  /\ cand' = [cand EXCEPT ![p] = None]

\* MoveFileExW without MOVEFILE_REPLACE_EXISTING.
MoveCandidate(p) ==
  /\ pc[p] = "move"
  /\ \/ /\ dest = None /\ cand[p] # None /\ NoFault
        /\ Install(p) /\ Return(p, Success)
     \/ dest # None /\ cand[p] # None /\ NoFault /\ Retry(p) /\ DestStays /\ UNCHANGED <<cand, prior, installed>>
     \/ cand[p] = None /\ NoFault /\ Return(p, Error("os")) /\ DestStays /\ UNCHANGED <<cand, prior, installed>>
     \/ Fault /\ Return(p, Error("os")) /\ DestStays /\ UNCHANGED <<cand, prior, installed>>
  /\ UNCHANGED <<aside, backup, original, old, held, missing, meddled>>
  /\ UNCHANGED <<displaced, deleted, touched, since>>

\* backup_marker: an empty file under a fresh random name.
ReserveBackup(p) ==
  /\ pc[p] = "reserve"
  /\ \/ SetBackup(p, Marker(p)) /\ NoFault /\ Goto(p, "recheck")
     \/ Fault /\ Return(p, Error("os")) /\ UNCHANGED backup
  /\ LooksOnly /\ UNCHANGED <<original, old, held, touched>>

\* Fault: the last look takes any candidate.
RecheckAnyCandidate(p) ==
  /\ pc[p] = "recheck"
  /\ \/ /\ Regular(cand[p]) /\ NoFault /\ UNCHANGED backup
        /\ Goto(p, "reprobe") /\ touched' = touched \ {p}
     \/ /\ ~Regular(cand[p]) /\ UNCHANGED touched
        /\ Discard(p) /\ Return(p, Error("candidate"))
  /\ LooksOnly /\ UNCHANGED <<original, old, held>>

RecheckCandidate(p) ==
  /\ pc[p] = "recheck"
  /\ \/ /\ cand[p] = original[p] /\ NoFault /\ UNCHANGED backup
        /\ Goto(p, "reprobe") /\ touched' = touched \ {p}
     \/ /\ cand[p] # original[p] /\ UNCHANGED touched
        /\ GiveUpRound(p)
        /\ Return(p, Error("candidate"))
     \/ RoundFails(p) /\ UNCHANGED touched
  /\ LooksOnly /\ UNCHANGED <<original, old, held>>

\* A destination that is gone or another file: the round starts again.
RecheckDestination(p) ==
  /\ pc[p] = "reprobe"
  /\ \/ dest = old[p] /\ NoFault /\ Goto(p, "hold") /\ UNCHANGED backup
     \/ /\ dest # old[p] /\ (dest = None \/ Regular(dest))
        /\ GiveUpRound(p)
        /\ Retry(p)
     \/ /\ dest # None /\ ~Regular(dest)
        /\ GiveUpRound(p)
        /\ Return(p, Error("destination"))
     \/ RoundFails(p)
  /\ LooksOnly /\ UNCHANGED <<original, old, held, touched>>

\* CreateFileW on the destination, and the identity of what it opened.
HoldDestination(p) ==
  /\ pc[p] = "hold"
  /\ \/ /\ dest = old[p] /\ NoFault /\ UNCHANGED backup
        /\ held' = [held EXCEPT ![p] = dest] /\ Goto(p, "replace")
     \/ /\ dest # old[p] /\ UNCHANGED held
        /\ GiveUpRound(p)
        /\ Retry(p)
     \/ RoundFails(p) /\ UNCHANGED held
  /\ LooksOnly /\ UNCHANGED <<original, old, touched>>

\* ReplaceFileW works on the names, whatever they hold by now.
ReplaceFile(p) ==
  /\ pc[p] = "replace"
  /\ UNCHANGED missing /\ NoFault
  /\ Regular(dest) /\ cand[p] # None
  /\ SetBackup(p, dest)
  /\ displaced' = [displaced EXCEPT ![p] = dest]
  /\ Install(p)
  /\ Goto(p, "cleanup")
  /\ UNCHANGED <<aside, original, old, held, deleted, touched, since, meddled>>

\* It fails: a name is missing, the destination is no file, or for a reason of
\* its own, perhaps after it has moved the destination to the backup name
\* (ERROR_UNABLE_TO_MOVE_REPLACEMENT_2).
ReplaceFileFails(p) ==
  /\ pc[p] = "replace" /\ Goto(p, "recover")
  /\ \E absent \in {dest = None \/ cand[p] = None} :
       \/ /\ absent /\ NoFault /\ DestStays /\ UNCHANGED backup
          /\ missing' = [missing EXCEPT ![p] = TRUE]
       \/ /\ missing' = [missing EXCEPT ![p] = FALSE]
          /\ \/ ~absent /\ ~Regular(dest) /\ NoFault /\ DestStays /\ UNCHANGED backup
             \/ Fault /\ DestStays /\ UNCHANGED backup
             \/ /\ Fault /\ ~absent /\ Regular(dest)
                /\ SetBackup(p, dest) /\ DestChanges(None)
  /\ HistoryStays
  /\ UNCHANGED <<aside, cand, original, old, held, touched, meddled>>

\* The file f loses the name its handle was opened by, wherever that is now;
\* a candidate's name is never that name.
Unlink(f) ==
  /\ dest' = (IF dest = f THEN None ELSE dest)
  /\ changes' = changes + (IF dest = f THEN 1 ELSE 0)
  /\ aside' = (IF aside = f THEN None ELSE aside)
  /\ backup' = [q \in Publishers |-> [k \in 1 .. Attempts |->
                  IF backup[q][k] = f THEN None ELSE backup[q][k]]]

Named(f) == f \in {dest, aside} \cup {backup[q][k] : q \in Publishers, k \in 1 .. Attempts}

\* Fault: the clean-up deletes whatever the backup name holds.
CleanUpByName(p) ==
  /\ pc[p] = "cleanup"
  /\ NoFault /\ Unlink(Backup(p))
  /\ deleted' = [deleted EXCEPT ![p] = Backup(p)]
  /\ Return(p, Success)
  /\ UNCHANGED <<cand, original, old, held, missing, meddled>>
  /\ UNCHANGED <<prior, installed, displaced, touched, since>>

\* delete_backup_after_replace, on the handle; its failure is not reported.
CleanUp(p) ==
  /\ pc[p] = "cleanup"
  /\ \/ /\ NoFault /\ Unlink(held[p])
        /\ deleted' = [deleted EXCEPT ![p] = IF Named(held[p]) THEN held[p] ELSE None]
     \/ Fault /\ UNCHANGED <<dest, changes, aside, backup, deleted>>
  /\ Return(p, Success)
  /\ UNCHANGED <<cand, original, old, held, missing, meddled>>
  /\ UNCHANGED <<prior, installed, displaced, touched, since>>

------------------------------------------------------------------------------
(* recover_replace_failure.                                                *)

\* The old destination is where it was: try again if a name was missing.
NotRetained(p) == IF missing[p] THEN Retry(p) ELSE Return(p, Error("replace"))

\* What the backup name holds: the old destination, the marker or nothing, something else.
Recover(p) ==
  /\ pc[p] = "recover"
  /\ \/ Backup(p) = held[p] /\ NoFault /\ Goto(p, "restore") /\ UNCHANGED backup
     \/ Backup(p) \in {None, Marker(p)} /\ Discard(p) /\ Goto(p, "verify")
     \/ Backup(p) \notin {held[p], None, Marker(p)} /\ NoFault /\ Return(p, Claim) /\ UNCHANGED backup
     \/ Fault /\ Return(p, Claim) /\ UNCHANGED backup
  /\ LooksOnly /\ UNCHANGED <<original, old, held, touched>>

PutBack(p) == DestChanges(Backup(p)) /\ SetBackup(p, None)

\* Fault: moved back over whatever is there.
RestoreOver(p) ==
  /\ pc[p] = "restore" /\ NoFault /\ Backup(p) # None
  /\ PutBack(p) /\ NotRetained(p) /\ HistoryStays
  /\ UNCHANGED <<aside, cand, original, old, held, missing, touched, meddled>>

\* MoveFileExW back, only to a name that is free; the owner of the file may have
\* deleted it meanwhile.
Restore(p) ==
  /\ pc[p] = "restore"
  /\ \/ /\ dest = None /\ Backup(p) # None /\ NoFault
        /\ PutBack(p) /\ NotRetained(p)
     \/ (dest # None \/ Backup(p) = None) /\ NoFault /\ Return(p, Claim) /\ DestStays /\ UNCHANGED backup
     \/ Fault /\ Return(p, Claim) /\ DestStays /\ UNCHANGED backup
  /\ HistoryStays
  /\ UNCHANGED <<aside, cand, original, old, held, missing, touched, meddled>>

\* Nothing was moved: is the destination still the file that is held?
Verify(p) ==
  /\ pc[p] = "verify" /\ UNCHANGED backup
  /\ \/ dest = held[p] /\ NoFault /\ NotRetained(p)
     \/ dest # held[p] /\ NoFault /\ Return(p, Claim)
     \/ Fault /\ Return(p, Claim)
  /\ LooksOnly /\ UNCHANGED <<original, old, held, touched>>
------------------------------------------------------------------------------
(* Other programs.                                                         *)

Meddle ==
  /\ meddled < MaxMeddling /\ meddled' = meddled + 1
  /\ UNCHANGED <<localVars, backup, installed, displaced, deleted, since, faults>>

\* A file or a directory is created, or renamed over the destination.
OthersPut ==
  /\ Meddle
  /\ \E f \in {Theirs(meddled + 1), Directory(meddled + 1)} :
       /\ dest = None \/ Regular(f)
       /\ DestChanges(f) /\ prior' = f
  /\ UNCHANGED <<aside, cand, touched>>

\* The destination is removed, or renamed out of the way.
OthersTake ==
  /\ Meddle
  /\ dest # None /\ DestChanges(None) /\ prior' = None
  /\ UNCHANGED aside \/ aside' = dest
  /\ UNCHANGED <<cand, touched>>

OthersBringBack ==
  /\ Meddle
  /\ dest = None /\ aside # None
  /\ DestChanges(aside) /\ prior' = aside /\ aside' = None
  /\ UNCHANGED <<cand, touched>>

\* The candidate is removed, or another file put in its place.
OthersTouchCandidate(p) ==
  /\ Meddle
  /\ cand[p] # None
  /\ \E f \in {None, Theirs(meddled + 1)} : cand' = [cand EXCEPT ![p] = f]
  /\ touched' = touched \cup {p} /\ changes' = changes + 1
  /\ UNCHANGED <<dest, prior, aside>>

Others ==
  \/ OthersPut \/ OthersTake \/ OthersBringBack
  \/ \E p \in Publishers : OthersTouchCandidate(p)
------------------------------------------------------------------------------
Init ==
  /\ dest \in {None, Theirs(0), Directory(0)} \cup {Candidate(p) : p \in Publishers}
  /\ aside = None
  /\ cand = [p \in Publishers |-> Candidate(p)]
  /\ backup = [p \in Publishers |-> [k \in 1 .. Attempts |-> None]]
  /\ pc = [p \in Publishers |-> "idle"]
  /\ attempt = [p \in Publishers |-> 1]
  /\ original = [p \in Publishers |-> None]
  /\ old = original /\ held = original
  /\ missing = [p \in Publishers |-> FALSE]
  /\ result = [p \in Publishers |-> Open]
  /\ prior = dest
  /\ installed = original /\ displaced = original /\ deleted = original
  /\ touched = {} /\ changes = 0 /\ since = [p \in Publishers |-> 0]
  /\ meddled = 0 /\ faults = 0

PublishCmd(p) ==
  \/ Begin(p) \/ CheckCandidate(p) \/ ProbeDestination(p) \/ MoveCandidate(p)
  \/ ReserveBackup(p) \/ RecheckCandidate(p) \/ RecheckDestination(p)
  \/ HoldDestination(p) \/ ReplaceFile(p) \/ ReplaceFileFails(p) \/ CleanUp(p)
  \/ Recover(p) \/ Restore(p) \/ Verify(p)

Next == Others \/ \E p \in Publishers : PublishCmd(p)

Spec == Init /\ [][Next]_vars
------------------------------------------------------------------------------

\* "A failure leaves the previous output intact" (docs/packaging.md): what was last
\* put at the destination is there, or retained at the backup name of a publisher
\* that is recovering or has named it in its error. Holds in the middle of every
\* publication too, against other publishers and other programs.
DestinationIsKept ==
  prior # None /\ prior \notin {deleted[p] : p \in Publishers} =>
    \/ dest = prior
    \/ \E p \in Publishers :
         /\ Backup(p) = prior
         /\ pc[p] \in {"recover", "restore"} \/ result[p].claim

\* The result is true of the candidate: a success has published the file that was
\* given (one put in its place is noticed, unless that happens after the last look),
\* and a failure has left it where it was, unless another program took it.
ResultIsTrue ==
  \A p \in Publishers :
    /\ result[p].kind = "ok" => installed[p] = original[p] \/ p \in touched
    /\ result[p].kind = "error" =>
         installed[p] = None /\ (original[p] \in {None, cand[p]} \/ p \in touched)

\* A file that slipped in at the destination after the last look is moved aside by
\* ReplaceFileW, but not deleted: the clean-up goes by the file, not by the name.
NewcomerSurvives ==
  \A p \in Publishers :
    result[p].kind = "ok" /\ displaced[p] # held[p] =>
      \/ Backup(p) = displaced[p]
      \/ \E q \in Publishers \ {p} : deleted[q] = displaced[p]

\* No marker or backup is left over by a publication in which no call failed,
\* however many rounds it took, unless its error names it or it holds a newcomer.
NoLitter ==
  faults = 0 =>
    \A p \in Publishers :
      pc[p] = "done" /\ ~result[p].claim /\ displaced[p] \in {None, held[p]} =>
        \A k \in 1 .. Attempts : backup[p][k] = None

\* A publisher gives up only after as many changes by others as it made rounds:
\* a change is never the reason of two rounds.
GivesUpOnlyWhenChanged ==
  \A p \in Publishers :
    result[p].why = "changed" => changes - since[p] >= Attempts

==============================================================================
