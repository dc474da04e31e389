---------------------------- MODULE PublishProofs ----------------------------
(***************************************************************************)
(* The properties of Publish, for any number of publishers, attempts,       *)
(* changes by other programs and failing calls. None of them is inductive    *)
(* alone; IInv, at the end of the definitions, is.                           *)
(***************************************************************************)
EXTENDS Publish, TLAPS

Steps == {"idle", "check", "probe", "move", "reserve", "recheck", "reprobe", "hold", "replace",
          "cleanup", "recover", "restore", "verify", "done"}
Whys == {"candidate", "destination", "changed", "replace", "os"}
Results == {Open, Success, Claim} \cup {Error(why) : why \in Whys}
Files == {None} \cup {Candidate(p) : p \in Publishers} \cup {Marker(p) : p \in Publishers}
           \cup {Theirs(n) : n \in Nat} \cup {Directory(n) : n \in Nat}
\* A marker is only ever at a backup name.
Lasting == {f \in Files : f.by # "marker"}

LocalTypes == /\ pc \in [Publishers -> Steps] /\ attempt \in [Publishers -> 1 .. Attempts]
              /\ result \in [Publishers -> Results]
NameTypes == /\ dest \in Lasting /\ aside \in Lasting /\ cand \in [Publishers -> Lasting]
             /\ backup \in [Publishers -> [1 .. Attempts -> Files]] /\ meddled \in Nat
SeenTypes == /\ original \in [Publishers -> Lasting] /\ held \in [Publishers -> Lasting]
             /\ old \in [Publishers -> Lasting] /\ missing \in [Publishers -> BOOLEAN]
             /\ touched \subseteq Publishers
HistTypes == /\ prior \in Lasting /\ installed \in [Publishers -> Lasting]
             /\ displaced \in [Publishers -> Lasting] /\ deleted \in [Publishers -> Lasting]
             /\ changes \in Nat /\ since \in [Publishers -> Nat]
Types == LocalTypes /\ NameTypes /\ SeenTypes /\ HistTypes

\* A publisher that has not returned says nothing and has deleted nothing.
Undecided == \A p \in Publishers : pc[p] # "done" => result[p] = Open /\ deleted[p] = None

\* What is about to be put back is the destination of before, if it is still there.
Restoring == \A p \in Publishers : pc[p] = "restore" => Backup(p) \in {held[p], None}

\* From the first look on the candidate is the file given, unless it was touched since.
AtCandidate(p) == cand[p] = original[p] \/ p \in touched
Looking == {"check", "probe", "move", "reserve", "recheck", "reprobe", "hold", "replace",
            "recover", "restore", "verify"}
Given == \A p \in Publishers :
  /\ pc[p] \in Looking => AtCandidate(p)
  /\ pc[p] = "idle" => original[p] = None
  /\ pc[p] \notin {"cleanup", "done"} => installed[p] = None
  /\ pc[p] = "cleanup" => installed[p] = original[p] \/ p \in touched

\* The names of rounds to come hold nothing, nor does the round's own before it is reserved.
Early == {"idle", "check", "probe", "move", "reserve"}
Fresh == \A p \in Publishers : \A k \in 1 .. Attempts :
  k > attempt[p] \/ (k = attempt[p] /\ pc[p] \in Early) => backup[p][k] = None

\* NewcomerSurvives, from the replacement on; and a plain move displaces nothing.
Replaced(p) == pc[p] = "cleanup" \/ result[p].kind = "ok"
Newcomers == \A p \in Publishers :
  /\ pc[p] \notin {"cleanup", "done"} => displaced[p] = None
  /\ Replaced(p) /\ displaced[p] = None => Backup(p) = None
  /\ Replaced(p) /\ displaced[p] # held[p] =>
       Backup(p) = displaced[p] \/ \E q \in Publishers \ {p} : deleted[q] = displaced[p]

\* NoLitter, call by call: what the names of this round and of those before it hold.
Marked == {"recheck", "reprobe", "hold", "replace", "recover"}
TidyAt(p) ==
  /\ \A k \in 1 .. Attempts : k < attempt[p] => backup[p][k] = None
  /\ pc[p] \in Marked => Backup(p) \in {Marker(p), None}
  /\ pc[p] = "restore" => Backup(p) \in {held[p], None}
  /\ pc[p] = "verify" => Backup(p) = None
  /\ pc[p] = "cleanup" => Backup(p) \in {displaced[p], None}
  /\ pc[p] = "done" /\ ~result[p].claim /\ displaced[p] \in {None, held[p]} => Backup(p) = None
Tidy == faults = 0 => \A p \in Publishers : TidyAt(p)

\* GivesUpOnlyWhenChanged, call by call: as many changes as rounds before this one,
\* and one more as soon as a name no longer holds what this round saw there.
Past(p) == changes - since[p]
CausedAt(p) ==
  /\ pc[p] = "idle" => attempt[p] = 1
  /\ pc[p] \notin {"idle", "done"} => Past(p) >= attempt[p] - 1
  /\ pc[p] = "move" /\ dest # None => Past(p) >= attempt[p]
  /\ pc[p] \in {"reserve", "recheck", "reprobe", "hold"} /\ dest # old[p] => Past(p) >= attempt[p]
  /\ pc[p] = "replace" /\ dest # held[p] => Past(p) >= attempt[p]
  /\ pc[p] \in {"recover", "restore", "verify"} /\ missing[p] => Past(p) >= attempt[p]
  /\ pc[p] \in {"probe", "move", "reserve", "recheck", "reprobe", "hold", "replace"}
       /\ cand[p] # original[p] => Past(p) >= attempt[p]
  /\ pc[p] \notin {"idle", "done"} => original[p] # None
  /\ pc[p] \in {"reserve", "recheck", "reprobe", "hold"} => old[p] # None
  /\ pc[p] = "replace" => held[p] # None
  /\ result[p].why = "changed" => Past(p) >= Attempts
Caused == \A p \in Publishers : CausedAt(p)

IInv == /\ Types /\ Undecided /\ Restoring /\ Given /\ Fresh /\ Newcomers
        /\ Tidy /\ faults \in Nat /\ Caused
        /\ DestinationIsKept /\ ResultIsTrue
------------------------------------------------------------------------------
(* Files, results, and the ways a step ends.                               *)

\* Which files last.
LEMMA FileFacts ==
  /\ None \in Lasting /\ \A n \in Nat : Theirs(n) \in Lasting /\ Directory(n) \in Lasting
  /\ \A p \in Publishers : Candidate(p) \in Lasting /\ Marker(p) \in Files /\ Marker(p) \notin Lasting
  /\ Lasting \subseteq Files
BY DEF Lasting, Files, None, Theirs, Directory, Candidate, Marker

\* Every way to return is a result.
LEMMA ResultFacts ==
  /\ Open \in Results /\ Success \in Results /\ Claim \in Results
  /\ \A why \in Whys : Error(why) \in Results
BY DEF Results

\* The fields of a result.
LEMMA ResultFields ==
  /\ ~Open.claim /\ ~Success.claim /\ Claim.claim /\ \A why \in Whys : ~Error(why).claim
  /\ Open.why # "changed" /\ Success.why # "changed" /\ Claim.why # "changed" /\ \A why \in Whys : Error(why).why = why
  /\ Open.kind = "none" /\ Success.kind = "ok" /\ Claim.kind = "error" /\ \A why \in Whys : Error(why).kind = "error"
BY DEF Open, Success, Claim, Error

\* A step of p ends in its own control only.
LEMMA EndTypes ==
  ASSUME LocalTypes, NEW p \in Publishers
  PROVE /\ \A s \in Steps : Goto(p, s) => LocalTypes'
        /\ \A r \in Results : Return(p, r) => LocalTypes'
        /\ Retry(p) => LocalTypes'
        /\ NotRetained(p) => LocalTypes'
<1>1. \A s \in Steps : Goto(p, s) => LocalTypes'
  BY DEF LocalTypes, Goto
<1>2. \A r \in Results : Return(p, r) => LocalTypes'
  BY DEF LocalTypes, Return, Steps
<1>3. Retry(p) => LocalTypes'
  BY <1>2, ResultFacts, AttemptsAssumption DEF LocalTypes, Retry, Steps, Whys
<1>4. NotRetained(p) => LocalTypes'
  BY <1>2, <1>3, ResultFacts DEF NotRetained, Whys
<1> QED BY <1>1, <1>2, <1>3, <1>4

\* What a step writes at its backup name is a file.
LEMMA BackupTypes ==
  ASSUME Types, NEW p \in Publishers
  PROVE  /\ \A f \in Files : SetBackup(p, f) => backup' \in [Publishers -> [1 .. Attempts -> Files]]
         /\ Discard(p) => backup' \in [Publishers -> [1 .. Attempts -> Files]]
         /\ GiveUpRound(p) => backup' \in [Publishers -> [1 .. Attempts -> Files]]
         /\ RoundFails(p) => backup' \in [Publishers -> [1 .. Attempts -> Files]]
         /\ Backup(p) \in Files
<1>1. \A f \in Files : SetBackup(p, f) => backup' \in [Publishers -> [1 .. Attempts -> Files]]
  BY DEF SetBackup, Types, NameTypes, LocalTypes
<1>2. Backup(p) \in Files
  BY DEF Backup, Types, NameTypes, LocalTypes
<1>3. Discard(p) => backup' \in [Publishers -> [1 .. Attempts -> Files]]
  BY <1>1, <1>2, FileFacts DEF Discard
<1> QED BY <1>1, <1>2, <1>3, FileFacts DEF GiveUpRound, RoundFails, Types, NameTypes

\* The variables of the other publishers.
Frame(p) == \A q \in Publishers \ {p} :
  /\ pc'[q] = pc[q] /\ result'[q] = result[q] /\ attempt'[q] = attempt[q] /\ since'[q] = since[q]
  /\ original'[q] = original[q] /\ old'[q] = old[q] /\ held'[q] = held[q] /\ missing'[q] = missing[q]
  /\ installed'[q] = installed[q] /\ displaced'[q] = displaced[q]
  /\ cand'[q] = cand[q] /\ (q \in touched <=> q \in touched')
\* Their backup names, and p's own of other rounds.
Round(p) ==
  /\ \A q \in Publishers \ {p} : backup'[q] = backup[q] /\ Backup(q)' = Backup(q)
  /\ \A k \in 1 .. Attempts : k # attempt[p] => backup'[p][k] = backup[p][k]

\* How a step that ends leaves the control of p and of the others.
LEMMA Endings ==
  ASSUME LocalTypes, NEW p \in Publishers, result[p] = Open
  PROVE  /\ \A s \in Steps : Goto(p, s) => result'[p] = Open /\ attempt' = attempt /\ pc'[p] = s
         /\ \A r \in Results : Return(p, r) => result'[p] = r /\ attempt' = attempt /\ pc'[p] = "done"
         /\ Retry(p) => /\ result'[p] = Open \/ result'[p] = Error("changed")
                        /\ \/ pc'[p] = "check" /\ attempt'[p] = attempt[p] + 1
                           \/ pc'[p] = "done" /\ attempt' = attempt
         /\ NotRetained(p) =>
              /\ result'[p] = Open \/ result'[p] = Error("changed") \/ result'[p] = Error("replace")
              /\ \/ pc'[p] = "check" /\ attempt'[p] = attempt[p] + 1
                 \/ pc'[p] = "done" /\ attempt' = attempt
<1>1. \A s \in Steps : Goto(p, s) => result'[p] = Open /\ attempt' = attempt /\ pc'[p] = s
  BY DEF LocalTypes, Goto
<1>2. \A r \in Results : Return(p, r) => result'[p] = r /\ attempt' = attempt /\ pc'[p] = "done"
  BY DEF LocalTypes, Return
<1>3. Retry(p) => /\ result'[p] = Open \/ result'[p] = Error("changed")
                  /\ \/ pc'[p] = "check" /\ attempt'[p] = attempt[p] + 1
                     \/ pc'[p] = "done" /\ attempt' = attempt
  BY <1>2, ResultFacts DEF LocalTypes, Retry, Whys
<1> QED BY <1>1, <1>2, <1>3, ResultFacts DEF NotRetained, Whys

\* Whichever way it ends, the others' control stays.
LEMMA OthersWait ==
  ASSUME LocalTypes, NEW p \in Publishers,
         \/ \E s \in Steps : Goto(p, s)
         \/ \E r \in Results : Return(p, r)
         \/ Retry(p) \/ NotRetained(p)
  PROVE  \A q \in Publishers \ {p} : pc'[q] = pc[q] /\ result'[q] = result[q] /\ attempt'[q] = attempt[q]
BY DEF LocalTypes, Goto, Return, Retry, NotRetained

\* The backup name of the round is the only one a step of p writes, CleanUp apart.
LEMMA BackupOfRound ==
  ASSUME Types, NEW p \in Publishers
  PROVE  LET Only == /\ \A q \in Publishers \ {p} : backup'[q] = backup[q]
                     /\ \A k \in 1 .. Attempts : k # attempt[p] => backup'[p][k] = backup[p][k]
         IN  /\ \A f : SetBackup(p, f) => Only /\ backup'[p][attempt[p]] = f
             /\ Discard(p) \/ GiveUpRound(p) \/ RoundFails(p) => Only
             /\ Discard(p) /\ Backup(p) \in {Marker(p), None} => backup'[p][attempt[p]] = None
<1> DEFINE Only == /\ \A q \in Publishers \ {p} : backup'[q] = backup[q]
                   /\ \A k \in 1 .. Attempts : k # attempt[p] => backup'[p][k] = backup[p][k]
<1>1. ASSUME NEW f, SetBackup(p, f) PROVE Only /\ backup'[p][attempt[p]] = f
  <2>1. backup[p] \in [1 .. Attempts -> Files] /\ attempt[p] \in 1 .. Attempts
    BY DEF Types, NameTypes, LocalTypes
  <2>2. backup'[p] = [backup[p] EXCEPT ![attempt[p]] = f] /\ \A q \in Publishers \ {p} : backup'[q] = backup[q]
    BY <1>1 DEF SetBackup, Types, NameTypes
  <2> QED BY <2>1, <2>2
<1>2. Discard(p) \/ GiveUpRound(p) \/ RoundFails(p) => Only
  BY <1>1 DEF GiveUpRound, RoundFails, Discard
<1>3. Discard(p) /\ Backup(p) \in {Marker(p), None} => backup'[p][attempt[p]] = None
  BY <1>1 DEF Discard, Backup
<1> QED BY <1>1, <1>2, <1>3

\* A step of p touches nothing of the others'.
LEMMA Alone ==
  ASSUME Types, Undecided, NEW p \in Publishers, PublishCmd(p)
  PROVE  /\ pc[p] # "done" /\ LocalTypes /\ result[p] = Open /\ attempt[p] \in 1 .. Attempts
         /\ Frame(p) /\ (CleanUp(p) \/ Round(p))
<1>1. pc[p] # "done"
  BY
  DEF PublishCmd, Begin, CheckCandidate, ProbeDestination, MoveCandidate, ReserveBackup,
      RecheckCandidate, RecheckDestination, HoldDestination, ReplaceFile, ReplaceFileFails, CleanUp,
        Recover, Restore, Verify
<1>2. LocalTypes /\ result[p] = Open /\ attempt[p] \in 1 .. Attempts
  BY <1>1 DEF Types, LocalTypes, Undecided
<1>3. \/ \E s \in Steps : Goto(p, s)
      \/ \E r \in Results : Return(p, r)
      \/ Retry(p) \/ NotRetained(p)
  BY ResultFacts
  DEF PublishCmd, Begin, CheckCandidate, ProbeDestination, MoveCandidate, ReserveBackup,
      RecheckCandidate, RecheckDestination, HoldDestination, ReplaceFile, ReplaceFileFails, CleanUp,
        Recover, Restore, Verify, RoundFails, Steps, Whys
<1>4. \A q \in Publishers \ {p} : pc'[q] = pc[q] /\ result'[q] = result[q] /\ attempt'[q] = attempt[q]
  BY <1>2, <1>3, OthersWait
<1>5. \A q \in Publishers \ {p} :
        /\ since'[q] = since[q] /\ original'[q] = original[q] /\ old'[q] = old[q]
        /\ held'[q] = held[q] /\ missing'[q] = missing[q]
  BY
  DEF PublishCmd, Begin, CheckCandidate, ProbeDestination, MoveCandidate, ReserveBackup,
      RecheckCandidate, RecheckDestination, HoldDestination, ReplaceFile, ReplaceFileFails, CleanUp,
        Recover, Restore, Verify, LooksOnly, HistoryStays, NamesStay, DestStays, Types, SeenTypes,
        HistTypes
<1>6. \A q \in Publishers \ {p} :
        /\ installed'[q] = installed[q] /\ displaced'[q] = displaced[q]
        /\ cand'[q] = cand[q] /\ (q \in touched <=> q \in touched')
  BY
  DEF PublishCmd, Begin, CheckCandidate, ProbeDestination, MoveCandidate, ReserveBackup,
      RecheckCandidate, RecheckDestination, HoldDestination, ReplaceFile, ReplaceFileFails, CleanUp,
        Recover, Restore, Verify, LooksOnly, HistoryStays, NamesStay, DestStays, Install, Types,
          NameTypes, HistTypes
<1>7. ASSUME ~CleanUp(p) PROVE Round(p)
  <2>1. /\ \A q \in Publishers \ {p} : backup'[q] = backup[q]
        /\ \A k \in 1 .. Attempts : k # attempt[p] => backup'[p][k] = backup[p][k]
    BY <1>7, BackupOfRound
    DEF PublishCmd, Begin, CheckCandidate, ProbeDestination, MoveCandidate, ReserveBackup,
        RecheckCandidate, RecheckDestination, HoldDestination, ReplaceFile, ReplaceFileFails, Recover,
          Restore, Verify, PutBack
  <2> QED BY <1>4, <2>1 DEF Round, Backup
<1> QED BY <1>1, <1>2, <1>4, <1>5, <1>6, <1>7 DEF Frame
------------------------------------------------------------------------------
(* The conjuncts that are read off the actions.                            *)

\* Every variable stays in its set.
LEMMA TypesStep == ASSUME Types, Restoring, Next PROVE Types'
<1> USE FileFacts, ResultFacts
<1>1. ASSUME NEW p \in Publishers, Begin(p) PROVE Types'
  BY <1>1, EndTypes
  DEF Begin, NamesStay, DestStays, Types, NameTypes, SeenTypes, HistTypes, Steps, Whys, Lasting
<1>2. ASSUME NEW p \in Publishers, CheckCandidate(p) PROVE Types'
  BY <1>2, EndTypes
  DEF CheckCandidate, LooksOnly, HistoryStays, NamesStay, DestStays, Types, NameTypes, SeenTypes,
      HistTypes, Steps, Whys
<1>3. ASSUME NEW p \in Publishers, ProbeDestination(p) PROVE Types'
  BY <1>3, EndTypes
  DEF ProbeDestination, LooksOnly, HistoryStays, NamesStay, DestStays, Types, NameTypes, SeenTypes,
      HistTypes, Steps, Whys
<1>4. ASSUME NEW p \in Publishers, MoveCandidate(p) PROVE Types'
  <2>1. LocalTypes'
    BY <1>4, EndTypes DEF MoveCandidate, Types, Whys
  <2>2. NameTypes'
    BY <1>4 DEF MoveCandidate, Install, DestChanges, DestStays, Types, NameTypes
  <2>3. HistTypes'
    <3>1. changes' \in Nat
      BY <1>4 DEF MoveCandidate, Install, DestChanges, DestStays, Types, HistTypes
    <3>2. prior' \in Lasting /\ installed' \in [Publishers -> Lasting]
      BY <1>4 DEF MoveCandidate, Install, Types, NameTypes, HistTypes
    <3> QED BY <1>4, <3>1, <3>2 DEF MoveCandidate, Types, HistTypes
  <2> QED BY <1>4, <2>1, <2>2, <2>3 DEF MoveCandidate, Types, SeenTypes
<1>5. ASSUME NEW p \in Publishers, ReserveBackup(p) PROVE Types'
  BY <1>5, EndTypes, BackupTypes
  DEF ReserveBackup, LooksOnly, HistoryStays, NamesStay, DestStays, Types, NameTypes, SeenTypes,
      HistTypes, Steps, Whys
<1>6. ASSUME NEW p \in Publishers, RecheckCandidate(p) PROVE Types'
  BY <1>6, EndTypes, BackupTypes
  DEF RecheckCandidate, RoundFails, LooksOnly, HistoryStays, NamesStay, DestStays, Types, NameTypes,
      SeenTypes, HistTypes, Steps, Whys
<1>7. ASSUME NEW p \in Publishers, RecheckDestination(p) PROVE Types'
  BY <1>7, EndTypes, BackupTypes
  DEF RecheckDestination, RoundFails, LooksOnly, HistoryStays, NamesStay, DestStays, Types, NameTypes,
      SeenTypes, HistTypes, Steps, Whys
<1>8. ASSUME NEW p \in Publishers, HoldDestination(p) PROVE Types'
  BY <1>8, EndTypes, BackupTypes
  DEF HoldDestination, RoundFails, LooksOnly, HistoryStays, NamesStay, DestStays, Types, NameTypes,
      SeenTypes, HistTypes, Steps, Whys
<1>9. ASSUME NEW p \in Publishers, ReplaceFile(p) PROVE Types'
  BY <1>9, EndTypes, BackupTypes
  DEF ReplaceFile, Install, DestChanges, Types, NameTypes, SeenTypes, HistTypes, Steps
<1>10. ASSUME NEW p \in Publishers, ReplaceFileFails(p) PROVE Types'
  <2>1. LocalTypes'
    BY <1>10, EndTypes DEF ReplaceFileFails, Types, Steps
  <2>2. dest' \in Lasting /\ changes' \in Nat /\ backup' \in [Publishers -> [1 .. Attempts -> Files]]
    BY <1>10, BackupTypes DEF ReplaceFileFails, DestStays, DestChanges, Types, NameTypes, HistTypes
  <2>3. missing' \in [Publishers -> BOOLEAN]
    BY <1>10 DEF ReplaceFileFails, Types, SeenTypes
  <2> QED BY <1>10, <2>1, <2>2, <2>3 DEF ReplaceFileFails, HistoryStays, Types, NameTypes, SeenTypes,
    HistTypes
<1>11. ASSUME NEW p \in Publishers, CleanUp(p) PROVE Types'
  <2>1. pc[p] = "cleanup" /\ LocalTypes'
    BY <1>11, EndTypes DEF CleanUp, Types
  <2>2. dest' \in Lasting /\ aside' \in Lasting /\ backup' \in [Publishers -> [1 .. Attempts -> Files]]
    <3>1. CASE Unlink(held[p])
      BY <3>1 DEF Unlink, Types, NameTypes, Lasting
    <3>2. CASE UNCHANGED <<dest, aside, backup>>
      BY <3>2 DEF Types, NameTypes
    <3> QED BY <1>11, <3>1, <3>2 DEF CleanUp
  <2>3. deleted' \in [Publishers -> Lasting] /\ changes' \in Nat
    <3>1. held[p] \in Lasting
      BY DEF Types, SeenTypes
    <3>2. deleted' \in [Publishers -> Lasting]
      BY <1>11, <3>1 DEF CleanUp, Types, HistTypes
    <3>3. changes' \in Nat
      BY <1>11 DEF CleanUp, Unlink, Types, HistTypes
    <3> QED BY <3>2, <3>3
  <2> QED BY <1>11, <2>1, <2>2, <2>3 DEF CleanUp, Types, NameTypes, SeenTypes, HistTypes
<1>12. ASSUME NEW p \in Publishers, Recover(p) PROVE Types'
  BY <1>12, EndTypes, BackupTypes
  DEF Recover, LooksOnly, HistoryStays, NamesStay, DestStays, Types, NameTypes, SeenTypes,
    HistTypes, Steps
<1>13. ASSUME NEW p \in Publishers, Restore(p) PROVE Types'
  BY <1>13, EndTypes, BackupTypes
  DEF Restore, PutBack, HistoryStays, Restoring, DestStays, DestChanges, Types, NameTypes, SeenTypes,
      HistTypes
<1>14. ASSUME NEW p \in Publishers, Verify(p) PROVE Types'
  BY <1>14, EndTypes
  DEF Verify, LooksOnly, HistoryStays, NamesStay, DestStays, Types, NameTypes, SeenTypes, HistTypes
<1>15. CASE Others
  <2>1. ASSUME NEW p \in Publishers, OthersTouchCandidate(p) PROVE Types'
    <3>1. \A f \in {None, Theirs(meddled + 1)} : f \in Lasting
      BY DEF Types, NameTypes
    <3>2. cand' \in [Publishers -> Lasting]
      BY <2>1, <3>1 DEF OthersTouchCandidate, Types, NameTypes
    <3> QED BY <2>1, <3>2 DEF OthersTouchCandidate, Meddle, localVars, Types, LocalTypes, NameTypes,
      SeenTypes, HistTypes
  <2>2. CASE OthersPut
    <3>1. \A f \in {Theirs(meddled + 1), Directory(meddled + 1)} : f \in Lasting
      BY DEF Types, NameTypes
    <3> QED BY <2>2, <3>1 DEF OthersPut, Meddle, localVars, DestChanges, Types, LocalTypes, NameTypes,
      SeenTypes, HistTypes
  <2>3. CASE OthersTake \/ OthersBringBack
    BY <2>3
    DEF OthersTake, OthersBringBack, Meddle, localVars, DestChanges, Types, LocalTypes, NameTypes,
        SeenTypes, HistTypes
  <2> QED BY <1>15, <2>1, <2>2, <2>3 DEF Others
<1> QED BY <1>1, <1>2, <1>3, <1>4, <1>5, <1>6, <1>7, <1>8, <1>9, <1>10, <1>11, <1>12, <1>13, <1>14,
<1>15 DEF Next, PublishCmd

\* Only the last step of a publisher answers or deletes.
LEMMA UndecidedStep == ASSUME Types, Undecided, Next PROVE Undecided'
<1> USE FileFacts DEF Types, LocalTypes, NameTypes, SeenTypes, HistTypes, Undecided
<1>1. ASSUME NEW p \in Publishers, Begin(p) PROVE Undecided'
  BY <1>1 DEF Begin, NamesStay, DestStays, Goto, Return
<1>2. ASSUME NEW p \in Publishers, CheckCandidate(p) PROVE Undecided'
  BY <1>2 DEF CheckCandidate, LooksOnly, HistoryStays, NamesStay, DestStays, Goto, Return
<1>3. ASSUME NEW p \in Publishers, ProbeDestination(p) PROVE Undecided'
  BY <1>3 DEF ProbeDestination, LooksOnly, HistoryStays, NamesStay, DestStays, Goto, Return
<1>4. ASSUME NEW p \in Publishers, MoveCandidate(p) PROVE Undecided'
  BY <1>4 DEF MoveCandidate, Install, DestChanges, DestStays, Retry, Return
<1>5. ASSUME NEW p \in Publishers, ReserveBackup(p) PROVE Undecided'
  BY <1>5 DEF ReserveBackup, SetBackup, LooksOnly, HistoryStays, NamesStay, DestStays, Goto, Return
<1>6. ASSUME NEW p \in Publishers, RecheckCandidate(p) PROVE Undecided'
  BY <1>6
  DEF RecheckCandidate, GiveUpRound, Discard, RoundFails, SetBackup, LooksOnly, HistoryStays, NamesStay,
      DestStays, Goto, Return
<1>7. ASSUME NEW p \in Publishers, RecheckDestination(p) PROVE Undecided'
  BY <1>7
  DEF RecheckDestination, GiveUpRound, Discard, RoundFails, SetBackup, LooksOnly, HistoryStays,
      NamesStay, DestStays, Goto, Return, Retry
<1>8. ASSUME NEW p \in Publishers, HoldDestination(p) PROVE Undecided'
  BY <1>8
  DEF HoldDestination, GiveUpRound, Discard, RoundFails, SetBackup, LooksOnly, HistoryStays, NamesStay,
      DestStays, Goto, Return, Retry
<1>9. ASSUME NEW p \in Publishers, ReplaceFile(p) PROVE Undecided'
  BY <1>9 DEF ReplaceFile, SetBackup, Install, DestChanges, Goto
<1>10. ASSUME NEW p \in Publishers, ReplaceFileFails(p) PROVE Undecided'
  BY <1>10 DEF ReplaceFileFails, SetBackup, DestChanges, DestStays, HistoryStays, Goto
<1>11. ASSUME NEW p \in Publishers, CleanUp(p) PROVE Undecided'
  BY <1>11 DEF CleanUp, Unlink, Return
<1>12. ASSUME NEW p \in Publishers, Recover(p) PROVE Undecided'
  BY <1>12 DEF Recover, Discard, SetBackup, LooksOnly, HistoryStays, NamesStay, DestStays, Goto, Return
<1>13. ASSUME NEW p \in Publishers, Restore(p) PROVE Undecided'
  BY <1>13 DEF Restore, PutBack, SetBackup, DestChanges, DestStays, HistoryStays, NotRetained,
    Retry, Return
<1>14. ASSUME NEW p \in Publishers, Verify(p) PROVE Undecided'
  BY <1>14 DEF Verify, LooksOnly, HistoryStays, NamesStay, DestStays, NotRetained, Retry, Return
<1>15. CASE Others
  BY <1>15
  DEF Others, OthersPut, OthersTake, OthersBringBack, OthersTouchCandidate, Meddle, localVars,
    DestChanges
<1> QED BY <1>1, <1>2, <1>3, <1>4, <1>5, <1>6, <1>7, <1>8, <1>9, <1>10, <1>11, <1>12, <1>13, <1>14,
<1>15 DEF Next, PublishCmd

\* Nobody writes the backup name of another publisher; a clean-up can only free it.
LEMMA RestoringStep == ASSUME Types, Restoring, Next PROVE Restoring'
<1> USE FileFacts DEF Types, LocalTypes, NameTypes, SeenTypes, HistTypes, Restoring, Backup
<1>1. ASSUME NEW p \in Publishers, Begin(p) PROVE Restoring'
  BY <1>1 DEF Begin, NamesStay, DestStays, Goto, Return
<1>2. ASSUME NEW p \in Publishers, CheckCandidate(p) PROVE Restoring'
  BY <1>2 DEF CheckCandidate, LooksOnly, HistoryStays, NamesStay, DestStays, Goto, Return
<1>3. ASSUME NEW p \in Publishers, ProbeDestination(p) PROVE Restoring'
  BY <1>3 DEF ProbeDestination, LooksOnly, HistoryStays, NamesStay, DestStays, Goto, Return
<1>4. ASSUME NEW p \in Publishers, MoveCandidate(p) PROVE Restoring'
  BY <1>4 DEF MoveCandidate, Install, DestChanges, DestStays, Retry, Return
<1>5. ASSUME NEW p \in Publishers, ReserveBackup(p) PROVE Restoring'
  BY <1>5 DEF ReserveBackup, SetBackup, LooksOnly, HistoryStays, NamesStay, DestStays, Goto, Return
<1>6. ASSUME NEW p \in Publishers, RecheckCandidate(p) PROVE Restoring'
  BY <1>6
  DEF RecheckCandidate, GiveUpRound, Discard, RoundFails, SetBackup, LooksOnly, HistoryStays, NamesStay,
      DestStays, Goto, Return
<1>7. ASSUME NEW p \in Publishers, RecheckDestination(p) PROVE Restoring'
  BY <1>7
  DEF RecheckDestination, GiveUpRound, Discard, RoundFails, SetBackup, LooksOnly, HistoryStays,
      NamesStay, DestStays, Goto, Return, Retry
<1>8. ASSUME NEW p \in Publishers, HoldDestination(p) PROVE Restoring'
  BY <1>8
  DEF HoldDestination, GiveUpRound, Discard, RoundFails, SetBackup, LooksOnly, HistoryStays, NamesStay,
      DestStays, Goto, Return, Retry
<1>9. ASSUME NEW p \in Publishers, ReplaceFile(p) PROVE Restoring'
  BY <1>9 DEF ReplaceFile, SetBackup, Install, DestChanges, Goto
<1>10. ASSUME NEW p \in Publishers, ReplaceFileFails(p) PROVE Restoring'
  BY <1>10 DEF ReplaceFileFails, SetBackup, DestChanges, DestStays, HistoryStays, Goto
<1>11. ASSUME NEW p \in Publishers, CleanUp(p) PROVE Restoring'
  <2>1. \A q \in Publishers : attempt'[q] = attempt[q] /\ held'[q] = held[q] /\ (pc'[q] = "restore" => pc[q] = "restore")
    BY <1>11 DEF CleanUp, Return
  <2>2. \A q \in Publishers : Backup(q)' \in {Backup(q), None}
    <3>1. CASE Unlink(held[p])
      BY <3>1, <2>1 DEF Unlink
    <3>2. CASE UNCHANGED backup
      BY <3>2, <2>1
    <3> QED BY <1>11, <3>1, <3>2 DEF CleanUp
  <2> QED BY <2>1, <2>2
<1>12. ASSUME NEW p \in Publishers, Recover(p) PROVE Restoring'
  BY <1>12 DEF Recover, Discard, SetBackup, LooksOnly, HistoryStays, NamesStay, DestStays, Goto, Return
<1>13. ASSUME NEW p \in Publishers, Restore(p) PROVE Restoring'
  BY <1>13 DEF Restore, PutBack, SetBackup, DestChanges, DestStays, HistoryStays, NotRetained,
    Retry, Return
<1>14. ASSUME NEW p \in Publishers, Verify(p) PROVE Restoring'
  BY <1>14 DEF Verify, LooksOnly, HistoryStays, NamesStay, DestStays, NotRetained, Retry, Return
<1>15. CASE Others
  BY <1>15
  DEF Others, OthersPut, OthersTake, OthersBringBack, OthersTouchCandidate, Meddle, localVars,
    DestChanges
<1> QED BY <1>1, <1>2, <1>3, <1>4, <1>5, <1>6, <1>7, <1>8, <1>9, <1>10, <1>11, <1>12, <1>13, <1>14,
<1>15 DEF Next, PublishCmd

\* Whoever changes a candidate is a publisher that installs its own, or touches it.
LEMMA GivenStep == ASSUME Types, Given, Undecided, Next PROVE Given'
<1> USE FileFacts DEF Types, LocalTypes, NameTypes, SeenTypes, HistTypes, Given, AtCandidate, Looking
<1>1. ASSUME NEW p \in Publishers, Begin(p) PROVE Given'
  BY <1>1 DEF Begin, NamesStay, DestStays, Goto, Return
<1>2. ASSUME NEW p \in Publishers, CheckCandidate(p) PROVE Given'
  BY <1>2 DEF CheckCandidate, LooksOnly, HistoryStays, NamesStay, DestStays, Goto, Return
<1>3. ASSUME NEW p \in Publishers, ProbeDestination(p) PROVE Given'
  BY <1>3 DEF ProbeDestination, LooksOnly, HistoryStays, NamesStay, DestStays, Goto, Return
<1>4. ASSUME NEW p \in Publishers, MoveCandidate(p) PROVE Given'
  BY <1>4 DEF MoveCandidate, Install, DestChanges, DestStays, Retry, Return
<1>5. ASSUME NEW p \in Publishers, ReserveBackup(p) PROVE Given'
  BY <1>5 DEF ReserveBackup, SetBackup, LooksOnly, HistoryStays, NamesStay, DestStays, Goto, Return
<1>6. ASSUME NEW p \in Publishers, RecheckCandidate(p) PROVE Given'
  BY <1>6
  DEF RecheckCandidate, GiveUpRound, Discard, RoundFails, SetBackup, LooksOnly, HistoryStays, NamesStay,
      DestStays, Goto, Return
<1>7. ASSUME NEW p \in Publishers, RecheckDestination(p) PROVE Given'
  BY <1>7
  DEF RecheckDestination, GiveUpRound, Discard, RoundFails, SetBackup, LooksOnly, HistoryStays,
      NamesStay, DestStays, Goto, Return, Retry
<1>8. ASSUME NEW p \in Publishers, HoldDestination(p) PROVE Given'
  BY <1>8
  DEF HoldDestination, GiveUpRound, Discard, RoundFails, SetBackup, LooksOnly, HistoryStays, NamesStay,
      DestStays, Goto, Return, Retry
<1>9. ASSUME NEW p \in Publishers, ReplaceFile(p) PROVE Given'
  BY <1>9 DEF ReplaceFile, SetBackup, Install, DestChanges, Goto
<1>10. ASSUME NEW p \in Publishers, ReplaceFileFails(p) PROVE Given'
  BY <1>10 DEF ReplaceFileFails, SetBackup, DestChanges, DestStays, HistoryStays, Goto
<1>11. ASSUME NEW p \in Publishers, CleanUp(p) PROVE Given'
  BY <1>11 DEF CleanUp, Unlink, Return
<1>12. ASSUME NEW p \in Publishers, Recover(p) PROVE Given'
  BY <1>12 DEF Recover, Discard, SetBackup, LooksOnly, HistoryStays, NamesStay, DestStays, Goto, Return
<1>13. ASSUME NEW p \in Publishers, Restore(p) PROVE Given'
  BY <1>13 DEF Restore, PutBack, SetBackup, DestChanges, DestStays, HistoryStays, NotRetained,
    Retry, Return
<1>14. ASSUME NEW p \in Publishers, Verify(p) PROVE Given'
  BY <1>14 DEF Verify, LooksOnly, HistoryStays, NamesStay, DestStays, NotRetained, Retry, Return
<1>15. CASE Others
  BY <1>15
  DEF Others, OthersPut, OthersTake, OthersBringBack, OthersTouchCandidate, Meddle, localVars,
    DestChanges
<1> QED BY <1>1, <1>2, <1>3, <1>4, <1>5, <1>6, <1>7, <1>8, <1>9, <1>10, <1>11, <1>12, <1>13, <1>14,
<1>15 DEF Next, PublishCmd

------------------------------------------------------------------------------
(* The destination is kept.                                                *)

\* A step that leaves the destination alone, and what p retains.
LEMMA KeptByOthers ==
  ASSUME Types, Undecided, DestinationIsKept, NEW p \in Publishers, pc[p] # "done",
         Frame(p), \A q \in Publishers \ {p} : Backup(q)' = Backup(q),
         dest' = dest, prior' = prior, deleted' = deleted,
         Backup(p) = prior /\ prior # None /\ pc[p] \in {"recover", "restore"} =>
           Backup(p)' = prior /\ (pc'[p] \in {"recover", "restore"} \/ result'[p].claim)
  PROVE  DestinationIsKept'
BY ResultFields DEF Undecided, DestinationIsKept, Frame

\* One case per call.
LEMMA KeptStep == ASSUME Types, Restoring, Undecided, DestinationIsKept, Next PROVE DestinationIsKept'
<1>1. ASSUME NEW p \in Publishers, PublishCmd(p) PROVE DestinationIsKept'
  <2>0. /\ pc[p] # "done" /\ LocalTypes /\ result[p] = Open /\ attempt[p] \in 1 .. Attempts
        /\ Frame(p) /\ (CleanUp(p) \/ Round(p))
    BY <1>1, Alone
  <2>1. CASE Begin(p) \/ CheckCandidate(p) \/ ProbeDestination(p) \/ ReserveBackup(p)
          \/ RecheckCandidate(p) \/ RecheckDestination(p) \/ HoldDestination(p)
    <3>1. /\ pc[p] \notin {"recover", "restore"}
          /\ dest' = dest /\ prior' = prior /\ deleted' = deleted
      BY <2>1
      DEF Begin, CheckCandidate, ProbeDestination, ReserveBackup, RecheckCandidate, RecheckDestination,
          HoldDestination, LooksOnly, HistoryStays, NamesStay, DestStays
    <3>2. Round(p)
      BY <2>0, <2>1
      DEF CleanUp, Begin, CheckCandidate, ProbeDestination, ReserveBackup, RecheckCandidate,
          RecheckDestination, HoldDestination
    <3> QED BY <2>0, <3>1, <3>2, KeptByOthers DEF Round
  <2>2. CASE MoveCandidate(p)
    <3>1. pc[p] = "move" /\ deleted' = deleted
      BY <2>2 DEF MoveCandidate
    <3>2. Round(p)
      BY <2>0, <2>2 DEF CleanUp, MoveCandidate
    <3>3. CASE Install(p)
      BY <3>3 DEF Install, DestChanges, DestinationIsKept
    <3>4. CASE dest' = dest /\ prior' = prior
      BY <2>0, <3>1, <3>2, <3>4, KeptByOthers DEF Round
    <3> QED BY <2>2, <3>3, <3>4 DEF MoveCandidate, DestStays
  <2>3. CASE ReplaceFile(p)
    BY <2>3 DEF ReplaceFile, Install, DestChanges, DestinationIsKept
  <2>4. CASE ReplaceFileFails(p)
    <3>1. pc[p] = "replace" /\ prior' = prior /\ deleted' = deleted
      BY <2>4 DEF ReplaceFileFails, HistoryStays
    <3>2. pc'[p] = "recover" /\ attempt' = attempt /\ Round(p)
      BY <2>0, <2>4, <3>1, Endings DEF ReplaceFileFails, CleanUp, Steps
    <3>3. CASE dest' = dest
      BY <2>0, <3>1, <3>2, <3>3, KeptByOthers DEF Round
    <3>4. CASE SetBackup(p, dest)
      <4>1. Backup(p)' = dest
        BY <3>2, <3>4, BackupOfRound DEF Backup
      <4> QED BY <2>0, <3>1, <3>2, <4>1, ResultFields DEF DestinationIsKept, Frame, Round
    <3> QED BY <2>4, <3>3, <3>4 DEF ReplaceFileFails, DestStays
  <2>5. CASE CleanUp(p)
    <3>1. pc[p] = "cleanup" /\ prior' = prior
      BY <2>5 DEF CleanUp
    <3>2. attempt' = attempt
      BY <2>0, <2>5, <3>1, Endings, ResultFacts DEF CleanUp
    <3>3. CASE UNCHANGED <<dest, backup, deleted>>
      BY <2>0, <3>1, <3>2, <3>3, KeptByOthers DEF Frame, Backup
    <3>4. CASE /\ Unlink(held[p])
               /\ deleted' = [deleted EXCEPT ![p] = IF Named(held[p]) THEN held[p] ELSE None]
      <4>1. deleted[p] = None /\ \A q \in Publishers \ {p} : deleted'[q] = deleted[q]
        BY <3>1, <3>4 DEF Undecided, Types, HistTypes
      <4>2. deleted'[p] = IF Named(held[p]) THEN held[p] ELSE None
        BY <3>4 DEF Types, HistTypes
      <4>3. \A q \in Publishers : Backup(q)' = IF Backup(q) = held[p] THEN None ELSE Backup(q)
        BY <3>2, <3>4 DEF Unlink, Backup, Types, LocalTypes
      <4>4. dest' = IF dest = held[p] THEN None ELSE dest
        BY <3>4 DEF Unlink
      <4>5. CASE prior = held[p] /\ Named(held[p])
        BY <3>1, <4>2, <4>5 DEF DestinationIsKept
      <4>6. CASE prior = held[p] /\ ~Named(held[p])
        <5>1. dest # prior /\ \A q \in Publishers : Backup(q) # prior
          BY <4>6 DEF Named, Backup, Types, LocalTypes
        <5>2. prior # None => \E q \in Publishers : q # p /\ deleted[q] = prior
          BY <4>1, <5>1 DEF DestinationIsKept
        <5> QED BY <3>1, <4>1, <5>2 DEF DestinationIsKept
      <4>7. CASE prior # held[p]
        <5> SUFFICES ASSUME prior # None, prior \notin {deleted'[q] : q \in Publishers}
                     PROVE  dest' = prior \/ \E q \in Publishers :
                              /\ Backup(q)' = prior
                              /\ pc'[q] \in {"recover", "restore"} \/ result'[q].claim
          BY <3>1 DEF DestinationIsKept
        <5>1. prior \notin {deleted[q] : q \in Publishers}
          BY <4>1
        <5>2. CASE dest = prior
          BY <4>4, <4>7, <5>2
        <5>3. ASSUME NEW q \in Publishers, Backup(q) = prior,
                     pc[q] \in {"recover", "restore"} \/ result[q].claim
              PROVE  Backup(q)' = prior /\ (pc'[q] \in {"recover", "restore"} \/ result'[q].claim)
          <6>1. q # p
            BY <2>0, <3>1, <5>3, ResultFields
          <6> QED BY <2>0, <3>2, <4>3, <4>7, <5>3, <6>1 DEF Frame
        <5> QED BY <5>1, <5>2, <5>3 DEF DestinationIsKept
      <4> QED BY <4>5, <4>6, <4>7
    <3> QED BY <2>5, <3>3, <3>4 DEF CleanUp
  <2>6. CASE Recover(p)
    <3>1. /\ pc[p] = "recover" /\ Round(p)
          /\ prior' = prior /\ deleted' = deleted /\ dest' = dest
      BY <2>0, <2>6 DEF CleanUp, Recover, LooksOnly, HistoryStays, NamesStay, DestStays
    <3>2. attempt' = attempt
      BY <2>0, <2>6, Endings, ResultFacts DEF Recover, Steps
    <3>3. CASE backup' = backup /\ (pc'[p] = "restore" \/ result'[p].claim)
      BY <2>0, <3>1, <3>2, <3>3, KeptByOthers DEF Round, Backup
    <3>4. CASE Backup(p) \in {None, Marker(p)}
      <4>1. prior # Marker(p)
        BY FileFacts DEF Types, HistTypes
      <4> QED BY <2>0, <3>1, <3>4, <4>1, KeptByOthers DEF Round
    <3> QED BY <2>0, <2>6, <3>3, <3>4, Endings, ResultFacts, ResultFields DEF Recover, Steps
  <2>7. CASE Restore(p)
    <3>1. pc[p] = "restore" /\ prior' = prior /\ deleted' = deleted /\ Round(p)
      BY <2>0, <2>7 DEF CleanUp, Restore, HistoryStays
    <3>2. CASE UNCHANGED <<dest, backup>> /\ Return(p, Claim)
      <4>1. attempt' = attempt /\ result'[p].claim
        BY <2>0, <3>2, Endings, ResultFacts, ResultFields
      <4> QED BY <2>0, <3>1, <3>2, <4>1, KeptByOthers DEF Round, Backup
    <3>3. CASE dest = None /\ PutBack(p)
      <4>1. dest' = Backup(p)
        BY <3>3 DEF PutBack, DestChanges
      <4>2. CASE Backup(p) = prior
        BY <3>1, <4>1, <4>2 DEF DestinationIsKept
      <4>3. CASE Backup(p) # prior
        BY <2>0, <3>1, <3>3, <4>3 DEF DestinationIsKept, Frame, Round
      <4> QED BY <4>2, <4>3
    <3> QED BY <2>7, <3>2, <3>3 DEF Restore, DestStays
  <2>8. CASE Verify(p)
    <3>1. /\ pc[p] = "verify" /\ Round(p)
          /\ prior' = prior /\ deleted' = deleted /\ dest' = dest
      BY <2>0, <2>8 DEF CleanUp, Verify, LooksOnly, HistoryStays, NamesStay, DestStays
    <3> QED BY <2>0, <3>1, KeptByOthers DEF Round
  <2> QED BY <1>1, <2>1, <2>2, <2>3, <2>4, <2>5, <2>6, <2>7, <2>8 DEF PublishCmd
<1>2. CASE Others
  BY <1>2
  DEF Others, OthersPut, OthersTake, OthersBringBack, OthersTouchCandidate, Meddle, localVars,
      DestChanges, DestinationIsKept, Backup
<1> QED BY <1>1, <1>2 DEF Next

------------------------------------------------------------------------------
(* The result is true.                                                     *)

\* What a step of p does to the results: its own, at most.
LEMMA TrueOfOthers ==
  ASSUME ResultIsTrue, NEW p \in Publishers, Frame(p),
         result'[p].kind = "ok" => installed'[p] = original'[p] \/ p \in touched',
         result'[p].kind = "error" => installed'[p] = None /\ (original'[p] \in {None,
           cand'[p]} \/ p \in touched')
  PROVE  ResultIsTrue'
BY DEF ResultIsTrue, Frame

\* One case per call.
LEMMA ResultStep == ASSUME Types, Given, Undecided, ResultIsTrue, Next PROVE ResultIsTrue'
<1>1. ASSUME NEW p \in Publishers, PublishCmd(p) PROVE ResultIsTrue'
  <2>0. /\ pc[p] # "done" /\ LocalTypes /\ result[p] = Open /\ attempt[p] \in 1 .. Attempts
        /\ Frame(p) /\ (CleanUp(p) \/ Round(p))
    BY <1>1, Alone
  <2>1. CASE Begin(p)
    <3>1. /\ result'[p].kind = "ok" => installed'[p] = original'[p] \/ p \in touched'
          /\ result'[p].kind = "error" =>
               installed'[p] = None /\ (original'[p] \in {None, cand'[p]} \/ p \in touched')
      BY <2>0, <2>1, Endings, ResultFacts, ResultFields
      DEF Begin, Install, LooksOnly, HistoryStays, NamesStay, DestStays, Given, AtCandidate, Looking,
          Steps, Whys, Types, NameTypes, SeenTypes, HistTypes
    <3> QED BY <2>0, <3>1, TrueOfOthers
  <2>2. CASE CheckCandidate(p)
    <3>1. result'[p].kind # "ok" /\ installed'[p] = None
      BY <2>0, <2>2, Endings, ResultFacts, ResultFields
      DEF CheckCandidate, RoundFails, LooksOnly, HistoryStays, NamesStay, DestStays, Given, Looking,
          Steps, Whys
    <3>2. result'[p].kind = "error" => original'[p] \in {None, cand'[p]} \/ p \in touched'
      BY <2>0, <2>2, Endings, ResultFacts, ResultFields
      DEF CheckCandidate, RoundFails, LooksOnly, HistoryStays, NamesStay, DestStays, Given, AtCandidate,
          Looking, Steps, Whys
    <3> QED BY <2>0, <3>1, <3>2, TrueOfOthers
  <2>3. CASE ProbeDestination(p)
    <3>1. result'[p].kind # "ok" /\ installed'[p] = None
      BY <2>0, <2>3, Endings, ResultFacts, ResultFields
      DEF ProbeDestination, RoundFails, LooksOnly, HistoryStays, NamesStay, DestStays, Given, Looking,
          Steps, Whys
    <3>2. result'[p].kind = "error" => original'[p] \in {None, cand'[p]} \/ p \in touched'
      BY <2>0, <2>3, Endings, ResultFacts, ResultFields
      DEF ProbeDestination, RoundFails, LooksOnly, HistoryStays, NamesStay, DestStays, Given,
          AtCandidate, Looking, Steps, Whys
    <3> QED BY <2>0, <3>1, <3>2, TrueOfOthers
  <2>4. CASE MoveCandidate(p)
    <3>1. pc[p] = "move" /\ original' = original /\ touched' = touched
      BY <2>4 DEF MoveCandidate
    <3>2. CASE Install(p) /\ Return(p, Success)
      <4>1. installed'[p] = cand[p]
        BY <3>2 DEF Install, Types, HistTypes
      <4>2. result'[p].kind = "ok" /\ AtCandidate(p)
        BY <2>0, <3>1, <3>2, Endings, ResultFacts, ResultFields DEF Given, Looking
      <4> QED BY <2>0, <3>1, <4>1, <4>2, TrueOfOthers DEF AtCandidate
    <3>3. CASE result'[p].kind # "ok" /\ UNCHANGED <<cand, installed>>
      <4>1. installed[p] = None /\ AtCandidate(p)
        BY <3>1 DEF Given, Looking
      <4> QED BY <2>0, <3>1, <3>3, <4>1, TrueOfOthers DEF AtCandidate
    <3> QED BY <2>0, <2>4, <3>2, <3>3, Endings, ResultFacts, ResultFields DEF MoveCandidate, Whys
  <2>5. CASE ReserveBackup(p)
    <3>1. result'[p].kind # "ok" /\ installed'[p] = None
      BY <2>0, <2>5, Endings, ResultFacts, ResultFields
      DEF ReserveBackup, RoundFails, LooksOnly, HistoryStays, NamesStay, DestStays, Given, Looking,
          Steps, Whys
    <3>2. result'[p].kind = "error" => original'[p] \in {None, cand'[p]} \/ p \in touched'
      BY <2>0, <2>5, Endings, ResultFacts, ResultFields
      DEF ReserveBackup, RoundFails, LooksOnly, HistoryStays, NamesStay, DestStays, Given, AtCandidate,
          Looking, Steps, Whys
    <3> QED BY <2>0, <3>1, <3>2, TrueOfOthers
  <2>6. CASE RecheckCandidate(p)
    <3>1. result'[p].kind # "ok" /\ installed'[p] = None
      BY <2>0, <2>6, Endings, ResultFacts, ResultFields
      DEF RecheckCandidate, RoundFails, LooksOnly, HistoryStays, NamesStay, DestStays, Given, Looking,
          Steps, Whys
    <3>2. result'[p].kind = "error" => original'[p] \in {None, cand'[p]} \/ p \in touched'
      BY <2>0, <2>6, Endings, ResultFacts, ResultFields
      DEF RecheckCandidate, RoundFails, LooksOnly, HistoryStays, NamesStay, DestStays, Given,
          AtCandidate, Looking, Steps, Whys
    <3> QED BY <2>0, <3>1, <3>2, TrueOfOthers
  <2>7. CASE RecheckDestination(p)
    <3>1. result'[p].kind # "ok" /\ installed'[p] = None
      BY <2>0, <2>7, Endings, ResultFacts, ResultFields
      DEF RecheckDestination, RoundFails, LooksOnly, HistoryStays, NamesStay, DestStays, Given, Looking,
          Steps, Whys
    <3>2. result'[p].kind = "error" => original'[p] \in {None, cand'[p]} \/ p \in touched'
      BY <2>0, <2>7, Endings, ResultFacts, ResultFields
      DEF RecheckDestination, RoundFails, LooksOnly, HistoryStays, NamesStay, DestStays, Given,
          AtCandidate, Looking, Steps, Whys
    <3> QED BY <2>0, <3>1, <3>2, TrueOfOthers
  <2>8. CASE HoldDestination(p)
    <3>1. result'[p].kind # "ok" /\ installed'[p] = None
      BY <2>0, <2>8, Endings, ResultFacts, ResultFields
      DEF HoldDestination, RoundFails, LooksOnly, HistoryStays, NamesStay, DestStays, Given, Looking,
          Steps, Whys
    <3>2. result'[p].kind = "error" => original'[p] \in {None, cand'[p]} \/ p \in touched'
      BY <2>0, <2>8, Endings, ResultFacts, ResultFields
      DEF HoldDestination, RoundFails, LooksOnly, HistoryStays, NamesStay, DestStays, Given,
        AtCandidate, Looking, Steps, Whys
    <3> QED BY <2>0, <3>1, <3>2, TrueOfOthers
  <2>9. CASE ReplaceFile(p)
    <3>1. /\ result'[p].kind = "ok" => installed'[p] = original'[p] \/ p \in touched'
          /\ result'[p].kind = "error" =>
               installed'[p] = None /\ (original'[p] \in {None, cand'[p]} \/ p \in touched')
      BY <2>0, <2>9, Endings, ResultFacts, ResultFields
      DEF ReplaceFile, Install, LooksOnly, HistoryStays, NamesStay, DestStays, Given, AtCandidate,
          Looking, Steps, Whys, Types, NameTypes, SeenTypes, HistTypes
    <3> QED BY <2>0, <3>1, TrueOfOthers
  <2>10. CASE ReplaceFileFails(p)
    <3>1. result'[p].kind # "ok" /\ installed'[p] = None
      BY <2>0, <2>10, Endings, ResultFacts, ResultFields
      DEF ReplaceFileFails, RoundFails, LooksOnly, HistoryStays, NamesStay, DestStays, Given, Looking,
          Steps, Whys
    <3>2. result'[p].kind = "error" => original'[p] \in {None, cand'[p]} \/ p \in touched'
      BY <2>0, <2>10, Endings, ResultFacts, ResultFields
      DEF ReplaceFileFails, RoundFails, LooksOnly, HistoryStays, NamesStay, DestStays, Given,
          AtCandidate, Looking, Steps, Whys
    <3> QED BY <2>0, <3>1, <3>2, TrueOfOthers
  <2>11. CASE CleanUp(p)
    <3>1. /\ result'[p].kind = "ok" => installed'[p] = original'[p] \/ p \in touched'
          /\ result'[p].kind = "error" =>
               installed'[p] = None /\ (original'[p] \in {None, cand'[p]} \/ p \in touched')
      BY <2>0, <2>11, Endings, ResultFacts, ResultFields
      DEF CleanUp, Install, LooksOnly, HistoryStays, NamesStay, DestStays, Given, AtCandidate, Looking,
          Steps, Whys, Types, NameTypes, SeenTypes, HistTypes
    <3> QED BY <2>0, <3>1, TrueOfOthers
  <2>12. CASE Recover(p)
    <3>1. result'[p].kind # "ok" /\ installed'[p] = None
      BY <2>0, <2>12, Endings, ResultFacts, ResultFields
      DEF Recover, RoundFails, LooksOnly, HistoryStays, NamesStay, DestStays, Given, Looking,
        Steps, Whys
    <3>2. result'[p].kind = "error" => original'[p] \in {None, cand'[p]} \/ p \in touched'
      BY <2>0, <2>12, Endings, ResultFacts, ResultFields
      DEF Recover, RoundFails, LooksOnly, HistoryStays, NamesStay, DestStays, Given, AtCandidate,
          Looking, Steps, Whys
    <3> QED BY <2>0, <3>1, <3>2, TrueOfOthers
  <2>13. CASE Restore(p)
    <3>1. result'[p].kind # "ok" /\ installed'[p] = None
      BY <2>0, <2>13, Endings, ResultFacts, ResultFields
      DEF Restore, RoundFails, LooksOnly, HistoryStays, NamesStay, DestStays, Given, Looking,
        Steps, Whys
    <3>2. result'[p].kind = "error" => original'[p] \in {None, cand'[p]} \/ p \in touched'
      BY <2>0, <2>13, Endings, ResultFacts, ResultFields
      DEF Restore, RoundFails, LooksOnly, HistoryStays, NamesStay, DestStays, Given, AtCandidate,
          Looking, Steps, Whys
    <3> QED BY <2>0, <3>1, <3>2, TrueOfOthers
  <2>14. CASE Verify(p)
    <3>1. result'[p].kind # "ok" /\ installed'[p] = None
      BY <2>0, <2>14, Endings, ResultFacts, ResultFields
      DEF Verify, RoundFails, LooksOnly, HistoryStays, NamesStay, DestStays, Given, Looking, Steps, Whys
    <3>2. result'[p].kind = "error" => original'[p] \in {None, cand'[p]} \/ p \in touched'
      BY <2>0, <2>14, Endings, ResultFacts, ResultFields
      DEF Verify, RoundFails, LooksOnly, HistoryStays, NamesStay, DestStays, Given, AtCandidate,
        Looking, Steps, Whys
    <3> QED BY <2>0, <3>1, <3>2, TrueOfOthers
  <2> QED BY <1>1, <2>1, <2>2, <2>3, <2>4, <2>5, <2>6, <2>7, <2>8, <2>9, <2>10, <2>11, <2>12, <2>13,
    <2>14 DEF PublishCmd
<1>2. CASE Others
  <2>1. result' = result /\ installed' = installed /\ original' = original
    BY <1>2 DEF Others, OthersPut, OthersTake, OthersBringBack, OthersTouchCandidate, Meddle, localVars
  <2>2. \A q \in Publishers : q \in touched' \/ (cand'[q] = cand[q] /\ q \notin touched)
    BY <1>2 DEF Others, OthersPut, OthersTake, OthersBringBack, OthersTouchCandidate, Types, NameTypes
  <2> QED BY <2>1, <2>2 DEF ResultIsTrue
<1> QED BY <1>1, <1>2 DEF Next

------------------------------------------------------------------------------
(* Names to come are free.                                                 *)

\* A step of p concerns its own names; those of the others it can only free.
LEMMA FreshOfOthers ==
  ASSUME Types, Fresh, NEW p \in Publishers, Frame(p),
         \A q \in Publishers \ {p} : \A k \in 1 .. Attempts : backup'[q][k] \in {backup[q][k], None},
         \A k \in 1 .. Attempts :
           k > attempt'[p] \/ (k = attempt'[p] /\ pc'[p] \in Early) => backup'[p][k] = None
  PROVE  Fresh'
BY DEF Fresh, Frame

\* One case per call.
LEMMA FreshStep == ASSUME Types, Fresh, Undecided, Next PROVE Fresh'
<1>1. ASSUME NEW p \in Publishers, PublishCmd(p) PROVE Fresh'
  <2>0. /\ pc[p] # "done" /\ LocalTypes /\ result[p] = Open /\ attempt[p] \in 1 .. Attempts
        /\ Frame(p) /\ (CleanUp(p) \/ Round(p))
    BY <1>1, Alone
  <2>1. CASE Begin(p)
    <3>1. /\ backup' = backup /\ pc[p] \in Early /\ Round(p)
          /\ attempt' = attempt \/ attempt'[p] = attempt[p] + 1
      BY <2>0, <2>1, Endings, ResultFacts DEF CleanUp, Begin, Steps, Whys, Early
    <3> QED BY <2>0, <3>1, FreshOfOthers DEF Round, Fresh, LocalTypes
  <2>2. CASE CheckCandidate(p)
    <3>1. /\ backup' = backup /\ pc[p] \in Early /\ Round(p)
          /\ attempt' = attempt \/ attempt'[p] = attempt[p] + 1
      BY <2>0, <2>2, Endings, ResultFacts DEF CleanUp, CheckCandidate, Steps, Whys, Early
    <3> QED BY <2>0, <3>1, FreshOfOthers DEF Round, Fresh, LocalTypes
  <2>3. CASE ProbeDestination(p)
    <3>1. /\ backup' = backup /\ pc[p] \in Early /\ Round(p)
          /\ attempt' = attempt \/ attempt'[p] = attempt[p] + 1
      BY <2>0, <2>3, Endings, ResultFacts DEF CleanUp, ProbeDestination, Steps, Whys, Early
    <3> QED BY <2>0, <3>1, FreshOfOthers DEF Round, Fresh, LocalTypes
  <2>4. CASE MoveCandidate(p)
    <3>1. /\ backup' = backup /\ pc[p] \in Early /\ Round(p)
          /\ attempt' = attempt \/ attempt'[p] = attempt[p] + 1
      BY <2>0, <2>4, Endings, ResultFacts DEF CleanUp, MoveCandidate, Steps, Whys, Early
    <3> QED BY <2>0, <3>1, FreshOfOthers DEF Round, Fresh, LocalTypes
  <2>5. CASE ReserveBackup(p)
    <3>1. /\ Round(p)
          /\ attempt'[p] = attempt[p] + 1 \/ (attempt' = attempt /\ pc'[p] \notin Early)
      BY <2>0, <2>5, Endings, ResultFacts DEF CleanUp, ReserveBackup, RoundFails, Steps, Whys, Early
    <3> QED BY <2>0, <3>1, FreshOfOthers DEF Round, Fresh, LocalTypes
  <2>6. CASE RecheckCandidate(p)
    <3>1. /\ Round(p)
          /\ attempt'[p] = attempt[p] + 1 \/ (attempt' = attempt /\ pc'[p] \notin Early)
      BY <2>0, <2>6, Endings, ResultFacts DEF CleanUp, RecheckCandidate, RoundFails, Steps, Whys, Early
    <3> QED BY <2>0, <3>1, FreshOfOthers DEF Round, Fresh, LocalTypes
  <2>7. CASE RecheckDestination(p)
    <3>1. /\ Round(p)
          /\ attempt'[p] = attempt[p] + 1 \/ (attempt' = attempt /\ pc'[p] \notin Early)
      BY <2>0, <2>7, Endings, ResultFacts DEF CleanUp, RecheckDestination, RoundFails, Steps, Whys,
        Early
    <3> QED BY <2>0, <3>1, FreshOfOthers DEF Round, Fresh, LocalTypes
  <2>8. CASE HoldDestination(p)
    <3>1. /\ Round(p)
          /\ attempt'[p] = attempt[p] + 1 \/ (attempt' = attempt /\ pc'[p] \notin Early)
      BY <2>0, <2>8, Endings, ResultFacts DEF CleanUp, HoldDestination, RoundFails, Steps, Whys, Early
    <3> QED BY <2>0, <3>1, FreshOfOthers DEF Round, Fresh, LocalTypes
  <2>9. CASE ReplaceFile(p)
    <3>1. /\ Round(p)
          /\ attempt'[p] = attempt[p] + 1 \/ (attempt' = attempt /\ pc'[p] \notin Early)
      BY <2>0, <2>9, Endings, ResultFacts DEF CleanUp, ReplaceFile, RoundFails, Steps, Whys, Early
    <3> QED BY <2>0, <3>1, FreshOfOthers DEF Round, Fresh, LocalTypes
  <2>10. CASE ReplaceFileFails(p)
    <3>1. /\ Round(p)
          /\ attempt'[p] = attempt[p] + 1 \/ (attempt' = attempt /\ pc'[p] \notin Early)
      BY <2>0, <2>10, Endings, ResultFacts DEF CleanUp, ReplaceFileFails, RoundFails, Steps, Whys, Early
    <3> QED BY <2>0, <3>1, FreshOfOthers DEF Round, Fresh, LocalTypes
  <2>11. CASE Recover(p)
    <3>1. /\ Round(p)
          /\ attempt'[p] = attempt[p] + 1 \/ (attempt' = attempt /\ pc'[p] \notin Early)
      BY <2>0, <2>11, Endings, ResultFacts DEF CleanUp, Recover, RoundFails, Steps, Whys, Early
    <3> QED BY <2>0, <3>1, FreshOfOthers DEF Round, Fresh, LocalTypes
  <2>12. CASE Restore(p)
    <3>1. /\ Round(p)
          /\ attempt'[p] = attempt[p] + 1 \/ (attempt' = attempt /\ pc'[p] \notin Early)
      BY <2>0, <2>12, Endings, ResultFacts DEF CleanUp, Restore, RoundFails, Steps, Whys, Early
    <3> QED BY <2>0, <3>1, FreshOfOthers DEF Round, Fresh, LocalTypes
  <2>13. CASE Verify(p)
    <3>1. /\ Round(p)
          /\ attempt'[p] = attempt[p] + 1 \/ (attempt' = attempt /\ pc'[p] \notin Early)
      BY <2>0, <2>13, Endings, ResultFacts DEF CleanUp, Verify, RoundFails, Steps, Whys, Early
    <3> QED BY <2>0, <3>1, FreshOfOthers DEF Round, Fresh, LocalTypes
  <2>14. CASE CleanUp(p)
    <3>1. attempt' = attempt /\ pc'[p] = "done"
      BY <2>0, <2>14, Endings, ResultFacts DEF CleanUp
    <3>2. \A q \in Publishers : \A k \in 1 .. Attempts : backup'[q][k] \in {backup[q][k], None}
      <4>1. CASE Unlink(held[p])
        BY <4>1 DEF Unlink
      <4>2. CASE UNCHANGED backup
        BY <4>2
      <4> QED BY <2>14, <4>1, <4>2 DEF CleanUp
    <3> QED BY <2>0, <2>14, <3>1, <3>2, FreshOfOthers DEF CleanUp, Fresh, LocalTypes, Early
  <2> QED BY <1>1, <2>1, <2>2, <2>3, <2>4, <2>5, <2>6, <2>7, <2>8, <2>9, <2>10, <2>11, <2>12, <2>13,
    <2>14 DEF PublishCmd
<1>2. CASE Others
  BY <1>2 DEF Others, OthersPut, OthersTake, OthersBringBack, OthersTouchCandidate, Meddle,
    localVars, Fresh
<1> QED BY <1>1, <1>2 DEF Next

------------------------------------------------------------------------------
(* Newcomers survive.                                                      *)

\* A step of p that neither publishes nor deletes.
LEMMA NewcomersOfOthers ==
  ASSUME Types, Newcomers, NEW p \in Publishers, Frame(p), Round(p), deleted' = deleted,
         pc'[p] \notin {"cleanup", "done"} => displaced'[p] = None, ~Replaced(p)'
  PROVE  Newcomers'
BY DEF Newcomers, Frame, Round, Replaced

\* One case per call.
LEMMA NewcomersStep == ASSUME Types, Fresh, Newcomers, Undecided, Next PROVE Newcomers'
<1>1. ASSUME NEW p \in Publishers, PublishCmd(p) PROVE Newcomers'
  <2>0. /\ pc[p] # "done" /\ LocalTypes /\ result[p] = Open /\ attempt[p] \in 1 .. Attempts
        /\ Frame(p) /\ (CleanUp(p) \/ Round(p))
    BY <1>1, Alone
  <2>1. CASE Begin(p)
    <3>1. pc[p] \notin {"cleanup", "done"} /\ deleted' = deleted /\ displaced' = displaced /\ Round(p)
      BY <2>0, <2>1 DEF CleanUp, Begin, LooksOnly, HistoryStays, NamesStay, DestStays
    <3>2. pc'[p] # "cleanup" /\ result'[p].kind # "ok"
      BY <2>0, <2>1, Endings, ResultFacts, ResultFields DEF Begin, RoundFails, Steps, Whys
    <3> QED BY <2>0, <3>1, <3>2, NewcomersOfOthers DEF Newcomers, Replaced
  <2>2. CASE CheckCandidate(p)
    <3>1. pc[p] \notin {"cleanup", "done"} /\ deleted' = deleted /\ displaced' = displaced /\ Round(p)
      BY <2>0, <2>2 DEF CleanUp, CheckCandidate, LooksOnly, HistoryStays, NamesStay, DestStays
    <3>2. pc'[p] # "cleanup" /\ result'[p].kind # "ok"
      BY <2>0, <2>2, Endings, ResultFacts, ResultFields DEF CheckCandidate, RoundFails, Steps, Whys
    <3> QED BY <2>0, <3>1, <3>2, NewcomersOfOthers DEF Newcomers, Replaced
  <2>3. CASE ProbeDestination(p)
    <3>1. pc[p] \notin {"cleanup", "done"} /\ deleted' = deleted /\ displaced' = displaced /\ Round(p)
      BY <2>0, <2>3 DEF CleanUp, ProbeDestination, LooksOnly, HistoryStays, NamesStay, DestStays
    <3>2. pc'[p] # "cleanup" /\ result'[p].kind # "ok"
      BY <2>0, <2>3, Endings, ResultFacts, ResultFields DEF ProbeDestination, RoundFails, Steps, Whys
    <3> QED BY <2>0, <3>1, <3>2, NewcomersOfOthers DEF Newcomers, Replaced
  <2>4. CASE ReserveBackup(p)
    <3>1. pc[p] \notin {"cleanup", "done"} /\ deleted' = deleted /\ displaced' = displaced /\ Round(p)
      BY <2>0, <2>4 DEF CleanUp, ReserveBackup, LooksOnly, HistoryStays, NamesStay, DestStays
    <3>2. pc'[p] # "cleanup" /\ result'[p].kind # "ok"
      BY <2>0, <2>4, Endings, ResultFacts, ResultFields DEF ReserveBackup, RoundFails, Steps, Whys
    <3> QED BY <2>0, <3>1, <3>2, NewcomersOfOthers DEF Newcomers, Replaced
  <2>5. CASE RecheckCandidate(p)
    <3>1. pc[p] \notin {"cleanup", "done"} /\ deleted' = deleted /\ displaced' = displaced /\ Round(p)
      BY <2>0, <2>5 DEF CleanUp, RecheckCandidate, LooksOnly, HistoryStays, NamesStay, DestStays
    <3>2. pc'[p] # "cleanup" /\ result'[p].kind # "ok"
      BY <2>0, <2>5, Endings, ResultFacts, ResultFields DEF RecheckCandidate, RoundFails, Steps, Whys
    <3> QED BY <2>0, <3>1, <3>2, NewcomersOfOthers DEF Newcomers, Replaced
  <2>6. CASE RecheckDestination(p)
    <3>1. pc[p] \notin {"cleanup", "done"} /\ deleted' = deleted /\ displaced' = displaced /\ Round(p)
      BY <2>0, <2>6 DEF CleanUp, RecheckDestination, LooksOnly, HistoryStays, NamesStay, DestStays
    <3>2. pc'[p] # "cleanup" /\ result'[p].kind # "ok"
      BY <2>0, <2>6, Endings, ResultFacts, ResultFields DEF RecheckDestination, RoundFails, Steps, Whys
    <3> QED BY <2>0, <3>1, <3>2, NewcomersOfOthers DEF Newcomers, Replaced
  <2>7. CASE HoldDestination(p)
    <3>1. pc[p] \notin {"cleanup", "done"} /\ deleted' = deleted /\ displaced' = displaced /\ Round(p)
      BY <2>0, <2>7 DEF CleanUp, HoldDestination, LooksOnly, HistoryStays, NamesStay, DestStays
    <3>2. pc'[p] # "cleanup" /\ result'[p].kind # "ok"
      BY <2>0, <2>7, Endings, ResultFacts, ResultFields DEF HoldDestination, RoundFails, Steps, Whys
    <3> QED BY <2>0, <3>1, <3>2, NewcomersOfOthers DEF Newcomers, Replaced
  <2>8. CASE ReplaceFileFails(p)
    <3>1. pc[p] \notin {"cleanup", "done"} /\ deleted' = deleted /\ displaced' = displaced /\ Round(p)
      BY <2>0, <2>8 DEF CleanUp, ReplaceFileFails, LooksOnly, HistoryStays, NamesStay, DestStays
    <3>2. pc'[p] # "cleanup" /\ result'[p].kind # "ok"
      BY <2>0, <2>8, Endings, ResultFacts, ResultFields DEF ReplaceFileFails, RoundFails, Steps, Whys
    <3> QED BY <2>0, <3>1, <3>2, NewcomersOfOthers DEF Newcomers, Replaced
  <2>9. CASE Recover(p)
    <3>1. pc[p] \notin {"cleanup", "done"} /\ deleted' = deleted /\ displaced' = displaced /\ Round(p)
      BY <2>0, <2>9 DEF CleanUp, Recover, LooksOnly, HistoryStays, NamesStay, DestStays
    <3>2. pc'[p] # "cleanup" /\ result'[p].kind # "ok"
      BY <2>0, <2>9, Endings, ResultFacts, ResultFields DEF Recover, RoundFails, Steps, Whys
    <3> QED BY <2>0, <3>1, <3>2, NewcomersOfOthers DEF Newcomers, Replaced
  <2>10. CASE Restore(p)
    <3>1. pc[p] \notin {"cleanup", "done"} /\ deleted' = deleted /\ displaced' = displaced /\ Round(p)
      BY <2>0, <2>10 DEF CleanUp, Restore, LooksOnly, HistoryStays, NamesStay, DestStays
    <3>2. pc'[p] # "cleanup" /\ result'[p].kind # "ok"
      BY <2>0, <2>10, Endings, ResultFacts, ResultFields DEF Restore, RoundFails, Steps, Whys
    <3> QED BY <2>0, <3>1, <3>2, NewcomersOfOthers DEF Newcomers, Replaced
  <2>11. CASE Verify(p)
    <3>1. pc[p] \notin {"cleanup", "done"} /\ deleted' = deleted /\ displaced' = displaced /\ Round(p)
      BY <2>0, <2>11 DEF CleanUp, Verify, LooksOnly, HistoryStays, NamesStay, DestStays
    <3>2. pc'[p] # "cleanup" /\ result'[p].kind # "ok"
      BY <2>0, <2>11, Endings, ResultFacts, ResultFields DEF Verify, RoundFails, Steps, Whys
    <3> QED BY <2>0, <3>1, <3>2, NewcomersOfOthers DEF Newcomers, Replaced
  <2>12. CASE MoveCandidate(p)
    <3>1. pc[p] = "move" /\ UNCHANGED <<backup, held, displaced, deleted>> /\ Round(p)
      BY <2>0, <2>12 DEF CleanUp, MoveCandidate
    <3>2. displaced[p] = None /\ Backup(p) = None
      BY <2>0, <3>1 DEF Newcomers, Fresh, Backup, Early
    <3>3. CASE Return(p, Success)
      <4>1. attempt' = attempt /\ pc'[p] = "done"
        BY <2>0, <3>3, Endings, ResultFacts
      <4> QED BY <2>0, <3>1, <3>2, <4>1 DEF Newcomers, Frame, Round, Replaced, Backup
    <3>4. CASE pc'[p] # "cleanup" /\ result'[p].kind # "ok"
      BY <2>0, <3>1, <3>2, <3>4, NewcomersOfOthers DEF Replaced
    <3> QED BY <2>0, <2>12, <3>3, <3>4, Endings, ResultFacts, ResultFields DEF MoveCandidate, Whys
  <2>13. CASE ReplaceFile(p)
    <3>1. pc[p] = "replace" /\ UNCHANGED <<held, deleted>> /\ Round(p)
      BY <2>0, <2>13 DEF CleanUp, ReplaceFile
    <3>2. attempt' = attempt /\ pc'[p] = "cleanup"
      BY <2>0, <2>13, Endings DEF ReplaceFile, Steps
    <3>3. displaced'[p] = dest /\ dest # None
      BY <2>13 DEF ReplaceFile, Regular, Types, HistTypes
    <3>4. Backup(p)' = dest
      BY <2>13, <3>2, BackupOfRound DEF ReplaceFile, Backup
    <3> QED BY <2>0, <3>1, <3>2, <3>3, <3>4 DEF Newcomers, Frame, Round, Replaced
  <2>14. CASE CleanUp(p)
    <3>1. pc[p] = "cleanup" /\ UNCHANGED <<held, displaced>>
      BY <2>14 DEF CleanUp
    <3>2. attempt' = attempt /\ pc'[p] = "done"
      BY <2>0, <2>14, <3>1, Endings, ResultFacts DEF CleanUp
    <3>3. CASE UNCHANGED <<backup, deleted>>
      BY <2>0, <3>1, <3>2, <3>3 DEF Newcomers, Frame, Replaced, Backup
    <3>4. CASE /\ Unlink(held[p])
               /\ deleted' = [deleted EXCEPT ![p] = IF Named(held[p]) THEN held[p] ELSE None]
      <4>1. deleted[p] = None /\ \A q \in Publishers \ {p} : deleted'[q] = deleted[q]
        BY <3>1, <3>4 DEF Undecided, Types, HistTypes
      <4>2. deleted'[p] = IF Named(held[p]) THEN held[p] ELSE None
        BY <3>4 DEF Types, HistTypes
      <4>3. \A q \in Publishers : Backup(q)' = IF Backup(q) = held[p] THEN None ELSE Backup(q)
        BY <3>2, <3>4 DEF Unlink, Backup, Types, LocalTypes
      <4>4. \A q \in Publishers : Backup(q) = held[p] => Named(held[p])
        BY DEF Named, Backup, Types, LocalTypes
      <4>5. \A q \in Publishers : Replaced(q)' => Replaced(q)
        BY <2>0, <3>1, <3>2 DEF Frame, Replaced
      <4>6. ASSUME NEW q \in Publishers, Replaced(q), displaced[q] # held[q]
            PROVE  Backup(q)' = displaced[q] \/ \E r \in Publishers \ {q} : deleted'[r] = displaced[q]
        <5>1. CASE displaced[q] = None
          BY <4>3, <4>6, <5>1 DEF Newcomers
        <5>2. CASE displaced[q] # None /\ Backup(q) = displaced[q]
          BY <4>2, <4>3, <4>4, <4>6, <5>2
        <5>3. CASE displaced[q] # None /\ \E r \in Publishers \ {q} : deleted[r] = displaced[q]
          BY <4>1, <5>3
        <5> QED BY <4>6, <5>1, <5>2, <5>3 DEF Newcomers
      <4> QED BY <2>0, <3>1, <3>2, <4>3, <4>5, <4>6 DEF Newcomers, Frame
    <3> QED BY <2>14, <3>3, <3>4 DEF CleanUp
  <2> QED BY <1>1, <2>1, <2>2, <2>3, <2>4, <2>5, <2>6, <2>7, <2>8, <2>9, <2>10, <2>11, <2>12, <2>13,
    <2>14 DEF PublishCmd
<1>2. CASE Others
  BY <1>2
  DEF Others, OthersPut, OthersTake, OthersBringBack, OthersTouchCandidate, Meddle, localVars,
    Newcomers, Replaced, Backup
<1> QED BY <1>1, <1>2 DEF Next

------------------------------------------------------------------------------
(* A change gives one round up.                                            *)

\* A step of p counts every change of the destination it makes.
LEMMA CausedOfOthers ==
  ASSUME Types, Types', Caused, NEW p \in Publishers, Frame(p), CausedAt(p)',
         changes' >= changes, dest' = dest \/ changes' >= changes + 1
  PROVE  Caused'
<1> SUFFICES ASSUME NEW q \in Publishers, q # p PROVE CausedAt(q)'
  BY DEF Caused
<1>1. CausedAt(q) /\ since[q] \in Nat /\ changes \in Nat /\ changes' \in Nat /\ attempt[q] \in Nat /\ Attempts \in Nat
  BY AttemptsAssumption DEF Caused, Types, LocalTypes, HistTypes
<1>2. Past(q)' >= Past(q) /\ (dest' = dest \/ Past(q)' >= Past(q) + 1) /\ Past(q) \in Int /\ Past(q)' \in Int
  BY <1>1 DEF Past, Frame
<1> QED BY <1>1, <1>2 DEF CausedAt, Frame

\* A round is given up, or the publication ends.
LEMMA CausedAtEnd ==
  ASSUME LocalTypes, NEW p \in Publishers
  PROVE  /\ \A r \in Results : Return(p, r) /\ r.why # "changed" => CausedAt(p)'
         /\ (/\ Retry(p) /\ result[p] = Open /\ Past(p)' \in Int /\ Past(p)' >= attempt[p]
             /\ original'[p] # None) => CausedAt(p)'
<1>1. ASSUME NEW r \in Results, Return(p, r), r.why # "changed" PROVE CausedAt(p)'
  <2>1. pc'[p] = "done" /\ result'[p] = r
    BY <1>1 DEF Return, LocalTypes
  <2> QED BY <1>1, <2>1 DEF CausedAt
<1>2. ASSUME Retry(p), result[p] = Open, Past(p)' \in Int, Past(p)' >= attempt[p], original'[p] # None
      PROVE  CausedAt(p)'
  <2>1. CASE attempt[p] < Attempts
    <3>1. pc'[p] = "check" /\ attempt'[p] = attempt[p] + 1 /\ result'[p] = Open
      BY <1>2, <2>1 DEF Retry, LocalTypes
    <3> QED BY <1>2, <3>1, ResultFields DEF CausedAt, LocalTypes
  <2>2. CASE ~(attempt[p] < Attempts)
    <3>1. attempt[p] = Attempts
      BY <2>2, AttemptsAssumption DEF LocalTypes
    <3>2. pc'[p] = "done"
      BY <1>2, <2>2 DEF Retry, Return, LocalTypes
    <3> QED BY <1>2, <3>1, <3>2 DEF CausedAt
  <2> QED BY <2>1, <2>2
<1> QED BY <1>1, <1>2

\* One case per call.
LEMMA CausedStep == ASSUME Types, Types', Undecided, Caused, Next PROVE Caused'
<1>1. ASSUME NEW p \in Publishers, PublishCmd(p) PROVE Caused'
  <2>0. /\ pc[p] # "done" /\ LocalTypes /\ result[p] = Open /\ attempt[p] \in 1 .. Attempts
        /\ Frame(p) /\ (CleanUp(p) \/ Round(p))
        /\ CausedAt(p) /\ since[p] \in Nat /\ changes \in Nat /\ changes' \in Nat /\ Attempts \in Nat
    BY <1>1, Alone, AttemptsAssumption DEF Caused, Types, HistTypes
  <2>1. CASE Begin(p)
    <3>1. changes' = changes /\ dest' = dest /\ since'[p] = changes
      BY <2>1 DEF Begin, LooksOnly, HistoryStays, NamesStay, DestStays, Types, HistTypes
    <3>2. CausedAt(p)'
      BY <2>1, <2>0, <3>1, Endings, ResultFacts, ResultFields
      DEF Begin, NamesStay, DestStays, Regular, CausedAt, Past, Whys, Steps, Types, NameTypes, SeenTypes
    <3> QED BY <2>0, <3>1, <3>2, CausedOfOthers
  <2>2. CASE CheckCandidate(p)
    <3>1. since' = since /\ changes' >= changes /\ (dest' = dest \/ changes' >= changes + 1)
      BY <2>0, <2>2
      DEF CheckCandidate, Install, Unlink, PutBack, LooksOnly, HistoryStays, NamesStay, DestStays,
          DestChanges
    <3>2. CausedAt(p)'
      BY <2>2, <2>0, <3>1, Endings, ResultFacts, ResultFields
      DEF CheckCandidate, LooksOnly, HistoryStays, NamesStay, DestStays, Regular, CausedAt, Past, Whys,
          Steps, Types, NameTypes, SeenTypes
    <3> QED BY <2>0, <3>1, <3>2, CausedOfOthers
  <2>3. CASE ProbeDestination(p)
    <3>1. since' = since /\ changes' >= changes /\ (dest' = dest \/ changes' >= changes + 1)
      BY <2>0, <2>3
      DEF ProbeDestination, Install, Unlink, PutBack, LooksOnly, HistoryStays, NamesStay, DestStays,
          DestChanges
    <3>2. CausedAt(p)'
      BY <2>3, <2>0, <3>1, Endings, ResultFacts, ResultFields
      DEF ProbeDestination, LooksOnly, HistoryStays, NamesStay, DestStays, Regular, CausedAt, Past,
        Whys, Steps, Types, NameTypes, SeenTypes
    <3> QED BY <2>0, <3>1, <3>2, CausedOfOthers
  <2>4. CASE MoveCandidate(p)
    <3>1. since' = since /\ changes' >= changes /\ (dest' = dest \/ changes' >= changes + 1)
      BY <2>0, <2>4
      DEF MoveCandidate, Install, Unlink, PutBack, LooksOnly, HistoryStays, NamesStay, DestStays,
          DestChanges
    <3>2. CausedAt(p)'
      <4>1. CASE Retry(p)
        <5>1. Past(p)' \in Int /\ original'[p] # None
          BY <2>4, <2>0, <3>1
          DEF MoveCandidate, LooksOnly, HistoryStays, NamesStay, DestStays, CausedAt, Past
        <5>2. Past(p)' >= attempt[p]
          BY <2>4, <2>0, <3>1, <4>1, Endings, ResultFacts, ResultFields
          DEF MoveCandidate, Install, DestChanges, DestStays, Regular, CausedAt, Past, Whys, Steps,
              Types, NameTypes, SeenTypes
        <5> QED BY <2>0, <4>1, <5>1, <5>2, CausedAtEnd
      <4>2. ASSUME NEW r \in Results, r.why # "changed", Return(p, r) PROVE CausedAt(p)'
        BY <2>0, <4>2, CausedAtEnd
      <4> QED BY <2>4, <4>1, <4>2, ResultFacts, ResultFields DEF MoveCandidate, RoundFails, NotRetained,
        Whys
    <3> QED BY <2>0, <3>1, <3>2, CausedOfOthers
  <2>5. CASE ReserveBackup(p)
    <3>1. since' = since /\ changes' >= changes /\ (dest' = dest \/ changes' >= changes + 1)
      BY <2>0, <2>5
      DEF ReserveBackup, Install, Unlink, PutBack, LooksOnly, HistoryStays, NamesStay, DestStays,
          DestChanges
    <3>2. CausedAt(p)'
      BY <2>5, <2>0, <3>1, Endings, ResultFacts, ResultFields
      DEF ReserveBackup, SetBackup, LooksOnly, HistoryStays, NamesStay, DestStays, Regular, CausedAt,
          Past, Whys, Steps, Types, NameTypes, SeenTypes
    <3> QED BY <2>0, <3>1, <3>2, CausedOfOthers
  <2>6. CASE RecheckCandidate(p)
    <3>1. since' = since /\ changes' >= changes /\ (dest' = dest \/ changes' >= changes + 1)
      BY <2>0, <2>6
      DEF RecheckCandidate, Install, Unlink, PutBack, LooksOnly, HistoryStays, NamesStay, DestStays,
          DestChanges
    <3>2. CausedAt(p)'
      BY <2>6, <2>0, <3>1, Endings, ResultFacts, ResultFields
      DEF RecheckCandidate, RoundFails, LooksOnly, HistoryStays, NamesStay, DestStays, Regular,
        CausedAt, Past, Whys, Steps, Types, NameTypes, SeenTypes
    <3> QED BY <2>0, <3>1, <3>2, CausedOfOthers
  <2>7. CASE RecheckDestination(p)
    <3>1. since' = since /\ changes' >= changes /\ (dest' = dest \/ changes' >= changes + 1)
      BY <2>0, <2>7
      DEF RecheckDestination, Install, Unlink, PutBack, LooksOnly, HistoryStays, NamesStay, DestStays,
          DestChanges
    <3>2. CausedAt(p)'
      <4>1. CASE Retry(p)
        <5>1. Past(p)' \in Int /\ original'[p] # None
          BY <2>7, <2>0, <3>1
          DEF RecheckDestination, LooksOnly, HistoryStays, NamesStay, DestStays, CausedAt, Past
        <5>2. Past(p)' >= attempt[p]
          BY <2>7, <2>0, <3>1, <4>1, Endings, ResultFacts, ResultFields
          DEF RecheckDestination, RoundFails, LooksOnly, HistoryStays, NamesStay, DestStays, Regular,
              CausedAt, Past, Whys, Steps, Types, NameTypes, SeenTypes
        <5> QED BY <2>0, <4>1, <5>1, <5>2, CausedAtEnd
      <4>2. ASSUME NEW r \in Results, r.why # "changed", Return(p, r) PROVE CausedAt(p)'
        BY <2>0, <4>2, CausedAtEnd
      <4>3. CASE Goto(p, "hold")
        BY <2>7, <2>0, <3>1, <4>3, Endings, ResultFields
        DEF RecheckDestination, RoundFails, LooksOnly, HistoryStays, NamesStay, DestStays, Regular,
            CausedAt, Past, Whys, Steps, Types, NameTypes, SeenTypes
      <4> QED BY <2>7, <4>1, <4>2, <4>3, ResultFacts, ResultFields DEF RecheckDestination, RoundFails,
        NotRetained, Whys
    <3> QED BY <2>0, <3>1, <3>2, CausedOfOthers
  <2>8. CASE HoldDestination(p)
    <3>1. since' = since /\ changes' >= changes /\ (dest' = dest \/ changes' >= changes + 1)
      BY <2>0, <2>8
      DEF HoldDestination, Install, Unlink, PutBack, LooksOnly, HistoryStays, NamesStay, DestStays,
          DestChanges
    <3>2. CausedAt(p)'
      <4>1. CASE Retry(p)
        <5>1. Past(p)' \in Int /\ original'[p] # None
          BY <2>8, <2>0, <3>1
          DEF HoldDestination, LooksOnly, HistoryStays, NamesStay, DestStays, CausedAt, Past
        <5>2. Past(p)' >= attempt[p]
          BY <2>8, <2>0, <3>1, <4>1, Endings, ResultFacts, ResultFields
          DEF HoldDestination, RoundFails, LooksOnly, HistoryStays, NamesStay, DestStays, Regular,
              CausedAt, Past, Whys, Steps, Types, NameTypes, SeenTypes
        <5> QED BY <2>0, <4>1, <5>1, <5>2, CausedAtEnd
      <4>2. ASSUME NEW r \in Results, r.why # "changed", Return(p, r) PROVE CausedAt(p)'
        BY <2>0, <4>2, CausedAtEnd
      <4>3. CASE Goto(p, "replace")
        <5>1. held'[p] = dest /\ dest = old[p] /\ pc[p] = "hold"
          BY <2>8, <2>0, <4>3, ResultFacts, Endings
          DEF HoldDestination, Goto, Retry, Return, RoundFails, Types, LocalTypes, SeenTypes
        <5>2. pc'[p] = "replace" /\ attempt' = attempt /\ result'[p] = Open
          BY <2>0, <4>3, Endings DEF Steps
        <5>3. original' = original /\ old' = old /\ cand' = cand /\ dest' = dest /\ changes' = changes /\ since' = since
          BY <2>8 DEF HoldDestination, LooksOnly, HistoryStays, NamesStay, DestStays
        <5> QED BY <2>0, <5>1, <5>2, <5>3, ResultFields DEF CausedAt, Past
      <4> QED BY <2>8, <4>1, <4>2, <4>3, ResultFacts, ResultFields DEF HoldDestination, RoundFails,
        NotRetained, Whys
    <3> QED BY <2>0, <3>1, <3>2, CausedOfOthers
  <2>9. CASE ReplaceFile(p)
    <3>1. since' = since /\ changes' >= changes /\ (dest' = dest \/ changes' >= changes + 1)
      BY <2>0, <2>9
      DEF ReplaceFile, Install, Unlink, PutBack, LooksOnly, HistoryStays, NamesStay, DestStays,
        DestChanges
    <3>2. CausedAt(p)'
      BY <2>9, <2>0, <3>1, Endings, ResultFacts, ResultFields
      DEF ReplaceFile, Install, DestChanges, Regular, CausedAt, Past, Whys, Steps, Types, NameTypes,
          SeenTypes
    <3> QED BY <2>0, <3>1, <3>2, CausedOfOthers
  <2>10. CASE ReplaceFileFails(p)
    <3>1. since' = since /\ changes' >= changes /\ (dest' = dest \/ changes' >= changes + 1)
      BY <2>0, <2>10
      DEF ReplaceFileFails, Install, Unlink, PutBack, LooksOnly, HistoryStays, NamesStay, DestStays,
          DestChanges
    <3>2. CausedAt(p)'
      <4>1. pc'[p] = "recover" /\ attempt' = attempt /\ result'[p] = Open /\ pc[p] = "replace"
        BY <2>10, <2>0, Endings DEF ReplaceFileFails, Steps
      <4>2. original' = original /\ Past(p)' >= Past(p) /\ Past(p) \in Int /\ Past(p)' \in Int
        BY <2>10, <2>0, <3>1 DEF ReplaceFileFails, Past
      <4>3. missing'[p] => dest = None \/ cand[p] = None
        BY <2>10 DEF ReplaceFileFails, Types, SeenTypes
      <4> QED BY <2>0, <4>1, <4>2, <4>3, ResultFields DEF CausedAt
    <3> QED BY <2>0, <3>1, <3>2, CausedOfOthers
  <2>11. CASE CleanUp(p)
    <3>1. since' = since /\ changes' >= changes /\ (dest' = dest \/ changes' >= changes + 1)
      BY <2>0, <2>11
      DEF CleanUp, Install, Unlink, PutBack, LooksOnly, HistoryStays, NamesStay, DestStays, DestChanges
    <3>2. CausedAt(p)'
      BY <2>11, <2>0, <3>1, Endings, ResultFacts, ResultFields
      DEF CleanUp, Unlink, Regular, CausedAt, Past, Whys, Steps, Types, NameTypes, SeenTypes
    <3> QED BY <2>0, <3>1, <3>2, CausedOfOthers
  <2>12. CASE Recover(p)
    <3>1. since' = since /\ changes' >= changes /\ (dest' = dest \/ changes' >= changes + 1)
      BY <2>0, <2>12
      DEF Recover, Install, Unlink, PutBack, LooksOnly, HistoryStays, NamesStay, DestStays, DestChanges
    <3>2. CausedAt(p)'
      BY <2>12, <2>0, <3>1, Endings, ResultFacts, ResultFields
      DEF Recover, LooksOnly, HistoryStays, NamesStay, DestStays, Regular, CausedAt, Past, Whys, Steps,
          Types, NameTypes, SeenTypes
    <3> QED BY <2>0, <3>1, <3>2, CausedOfOthers
  <2>13. CASE Restore(p)
    <3>1. since' = since /\ changes' >= changes /\ (dest' = dest \/ changes' >= changes + 1)
      BY <2>0, <2>13
      DEF Restore, Install, Unlink, PutBack, LooksOnly, HistoryStays, NamesStay, DestStays, DestChanges
    <3>2. CausedAt(p)'
      <4>1. CASE NotRetained(p) /\ missing[p]
        <5>1. Past(p)' \in Int /\ original'[p] # None
          BY <2>13, <2>0, <3>1 DEF Restore, LooksOnly, HistoryStays, NamesStay, DestStays,
            CausedAt, Past
        <5>2. Past(p)' >= attempt[p]
          BY <2>13, <2>0, <3>1, <4>1, Endings, ResultFacts, ResultFields
          DEF Restore, PutBack, DestChanges, DestStays, HistoryStays, Regular, CausedAt, Past, Whys,
              Steps, Types, NameTypes, SeenTypes, NotRetained
        <5> QED BY <2>0, <4>1, <5>1, <5>2, CausedAtEnd DEF NotRetained
      <4>2. ASSUME NEW r \in Results, r.why # "changed", Return(p, r) PROVE CausedAt(p)'
        BY <2>0, <4>2, CausedAtEnd
      <4> QED BY <2>13, <4>1, <4>2, ResultFacts, ResultFields DEF Restore, RoundFails, NotRetained, Whys
    <3> QED BY <2>0, <3>1, <3>2, CausedOfOthers
  <2>14. CASE Verify(p)
    <3>1. since' = since /\ changes' >= changes /\ (dest' = dest \/ changes' >= changes + 1)
      BY <2>0, <2>14
      DEF Verify, Install, Unlink, PutBack, LooksOnly, HistoryStays, NamesStay, DestStays, DestChanges
    <3>2. CausedAt(p)'
      <4>1. CASE NotRetained(p) /\ missing[p]
        <5>1. Past(p)' \in Int /\ original'[p] # None
          BY <2>14, <2>0, <3>1 DEF Verify, LooksOnly, HistoryStays, NamesStay, DestStays, CausedAt, Past
        <5>2. Past(p)' >= attempt[p]
          BY <2>14, <2>0, <3>1, <4>1, Endings, ResultFacts, ResultFields
          DEF Verify, LooksOnly, HistoryStays, NamesStay, DestStays, Regular, CausedAt, Past, Whys,
              Steps, Types, NameTypes, SeenTypes, NotRetained
        <5> QED BY <2>0, <4>1, <5>1, <5>2, CausedAtEnd DEF NotRetained
      <4>2. ASSUME NEW r \in Results, r.why # "changed", Return(p, r) PROVE CausedAt(p)'
        BY <2>0, <4>2, CausedAtEnd
      <4> QED BY <2>14, <4>1, <4>2, ResultFacts, ResultFields DEF Verify, RoundFails, NotRetained, Whys
    <3> QED BY <2>0, <3>1, <3>2, CausedOfOthers
  <2> QED BY <1>1, <2>1, <2>2, <2>3, <2>4, <2>5, <2>6, <2>7, <2>8, <2>9, <2>10, <2>11, <2>12, <2>13,
    <2>14 DEF PublishCmd
<1>2. CASE Others
  <2>1. UNCHANGED <<localVars, since>> /\ changes' = changes + 1
    BY <1>2 DEF Others, OthersPut, OthersTake, OthersBringBack, OthersTouchCandidate, Meddle,
      DestChanges
  <2>2. ASSUME NEW p \in Publishers PROVE CausedAt(p)'
    <3>1. CausedAt(p) /\ since[p] \in Nat /\ changes \in Nat /\ attempt[p] \in Nat /\ Attempts \in Nat
      BY AttemptsAssumption DEF Caused, Types, LocalTypes, HistTypes
    <3>2. Past(p)' = Past(p) + 1 /\ Past(p) \in Int
      BY <2>1, <3>1 DEF Past
    <3> QED BY <2>1, <3>1, <3>2 DEF CausedAt, localVars
  <2> QED BY <2>2 DEF Caused
<1> QED BY <1>1, <1>2 DEF Next

------------------------------------------------------------------------------
(* Nothing is left over.                                                   *)

\* A step of p concerns its own names; those of the others it can only free.
LEMMA TidyOfOthers ==
  ASSUME Types, Tidy, NEW p \in Publishers, Frame(p), faults' \in Nat, faults \in Nat, faults' >= faults,
         \A q \in Publishers \ {p} : \A k \in 1 .. Attempts : backup'[q][k] \in {backup[q][k], None},
         faults' = 0 => TidyAt(p)'
  PROVE  Tidy'
<1> SUFFICES ASSUME faults' = 0, NEW q \in Publishers, q # p PROVE TidyAt(q)'
  BY DEF Tidy
<1>1. TidyAt(q)
  BY DEF Tidy
<1>2. \A k \in 1 .. Attempts : backup'[q][k] \in {backup[q][k], None}
  OBVIOUS
<1>3. Backup(q)' \in {Backup(q), None}
  BY <1>2 DEF Backup, Frame, Types, LocalTypes
<1> QED BY <1>1, <1>2, <1>3 DEF TidyAt, Frame

\* A round that ends leaves nothing at its name.
LEMMA TidyAtEnd ==
  ASSUME Types, NEW p \in Publishers, result[p] = Open, TidyAt(p),
         \A k \in 1 .. Attempts : k # attempt[p] => backup'[p][k] = backup[p][k]
  PROVE  /\ \A r \in Results : Return(p, r) /\ (backup'[p][attempt[p]] = None \/ r = Claim) => TidyAt(p)'
         /\ Retry(p) /\ backup'[p][attempt[p]] = None => TidyAt(p)'
         /\ NotRetained(p) /\ backup'[p][attempt[p]] = None => TidyAt(p)'
<1>0. LocalTypes /\ attempt[p] \in 1 .. Attempts
  BY DEF Types, LocalTypes
<1>1. ASSUME NEW r \in Results, Return(p, r), backup'[p][attempt[p]] = None \/ r = Claim PROVE TidyAt(p)'
  <2>1. attempt' = attempt /\ pc'[p] = "done" /\ result'[p] = r
    BY <1>0, <1>1, Endings
  <2> QED BY <1>0, <1>1, <2>1, ResultFields DEF TidyAt, Backup, Marked
<1>2. ASSUME Retry(p), backup'[p][attempt[p]] = None PROVE TidyAt(p)'
  <2>1. CASE attempt[p] < Attempts
    <3>1. pc'[p] = "check" /\ attempt'[p] = attempt[p] + 1
      BY <1>0, <1>2, <2>1 DEF Retry, LocalTypes
    <3> QED BY <1>0, <1>2, <3>1 DEF TidyAt, Marked
  <2>2. CASE ~(attempt[p] < Attempts)
    <3>1. Error("changed") \in Results
      BY ResultFacts DEF Whys
    <3> QED BY <1>1, <1>2, <2>2, <3>1 DEF Retry
  <2> QED BY <2>1, <2>2
<1>3. Error("replace") \in Results
  BY ResultFacts DEF Whys
<1> QED BY <1>1, <1>2, <1>3 DEF NotRetained

\* A round that goes on.
LEMMA TidyGoes ==
  ASSUME Types, NEW p \in Publishers, result[p] = Open, TidyAt(p),
         \A k \in 1 .. Attempts : k # attempt[p] => backup'[p][k] = backup[p][k],
         NEW s \in Steps, Goto(p, s), s # "done",
         s \in Marked => backup'[p][attempt[p]] \in {Marker(p), None},
         s = "restore" => backup'[p][attempt[p]] \in {held'[p], None},
         s = "verify" => backup'[p][attempt[p]] = None,
         s = "cleanup" => backup'[p][attempt[p]] \in {displaced'[p], None}
  PROVE  TidyAt(p)'
<1>1. attempt' = attempt /\ pc'[p] = s /\ LocalTypes
  BY Endings DEF Types
<1> QED BY <1>1 DEF TidyAt, Backup, LocalTypes

\* One case per call.
LEMMA TidyStep == ASSUME Types, Restoring, Undecided, Fresh, Tidy, faults \in Nat, Next
                  PROVE Tidy' /\ faults' \in Nat
<1>1. ASSUME NEW p \in Publishers, PublishCmd(p) PROVE Tidy' /\ faults' \in Nat
  <2>0. /\ pc[p] # "done" /\ LocalTypes /\ result[p] = Open /\ attempt[p] \in 1 .. Attempts
        /\ Frame(p) /\ (CleanUp(p) \/ Round(p))
        /\ Backup(p) = backup[p][attempt[p]] /\ (pc[p] \in Early => Backup(p) = None)
    BY <1>1, Alone DEF Backup, Fresh
  <2>1. CASE Begin(p)
    <3>1. faults' \in Nat /\ faults' >= faults /\ Round(p)
      BY <2>0, <2>1 DEF CleanUp, Begin, Fault, NoFault, GiveUpRound, Discard, RoundFails
    <3>2. ASSUME faults' = 0 PROVE TidyAt(p)'
      <4>1. TidyAt(p) /\ ~Fault
        BY <2>0, <3>1, <3>2 DEF Fault, Tidy
      <4> QED BY <2>0, <2>1, <3>1, <4>1, BackupOfRound, TidyAtEnd, TidyGoes, ResultFacts
        DEF Begin, Round, GiveUpRound, RoundFails, PutBack, TidyAt, Early, Marked, Steps, Whys
    <3> QED BY <2>0, <3>1, <3>2, TidyOfOthers DEF Round
  <2>2. CASE CheckCandidate(p)
    <3>1. faults' \in Nat /\ faults' >= faults /\ Round(p)
      BY <2>0, <2>2 DEF CleanUp, CheckCandidate, Fault, NoFault, GiveUpRound, Discard, RoundFails
    <3>2. ASSUME faults' = 0 PROVE TidyAt(p)'
      <4>1. TidyAt(p) /\ ~Fault
        BY <2>0, <3>1, <3>2 DEF Fault, Tidy
      <4> QED BY <2>0, <2>2, <3>1, <4>1, BackupOfRound, TidyAtEnd, TidyGoes, ResultFacts
        DEF CheckCandidate, Round, GiveUpRound, RoundFails, PutBack, TidyAt, Early, Marked, Steps, Whys
    <3> QED BY <2>0, <3>1, <3>2, TidyOfOthers DEF Round
  <2>3. CASE ProbeDestination(p)
    <3>1. faults' \in Nat /\ faults' >= faults /\ Round(p)
      BY <2>0, <2>3 DEF CleanUp, ProbeDestination, Fault, NoFault, GiveUpRound, Discard, RoundFails
    <3>2. ASSUME faults' = 0 PROVE TidyAt(p)'
      <4>1. TidyAt(p) /\ ~Fault
        BY <2>0, <3>1, <3>2 DEF Fault, Tidy
      <4> QED BY <2>0, <2>3, <3>1, <4>1, BackupOfRound, TidyAtEnd, TidyGoes, ResultFacts
        DEF ProbeDestination, Round, GiveUpRound, RoundFails, PutBack, TidyAt, Early, Marked,
          Steps, Whys
    <3> QED BY <2>0, <3>1, <3>2, TidyOfOthers DEF Round
  <2>4. CASE MoveCandidate(p)
    <3>1. faults' \in Nat /\ faults' >= faults /\ Round(p)
      BY <2>0, <2>4 DEF CleanUp, MoveCandidate, Fault, NoFault, GiveUpRound, Discard, RoundFails
    <3>2. ASSUME faults' = 0 PROVE TidyAt(p)'
      <4>1. TidyAt(p) /\ ~Fault
        BY <2>0, <3>1, <3>2 DEF Fault, Tidy
      <4> QED BY <2>0, <2>4, <3>1, <4>1, BackupOfRound, TidyAtEnd, TidyGoes, ResultFacts
        DEF MoveCandidate, Round, GiveUpRound, RoundFails, PutBack, TidyAt, Early, Marked, Steps, Whys
    <3> QED BY <2>0, <3>1, <3>2, TidyOfOthers DEF Round
  <2>5. CASE ReserveBackup(p)
    <3>1. faults' \in Nat /\ faults' >= faults /\ Round(p)
      BY <2>0, <2>5 DEF CleanUp, ReserveBackup, Fault, NoFault, GiveUpRound, Discard, RoundFails
    <3>2. ASSUME faults' = 0 PROVE TidyAt(p)'
      <4>1. TidyAt(p) /\ ~Fault
        BY <2>0, <3>1, <3>2 DEF Fault, Tidy
      <4> QED BY <2>0, <2>5, <3>1, <4>1, BackupOfRound, TidyAtEnd, TidyGoes, ResultFacts
        DEF ReserveBackup, Round, GiveUpRound, RoundFails, PutBack, TidyAt, Early, Marked, Steps, Whys
    <3> QED BY <2>0, <3>1, <3>2, TidyOfOthers DEF Round
  <2>6. CASE RecheckCandidate(p)
    <3>1. faults' \in Nat /\ faults' >= faults /\ Round(p)
      BY <2>0, <2>6 DEF CleanUp, RecheckCandidate, Fault, NoFault, GiveUpRound, Discard, RoundFails
    <3>2. ASSUME faults' = 0 PROVE TidyAt(p)'
      <4>1. TidyAt(p) /\ ~Fault
        BY <2>0, <3>1, <3>2 DEF Fault, Tidy
      <4> QED BY <2>0, <2>6, <3>1, <4>1, BackupOfRound, TidyAtEnd, TidyGoes, ResultFacts
        DEF RecheckCandidate, Round, GiveUpRound, RoundFails, PutBack, TidyAt, Early, Marked,
          Steps, Whys
    <3> QED BY <2>0, <3>1, <3>2, TidyOfOthers DEF Round
  <2>7. CASE RecheckDestination(p)
    <3>1. faults' \in Nat /\ faults' >= faults /\ Round(p)
      BY <2>0, <2>7 DEF CleanUp, RecheckDestination, Fault, NoFault, GiveUpRound, Discard, RoundFails
    <3>2. ASSUME faults' = 0 PROVE TidyAt(p)'
      <4>1. TidyAt(p) /\ ~Fault
        BY <2>0, <3>1, <3>2 DEF Fault, Tidy
      <4> QED BY <2>0, <2>7, <3>1, <4>1, BackupOfRound, TidyAtEnd, TidyGoes, ResultFacts
        DEF RecheckDestination, Round, GiveUpRound, RoundFails, PutBack, TidyAt, Early, Marked,
          Steps, Whys
    <3> QED BY <2>0, <3>1, <3>2, TidyOfOthers DEF Round
  <2>8. CASE HoldDestination(p)
    <3>1. faults' \in Nat /\ faults' >= faults /\ Round(p)
      BY <2>0, <2>8 DEF CleanUp, HoldDestination, Fault, NoFault, GiveUpRound, Discard, RoundFails
    <3>2. ASSUME faults' = 0 PROVE TidyAt(p)'
      <4>1. TidyAt(p) /\ ~Fault
        BY <2>0, <3>1, <3>2 DEF Fault, Tidy
      <4> QED BY <2>0, <2>8, <3>1, <4>1, BackupOfRound, TidyAtEnd, TidyGoes, ResultFacts
        DEF HoldDestination, Round, GiveUpRound, RoundFails, PutBack, TidyAt, Early, Marked, Steps, Whys
    <3> QED BY <2>0, <3>1, <3>2, TidyOfOthers DEF Round
  <2>9. CASE ReplaceFile(p)
    <3>1. faults' \in Nat /\ faults' >= faults /\ Round(p)
      BY <2>0, <2>9 DEF CleanUp, ReplaceFile, Fault, NoFault, GiveUpRound, Discard, RoundFails
    <3>2. ASSUME faults' = 0 PROVE TidyAt(p)'
      <4>1. TidyAt(p) /\ ~Fault
        BY <2>0, <3>1, <3>2 DEF Fault, Tidy
      <4> QED BY <2>0, <2>9, <3>1, <4>1, BackupOfRound, TidyAtEnd, TidyGoes, ResultFacts
        DEF ReplaceFile, Round, GiveUpRound, RoundFails, PutBack, TidyAt, Early, Marked, Steps, Whys,
            Types, HistTypes
    <3> QED BY <2>0, <3>1, <3>2, TidyOfOthers DEF Round
  <2>10. CASE ReplaceFileFails(p)
    <3>1. faults' \in Nat /\ faults' >= faults /\ Round(p)
      BY <2>0, <2>10 DEF CleanUp, ReplaceFileFails, Fault, NoFault, GiveUpRound, Discard, RoundFails
    <3>2. ASSUME faults' = 0 PROVE TidyAt(p)'
      <4>1. TidyAt(p) /\ ~Fault
        BY <2>0, <3>1, <3>2 DEF Fault, Tidy
      <4> QED BY <2>0, <2>10, <3>1, <4>1, BackupOfRound, TidyAtEnd, TidyGoes, ResultFacts
        DEF ReplaceFileFails, Round, GiveUpRound, RoundFails, PutBack, TidyAt, Early, Marked,
          Steps, Whys
    <3> QED BY <2>0, <3>1, <3>2, TidyOfOthers DEF Round
  <2>11. CASE Recover(p)
    <3>1. faults' \in Nat /\ faults' >= faults /\ Round(p)
      BY <2>0, <2>11 DEF CleanUp, Recover, Fault, NoFault, GiveUpRound, Discard, RoundFails
    <3>2. ASSUME faults' = 0 PROVE TidyAt(p)'
      <4>1. TidyAt(p) /\ ~Fault
        BY <2>0, <3>1, <3>2 DEF Fault, Tidy
      <4> QED BY <2>0, <2>11, <3>1, <4>1, BackupOfRound, TidyAtEnd, TidyGoes, ResultFacts
        DEF Recover, Round, GiveUpRound, RoundFails, PutBack, TidyAt, Early, Marked, Steps, Whys
    <3> QED BY <2>0, <3>1, <3>2, TidyOfOthers DEF Round
  <2>12. CASE Restore(p)
    <3>1. faults' \in Nat /\ faults' >= faults /\ Round(p)
      BY <2>0, <2>12 DEF CleanUp, Restore, Fault, NoFault, GiveUpRound, Discard, RoundFails
    <3>2. ASSUME faults' = 0 PROVE TidyAt(p)'
      <4>1. TidyAt(p) /\ ~Fault
        BY <2>0, <3>1, <3>2 DEF Fault, Tidy
      <4> QED BY <2>0, <2>12, <3>1, <4>1, BackupOfRound, TidyAtEnd, TidyGoes, ResultFacts
        DEF Restore, Round, GiveUpRound, RoundFails, PutBack, TidyAt, Early, Marked, Steps, Whys
    <3> QED BY <2>0, <3>1, <3>2, TidyOfOthers DEF Round
  <2>13. CASE Verify(p)
    <3>1. faults' \in Nat /\ faults' >= faults /\ Round(p)
      BY <2>0, <2>13 DEF CleanUp, Verify, Fault, NoFault, GiveUpRound, Discard, RoundFails
    <3>2. ASSUME faults' = 0 PROVE TidyAt(p)'
      <4>1. TidyAt(p) /\ ~Fault
        BY <2>0, <3>1, <3>2 DEF Fault, Tidy
      <4> QED BY <2>0, <2>13, <3>1, <4>1, BackupOfRound, TidyAtEnd, TidyGoes, ResultFacts
        DEF Verify, Round, GiveUpRound, RoundFails, PutBack, TidyAt, Early, Marked, Steps, Whys
    <3> QED BY <2>0, <3>1, <3>2, TidyOfOthers DEF Round
  <2>14. CASE CleanUp(p)
    <3>1. /\ pc[p] = "cleanup" /\ faults' \in Nat /\ faults' >= faults /\ UNCHANGED <<held, displaced>>
          /\ attempt' = attempt /\ pc'[p] = "done"
      BY <2>0, <2>14, Endings, ResultFacts DEF CleanUp, Fault, NoFault
    <3>2. \A q \in Publishers : \A k \in 1 .. Attempts : backup'[q][k] \in {backup[q][k], None}
      <4>1. CASE Unlink(held[p])
        BY <4>1 DEF Unlink
      <4>2. CASE UNCHANGED backup
        BY <4>2
      <4> QED BY <2>14, <4>1, <4>2 DEF CleanUp
    <3>3. ASSUME faults' = 0 PROVE TidyAt(p)'
      <4>1. TidyAt(p) /\ Unlink(held[p])
        BY <2>14, <3>1, <3>3 DEF CleanUp, Fault, Tidy
      <4>2. Backup(p)' = IF Backup(p) = held[p] THEN None ELSE Backup(p)
        BY <2>0, <3>1, <4>1 DEF Unlink, Backup
      <4> QED BY <2>0, <3>1, <3>2, <4>1, <4>2 DEF TidyAt, Marked
    <3> QED BY <2>0, <3>1, <3>2, <3>3, TidyOfOthers
  <2> QED BY <1>1, <2>1, <2>2, <2>3, <2>4, <2>5, <2>6, <2>7, <2>8, <2>9, <2>10, <2>11, <2>12, <2>13,
    <2>14 DEF PublishCmd
<1>2. CASE Others
  BY <1>2
  DEF Others, OthersPut, OthersTake, OthersBringBack, OthersTouchCandidate, Meddle, localVars, Tidy,
      TidyAt, Backup
<1> QED BY <1>1, <1>2 DEF Next

------------------------------------------------------------------------------
(* The invariant and the theorems.                                         *)

\* Before the first call.
LEMMA InitIInv == Init => IInv
<1> SUFFICES ASSUME Init PROVE IInv
  OBVIOUS
<1>1. Types
  BY FileFacts, ResultFacts, AttemptsAssumption
  DEF Init, Types, LocalTypes, NameTypes, SeenTypes, HistTypes, Steps
<1>2. Restoring /\ Undecided /\ Given /\ DestinationIsKept
  BY DEF Init, Restoring, Undecided, Given, Looking, DestinationIsKept
<1>3. Fresh /\ Newcomers /\ ResultIsTrue
  BY ResultFields DEF Init, Fresh, Newcomers, Replaced, ResultIsTrue
<1>4. Tidy /\ faults \in Nat
  BY AttemptsAssumption DEF Init, Tidy, TidyAt, Marked, Backup
<1>5. Caused
  BY ResultFields DEF Init, Caused, CausedAt
<1> QED BY <1>1, <1>2, <1>3, <1>4, <1>5 DEF IInv

\* One lemma per conjunct.
LEMMA NextIInv == ASSUME IInv, [Next]_vars PROVE IInv'
<1>1. CASE Next
  <2>1. Types' /\ Restoring' /\ Undecided' /\ Given'
    BY <1>1, TypesStep, RestoringStep, UndecidedStep, GivenStep DEF IInv
  <2>2. Fresh' /\ Newcomers' /\ DestinationIsKept' /\ ResultIsTrue'
    BY <1>1, FreshStep, NewcomersStep, KeptStep, ResultStep DEF IInv
  <2>3. Tidy' /\ faults' \in Nat /\ Caused'
    BY <1>1, <2>1, TidyStep, CausedStep DEF IInv
  <2> QED BY <2>1, <2>2, <2>3 DEF IInv
<1>2. CASE UNCHANGED vars
  <2>1. UNCHANGED <<nameVars, localVars, historyVars, meddled, faults>>
    BY <1>2 DEF vars
  <2>2. Types' /\ Restoring' /\ Undecided' /\ Given'
    BY <2>1 DEF IInv, nameVars, localVars, historyVars, Types, LocalTypes, NameTypes, SeenTypes,
      HistTypes, Restoring, Undecided, Given, AtCandidate, Backup
  <2>3. Fresh' /\ Newcomers' /\ DestinationIsKept' /\ ResultIsTrue'
    BY <2>1
    DEF IInv, nameVars, localVars, historyVars, Fresh, Newcomers, Replaced, DestinationIsKept,
        ResultIsTrue, Backup
  <2>4. Tidy' /\ faults' \in Nat /\ Caused'
    BY <2>1 DEF IInv, nameVars, localVars, historyVars, Tidy, TidyAt, Backup, Caused, CausedAt, Past
  <2> QED BY <2>2, <2>3, <2>4 DEF IInv
<1> QED BY <1>1, <1>2

\* The invariant holds of every reachable state.
LEMMA Invariant == Spec => []IInv
BY InitIInv, NextIInv, PTL DEF Spec

\* What was last put at the destination is there or retained, between any two calls of
\* PublishCmd and of recover_replace_failure, whatever other programs do (DestinationIsKept).
THEOREM DestinationIsKeptHolds == Spec => []DestinationIsKept
<1>1. IInv => DestinationIsKept
  BY DEF IInv
<1> QED BY <1>1, Invariant, PTL

\* A success of PublishCmd has published the candidate it was given, a failure has left
\* it where it was (ResultIsTrue).
THEOREM ResultIsTrueHolds == Spec => []ResultIsTrue
<1>1. IInv => ResultIsTrue
  BY DEF IInv
<1> QED BY <1>1, Invariant, PTL

\* delete_backup_after_replace never deletes a file that slipped in at the destination
\* before ReplaceFileW (NewcomerSurvives).
THEOREM NewcomerSurvivesHolds == Spec => []NewcomerSurvives
<1>1. IInv => NewcomerSurvives
  BY DEF IInv, Newcomers, Replaced, NewcomerSurvives
<1> QED BY <1>1, Invariant, PTL
\* backup_marker and ReplaceFileW leave nothing behind when no call fails, whatever ended
\* the rounds (NoLitter).
THEOREM NoLitterHolds == Spec => []NoLitter
<1>1. IInv => NoLitter
  <2> SUFFICES ASSUME IInv, faults = 0, NEW p \in Publishers, pc[p] = "done", ~result[p].claim,
                      displaced[p] \in {None, held[p]}, NEW k \in 1 .. Attempts
               PROVE  backup[p][k] = None
    BY DEF NoLitter
  <2>1. TidyAt(p) /\ attempt[p] \in 1 .. Attempts
    BY DEF IInv, Tidy, Types, LocalTypes
  <2>2. k > attempt[p] => backup[p][k] = None
    BY DEF IInv, Fresh
  <2> QED BY <2>1, <2>2 DEF TidyAt, Backup
<1> QED BY <1>1, Invariant, PTL

\* PublishCmd gives up only after as many changes by others as it made rounds
\* (GivesUpOnlyWhenChanged).
THEOREM GivesUpOnlyWhenChangedHolds == Spec => []GivesUpOnlyWhenChanged
<1>1. IInv => GivesUpOnlyWhenChanged
  BY DEF IInv, Caused, CausedAt, Past, GivesUpOnlyWhenChanged
<1> QED BY <1>1, Invariant, PTL

=============================================================================
