------------------------------ MODULE PoolBatch ------------------------------
(***************************************************************************)
(* What a pool promises about the one batch it accepts, without workers,   *)
(* pipes, retries or an event loop: every accepted item is settled once    *)
(* and for good, the batch ends complete only when nothing is owed, and    *)
(* the answer handed to the caller covers exactly the batch.               *)
(***************************************************************************)
EXTENDS Naturals

CONSTANT MaxItems           \* size of the largest batch considered, a natural number

VARIABLES
  outcome,    \* what became of each id: none, owed, replied, poisoned
  verdict,    \* state of the batch: none, open, complete, abandoned, closed
  answer      \* settled outcomes handed to the caller, by id

batchVars == <<outcome, verdict, answer>>

Id == 0 .. MaxItems - 1
Settled == {"replied", "poisoned"}
Owed == {i \in Id : outcome[i] = "owed"}
Accepted == {i \in Id : outcome[i] # "none"}

BatchTypeOK ==
  /\ outcome \in [Id -> Settled \cup {"none", "owed"}]
  /\ verdict \in {"none", "open", "complete", "abandoned", "closed"}
  /\ DOMAIN answer \subseteq Id

BatchInit ==
  /\ outcome = [i \in Id |-> "none"]
  /\ verdict = "none"
  /\ answer = [i \in {} |-> "none"]

\* The one batch is accepted whole.
Accept(n) ==
  /\ verdict = "none"
  /\ outcome' = [i \in Id |-> IF i < n THEN "owed" ELSE "none"]
  /\ verdict' = "open"
  /\ UNCHANGED answer

\* An owed item is settled; the last one may end the batch in the same step.
Settle(i) ==
  /\ outcome[i] = "owed"
  /\ \E s \in Settled : outcome' = [outcome EXCEPT ![i] = s]
  /\ \/ UNCHANGED verdict
     \/ verdict = "open" /\ Owed' = {} /\ verdict' = "complete"
     \/ verdict = "open" /\ Owed' # {} /\ verdict' = "abandoned"
  /\ UNCHANGED answer

\* The batch is declared complete: only when nothing is owed.
Complete ==
  /\ verdict = "open"
  /\ Owed = {}
  /\ verdict' = "complete"
  /\ UNCHANGED <<outcome, answer>>

\* The pool gives up on a batch that still owes something.
Abandon ==
  /\ verdict = "open"
  /\ Owed # {}
  /\ verdict' = "abandoned"
  /\ UNCHANGED <<outcome, answer>>

\* The caller gets an answer for every accepted item, and for nothing else.
Deliver ==
  /\ verdict = "complete"
  /\ answer' = [i \in Accepted |-> outcome[i]]
  /\ UNCHANGED <<outcome, verdict>>

\* Asking fails: the time is up, or the batch was abandoned.
Refuse ==
  /\ answer' = [i \in {} |-> "none"]
  /\ UNCHANGED <<outcome, verdict>>

\* The caller closes the pool, with whatever it still owes.
Close ==
  /\ verdict' = "closed"
  /\ UNCHANGED <<outcome, answer>>

BatchNext ==
  \/ \E n \in 0 .. MaxItems : Accept(n)
  \/ \E i \in Id : Settle(i)
  \/ Complete
  \/ Abandon
  \/ Deliver
  \/ Refuse
  \/ Close

BatchSpec == BatchInit /\ [][BatchNext]_batchVars
==============================================================================
