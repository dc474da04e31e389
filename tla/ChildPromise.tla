---------------------------- MODULE ChildPromise ----------------------------
(***************************************************************************)
(* What run and child promise a script about one child, without threads,     *)
(* pipes, processes or the order commands are carried out in: the child is    *)
(* over once, with one exit; its result is collected once and says what was   *)
(* true then for as long as the script asks; until then its output only       *)
(* grows, and a snapshot is answered only of a child that is not over.        *)
(***************************************************************************)
EXTENDS Naturals

CONSTANT Streams

VARIABLES
  life,       \* none, live, freed, failed (launch), leaked (could not be collected)
  exit,       \* how it ended, "none" until it is over
  timeout,    \* it was killed because its time was up
  killed,     \* it was killed
  output,     \* stream -> chunks captured or handed to a callback
  collected,  \* its result has been taken
  answer      \* the latest answer to the script

promiseVars == <<life, exit, timeout, killed, output, collected, answer>>

Silence == [s \in Streams |-> 0]
Nothing == [kind |-> "none", status |-> "", exit |-> "none", out |-> Silence]
Failure == [kind |-> "error", status |-> "", exit |-> "none", out |-> Silence]
Snapshot == [kind |-> "running", status |-> "running", exit |-> "none", out |-> output]
Verdict ==
  IF timeout THEN "timeout" ELSE IF killed THEN "killed" ELSE IF exit = "ok" THEN "ok" ELSE "error"
Result == [kind |-> "final", status |-> Verdict, exit |-> exit, out |-> output]

\* A child that was leaked, or whose launch failed, is not answered for any more, but its
\* threads may go on.
Going == life \in {"live", "failed", "leaked"} /\ ~collected
Over == exit # "none"
FactsStay == UNCHANGED <<exit, timeout, killed, output>>

PromiseInit ==
  /\ life = "none" /\ exit = "none" /\ ~timeout /\ ~killed
  /\ output = Silence /\ ~collected /\ answer = Nothing

Begin ==
  /\ life = "none" /\ life' = "live"
  /\ FactsStay /\ UNCHANGED <<collected, answer>>

\* The launch did not succeed after all.
Fail ==
  /\ life = "live" /\ ~Over /\ ~collected
  /\ life' = "failed" /\ answer' = Failure
  /\ FactsStay /\ UNCHANGED collected

Produce ==
  /\ Going
  /\ \E s \in Streams : output' = [output EXCEPT ![s] = @ + 1]
  /\ UNCHANGED <<life, exit, timeout, killed, collected, answer>>

\* A kill counts until the result is collected, a deadline until the child is over.
Kill ==
  /\ Going
  /\ killed' = TRUE
  /\ UNCHANGED timeout \/ (~Over /\ timeout' = TRUE)
  /\ UNCHANGED <<life, exit, output, collected, answer>>

Finish ==
  /\ Going /\ ~Over
  /\ exit' \in {"ok", "err", "kill"}
  /\ UNCHANGED <<life, timeout, killed, output, collected, answer>>

\* child wait -timeout on a child that is not over.
Watch ==
  /\ life = "live" /\ ~Over /\ ~collected
  /\ answer' = Snapshot
  /\ FactsStay /\ UNCHANGED <<life, collected>>

\* Waiting failed: nothing was collected, the script may try again.
Refuse ==
  /\ life = "live" /\ ~collected
  /\ answer' = Failure
  /\ FactsStay /\ UNCHANGED <<life, collected>>

\* The one time the result is collected; run and child close release the child too.
Collect ==
  /\ life = "live" /\ Over /\ ~collected
  /\ collected' = TRUE
  /\ \/ life' \in {"live", "freed"} /\ answer' \in {Result, Failure}
     \/ life' = "freed" /\ UNCHANGED answer
  /\ FactsStay

Again ==
  /\ life = "live" /\ collected
  /\ answer' = Result
  /\ FactsStay /\ UNCHANGED <<life, collected>>

Release ==
  /\ life = "live" /\ collected
  /\ life' = "freed"
  /\ FactsStay /\ UNCHANGED <<collected, answer>>

Leak ==
  /\ life = "live" /\ ~collected
  /\ life' = "leaked"
  /\ FactsStay /\ UNCHANGED <<collected, answer>>

PromiseNext ==
  \/ Begin \/ Fail \/ Produce \/ Kill \/ Finish
  \/ Watch \/ Refuse \/ Collect \/ Again \/ Release \/ Leak

PromiseSpec == PromiseInit /\ [][PromiseNext]_promiseVars
==============================================================================
