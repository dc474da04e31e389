----------------------------- MODULE PoolProofs -----------------------------
(***************************************************************************)
(* Theorems about Pool.tla, for every width, retry limit and batch size.   *)
(*                                                                         *)
(* ExactlyOnce is not inductive: a worker may be fed only if it has nothing *)
(* in flight, or the item it had would be overwritten. PoolInv adds that    *)
(* (FeedsAreFree), the state before the batch (BeforeBatch), and states     *)
(* ExactlyOnce position by position (Conserved).                            *)
(* RetryAccount needs an invariant of its own, RetryInv, and so do pool wait *)
(* and the refinement of PoolBatch, DirectorInv; both are below.             *)
(***************************************************************************)
EXTENDS Pool, SequenceTheorems, FiniteSetTheorems, TLAPS

USE DEF Ids, Junk, NoWorker, Idle, Feed, Died, Reply, Nothing, Poison
USE WidthAssumption, MaxTriesAssumption, BoundsAssumption

\* No worker before pool create, no item before pool submit.
BeforeBatch ==
  /\ phase = "none" => spawned = 0
  /\ phase \in {"none", "open"} =>
       /\ submitted = 0 /\ pending = <<>> /\ results = <<>> /\ DOMAIN inflight = {}
       /\ todo = {} /\ act.op # "feed"

\* Whoever is to be fed has nothing in flight.
FeedsAreFree ==
  /\ act.op = "feed" => act.w \notin DOMAIN inflight /\ act.w \notin todo
  /\ todo \cap DOMAIN inflight = {}
  /\ reading # NoWorker => todo = {}

\* No id occurs twice in the queue, in flight or in the results, ...
NoRepeats ==
  /\ \A k, l \in 1 .. Len(pending) : pending[k] = pending[l] => k = l
  /\ \A v, w \in DOMAIN inflight : inflight[v] = inflight[w] => v = w
  /\ \A k, l \in 1 .. Len(results) : results[k].id = results[l].id => k = l

\* ... none occurs in two of them, ...
NoOverlap ==
  /\ \A k \in 1 .. Len(pending) : \A w \in DOMAIN inflight : pending[k] # inflight[w]
  /\ \A k \in 1 .. Len(pending) : \A l \in 1 .. Len(results) : pending[k] # results[l].id
  /\ \A w \in DOMAIN inflight : \A l \in 1 .. Len(results) : inflight[w] # results[l].id

\* ... and the ids that occur are those accepted.
AllAccepted ==
  \A i \in Ids :
    i < submitted <=> \/ \E k \in 1 .. Len(pending) : pending[k] = i
                      \/ \E w \in DOMAIN inflight : inflight[w] = i
                      \/ \E l \in 1 .. Len(results) : results[l].id = i

Conserved == NoRepeats /\ NoOverlap /\ AllAccepted

PoolInv == TypeOK /\ BeforeBatch /\ FeedsAreFree /\ Conserved
------------------------------------------------------------------------------
\* The token as PoolCreate makes it satisfies the invariant: no worker, no item.
LEMMA InitPoolInv == Init => PoolInv
<1> HAVE Init
<1>1. BatchTypeOK
  <2>1. pending \in Seq(Ids) /\ results \in Seq(Reply)
    BY DEF Init
  <2>2. tries \in [Ids -> Nat] /\ \A w \in DOMAIN inflight : inflight[w] \in Ids
    BY DEF Init
  <2>3. submitted \in 0 .. MaxItems /\ dead \in Nat /\ requeued \in Nat
    BY DEF Init
  <2>4. fatal \in BOOLEAN /\ done \in BOOLEAN
    BY DEF Init
  <2> QED
    BY <2>1, <2>2, <2>3, <2>4 DEF BatchTypeOK
<1>2. WaitTypeOK
  BY DEF Init, WaitTypeOK
<1>3. WorkerTypeOK
  BY DEF Init, WorkerTypeOK
<1>4. ControlTypeOK
  BY DEF Init, ControlTypeOK
<1>5. DOMAIN inflight = {} /\ Len(pending) = 0 /\ Len(results) = 0 /\ submitted = 0
  BY DEF Init
<1>6. BeforeBatch /\ FeedsAreFree
  BY <1>5 DEF Init, BeforeBatch, FeedsAreFree
<1>7. Conserved
  BY <1>5 DEF Conserved, NoRepeats, NoOverlap, AllAccepted
<1> QED
  BY <1>1, <1>2, <1>3, <1>4, <1>6, <1>7 DEF PoolInv, TypeOK

\* The queue of a new batch.
LEMMA FreshQueue ==
  ASSUME NEW n \in 0 .. MaxItems
  PROVE  /\ [k \in 1 .. n |-> k - 1] \in Seq(Ids)
         /\ Len([k \in 1 .. n |-> k - 1]) = n
<1>1. \A k \in 1 .. n : k - 1 \in Ids
  OBVIOUS
<1>2. [k \in 1 .. n |-> k - 1] \in [1 .. n -> Ids]
  BY <1>1
<1> QED
  BY <1>2

\* A queue with an item put back at its head.
LEMMA PutBack ==
  ASSUME NEW S, NEW q \in Seq(S), NEW x \in S
  PROVE  /\ <<x>> \o q \in Seq(S)
         /\ Len(<<x>> \o q) = Len(q) + 1
         /\ (<<x>> \o q)[1] = x
         /\ \A k \in 1 .. Len(q) : (<<x>> \o q)[k + 1] = q[k]
         /\ \A k \in 2 .. Len(q) + 1 : (<<x>> \o q)[k] = q[k - 1]
  OBVIOUS

\* A queue whose head has been taken.
LEMMA TakenOff ==
  ASSUME NEW S, NEW q \in Seq(S), q # <<>>
  PROVE  /\ Head(q) \in S /\ Head(q) = q[1]
         /\ Tail(q) \in Seq(S)
         /\ Len(Tail(q)) = Len(q) - 1
         /\ \A k \in 1 .. Len(q) - 1 : Tail(q)[k] = q[k + 1]
         /\ Len(q) \in Nat /\ Len(q) > 0
  OBVIOUS

------------------------------------------------------------------------------
(* The steps that move an item, and what each does to the queues.          *)

Feeds(w) == TakeItem(w) /\ act = Feed(w) /\ UNCHANGED <<submitted, results, tries, dead, requeued, fatal, done>>

\* Every step is one of: no change to the queues, the submission, a PoolFeed, a reply
\* read by PoolReadable, or a death in PoolDied.
LEMMA StepKinds ==
  ASSUME [Next]_vars
  PROVE  \/ UNCHANGED <<poolVars, inflight>>
         \/ \E n \in 0 .. MaxItems : PoolSubmit(n)
         \/ PoolFeedNothing
         \/ \E w \in 1 .. spawned :
              \/ ReadDrained(w) \/ Feeds(w) \/ ReadReply(w)
              \/ PoolDiedReplaced(w) \/ PoolDiedFatal(w) \/ PoolDiedUnreplaced(w)
<1>1. CASE UNCHANGED vars
  BY <1>1 DEF vars, poolVars
<1>2. CASE PoolCreate \/ PoolCreateFails \/ SubmitFeedsNext \/ PoolWaitAtOnce \/ PoolWait
           \/ WaitTimer \/ PoolWaitReturns \/ PoolClose
  BY <1>2 DEF PoolCreate, PoolCreateFails, SubmitFeedsNext, PoolWaitAtOnce, PoolWait,
       WaitTimer, PoolWaitReturns, PoolClose
<1>3. ASSUME NEW w, PoolReadable(w) \/ ReadTrouble(w) \/ ReadClosed(w)
                    \/ WorkerReplies(w) \/ WorkerExits(w) \/ WorkerMisbehaves(w)
      PROVE  UNCHANGED <<poolVars, inflight>>
  BY <1>3 DEF PoolReadable, ReadTrouble, ReadClosed, WorkerReplies, WorkerExits, WorkerMisbehaves
<1>4. ASSUME NEW w, PoolFeed(w) \/ PoolFeedFails(w)
      PROVE  Feeds(w)
  BY <1>4 DEF PoolFeed, PoolFeedFails, Feeds
<1> QED
  BY <1>1, <1>2, <1>3, <1>4 DEF Next, Handler, Script, Worker

\* What PoolDied does to the queues: nothing, a requeue, or a poison reply.
LEMMA BuryKinds ==
  ASSUME PoolInv, NEW w \in 1 .. spawned, Bury(w)
  PROVE  /\ inflight' = [x \in DOMAIN inflight \ {w} |-> inflight[x]]
         /\ submitted' = submitted
         /\ \/ w \notin DOMAIN inflight /\ UNCHANGED <<pending, results, tries, requeued>>
            \/ /\ w \in DOMAIN inflight /\ inflight[w] \in Ids
               /\ tries' = [tries EXCEPT ![inflight[w]] = @ + 1]
               /\ pending' = <<inflight[w]>> \o pending
               /\ requeued' = requeued + 1
               /\ results' = results
            \/ /\ w \in DOMAIN inflight /\ inflight[w] \in Ids
               /\ tries' = [tries EXCEPT ![inflight[w]] = @ + 1]
               /\ results' = Append(results, Poison(inflight[w]))
               /\ UNCHANGED <<pending, requeued>>
  BY DEF Bury, PoolRequeue, Restrict, PoolInv, TypeOK, BatchTypeOK

\* What a read reply does to them.
LEMMA ReplyKind ==
  ASSUME PoolInv, NEW w \in 1 .. spawned, ReadReply(w)
  PROVE  /\ w \in DOMAIN inflight /\ inflight[w] \in Ids
         /\ results' = Append(results, [id |-> inflight[w], by |-> "worker"])
         /\ [id |-> inflight[w], by |-> "worker"] \in Reply
         /\ inflight' = [x \in DOMAIN inflight \ {w} |-> inflight[x]]
         /\ UNCHANGED <<submitted, pending, tries, dead, requeued, fatal, done>>
  BY DEF ReadReply, Expected, Restrict, PoolInv, TypeOK, BatchTypeOK
------------------------------------------------------------------------------
\* No handler puts anything but ids in the queues or replies in the results.
LEMMA BatchTypeStep == ASSUME PoolInv, [Next]_vars PROVE BatchTypeOK'
<1>0. BatchTypeOK
  BY DEF PoolInv, TypeOK
<1>1. CASE UNCHANGED <<poolVars, inflight>>
  BY <1>0, <1>1 DEF poolVars, BatchTypeOK
<1>2. ASSUME NEW n \in 0 .. MaxItems, PoolSubmit(n)
      PROVE  BatchTypeOK'
  BY <1>0, <1>2, FreshQueue DEF PoolSubmit, BatchTypeOK
<1>3. CASE PoolFeedNothing
  BY <1>0, <1>3 DEF PoolFeedNothing, PoolCheckDone, batchVars, BatchTypeOK
<1>4. ASSUME NEW w \in 1 .. spawned, ReadDrained(w)
      PROVE  BatchTypeOK'
  BY <1>0, <1>4 DEF ReadDrained, PoolCheckDone, batchVars, BatchTypeOK
<1>5. ASSUME NEW w \in 1 .. spawned, Feeds(w)
      PROVE  BatchTypeOK'
  BY <1>0, <1>5, TakenOff DEF Feeds, TakeItem, BatchTypeOK
<1>6. ASSUME NEW w \in 1 .. spawned, ReadReply(w)
      PROVE  BatchTypeOK'
  <2>0. [id |-> inflight[w], by |-> "worker"] \in Reply /\ results \in Seq(Reply)
    BY <1>0, <1>6, ReplyKind DEF BatchTypeOK
  <2>1. Append(results, [id |-> inflight[w], by |-> "worker"]) \in Seq(Reply)
    BY <2>0, AppendProperties
  <2>2. results' \in Seq(Reply)
    BY <2>1, <1>6, ReplyKind
  <2>3. \A x \in DOMAIN inflight' : inflight'[x] = inflight[x] /\ x \in DOMAIN inflight
    BY <1>6, ReplyKind
  <2>4. UNCHANGED <<submitted, pending, tries, dead, requeued, fatal, done>>
    BY <1>6, ReplyKind
  <2> QED
    BY <1>0, <2>2, <2>3, <2>4 DEF BatchTypeOK
<1>7. ASSUME NEW w \in 1 .. spawned, Bury(w), fatal' \in BOOLEAN, done' \in BOOLEAN
      PROVE  BatchTypeOK'
  <2>1. /\ \A x \in DOMAIN inflight' : inflight'[x] = inflight[x] /\ x \in DOMAIN inflight
        /\ submitted' = submitted /\ dead' = dead + 1
    BY <1>7, BuryKinds DEF Bury
  <2>a. submitted' \in 0 .. MaxItems /\ dead' \in Nat
    BY <1>0, <2>1 DEF BatchTypeOK
  <2>b. \A x \in DOMAIN inflight' : inflight'[x] \in Ids
    BY <1>0, <2>1 DEF BatchTypeOK
  <2>2. CASE UNCHANGED <<pending, results, tries, requeued>>
    BY <1>0, <1>7, <2>a, <2>b, <2>2 DEF BatchTypeOK
  <2>3. ASSUME NEW i \in Ids, tries' = [tries EXCEPT ![i] = @ + 1],
               pending' = <<i>> \o pending, requeued' = requeued + 1, results' = results
        PROVE  BatchTypeOK'
    <3>1. pending' \in Seq(Ids)
      BY <1>0, <2>3, PutBack DEF BatchTypeOK
    <3>2. tries' \in [Ids -> Nat] /\ requeued' \in Nat /\ results' \in Seq(Reply)
      BY <1>0, <2>3 DEF BatchTypeOK
    <3> QED
      BY <1>7, <2>a, <2>b, <3>1, <3>2 DEF BatchTypeOK
  <2>4. ASSUME NEW i \in Ids, tries' = [tries EXCEPT ![i] = @ + 1],
               results' = Append(results, Poison(i)), UNCHANGED <<pending, requeued>>
        PROVE  BatchTypeOK'
    <3>1. Poison(i) \in Reply
      OBVIOUS
    <3>2. results \in Seq(Reply)
      BY <1>0 DEF BatchTypeOK
    <3>3. results' \in Seq(Reply)
      BY <2>4, <3>1, <3>2, AppendProperties
    <3>4. pending' \in Seq(Ids) /\ tries' \in [Ids -> Nat] /\ requeued' \in Nat
      BY <1>0, <2>4 DEF BatchTypeOK
    <3> QED
      BY <1>7, <2>a, <2>b, <3>3, <3>4 DEF BatchTypeOK
  <2> QED
    BY <1>7, <2>2, <2>3, <2>4, BuryKinds
<1>8. ASSUME NEW w \in 1 .. spawned, PoolDiedReplaced(w) \/ PoolDiedFatal(w) \/ PoolDiedUnreplaced(w)
      PROVE  Bury(w) /\ fatal' \in BOOLEAN /\ done' \in BOOLEAN
  BY <1>0, <1>8 DEF PoolDiedReplaced, PoolDiedFatal, PoolDiedUnreplaced, PoolCheckDone, BatchTypeOK
<1> QED
  BY <1>1, <1>2, <1>3, <1>4, <1>5, <1>6, <1>7, <1>8, StepKinds

\* pool wait and the timer keep POOL_DONE and the outcome in their types.
LEMMA WaitTypeStep == ASSUME PoolInv, [Next]_vars PROVE WaitTypeOK'
<1>0. WaitTypeOK
  BY DEF PoolInv, TypeOK
<1>1. ASSUME UNCHANGED <<phase, signal, waiting, last>>
      PROVE  WaitTypeOK'
  BY <1>0, <1>1 DEF WaitTypeOK
<1>2. CASE PoolCreate \/ PoolCreateFails \/ \E n \in 0 .. MaxItems : PoolSubmit(n)
  BY <1>0, <1>2 DEF PoolCreate, PoolCreateFails, PoolSubmit, WaitTypeOK, waitVars
<1>3. CASE PoolFeedNothing
  BY <1>0, <1>3 DEF PoolFeedNothing, PoolCheckDone, WaitTypeOK
<1>4. ASSUME NEW w, ReadDrained(w) \/ PoolDiedReplaced(w) \/ PoolDiedFatal(w) \/ PoolDiedUnreplaced(w)
      PROVE  WaitTypeOK'
  <2>1. UNCHANGED <<phase, waiting, last>> /\ signal' \in {signal, "1"}
    BY <1>4 DEF ReadDrained, PoolDiedReplaced, PoolDiedFatal, PoolDiedUnreplaced, Bury, PoolCheckDone
  <2> QED
    BY <1>0, <2>1 DEF WaitTypeOK
<1>5. CASE PoolWait \/ WaitTimer \/ PoolClose
  BY <1>0, <1>5 DEF PoolWait, WaitTimer, PoolClose, WaitTypeOK
<1>6. CASE PoolWaitAtOnce \/ PoolWaitReturns
  <2>1. UNCHANGED <<phase, signal>> /\ waiting' \in {waiting, FALSE}
    BY <1>6 DEF PoolWaitAtOnce, PoolWaitReturns
  <2>2. \E kind \in {"results", "launch", "timeout"} : WaitEnd(kind)
    BY <1>6 DEF PoolWaitAtOnce, PoolWaitReturns
  <2>3. submitted \in 0 .. MaxItems
    BY DEF PoolInv, TypeOK, BatchTypeOK
  <2>4. DOMAIN Answer \subseteq Ids /\ DOMAIN Nothing \subseteq Ids
    BY <2>3 DEF Answer
  <2>5. last'.kind \in {"results", "launch", "timeout"} /\ DOMAIN last'.replies \subseteq Ids
    BY <2>2, <2>4 DEF WaitEnd
  <2> QED
    BY <1>0, <2>1, <2>5 DEF WaitTypeOK
<1>7. CASE SubmitFeedsNext
  BY <1>1, <1>7 DEF SubmitFeedsNext, waitVars
<1>8. ASSUME NEW w, PoolReadable(w) \/ PoolFeed(w) \/ PoolFeedFails(w) \/ ReadReply(w)
                    \/ ReadTrouble(w) \/ ReadClosed(w)
                    \/ WorkerReplies(w) \/ WorkerExits(w) \/ WorkerMisbehaves(w)
      PROVE  WaitTypeOK'
  BY <1>1, <1>8 DEF PoolReadable, PoolFeed, PoolFeedFails, ReadReply, ReadTrouble, ReadClosed,
       WorkerReplies, WorkerExits, WorkerMisbehaves, waitVars
<1>9. CASE UNCHANGED vars
  BY <1>1, <1>9 DEF vars, waitVars
<1> QED
  BY <1>2, <1>3, <1>4, <1>5, <1>6, <1>7, <1>8, <1>9 DEF Next, Handler, Script, Worker

\* PoolDied keeps the worker list, the processes and the pipes in step with each other.
LEMMA WorkerTypeStep == ASSUME PoolInv, [Next]_vars PROVE WorkerTypeOK'
<1>0. WorkerTypeOK /\ pending \in Seq(Ids) /\ (\A w \in DOMAIN inflight : inflight[w] \in Ids)
  BY DEF PoolInv, TypeOK, BatchTypeOK
<1>a. /\ spawned \in Nat /\ workers \subseteq 1 .. spawned /\ alive \subseteq workers
      /\ DOMAIN inflight \subseteq 1 .. spawned
  BY <1>0 DEF WorkerTypeOK
<1>b. /\ \A q \in Seq(Ids) : \A x \in Ids : Append(q, x) \in Seq(Ids)
      /\ \A q \in Seq(Ids) : q # <<>> => Head(q) \in Ids /\ Tail(q) \in Seq(Ids)
  BY AppendProperties, TakenOff
<1>1. ASSUME UNCHANGED <<spawned, workers, alive, inbox, outbox, rogue>>,
             DOMAIN inflight' \subseteq 1 .. spawned
      PROVE  WorkerTypeOK'
  BY <1>0, <1>1 DEF WorkerTypeOK
<1>2. CASE PoolCreate \/ PoolCreateFails
  <2>1. DOMAIN inflight' = {} /\ workers \subseteq {} /\ rogue' \in 0 .. MaxRogue
    BY <1>0, <1>2 DEF PoolCreate, PoolCreateFails, PoolInv, BeforeBatch, WorkerTypeOK, workerVars
  <2>2. CASE PoolCreate
    BY <2>1, <2>2 DEF PoolCreate, WorkerTypeOK
  <2>3. CASE PoolCreateFails
    <3>1. UNCHANGED <<workers, alive, inbox, outbox>> /\ spawned' \in Nat
      BY <2>3 DEF PoolCreateFails, workerVars
    <3> QED
      BY <1>0, <2>1, <3>1 DEF WorkerTypeOK
  <2> QED
    BY <1>2, <2>2, <2>3
<1>3. CASE SubmitFeedsNext \/ PoolFeedNothing \/ PoolWaitAtOnce \/ PoolWait \/ WaitTimer
           \/ PoolWaitReturns \/ \E n \in 0 .. MaxItems : PoolSubmit(n)
  <2>1. UNCHANGED <<spawned, workers, alive, inbox, outbox, rogue, inflight>>
    BY <1>3 DEF SubmitFeedsNext, PoolFeedNothing, PoolWaitAtOnce, PoolWait, WaitTimer,
         PoolWaitReturns, PoolSubmit, workerVars, batchVars
  <2> QED
    BY <1>0, <1>1, <2>1 DEF WorkerTypeOK
<1>4. ASSUME NEW w, PoolReadable(w) \/ ReadTrouble(w) \/ ReadDrained(w) \/ ReadClosed(w)
      PROVE  WorkerTypeOK'
  <2>1. UNCHANGED <<spawned, workers, alive, inbox, outbox, rogue, inflight>>
    BY <1>4 DEF PoolReadable, ReadTrouble, ReadDrained, ReadClosed, workerVars, batchVars
  <2> QED
    BY <1>0, <1>1, <2>1 DEF WorkerTypeOK
<1>5. ASSUME NEW w \in 1 .. spawned, PoolFeed(w) \/ PoolFeedFails(w)
      PROVE  WorkerTypeOK'
  <2>1. DOMAIN inflight' \subseteq 1 .. spawned /\ Head(pending) \in Ids
    BY <1>0, <1>5, TakenOff DEF PoolFeed, PoolFeedFails, TakeItem, WorkerTypeOK
  <2>2. inbox' \in [workers -> Seq(Ids)]
    <3>1. inbox \in [workers -> Seq(Ids)]
      BY <1>0 DEF WorkerTypeOK
    <3>2. CASE PoolFeed(w)
      BY <1>b, <2>1, <3>1, <3>2 DEF PoolFeed
    <3>3. CASE PoolFeedFails(w)
      BY <3>1, <3>3 DEF PoolFeedFails, workerVars
    <3> QED
      BY <1>5, <3>2, <3>3
  <2> QED
    BY <1>0, <1>5, <2>1, <2>2 DEF PoolFeed, PoolFeedFails, WorkerTypeOK, workerVars
<1>6. ASSUME NEW w \in 1 .. spawned, ReadReply(w)
      PROVE  WorkerTypeOK'
  <2>1. DOMAIN inflight' \subseteq 1 .. spawned
    BY <1>a, <1>6, ReplyKind
  <2>2. outbox[w] \in Seq(Ids \cup {Junk}) /\ outbox[w] # <<>>
    BY <1>0, <1>6 DEF ReadReply, WorkerTypeOK
  <2>3. Tail(outbox[w]) \in Seq(Ids \cup {Junk})
    BY <2>2, TakenOff
  <2>4. outbox' \in [workers -> Seq(Ids \cup {Junk})]
    BY <1>0, <1>6, <2>3 DEF ReadReply, WorkerTypeOK
  <2> QED
    BY <1>0, <1>6, <2>1, <2>4 DEF ReadReply, WorkerTypeOK
<1>7. ASSUME NEW w \in 1 .. spawned, NEW new \in {{}, {spawned + 1}},
             Bury(w), Replace(w, new), spawned' = IF new = {} THEN spawned ELSE spawned + 1
      PROVE  WorkerTypeOK'
  <2>1. DOMAIN inflight' \subseteq 1 .. spawned' /\ rogue' = rogue
    <3>1. DOMAIN inflight' = DOMAIN inflight \ {w}
      BY <1>7, BuryKinds
    <3> QED
      BY <1>a, <1>7, <3>1 DEF Bury
  <2>2. workers' \subseteq 1 .. spawned' /\ alive' \subseteq workers' /\ spawned' \in Nat
    <3>1. CASE new = {}
      BY <1>a, <1>7, <3>1 DEF Replace
    <3>2. CASE new = {spawned + 1}
      BY <1>a, <1>7, <3>2 DEF Replace
    <3> QED
      BY <3>1, <3>2
  <2>3. \A x \in workers' : x \in new \/ x \in workers
    BY <1>7 DEF Replace
  <2>4. inbox' \in [workers' -> Seq(Ids)]
    <3>1. inbox \in [workers -> Seq(Ids)] /\ <<>> \in Seq(Ids)
      BY <1>0 DEF WorkerTypeOK
    <3> QED
      BY <1>7, <2>3, <3>1 DEF Replace
  <2>5. outbox' \in [workers' -> Seq(Ids \cup {Junk})]
    <3>1. outbox \in [workers -> Seq(Ids \cup {Junk})] /\ <<>> \in Seq(Ids \cup {Junk})
      BY <1>0 DEF WorkerTypeOK
    <3> QED
      BY <1>7, <2>3, <3>1 DEF Replace
  <2> QED
    BY <1>0, <2>1, <2>2, <2>4, <2>5 DEF WorkerTypeOK
<1>8. ASSUME NEW w \in 1 .. spawned, PoolDiedReplaced(w)
      PROVE  WorkerTypeOK'
  BY <1>7, <1>8, {spawned + 1} # {} DEF PoolDiedReplaced
<1>9. ASSUME NEW w \in 1 .. spawned, PoolDiedFatal(w) \/ PoolDiedUnreplaced(w)
      PROVE  WorkerTypeOK'
  BY <1>7, <1>9 DEF PoolDiedFatal, PoolDiedUnreplaced
<1>10. CASE PoolClose
  BY <1>0, <1>10 DEF PoolClose, WorkerTypeOK
<1>11. ASSUME NEW w \in workers, WorkerReplies(w) \/ WorkerExits(w) \/ WorkerMisbehaves(w)
       PROVE  WorkerTypeOK'
  <2>1. UNCHANGED <<spawned, workers, inflight>> /\ alive' \subseteq alive /\ rogue' \in 0 .. MaxRogue
    BY <1>0, <1>11 DEF WorkerReplies, WorkerExits, WorkerMisbehaves, WorkerTypeOK
  <2>2. inbox' \in [workers -> Seq(Ids)]
    <3>1. inbox \in [workers -> Seq(Ids)]
      BY <1>0 DEF WorkerTypeOK
    <3>2. CASE WorkerReplies(w)
      BY <1>b, <1>11, <3>1, <3>2 DEF WorkerReplies
    <3>3. CASE WorkerExits(w) \/ WorkerMisbehaves(w)
      BY <3>1, <3>3, <2>1 DEF WorkerExits, WorkerMisbehaves
    <3> QED
      BY <1>11, <3>2, <3>3
  <2>3. \A q \in Seq(Ids \cup {Junk}) : \A x \in Ids \cup {Junk} : Append(q, x) \in Seq(Ids \cup {Junk})
    BY AppendProperties
  <2>4. CASE WorkerReplies(w)
    <3>1. Head(inbox[w]) \in Ids
      BY <1>0, <2>4, TakenOff DEF WorkerReplies, WorkerTypeOK
    <3> QED
      BY <1>0, <2>1, <2>2, <2>3, <2>4, <3>1 DEF WorkerReplies, WorkerTypeOK
  <2>5. CASE WorkerExits(w)
    BY <1>0, <2>1, <2>2, <2>5 DEF WorkerExits, WorkerTypeOK
  <2>6. CASE WorkerMisbehaves(w)
    BY <1>0, <2>1, <2>2, <2>3, <2>6 DEF WorkerMisbehaves, WorkerTypeOK
  <2> QED
    BY <1>11, <2>4, <2>5, <2>6
<1>12. CASE UNCHANGED vars
  BY <1>0, <1>1, <1>12 DEF vars, workerVars, WorkerTypeOK
<1> QED
  BY <1>2, <1>3, <1>4, <1>5, <1>6, <1>8, <1>9, <1>10, <1>11, <1>12 DEF Next, Handler, Script, Worker

\* A handler's next call concerns a launched worker.
LEMMA ControlTypeStep == ASSUME PoolInv, [Next]_vars PROVE ControlTypeOK'
<1>0. /\ ControlTypeOK /\ spawned \in Nat /\ workers \subseteq 1 .. spawned
      /\ (phase = "none" => spawned = 0)
  BY DEF PoolInv, TypeOK, WorkerTypeOK, BeforeBatch
<1>1. ASSUME UNCHANGED <<act, todo, reading, spawned>>
      PROVE  ControlTypeOK'
  BY <1>0, <1>1 DEF ControlTypeOK
<1>2. CASE PoolCreate \/ PoolCreateFails
  <2>1. UNCHANGED controlVars /\ spawned = 0 /\ spawned' \in Nat
    BY <1>0, <1>2 DEF PoolCreate, PoolCreateFails
  <2> QED
    BY <1>0, <2>1 DEF ControlTypeOK, controlVars
<1>3. CASE SubmitFeedsNext
  <2>1. PICK w \in todo : act' = Feed(w) /\ todo' = todo \ {w}
    BY <1>3 DEF SubmitFeedsNext, Earliest
  <2>2. UNCHANGED <<reading, spawned>>
    BY <1>3 DEF SubmitFeedsNext
  <2> QED
    BY <1>0, <2>1, <2>2 DEF ControlTypeOK
<1>4. ASSUME NEW n \in 0 .. MaxItems, PoolSubmit(n)
      PROVE  ControlTypeOK'
  BY <1>0, <1>4 DEF PoolSubmit, ControlTypeOK
<1>5. CASE PoolFeedNothing
  BY <1>0, <1>5 DEF PoolFeedNothing, ControlTypeOK
<1>6. ASSUME NEW w \in 1 .. spawned,
             PoolFeed(w) \/ PoolFeedFails(w) \/ ReadReply(w) \/ ReadTrouble(w)
      PROVE  ControlTypeOK'
  <2>1. UNCHANGED <<todo, spawned>> /\ act' \in {Idle, Feed(w), Died(w)} /\ reading' \in {reading, 0}
    BY <1>6 DEF PoolFeed, PoolFeedFails, ReadReply, ReadTrouble
  <2> QED
    BY <1>0, <2>1 DEF ControlTypeOK
<1>7. ASSUME NEW w \in 1 .. spawned, PoolReadable(w) \/ ReadDrained(w) \/ ReadClosed(w)
      PROVE  ControlTypeOK'
  <2>1. UNCHANGED <<act, todo, spawned>> /\ reading' \in {w, 0}
    BY <1>7 DEF PoolReadable, ReadDrained, ReadClosed
  <2> QED
    BY <1>0, <2>1 DEF ControlTypeOK
<1>8. ASSUME NEW w \in 1 .. spawned, PoolDiedReplaced(w)
      PROVE  ControlTypeOK'
  <2>1. UNCHANGED <<todo, reading>> /\ spawned' = spawned + 1 /\ act' = Feed(spawned + 1)
    BY <1>8 DEF PoolDiedReplaced, Bury
  <2> QED
    BY <1>0, <2>1 DEF ControlTypeOK
<1>9. ASSUME NEW w \in 1 .. spawned, PoolDiedFatal(w) \/ PoolDiedUnreplaced(w)
      PROVE  ControlTypeOK'
  <2>1. UNCHANGED <<todo, reading, spawned>> /\ act' = Idle
    BY <1>9 DEF PoolDiedFatal, PoolDiedUnreplaced, Bury
  <2> QED
    BY <1>0, <2>1 DEF ControlTypeOK
<1>10. CASE PoolWaitAtOnce \/ PoolWait \/ WaitTimer \/ PoolWaitReturns \/ PoolClose
  BY <1>1, <1>10 DEF PoolWaitAtOnce, PoolWait, WaitTimer, PoolWaitReturns, PoolClose, controlVars
<1>11. ASSUME NEW w \in workers, WorkerReplies(w) \/ WorkerExits(w) \/ WorkerMisbehaves(w)
       PROVE  ControlTypeOK'
  BY <1>1, <1>11 DEF WorkerReplies, WorkerExits, WorkerMisbehaves, controlVars
<1>12. CASE UNCHANGED vars
  BY <1>1, <1>12 DEF vars, controlVars
<1> QED
  BY <1>0, <1>2, <1>3, <1>4, <1>5, <1>6, <1>7, <1>8, <1>9, <1>10, <1>11, <1>12
  DEF Next, Handler, Script, Worker

\* Until PoolSubmit accepts a batch the director holds no item and feeds nobody.
LEMMA BeforeBatchStep == ASSUME PoolInv, [Next]_vars PROVE BeforeBatch'
<1>0. BeforeBatch /\ ControlTypeOK /\ WorkerTypeOK
  BY DEF PoolInv, TypeOK
<1>1. ASSUME UNCHANGED <<phase, submitted, pending, results, inflight, todo>>,
             phase = "none" => spawned' = spawned, act' = act \/ act'.op # "feed"
      PROVE  BeforeBatch'
  BY <1>0, <1>1 DEF BeforeBatch
<1>2. CASE PoolCreate \/ PoolCreateFails
  BY <1>0, <1>2 DEF PoolCreate, PoolCreateFails, BeforeBatch, poolVars, controlVars
<1>3. ASSUME NEW n \in 0 .. MaxItems, PoolSubmit(n)
      PROVE  BeforeBatch'
  BY <1>3 DEF PoolSubmit, BeforeBatch
<1>4. CASE SubmitFeedsNext \/ PoolFeedNothing
  BY <1>0, <1>4 DEF SubmitFeedsNext, PoolFeedNothing, BeforeBatch
<1>5. ASSUME NEW w \in 1 .. spawned, PoolFeed(w) \/ PoolFeedFails(w) \/ ReadReply(w)
      PROVE  BeforeBatch'
  <2>1. phase \notin {"none", "open"} /\ phase' = phase
    <3>1. CASE PoolFeed(w) \/ PoolFeedFails(w)
      BY <1>0, <3>1 DEF PoolFeed, PoolFeedFails, BeforeBatch
    <3>2. CASE ReadReply(w)
      <4>1. w \in DOMAIN inflight
        BY <3>2, ReplyKind
      <4> QED
        BY <1>0, <3>2, <4>1 DEF ReadReply, BeforeBatch
    <3> QED
      BY <1>5, <3>1, <3>2
  <2> QED
    BY <2>1 DEF BeforeBatch
<1>6. ASSUME NEW w \in 1 .. spawned,
             PoolReadable(w) \/ ReadTrouble(w) \/ ReadDrained(w) \/ ReadClosed(w)
      PROVE  BeforeBatch'
  <2>1. UNCHANGED <<phase, submitted, pending, results, inflight, todo, spawned>>
    BY <1>6 DEF PoolReadable, ReadTrouble, ReadDrained, ReadClosed, poolVars, batchVars
  <2>2. act' = act \/ act' = Died(w)
    BY <1>6 DEF PoolReadable, ReadTrouble, ReadDrained, ReadClosed
  <2> QED
    BY <1>1, <2>1, <2>2
<1>7. ASSUME NEW w \in 1 .. spawned,
             PoolDiedReplaced(w) \/ PoolDiedFatal(w) \/ PoolDiedUnreplaced(w)
      PROVE  BeforeBatch'
  <2>1. Bury(w) /\ UNCHANGED <<phase, todo>>
    BY <1>7 DEF PoolDiedReplaced, PoolDiedFatal, PoolDiedUnreplaced, Bury
  <2>2. spawned # 0
    BY <1>0 DEF WorkerTypeOK
  <2>3. CASE phase = "open"
    <3>1. DOMAIN inflight = {} /\ UNCHANGED <<submitted, pending, results>> /\ DOMAIN inflight' = {}
      BY <1>0, <2>1, <2>3, BuryKinds DEF BeforeBatch
    <3>2. act'.op = "none"
      BY <1>0, <1>7, <2>3, <3>1 DEF PoolDiedReplaced, PoolDiedFatal, PoolDiedUnreplaced, BeforeBatch
    <3> QED
      BY <1>0, <2>1, <2>3, <3>1, <3>2 DEF BeforeBatch
  <2> QED
    BY <1>0, <2>1, <2>2, <2>3 DEF BeforeBatch
<1>8. CASE PoolWaitAtOnce \/ PoolWait \/ WaitTimer \/ PoolWaitReturns
  BY <1>1, <1>8 DEF PoolWaitAtOnce, PoolWait, WaitTimer, PoolWaitReturns, poolVars, controlVars
<1>9. CASE PoolClose
  BY <1>9 DEF PoolClose, BeforeBatch
<1>10. ASSUME NEW w \in workers, WorkerReplies(w) \/ WorkerExits(w) \/ WorkerMisbehaves(w)
       PROVE  BeforeBatch'
  BY <1>1, <1>10 DEF WorkerReplies, WorkerExits, WorkerMisbehaves, poolVars, controlVars
<1>11. CASE UNCHANGED vars
  BY <1>1, <1>11 DEF vars, poolVars, controlVars
<1>12. workers \subseteq 1 .. spawned
  BY <1>0 DEF WorkerTypeOK
<1> QED
  BY <1>2, <1>3, <1>4, <1>5, <1>6, <1>7, <1>8, <1>9, <1>10, <1>11, <1>12
  DEF Next, Handler, Script, Worker

\* PoolSubmit, PoolReadable and PoolDied call PoolFeed only for workers that hold no item:
\* PoolFeed never overwrites an entry of inflight.
LEMMA FeedsAreFreeStep == ASSUME PoolInv, [Next]_vars PROVE FeedsAreFree'
<1>0. /\ FeedsAreFree /\ ControlTypeOK /\ spawned \in Nat /\ workers \subseteq 1 .. spawned
      /\ DOMAIN inflight \subseteq 1 .. spawned
  BY DEF PoolInv, TypeOK, WorkerTypeOK
<1>1. ASSUME UNCHANGED <<todo, inflight>>, act' = act \/ act'.op # "feed", reading' \in {reading, NoWorker}
      PROVE  FeedsAreFree'
  BY <1>0, <1>1 DEF FeedsAreFree
<1>2. CASE SubmitFeedsNext
  <2>1. PICK w \in todo : act' = Feed(w) /\ todo' = todo \ {w}
    BY <1>2 DEF SubmitFeedsNext, Earliest
  <2>2. UNCHANGED <<reading, inflight>>
    BY <1>2 DEF SubmitFeedsNext
  <2> QED
    BY <1>0, <2>1, <2>2 DEF FeedsAreFree
<1>3. ASSUME NEW n \in 0 .. MaxItems, PoolSubmit(n)
      PROVE  FeedsAreFree'
  <2>1. DOMAIN inflight = {}
    BY <1>3 DEF PoolSubmit, PoolInv, BeforeBatch
  <2> QED
    BY <1>3, <2>1 DEF PoolSubmit, Quiet, FeedsAreFree
<1>4. ASSUME NEW w \in 1 .. spawned, PoolFeed(w) \/ PoolFeedFails(w)
      PROVE  FeedsAreFree'
  <2>1. /\ UNCHANGED <<todo, reading>> /\ act = Feed(w) /\ act' \in {Idle, Died(w)}
        /\ DOMAIN inflight' = DOMAIN inflight \cup {w}
    BY <1>4 DEF PoolFeed, PoolFeedFails, TakeItem
  <2> QED
    BY <1>0, <2>1 DEF FeedsAreFree
<1>5. ASSUME NEW w \in 1 .. spawned, ReadReply(w)
      PROVE  FeedsAreFree'
  <2>1. reading = w /\ UNCHANGED <<todo, reading>> /\ act' = Feed(w)
    BY <1>5 DEF ReadReply, InLoop
  <2>2. todo = {}
    BY <1>0, <2>1 DEF FeedsAreFree
  <2>3. DOMAIN inflight' = DOMAIN inflight \ {w}
    BY <1>5, ReplyKind
  <2> QED
    BY <2>1, <2>2, <2>3 DEF FeedsAreFree
<1>6. ASSUME NEW w \in 1 .. spawned, PoolReadable(w)
      PROVE  FeedsAreFree'
  BY <1>0, <1>6 DEF PoolReadable, Quiet, FeedsAreFree
<1>7. ASSUME NEW w \in 1 .. spawned, ReadTrouble(w) \/ ReadDrained(w) \/ ReadClosed(w)
      PROVE  FeedsAreFree'
  BY <1>1, <1>7 DEF ReadTrouble, ReadDrained, ReadClosed, batchVars
<1>8. ASSUME NEW w \in 1 .. spawned,
             PoolDiedReplaced(w) \/ PoolDiedFatal(w) \/ PoolDiedUnreplaced(w)
      PROVE  FeedsAreFree'
  <2>1. Bury(w) /\ UNCHANGED <<todo, reading>> /\ act' \in {Idle, Feed(spawned + 1)}
    BY <1>8 DEF PoolDiedReplaced, PoolDiedFatal, PoolDiedUnreplaced, Bury
  <2>2. DOMAIN inflight' = DOMAIN inflight \ {w}
    BY <2>1, BuryKinds
  <2>3. todo \subseteq 1 .. spawned
    BY <1>0 DEF ControlTypeOK
  <2> QED
    BY <1>0, <2>1, <2>2, <2>3 DEF FeedsAreFree
<1>9. CASE PoolCreate \/ PoolCreateFails \/ PoolFeedNothing \/ PoolWaitAtOnce \/ PoolWait
           \/ WaitTimer \/ PoolWaitReturns \/ PoolClose
  BY <1>1, <1>9 DEF PoolCreate, PoolCreateFails, PoolFeedNothing, PoolWaitAtOnce, PoolWait,
       WaitTimer, PoolWaitReturns, PoolClose, batchVars, controlVars
<1>10. ASSUME NEW w, WorkerReplies(w) \/ WorkerExits(w) \/ WorkerMisbehaves(w)
       PROVE  FeedsAreFree'
  BY <1>1, <1>10 DEF WorkerReplies, WorkerExits, WorkerMisbehaves, controlVars
<1>11. CASE UNCHANGED vars
  BY <1>1, <1>11 DEF vars, controlVars
<1> QED
  BY <1>0, <1>2, <1>3, <1>4, <1>5, <1>6, <1>7, <1>8, <1>9, <1>10, <1>11
  DEF Next, Handler, Script, Worker
------------------------------------------------------------------------------
(* No item is lost or duplicated when it moves.                            *)

\* From the head of the queue into flight.
LEMMA FeedConserves ==
  ASSUME PoolInv, NEW w \in 1 .. spawned, Feeds(w)
  PROVE  Conserved'
<1>1. pending \in Seq(Ids) /\ pending # <<>> /\ w \notin DOMAIN inflight
  BY DEF PoolInv, TypeOK, BatchTypeOK, FeedsAreFree, Feeds, TakeItem
<1>2. /\ Len(pending) \in Nat /\ Len(pending) > 0 /\ Len(pending') = Len(pending) - 1
      /\ \A k \in 1 .. Len(pending') : pending'[k] = pending[k + 1]
  BY <1>1, TakenOff DEF Feeds, TakeItem
<1>3. /\ DOMAIN inflight' = DOMAIN inflight \cup {w}
      /\ inflight'[w] = pending[1]
      /\ \A x \in DOMAIN inflight : inflight'[x] = inflight[x]
  BY <1>1, TakenOff DEF Feeds, TakeItem
<1>4. results' = results /\ submitted' = submitted
  BY DEF Feeds
<1>5. Conserved
  BY DEF PoolInv
<1>6. NoRepeats'
  BY <1>2, <1>3, <1>4, <1>5 DEF Conserved, NoRepeats, NoOverlap
<1>7. NoOverlap'
  BY <1>2, <1>3, <1>4, <1>5 DEF Conserved, NoRepeats, NoOverlap
<1>8. AllAccepted'
  <2>1. \A k \in 1 .. Len(pending) : k = 1 \/ (k - 1 \in 1 .. Len(pending') /\ pending'[k - 1] = pending[k])
    BY <1>2
  <2>2. ASSUME NEW i \in Ids
        PROVE  (\E k \in 1 .. Len(pending) : pending[k] = i)
                 <=> i = pending[1] \/ \E k \in 1 .. Len(pending') : pending'[k] = i
    BY <1>2, <2>1
  <2>3. ASSUME NEW i \in Ids
        PROVE  (\E x \in DOMAIN inflight' : inflight'[x] = i)
                 <=> i = pending[1] \/ \E x \in DOMAIN inflight : inflight[x] = i
    BY <1>1, <1>3
  <2> QED
    BY <1>4, <1>5, <2>2, <2>3 DEF Conserved, AllAccepted
<1> QED
  BY <1>6, <1>7, <1>8 DEF Conserved

\* From flight into the results: a reply, or poison.
LEMMA SettleConserves ==
  ASSUME PoolInv, NEW w \in DOMAIN inflight, NEW r \in Reply, r.id = inflight[w],
         results' = Append(results, r),
         inflight' = [x \in DOMAIN inflight \ {w} |-> inflight[x]],
         UNCHANGED <<pending, submitted>>
  PROVE  Conserved'
<1>1. results \in Seq(Reply)
  BY DEF PoolInv, TypeOK, BatchTypeOK
<1>2. /\ Len(results) \in Nat /\ Len(results') = Len(results) + 1
      /\ results'[Len(results) + 1] = r
      /\ \A k \in 1 .. Len(results) : results'[k] = results[k]
  BY <1>1, AppendProperties
<1>3. /\ DOMAIN inflight' = DOMAIN inflight \ {w}
      /\ \A x \in DOMAIN inflight' : inflight'[x] = inflight[x]
  OBVIOUS
<1>4. Conserved
  BY DEF PoolInv
<1>5. NoRepeats'
  BY <1>2, <1>3, <1>4 DEF Conserved, NoRepeats, NoOverlap
<1>6. NoOverlap'
  BY <1>2, <1>3, <1>4 DEF Conserved, NoRepeats, NoOverlap
<1>7. AllAccepted'
  BY <1>2, <1>3, <1>4 DEF Conserved, AllAccepted
<1> QED
  BY <1>5, <1>6, <1>7 DEF Conserved

\* From flight back to the head of the queue.
LEMMA RequeueConserves ==
  ASSUME PoolInv, NEW w \in DOMAIN inflight,
         pending' = <<inflight[w]>> \o pending,
         inflight' = [x \in DOMAIN inflight \ {w} |-> inflight[x]],
         UNCHANGED <<results, submitted>>
  PROVE  Conserved'
<1>1. pending \in Seq(Ids) /\ inflight[w] \in Ids
  BY DEF PoolInv, TypeOK, BatchTypeOK
<1>2. /\ Len(pending) \in Nat /\ Len(pending') = Len(pending) + 1
      /\ pending'[1] = inflight[w]
      /\ \A k \in 1 .. Len(pending) : pending'[k + 1] = pending[k]
      /\ \A k \in 2 .. Len(pending) + 1 : pending'[k] = pending[k - 1]
  BY <1>1, PutBack
<1>3. /\ DOMAIN inflight' = DOMAIN inflight \ {w}
      /\ \A x \in DOMAIN inflight' : inflight'[x] = inflight[x]
  OBVIOUS
<1>4. Conserved
  BY DEF PoolInv
<1>a. \A k \in 1 .. Len(pending') :
        k = 1 \/ (k - 1 \in 1 .. Len(pending) /\ pending'[k] = pending[k - 1])
  BY <1>2
<1>5. NoRepeats'
  <2>1. \A k, l \in 1 .. Len(pending') : pending'[k] = pending'[l] => k = l
    <3>1. \A k \in 1 .. Len(pending) : pending[k] # inflight[w]
      BY <1>4 DEF Conserved, NoOverlap
    <3>2. \A k, l \in 1 .. Len(pending) : pending[k] = pending[l] => k = l
      BY <1>4 DEF Conserved, NoRepeats
    <3>3. ASSUME NEW k \in 1 .. Len(pending'), NEW l \in 1 .. Len(pending'), pending'[k] = pending'[l]
          PROVE  k = l
      <4>1. CASE k = 1 \/ l = 1
        BY <1>2, <1>a, <3>1, <3>3, <4>1
      <4>2. CASE k # 1 /\ l # 1
        <5>1. k - 1 = l - 1
          BY <1>a, <3>2, <3>3, <4>2
        <5> QED
          BY <1>2, <5>1
      <4> QED
        BY <4>1, <4>2
    <3> QED
      BY <3>3
  <2> QED
    BY <1>3, <1>4, <2>1 DEF Conserved, NoRepeats
<1>6. NoOverlap'
  <2>1. \A k \in 1 .. Len(pending') : \A x \in DOMAIN inflight' : pending'[k] # inflight'[x]
    BY <1>2, <1>3, <1>a, <1>4 DEF Conserved, NoRepeats, NoOverlap
  <2>2. \A k \in 1 .. Len(pending') : \A l \in 1 .. Len(results) : pending'[k] # results[l].id
    BY <1>2, <1>3, <1>a, <1>4 DEF Conserved, NoOverlap
  <2> QED
    BY <1>3, <1>4, <2>1, <2>2 DEF Conserved, NoOverlap
<1>7. AllAccepted'
  BY <1>2, <1>3, <1>4 DEF Conserved, AllAccepted
<1> QED
  BY <1>5, <1>6, <1>7 DEF Conserved

\* A worker without an item leaves the queues alone.
LEMMA IdleDeathConserves ==
  ASSUME PoolInv, NEW w, w \notin DOMAIN inflight,
         inflight' = [x \in DOMAIN inflight \ {w} |-> inflight[x]],
         UNCHANGED <<pending, results, submitted>>
  PROVE  Conserved'
<1>1. /\ DOMAIN inflight' = DOMAIN inflight
      /\ \A x \in DOMAIN inflight : inflight'[x] = inflight[x]
  OBVIOUS
<1> QED
  BY <1>1 DEF PoolInv, Conserved, NoRepeats, NoOverlap, AllAccepted

\* Every step of the director keeps each accepted id in exactly one place: the queue, a
\* worker's hands or the results (PoolFeed, PoolReadable, PoolRequeue).
LEMMA ConservedStep == ASSUME PoolInv, [Next]_vars PROVE Conserved'
<1>1. ASSUME UNCHANGED <<pending, inflight, results, submitted>>
      PROVE  Conserved'
  BY <1>1 DEF PoolInv, Conserved, NoRepeats, NoOverlap, AllAccepted
<1>2. ASSUME NEW n \in 0 .. MaxItems, PoolSubmit(n)
      PROVE  Conserved'
  <2>1. DOMAIN inflight' = {} /\ Len(results') = 0 /\ submitted' = n
    BY <1>2 DEF PoolSubmit, PoolInv, BeforeBatch
  <2>2. Len(pending') = n /\ \A k \in 1 .. n : pending'[k] = k - 1
    BY <1>2, FreshQueue DEF PoolSubmit
  <2>3. NoRepeats' /\ NoOverlap'
    BY <2>1, <2>2 DEF NoRepeats, NoOverlap
  <2>4. \A i \in Ids : i < n <=> \E k \in 1 .. n : k - 1 = i
    <3>1. \A i \in Ids : i < n => i + 1 \in 1 .. n /\ (i + 1) - 1 = i
      OBVIOUS
    <3> QED
      BY <3>1
  <2>5. AllAccepted'
    BY <2>1, <2>2, <2>4 DEF AllAccepted
  <2> QED
    BY <2>3, <2>5 DEF Conserved
<1>3. ASSUME NEW w \in 1 .. spawned, ReadReply(w)
      PROVE  Conserved'
  BY <1>3, ReplyKind, SettleConserves
<1>4. ASSUME NEW w \in 1 .. spawned, Bury(w)
      PROVE  Conserved'
  <2>1. \A i \in Ids : Poison(i) \in Reply /\ Poison(i).id = i
    OBVIOUS
  <2>2. inflight' = [x \in DOMAIN inflight \ {w} |-> inflight[x]] /\ submitted' = submitted
    BY <1>4, BuryKinds
  <2>3. CASE w \notin DOMAIN inflight /\ UNCHANGED <<pending, results>>
    BY <2>2, <2>3, IdleDeathConserves
  <2>4. CASE w \in DOMAIN inflight /\ pending' = <<inflight[w]>> \o pending /\ results' = results
    BY <2>2, <2>4, RequeueConserves
  <2>5. CASE /\ w \in DOMAIN inflight /\ inflight[w] \in Ids /\ pending' = pending
             /\ results' = Append(results, Poison(inflight[w]))
    <3>1. Poison(inflight[w]) \in Reply /\ Poison(inflight[w]).id = inflight[w]
      BY <2>1, <2>5
    <3> QED
      BY <2>2, <2>5, <3>1, SettleConserves
  <2> QED
    BY <1>4, <2>3, <2>4, <2>5, BuryKinds
<1>5. ASSUME NEW w, PoolDiedReplaced(w) \/ PoolDiedFatal(w) \/ PoolDiedUnreplaced(w)
      PROVE  Bury(w)
  BY <1>5 DEF PoolDiedReplaced, PoolDiedFatal, PoolDiedUnreplaced
<1>6. CASE UNCHANGED <<poolVars, inflight>>
  BY <1>1, <1>6 DEF poolVars
<1>7. CASE PoolFeedNothing
  BY <1>1, <1>7 DEF PoolFeedNothing, batchVars
<1>8. ASSUME NEW w \in 1 .. spawned, ReadDrained(w)
      PROVE  Conserved'
  BY <1>1, <1>8 DEF ReadDrained, batchVars
<1> QED
  BY <1>2, <1>3, <1>4, <1>5, <1>6, <1>7, <1>8, FeedConserves, StepKinds
------------------------------------------------------------------------------
\* The invariant is inductive: no handler, call or worker step breaks it.
LEMMA PoolInvStep == PoolInv /\ [Next]_vars => PoolInv'
  BY BatchTypeStep, WaitTypeStep, WorkerTypeStep, ControlTypeStep, BeforeBatchStep,
     FeedsAreFreeStep, ConservedStep
  DEF PoolInv, TypeOK

\* Each variable of the director keeps its type in every reachable state.
THEOREM TypeCorrect == Spec => []TypeOK
<1>1. PoolInv => TypeOK
  BY DEF PoolInv
<1> QED
  BY <1>1, InitPoolInv, PoolInvStep, PTL DEF Spec

\* Position by position, conservation is what ExactlyOnce says.
LEMMA ConservedIsExactlyOnce == PoolInv => ExactlyOnce
<1> SUFFICES ASSUME PoolInv, NEW i \in Ids
             PROVE  IF i < submitted THEN \E p \in Places(i) : Places(i) = {p} ELSE Places(i) = {}
  BY DEF ExactlyOnce
<1>1. /\ DOMAIN pending = 1 .. Len(pending) /\ DOMAIN results = 1 .. Len(results)
      /\ NoRepeats /\ NoOverlap /\ AllAccepted
  BY DEF PoolInv, Conserved, TypeOK, BatchTypeOK
<1>2. ASSUME NEW p \in Places(i), NEW q \in Places(i)
      PROVE  p = q
  BY <1>1, <1>2 DEF Places, NoRepeats, NoOverlap
<1>3. i < submitted <=> Places(i) # {}
  <2>1. Places(i) # {} <=>
          \/ \E k \in 1 .. Len(pending) : pending[k] = i
          \/ \E w \in DOMAIN inflight : inflight[w] = i
          \/ \E l \in 1 .. Len(results) : results[l].id = i
    <3>1. ASSUME NEW k \in 1 .. Len(pending), pending[k] = i PROVE <<"pending", k>> \in Places(i)
      BY <1>1, <3>1 DEF Places
    <3>2. ASSUME NEW w \in DOMAIN inflight, inflight[w] = i PROVE <<"inflight", w>> \in Places(i)
      BY <3>2 DEF Places
    <3>3. ASSUME NEW l \in 1 .. Len(results), results[l].id = i PROVE <<"results", l>> \in Places(i)
      BY <1>1, <3>3 DEF Places
    <3>4. ASSUME NEW p \in Places(i)
          PROVE  \/ \E k \in 1 .. Len(pending) : pending[k] = i
                 \/ \E w \in DOMAIN inflight : inflight[w] = i
                 \/ \E l \in 1 .. Len(results) : results[l].id = i
      BY <1>1 DEF Places
    <3> QED
      BY <3>1, <3>2, <3>3, <3>4
  <2> QED
    BY <1>1, <2>1 DEF AllAccepted
<1> QED
  BY <1>2, <1>3

\* Every accepted item is in exactly one of the queue, a worker's hands and the
\* results, once, for every width, retry limit and batch: PoolReadable, PoolDied
\* and PoolRequeue neither lose an item nor answer it twice.
THEOREM ItemsConserved == Spec => []ExactlyOnce
  BY InitPoolInv, PoolInvStep, ConservedIsExactlyOnce, PTL DEF Spec
------------------------------------------------------------------------------
(* The retry account. A replacement costs a lost try, but not always the try *)
(* that was lost last: a launch that fails leaves an item queued beside idle  *)
(* workers, whose deaths are then replaced at no cost. Launches keeps that    *)
(* credit.                                                                   *)

\* Workers that have nothing to do and are not about to be fed.
IdleWorkers == {w \in workers \ (DOMAIN inflight \cup todo) : act # Feed(w)}

\* Items that the next feed leaves in the queue.
Unfed == Len(pending) - (IF act.op = "feed" THEN 1 ELSE 0)

Launches ==
  /\ spawned <= Width + Cardinality(LostTries)
  /\ IdleWorkers # {} => spawned + Unfed <= Width + Cardinality(LostTries)

\* PoolFeed and PoolDied are called for a worker that is open.
CallsConcernOpenWorkers ==
  /\ todo \subseteq workers
  /\ act.op # "none" => act.w \in workers \ todo

TriesAreCounted ==
  /\ \A i \in Ids : tries[i] <= MaxTries
  /\ \A i \in Ids : tries[i] = MaxTries <=> Poison(i) \in IdsOf(results)
  /\ \A i \in Ids : tries[i] > 0 => i < submitted
  /\ requeued + Cardinality(Poisoned) = Cardinality(LostTries)

WorkersAreCounted ==
  /\ phase = "none" => dead = 0
  /\ phase \in {"open", "submitted"} => spawned = Cardinality(workers) + dead

RetryInv == CallsConcernOpenWorkers /\ TriesAreCounted /\ Launches /\ WorkersAreCounted

\* There are finitely many tries to lose.
LEMMA LostTriesFinite ==
  /\ IsFiniteSet(LostTries) /\ Cardinality(LostTries) \in Nat
  /\ IsFiniteSet(LostTries') /\ Cardinality(LostTries') \in Nat
<1>1. IsFiniteSet(Ids) /\ IsFiniteSet(1 .. MaxTries)
  BY FS_Interval
<1>2. IsFiniteSet(Ids \X (1 .. MaxTries))
  BY <1>1, FS_Product
<1>3. LostTries \subseteq Ids \X (1 .. MaxTries) /\ LostTries' \subseteq Ids \X (1 .. MaxTries)
  BY DEF LostTries
<1>4. IsFiniteSet(LostTries) /\ IsFiniteSet(LostTries')
  BY <1>2, <1>3, FS_Subset
<1> QED
  BY <1>4, FS_CardinalityType

\* The tries of a batch of n items.
LEMMA LostTriesBounded ==
  ASSUME submitted \in 0 .. MaxItems, tries \in [Ids -> Nat],
         \A i \in Ids : tries[i] > 0 => i < submitted
  PROVE  Cardinality(LostTries) <= MaxTries * submitted
<1> DEFINE all == (0 .. submitted - 1) \X (1 .. MaxTries)
<1>1. /\ submitted \in Nat /\ submitted - 1 \in Int /\ MaxTries \in Int /\ 0 \in Int /\ 1 \in Int
      /\ (0 > submitted - 1 => submitted = 0) /\ submitted - 1 - 0 + 1 = submitted
      /\ ~(1 > MaxTries) /\ MaxTries - 1 + 1 = MaxTries
  OBVIOUS
<1>2. IsFiniteSet(0 .. submitted - 1) /\ Cardinality(0 .. submitted - 1) = submitted
  BY <1>1, FS_Interval
<1>3. IsFiniteSet(1 .. MaxTries) /\ Cardinality(1 .. MaxTries) = MaxTries
  BY <1>1, FS_Interval
<1>4. IsFiniteSet(all) /\ Cardinality(all) = submitted * MaxTries
  <2>1. Cardinality(all) = Cardinality(0 .. submitted - 1) * Cardinality(1 .. MaxTries)
    BY <1>2, <1>3, FS_Product
  <2>2. IsFiniteSet(all)
    BY <1>2, <1>3, FS_Product
  <2> QED
    BY <1>2, <1>3, <2>1, <2>2
<1>5. LostTries \subseteq all
  BY DEF LostTries
<1>6. Cardinality(LostTries) <= Cardinality(all)
  BY <1>4, <1>5, FS_Subset
<1>7. submitted * MaxTries = MaxTries * submitted
  OBVIOUS
<1> QED
  BY <1>4, <1>6, <1>7

\* A try more.
LEMMA TryLost ==
  ASSUME tries \in [Ids -> Nat], NEW i \in Ids, tries[i] < MaxTries,
         tries' = [tries EXCEPT ![i] = @ + 1]
  PROVE  Cardinality(LostTries') = Cardinality(LostTries) + 1
<1> DEFINE t == <<i, tries[i] + 1>>
<1>1. t \in Ids \X (1 .. MaxTries) /\ t \notin LostTries /\ t[1] = i /\ t[2] = tries[i] + 1
  BY DEF LostTries
<1>2. ASSUME NEW u \in Ids \X (1 .. MaxTries)
      PROVE  u \in LostTries' <=> u \in LostTries \/ u = t
  BY <1>1, <1>2 DEF LostTries
<1>3. LostTries' \subseteq Ids \X (1 .. MaxTries) /\ LostTries \subseteq Ids \X (1 .. MaxTries)
  BY DEF LostTries
<1>4. LostTries' = LostTries \cup {t}
  BY <1>1, <1>2, <1>3
<1> HIDE DEF t
<1> QED
  BY <1>1, <1>4, LostTriesFinite, FS_AddElement

\* There are finitely many poison replies.
LEMMA PoisonedFinite ==
  ASSUME results \in Seq(Reply)
  PROVE  IsFiniteSet(Poisoned) /\ Cardinality(Poisoned) \in Nat
<1>1. Len(results) \in Nat /\ DOMAIN results = 1 .. Len(results)
  OBVIOUS
<1>2. IsFiniteSet(1 .. Len(results)) /\ Poisoned \subseteq 1 .. Len(results)
  BY <1>1, FS_Interval DEF Poisoned
<1>3. IsFiniteSet(Poisoned)
  BY <1>2, FS_Subset
<1> QED
  BY <1>3, FS_CardinalityType

\* A result more.
LEMMA ResultAdded ==
  ASSUME results \in Seq(Reply), NEW r \in Reply, results' = Append(results, r)
  PROVE  /\ IdsOf(results') = IdsOf(results) \cup {r}
         /\ Cardinality(Poisoned) \in Nat
         /\ Cardinality(Poisoned')
              = Cardinality(Poisoned) + (IF r.by = "poison" THEN 1 ELSE 0)
<1> DEFINE n == Len(results)
<1>1. /\ n \in Nat /\ DOMAIN results = 1 .. n /\ DOMAIN results' = 1 .. n + 1
      /\ \A k \in 1 .. n : results'[k] = results[k]
      /\ results'[n + 1] = r
  BY AppendProperties
<1> HIDE DEF n
<1>2. \A k \in 1 .. n + 1 : k \in 1 .. n \/ k = n + 1
  BY <1>1
<1>0. n + 1 \in 1 .. n + 1 /\ n + 1 \notin 1 .. n /\ \A k \in 1 .. n : k \in 1 .. n + 1
  BY <1>1
<1>3. IdsOf(results') = IdsOf(results) \cup {r}
  BY <1>0, <1>1, <1>2 DEF IdsOf
<1>4. Poisoned \subseteq 1 .. n
  BY <1>1 DEF Poisoned
<1>5. IsFiniteSet(Poisoned) /\ Cardinality(Poisoned) \in Nat /\ n + 1 \notin Poisoned
  BY <1>0, <1>4, PoisonedFinite
<1>6. CASE r.by = "poison"
  <2>1. Poisoned' = Poisoned \cup {n + 1}
    BY <1>1, <1>2, <1>0, <1>6 DEF Poisoned
  <2> QED
    BY <1>3, <1>5, <1>6, <2>1, FS_AddElement
<1>7. CASE r.by # "poison"
  <2>1. Poisoned' = Poisoned
    BY <1>1, <1>2, <1>0, <1>7 DEF Poisoned
  <2> QED
    BY <1>3, <1>5, <1>7, <2>1
<1> QED
  BY <1>6, <1>7

\* An item that a worker has in its hands has a try left: it is not among the results.
LEMMA InflightHasATry ==
  ASSUME PoolInv, TriesAreCounted, NEW w \in DOMAIN inflight
  PROVE  /\ inflight[w] \in Ids /\ inflight[w] < submitted /\ tries[inflight[w]] < MaxTries
         /\ Poison(inflight[w]) \notin IdsOf(results)
<1>1. /\ inflight[w] \in Ids /\ tries[inflight[w]] \in Nat
      /\ \A l \in 1 .. Len(results) : inflight[w] # results[l].id
      /\ inflight[w] < submitted
      /\ results \in Seq(Reply)
  BY DEF PoolInv, TypeOK, BatchTypeOK, Conserved, NoOverlap, AllAccepted
<1>2. DOMAIN results = 1 .. Len(results)
  BY <1>1
<1>3. Poison(inflight[w]) \notin IdsOf(results)
  BY <1>1, <1>2 DEF IdsOf
<1> QED
  BY <1>1, <1>3 DEF TriesAreCounted

\* What PoolDied does to the account: nothing for a worker without an item, else one
\* try more, which is one requeue or one poison reply more.
LEMMA BuryAccount ==
  ASSUME PoolInv, TriesAreCounted, NEW w \in 1 .. spawned, Bury(w)
  PROVE  /\ TriesAreCounted'
         /\ DOMAIN inflight' = DOMAIN inflight \ {w}
         /\ \/ /\ w \notin DOMAIN inflight /\ pending' = pending
               /\ Cardinality(LostTries') = Cardinality(LostTries)
            \/ /\ w \in DOMAIN inflight /\ Len(pending') \in {Len(pending), Len(pending) + 1}
               /\ Cardinality(LostTries') = Cardinality(LostTries) + 1
<1>1. /\ tries \in [Ids -> Nat] /\ results \in Seq(Reply) /\ pending \in Seq(Ids) /\ requeued \in Nat
      /\ submitted \in 0 .. MaxItems
  BY DEF PoolInv, TypeOK, BatchTypeOK
<1>2. DOMAIN inflight' = DOMAIN inflight \ {w} /\ submitted' = submitted
  BY BuryKinds
<1>3. CASE w \notin DOMAIN inflight
  <2>1. UNCHANGED <<pending, results, tries, requeued>>
    BY <1>3, BuryKinds
  <2>2. TriesAreCounted' /\ LostTries' = LostTries
    BY <1>2, <2>1 DEF TriesAreCounted, IdsOf, Poisoned, LostTries
  <2> QED
    BY <1>2, <1>3, <2>1, <2>2
<1>4. CASE w \in DOMAIN inflight
  <2> DEFINE i == inflight[w]
  <2>1. /\ i \in Ids /\ i < submitted /\ tries[i] < MaxTries /\ tries[i] \in Nat
        /\ Poison(i) \notin IdsOf(results)
    BY <1>1, <1>4, InflightHasATry
  <2>2. /\ tries' = [tries EXCEPT ![i] = @ + 1]
        /\ \/ pending' = <<i>> \o pending /\ requeued' = requeued + 1 /\ results' = results
           \/ results' = Append(results, Poison(i)) /\ UNCHANGED <<pending, requeued>>
    BY <1>4, BuryKinds
  <2>3. tries' [i] < MaxTries => results' = results
    BY <1>4 DEF Bury, PoolRequeue
  <2>4. results' = results => tries'[i] < MaxTries
    <3>1. ASSUME results' = Append(results, Poison(i)) PROVE results' # results
      BY <1>1, <2>1, <3>1, AppendProperties
    <3> QED
      BY <1>4, <3>1 DEF Bury, PoolRequeue
  <2> HIDE DEF i
  <2>5. Cardinality(LostTries') = Cardinality(LostTries) + 1
    BY <1>1, <2>1, <2>2, TryLost
  <2>6. /\ tries'[i] = tries[i] + 1 /\ tries'[i] <= MaxTries
        /\ \A j \in Ids \ {i} : tries'[j] = tries[j]
        /\ DOMAIN tries' = Ids
    BY <1>1, <2>1, <2>2
  <2>7. Cardinality(LostTries) \in Nat
    BY LostTriesFinite
  <2>8. CASE results' = results
    <3>1. pending' = <<i>> \o pending /\ requeued' = requeued + 1
      BY <1>1, <2>1, <2>2, <2>8, AppendProperties
    <3>2. Len(pending') = Len(pending) + 1
      BY <1>1, <2>1, <3>1, PutBack
    <3>3. tries'[i] # MaxTries
      BY <2>1, <2>4, <2>6, <2>8
    <3>4. Poisoned' = Poisoned /\ IdsOf(results') = IdsOf(results)
      BY <2>8 DEF Poisoned, IdsOf
    <3>5. \A j \in Ids : tries'[j] = MaxTries <=> Poison(j) \in IdsOf(results)
      BY <2>1, <2>6, <3>3 DEF TriesAreCounted
    <3>6. \A j \in Ids : tries'[j] <= MaxTries /\ (tries'[j] > 0 => j < submitted)
      BY <2>1, <2>6 DEF TriesAreCounted
    <3>7. Cardinality(Poisoned) \in Nat
      BY <1>1, PoisonedFinite
    <3>8. requeued' + Cardinality(Poisoned') = Cardinality(LostTries')
      BY <1>1, <2>5, <2>7, <3>1, <3>4, <3>7 DEF TriesAreCounted
    <3> QED
      BY <1>2, <1>4, <2>5, <3>1, <3>2, <3>4, <3>5, <3>6, <3>8 DEF TriesAreCounted
  <2>9. CASE results' # results
    <3>1. results' = Append(results, Poison(i)) /\ UNCHANGED <<pending, requeued>>
      BY <2>2, <2>9
    <3>2. Poison(i) \in Reply /\ Poison(i).by = "poison"
      BY <2>1
    <3>3. /\ IdsOf(results') = IdsOf(results) \cup {Poison(i)}
          /\ Cardinality(Poisoned) \in Nat /\ Cardinality(Poisoned') = Cardinality(Poisoned) + 1
      BY <1>1, <3>1, <3>2, ResultAdded
    <3>4. tries'[i] = MaxTries
      BY <2>1, <2>3, <2>6, <2>9
    <3>5. \A j \in Ids : Poison(j) = Poison(i) => j = i
      OBVIOUS
    <3>6. \A j \in Ids : tries'[j] = MaxTries <=> Poison(j) \in IdsOf(results')
      BY <2>6, <3>3, <3>4, <3>5 DEF TriesAreCounted
    <3>7. \A j \in Ids : tries'[j] <= MaxTries /\ (tries'[j] > 0 => j < submitted)
      BY <2>1, <2>6 DEF TriesAreCounted
    <3>8. requeued' + Cardinality(Poisoned') = Cardinality(LostTries')
      BY <1>1, <2>5, <2>7, <3>1, <3>3 DEF TriesAreCounted
    <3> QED
      BY <1>2, <1>4, <2>5, <3>1, <3>6, <3>7, <3>8 DEF TriesAreCounted
  <2> QED
    BY <2>8, <2>9
<1> QED
  BY <1>3, <1>4

\* The token as PoolCreate makes it: no worker, no try lost.
LEMMA InitRetryInv == Init => RetryInv
<1> HAVE Init
<1>1. /\ workers = {} /\ todo = {} /\ act = Idle /\ spawned = 0 /\ results = <<>>
      /\ tries = [i \in Ids |-> 0] /\ requeued = 0 /\ phase = "none" /\ pending = <<>>
  BY DEF Init
<1>2. LostTries = {} /\ Poisoned = {} /\ IdsOf(results) = {}
  BY <1>1 DEF LostTries, Poisoned, IdsOf
<1>3. Cardinality(LostTries) = 0 /\ Cardinality(Poisoned) = 0
  BY <1>2, FS_EmptySet
<1>4. TriesAreCounted
  BY <1>1, <1>2, <1>3 DEF TriesAreCounted
<1>5. Launches /\ CallsConcernOpenWorkers /\ WorkersAreCounted
  BY <1>1, <1>3 DEF Init, Launches, IdleWorkers, CallsConcernOpenWorkers, WorkersAreCounted
<1> QED
  BY <1>4, <1>5 DEF RetryInv

\* PoolDied's three outcomes.
Buries(w) == PoolDiedReplaced(w) \/ PoolDiedFatal(w) \/ PoolDiedUnreplaced(w)

\* A try is counted where it is lost, whatever handler is running.
LEMMA TriesAreCountedStep == ASSUME PoolInv, RetryInv, [Next]_vars PROVE TriesAreCounted'
<1>0. TriesAreCounted /\ results \in Seq(Reply)
  BY DEF RetryInv, PoolInv, TypeOK, BatchTypeOK
<1>1. ASSUME UNCHANGED <<tries, results, requeued, submitted>> PROVE TriesAreCounted'
  BY <1>0, <1>1 DEF TriesAreCounted, IdsOf, Poisoned, LostTries
<1>2. CASE UNCHANGED <<poolVars, inflight>>
  BY <1>1, <1>2 DEF poolVars
<1>3. ASSUME NEW n \in 0 .. MaxItems, PoolSubmit(n) PROVE TriesAreCounted'
  <2>1. submitted = 0 /\ n >= 0
    BY <1>3 DEF PoolSubmit, PoolInv, BeforeBatch
  <2>2. UNCHANGED <<tries, results, requeued>> /\ submitted' = n
    BY <1>3 DEF PoolSubmit
  <2>3. \A i \in Ids : tries[i] > 0 => i < submitted
    BY <1>0 DEF TriesAreCounted
  <2>4. \A i \in Ids : tries[i] > 0 => i < n
    BY <2>1, <2>3
  <2> QED
    BY <1>0, <2>2, <2>4 DEF TriesAreCounted, IdsOf, Poisoned, LostTries
<1>4. CASE PoolFeedNothing
  BY <1>1, <1>4 DEF PoolFeedNothing, batchVars
<1>5. ASSUME NEW w \in 1 .. spawned, ReadDrained(w) \/ Feeds(w) PROVE TriesAreCounted'
  BY <1>1, <1>5 DEF ReadDrained, Feeds, batchVars
<1>6. ASSUME NEW w \in 1 .. spawned, ReadReply(w) PROVE TriesAreCounted'
  <2> DEFINE r == [id |-> inflight[w], by |-> "worker"]
  <2>1. results' = Append(results, r) /\ r \in Reply /\ UNCHANGED <<tries, requeued, submitted>>
    BY <1>6, ReplyKind
  <2>2. r.by # "poison" /\ \A i : Poison(i) # r
    OBVIOUS
  <2> HIDE DEF r
  <2>3. IdsOf(results') = IdsOf(results) \cup {r} /\ Cardinality(Poisoned') = Cardinality(Poisoned)
    BY <1>0, <2>1, <2>2, ResultAdded
  <2>4. LostTries' = LostTries
    BY <2>1 DEF LostTries
  <2> QED
    BY <1>0, <2>1, <2>2, <2>3, <2>4 DEF TriesAreCounted
<1>7. ASSUME NEW w \in 1 .. spawned, Buries(w) PROVE TriesAreCounted'
  <2>1. Bury(w)
    BY <1>7 DEF Buries, PoolDiedReplaced, PoolDiedFatal, PoolDiedUnreplaced
  <2> QED
    BY <1>0, <2>1, BuryAccount
<1> QED
  BY <1>2, <1>3, <1>4, <1>5, <1>6, <1>7, StepKinds DEF Buries

\* Who is left when PoolDied has closed w and launched the workers new.
LEMMA BuriedWorkers ==
  ASSUME PoolInv, RetryInv, NEW w \in 1 .. spawned, Buries(w)
  PROVE  /\ Bury(w) /\ w \in workers \ todo /\ todo' = todo /\ phase' = phase
         /\ dead' = dead + 1 /\ act = Died(w)
         /\ \/ /\ workers' = (workers \ {w}) \cup {spawned + 1} /\ spawned' = spawned + 1
               /\ act' = Feed(spawned + 1) /\ pending' # <<>>
            \/ /\ workers' = workers \ {w} /\ spawned' = spawned /\ act' = Idle
<1>1. Bury(w)
  BY DEF Buries, PoolDiedReplaced, PoolDiedFatal, PoolDiedUnreplaced
<1>2. act = Died(w) /\ todo' = todo /\ phase' = phase /\ dead' = dead + 1
  BY <1>1 DEF Bury
<1>3. w \in workers \ todo
  BY <1>2 DEF RetryInv, CallsConcernOpenWorkers
<1>4. CASE PoolDiedReplaced(w)
  <2>1. workers' = (workers \ {w}) \cup {spawned + 1} /\ spawned' = spawned + 1
    BY <1>4 DEF PoolDiedReplaced, Replace
  <2>2. act' = Feed(spawned + 1) /\ pending' # <<>>
    BY <1>4 DEF PoolDiedReplaced
  <2> QED
    BY <1>1, <1>2, <1>3, <2>1, <2>2
<1>5. CASE PoolDiedFatal(w) \/ PoolDiedUnreplaced(w)
  <2>1. workers' = (workers \ {w}) /\ spawned' = spawned /\ act' = Idle
    BY <1>5 DEF PoolDiedFatal, PoolDiedUnreplaced, Replace
  <2> QED
    BY <1>1, <1>2, <1>3, <2>1
<1> QED
  BY <1>4, <1>5 DEF Buries

\* The steps again, by what they do to the workers and to the call the director is in.
LEMMA WorkerSteps ==
  ASSUME [Next]_vars
  PROVE  \/ PoolCreate \/ PoolCreateFails \/ PoolClose
         \/ \E n \in 0 .. MaxItems : PoolSubmit(n)
         \/ /\ UNCHANGED <<phase, workers, spawned, dead, tries>>
            /\ \/ UNCHANGED <<act, todo, pending, inflight>>
               \/ SubmitFeedsNext \/ PoolFeedNothing
               \/ \E w \in 1 .. spawned : PoolFeed(w) \/ PoolFeedFails(w) \/ ReadReply(w) \/ ReadTrouble(w)
         \/ \E w \in 1 .. spawned : Buries(w)
<1>1. CASE UNCHANGED vars
  BY <1>1 DEF vars, poolVars, controlVars
<1>2. CASE PoolWaitAtOnce \/ PoolWait \/ WaitTimer \/ PoolWaitReturns
  BY <1>2 DEF PoolWaitAtOnce, PoolWait, WaitTimer, PoolWaitReturns, poolVars, controlVars
<1>3. ASSUME NEW w, PoolReadable(w) \/ ReadDrained(w) \/ ReadClosed(w)
                    \/ WorkerReplies(w) \/ WorkerExits(w) \/ WorkerMisbehaves(w)
      PROVE  UNCHANGED <<phase, workers, spawned, dead, tries, act, todo, pending, inflight>>
  BY <1>3 DEF PoolReadable, ReadDrained, ReadClosed, WorkerReplies, WorkerExits, WorkerMisbehaves,
       poolVars, batchVars, controlVars
<1>4. CASE SubmitFeedsNext \/ PoolFeedNothing
  BY <1>4 DEF SubmitFeedsNext, PoolFeedNothing, poolVars, batchVars
<1>5. ASSUME NEW w, PoolFeed(w) \/ PoolFeedFails(w) \/ ReadReply(w) \/ ReadTrouble(w)
      PROVE  UNCHANGED <<phase, workers, spawned, dead, tries>>
  BY <1>5 DEF PoolFeed, PoolFeedFails, ReadReply, ReadTrouble, poolVars
<1> QED
  BY <1>1, <1>2, <1>3, <1>4, <1>5 DEF Next, Handler, Script, Worker, Buries

\* The director's next call always concerns a worker that is open.
LEMMA CallsStep == ASSUME PoolInv, RetryInv, [Next]_vars PROVE CallsConcernOpenWorkers'
<1>0. /\ todo \subseteq workers /\ (act.op # "none" => act.w \in workers \ todo)
      /\ workers \subseteq 1 .. spawned /\ spawned \in Nat
      /\ (phase = "none" => spawned = 0)
  BY DEF RetryInv, CallsConcernOpenWorkers, PoolInv, TypeOK, WorkerTypeOK, BeforeBatch
<1>1. CASE UNCHANGED <<act, todo, workers>>
  BY <1>0, <1>1 DEF CallsConcernOpenWorkers
<1>2. CASE PoolCreate \/ PoolCreateFails
  <2>1. phase = "none" /\ UNCHANGED <<todo, act>>
    BY <1>2 DEF PoolCreate, PoolCreateFails, controlVars
  <2>2. workers = {}
    BY <1>0, <2>1
  <2> QED
    BY <1>0, <2>1, <2>2 DEF CallsConcernOpenWorkers
<1>3. CASE PoolClose
  <2>1. act' = Idle /\ todo' = {}
    BY <1>3 DEF PoolClose, Quiet, controlVars
  <2> QED
    BY <2>1 DEF CallsConcernOpenWorkers
<1>8. ASSUME NEW n \in 0 .. MaxItems, PoolSubmit(n) PROVE CallsConcernOpenWorkers'
  <2>1. act' = Idle /\ todo' = workers /\ workers' = workers
    BY <1>8 DEF PoolSubmit, Quiet
  <2> QED
    BY <2>1 DEF CallsConcernOpenWorkers
<1>4. CASE SubmitFeedsNext
  <2>1. PICK w \in todo : act' = Feed(w) /\ todo' = todo \ {w}
    BY <1>4 DEF SubmitFeedsNext, Earliest
  <2> QED
    BY <1>0, <1>4, <2>1 DEF SubmitFeedsNext, CallsConcernOpenWorkers
<1>5. CASE PoolFeedNothing
  BY <1>0, <1>5 DEF PoolFeedNothing, CallsConcernOpenWorkers
<1>6. ASSUME NEW w \in 1 .. spawned, PoolFeed(w) \/ PoolFeedFails(w) \/ ReadReply(w) \/ ReadTrouble(w)
      PROVE  CallsConcernOpenWorkers'
  <2>1. UNCHANGED <<todo, workers>> /\ act' \in {Idle, Feed(w), Died(w)}
    BY <1>6 DEF PoolFeed, PoolFeedFails, ReadReply, ReadTrouble
  <2>2. CASE PoolFeed(w)
    BY <1>0, <2>1, <2>2 DEF PoolFeed, CallsConcernOpenWorkers
  <2>3. CASE PoolFeedFails(w)
    BY <1>0, <2>1, <2>3 DEF PoolFeedFails, CallsConcernOpenWorkers
  <2>4. CASE ReadReply(w) \/ ReadTrouble(w)
    <3>1. w \in workers /\ reading # NoWorker
      BY <2>4 DEF ReadReply, ReadTrouble, InLoop
    <3>2. todo = {}
      BY <3>1 DEF PoolInv, FeedsAreFree
    <3> QED
      BY <2>1, <3>1, <3>2 DEF CallsConcernOpenWorkers
  <2> QED
    BY <1>6, <2>2, <2>3, <2>4
<1>7. ASSUME NEW w \in 1 .. spawned, Buries(w) PROVE CallsConcernOpenWorkers'
  <2>1. CASE /\ workers' = (workers \ {w}) \cup {spawned + 1} /\ todo' = todo /\ w \notin todo
             /\ act' = Feed(spawned + 1)
    BY <1>0, <2>1 DEF CallsConcernOpenWorkers
  <2>2. CASE workers' = workers \ {w} /\ todo' = todo /\ w \notin todo /\ act' = Idle
    BY <1>0, <2>2 DEF CallsConcernOpenWorkers
  <2> QED
    BY <1>7, <2>1, <2>2, BuriedWorkers
<1> QED
  BY <1>1, <1>2, <1>3, <1>4, <1>5, <1>6, <1>7, <1>8, WorkerSteps

\* Every launch is an open worker or a death that was counted.
LEMMA WorkersAreCountedStep == ASSUME PoolInv, RetryInv, [Next]_vars PROVE WorkersAreCounted'
<1>0. /\ workers \subseteq 1 .. spawned /\ spawned \in Nat /\ dead \in Nat
      /\ (phase = "none" => spawned = 0) /\ WorkersAreCounted
  BY DEF RetryInv, PoolInv, TypeOK, WorkerTypeOK, BatchTypeOK, BeforeBatch
<1>1. IsFiniteSet(workers) /\ Cardinality(workers) \in Nat
  <2>1. IsFiniteSet(1 .. spawned)
    BY <1>0, FS_Interval
  <2>2. IsFiniteSet(workers)
    BY <1>0, <2>1, FS_Subset
  <2> QED
    BY <2>2, FS_CardinalityType
<1>2. CASE UNCHANGED <<phase, workers, spawned, dead>>
  BY <1>0, <1>2 DEF WorkersAreCounted
<1>3. CASE PoolCreate
  <2>1. workers' = 1 .. Width /\ spawned' = Width /\ dead' = dead
    BY <1>3 DEF PoolCreate, poolVars
  <2>2. Cardinality(1 .. Width) = Width
    BY FS_Interval
  <2>3. dead = 0
    BY <1>0, <1>3 DEF PoolCreate, WorkersAreCounted
  <2> QED
    BY <2>1, <2>2, <2>3 DEF WorkersAreCounted
<1>4. CASE PoolCreateFails \/ PoolClose
  BY <1>4 DEF PoolCreateFails, PoolClose, WorkersAreCounted
<1>5. ASSUME NEW n \in 0 .. MaxItems, PoolSubmit(n) PROVE WorkersAreCounted'
  BY <1>0, <1>5 DEF PoolSubmit, WorkersAreCounted
<1>6. ASSUME NEW w \in 1 .. spawned, Buries(w) PROVE WorkersAreCounted'
  <2>1. /\ w \in workers /\ phase' = phase /\ dead' = dead + 1
        /\ \/ workers' = (workers \ {w}) \cup {spawned + 1} /\ spawned' = spawned + 1
           \/ workers' = workers \ {w} /\ spawned' = spawned
    BY <1>6, BuriedWorkers
  <2>2. IsFiniteSet(workers \ {w}) /\ Cardinality(workers \ {w}) = Cardinality(workers) - 1
    BY <1>1, <2>1, FS_RemoveElement
  <2>3. spawned + 1 \notin workers \ {w}
    BY <1>0
  <2>4. Cardinality((workers \ {w}) \cup {spawned + 1}) = Cardinality(workers \ {w}) + 1
    BY <2>2, <2>3, FS_AddElement
  <2>5. phase # "none"
    BY <1>0, <2>1
  <2>6. phase \in {"open", "submitted"} => spawned = Cardinality(workers) + dead
    BY <1>0 DEF WorkersAreCounted
  <2>7. spawned \in Nat /\ dead \in Nat /\ Cardinality(workers) \in Nat
    BY <1>0, <1>1
  <2>8. \/ Cardinality(workers') = Cardinality(workers) /\ spawned' = spawned + 1
        \/ Cardinality(workers') = Cardinality(workers) - 1 /\ spawned' = spawned
    <3>1. Cardinality(workers \ {w}) + 1 = Cardinality(workers)
      BY <2>2, <2>7
    <3> QED
      BY <2>1, <2>2, <2>4, <3>1
  <2>9. phase' = phase /\ dead' = dead + 1
    BY <2>1
  <2>10. phase \in {"open", "submitted"} => spawned' = Cardinality(workers') + dead'
    BY <2>6, <2>7, <2>8, <2>9
  <2> QED
    BY <2>5, <2>9, <2>10 DEF WorkersAreCounted
<1> QED
  BY <1>2, <1>3, <1>4, <1>5, <1>6, WorkerSteps

\* A launch that is not paid for by the last lost try is paid for by an earlier one.
LEMMA LaunchesStep == ASSUME PoolInv, RetryInv, [Next]_vars PROVE Launches'
<1> DEFINE lost == Cardinality(LostTries)
<1>0. /\ spawned \in Nat /\ workers \subseteq 1 .. spawned /\ pending \in Seq(Ids)
      /\ spawned <= Width + lost
      /\ (IdleWorkers # {} => spawned + Unfed <= Width + lost)
      /\ (phase = "none" => spawned = 0)
      /\ TriesAreCounted
  BY DEF RetryInv, Launches, PoolInv, TypeOK, WorkerTypeOK, BatchTypeOK, BeforeBatch
<1>1. lost \in Nat /\ Len(pending) \in Nat
  BY <1>0, LostTriesFinite
<1>2. ASSUME UNCHANGED <<spawned, tries>>, IdleWorkers' \subseteq IdleWorkers, Unfed' <= Unfed,
             Unfed' \in Int, Unfed \in Int
      PROVE  Launches'
  <2>1. Cardinality(LostTries') = lost
    BY <1>2 DEF LostTries
  <2> HIDE DEF lost
  <2>2. spawned' <= Width + lost
    BY <1>0, <1>2
  <2>3. /\ spawned \in Nat /\ lost \in Nat /\ spawned' = spawned /\ Unfed' \in Int /\ Unfed \in Int
        /\ Unfed' <= Unfed
    BY <1>0, <1>1, <1>2
  <2>4. IdleWorkers' # {} => spawned + Unfed <= Width + lost
    BY <1>0, <1>2
  <2>5. IdleWorkers' # {} => spawned' + Unfed' <= Width + lost
    <3>1. PICK u : u = Unfed'
      OBVIOUS
    <3>2. u \in Int /\ u <= Unfed
      BY <2>3, <3>1
    <3>3. IdleWorkers' # {} => spawned + u <= Width + lost
      BY <2>3, <2>4, <3>2
    <3> QED
      BY <2>3, <3>1, <3>3
  <2> QED
    BY <2>1, <2>2, <2>5 DEF Launches
<1>3. CASE UNCHANGED <<spawned, tries, workers, act, todo, pending, inflight>>
  <2>1. IdleWorkers' = IdleWorkers /\ Unfed' = Unfed /\ Unfed \in Int
    BY <1>1, <1>3 DEF IdleWorkers, Unfed
  <2> QED
    BY <1>2, <1>3, <2>1
<1>4. CASE PoolCreate
  <2>1. /\ spawned' = Width /\ tries' = tries /\ pending' = pending /\ act' = act /\ pending = <<>>
        /\ act.op # "feed"
    BY <1>4 DEF PoolCreate, poolVars, controlVars, PoolInv, BeforeBatch
  <2>2. Unfed' = 0 /\ Cardinality(LostTries') = lost
    BY <2>1 DEF Unfed, LostTries
  <2> HIDE DEF lost
  <2> QED
    BY <1>1, <2>1, <2>2 DEF Launches
<1>5. CASE PoolCreateFails \/ PoolClose
  <2>1. /\ tries' = tries /\ spawned' \in Nat /\ (spawned' = spawned \/ spawned' <= Width)
        /\ workers' \in {{}, workers} /\ (workers' = {} \/ phase = "none")
    BY <1>0, <1>5 DEF PoolCreateFails, PoolClose, poolVars
  <2>2. IdleWorkers' = {} /\ Cardinality(LostTries') = lost
    <3>1. phase = "none" => workers = {}
      BY <1>0
    <3>2. workers' = {}
      BY <2>1, <3>1
    <3> QED
      BY <2>1, <3>2 DEF IdleWorkers, LostTries
  <2> HIDE DEF lost
  <2> QED
    BY <1>0, <1>1, <2>1, <2>2 DEF Launches
<1>6. ASSUME NEW n \in 0 .. MaxItems, PoolSubmit(n) PROVE Launches'
  <2>1. todo' = workers' /\ UNCHANGED <<spawned, tries>>
    BY <1>6 DEF PoolSubmit
  <2>2. IdleWorkers' = {} /\ Cardinality(LostTries') = lost
    BY <2>1 DEF IdleWorkers, LostTries
  <2> HIDE DEF lost
  <2> QED
    BY <1>0, <2>1, <2>2 DEF Launches
<1>7. CASE SubmitFeedsNext
  <2>1. PICK w \in todo : act' = Feed(w) /\ todo' = todo \ {w}
    BY <1>7 DEF SubmitFeedsNext, Earliest
  <2>2. UNCHANGED <<spawned, tries, workers, pending, inflight>> /\ act = Idle
    BY <1>7 DEF SubmitFeedsNext, poolVars
  <2>3. IdleWorkers' \subseteq IdleWorkers
    BY <2>1, <2>2 DEF IdleWorkers
  <2>4. Unfed' = Len(pending) - 1 /\ Unfed = Len(pending)
    BY <1>1, <2>1, <2>2 DEF Unfed
  <2> QED
    BY <1>1, <1>2, <2>2, <2>3, <2>4
<1>8. CASE PoolFeedNothing
  <2>1. UNCHANGED <<spawned, tries>> /\ pending' = <<>> /\ act' = Idle
    BY <1>8 DEF PoolFeedNothing, batchVars
  <2>2. Unfed' = 0 /\ Cardinality(LostTries') = lost
    BY <2>1 DEF Unfed, LostTries
  <2> HIDE DEF lost
  <2> QED
    BY <1>0, <1>1, <2>1, <2>2 DEF Launches
<1>9. ASSUME NEW w \in 1 .. spawned, PoolFeed(w) \/ PoolFeedFails(w) PROVE Launches'
  <2>1. /\ TakeItem(w) /\ act = Feed(w) /\ act' \in {Idle, Died(w)}
        /\ UNCHANGED <<spawned, tries, workers, todo>>
    BY <1>9 DEF PoolFeed, PoolFeedFails
  <2>2. Len(pending') = Len(pending) - 1 /\ DOMAIN inflight' = DOMAIN inflight \cup {w}
    BY <1>0, <2>1, TakenOff DEF TakeItem
  <2>3. IdleWorkers' \subseteq IdleWorkers
    BY <2>1, <2>2 DEF IdleWorkers
  <2>4. Unfed' = Unfed /\ Unfed \in Int
    BY <1>1, <2>1, <2>2 DEF Unfed
  <2> QED
    BY <1>2, <2>1, <2>3, <2>4
<1>10. ASSUME NEW w \in 1 .. spawned, ReadReply(w) PROVE Launches'
  <2>1. act = Idle /\ act' = Feed(w) /\ UNCHANGED <<spawned, tries, workers, todo, pending>>
    BY <1>10 DEF ReadReply, InLoop
  <2>2. DOMAIN inflight' = DOMAIN inflight \ {w}
    BY <1>10, ReplyKind
  <2>3. IdleWorkers' \subseteq IdleWorkers
    BY <2>1, <2>2 DEF IdleWorkers
  <2>4. Unfed' = Len(pending) - 1 /\ Unfed = Len(pending)
    BY <1>1, <2>1 DEF Unfed
  <2> QED
    BY <1>1, <1>2, <2>1, <2>3, <2>4
<1>11. ASSUME NEW w \in 1 .. spawned, ReadTrouble(w) PROVE Launches'
  <2>1. act = Idle /\ act' = Died(w) /\ UNCHANGED <<spawned, tries, workers, todo, pending, inflight>>
    BY <1>11 DEF ReadTrouble, InLoop, poolVars
  <2>2. IdleWorkers' \subseteq IdleWorkers
    BY <2>1 DEF IdleWorkers
  <2>3. Unfed' = Len(pending) /\ Unfed = Len(pending)
    BY <1>1, <2>1 DEF Unfed
  <2> QED
    BY <1>1, <1>2, <2>1, <2>2, <2>3
<1>12. ASSUME NEW w \in 1 .. spawned, Buries(w) PROVE Launches'
  <2>1. /\ Bury(w) /\ w \in workers \ todo /\ todo' = todo /\ act = Died(w)
        /\ \/ /\ workers' = (workers \ {w}) \cup {spawned + 1} /\ spawned' = spawned + 1
              /\ act' = Feed(spawned + 1) /\ pending' # <<>>
           \/ /\ workers' = workers \ {w} /\ spawned' = spawned /\ act' = Idle
    BY <1>12, BuriedWorkers
  <2>2. /\ DOMAIN inflight' = DOMAIN inflight \ {w}
        /\ \/ w \notin DOMAIN inflight /\ pending' = pending /\ Cardinality(LostTries') = lost
           \/ /\ w \in DOMAIN inflight /\ Len(pending') \in {Len(pending), Len(pending) + 1}
              /\ Cardinality(LostTries') = lost + 1
    BY <1>0, <2>1, BuryAccount
  <2>3. IdleWorkers' \subseteq IdleWorkers \ {w}
    BY <2>1, <2>2 DEF IdleWorkers
  <2>4. w \notin DOMAIN inflight => w \in IdleWorkers
    BY <2>1 DEF IdleWorkers
  <2>5. Unfed = Len(pending) /\ Unfed' = Len(pending') - (IF act' = Idle THEN 0 ELSE 1)
    BY <1>1, <2>1, <2>2 DEF Unfed
  <2>6. pending' \in Seq(Ids)
    BY BatchTypeStep DEF BatchTypeOK
  <2>7. Len(pending') \in Nat /\ (pending' # <<>> => Len(pending') >= 1)
    BY <2>6
  <2> HIDE DEF lost
  <2>8. CASE w \in DOMAIN inflight
    <3>1. spawned' <= spawned + 1 /\ spawned' \in Nat
      BY <1>0, <2>1
    <3>2. spawned' + Unfed' <= spawned + Unfed + 1
      BY <1>0, <1>1, <2>1, <2>2, <2>5, <2>7, <2>8
    <3>3. Unfed' \in Int /\ Unfed \in Int
      BY <1>1, <2>5, <2>7
    <3>4. Cardinality(LostTries') = lost + 1 /\ spawned' <= Width + (lost + 1)
      BY <1>0, <1>1, <2>2, <2>8, <3>1
    <3>5. IdleWorkers' # {} => spawned' + Unfed' <= Width + (lost + 1)
      <4>1. IdleWorkers' # {} => spawned + Unfed <= Width + lost
        BY <1>0, <2>3
      <4>2. spawned \in Nat /\ lost \in Nat
        BY <1>0, <1>1
      <4>3. PICK u : u = spawned' + Unfed'
        OBVIOUS
      <4>4. u <= spawned + Unfed + 1 /\ u \in Int
        BY <3>1, <3>2, <3>3, <4>3
      <4>5. IdleWorkers' # {} => u <= Width + (lost + 1)
        BY <3>3, <4>1, <4>2, <4>4
      <4> QED
        BY <4>3, <4>5
    <3> QED
      BY <3>4, <3>5 DEF Launches
  <2>9. CASE w \notin DOMAIN inflight
    <3>1. spawned + Len(pending) <= Width + lost /\ pending' = pending /\ Cardinality(LostTries') = lost
      BY <1>0, <2>2, <2>4, <2>5, <2>9
    <3>2. spawned' <= spawned + Len(pending) /\ spawned' + Unfed' <= spawned + Len(pending)
      BY <1>0, <1>1, <2>1, <2>5, <2>7, <3>1
    <3>3. Unfed' \in Int /\ spawned' \in Nat
      BY <1>0, <1>1, <2>1, <2>5, <2>7
    <3>4. spawned \in Nat /\ lost \in Nat /\ Len(pending) \in Nat
      BY <1>0, <1>1
    <3>5. PICK u : u = spawned' + Unfed'
      OBVIOUS
    <3>6. u \in Int /\ u <= spawned + Len(pending)
      BY <3>2, <3>3, <3>5
    <3>7. spawned' <= Width + lost /\ u <= Width + lost
      BY <3>1, <3>2, <3>3, <3>4, <3>6
    <3> QED
      BY <3>1, <3>5, <3>7 DEF Launches
  <2> QED
    BY <2>8, <2>9
<1> QED
  BY <1>3, <1>4, <1>5, <1>6, <1>7, <1>8, <1>9, <1>10, <1>11, <1>12, WorkerSteps

\* An item is answered as poison exactly when it has taken down MaxTries workers, and
\* every lost try is one requeue or one poison reply; replacement needs no global limit,
\* since the launches exceed the width by no more than the tries the batch can lose: for
\* every width, retry limit and batch (PoolRequeue, PoolDied).
THEOREM RetriesAccounted == Spec => []RetryAccount
<1>1. PoolInv /\ RetryInv => RetryAccount
  <2> SUFFICES ASSUME PoolInv, RetryInv PROVE RetryAccount
    OBVIOUS
  <2>1. /\ submitted \in 0 .. MaxItems /\ tries \in [Ids -> Nat] /\ spawned \in Nat
        /\ TriesAreCounted /\ Launches /\ WorkersAreCounted
    BY DEF PoolInv, RetryInv, TypeOK, BatchTypeOK, WorkerTypeOK
  <2>2. Cardinality(LostTries) <= MaxTries * submitted
    BY <2>1, LostTriesBounded DEF TriesAreCounted
  <2>3. spawned <= Width + MaxTries * submitted
    <3>1. Cardinality(LostTries) \in Nat /\ MaxTries * submitted \in Nat
      BY <2>1, LostTriesFinite
    <3> QED
      BY <2>1, <2>2, <3>1 DEF Launches
  <2> QED
    BY <2>1, <2>3 DEF TriesAreCounted, WorkersAreCounted, RetryAccount
<1>2. PoolInv /\ RetryInv /\ [Next]_vars => PoolInv' /\ RetryInv'
  BY PoolInvStep, TriesAreCountedStep, CallsStep, WorkersAreCountedStep, LaunchesStep DEF RetryInv
<1>3. Init => PoolInv /\ RetryInv
  BY InitPoolInv, InitRetryInv
<1> QED
  BY <1>1, <1>2, <1>3, PTL DEF Spec
---------------------------------------------------------------------------
(* The director of Pool.tla implements the promise of PoolBatch.tla, and   *)
(* pool wait misses no wake-up. PoolInv says where the items are.          *)
(* DirectorInv ties that to what the director believes (done, fatal) and   *)
(* to what pool wait listens to (POOL_DONE).                               *)

\* Before the batch there is nothing to be done, and nothing has failed.
Unstarted == phase \in {"none", "open"} => done /\ ~fatal

\* While the script is in vwait, POOL_DONE says "1" of a batch that is done only, and "0"
\* of one that is not.
Awaited ==
  waiting => /\ phase = "submitted"
             /\ signal # "unset"
             /\ (signal = "1" => done)
             /\ (signal = "0" => ~done)

\* A batch that is done, and was not given up, owes nothing.
DoneIsEmpty ==
  phase = "submitted" /\ done /\ ~fatal => pending = <<>> /\ DOMAIN inflight = {}

\* A batch that owes nothing and is not done is about to be checked: a worker is to be
\* fed or buried.
EmptyIsChecked ==
  phase = "submitted" /\ ~done /\ pending = <<>> /\ DOMAIN inflight = {} =>
    act # Idle \/ todo # {} \/ (submitted = 0 /\ workers = {})

DirectorInv == PoolInv /\ Unstarted /\ Awaited /\ DoneIsEmpty /\ EmptyIsChecked
------------------------------------------------------------------------------
(* What a step does to the batch.                                          *)

\* Nothing: only the director's control, or a worker, gets on.
GetsOn ==
  /\ UNCHANGED <<phase, submitted, pending, inflight, results, fatal, done, waiting, signal, last>>
  /\ UNCHANGED <<act, todo, workers>> \/ act' # Idle

\* An item goes from the queue into flight.
Hands(w) == Feeds(w) /\ UNCHANGED <<phase, waiting, signal, last>>

\* The director looks whether the batch is over.
Checks ==
  /\ UNCHANGED <<phase, submitted, pending, inflight, results, fatal, waiting, last>>
  /\ PoolCheckDone

\* The three ends of PoolDied.
Dies(w) == PoolDiedReplaced(w) \/ PoolDiedFatal(w) \/ PoolDiedUnreplaced(w)

LEMMA DirectorKinds ==
  ASSUME PoolInv, [Next]_vars
  PROVE  \/ GetsOn
         \/ PoolCreate \/ PoolCreateFails \/ PoolClose
         \/ \E n \in 0 .. MaxItems : PoolSubmit(n)
         \/ PoolWait \/ WaitTimer \/ PoolWaitAtOnce \/ PoolWaitReturns
         \/ Checks
         \/ \E w \in 1 .. spawned : Hands(w) \/ ReadReply(w) \/ Dies(w)
<1>1. CASE UNCHANGED vars
  BY <1>1 DEF vars, poolVars, waitVars, controlVars, GetsOn
<1>2. CASE SubmitFeedsNext
  <2>1. PICK w \in todo : act' = Feed(w)
    BY <1>2 DEF SubmitFeedsNext, Earliest
  <2> QED
    BY <1>2, <2>1 DEF SubmitFeedsNext, poolVars, waitVars, GetsOn
<1>3. ASSUME NEW w, PoolReadable(w) \/ ReadTrouble(w) \/ ReadClosed(w)
                    \/ WorkerReplies(w) \/ WorkerExits(w) \/ WorkerMisbehaves(w)
      PROVE  GetsOn
  BY <1>3 DEF PoolReadable, ReadTrouble, ReadClosed, WorkerReplies, WorkerExits,
       WorkerMisbehaves, poolVars, waitVars, controlVars, GetsOn
<1>4. ASSUME NEW w, PoolFeed(w) \/ PoolFeedFails(w)
      PROVE  Hands(w)
  BY <1>4 DEF PoolFeed, PoolFeedFails, Feeds, waitVars, Hands
<1>5. ASSUME NEW w, PoolFeedNothing \/ ReadDrained(w)
      PROVE  Checks
  BY <1>5 DEF PoolFeedNothing, ReadDrained, batchVars, Checks
<1> QED
  BY <1>1, <1>2, <1>3, <1>4, <1>5 DEF Next, Handler, Script, Worker, Dies

\* What PoolDied does to the batch: the worker's item, if it had one, goes back to the head
\* of the queue or into the results; then a replacement is launched, the batch is given
\* up, or it is checked.
LEMMA DeathKinds ==
  ASSUME PoolInv, NEW w \in 1 .. spawned, Dies(w)
  PROVE  /\ UNCHANGED <<phase, submitted, waiting, last>>
         /\ inflight' = [x \in DOMAIN inflight \ {w} |-> inflight[x]]
         /\ \/ w \notin DOMAIN inflight /\ UNCHANGED <<pending, results>>
            \/ /\ w \in DOMAIN inflight /\ inflight[w] \in Ids
               /\ pending' # <<>> /\ results' = results
            \/ /\ w \in DOMAIN inflight /\ inflight[w] \in Ids
               /\ results' = Append(results, Poison(inflight[w])) /\ pending' = pending
         /\ \/ pending' # <<>> /\ UNCHANGED <<fatal, done, signal>> /\ act' # Idle
            \/ pending' # <<>> /\ fatal' /\ done' /\ signal' = "1"
            \/ pending' = <<>> /\ fatal' = fatal /\ PoolCheckDone
<1>1. Bury(w)
  BY DEF Dies, PoolDiedReplaced, PoolDiedFatal, PoolDiedUnreplaced
<1>2. UNCHANGED <<phase, submitted, waiting, last>>
  BY <1>1 DEF Bury
<1>3. /\ inflight' = [x \in DOMAIN inflight \ {w} |-> inflight[x]]
      /\ \/ w \notin DOMAIN inflight /\ UNCHANGED <<pending, results>>
         \/ /\ w \in DOMAIN inflight /\ inflight[w] \in Ids
            /\ pending' = <<inflight[w]>> \o pending /\ results' = results
         \/ /\ w \in DOMAIN inflight /\ inflight[w] \in Ids
            /\ results' = Append(results, Poison(inflight[w])) /\ pending' = pending
  BY <1>1, BuryKinds
<1>4. inflight[w] \in Ids => <<inflight[w]>> \o pending # <<>>
  BY DEF PoolInv, TypeOK, BatchTypeOK
<1>5. \/ pending' # <<>> /\ UNCHANGED <<fatal, done, signal>> /\ act' # Idle
      \/ pending' # <<>> /\ fatal' /\ done' /\ signal' = "1"
      \/ pending' = <<>> /\ fatal' = fatal /\ PoolCheckDone
  BY DEF Dies, PoolDiedReplaced, PoolDiedFatal, PoolDiedUnreplaced
<1> QED
  BY <1>2, <1>3, <1>4, <1>5
------------------------------------------------------------------------------
(* DirectorInv is inductive.                                               *)

\* PoolCreate's dict: done, not failed, no batch, nobody waiting.
LEMMA InitDirectorInv == Init => DirectorInv
  BY InitPoolInv DEF Init, DirectorInv, Unstarted, Awaited, DoneIsEmpty, EmptyIsChecked

\* No handler can end or fail a batch before it is submitted.
LEMMA UnstartedStep == ASSUME DirectorInv, [Next]_vars PROVE Unstarted'
<1>0. PoolInv /\ Unstarted
  BY DEF DirectorInv
<1>1. CASE UNCHANGED <<phase, fatal, done>>
  BY <1>0, <1>1 DEF Unstarted
<1>2. CASE PoolCreate \/ PoolCreateFails \/ PoolClose
  BY <1>0, <1>2 DEF PoolCreate, PoolCreateFails, PoolClose, poolVars, Unstarted
<1>3. ASSUME NEW n \in 0 .. MaxItems, PoolSubmit(n)
      PROVE  Unstarted'
  BY <1>3 DEF PoolSubmit, Unstarted
<1>4. CASE Checks
  BY <1>0, <1>4 DEF Checks, PoolCheckDone, Unstarted
<1>5. ASSUME NEW w \in 1 .. spawned, Dies(w)
      PROVE  Unstarted'
  <2>1. phase' = phase /\ (pending' = <<>> => fatal' = fatal /\ done' \in {done, TRUE})
    BY <1>0, <1>5, DeathKinds DEF PoolCheckDone
  <2>2. phase' \in {"none", "open"} => pending' = <<>>
    BY <1>0, BeforeBatchStep DEF BeforeBatch
  <2> QED
    BY <1>0, <2>1, <2>2 DEF Unstarted
<1>6. CASE GetsOn \/ PoolWait \/ WaitTimer \/ PoolWaitAtOnce \/ PoolWaitReturns
  BY <1>1, <1>6 DEF GetsOn, PoolWait, WaitTimer, PoolWaitAtOnce, PoolWaitReturns, poolVars
<1>7. ASSUME NEW w \in 1 .. spawned, Hands(w) \/ ReadReply(w)
      PROVE  Unstarted'
  BY <1>1, <1>7 DEF Hands, Feeds, ReadReply
<1> QED
  BY <1>0, <1>2, <1>3, <1>4, <1>5, <1>6, <1>7, DirectorKinds

\* POOL_DONE and done are written together while somebody waits.
LEMMA AwaitedStep == ASSUME DirectorInv, [Next]_vars PROVE Awaited'
<1>0. /\ PoolInv /\ Unstarted /\ Awaited
      /\ signal \in {"unset", "0", "1", "timeout"}
  BY DEF DirectorInv, PoolInv, TypeOK, WaitTypeOK
<1>1. ASSUME UNCHANGED <<phase, waiting>>,
             UNCHANGED <<done, signal>> \/ (done' /\ signal' = "1")
      PROVE  Awaited'
  BY <1>0, <1>1 DEF Awaited
<1>2. CASE PoolCreate \/ PoolCreateFails
  BY <1>0, <1>2 DEF PoolCreate, PoolCreateFails, waitVars, Awaited
<1>3. ASSUME NEW n \in 0 .. MaxItems, PoolSubmit(n)
      PROVE  Awaited'
  BY <1>3 DEF PoolSubmit, waitVars, Awaited
<1>4. CASE PoolClose \/ PoolWaitAtOnce \/ PoolWaitReturns
  BY <1>4 DEF PoolClose, PoolWaitAtOnce, PoolWaitReturns, Awaited
<1>5. CASE PoolWait
  BY <1>0, <1>5 DEF PoolWait, poolVars, Unstarted, Awaited
<1>6. CASE WaitTimer
  BY <1>0, <1>6 DEF WaitTimer, poolVars, Awaited
<1>7. CASE GetsOn
  BY <1>1, <1>7 DEF GetsOn
<1>8. CASE Checks
  BY <1>1, <1>8 DEF Checks, PoolCheckDone
<1>9. ASSUME NEW w \in 1 .. spawned, Hands(w) \/ ReadReply(w)
      PROVE  Awaited'
  BY <1>1, <1>9 DEF Hands, Feeds, ReadReply, waitVars
<1>10. ASSUME NEW w \in 1 .. spawned, Dies(w)
       PROVE  Awaited'
  <2>1. UNCHANGED <<phase, waiting>> /\ (UNCHANGED <<done, signal>> \/ (done' /\ signal' = "1"))
    BY <1>0, <1>10, DeathKinds DEF PoolCheckDone
  <2> QED
    BY <1>1, <2>1
<1> QED
  BY <1>0, <1>2, <1>3, <1>4, <1>5, <1>6, <1>7, <1>8, <1>9, <1>10, DirectorKinds

\* A batch that was done gets no item back: nobody holds one.
LEMMA DoneIsEmptyStep == ASSUME DirectorInv, [Next]_vars PROVE DoneIsEmpty'
<1>0. PoolInv /\ DoneIsEmpty
  BY DEF DirectorInv
<1>1. CASE UNCHANGED <<phase, fatal, done, pending, inflight>>
  BY <1>0, <1>1 DEF DoneIsEmpty
<1>2. CASE PoolCreate \/ PoolCreateFails \/ PoolClose
  BY <1>2 DEF PoolCreate, PoolCreateFails, PoolClose, DoneIsEmpty
<1>3. ASSUME NEW n \in 0 .. MaxItems, PoolSubmit(n)
      PROVE  DoneIsEmpty'
  BY <1>3 DEF PoolSubmit, DoneIsEmpty
<1>4. CASE GetsOn \/ PoolWait \/ WaitTimer \/ PoolWaitAtOnce \/ PoolWaitReturns
  BY <1>1, <1>4 DEF GetsOn, PoolWait, WaitTimer, PoolWaitAtOnce, PoolWaitReturns, poolVars
<1>5. CASE Checks
  BY <1>0, <1>5 DEF Checks, PoolCheckDone, DoneIsEmpty
<1>6. ASSUME NEW w \in 1 .. spawned, Hands(w)
      PROVE  DoneIsEmpty'
  BY <1>0, <1>6 DEF Hands, Feeds, TakeItem, DoneIsEmpty
<1>7. ASSUME NEW w \in 1 .. spawned, ReadReply(w)
      PROVE  DoneIsEmpty'
  <2>1. w \in DOMAIN inflight /\ UNCHANGED <<phase, fatal, done>>
    BY <1>0, <1>7, ReplyKind DEF ReadReply
  <2> QED
    BY <1>0, <2>1 DEF DoneIsEmpty
<1>8. ASSUME NEW w \in 1 .. spawned, Dies(w)
      PROVE  DoneIsEmpty'
  <2>1. /\ phase' = phase /\ DOMAIN inflight' \subseteq DOMAIN inflight
        /\ w \notin DOMAIN inflight => pending' = pending
        /\ \/ UNCHANGED <<fatal, done>>
           \/ fatal'
           \/ fatal' = fatal /\ pending' = <<>> /\ DOMAIN inflight' = {}
    BY <1>0, <1>8, DeathKinds DEF PoolCheckDone
  <2>2. CASE UNCHANGED <<fatal, done>>
    <3>1. phase' = "submitted" /\ done' /\ ~fatal' => pending = <<>> /\ DOMAIN inflight = {}
      BY <1>0, <2>1, <2>2 DEF DoneIsEmpty
    <3> QED
      BY <2>1, <3>1 DEF DoneIsEmpty
  <2>3. CASE fatal' \/ (pending' = <<>> /\ DOMAIN inflight' = {})
    BY <2>3 DEF DoneIsEmpty
  <2> QED
    BY <2>1, <2>2, <2>3
<1> QED
  BY <1>0, <1>2, <1>3, <1>4, <1>5, <1>6, <1>7, <1>8, DirectorKinds

\* Whoever takes the last item from the queue or out of a worker's hands goes on to look.
LEMMA EmptyIsCheckedStep == ASSUME DirectorInv, [Next]_vars PROVE EmptyIsChecked'
<1>0. PoolInv /\ Unstarted /\ Awaited /\ EmptyIsChecked
  BY DEF DirectorInv
<1>1. CASE /\ UNCHANGED <<phase, submitted, done, pending, inflight>>
           /\ UNCHANGED <<act, todo, workers>> \/ act' # Idle
  BY <1>0, <1>1 DEF EmptyIsChecked
<1>2. CASE PoolCreate \/ PoolCreateFails \/ PoolClose
  BY <1>2 DEF PoolCreate, PoolCreateFails, PoolClose, EmptyIsChecked
<1>3. ASSUME NEW n \in 0 .. MaxItems, PoolSubmit(n)
      PROVE  EmptyIsChecked'
  <2>1. Len(pending') = n /\ todo' = workers /\ workers' = workers /\ submitted' = n
    BY <1>3, FreshQueue DEF PoolSubmit
  <2> QED
    BY <2>1 DEF EmptyIsChecked
<1>4. CASE GetsOn \/ PoolWait \/ WaitTimer \/ PoolWaitAtOnce \/ PoolWaitReturns
  BY <1>1, <1>4 DEF GetsOn, PoolWait, WaitTimer, PoolWaitAtOnce, PoolWaitReturns, poolVars,
       controlVars
<1>5. CASE Checks
  BY <1>5 DEF Checks, PoolCheckDone, EmptyIsChecked
<1>6. ASSUME NEW w \in 1 .. spawned, Hands(w)
      PROVE  EmptyIsChecked'
  BY <1>6 DEF Hands, Feeds, TakeItem, EmptyIsChecked
<1>7. ASSUME NEW w \in 1 .. spawned, ReadReply(w)
      PROVE  EmptyIsChecked'
  BY <1>7 DEF ReadReply, EmptyIsChecked
<1>8. ASSUME NEW w \in 1 .. spawned, Dies(w)
      PROVE  EmptyIsChecked'
  <2>1. pending' # <<>> \/ PoolCheckDone
    BY <1>0, <1>8, DeathKinds
  <2> QED
    BY <2>1 DEF PoolCheckDone, EmptyIsChecked
<1> QED
  BY <1>0, <1>2, <1>3, <1>4, <1>5, <1>6, <1>7, <1>8, DirectorKinds

\* The invariant is inductive: no handler, call or worker step breaks it.
LEMMA DirectorInvStep == DirectorInv /\ [Next]_vars => DirectorInv'
<1> HAVE DirectorInv /\ [Next]_vars
<1>1. PoolInv'
  BY PoolInvStep DEF DirectorInv
<1> QED
  BY <1>1, UnstartedStep, AwaitedStep, DoneIsEmptyStep, EmptyIsCheckedStep DEF DirectorInv

\* No wake-up is missed, whatever the workers do: as long as the script is in vwait and
\* POOL_DONE has not been written, something is pending or in flight (PoolCheckDone is
\* called wherever the last item may have been settled).
THEOREM NoMissedWakeupHolds == Spec => []NoMissedWakeup
<1>1. DirectorInv => NoMissedWakeup
  <2> HAVE DirectorInv
  <2>1. Awaited /\ EmptyIsChecked /\ submitted \in 0 .. MaxItems
    BY DEF DirectorInv, PoolInv, TypeOK, BatchTypeOK
  <2>2. submitted > 0 => submitted # 0
    BY <2>1
  <2> QED
    BY <2>1, <2>2 DEF Awaited, EmptyIsChecked, NoMissedWakeup, Quiet
<1> QED
  BY <1>1, InitDirectorInv, DirectorInvStep, PTL DEF Spec
------------------------------------------------------------------------------
(* The refinement: what PoolBatch's variables and steps are here.          *)

Out == [i \in Ids |-> Outcome(i)]
Ans == [i \in DOMAIN last.replies |->
          IF last.replies[i] = "worker" THEN "replied" ELSE "poisoned"]
OwedIds == {i \in Ids : Out[i] = "owed"}

\* A step of the batch that settles an item, ...
Settles(i) ==
  /\ Out[i] = "owed"
  /\ \E s \in {"replied", "poisoned"} : Out' = [Out EXCEPT ![i] = s]
  /\ Ans' = Ans

\* ... and what a step may do to the verdict meanwhile.
Concludes ==
  \/ Verdict' = Verdict
  \/ Verdict = "open" /\ OwedIds' = {} /\ Verdict' = "complete"
  \/ Verdict = "open" /\ OwedIds' # {} /\ Verdict' = "abandoned"

\* A step that settles an item, or none, and may end the batch is a step of PoolBatch.
LEMMA SettlesIsStep ==
  ASSUME NEW i \in Ids, Settles(i), Concludes
  PROVE  Batch!BatchNext
<1>1. Batch!Settle(i)
  BY DEF Settles, Concludes, Batch!Settle, Batch!Settled, Batch!Owed, Batch!Id, Out, Ans, OwedIds
<1> QED
  BY <1>1 DEF Batch!BatchNext, Batch!Id

LEMMA ConcludesIsStep ==
  ASSUME Out' = Out, Ans' = Ans, Concludes
  PROVE  [Batch!BatchNext]_Batch!batchVars
<1>1. CASE Verdict' = Verdict
  BY <1>1 DEF Batch!batchVars, Out, Ans
<1>2. CASE Verdict = "open" /\ OwedIds' = {} /\ Verdict' = "complete"
  <2>1. Batch!Complete
    BY <1>2 DEF Batch!Complete, Batch!Owed, Batch!Id, Out, Ans, OwedIds
  <2> QED
    BY <2>1 DEF Batch!BatchNext
<1>3. CASE Verdict = "open" /\ OwedIds' # {} /\ Verdict' = "abandoned"
  <2>1. Batch!Abandon
    BY <1>3 DEF Batch!Abandon, Batch!Owed, Batch!Id, Out, Ans, OwedIds
  <2> QED
    BY <2>1 DEF Batch!BatchNext
<1> QED
  BY <1>1, <1>2, <1>3 DEF Concludes
------------------------------------------------------------------------------
(* What PoolBatch's variables say of the director's queues.                *)

\* An outcome is read off the one place an id is in.
LEMMA OutcomeRead ==
  ASSUME PoolInv, NEW i \in Ids
  PROVE  /\ Out[i] = "owed" <=> \/ \E k \in 1 .. Len(pending) : pending[k] = i
                                \/ \E w \in DOMAIN inflight : inflight[w] = i
         /\ Out[i] # "none" <=> i < submitted
         /\ \A l \in 1 .. Len(results) :
              results[l].id = i =>
                Out[i] = IF results[l].by = "worker" THEN "replied" ELSE "poisoned"
         /\ Out[i] \in {"replied", "poisoned"} => \E l \in 1 .. Len(results) : results[l].id = i
<1>0. /\ results \in Seq(Reply) /\ submitted \in 0 .. MaxItems
      /\ DOMAIN results = 1 .. Len(results)
      /\ NoRepeats /\ NoOverlap /\ AllAccepted
  BY DEF PoolInv, TypeOK, BatchTypeOK, Conserved
<1>1. Out[i] = IF \E l \in 1 .. Len(results) : results[l].id = i
               THEN IF Poison(i) \in IdsOf(results) THEN "poisoned" ELSE "replied"
               ELSE IF i < submitted THEN "owed" ELSE "none"
  BY <1>0 DEF Out, Outcome
<1>2. Poison(i) \in IdsOf(results) <=> \E l \in 1 .. Len(results) : results[l] = Poison(i)
  BY <1>0 DEF IdsOf
<1>3. ASSUME NEW l \in 1 .. Len(results), results[l].id = i
      PROVE  Out[i] = IF results[l].by = "worker" THEN "replied" ELSE "poisoned"
  <2>0. results \in Seq(Reply)
    BY <1>0
  <2>1. results[l] \in Reply
    BY <2>0, ElementOfSeq
  <2>2. CASE results[l].by = "worker"
    <3>1. \A m \in 1 .. Len(results) : results[m] # Poison(i)
      <4> SUFFICES ASSUME NEW m \in 1 .. Len(results), results[m] = Poison(i) PROVE FALSE
        OBVIOUS
      <4>1. results[m].id = i /\ results[m].by = "poison"
        OBVIOUS
      <4>2. m = l
        BY <1>0, <1>3, <4>1 DEF NoRepeats
      <4> QED
        BY <2>2, <4>1, <4>2
    <3> QED
      BY <1>1, <1>2, <1>3, <2>2, <3>1
  <2>3. CASE results[l].by # "worker"
    <3>1. results[l] = Poison(i)
      BY <1>3, <2>1, <2>3
    <3> QED
      BY <1>1, <1>2, <1>3, <2>3, <3>1
  <2> QED
    BY <2>2, <2>3
<1>4. i < submitted <=> \/ \E k \in 1 .. Len(pending) : pending[k] = i
                        \/ \E w \in DOMAIN inflight : inflight[w] = i
                        \/ \E l \in 1 .. Len(results) : results[l].id = i
  BY <1>0 DEF AllAccepted
<1>5. \A l \in 1 .. Len(results) : results[l].id = i =>
        /\ ~\E k \in 1 .. Len(pending) : pending[k] = i
        /\ ~\E w \in DOMAIN inflight : inflight[w] = i
  BY <1>0 DEF NoOverlap
<1> QED
  BY <1>1, <1>3, <1>4, <1>5

\* What a result says, in a state and in the next.
ResultRead ==
  \A i \in Ids : \A l \in 1 .. Len(results) :
    results[l].id = i => Out[i] = IF results[l].by = "worker" THEN "replied" ELSE "poisoned"

LEMMA ResultReadNow == PoolInv => ResultRead
  BY OutcomeRead DEF ResultRead

LEMMA ResultReadNext == PoolInv' => ResultRead'
  BY ResultReadNow, PTL

\* The batch owes nothing when the queue and the workers' hands are empty.
LEMMA OwedIsHeld == PoolInv => (OwedIds = {} <=> pending = <<>> /\ DOMAIN inflight = {})
<1> HAVE PoolInv
<1>1. /\ pending \in Seq(Ids)
      /\ \A w \in DOMAIN inflight : inflight[w] \in Ids
  BY DEF PoolInv, TypeOK, BatchTypeOK
<1>2. pending # <<>> => pending[1] \in OwedIds
  <2> SUFFICES ASSUME pending # <<>> PROVE pending[1] \in OwedIds
    OBVIOUS
  <2>1. 1 \in 1 .. Len(pending) /\ pending[1] \in Ids
    BY <1>1
  <2> QED
    BY <2>1, OutcomeRead DEF OwedIds
<1>3. \A w \in DOMAIN inflight : inflight[w] \in OwedIds
  BY <1>1, OutcomeRead DEF OwedIds
<1>4. pending = <<>> /\ DOMAIN inflight = {} => OwedIds = {}
  BY OutcomeRead DEF OwedIds
<1> QED
  BY <1>2, <1>3, <1>4

\* The same of the state after a step.
LEMMA OwedIsHeldNext == PoolInv' => (OwedIds = {} <=> pending = <<>> /\ DOMAIN inflight = {})'
  BY OwedIsHeld, PTL

\* As long as the results and the number accepted stay, every outcome stays.
LEMMA SameOut == ASSUME UNCHANGED <<results, submitted>> PROVE Out' = Out
  BY DEF Out, Outcome, IdsOf

\* An item that moves from flight to the results is settled.
LEMMA FlightSettles ==
  ASSUME PoolInv, PoolInv', NEW w \in DOMAIN inflight, NEW r \in Reply, r.id = inflight[w],
         results' = Append(results, r), UNCHANGED <<submitted, last>>
  PROVE  inflight[w] \in Ids /\ Settles(inflight[w])
<1> DEFINE i == inflight[w]
           s == IF r.by = "worker" THEN "replied" ELSE "poisoned"
<1>0. i \in Ids /\ results \in Seq(Reply)
  BY DEF PoolInv, TypeOK, BatchTypeOK
<1>1. /\ Len(results) \in Nat /\ Len(results') = Len(results) + 1
      /\ DOMAIN results = 1 .. Len(results) /\ DOMAIN results' = 1 .. Len(results')
      /\ results'[Len(results) + 1] = r
      /\ \A k \in 1 .. Len(results) : results'[k] = results[k]
  BY <1>0, AppendProperties
<1>2. Out[i] = "owed"
  BY <1>0, OutcomeRead
<1>4. Out'[i] = s
  <2>1. Len(results') \in 1 .. Len(results') /\ results'[Len(results')] = r
    BY <1>1
  <2> QED
    <3>1. \A j \in Ids : \A l \in 1 .. Len(results') : results'[l].id = j =>
            Out'[j] = IF results'[l].by = "worker" THEN "replied" ELSE "poisoned"
      BY ResultReadNext DEF ResultRead
    <3>2. results'[Len(results')].id = i
      BY <2>1
    <3>3. Out'[i] = IF results'[Len(results')].by = "worker" THEN "replied" ELSE "poisoned"
      BY <1>0, <2>1, <3>1, <3>2
    <3> QED
      BY <2>1, <3>3
<1>5. ASSUME NEW j \in Ids, j # i
      PROVE  Out'[j] = Out[j]
  <2>1. (\E l \in DOMAIN results' : results'[l].id = j) <=> \E l \in DOMAIN results : results[l].id = j
    BY <1>1, <1>5
  <2>2. Poison(j) \in IdsOf(results') <=> Poison(j) \in IdsOf(results)
    <3>1. r # Poison(j)
      BY <1>5
    <3> QED
      BY <1>1, <3>1 DEF IdsOf
  <2> QED
    BY <2>1, <2>2 DEF Out, Outcome
<1>6. Out' = [Out EXCEPT ![i] = s]
  BY <1>0, <1>4, <1>5 DEF Out
<1>7. Ans' = Ans
  BY DEF Ans
<1> QED
  BY <1>0, <1>2, <1>6, <1>7 DEF Settles
------------------------------------------------------------------------------
(* What the director's steps do to the verdict.                            *)

\* The five cases of Verdict.
LEMMA VerdictRead ==
  /\ phase \in {"none", "open"} => Verdict = "none"
  /\ phase = "closed" => Verdict = "closed"
  /\ phase = "submitted" /\ fatal => Verdict = "abandoned"
  /\ phase = "submitted" /\ ~fatal /\ done => Verdict = "complete"
  /\ phase = "submitted" /\ ~fatal /\ ~done => Verdict = "open"
  BY DEF Verdict

LEMMA SameVerdict == ASSUME UNCHANGED <<phase, fatal, done>> PROVE Verdict' = Verdict
  BY DEF Verdict

\* PoolCheckDone ends a batch only when nothing is owed.
LEMMA CheckConcludes ==
  ASSUME PoolInv', UNCHANGED <<phase, fatal>>, PoolCheckDone
  PROVE  Concludes
<1>1. CASE done' = done
  BY <1>1, SameVerdict DEF Concludes
<1>2. CASE done' /\ pending' = <<>> /\ DOMAIN inflight' = {}
  <2>1. OwedIds' = {}
    BY <1>2, OwedIsHeldNext
  <2>2. Verdict' = Verdict \/ (Verdict = "open" /\ Verdict' = "complete")
    BY <1>2 DEF Verdict
  <2> QED
    BY <2>1, <2>2 DEF Concludes
<1> QED
  BY <1>1, <1>2 DEF PoolCheckDone

\* PoolDied gives up only a batch that still owes something, before and after.
LEMMA FatalConcludes ==
  ASSUME DirectorInv, PoolInv', phase' = phase, fatal', pending' # <<>>,
         pending # <<>> \/ DOMAIN inflight # {}
  PROVE  Concludes
<1>1. OwedIds' # {}
  BY OwedIsHeldNext
<1>2. phase = "submitted" /\ ~fatal => ~done
  BY DEF DirectorInv, DoneIsEmpty
<1>3. Verdict' = Verdict \/ (Verdict = "open" /\ Verdict' = "abandoned")
  BY <1>2 DEF Verdict
<1> QED
  BY <1>1, <1>3 DEF Concludes
------------------------------------------------------------------------------
(* What pool wait hands to its caller.                                     *)

\* When nothing is pending or in flight, the replies PoolWait collects are the outcomes of
\* all ids accepted, and of no other.
LEMMA AnswerIsBatch ==
  ASSUME PoolInv, pending = <<>>, DOMAIN inflight = {}
  PROVE  [i \in DOMAIN Answer |-> IF Answer[i] = "worker" THEN "replied" ELSE "poisoned"]
           = [i \in {i \in Ids : Out[i] # "none"} |-> Out[i]]
<1>0. /\ results \in Seq(Reply) /\ submitted \in 0 .. MaxItems
      /\ DOMAIN results = 1 .. Len(results) /\ Len(pending) = 0
      /\ NoRepeats /\ AllAccepted
  BY DEF PoolInv, TypeOK, BatchTypeOK, Conserved
<1>1. \A l \in 1 .. Len(results) : results[l].id \in Ids
  <2> TAKE l \in 1 .. Len(results)
  <2>1. results \in Seq(Reply)
    BY <1>0
  <2>2. results[l] \in Reply
    BY <2>1, ElementOfSeq
  <2> QED
    BY <2>2
<1>2. DOMAIN Answer = {i \in Ids : Out[i] # "none"}
  <2>1. DOMAIN Answer = ResultIds \cap (0 .. submitted - 1)
    BY DEF Answer
  <2>2. \A i \in Ids : Out[i] # "none" <=> i < submitted
    BY OutcomeRead
  <2>3. \A i \in Ids : i < submitted <=> i \in ResultIds
    <3> TAKE i \in Ids
    <3>1. ~\E k \in 1 .. Len(pending) : pending[k] = i
      BY <1>0
    <3>2. i < submitted <=> \E l \in 1 .. Len(results) : results[l].id = i
      BY <1>0, <3>1 DEF AllAccepted
    <3>3. i \in ResultIds <=> \E l \in 1 .. Len(results) : results[l].id = i
      BY <1>0 DEF ResultIds
    <3> QED
      BY <3>2, <3>3
  <2>4. ResultIds \subseteq Ids
    BY <1>0, <1>1 DEF ResultIds
  <2> QED
    BY <1>0, <2>1, <2>2, <2>3, <2>4
<1>3. ASSUME NEW i \in DOMAIN Answer
      PROVE  (IF Answer[i] = "worker" THEN "replied" ELSE "poisoned") = Out[i]
  <2>1. i \in Ids /\ i \in ResultIds
    BY <1>2, <1>3 DEF Answer
  <2>2. PICK l \in 1 .. Len(results) : results[l].id = i
    BY <1>0, <2>1 DEF ResultIds
  <2>3. {k \in DOMAIN results : results[k].id = i} = {l}
    BY <1>0, <2>2 DEF NoRepeats
  <2>4. Max({l}) = l
    BY DEF Max
  <2>5. Answer[i] = results[l].by
    BY <1>3, <2>3, <2>4 DEF Answer
  <2> QED
    BY <2>1, <2>2, <2>5, OutcomeRead
<1> QED
  BY <1>2, <1>3

\* However pool wait ends, it delivers the batch or refuses.
LEMMA WaitIsStep ==
  ASSUME PoolInv, UNCHANGED <<phase, submitted, results, fatal, done>>,
         NEW kind, WaitEnd(kind),
         kind = "results" => \/ results = <<>>
                             \/ Verdict = "complete" /\ pending = <<>> /\ DOMAIN inflight = {}
  PROVE  Batch!BatchNext
<1>0. Out' = Out /\ Verdict' = Verdict
  BY SameOut, SameVerdict
<1>1. CASE kind # "results" \/ results = <<>>
  <2>1. DOMAIN last'.replies = {}
    BY <1>1 DEF WaitEnd, Answer, ResultIds
  <2>2. Ans' = [i \in {} |-> "none"]
    BY <2>1 DEF Ans
  <2>3. Batch!Refuse
    BY <1>0, <2>2 DEF Batch!Refuse, Out, Ans
  <2> QED
    BY <2>3 DEF Batch!BatchNext
<1>2. CASE kind = "results" /\ results # <<>>
  <2>1. Ans' = [i \in DOMAIN Answer |-> IF Answer[i] = "worker" THEN "replied" ELSE "poisoned"]
    BY <1>2 DEF WaitEnd, Ans
  <2>2. Ans' = [i \in {i \in Ids : Out[i] # "none"} |-> Out[i]]
    BY <1>2, <2>1, AnswerIsBatch
  <2>3. Batch!Deliver
    BY <1>0, <1>2, <2>2 DEF Batch!Deliver, Batch!Accepted, Batch!Id, Out, Ans
  <2> QED
    BY <2>3 DEF Batch!BatchNext
<1> QED
  BY <1>1, <1>2
------------------------------------------------------------------------------
(* The director implements the batch.                                      *)

\* A token without a batch is a batch not yet accepted.
LEMMA InitIsBatchInit == Init => Batch!BatchInit
<1> HAVE Init
<1>1. Verdict = "none"
  BY DEF Init, Verdict
<1>2. \A i \in Ids : Outcome(i) = "none"
  BY DEF Init, Outcome
<1>3. Ans = [i \in {} |-> "none"]
  BY DEF Init, Ans
<1> QED
  BY <1>1, <1>2, <1>3 DEF Batch!BatchInit, Batch!Id, Ans

\* PoolSubmit accepts the batch whole.
LEMMA SubmitAccepts ==
  ASSUME DirectorInv, DirectorInv', NEW n \in 0 .. MaxItems, PoolSubmit(n)
  PROVE  Batch!BatchNext
<1>1. /\ phase = "open" /\ phase' = "submitted" /\ ~done' /\ fatal' = fatal
      /\ UNCHANGED <<results, last>> /\ submitted' = n
  BY DEF PoolSubmit, waitVars
<1>2. results = <<>> /\ ~fatal
  BY <1>1 DEF DirectorInv, PoolInv, BeforeBatch, Unstarted
<1>3. Verdict = "none" /\ Verdict' = "open"
  BY <1>1, <1>2 DEF Verdict
<1>4. \A i \in Ids : Out'[i] = IF i < n THEN "owed" ELSE "none"
  BY <1>1, <1>2 DEF Out, Outcome
<1>5. Out' = [i \in Ids |-> IF i < n THEN "owed" ELSE "none"]
  BY <1>4 DEF Out
<1>6. Ans' = Ans
  BY <1>1 DEF Ans
<1>7. Batch!Accept(n)
  BY <1>3, <1>5, <1>6 DEF Batch!Accept, Batch!Id, Out, Ans
<1> QED
  BY <1>7 DEF Batch!BatchNext

\* PoolDied settles the dead worker's item or nothing, and concludes rightly.
LEMMA DeathIsStep ==
  ASSUME DirectorInv, DirectorInv', NEW w \in 1 .. spawned, Dies(w)
  PROVE  [Batch!BatchNext]_Batch!batchVars
<1>0. PoolInv /\ PoolInv'
  BY DEF DirectorInv
<1>1. UNCHANGED <<phase, submitted, last>>
  BY <1>0, DeathKinds
<1>2. Concludes
  <2>1. CASE UNCHANGED <<fatal, done>>
    BY <1>1, <2>1, SameVerdict DEF Concludes
  <2>2. CASE fatal' = fatal /\ PoolCheckDone
    BY <1>0, <1>1, <2>2, CheckConcludes
  <2>3. CASE pending' # <<>> /\ fatal'
    <3>1. pending # <<>> \/ DOMAIN inflight # {}
      BY <1>0, <2>3, DeathKinds
    <3> QED
      BY <1>0, <1>1, <2>3, <3>1, FatalConcludes
  <2> QED
    BY <1>0, <2>1, <2>2, <2>3, DeathKinds
<1>3. CASE results' = results
  <2>1. Out' = Out /\ Ans' = Ans
    BY <1>1, <1>3, SameOut DEF Ans
  <2> QED
    BY <1>2, <2>1, ConcludesIsStep
<1>4. CASE w \in DOMAIN inflight /\ results' = Append(results, Poison(inflight[w]))
  <2>1. inflight[w] \in Ids
    BY <1>0, <1>4 DEF PoolInv, TypeOK, BatchTypeOK
  <2>2. Poison(inflight[w]) \in Reply /\ Poison(inflight[w]).id = inflight[w]
    BY <2>1
  <2>3. inflight[w] \in Ids /\ Settles(inflight[w])
    BY <1>0, <1>1, <1>4, <2>2, FlightSettles
  <2> QED
    BY <1>2, <2>3, SettlesIsStep
<1> QED
  BY <1>0, <1>3, <1>4, DeathKinds

\* Every step of the director, its script or its workers is a step of the batch, or none.
LEMMA StepIsBatchStep ==
  ASSUME DirectorInv, DirectorInv', [Next]_vars
  PROVE  [Batch!BatchNext]_Batch!batchVars
<1>0. PoolInv /\ PoolInv' /\ Unstarted /\ Awaited /\ DoneIsEmpty
  BY DEF DirectorInv
<1>1. ASSUME UNCHANGED <<submitted, results, last>>, Verdict' = Verdict
      PROVE  [Batch!BatchNext]_Batch!batchVars
  BY <1>1, SameOut, ConcludesIsStep DEF Ans, Concludes
<1>2. CASE GetsOn \/ PoolWait \/ WaitTimer
  <2>1. UNCHANGED <<submitted, results, last, phase, fatal, done>>
    BY <1>2 DEF GetsOn, PoolWait, WaitTimer, poolVars
  <2> QED
    BY <1>1, <2>1, SameVerdict
<1>3. CASE PoolCreate
  <2>1. UNCHANGED <<submitted, results, last>> /\ Verdict' = Verdict
    BY <1>3 DEF PoolCreate, poolVars, waitVars, Verdict
  <2> QED
    BY <1>1, <2>1
<1>4. CASE PoolCreateFails \/ PoolClose
  <2>1. UNCHANGED <<submitted, results, last>> /\ phase' = "closed"
    BY <1>4 DEF PoolCreateFails, PoolClose, poolVars, waitVars
  <2>2. Out' = Out /\ Ans' = Ans /\ Verdict' = "closed"
    BY <2>1, SameOut DEF Ans, Verdict
  <2>3. Batch!Close
    BY <2>2 DEF Batch!Close, Out, Ans
  <2> QED
    BY <2>3 DEF Batch!BatchNext
<1>5. ASSUME NEW n \in 0 .. MaxItems, PoolSubmit(n)
      PROVE  [Batch!BatchNext]_Batch!batchVars
  BY <1>5, SubmitAccepts
<1>6. CASE PoolWaitAtOnce
  <2>1. PICK kind : WaitEnd(kind) /\ (kind = "results" => ~fatal /\ done)
    BY <1>6 DEF PoolWaitAtOnce
  <2>2. phase \in {"open", "submitted"} /\ UNCHANGED <<phase, submitted, results, fatal, done>>
    BY <1>6 DEF PoolWaitAtOnce, poolVars
  <2>3. phase = "open" => results = <<>>
    BY <1>0 DEF PoolInv, BeforeBatch
  <2>4. phase = "submitted" /\ kind = "results" =>
          Verdict = "complete" /\ pending = <<>> /\ DOMAIN inflight = {}
    BY <1>0, <2>1, VerdictRead DEF DoneIsEmpty
  <2> QED
    BY <1>0, <2>1, <2>2, <2>3, <2>4, WaitIsStep
<1>7. CASE PoolWaitReturns
  <2>1. PICK kind : WaitEnd(kind) /\ (kind = "results" => ~fatal /\ signal # "timeout")
    BY <1>7 DEF PoolWaitReturns
  <2>2. waiting /\ signal # "0" /\ UNCHANGED <<phase, submitted, results, fatal, done>>
    BY <1>7 DEF PoolWaitReturns, Woken, poolVars
  <2>3. phase = "submitted" /\ (signal # "timeout" => done)
    <3>1. signal \in {"unset", "0", "1", "timeout"}
      BY <1>0 DEF PoolInv, TypeOK, WaitTypeOK
    <3> QED
      BY <1>0, <2>2, <3>1 DEF Awaited
  <2>4. kind = "results" => Verdict = "complete" /\ pending = <<>> /\ DOMAIN inflight = {}
    BY <1>0, <2>1, <2>3, VerdictRead DEF DoneIsEmpty
  <2> QED
    BY <1>0, <2>1, <2>2, <2>4, WaitIsStep
<1>8. CASE Checks
  <2>1. Out' = Out /\ Ans' = Ans
    BY <1>8, SameOut DEF Checks, Ans
  <2>2. Concludes
    BY <1>0, <1>8, CheckConcludes DEF Checks
  <2> QED
    BY <2>1, <2>2, ConcludesIsStep
<1>9. ASSUME NEW w \in 1 .. spawned, Hands(w)
      PROVE  [Batch!BatchNext]_Batch!batchVars
  <2>1. UNCHANGED <<submitted, results, last, phase, fatal, done>>
    BY <1>9 DEF Hands, Feeds
  <2> QED
    BY <1>1, <2>1, SameVerdict
<1>10. ASSUME NEW w \in 1 .. spawned, ReadReply(w)
       PROVE  [Batch!BatchNext]_Batch!batchVars
  <2>1. UNCHANGED <<last, phase>>
    BY <1>10 DEF ReadReply, waitVars
  <2>2. /\ w \in DOMAIN inflight /\ inflight[w] \in Ids
        /\ results' = Append(results, [id |-> inflight[w], by |-> "worker"])
        /\ UNCHANGED <<submitted, fatal, done>>
    BY <1>0, <1>10, ReplyKind
  <2>3. [id |-> inflight[w], by |-> "worker"] \in Reply
    BY <2>2
  <2>4. inflight[w] \in Ids /\ Settles(inflight[w])
    BY <1>0, <2>1, <2>2, <2>3, FlightSettles
  <2>5. Concludes
    BY <2>1, <2>2, SameVerdict DEF Concludes
  <2> QED
    BY <2>4, <2>5, SettlesIsStep
<1>11. ASSUME NEW w \in 1 .. spawned, Dies(w)
       PROVE  [Batch!BatchNext]_Batch!batchVars
  BY <1>11, DeathIsStep
<1> QED
  BY <1>0, <1>2, <1>3, <1>4, <1>5, <1>6, <1>7, <1>8, <1>9, <1>10, <1>11, DirectorKinds

\* The director does what PoolBatch promises, whatever its workers do: every accepted item
\* is settled once and for good, the batch is complete only when nothing is owed, and the
\* answer pool wait returns covers exactly the batch (PoolCheckDone, PoolDied, PoolWait).
THEOREM DirectorImplementsBatch == Spec => ImplementsBatch
<1>1. DirectorInv /\ DirectorInv' /\ [Next]_vars => [Batch!BatchNext]_Batch!batchVars
  BY StepIsBatchStep
<1> QED
  BY <1>1, InitIsBatchInit, InitDirectorInv, DirectorInvStep, PTL
  DEF Spec, ImplementsBatch, Batch!BatchSpec
==============================================================================
