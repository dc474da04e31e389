-------------------------------- MODULE Pool --------------------------------
(***************************************************************************)
(* The director of a worker pool (src/tcl/pool.tcl): one interpreter thread *)
(* that feeds a batch of items to child processes over pipes and collects   *)
(* their replies in event handlers.                                         *)
(*                                                                         *)
(* The director is single-threaded, its workers are not. Each handler is    *)
(* split into the calls it makes (PoolReadable's loop, PoolFeed, PoolDied), *)
(* with a control state (act, todo, reading) that keeps another handler from *)
(* starting before the first has returned, while the workers reply, crash   *)
(* and misbehave between any two of those calls.                            *)
(*                                                                         *)
(* A request is its id; a worker token is the number of its launch.         *)
(***************************************************************************)
EXTENDS Integers, Sequences, FiniteSets, FiniteSetsExt, Functions

CONSTANTS
  Width,      \* -width: workers launched by pool create
  MaxTries,   \* -maxtries: workers an item may take down before it is poison
  MaxItems,   \* bound: the largest batch the script submits
  MaxRogue    \* bound: lines the workers write that answer no request of theirs

ASSUME WidthAssumption == Width \in Nat \ {0}
ASSUME MaxTriesAssumption == MaxTries \in Nat \ {0}
ASSUME BoundsAssumption == MaxItems \in Nat /\ MaxRogue \in Nat

VARIABLES
  phase,      \* life of the token: none, open, submitted, closed
  submitted,  \* number of items accepted (POOL submitted, nextid)
  workers,    \* POOL workers: tokens whose child is open, in launch order
  spawned,    \* launches so far; the newest worker's token
  pending,    \* POOL pending: queue of ids
  inflight,   \* POOL inflight: worker -> id
  results,    \* POOL results, in order of arrival
  tries,      \* POOL tries: id -> workers lost with that id in flight
  dead,       \* POOL dead
  requeued,   \* POOL requeued
  fatal,      \* POOL fatal is not ""
  done,       \* POOL done
  signal,     \* ::machteld::POOL_DONE(token)
  waiting,    \* the script is inside pool wait's vwait
  last,       \* how the latest pool wait ended, and the replies it returned
  act,        \* the call the director is in: PoolFeed or PoolDied of a worker
  todo,       \* workers PoolSubmit has yet to feed
  reading,    \* worker whose PoolReadable loop is running, or NoWorker
  alive,      \* workers whose process runs
  inbox,      \* worker -> ids written to its stdin and not yet answered
  outbox,     \* worker -> reply lines in its stdout pipe
  rogue       \* misbehaving lines written so far

poolVars == <<submitted, pending, results, tries, dead, requeued, fatal, done>>
batchVars == <<submitted, pending, inflight, results, tries, requeued>>
waitVars == <<signal, waiting, last>>
controlVars == <<act, todo, reading>>
workerVars == <<alive, inbox, outbox, rogue>>
vars == <<phase, poolVars, inflight, workers, spawned, waitVars, controlVars, workerVars>>

Ids == 0 .. MaxItems - 1
Junk == -1                      \* a malformed line, or an id of no item
NoWorker == 0
Idle == [op |-> "none", w |-> NoWorker]
Feed(w) == [op |-> "feed", w |-> w]
Died(w) == [op |-> "died", w |-> w]

IdsOf(q) == {q[k] : k \in DOMAIN q}
ResultIds == {results[k].id : k \in DOMAIN results}

\* The event loop runs no handler while another is running.
Quiet == act = Idle /\ todo = {} /\ reading = NoWorker

\* vwait returns after the event that wrote POOL_DONE, before the next one.
Woken == waiting /\ signal # "0"
------------------------------------------------------------------------------
(* Calls of the director.                                                  *)

Nothing == [w \in {} |-> NoWorker]

Init ==
  /\ phase = "none"
  /\ submitted = 0
  /\ workers = {} /\ spawned = 0 /\ alive = {}
  /\ pending = <<>> /\ inflight = Nothing /\ results = <<>>
  /\ tries = [i \in Ids |-> 0]
  /\ dead = 0 /\ requeued = 0
  /\ fatal = FALSE /\ done = TRUE
  /\ signal = "unset" /\ waiting = FALSE
  /\ last = [kind |-> "none", replies |-> Nothing]
  /\ act = Idle /\ todo = {} /\ reading = NoWorker
  /\ inbox = Nothing /\ outbox = Nothing /\ rogue = 0

\* PoolCreate: Width launches, each with handlers on its output pipes.
PoolCreate ==
  /\ phase = "none"
  /\ phase' = "open"
  /\ workers' = 1 .. Width
  /\ spawned' = Width
  /\ alive' = workers'
  /\ inbox' = [w \in workers' |-> <<>>]
  /\ outbox' = [w \in workers' |-> <<>>]
  /\ UNCHANGED <<poolVars, inflight, waitVars, controlVars, rogue>>

\* PoolCreate when the launch of a worker fails: the ones before it are closed.
PoolCreateFails ==
  /\ phase = "none"
  /\ phase' = "closed"
  /\ \E k \in 0 .. Width - 1 : spawned' = k
  /\ UNCHANGED <<poolVars, inflight, workers, waitVars, controlVars, workerVars>>

\* PoolSubmit: the one batch; every worker of the moment is then fed in turn.
PoolSubmit(n) ==
  /\ phase = "open" /\ Quiet /\ ~waiting
  /\ phase' = "submitted"
  /\ submitted' = n
  /\ pending' = [k \in 1 .. n |-> k - 1]
  /\ done' = FALSE
  /\ todo' = workers
  /\ UNCHANGED <<inflight, results, tries, dead, requeued, fatal, workers, spawned,
                 waitVars, act, reading, workerVars>>

\* The first launched of a set of workers: a worker list is in launch order.
Earliest(S) == {w \in S : \A x \in S : w <= x}

\* PoolSubmit's loop over the workers it found.
SubmitFeedsNext ==
  /\ todo # {} /\ act = Idle
  /\ \E w \in Earliest(todo) : act' = Feed(w) /\ todo' = todo \ {w}
  /\ UNCHANGED <<phase, poolVars, inflight, workers, spawned, waitVars, reading, workerVars>>

\* Fault: items in flight are overlooked.
CheckDonePendingOnly ==
  IF pending' = <<>> THEN done' = TRUE /\ signal' = "1" ELSE UNCHANGED <<done, signal>>

\* Fault: POOL_DONE is not written.
CheckDoneSilently ==
  /\ IF pending' = <<>> /\ DOMAIN inflight' = {} THEN done' = TRUE ELSE UNCHANGED done
  /\ UNCHANGED signal

\* PoolCheckDone, over the queues as the calling step leaves them.
PoolCheckDone ==
  IF pending' = <<>> /\ DOMAIN inflight' = {}
  THEN done' = TRUE /\ signal' = "1"
  ELSE UNCHANGED <<done, signal>>

\* PoolFeed with nothing left to hand out.
PoolFeedNothing ==
  /\ act.op = "feed"
  /\ pending = <<>>
  /\ act' = Idle
  /\ UNCHANGED <<phase, batchVars, dead, fatal, workers, spawned,
                 waiting, last, todo, reading, workerVars>>
  /\ PoolCheckDone

TakeItem(w) ==
  /\ pending # <<>>
  /\ pending' = Tail(pending)
  /\ inflight' = [x \in DOMAIN inflight \cup {w} |-> IF x = w THEN Head(pending) ELSE inflight[x]]

\* PoolFeed: the item is in flight, and written to the worker's stdin. A pipe
\* nobody reads any more may still take the line.
PoolFeed(w) ==
  /\ act = Feed(w)
  /\ TakeItem(w)
  /\ act' = Idle
  /\ inbox' = [inbox EXCEPT ![w] = Append(@, Head(pending))]
  /\ UNCHANGED <<phase, submitted, results, tries, dead, requeued, fatal, done,
                 workers, spawned, waitVars, todo, reading, alive, outbox, rogue>>

\* PoolFeed: whatever raises while the item is written, with a worker that is dead or
\* one that no longer reads, is taken for its death.
PoolFeedFails(w) ==
  /\ act = Feed(w)
  /\ TakeItem(w)
  /\ act' = Died(w)
  /\ UNCHANGED <<phase, submitted, results, tries, dead, requeued, fatal, done,
                 workers, spawned, waitVars, todo, reading, workerVars>>
------------------------------------------------------------------------------
(* PoolReadable                                                            *)

\* Fault: end of file makes no event.
ReadyWithLine(w) == outbox[w] # <<>>

\* A channel is readable with a line in its pipe, or at end of file.
Ready(w) == outbox[w] # <<>> \/ w \notin alive

\* The event loop calls PoolReadable.
PoolReadable(w) ==
  /\ Quiet /\ ~Woken
  /\ w \in workers
  /\ Ready(w)
  /\ reading' = w
  /\ UNCHANGED <<phase, poolVars, inflight, workers, spawned, waitVars, act, todo, workerVars>>

\* Fault: any reply of a worker with an item in flight is taken.
ExpectedAnyId(w) == w \in DOMAIN inflight /\ Head(outbox[w]) # Junk

\* The id the director asked this worker for.
Expected(w) == w \in DOMAIN inflight /\ Head(outbox[w]) = inflight[w]

InLoop(w) == reading = w /\ w # NoWorker /\ act = Idle

\* A line that answers the item in flight: record it, then feed the worker.
ReadReply(w) ==
  /\ InLoop(w) /\ w \in workers
  /\ outbox[w] # <<>> /\ Expected(w)
  /\ results' = Append(results, [id |-> Head(outbox[w]), by |-> "worker"])
  /\ inflight' = Restrict(inflight, DOMAIN inflight \ {w})
  /\ outbox' = [outbox EXCEPT ![w] = Tail(@)]
  /\ act' = Feed(w)
  /\ UNCHANGED <<phase, submitted, pending, tries, dead, requeued, fatal, done,
                 workers, spawned, waitVars, todo, reading, alive, inbox, rogue>>

\* Any other line, or end of file: the worker is given up.
ReadTrouble(w) ==
  /\ InLoop(w) /\ w \in workers
  /\ \/ outbox[w] # <<>> /\ ~Expected(w)
     \/ outbox[w] = <<>> /\ w \notin alive
  /\ act' = Died(w)
  /\ reading' = NoWorker
  /\ UNCHANGED <<phase, poolVars, inflight, workers, spawned, waitVars, todo, workerVars>>

\* The pipe has no complete line and is not at its end.
ReadDrained(w) ==
  /\ InLoop(w) /\ w \in workers
  /\ outbox[w] = <<>> /\ w \in alive
  /\ reading' = NoWorker
  /\ UNCHANGED <<phase, batchVars, dead, fatal, workers, spawned,
                 waiting, last, act, todo, workerVars>>
  /\ PoolCheckDone

\* Feeding the worker has just closed it: gets raises, and PoolDied ignores a
\* worker it no longer knows.
ReadClosed(w) ==
  /\ InLoop(w) /\ w \notin workers
  /\ reading' = NoWorker
  /\ UNCHANGED <<phase, poolVars, inflight, workers, spawned, waitVars, act, todo, workerVars>>
------------------------------------------------------------------------------
(* PoolDied                                                                *)

Poison(i) == [id |-> i, by |-> "poison"]

\* Fault: an item gets one worker too many.
RequeueOnceMore(w) ==
  IF w \notin DOMAIN inflight
  THEN UNCHANGED <<pending, results, tries, requeued>>
  ELSE LET i == inflight[w]
       IN  /\ tries' = [tries EXCEPT ![i] = @ + 1]
           /\ IF tries'[i] <= MaxTries
              THEN pending' = <<i>> \o pending /\ requeued' = requeued + 1 /\ UNCHANGED results
              ELSE results' = Append(results, Poison(i)) /\ UNCHANGED <<pending, requeued>>

\* PoolRequeue: the worker's item returns to the head of the queue, or is
\* answered as poison.
PoolRequeue(w) ==
  IF w \notin DOMAIN inflight
  THEN UNCHANGED <<pending, results, tries, requeued>>
  ELSE LET i == inflight[w]
       IN  /\ tries' = [tries EXCEPT ![i] = @ + 1]
           /\ IF tries'[i] < MaxTries
              THEN /\ pending' = <<i>> \o pending
                   /\ requeued' = requeued + 1
                   /\ UNCHANGED results
              ELSE /\ results' = Append(results, Poison(i))
                   /\ UNCHANGED <<pending, requeued>>

\* What PoolDied does to the dead worker, whatever follows.
Bury(w) ==
  /\ act = Died(w)
  /\ dead' = dead + 1
  /\ inflight' = Restrict(inflight, DOMAIN inflight \ {w})
  /\ PoolRequeue(w)
  /\ UNCHANGED <<phase, submitted, waiting, last, todo, reading, rogue>>

\* The worker list, its processes and its pipes once child close took w and
\* child start added the set new (at most one).
Replace(w, new) ==
  /\ workers' = (workers \ {w}) \cup new
  /\ alive' = (alive \ {w}) \cup new
  /\ inbox' = [x \in workers' |-> IF x \in new THEN <<>> ELSE inbox[x]]
  /\ outbox' = [x \in workers' |-> IF x \in new THEN <<>> ELSE outbox[x]]

\* Work is left: launch a replacement and feed it.
PoolDiedReplaced(w) ==
  /\ Bury(w)
  /\ pending' # <<>>
  /\ spawned' = spawned + 1
  /\ Replace(w, {spawned'})
  /\ act' = Feed(spawned')
  /\ UNCHANGED <<fatal, done, signal>>

\* Work is left and the launch fails: the batch cannot be finished.
PoolDiedFatal(w) ==
  /\ Bury(w)
  /\ pending' # <<>>
  /\ Replace(w, {})
  /\ act' = Idle
  /\ fatal' = TRUE /\ done' = TRUE /\ signal' = "1"
  /\ UNCHANGED spawned

\* Nothing is waiting for a worker: none is launched.
PoolDiedUnreplaced(w) ==
  /\ Bury(w)
  /\ pending' = <<>>
  /\ Replace(w, {})
  /\ act' = Idle
  /\ PoolCheckDone
  /\ UNCHANGED <<fatal, spawned>>
------------------------------------------------------------------------------
(* pool wait and pool close                                                *)

\* The replies by submission index: a later one for an id replaces an earlier.
Answer ==
  [i \in ResultIds \cap (0 .. submitted - 1) |->
     results[Max({k \in DOMAIN results : results[k].id = i})].by]

WaitEnd(kind) ==
  last' = [kind |-> kind, replies |-> IF kind = "results" THEN Answer ELSE Nothing]

\* PoolWait when it need not wait.
PoolWaitAtOnce ==
  /\ phase \in {"open", "submitted"} /\ Quiet /\ ~waiting
  /\ fatal \/ done
  /\ WaitEnd(IF fatal THEN "launch" ELSE "results")
  /\ UNCHANGED <<phase, poolVars, inflight, workers, spawned, signal, waiting,
                 controlVars, workerVars>>

\* PoolWait enters vwait, its timer set.
PoolWait ==
  /\ phase \in {"open", "submitted"} /\ Quiet /\ ~waiting
  /\ ~fatal /\ ~done
  /\ waiting' = TRUE
  /\ signal' = "0"
  /\ UNCHANGED <<phase, poolVars, inflight, workers, spawned, last, controlVars, workerVars>>

\* The timer event.
WaitTimer ==
  /\ Quiet /\ waiting /\ ~Woken
  /\ signal' = "timeout"
  /\ UNCHANGED <<phase, poolVars, inflight, workers, spawned, waiting, last,
                 controlVars, workerVars>>

\* vwait has returned: the timer is cancelled and the outcome told.
PoolWaitReturns ==
  /\ Quiet /\ Woken
  /\ waiting' = FALSE
  /\ WaitEnd(IF signal = "timeout" THEN "timeout" ELSE IF fatal THEN "launch" ELSE "results")
  /\ UNCHANGED <<phase, poolVars, inflight, workers, spawned, signal, controlVars, workerVars>>

\* PoolClose: every worker is closed, the token and its signal are gone. What
\* the token held is left in place, unreachable.
PoolClose ==
  /\ phase \in {"open", "submitted"} /\ Quiet /\ ~waiting
  /\ phase' = "closed"
  /\ workers' = {} /\ alive' = {}
  /\ inbox' = Nothing /\ outbox' = Nothing
  /\ signal' = "unset"
  /\ UNCHANGED <<poolVars, inflight, spawned, waiting, last, controlVars, rogue>>
------------------------------------------------------------------------------
(* The worker processes.                                                   *)

\* A worker answers the request it read first.
WorkerReplies(w) ==
  /\ w \in alive /\ inbox[w] # <<>>
  /\ inbox' = [inbox EXCEPT ![w] = Tail(@)]
  /\ outbox' = [outbox EXCEPT ![w] = Append(@, Head(inbox[w]))]
  /\ UNCHANGED <<phase, poolVars, inflight, workers, spawned, waitVars, controlVars, alive, rogue>>

\* The process ends: a crash, its launch deadline, a closed stdout.
WorkerExits(w) ==
  /\ w \in alive
  /\ alive' = alive \ {w}
  /\ UNCHANGED <<phase, poolVars, inflight, workers, spawned, waitVars, controlVars,
                 inbox, outbox, rogue>>

\* A worker writes a line nobody asked for: malformed, stale or premature.
WorkerMisbehaves(w) ==
  /\ w \in alive /\ rogue < MaxRogue
  /\ rogue' = rogue + 1
  /\ \E line \in Ids \cup {Junk} : outbox' = [outbox EXCEPT ![w] = Append(@, line)]
  /\ UNCHANGED <<phase, poolVars, inflight, workers, spawned, waitVars, controlVars,
                 alive, inbox>>
------------------------------------------------------------------------------
Handler ==
  \/ SubmitFeedsNext
  \/ PoolFeedNothing
  \/ \E w \in workers : PoolReadable(w)
  \/ \E w \in 1 .. spawned :
       \/ PoolFeed(w) \/ PoolFeedFails(w)
       \/ ReadReply(w) \/ ReadTrouble(w) \/ ReadDrained(w) \/ ReadClosed(w)
       \/ PoolDiedReplaced(w) \/ PoolDiedFatal(w) \/ PoolDiedUnreplaced(w)

Script ==
  \/ PoolCreate \/ PoolCreateFails
  \/ \E n \in 0 .. MaxItems : PoolSubmit(n)
  \/ PoolWaitAtOnce \/ PoolWait \/ PoolClose

Worker ==
  \E w \in workers : WorkerReplies(w) \/ WorkerExits(w) \/ WorkerMisbehaves(w)

Next == Handler \/ Script \/ WaitTimer \/ PoolWaitReturns \/ Worker

Spec == Init /\ [][Next]_vars

\* A started handler returns, the timer fires, and a worker that has a request
\* answers it or dies. Tcl queues a ready channel's event even when the timer of a
\* short wait is serviced first, so readable events get strong fairness: a script
\* that keeps polling with small timeouts cannot starve them. A script owes
\* nothing else.
Fairness ==
  /\ WF_vars(Handler)
  /\ SF_vars(\E w \in workers : PoolReadable(w))
  /\ WF_vars(WaitTimer)
  /\ WF_vars(PoolWaitReturns)
  /\ WF_vars(\E w \in workers : WorkerReplies(w))

FairSpec == Spec /\ Fairness
------------------------------------------------------------------------------
(* Safety.                                                                 *)

Reply == [id : Ids, by : {"worker", "poison"}]

BatchTypeOK ==
  /\ submitted \in 0 .. MaxItems
  /\ pending \in Seq(Ids)
  /\ \A w \in DOMAIN inflight : inflight[w] \in Ids
  /\ results \in Seq(Reply)
  /\ tries \in [Ids -> Nat]
  /\ dead \in Nat /\ requeued \in Nat
  /\ fatal \in BOOLEAN /\ done \in BOOLEAN

WaitTypeOK ==
  /\ phase \in {"none", "open", "submitted", "closed"}
  /\ signal \in {"unset", "0", "1", "timeout"}
  /\ waiting \in BOOLEAN
  /\ last.kind \in {"none", "results", "launch", "timeout"}
  /\ DOMAIN last.replies \subseteq Ids

WorkerTypeOK ==
  /\ spawned \in Nat
  /\ workers \subseteq 1 .. spawned
  /\ alive \subseteq workers
  /\ DOMAIN inflight \subseteq 1 .. spawned
  /\ inbox \in [workers -> Seq(Ids)]
  /\ outbox \in [workers -> Seq(Ids \cup {Junk})]
  /\ rogue \in 0 .. MaxRogue

ControlTypeOK ==
  /\ act \in [op : {"none", "feed", "died"}, w : 0 .. spawned]
  /\ act.op = "none" <=> act.w = NoWorker
  /\ todo \subseteq 1 .. spawned
  /\ reading \in 0 .. spawned

\* The type of every variable: what the POOL dict of a token, the script's wait
\* and the worker processes can hold.
TypeOK == BatchTypeOK /\ WaitTypeOK /\ WorkerTypeOK /\ ControlTypeOK

\* Where an item is: a position of the queue, a worker, a position of the results.
Places(i) ==
  {<<"pending", k>> : k \in {k \in DOMAIN pending : pending[k] = i}}
    \cup {<<"inflight", w>> : w \in {w \in DOMAIN inflight : inflight[w] = i}}
    \cup {<<"results", k>> : k \in {k \in DOMAIN results : results[k].id = i}}

\* Whatever workers reply, die or write, every accepted item is in exactly one
\* place, once: none is lost between PoolReadable, PoolDied and PoolRequeue, run
\* by two workers, or answered twice.
ExactlyOnce ==
  \A i \in Ids :
    IF i < submitted THEN \E p \in Places(i) : Places(i) = {p} ELSE Places(i) = {}

\* The poison replies, and the tries that were lost, each with its item.
Poisoned == {k \in DOMAIN results : results[k].by = "poison"}
LostTries == {t \in Ids \X (1 .. MaxTries) : t[2] <= tries[t[1]]}

\* An item is answered as poison exactly when it has taken down MaxTries
\* workers, and is never handed out again after that; every try that was lost is
\* one requeue or one poison reply in pool info's counters (PoolRequeue).
\* So replacement is finite without a global limit (comment at PoolDied): no more
\* launches than the width plus one per try the batch can lose, and every launch is
\* a live worker or a death that pool info counts.
RetryAccount ==
  /\ \A i \in Ids :
       /\ tries[i] <= MaxTries
       /\ (tries[i] = MaxTries) <=> Poison(i) \in IdsOf(results)
  /\ requeued + Cardinality(Poisoned) = Cardinality(LostTries)
  /\ spawned <= Width + MaxTries * submitted
  /\ phase \in {"open", "submitted"} => spawned = Cardinality(workers) + dead

\* No wake-up is missed: while the script is in vwait and POOL_DONE unwritten,
\* something is still pending or in flight. (An empty batch submitted to a pool
\* without workers is the exception: PoolSubmit then calls nobody that checks.)
NoMissedWakeup ==
  waiting /\ signal = "0" /\ Quiet /\ (submitted > 0 \/ workers # {}) =>
    pending # <<>> \/ DOMAIN inflight # {}

\* What docs/parallel.md says of a death ("requeues that item and replaces the
\* worker"): an open pool with work has a worker, unless it reported a failed launch.
WorkHasAWorker ==
  phase = "submitted" /\ Quiet /\ pending # <<>> => workers # {} \/ fatal
------------------------------------------------------------------------------
(* Refinement and liveness.                                                *)

\* What became of an id, read off the director's queues.
Outcome(i) ==
  IF \E k \in DOMAIN results : results[k].id = i
  THEN IF Poison(i) \in IdsOf(results) THEN "poisoned" ELSE "replied"
  ELSE IF i < submitted THEN "owed" ELSE "none"

\* The state of the batch, read off phase, fatal and done.
Verdict ==
  CASE phase \in {"none", "open"} -> "none"
    [] phase = "closed" -> "closed"
    [] phase = "submitted" /\ fatal -> "abandoned"
    [] phase = "submitted" /\ ~fatal /\ done -> "complete"
    [] OTHER -> "open"

Batch ==
  INSTANCE PoolBatch WITH
    outcome <- [i \in Ids |-> Outcome(i)],
    verdict <- Verdict,
    answer <- [i \in DOMAIN last.replies |->
                 IF last.replies[i] = "worker" THEN "replied" ELSE "poisoned"]

\* The director implements the promise of PoolBatch: items are settled once and
\* for good, the batch is complete only when nothing is owed, and an answer
\* covers the batch (PoolWait, PoolCheckDone, PoolDied).
ImplementsBatch == Batch!BatchSpec

\* A batch that finds a worker at submission is finished, or given up because a
\* replacement did not launch, as long as workers answer or die and the script
\* lets events run: crashes and garbage on the wire cannot stall it.
BatchIsDecided ==
  (phase = "submitted" /\ workers # {} /\ ~done) ~> (done \/ phase = "closed")

==============================================================================
