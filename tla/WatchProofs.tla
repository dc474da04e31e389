----------------------------- MODULE WatchProofs -----------------------------
(***************************************************************************)
(* Theorems about Watch.tla and Coalesce.tla.                              *)
(***************************************************************************)
EXTENDS Watch, Coalesce, SequenceTheorems, FiniteSetTheorems, TLAPS

(***************************************************************************)
(* Watch, for every number of changes, every size of the queue and of the  *)
(* kernel's record, and any number of failed calls.                        *)
(*                                                                         *)
(* A change is somewhere on its way from the kernel's record through the   *)
(* thread's buffer and the queue to a read. Accounts says of every place   *)
(* on that way that the earlier changes are there or beyond it.            *)
(***************************************************************************)

USE SizesAssumption, BoundsAssumption

Sizes ==
  /\ queue \in Seq(Nat) /\ buf \in Seq(Nat) /\ os \in Seq(Nat)
  /\ dropped \in Nat /\ changes \in Nat

\* What a step of a command may assume of the others: the thread is started with the
\* watch, a closing watch was live or starting, and an armed one records.
Course ==
  /\ life = "none" => thread = "none" /\ ~armed
  /\ cmd = "start" => life = "starting"
  /\ cmd \in {"stop", "force"} => life = "closing"
  /\ life = "starting" /\ armed => recording
  /\ life = "live" => recording
  /\ life = "freed" => thread \in {"none", "ended"}
  /\ thread = "signal" => failed

\* A read that is outstanding, or about to be issued, has an empty buffer, a record that
\* overflowed is empty, and a thread that was stopped leaves no read behind.
Reading ==
  /\ thread \in {"none", "begin", "issue"} => read = "none" /\ buf = <<>> /\ bufLost = {}
  /\ read = "pending" => buf = <<>> /\ bufLost = {}
  /\ bufLost # {} => buf = <<>>
  /\ osLost # {} => os = <<>>
  /\ thread = "ended" /\ ~failed => read # "pending"

\* The event, at any time in the life of the watch.
Signalled ==
  /\ dataEv => Readable
  /\ Readable => dataEv \/ thread = "signal"
  /\ promised => Readable

\* Changes that a reader has been given or told of, or can be; ...
Covered == given \cup told \cup missed \cup Range(queue) \cup shed

\* ... and those that the thread has in its hands besides.
Held == Covered \cup Range(buf) \cup bufLost

Accounts ==
  /\ shed # {} => dropped > 0 \/ failed
  /\ \A c \in given, e \in Change : e < c => e \in given \cup told \cup missed
  /\ \A c \in Range(queue), e \in Change : e < c => e \in Covered
  /\ \A c \in Range(buf), e \in Change : e < c => e \in Covered \cup Range(buf)
  /\ \A c \in Range(os), e \in Change : e < c => e \in Held \cup Range(os)
  /\ \A e \in 1 .. changes : e \in Held \cup Range(os) \cup osLost

WatchInv == Sizes /\ Course /\ Reading /\ Signalled /\ Accounts
------------------------------------------------------------------------------
(* What watch_push does.                                                   *)

\* The smaller of two numbers.
LEMMA MinOfTwo ==
  ASSUME NEW a \in Int, NEW b \in Int
  PROVE  Min({a, b}) \in {a, b} /\ Min({a, b}) <= a /\ Min({a, b}) <= b
<1>1. \E x \in {a, b} : \A y \in {a, b} : x =< y
  OBVIOUS
<1> QED
  BY <1>1 DEF Min

\* The members of a sequence.
LEMMA Members ==
  ASSUME NEW s \in Seq(Nat)
  PROVE  /\ Len(s) \in Nat /\ DOMAIN s = 1 .. Len(s)
         /\ \A i \in 1 .. Len(s) : s[i] \in Range(s)
         /\ \A x \in Range(s) : \E i \in 1 .. Len(s) : s[i] = x
  BY DEF Range

\* A sequence whose members are among those of another.
LEMMA AmongMembers ==
  ASSUME NEW s \in Seq(Nat), NEW t \in Seq(Nat),
         \A i \in 1 .. Len(s) : \E j \in 1 .. Len(t) : s[i] = t[j]
  PROVE  Range(s) \subseteq Range(t)
<1>1. \A x \in Range(s) : \E i \in 1 .. Len(s) : s[i] = x
  BY Members
<1>2. \A j \in 1 .. Len(t) : t[j] \in Range(t)
  BY Members
<1> QED
  BY <1>1, <1>2

\* A sequence with a member added.
LEMMA MembersOfAppend ==
  ASSUME NEW s \in Seq(Nat), NEW x \in Nat
  PROVE  Range(Append(s, x)) = Range(s) \cup {x}
<1> DEFINE t == Append(s, x)
<1>1. /\ t \in Seq(Nat) /\ Len(s) \in Nat /\ Len(t) = Len(s) + 1
      /\ \A i \in 1 .. Len(s) : t[i] = s[i]
      /\ t[Len(s) + 1] = x
  BY AppendProperties
<1> HIDE DEF t
<1>2. /\ \A i \in 1 .. Len(s) : i \in 1 .. Len(t)
      /\ \A i \in 1 .. Len(t) : i \in 1 .. Len(s) \/ i = Len(s) + 1
      /\ Len(s) + 1 \in 1 .. Len(t)
  BY <1>1
<1>3. Range(s) \subseteq Range(t)
  BY <1>1, <1>2, AmongMembers
<1>4. x \in Range(t)
  BY <1>1, <1>2, Members
<1>5. Range(t) \subseteq Range(s) \cup {x}
  <2>1. \A i \in 1 .. Len(s) : s[i] \in Range(s)
    BY Members
  <2>2. \A i \in 1 .. Len(t) : t[i] \in Range(s) \cup {x}
    <3> TAKE i \in 1 .. Len(t)
    <3>1. CASE i \in 1 .. Len(s)
      BY <1>1, <2>1, <3>1
    <3>2. CASE i = Len(s) + 1
      BY <1>1, <3>2
    <3> QED
      BY <1>2, <3>1, <3>2
  <2>3. t \in Seq(Nat)
    BY <1>1
  <2>4. \A y \in Range(t) : \E i \in 1 .. Len(t) : t[i] = y
    BY <2>3, Members
  <2> QED
    BY <2>2, <2>4
<1> QED
  BY <1>3, <1>4, <1>5 DEF t

\* As many records kept as there are: all are kept.
LEMMA KeptAll ==
  ASSUME NEW m \in Nat, NEW at \in Kept(m)
  PROVE  \E n \in 0 .. m :
           /\ at \in [1 .. n -> 1 .. m] /\ DOMAIN at = 1 .. n
           /\ n = m => \A k \in 1 .. m : \E j \in 1 .. n : at[j] = k
<1>1. PICK n \in 0 .. m : at \in [1 .. n -> 1 .. m]
  BY DEF Kept
<1>2. \A i, j \in 1 .. n : i < j => at[i] < at[j]
  BY <1>1 DEF Kept
<1>3. \A i, j \in 1 .. n : at[i] = at[j] => i = j
  BY <1>1, <1>2
<1>4. at \in Injection(1 .. n, 1 .. m)
  BY <1>1, <1>3 DEF Injection, IsInjective
<1>5. IsFiniteSet(1 .. m) /\ Cardinality(1 .. m) = m /\ Cardinality(1 .. n) = n
  BY <1>1, FS_Interval
<1>6. n = m => at \in Surjection(1 .. n, 1 .. m)
  BY <1>4, <1>5, FS_Injection
<1> QED
  BY <1>1, <1>6 DEF Surjection

\* Of the first m records of the buffer, what is kept and fits goes to the queue and the rest
\* is counted.
LEMMA PushFacts ==
  ASSUME Sizes, NEW m \in 0 .. Len(buf), NEW at \in Kept(m), Push(at, m)
  PROVE  /\ queue' \in Seq(Nat) /\ dropped' \in Nat /\ dropped' >= dropped
         /\ Range(queue) \subseteq Range(queue')
         /\ Range(queue') \subseteq Range(queue) \cup Range(buf)
         /\ Range(buf) \subseteq Range(queue') \cup shed' /\ shed \subseteq shed'
         /\ shed' = shed \/ dropped' > dropped \/ m # Len(buf)
         /\ queue # <<>> => queue' # <<>>
<1> DEFINE q == [k \in DOMAIN at |-> buf[at[k]]]
           f == Fitting(q)
           n == Min({Len(q), QueueMax - Len(queue)})
<1>0. /\ queue \in Seq(Nat) /\ buf \in Seq(Nat) /\ dropped \in Nat /\ Len(buf) \in Nat
      /\ m \in Nat /\ m <= Len(buf)
  BY DEF Sizes
<1>b. /\ q \in Seq(Nat) /\ Len(q) \in Nat /\ Len(q) <= m /\ Range(q) \subseteq Range(buf)
      /\ Len(q) = Len(buf) => Range(buf) \subseteq Range(q)
  <2>1. PICK l \in 0 .. m :
          /\ at \in [1 .. l -> 1 .. m] /\ DOMAIN at = 1 .. l
          /\ l = m => \A k \in 1 .. m : \E j \in 1 .. l : at[j] = k
    BY <1>0, KeptAll
  <2>2. \A k \in 1 .. l : at[k] \in 1 .. Len(buf) /\ buf[at[k]] \in Nat
    <3>1. \A k \in 1 .. m : k \in 1 .. Len(buf)
      BY <1>0
    <3> QED
      BY <1>0, <2>1, <3>1, ElementOfSeq
  <2>3. q = [k \in 1 .. l |-> buf[at[k]]] /\ q \in [1 .. l -> Nat]
    BY <2>1, <2>2
  <2>4. q \in Seq(Nat) /\ Len(q) = l /\ DOMAIN q = 1 .. l
    BY <2>1, <2>3
  <2>5. Range(q) \subseteq Range(buf)
    BY <1>0, <2>2, <2>3 DEF Range
  <2>6. ASSUME l = Len(buf) PROVE Range(buf) \subseteq Range(q)
    <3> SUFFICES ASSUME NEW k \in 1 .. Len(buf) PROVE buf[k] \in Range(q)
      BY <1>0 DEF Range
    <3>1. l = m /\ k \in 1 .. m
      BY <1>0, <2>1, <2>6
    <3>2. PICK j \in 1 .. l : at[j] = k
      BY <2>1, <3>1
    <3> QED
      BY <2>3, <3>2 DEF Range
  <2>7. l \in Nat /\ l <= m
    BY <1>0, <2>1
  <2> HIDE DEF q
  <2> QED
    BY <2>4, <2>5, <2>6, <2>7
<1> HIDE DEF q
<1>1. n \in Int /\ n <= Len(q)
  <2>1. Len(q) \in Int /\ QueueMax - Len(queue) \in Int
    BY <1>0, <1>b, SizesAssumption
  <2> QED
    BY <2>1, MinOfTwo
<1>2. /\ f \in Seq(Nat) /\ Len(f) = IF 1 <= n THEN n ELSE 0
      /\ \A i \in 1 .. Len(f) : f[i] = q[i]
  <2>1. \A i \in 1 .. n : q[i] \in Nat
    BY <1>1, <1>b, ElementOfSeq
  <2> HIDE DEF n
  <2>2. /\ SubSeq(q, 1, n) \in Seq(Nat)
        /\ Len(SubSeq(q, 1, n)) = IF 1 <= n THEN n - 1 + 1 ELSE 0
        /\ \A i \in 1 .. n - 1 + 1 : SubSeq(q, 1, n)[i] = q[1 + i - 1]
    BY <1>1, <2>1, SubSeqProperties
  <2>3. f = SubSeq(q, 1, n)
    BY DEF Fitting, n
  <2> QED
    BY <1>1, <2>2, <2>3
<1>3. Len(f) \in Nat /\ Len(f) <= Len(q)
  BY <1>1, <1>2, <1>b
<1>4. /\ queue' = queue \o f /\ dropped' = dropped + m - (Len(queue') - Len(queue))
      /\ shed' = shed \cup (Range(buf) \ Range(queue'))
  BY DEF Push, q, f
<1> HIDE DEF f, n
<1>5. queue' \in Seq(Nat) /\ Len(queue') = Len(queue) + Len(f)
  BY <1>0, <1>2, <1>4, ConcatProperties
<1>6. dropped' = dropped + (m - Len(f)) /\ m - Len(f) \in Nat
  BY <1>0, <1>b, <1>3, <1>4, <1>5
<1>7. Range(queue') = Range(queue) \cup Range(f)
  BY <1>0, <1>2, <1>4, RangeConcatenation
<1>9. Range(f) \subseteq Range(q)
  <2>1. \A i \in 1 .. Len(f) : i \in 1 .. Len(q)
    BY <1>3
  <2> QED
    BY <1>2, <1>b, <2>1, AmongMembers
<1>10. Len(f) = Len(q) => Range(q) \subseteq Range(f)
  <2> SUFFICES ASSUME Len(f) = Len(q), NEW i \in 1 .. Len(q) PROVE q[i] \in Range(f)
    BY <1>b, Members
  <2> QED
    BY <1>2, Members
<1>11. shed' = shed \/ dropped' > dropped \/ m # Len(buf)
  <2>1. CASE Len(f) = Len(buf)
    <3>1. Len(q) = Len(buf)
      BY <1>0, <1>b, <1>3, <2>1
    <3>2. Range(buf) \subseteq Range(queue')
      BY <1>7, <1>10, <1>b, <2>1, <3>1
    <3> QED
      BY <1>4, <3>2
  <2>2. CASE Len(f) # Len(buf)
    BY <1>0, <1>3, <1>6, <2>2
  <2> QED
    BY <2>1, <2>2
<1>12. queue # <<>> => queue' # <<>>
  BY <1>0, <1>3, <1>5
<1> QED
  BY <1>0, <1>b, <1>4, <1>5, <1>6, <1>7, <1>9, <1>11, <1>12

\* What the thread does with a read that is complete.
LEMMA QueueingFacts ==
  ASSUME WatchInv, ThreadQueues \/ ThreadRefuses
  PROVE  /\ queue' \in Seq(Nat) /\ dropped' \in Nat /\ dropped' >= dropped
         /\ Range(queue) \subseteq Range(queue')
         /\ Range(queue') \subseteq Range(queue) \cup Range(buf)
         /\ Range(buf) \cup bufLost \subseteq Range(queue') \cup shed' /\ shed \subseteq shed'
         /\ shed' = shed \/ dropped' > dropped \/ failed'
         /\ queue # <<>> => queue' # <<>>
         /\ failed => failed'
         /\ read = "done" /\ read' = "none" /\ buf' = <<>> /\ bufLost' = {}
         /\ thread = "wait" /\ (thread' = "issue" \/ (thread' = "ended" /\ failed'))
         /\ SignalData
         /\ UNCHANGED <<life, cmd, promised, armed, recording, os, osLost, changes, missed, told, given>>
<1>0. Sizes /\ Reading /\ buf \in Seq(Nat) /\ DOMAIN buf = 1 .. Len(buf) /\ Len(buf) \in Nat
  BY DEF WatchInv, Sizes
<1>1. CASE ThreadRefuses
  <2>1. PICK m \in 0 .. Len(buf) : \E at \in Kept(m) : Push(at, m)
    BY <1>1 DEF ThreadRefuses
  <2>2. buf # <<>> /\ bufLost = {}
    BY <1>0, <1>1 DEF ThreadRefuses, Reading
  <2>3. /\ read = "done" /\ read' = "none" /\ buf' = <<>> /\ bufLost' = {} /\ thread = "wait"
        /\ thread' = "ended" /\ failed' /\ SignalData
        /\ UNCHANGED <<life, cmd, promised, armed, recording, os, osLost, changes, missed, told, given>>
    BY <1>1 DEF ThreadRefuses, ThreadStays, commandVars, worldVars, readerVars
  <2> QED
    BY <1>0, <2>1, <2>2, <2>3, PushFacts
<1>2. CASE ThreadQueues
  <2>1. /\ read = "done" /\ read' = "none" /\ buf' = <<>> /\ bufLost' = {} /\ thread = "wait"
        /\ thread' = "issue" /\ failed' = failed /\ SignalData
        /\ UNCHANGED <<life, cmd, promised, armed, recording, os, osLost, changes, missed, told, given>>
    BY <1>2 DEF ThreadQueues, ThreadStays, commandVars, worldVars, readerVars
  <2>2. CASE bufLost # {}
    <3>1. dropped' = dropped + 1 /\ shed' = shed \cup bufLost /\ queue' = queue
      BY <1>2, <2>2 DEF ThreadQueues
    <3>2. Range(buf) = {}
      BY <1>0, <2>2 DEF Reading, Range
    <3> QED
      BY <1>0, <2>1, <3>1, <3>2 DEF Sizes
  <2>3. CASE bufLost = {}
    <3>1. PICK at \in Kept(Len(buf)) : Push(at, Len(buf))
      BY <1>2, <2>3 DEF ThreadQueues
    <3>2. Len(buf) \in 0 .. Len(buf)
      BY <1>0
    <3> QED
      BY <1>0, <2>1, <2>3, <3>1, <3>2, PushFacts
  <2> QED
    BY <2>2, <2>3
<1> QED
  BY <1>1, <1>2
------------------------------------------------------------------------------
(* Steps, by what they do to the changes.                                  *)

\* No change moves.
Rests ==
  /\ UNCHANGED <<queue, buf, bufLost, os, osLost, dropped, shed, given, told, missed, changes>>
  /\ failed => failed'

LEMMA WatchKinds ==
  ASSUME [Next]_vars
  PROVE  \/ Rests \/ DirectoryChanges \/ KernelCompletes \/ Drain
         \/ ThreadQueues \/ ThreadRefuses
<1>1. CASE KernelAborts \/ UNCHANGED vars
  BY <1>1 DEF KernelAborts, KernelStays, vars, commandVars, queueVars, kernelVars, worldVars,
       readerVars, Rests
<1>2. CASE ThreadBegins \/ ThreadIssues \/ ThreadFindsError \/ ThreadWaitFails \/ ThreadStops
           \/ ThreadFails \/ FailSignals
  BY <1>2 DEF ThreadBegins, ThreadIssues, ThreadFindsError, ThreadWaitFails, ThreadStops,
       ThreadFails, FailSignals, ThreadStays, queueVars, kernelVars, worldVars, readerVars, Rests
<1>3. CASE WatchStart \/ StartArmed \/ StartFails \/ WatchClose \/ Freed \/ FreeForces
           \/ FreeLeaks \/ ReadBegins \/ ReadWakes \/ WaitBegins \/ WaitReturns \/ WaitFails
  BY <1>3 DEF WatchStart, StartArmed, StartFails, WatchClose, FreeStarts, Freed, FreeForces,
       FreeLeaks, ReadBegins, ReadWakes, WaitBegins, WaitReturns, WaitFails, OnlyCommand,
       CommandStays, queueVars, kernelVars, worldVars, readerVars, Rests
<1> QED
  BY <1>1, <1>2, <1>3 DEF Next, Kernel, Thread, Interpreter

\* watch read takes the queue, or an error that stands for all that happened.
LEMMA DrainFacts ==
  ASSUME Drain
  PROVE  /\ UNCHANGED <<life, thread, armed, recording, read, failed, buf, bufLost, os, osLost, missed, changes>>
         /\ ~promised'
         /\ \/ /\ failed /\ told' = told \cup 1 .. changes
               /\ UNCHANGED <<queue, dropped, shed, given, dataEv>>
            \/ /\ ~failed /\ queue' = <<>> /\ dropped' = 0 /\ ~dataEv'
               /\ given' = given \cup Range(queue)
               /\ told' = (IF dropped > 0 THEN told \cup shed ELSE told)
               /\ shed' = (IF dropped > 0 THEN {} ELSE shed)
  BY DEF Drain, Drained, CommandStays, queueVars, kernelVars, worldVars

\* What a change does to the kernel's record.
LEMMA ChangeFacts ==
  ASSUME WatchInv, DirectoryChanges
  PROVE  /\ UNCHANGED <<life, cmd, promised, thread, armed, recording, read, failed, dataEv,
                        queue, dropped, shed, given, told, buf, bufLost>>
         /\ changes' = changes + 1
         /\ \/ missed' = missed \cup {changes'} /\ UNCHANGED <<os, osLost>>
            \/ /\ osLost' = osLost \cup Range(os) \cup {changes'} /\ os' = <<>>
               /\ missed' = missed
            \/ /\ osLost = {} /\ osLost' = {} /\ os' = Append(os, changes')
               /\ missed' = missed
  BY DEF DirectoryChanges, KernelStays, commandVars, queueVars, readerVars

\* What the completion of a read moves from the kernel to the thread.
LEMMA CompletionFacts ==
  ASSUME WatchInv, KernelCompletes
  PROVE  /\ UNCHANGED <<life, cmd, promised, thread, armed, recording, failed, dataEv,
                        queue, dropped, shed, given, told, missed, changes>>
         /\ read = "pending" /\ read' = "done" /\ buf = <<>> /\ bufLost = {}
         /\ buf' = os /\ bufLost' = osLost /\ os' = <<>> /\ osLost' = {}
  BY DEF KernelCompletes, KernelStays, commandVars, queueVars, readerVars, worldVars, WatchInv, Reading
------------------------------------------------------------------------------
(* WatchInv is inductive.                                                  *)

\* A watch before its start: nothing recorded, nothing queued.
LEMMA InitWatchInv == Init => WatchInv
<1> HAVE Init
<1>1. Sizes
  BY DEF Init, Sizes
<1>2. Course /\ Reading
  BY DEF Init, Course, Reading
<1>3. Signalled
  BY DEF Init, Signalled, Readable
<1>4. Range(queue) = {} /\ Range(buf) = {} /\ Range(os) = {}
  BY DEF Init, Range
<1>5. Accounts
  BY <1>4 DEF Init, Accounts
<1> QED
  BY <1>1, <1>2, <1>3, <1>5 DEF WatchInv

\* The queue, the buffer and the kernel's record hold numbers of changes, and the counters
\* never go below zero.
LEMMA SizesStep == ASSUME WatchInv, [Next]_vars PROVE Sizes'
<1>0. Sizes
  BY DEF WatchInv
<1>a. <<>> \in Seq(Nat)
  OBVIOUS
<1>1. CASE Rests
  BY <1>0, <1>1 DEF Sizes, Rests
<1>2. CASE DirectoryChanges
  <2>1. changes' \in Nat
    BY <1>0, <1>2, ChangeFacts DEF Sizes
  <2>2. Append(os, changes') \in Seq(Nat)
    <3>1. os \in Seq(Nat)
      BY <1>0 DEF Sizes
    <3> QED
      BY <2>1, <3>1, AppendProperties
  <2>3. os' \in {os, <<>>, Append(os, changes')} /\ UNCHANGED <<queue, buf, dropped>>
    BY <1>2, ChangeFacts
  <2> QED
    BY <1>0, <1>a, <2>1, <2>2, <2>3 DEF Sizes
<1>3. CASE KernelCompletes
  <2>1. buf' = os /\ os' = <<>> /\ UNCHANGED <<queue, dropped, changes>>
    BY <1>3, CompletionFacts
  <2> QED
    BY <1>0, <1>a, <2>1 DEF Sizes
<1>4. CASE Drain
  <2>1. queue' \in {queue, <<>>} /\ dropped' \in {dropped, 0} /\ UNCHANGED <<buf, os, changes>>
    BY <1>4, DrainFacts
  <2>2. 0 \in Nat /\ queue \in Seq(Nat) /\ dropped \in Nat
    BY <1>0 DEF Sizes
  <2>3. queue' \in Seq(Nat) /\ dropped' \in Nat
    BY <1>a, <2>1, <2>2
  <2> QED
    BY <1>0, <2>1, <2>3 DEF Sizes
<1>5. CASE ThreadQueues \/ ThreadRefuses
  <2>1. /\ queue' \in Seq(Nat) /\ dropped' \in Nat /\ buf' = <<>>
        /\ UNCHANGED <<os, changes>>
    BY <1>5, QueueingFacts
  <2> QED
    BY <1>0, <1>a, <2>1 DEF Sizes
<1> QED
  BY <1>1, <1>2, <1>3, <1>4, <1>5, WatchKinds

\* watch start hands out an armed watch, and only closing one stops the recording.
LEMMA CourseStep == ASSUME WatchInv, [Next]_vars PROVE Course'
<1>0. Course
  BY DEF WatchInv
<1>1. ASSUME UNCHANGED <<life, cmd, thread, armed, recording>>, failed => failed'
      PROVE  Course'
  BY <1>0, <1>1 DEF Course
<1>2. CASE DirectoryChanges
  BY <1>1, <1>2, ChangeFacts
<1>3. CASE KernelCompletes
  BY <1>1, <1>3, CompletionFacts
<1>4. CASE KernelAborts \/ UNCHANGED vars
  BY <1>1, <1>4 DEF KernelAborts, KernelStays, vars, commandVars, queueVars, kernelVars
<1>5. CASE ThreadQueues \/ ThreadRefuses
  BY <1>0, <1>5, QueueingFacts DEF Course
<1>6. CASE ThreadBegins \/ ThreadFindsError \/ ThreadWaitFails \/ ThreadStops \/ FailSignals
  BY <1>0, <1>6 DEF ThreadBegins, ThreadFindsError, ThreadWaitFails, ThreadStops, FailSignals,
       ThreadStays, commandVars, queueVars, kernelVars, Course
<1>7. CASE ThreadIssues
  BY <1>0, <1>7 DEF ThreadIssues, ThreadStays, commandVars, queueVars, Course
<1>8. CASE ThreadFails
  BY <1>0, <1>8 DEF ThreadFails, ThreadStays, commandVars, kernelVars, Course
<1>9. CASE WatchStart
  BY <1>0, <1>9 DEF WatchStart, CommandStays, queueVars, kernelVars, Course
<1>10. CASE StartArmed
  BY <1>0, <1>10 DEF StartArmed, OnlyCommand, CommandStays, queueVars, kernelVars, Course
<1>11. CASE StartFails \/ WatchClose
  BY <1>0, <1>11 DEF StartFails, WatchClose, FreeStarts, CommandStays, queueVars, kernelVars, Course
<1>12. CASE Freed \/ FreeForces
  BY <1>0, <1>12 DEF Freed, FreeForces, CommandStays, queueVars, Course
<1>13. CASE FreeLeaks \/ ReadBegins \/ ReadWakes \/ WaitBegins \/ WaitReturns \/ WaitFails
  BY <1>0, <1>13 DEF FreeLeaks, ReadBegins, ReadWakes, WaitBegins, WaitReturns, WaitFails,
       OnlyCommand, CommandStays, queueVars, kernelVars, Course
<1>14. CASE Drain
  <2>1. UNCHANGED <<life, thread, armed, recording, failed>> /\ cmd' = "idle"
    BY <1>14, DrainFacts DEF Drain
  <2> QED
    BY <1>0, <2>1 DEF Course
<1> QED
  BY <1>2, <1>3, <1>4, <1>5, <1>6, <1>7, <1>8, <1>9, <1>10, <1>11, <1>12, <1>13, <1>14
  DEF Next, Kernel, Thread, Interpreter

\* The thread issues a read when the one before it is over, and withdraws it when it stops.
LEMMA ReadingStep == ASSUME WatchInv, [Next]_vars PROVE Reading'
<1>0. Reading /\ Course
  BY DEF WatchInv
<1>1. ASSUME UNCHANGED <<thread, read, buf, bufLost, os, osLost>>, failed => failed'
      PROVE  Reading'
  BY <1>0, <1>1 DEF Reading
<1>2. CASE DirectoryChanges
  BY <1>0, <1>2, ChangeFacts DEF Reading
<1>3. CASE KernelCompletes
  BY <1>0, <1>3, CompletionFacts DEF Reading
<1>4. CASE KernelAborts
  BY <1>0, <1>4 DEF KernelAborts, KernelStays, queueVars, Reading
<1>5. CASE ThreadQueues \/ ThreadRefuses
  BY <1>0, <1>5, QueueingFacts DEF Reading
<1>6. CASE ThreadBegins \/ ThreadFindsError \/ ThreadWaitFails \/ ThreadStops
  BY <1>0, <1>6 DEF ThreadBegins, ThreadFindsError, ThreadWaitFails, ThreadStops,
       queueVars, kernelVars, Reading
<1>7. CASE ThreadIssues
  BY <1>0, <1>7 DEF ThreadIssues, queueVars, Reading
<1>8. CASE ThreadFails \/ FailSignals
  BY <1>0, <1>8 DEF ThreadFails, FailSignals, kernelVars, Reading, Course
<1>9. CASE WatchStart
  BY <1>0, <1>9 DEF WatchStart, queueVars, kernelVars, Reading, Course
<1>10. CASE StartArmed \/ FreeLeaks \/ ReadBegins \/ ReadWakes \/ WaitBegins \/ WaitReturns
            \/ WaitFails \/ StartFails \/ WatchClose \/ UNCHANGED vars
  BY <1>1, <1>10 DEF StartArmed, FreeLeaks, ReadBegins, ReadWakes, WaitBegins, WaitReturns,
       WaitFails, StartFails, WatchClose, FreeStarts, OnlyCommand, queueVars, kernelVars, vars
<1>11. CASE Freed \/ FreeForces
  BY <1>0, <1>11 DEF Freed, FreeForces, queueVars, Reading
<1>12. CASE Drain
  BY <1>1, <1>12, DrainFacts
<1> QED
  BY <1>2, <1>3, <1>4, <1>5, <1>6, <1>7, <1>8, <1>9, <1>10, <1>11, <1>12
  DEF Next, Kernel, Thread, Interpreter

\* The queue grows and the event is set in one critical section, and both are taken back
\* in another.
LEMMA SignalledStep == ASSUME WatchInv, [Next]_vars PROVE Signalled'
<1>0. Signalled /\ Course /\ dropped \in Nat
  BY DEF WatchInv, Sizes
<1>1. ASSUME UNCHANGED <<thread, queue, dropped, failed, dataEv>>, promised' => promised \/ Readable
      PROVE  Signalled'
  BY <1>0, <1>1 DEF Signalled, Readable
<1>2. CASE DirectoryChanges
  BY <1>1, <1>2, ChangeFacts
<1>3. CASE KernelCompletes
  BY <1>1, <1>3, CompletionFacts
<1>4. CASE KernelAborts \/ UNCHANGED vars
  BY <1>1, <1>4 DEF KernelAborts, KernelStays, vars, commandVars, queueVars
<1>5. CASE ThreadQueues \/ ThreadRefuses
  <2>1. Readable => Readable'
    <3>1. dropped > 0 => dropped' > 0
      BY <1>0, <1>5, QueueingFacts
    <3>2. (queue # <<>> => queue' # <<>>) /\ (failed => failed')
      BY <1>5, QueueingFacts
    <3> QED
      BY <3>1, <3>2 DEF Readable
  <2>2. dataEv' = (dataEv \/ Readable') /\ promised' = promised
    BY <1>5, QueueingFacts DEF SignalData
  <2> QED
    BY <1>0, <2>1, <2>2 DEF Signalled
<1>6. CASE ThreadBegins \/ ThreadIssues \/ ThreadFindsError \/ ThreadWaitFails \/ ThreadStops
  <2>1. thread # "signal" /\ UNCHANGED <<promised, queue, dropped, failed, dataEv>>
    BY <1>6 DEF ThreadBegins, ThreadIssues, ThreadFindsError, ThreadWaitFails, ThreadStops,
         ThreadStays, commandVars, queueVars
  <2> QED
    BY <1>0, <2>1 DEF Signalled, Readable
<1>7. CASE ThreadFails
  BY <1>0, <1>7 DEF ThreadFails, ThreadStays, commandVars, Signalled, Readable
<1>8. CASE FailSignals
  BY <1>0, <1>8 DEF FailSignals, ThreadStays, commandVars, Signalled, Readable, Course
<1>9. CASE WatchStart
  BY <1>0, <1>9 DEF WatchStart, queueVars, Signalled, Readable, Course
<1>10. CASE StartArmed \/ FreeLeaks \/ ReadBegins \/ ReadWakes \/ WaitFails \/ StartFails
            \/ WatchClose \/ Freed \/ FreeForces
  BY <1>1, <1>10 DEF StartArmed, FreeLeaks, ReadBegins, ReadWakes, WaitFails, StartFails,
       WatchClose, FreeStarts, Freed, FreeForces, OnlyCommand, queueVars
<1>11. CASE WaitBegins
  BY <1>1, <1>11 DEF WaitBegins, OnlyCommand, queueVars
<1>12. CASE WaitReturns
  BY <1>0, <1>1, <1>12 DEF WaitReturns, OnlyCommand, queueVars, Signalled
<1>13. CASE Drain
  BY <1>0, <1>13, DrainFacts DEF Signalled, Readable
<1> QED
  BY <1>2, <1>3, <1>4, <1>5, <1>6, <1>7, <1>8, <1>9, <1>10, <1>11, <1>12, <1>13
  DEF Next, Kernel, Thread, Interpreter

\* Wherever a change goes, those before it are there or have gone on.
LEMMA AccountsStep == ASSUME WatchInv, [Next]_vars PROVE Accounts'
<1>0. Accounts /\ Sizes /\ Reading
  BY DEF WatchInv
<1>1. CASE Rests
  BY <1>0, <1>1 DEF Rests, Accounts, Covered, Held
<1>2. CASE DirectoryChanges
  <2>1. /\ UNCHANGED <<failed, queue, dropped, shed, given, told, buf, bufLost>>
        /\ changes' = changes + 1 /\ missed \subseteq missed'
    BY <1>2, ChangeFacts
  <2>2. Covered \subseteq Covered' /\ Held \subseteq Held'
    BY <2>1 DEF Covered, Held
  <2>3. Range(os) \cup osLost \cup {changes'} \subseteq missed' \cup Range(os') \cup osLost'
    <3>0. os \in Seq(Nat) /\ changes' \in Nat
      BY <1>0, <2>1 DEF Sizes
    <3>1. os' = Append(os, changes') => Range(os') = Range(os) \cup {changes'}
      BY <3>0, MembersOfAppend
    <3> QED
      BY <1>2, <3>1, ChangeFacts
  <2>4. \A e \in 1 .. changes' : e \in Held' \cup Range(os') \cup osLost'
    <3>1. \A e \in 1 .. changes' : e \in 1 .. changes \/ e = changes'
      BY <1>0, <2>1 DEF Sizes
    <3>2. missed' \subseteq Held'
      BY DEF Covered, Held
    <3> QED
      BY <1>0, <2>2, <2>3, <3>1, <3>2 DEF Accounts
  <2>5. \A c \in Range(os'), e \in Change : e < c => e \in Held' \cup Range(os')
    <3>1. \A e \in Change : e < changes' => e \in 1 .. changes
      BY <1>0, <2>1 DEF Sizes, Change
    <3>2. CASE os' = os
      BY <1>0, <2>2, <3>2 DEF Accounts
    <3>3. CASE os' = <<>>
      BY <3>3 DEF Range
    <3>4. CASE osLost = {} /\ os' = Append(os, changes')
      <4>1. Range(os') = Range(os) \cup {changes'}
        BY <1>0, <2>1, <3>4, MembersOfAppend DEF Sizes
      <4>2. \A e \in Change : e < changes' => e \in Held \cup Range(os)
        BY <1>0, <3>1, <3>4 DEF Accounts
      <4> QED
        BY <1>0, <2>2, <4>1, <4>2 DEF Accounts
    <3> QED
      BY <1>2, <3>2, <3>3, <3>4, ChangeFacts
  <2>6. shed' # {} => dropped' > 0 \/ failed'
    BY <1>0, <2>1 DEF Accounts
  <2>7. \A c \in given', e \in Change : e < c => e \in given' \cup told' \cup missed'
    BY <1>0, <2>1 DEF Accounts
  <2>8. \A c \in Range(queue'), e \in Change : e < c => e \in Covered'
    BY <1>0, <2>1, <2>2 DEF Accounts
  <2>9. \A c \in Range(buf'), e \in Change : e < c => e \in Covered' \cup Range(buf')
    BY <1>0, <2>1, <2>2 DEF Accounts
  <2> QED
    BY <2>4, <2>5, <2>6, <2>7, <2>8, <2>9 DEF Accounts
<1>3. CASE KernelCompletes
  <2>1. /\ UNCHANGED <<failed, queue, dropped, shed, given, told, missed, changes>>
        /\ bufLost = {} /\ buf' = os /\ bufLost' = osLost /\ osLost' = {}
    BY <1>3, CompletionFacts
  <2>2. Range(buf) = {} /\ Range(os') = {}
    BY <1>3, CompletionFacts DEF Range
  <2>3. Covered' = Covered /\ Held = Covered /\ Held' = Covered \cup Range(os) \cup osLost
    BY <2>1, <2>2 DEF Covered, Held
  <2>4. shed' # {} => dropped' > 0 \/ failed'
    BY <1>0, <2>1 DEF Accounts
  <2>5. \A c \in given', e \in Change : e < c => e \in given' \cup told' \cup missed'
    BY <1>0, <2>1 DEF Accounts
  <2>6. \A c \in Range(queue'), e \in Change : e < c => e \in Covered'
    BY <1>0, <2>1, <2>3 DEF Accounts
  <2>7. \A c \in Range(buf'), e \in Change : e < c => e \in Covered' \cup Range(buf')
    BY <1>0, <2>1, <2>3 DEF Accounts
  <2>8. \A e \in 1 .. changes' : e \in Held' \cup Range(os') \cup osLost'
    BY <1>0, <2>1, <2>3 DEF Accounts
  <2> QED
    BY <2>2, <2>4, <2>5, <2>6, <2>7, <2>8 DEF Accounts
<1>4. CASE ThreadQueues \/ ThreadRefuses
  <2>1. /\ dropped \in Nat /\ dropped' \in Nat /\ dropped' >= dropped
        /\ shed' = shed \/ dropped' > dropped \/ failed'
        /\ failed => failed'
        /\ UNCHANGED <<os, osLost, changes, missed, told, given>>
    BY <1>0, <1>4, QueueingFacts DEF Sizes
  <2>2. /\ Range(queue) \subseteq Range(queue') /\ shed \subseteq shed'
        /\ Range(queue') \subseteq Range(queue) \cup Range(buf)
        /\ Range(buf) \cup bufLost \subseteq Range(queue') \cup shed'
    BY <1>4, QueueingFacts
  <2>3. Range(buf') = {}
    BY <1>4, QueueingFacts DEF Range
  <2>4. Covered \subseteq Covered' /\ Held \subseteq Covered' /\ Covered' \subseteq Held'
    BY <2>1, <2>2 DEF Covered, Held
  <2>5. shed' # {} => dropped' > 0 \/ failed'
    BY <1>0, <2>1 DEF Accounts
  <2>6. \A c \in given', e \in Change : e < c => e \in given' \cup told' \cup missed'
    BY <1>0, <2>1 DEF Accounts
  <2>7. \A c \in Range(queue'), e \in Change : e < c => e \in Covered'
    <3>1. Range(buf) \subseteq Covered'
      BY <2>2 DEF Covered
    <3> QED
      BY <1>0, <2>2, <2>4, <3>1 DEF Accounts
  <2>8. \A c \in Range(os'), e \in Change : e < c => e \in Held' \cup Range(os')
    BY <1>0, <2>1, <2>4 DEF Accounts
  <2>9. \A e \in 1 .. changes' : e \in Held' \cup Range(os') \cup osLost'
    BY <1>0, <2>1, <2>4 DEF Accounts
  <2> QED
    BY <2>3, <2>5, <2>6, <2>7, <2>8, <2>9 DEF Accounts
<1>5. CASE Drain
  <2>1. UNCHANGED <<failed, buf, bufLost, os, osLost, missed, changes>>
    BY <1>5, DrainFacts
  <2>2. CASE failed /\ told' = told \cup 1 .. changes /\ UNCHANGED <<queue, dropped, shed, given>>
    <3>1. Covered \subseteq Covered' /\ Held \subseteq Held' /\ told \subseteq told'
      BY <2>1, <2>2 DEF Covered, Held
    <3>2. \A c \in given', e \in Change : e < c => e \in given' \cup told' \cup missed'
      BY <1>0, <2>1, <2>2, <3>1 DEF Accounts
    <3> QED
      BY <1>0, <2>1, <2>2, <3>1, <3>2 DEF Accounts
  <2>3. CASE /\ ~failed /\ queue' = <<>> /\ dropped' = 0
             /\ given' = given \cup Range(queue)
             /\ told' = (IF dropped > 0 THEN told \cup shed ELSE told)
             /\ shed' = (IF dropped > 0 THEN {} ELSE shed)
    <3>1. Range(queue') = {}
      BY <2>3 DEF Range
    <3>2. shed' = {} /\ told' = told \cup shed
      BY <1>0, <2>3 DEF Accounts
    <3>3. given' \cup told' \cup missed' = Covered /\ Covered' = Covered /\ Held' = Held
      BY <2>1, <2>3, <3>1, <3>2 DEF Covered, Held
    <3>4. \A c \in given', e \in Change : e < c => e \in Covered
      <4>1. given \cup told \cup missed \subseteq Covered
        BY DEF Covered
      <4> QED
        BY <1>0, <2>3, <4>1 DEF Accounts
    <3> QED
      BY <1>0, <2>1, <3>1, <3>2, <3>3, <3>4 DEF Accounts
  <2> QED
    BY <1>5, <2>2, <2>3, DrainFacts
<1> QED
  BY <1>1, <1>2, <1>3, <1>4, <1>5, WatchKinds
------------------------------------------------------------------------------
\* The invariant is inductive: no step of kernel, thread or interpreter breaks it.
LEMMA WatchInvStep == WatchInv /\ [Next]_vars => WatchInv'
<1> HAVE WatchInv /\ [Next]_vars
<1> QED
  BY SizesStep, CourseStep, ReadingStep, SignalledStep, AccountsStep DEF WatchInv

\* A live watch records, what is dropped is counted or the watch has failed, and no read
\* returns a change while an earlier one has vanished untold: whatever the sizes of the
\* queue and of the kernel's buffer (watch_push, watch_thread, watch read).
THEOREM NoSilentGapHolds == Spec => []NoSilentGap
<1>1. WatchInv => NoSilentGap
  BY DEF WatchInv, Course, Accounts, NoSilentGap
<1> QED
  BY <1>1, InitWatchInv, WatchInvStep, PTL DEF Spec

\* The event of a live watch is set exactly while there is something to read, but for a
\* thread that is about to set it, and a token that wait returned can be read.
THEOREM EventIsTheQueueHolds == Spec => []EventIsTheQueue
<1>1. WatchInv => EventIsTheQueue
  BY DEF WatchInv, Signalled, EventIsTheQueue
<1> QED
  BY <1>1, InitWatchInv, WatchInvStep, PTL DEF Spec

\* watch_free releases a watch only when its thread has ended, and a thread that was
\* stopped has withdrawn its read.
THEOREM StopIsCleanHolds == Spec => []StopIsClean
<1>1. WatchInv => StopIsClean
  BY DEF WatchInv, Course, Reading, StopIsClean
<1> QED
  BY <1>1, InitWatchInv, WatchInvStep, PTL DEF Spec

(***************************************************************************)
(* What Coalesce promises of every batch, of any length. Records of a rename   *)
(* stand side by side as long as none was dropped, and the last record of a    *)
(* name says whether it is in use.                                           *)
(***************************************************************************)

Folds == INSTANCE SeqProofs WITH Step <- Append

Actions == {"added", "removed", "modified", "renamed-old", "renamed-new"}
Record == [action : Actions, path : Names \ Unnamable]
BatchTypes ==
  /\ exists \in SUBSET Names /\ before \in SUBSET Names /\ batch \in Seq(Record)
  /\ renames \subseteq Names \X Names /\ droppedNames \in Nat
  /\ coming = None \/ coming \in exists

\* A rename that was not cut by a read has its records one after the other, or its new
\* name is yet to come; then nothing else is reported meanwhile.
Paired ==
  /\ \A i \in DOMAIN batch : batch[i].action = "renamed-old" /\ i # Len(batch) =>
       i + 1 \in DOMAIN batch /\ batch[i + 1].action = "renamed-new"
         /\ <<batch[i].path, batch[i + 1].path>> \in renames
  /\ batch # <<>> /\ batch[Len(batch)].action = "renamed-old" =>
       coming # None /\ <<batch[Len(batch)].path, coming>> \in renames
  /\ batch # <<>> /\ coming # None => batch[Len(batch)].action = "renamed-old"

\* A name that came and stayed has a record of its coming, and none of its leaving after that.
Arrivals ==
  \A n \in exists \ (before \cup {coming}) :
    \E i \in DOMAIN batch :
      /\ batch[i].path = n /\ batch[i].action \in {"added", "renamed-new"}
      /\ \A j \in DOMAIN batch : batch[j].path = n /\ batch[j].action = "removed" => j < i

\* The last record of a name that is free is one of its leaving.
Latest(i) == \A j \in DOMAIN batch : j > i => batch[j].path # batch[i].path
Departures ==
  \A i \in DOMAIN batch : batch[i].path \notin exists /\ Latest(i) =>
    batch[i].action \in {"removed", "renamed-old"}

BatchInv == BatchTypes /\ (droppedNames = 0 => Paired /\ Arrivals /\ Departures)

LEMMA BatchInitially == BatchInit => BatchInv
<1> SUFFICES ASSUME BatchInit PROVE BatchInv
  OBVIOUS
<1>1. batch \in Seq(Record) /\ DOMAIN batch = {} /\ batch = <<>>
  BY EmptySeq DEF BatchInit
<1>2. exists \ (before \cup {coming}) = {}
  BY DEF BatchInit
<1> QED BY <1>1, <1>2, NamesAssumption DEF BatchInit, BatchInv, BatchTypes, Paired, Arrivals, Departures

\* What a record adds to the batch.
LEMMA ReportIs ==
  ASSUME BatchTypes, NEW action \in Actions, NEW n \in Names, Report(action, n)
  PROVE  /\ batch' \in Seq(Record) /\ droppedNames' \in Nat
         /\ droppedNames' = 0 =>
              /\ droppedNames = 0
              /\ DOMAIN batch' = DOMAIN batch \cup {Len(batch')} /\ Len(batch') = Len(batch) + 1
              /\ Len(batch) \in Nat /\ DOMAIN batch = 1 .. Len(batch)
              /\ \A i \in DOMAIN batch : batch'[i] = batch[i] /\ i # Len(batch')
              /\ batch'[Len(batch')].action = action /\ batch'[Len(batch')].path = n
<1> DEFINE r == [action |-> action, path |-> n]
<1>1. CASE n \in Unnamable
  BY <1>1 DEF Report, BatchTypes
<1>2. CASE n \notin Unnamable
  <2>1. r \in Record /\ r.action = action /\ r.path = n
    BY <1>2 DEF Record
  <2>2. batch' = Append(batch, r) /\ droppedNames' = droppedNames
    BY <1>2 DEF Report
  <2> HIDE DEF r
  <2>3. batch \in Seq(Record) /\ Len(batch) \in Nat /\ DOMAIN batch = 1 .. Len(batch)
    BY LenProperties DEF BatchTypes
  <2>4. /\ batch' \in Seq(Record) /\ Len(batch') = Len(batch) + 1
        /\ \A i \in 1 .. Len(batch) : batch'[i] = batch[i]
        /\ batch'[Len(batch) + 1] = r
    BY <2>1, <2>2, <2>3, AppendProperties
  <2>5. DOMAIN batch' = 1 .. Len(batch')
    BY <2>4, LenProperties
  <2> QED BY <2>1, <2>2, <2>3, <2>4, <2>5 DEF BatchTypes
<1> QED BY <1>1, <1>2

LEMMA BatchStep == BatchInv /\ [BatchNext]_batchVars => BatchInv'
<1> SUFFICES ASSUME BatchInv, [BatchNext]_batchVars PROVE BatchInv'
  OBVIOUS
<1> USE DEF BatchInv
<1>0. None \notin Names
  BY NamesAssumption
<1>1. ASSUME NEW n \in Names, Create(n) PROVE BatchInv'
  <2>1. Report("added", n) /\ "added" \in Actions
    BY <1>1 DEF Create, Actions
  <2>2. coming = None /\ n \notin exists /\ exists' = exists \cup {n} /\ UNCHANGED <<coming, renames, before>>
    BY <1>1 DEF Create, Room
  <2>3. BatchTypes'
    BY <2>1, <2>2, ReportIs DEF BatchTypes
  <2>4. ASSUME droppedNames' = 0 PROVE Paired' /\ Arrivals' /\ Departures'
    <3>1. /\ DOMAIN batch' = DOMAIN batch \cup {Len(batch')} /\ Len(batch') = Len(batch) + 1
          /\ Len(batch) \in Nat /\ DOMAIN batch = 1 .. Len(batch) /\ droppedNames = 0
          /\ \A i \in DOMAIN batch : batch'[i] = batch[i] /\ i # Len(batch')
          /\ batch'[Len(batch')].action = "added" /\ batch'[Len(batch')].path = n
      BY <2>1, <2>4, ReportIs
    <3>2. Paired'
      BY <2>2, <3>1 DEF Paired
    <3>3. Arrivals'
      BY <2>2, <3>1 DEF Arrivals
    <3>4. Departures'
      BY <2>2, <3>1 DEF Departures, Latest
    <3> QED BY <3>2, <3>3, <3>4
  <2> QED BY <2>3, <2>4
<1>2. ASSUME NEW n \in Names, Delete(n) PROVE BatchInv'
  <2>1. Report("removed", n) /\ "removed" \in Actions
    BY <1>2 DEF Delete, Actions
  <2>2. coming = None /\ n \in exists /\ exists' = exists \ {n} /\ UNCHANGED <<coming, renames, before>>
    BY <1>2 DEF Delete, Room
  <2>3. BatchTypes'
    BY <2>1, <2>2, ReportIs DEF BatchTypes
  <2>4. ASSUME droppedNames' = 0 PROVE Paired' /\ Arrivals' /\ Departures'
    <3>1. /\ DOMAIN batch' = DOMAIN batch \cup {Len(batch')} /\ Len(batch') = Len(batch) + 1
          /\ Len(batch) \in Nat /\ DOMAIN batch = 1 .. Len(batch) /\ droppedNames = 0
          /\ \A i \in DOMAIN batch : batch'[i] = batch[i] /\ i # Len(batch')
          /\ batch'[Len(batch')].action = "removed" /\ batch'[Len(batch')].path = n
      BY <2>1, <2>4, ReportIs
    <3>2. Paired'
      BY <2>2, <3>1 DEF Paired
    <3>3. Arrivals'
      BY <2>2, <3>1 DEF Arrivals
    <3>4. Departures'
      BY <2>2, <3>1 DEF Departures, Latest
    <3> QED BY <3>2, <3>3, <3>4
  <2> QED BY <2>3, <2>4
<1>3. ASSUME NEW n \in Names, Modify(n) PROVE BatchInv'
  <2>1. Report("modified", n) /\ "modified" \in Actions
    BY <1>3 DEF Modify, Actions
  <2>2. coming = None /\ n \in exists /\ UNCHANGED <<exists, coming, renames, before>>
    BY <1>3 DEF Modify, Room
  <2>3. BatchTypes'
    BY <2>1, <2>2, ReportIs DEF BatchTypes
  <2>4. ASSUME droppedNames' = 0 PROVE Paired' /\ Arrivals' /\ Departures'
    <3>1. /\ DOMAIN batch' = DOMAIN batch \cup {Len(batch')} /\ Len(batch') = Len(batch) + 1
          /\ Len(batch) \in Nat /\ DOMAIN batch = 1 .. Len(batch) /\ droppedNames = 0
          /\ \A i \in DOMAIN batch : batch'[i] = batch[i] /\ i # Len(batch')
          /\ batch'[Len(batch')].action = "modified" /\ batch'[Len(batch')].path = n
      BY <2>1, <2>4, ReportIs
    <3>2. Paired'
      BY <2>2, <3>1 DEF Paired
    <3>3. Arrivals'
      BY <2>2, <3>1 DEF Arrivals
    <3>4. Departures'
      BY <2>2, <3>1 DEF Departures, Latest
    <3> QED BY <3>2, <3>3, <3>4
  <2> QED BY <2>3, <2>4
<1>4. ASSUME NEW m \in Names, NEW n \in Names, RenameFrom(m, n) PROVE BatchInv'
  <2>1. Report("renamed-old", m) /\ "renamed-old" \in Actions
    BY <1>4 DEF RenameFrom, Actions
  <2>2. /\ coming = None /\ m \in exists /\ n \notin exists /\ exists' = (exists \ {m}) \cup {n}
        /\ coming' = n /\ renames' = renames \cup {<<m, n>>} /\ before' = before
    BY <1>4 DEF RenameFrom, Room
  <2>3. BatchTypes'
    BY <2>1, <2>2, ReportIs DEF BatchTypes
  <2>4. ASSUME droppedNames' = 0 PROVE Paired' /\ Arrivals' /\ Departures'
    <3>1. /\ DOMAIN batch' = DOMAIN batch \cup {Len(batch')} /\ Len(batch') = Len(batch) + 1
          /\ Len(batch) \in Nat /\ DOMAIN batch = 1 .. Len(batch) /\ droppedNames = 0
          /\ \A i \in DOMAIN batch : batch'[i] = batch[i] /\ i # Len(batch')
          /\ batch'[Len(batch')].action = "renamed-old" /\ batch'[Len(batch')].path = m
      BY <2>1, <2>4, ReportIs
    <3>2. Paired'
      BY <1>0, <2>2, <3>1 DEF Paired
    <3>3. Arrivals'
      <4>1. \A x \in exists' \ (before' \cup {coming'}) : x \in exists \ (before \cup {coming})
        BY <1>0, <2>2 DEF BatchTypes
      <4> QED BY <3>1, <4>1 DEF Arrivals
    <3>4. Departures'
      BY <2>2, <3>1 DEF Departures, Latest
    <3> QED BY <3>2, <3>3, <3>4
  <2> QED BY <2>3, <2>4
<1>5. ASSUME RenameTo PROVE BatchInv'
  <2>1. Report("renamed-new", coming) /\ "renamed-new" \in Actions /\ coming \in Names
    BY <1>5 DEF RenameTo, Actions, BatchTypes
  <2>2. coming # None /\ coming \in exists /\ coming' = None /\ UNCHANGED <<exists, renames, before>>
    BY <1>5 DEF RenameTo, BatchTypes
  <2>3. BatchTypes'
    BY <2>1, <2>2, ReportIs DEF BatchTypes
  <2>4. ASSUME droppedNames' = 0 PROVE Paired' /\ Arrivals' /\ Departures'
    <3>1. /\ DOMAIN batch' = DOMAIN batch \cup {Len(batch')} /\ Len(batch') = Len(batch) + 1
          /\ Len(batch) \in Nat /\ DOMAIN batch = 1 .. Len(batch) /\ droppedNames = 0
          /\ \A i \in DOMAIN batch : batch'[i] = batch[i] /\ i # Len(batch')
          /\ batch'[Len(batch')].action = "renamed-new" /\ batch'[Len(batch')].path = coming
      BY <2>1, <2>4, ReportIs
    <3>2. Paired'
      <4>1. ASSUME NEW i \in DOMAIN batch', batch'[i].action = "renamed-old", i # Len(batch')
            PROVE  /\ i + 1 \in DOMAIN batch' /\ batch'[i + 1].action = "renamed-new"
                   /\ <<batch'[i].path, batch'[i + 1].path>> \in renames
        <5>1. i \in DOMAIN batch /\ batch'[i] = batch[i] /\ i \in Int
          BY <3>1, <4>1
        <5>2. CASE i = Len(batch)
          <6>1. batch # <<>>
            BY <3>1, <5>1
          <6> QED BY <3>1, <4>1, <5>1, <5>2, <6>1 DEF Paired
        <5>3. CASE i # Len(batch)
          <6>1. i + 1 \in DOMAIN batch /\ batch[i + 1].action = "renamed-new" /\ <<batch[i].path, batch[i + 1].path>> \in renames
            BY <3>1, <4>1, <5>1, <5>3 DEF Paired
          <6> QED BY <3>1, <5>1, <6>1
        <5> QED BY <5>2, <5>3
      <4>2. batch'[Len(batch')].action # "renamed-old" /\ coming' = None /\ renames' = renames
        BY <2>2, <3>1
      <4> QED BY <4>1, <4>2 DEF Paired
    <3>3. Arrivals'
      BY <2>2, <3>1 DEF Arrivals
    <3>4. Departures'
      BY <2>2, <3>1 DEF Departures, Latest
    <3> QED BY <3>2, <3>3, <3>4
  <2> QED BY <2>3, <2>4
<1>6. CASE Read
  <2>1. /\ batch' = <<>> /\ droppedNames' = 0 /\ renames' = {} /\ before' = exists \ {coming}
        /\ UNCHANGED <<exists, coming>>
    BY <1>6 DEF Read
  <2>2. batch' \in Seq(Record) /\ DOMAIN batch' = {}
    BY <2>1, EmptySeq
  <2> QED BY <2>1, <2>2 DEF BatchTypes, Paired, Arrivals, Departures
<1>7. CASE UNCHANGED batchVars
  <2>1. UNCHANGED <<exists, coming, batch, droppedNames, renames, before>>
    BY <1>7 DEF batchVars
  <2>2. BatchTypes'
    BY <2>1 DEF BatchTypes
  <2>3. droppedNames = 0 => Paired' /\ Arrivals'
    BY <2>1 DEF Paired, Arrivals
  <2>4. droppedNames = 0 => Departures'
    BY <2>1 DEF Departures, Latest
  <2> QED BY <2>1, <2>2, <2>3, <2>4
<1> QED BY <1>1, <1>2, <1>3, <1>4, <1>5, <1>6, <1>7 DEF BatchNext

LEMMA BatchInvHolds == BatchSpec => []BatchInv
BY BatchInitially, BatchStep, PTL DEF BatchSpec
---------------------------------------------------------------------------
(* The rows of such a batch.                                                 *)

\* A set of positions has a least and a greatest one, and Min and Max are they.
LEMMA Positions ==
  ASSUME BatchTypes, NEW S \in SUBSET DOMAIN batch, S # {}
  PROVE  /\ Min(S) \in S /\ \A x \in S : Min(S) <= x
         /\ Max(S) \in S /\ \A x \in S : Max(S) >= x
<1>1. Len(batch) \in Nat /\ DOMAIN batch = 1 .. Len(batch)
  BY LenProperties DEF BatchTypes
<1>2. S \in SUBSET (1 .. Len(batch)) /\ S \in SUBSET Nat
  BY <1>1
<1>3. \E x \in S : \A y \in S : x <= y
  BY <1>2, Folds!LeastNat
<1>4. Min(S) \in S /\ \A x \in S : Min(S) <= x
  BY <1>3 DEF Min
<1>5. Max(S) \in S /\ \A x \in S : Max(S) >= x
  BY <1>1, <1>2, Folds!MaxIs DEF Max, Folds!Max
<1> QED BY <1>4, <1>5

\* A new name is joined with the record just before it, if at all.
LEMMA JoinIs ==
  ASSUME BatchTypes, Paired
  PROVE  /\ \A i \in Joined(batch) : i \in DOMAIN batch /\ i # Len(batch) /\ batch[i].action = "renamed-old"
         /\ \A i \in DOMAIN batch : batch[i].action = "renamed-old" /\ i # Len(batch) =>
              i \in Joined(batch) /\ i \in JoinedWith(batch, i + 1)
         /\ \A j : JoinedWith(batch, j) # {} =>
              /\ JoinedWith(batch, j) = {j - 1} /\ j - 1 \in DOMAIN batch /\ j \in DOMAIN batch
              /\ Max(JoinedWith(batch, j)) = j - 1
              /\ batch[j - 1].action = "renamed-old"
              /\ <<batch[j - 1].path, batch[j].path>> \in renames
<1>0. Len(batch) \in Nat /\ DOMAIN batch = 1 .. Len(batch)
  BY LenProperties DEF BatchTypes
<1>1. \A i \in Joined(batch) : i \in DOMAIN batch /\ i # Len(batch) /\ batch[i].action = "renamed-old"
  BY <1>0 DEF Joined, NewNamesAfter, Reports
<1>2. ASSUME NEW i \in DOMAIN batch, batch[i].action = "renamed-old", i # Len(batch)
      PROVE  i \in Joined(batch) /\ Min(NewNamesAfter(batch, i)) = i + 1
  <2>1. i + 1 \in NewNamesAfter(batch, i)
    <3>1. i + 1 \in DOMAIN batch /\ batch[i + 1].action = "renamed-new"
      BY <1>2 DEF Paired
    <3>2. i + 1 > i
      BY <1>0
    <3> QED BY <3>1, <3>2 DEF NewNamesAfter, Reports
  <2>2. NewNamesAfter(batch, i) \in SUBSET DOMAIN batch /\ \A x \in NewNamesAfter(batch, i) : x > i
    BY DEF NewNamesAfter, Reports
  <2>3. i \in Joined(batch)
    BY <1>2, <2>1 DEF Joined, Reports
  <2>4. Min(NewNamesAfter(batch, i)) \in NewNamesAfter(batch, i) /\ Min(NewNamesAfter(batch, i)) <= i + 1
    BY <2>1, <2>2, Positions
  <2>5. Min(NewNamesAfter(batch, i)) \in Int /\ Min(NewNamesAfter(batch, i)) > i /\ i \in Int
    BY <1>0, <2>2, <2>4
  <2> QED BY <2>3, <2>4, <2>5
<1>3. ASSUME NEW j, JoinedWith(batch, j) # {}
      PROVE  /\ JoinedWith(batch, j) = {j - 1} /\ j - 1 \in DOMAIN batch /\ j \in DOMAIN batch
             /\ Max(JoinedWith(batch, j)) = j - 1
             /\ batch[j - 1].action = "renamed-old"
             /\ <<batch[j - 1].path, batch[j].path>> \in renames
  <2>1. \A i \in JoinedWith(batch, j) : i \in DOMAIN batch /\ i # Len(batch) /\ batch[i].action = "renamed-old" /\ j = i + 1
    BY <1>1, <1>2 DEF JoinedWith
  <2>2. PICK i \in JoinedWith(batch, j) : TRUE
    BY <1>3
  <2>3. i \in Int /\ j = i + 1 /\ i = j - 1
    BY <1>0, <2>1
  <2>4. JoinedWith(batch, j) = {j - 1} /\ j - 1 \in DOMAIN batch
    <3>1. \A k \in JoinedWith(batch, j) : k = j - 1
      BY <1>0, <2>1
    <3> QED BY <2>1, <2>3, <3>1
  <2>5. Max(JoinedWith(batch, j)) = j - 1
    <3>1. JoinedWith(batch, j) \in SUBSET DOMAIN batch
      BY <2>4
    <3> QED BY <1>3, <2>4, <3>1, Positions
  <2>6. batch[i].action = "renamed-old" /\ i + 1 \in DOMAIN batch /\ <<batch[i].path, batch[i + 1].path>> \in renames
    BY <2>1 DEF Paired
  <2> QED BY <2>3, <2>4, <2>5, <2>6
<1> QED BY <1>1, <1>2, <1>3 DEF JoinedWith

\* Each name with a record that is not joined has a row, which all such records are in.
LEMMA RowOf ==
  ASSUME BatchTypes, NEW j \in Left(batch)
  PROVE  \E i \in Leads(batch) :
           /\ batch[i].path = batch[j].path /\ i \in DOMAIN batch
           /\ Group(batch, i) = {k \in Left(batch) : batch[k].path = batch[j].path}
<1> DEFINE S == {k \in Left(batch) : batch[k].path = batch[j].path}
           i == Min(S)
<1>1. S \in SUBSET DOMAIN batch /\ j \in S
  BY DEF Left
<1>2. i \in S /\ \A x \in S : i <= x
  BY <1>1, Positions
<1>3. \A x \in DOMAIN batch : x \in Int
  BY LenProperties DEF BatchTypes
<1> HIDE DEF i
<1>4. i \in Leads(batch)
  BY <1>1, <1>2, <1>3 DEF Leads
<1>5. Group(batch, i) = S
  BY <1>1, <1>2, <1>3 DEF Group
<1> QED BY <1>1, <1>2, <1>4, <1>5

\* from comes from the record before the last joined new name of the row.
LEMMA FromIs ==
  ASSUME BatchTypes, Paired, NEW i \in Leads(batch), NEW named,
         named = {j \in Group(batch, i) : JoinedWith(batch, j) # {}}
  PROVE  /\ named = {} => From(batch, i) = None
         /\ named # {} => /\ Max(named) \in named /\ (\A x \in named : Max(named) >= x)
                          /\ From(batch, i) = batch[Max(named) - 1].path
<1>1. named \in SUBSET DOMAIN batch
  BY DEF Group, Left
<1>2. CASE named = {}
  BY <1>2 DEF From
<1>3. CASE named # {}
  <2>1. Max(named) \in named /\ \A x \in named : Max(named) >= x
    BY <1>1, <1>3, Positions
  <2>2. Max(JoinedWith(batch, Max(named))) = Max(named) - 1
    BY <2>1, JoinIs
  <2>3. From(batch, i) = batch[Max(JoinedWith(batch, Max(named)))].path
    BY <1>3 DEF From
  <2> QED BY <1>3, <2>1, <2>2, <2>3
<1> QED BY <1>2, <1>3
---------------------------------------------------------------------------
(* The theorems.                                                             *)

\* A row's from is the old name of a rename to its path, for batches of any length cut
\* anywhere (the first pass of WatchCmd).
THEOREM FromIsTrueHolds == BatchSpec => []FromIsTrue
<1>1. BatchInv => FromIsTrue
  <2> SUFFICES ASSUME BatchInv, droppedNames = 0, NEW i \in Leads(batch), From(batch, i) # None
               PROVE  <<From(batch, i), batch[i].path>> \in renames
    BY DEF FromIsTrue, Rows, Row
  <2> DEFINE named == {j \in Group(batch, i) : JoinedWith(batch, j) # {}}
  <2>1. named # {} /\ Max(named) \in named /\ From(batch, i) = batch[Max(named) - 1].path
    BY FromIs DEF BatchInv
  <2>2. batch[Max(named)].path = batch[i].path /\ JoinedWith(batch, Max(named)) # {}
    BY <2>1 DEF Group
  <2> QED BY <2>1, <2>2, JoinIs DEF BatchInv
<1> QED BY <1>1, BatchInvHolds, PTL

\* The most telling record of a row decides its action.
LEMMA ActionSays ==
  ASSUME NEW i \in Leads(batch), NEW j \in Group(batch, i)
  PROVE  /\ batch[j].action = "removed" => Action(batch, i) = "removed"
         /\ batch[j].action = "added" => Action(batch, i) \in {"added", "removed"}
         /\ batch[j].action = "renamed-new" => Action(batch, i) \in {"added", "removed", "renamed"}
<1>1. batch[j].action \in Seen(batch, i)
  BY DEF Seen
<1>2. CASE "removed" \in Seen(batch, i)
  BY <1>1, <1>2 DEF Action
<1>3. CASE "removed" \notin Seen(batch, i) /\ "added" \in Seen(batch, i)
  BY <1>1, <1>3 DEF Action
<1>4. CASE "removed" \notin Seen(batch, i) /\ "added" \notin Seen(batch, i)
  BY <1>1, <1>4 DEF Action
<1> QED BY <1>2, <1>3, <1>4

LEMMA ArrivalSaid == ASSUME BatchInv PROVE ArrivalIsSaid
<1> SUFFICES ASSUME droppedNames = 0, NEW n \in exists \ (before \cup {coming})
             PROVE  \E r \in Rows(batch) :
                      r.path = n /\ (r.action \in {"added", "renamed"} \/ (r.action = "removed" /\ CameBack(n)))
  BY DEF ArrivalIsSaid
<1>1. PICK j \in DOMAIN batch :
        /\ batch[j].path = n /\ batch[j].action \in {"added", "renamed-new"}
        /\ \A k \in DOMAIN batch : batch[k].path = n /\ batch[k].action = "removed" => k < j
  BY DEF BatchInv, Arrivals
<1>2. j \in Left(batch)
  BY <1>1, JoinIs DEF Left, BatchInv
<1>3. PICK i \in Leads(batch) : /\ batch[i].path = n
                                /\ Group(batch, i) = {k \in Left(batch) : batch[k].path = n}
  BY <1>1, <1>2, RowOf DEF BatchInv
<1>4. j \in Group(batch, i)
  BY <1>1, <1>2, <1>3
<1>5. Action(batch, i) \in {"added", "renamed", "removed"}
  BY <1>1, <1>4, ActionSays
<1>6. Action(batch, i) = "removed" => CameBack(n)
  <2>1. ASSUME "removed" \in Seen(batch, i) PROVE CameBack(n)
    <3>1. PICK k \in DOMAIN batch : batch[k].path = n /\ batch[k].action = "removed"
      BY <1>3, <2>1 DEF Seen, Left
    <3> QED BY <1>1, <3>1 DEF CameBack
  <2>2. "removed" \in Seen(batch, i) \/ Action(batch, i) # "removed"
    BY <1>1, <1>4 DEF Action, Seen
  <2> QED BY <2>1, <2>2
<1>7. Row(batch, i) \in Rows(batch) /\ Row(batch, i).path = n /\ Row(batch, i).action = Action(batch, i)
  BY <1>3 DEF Rows, Row
<1> QED BY <1>5, <1>6, <1>7

LEMMA LeavingSaid == ASSUME BatchInv PROVE LeavingIsSaid
<1> SUFFICES ASSUME droppedNames = 0, NEW n \in Gone, n \notin Mentioned
             PROVE  \/ \E m, p \in Names : m # n /\ <<n, p>> \in renames /\ <<m, p>> \in renames
                    \/ batch[Len(batch)] = [action |-> "renamed-old", path |-> n]
  BY DEF LeavingIsSaid
<1>0. /\ BatchTypes /\ Paired /\ Departures
      /\ Len(batch) \in Nat /\ DOMAIN batch = 1 .. Len(batch) /\ \A k \in DOMAIN batch : batch[k] \in Record
  BY LenProperties, ElementOfSeq DEF BatchInv, BatchTypes
<1> DEFINE S == {k \in DOMAIN batch : batch[k].path = n}
           l == Max(S)
<1>1. l \in S /\ \A k \in S : l >= k
  <2>1. S # {}
    BY DEF Gone
  <2> QED BY <1>0, <2>1, Positions
<1> HIDE DEF l
<1>2. batch[l].action \in {"removed", "renamed-old"}
  <2>1. Latest(l)
    BY <1>0, <1>1 DEF Latest
  <2>2. n \notin exists
    BY DEF Gone
  <2> QED BY <1>0, <1>1, <2>1, <2>2 DEF Departures
<1>3. CASE batch[l].action = "removed"
  <2>1. l \in Left(batch)
    BY <1>0, <1>1, <1>3, JoinIs DEF Left
  <2>2. PICK i \in Leads(batch) : batch[i].path = n /\ Group(batch, i) = {k \in Left(batch) : batch[k].path = n}
    BY <1>0, <1>1, <2>1, RowOf
  <2>3. l \in Group(batch, i)
    BY <1>1, <2>1, <2>2
  <2>4. Action(batch, i) = "removed"
    BY <1>3, <2>3, ActionSays
  <2>5. Row(batch, i) \in Rows(batch) /\ Row(batch, i).path = n /\ Row(batch, i).action = "removed"
    BY <2>2, <2>4 DEF Rows, Row
  <2> QED BY <2>5 DEF Mentioned
<1>4. CASE batch[l].action = "renamed-old" /\ l = Len(batch)
  <2>1. batch[l] \in Record /\ batch[l].path = n
    BY <1>0, <1>1
  <2>2. batch[l] = [action |-> "renamed-old", path |-> n]
    BY <1>4, <2>1 DEF Record
  <2> QED BY <1>4, <2>2
<1>5. CASE batch[l].action = "renamed-old" /\ l # Len(batch)
  <2> DEFINE p == batch[l + 1].path
  <2>1. l + 1 \in DOMAIN batch /\ batch[l + 1].action = "renamed-new" /\ <<n, p>> \in renames
    BY <1>0, <1>1, <1>5 DEF Paired
  <2>2. l + 1 \in Left(batch) /\ JoinedWith(batch, l + 1) # {}
    BY <1>0, <1>1, <1>5, <2>1, JoinIs DEF Left
  <2>3. PICK i \in Leads(batch) : batch[i].path = p /\ Group(batch, i) = {k \in Left(batch) : batch[k].path = p}
    BY <1>0, <2>2, RowOf
  <2> DEFINE named == {j \in Group(batch, i) : JoinedWith(batch, j) # {}}
             m == batch[Max(named) - 1].path
  <2>4. l + 1 \in named
    BY <2>2, <2>3
  <2>5. Max(named) \in named /\ Max(named) >= l + 1 /\ From(batch, i) = m
    BY <1>0, <2>4, FromIs
  <2>6. /\ Max(named) - 1 \in DOMAIN batch /\ <<m, p>> \in renames
    <3>1. batch[Max(named)].path = p /\ JoinedWith(batch, Max(named)) # {}
      BY <2>3, <2>5
    <3> QED BY <1>0, <3>1, JoinIs
  <2>7. m \in {r.from : r \in Rows(batch)}
    <3>1. Row(batch, i) \in Rows(batch) /\ Row(batch, i).from = m
      BY <2>5 DEF Rows, Row
    <3> QED BY <3>1
  <2>8. m # n
    BY <2>7 DEF Mentioned
  <2>9. m \in Names /\ p \in Names
    BY <1>0, <2>1, <2>6 DEF BatchTypes
  <2> QED BY <2>1, <2>6, <2>8, <2>9
<1> QED BY <1>2, <1>3, <1>4, <1>5

\* A reader who replays the rows of a batch misses no arrival that stayed, but for that of a
\* name removed in between, and no departure, but for the two kinds of rename the property
\* names (the second pass of WatchCmd).
THEOREM NothingUnsaidHolds == BatchSpec => []NothingUnsaid
<1>1. BatchInv => NothingUnsaid
  BY ArrivalSaid, LeavingSaid DEF NothingUnsaid
<1> QED BY <1>1, BatchInvHolds, PTL
=============================================================================
