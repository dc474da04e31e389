----------------------------- MODULE PtyProofs -----------------------------
(***************************************************************************)
(* SendIsOver, TeardownIsClean and OutputIsKept hold of every reachable    *)
(* state of Pty, for any number of terminals, sends and failures and any   *)
(* size of the pipes and of what a send may retain.                        *)
(***************************************************************************)
EXTENDS Pty, SequenceTheorems, WellFoundedInduction, TLAPS

SendPcs == {"poll", "pause", "capture", "recheck", "stop", "cancel", "await"}
OtherPcs == {"idle", "finish", "read", "free", "terminate", "console", "console wait",
             "drain wait", "last wait", "release", "exit", "root", "over"}
Ops == {"none", "send", "read", "close", "exit"}
Active == {"check", "gap", "write", "close"}

WriterType ==
    writer \in [pc : {"none", "over"} \cup Active, off : Nat, want : Nat,
                stop : BOOLEAN, failed : BOOLEAN]
CallType == call \in [pc : SendPcs \cup OtherPcs, pty : {0} \cup Ptys, op : Ops, bad : BOOLEAN]

\* The writer counts what it put into the pipe and never passes the end of the string.
Counted == /\ writer.off <= SendLen
           /\ writer.pc = "gap" => writer.off < SendLen
           /\ writer.pc = "write" => writer.want > 0 /\ writer.off + writer.want <= SendLen
           /\ writer.pc \in {"close", "over"} /\ ~writer.failed => writer.off = SendLen
\* The thread runs only while its call is in the loop that waits for it.
Owned == /\ writer.pc \in Active => call.op = "send" /\ call.pc \in SendPcs
         /\ call.pc = "finish" => writer.pc = "over"
         /\ call.pc \in SendPcs => writer.pc # "none"
SendInv == WriterType /\ CallType /\ Counted /\ Owned

\* The bounds the send and the list of terminals depend on.
LEMMA Bounds == /\ SendLen \in Nat /\ SendLen > 0
                /\ WriteChunk \in Nat /\ WriteChunk > 0
                /\ MaxPtys \in Nat
<1>1. SendLen \in Nat \ {0} /\ WriteChunk \in Nat \ {0} BY PtyAssumption
<1>2. MaxPtys \in Nat BY PtyAssumption
<1> QED BY <1>1, <1>2

\* SendInv says what SendIsOver says.
LEMMA SendInvSuffices == SendInv => SendIsOver
BY DEF SendInv, WriterType, CallType, Counted, Owned, SendIsOver, SendAnswersOk, Active, SendPcs,
  OtherPcs, Ops, Ptys

\* No writer and no call to begin with.
LEMMA SendInit == Init => SendInv
BY Bounds DEF Init, SendInv, WriterType, CallType, Counted, Owned, NoWriter, WriterAt, Calling,
  Idle, Active, SendPcs, OtherPcs, Ops, Ptys

\* A call that returns leaves no writer behind it.
LEMMA SendReturns == ASSUME SendInv, NEW ok \in BOOLEAN, Return(ok) PROVE SendInv'
<1>1. WriterType' /\ Counted'
  BY Bounds DEF WriterType, Counted, Return, NoWriter, WriterAt, Active
<1>2. CallType'
  BY DEF CallType, Return, Calling, Idle, SendPcs, OtherPcs, Ops
<1>3. Owned'
  BY DEF Owned, Return, NoWriter, WriterAt, Calling, Idle, Active, SendPcs
<1> QED BY <1>1, <1>2, <1>3 DEF SendInv

\* A call that begins has the only writer there is.
LEMMA SendOpens ==
    ASSUME SendInv, NEW p \in Ptys, NEW op \in {"send", "read", "close"},
           NEW pc \in {"poll", "read", "free"}, op = "send" <=> pc = "poll", Begin(op, p, pc)
    PROVE SendInv'
<1>1. call' = Calling(op, p, pc) /\ call.pc = "idle"
  BY DEF Begin
<1>2. writer' = IF op = "send" THEN WriterAt("check") ELSE writer
  BY DEF Begin
<1>3. WriterType' /\ Counted'
  BY <1>2, Bounds DEF SendInv, WriterType, Counted, WriterAt, Active
<1>4. CallType'
  BY <1>1 DEF CallType, Calling, Ops, SendPcs, OtherPcs
<1>5. writer.pc \notin Active
  BY <1>1 DEF SendInv, Owned, SendPcs
<1>6. Owned'
  BY <1>1, <1>2, <1>5 DEF Owned, Calling, WriterAt, Active, SendPcs
<1> QED BY <1>3, <1>4, <1>6 DEF SendInv

\* The writer thread keeps its count, and ends by itself, by the flag, or by a failure.
LEMMA SendWriter == ASSUME SendInv, Writer PROVE SendInv'
<1>0. CallType' /\ call' = call
  BY DEF Writer, SendInv, CallType, Ptys
<1>1. CASE WriterCheck
  <2>1. CASE writer.off >= SendLen
    BY <1>0, <1>1, <2>1, Bounds DEF SendInv, WriterType, Counted, Owned, WriterCheck, Active, SendPcs
  <2>2. CASE ~(writer.off >= SendLen) /\ writer.stop
    BY <1>0, <1>1, <2>2, Bounds DEF SendInv, WriterType, Counted, Owned, WriterCheck, Active, SendPcs
  <2>3. CASE ~(writer.off >= SendLen) /\ ~writer.stop
    BY <1>0, <1>1, <2>3, Bounds DEF SendInv, WriterType, Counted, Owned, WriterCheck, Active, SendPcs
  <2> QED BY <2>1, <2>2, <2>3
<1>2. CASE WriterEnters
  <2> DEFINE left == SendLen - writer.off
             want == IF left > WriteChunk THEN WriteChunk ELSE left
  <2>1. writer' = [writer EXCEPT !.pc = "write", !.want = want]
    BY <1>2 DEF WriterEnters
  <2>2. want \in Nat /\ writer.off + want <= SendLen
    BY Bounds DEF SendInv, WriterType, Counted
  <2>3. want > 0
    BY <1>2, Bounds DEF SendInv, WriterType, Counted, WriterEnters
  <2> HIDE DEF want
  <2>4. WriterType' /\ Counted'
    BY <2>1, <2>2, <2>3 DEF SendInv, WriterType, Counted, Active
  <2> QED BY <1>0, <1>2, <2>1, <2>4 DEF SendInv, WriterType, Owned, WriterEnters, Active, SendPcs
<1>3. ASSUME NEW p, WriterPuts(p) PROVE SendInv'
  <2> DEFINE more == writer.want - 1
             next == IF more = 0 THEN "check" ELSE "write"
  <2>1. writer' = [writer EXCEPT !.off = @ + 1, !.want = more, !.pc = next] /\ writer.pc = "write"
    BY <1>3 DEF WriterPuts
  <2>2. more \in Nat /\ writer.off + 1 \in Nat /\ writer.off + 1 <= SendLen
        /\ (more # 0 => more > 0 /\ writer.off + 1 + more <= SendLen)
    BY <2>1, Bounds DEF SendInv, WriterType, Counted
  <2> HIDE DEF more
  <2>3. WriterType' /\ Counted'
    BY <2>1, <2>2 DEF SendInv, WriterType, Counted, Active
  <2>4. call'.op = "send" /\ call'.pc \in SendPcs
    <3>1. writer.pc \in Active BY <2>1 DEF Active
    <3> QED BY <1>0, <3>1 DEF SendInv, Owned
  <2>5. writer'.pc \in {"check", "write"}
    BY <2>1 DEF SendInv, WriterType
  <2> QED BY <1>0, <2>3, <2>4, <2>5 DEF SendInv, Owned, SendPcs
<1>4. ASSUME NEW p, WriterFails(p) PROVE SendInv'
  BY <1>0, <1>4, Bounds DEF SendInv, WriterType, Counted, Owned, WriterFails, Active, SendPcs
<1>5. ASSUME NEW p, WriterCloses(p) PROVE SendInv'
  BY <1>0, <1>5, Bounds DEF SendInv, WriterType, Counted, Owned, WriterCloses, Active, SendPcs
<1> QED BY <1>1, <1>2, <1>3, <1>4, <1>5 DEF Writer

\* The sender stays in its loop until the writer is over.
LEMMA SendLoop == ASSUME SendInv, Send PROVE SendInv'
<1>1. CASE SendPolls
  BY <1>1 DEF SendInv, WriterType, CallType, Counted, Owned, SendPolls, SendGivesUp, Goto, Active,
    SendPcs, OtherPcs, Ops, Ptys
<1>2. CASE SendCaptures
  BY <1>2 DEF SendInv, WriterType, CallType, Counted, Owned, SendCaptures, SendGivesUp, Goto,
    Active, SendPcs, OtherPcs, Ops, Ptys
<1>3. CASE SendRechecks
  BY <1>3 DEF SendInv, WriterType, CallType, Counted, Owned, SendRechecks, SendGivesUp, Goto,
    Active, SendPcs, OtherPcs, Ops, Ptys
<1>4. CASE SendStops
  BY <1>4 DEF SendInv, WriterType, CallType, Counted, Owned, SendStops, Goto, Active, SendPcs,
    OtherPcs, Ops, Ptys
<1>5. CASE SendCancels
  BY <1>5 DEF SendInv, WriterType, CallType, Counted, Owned, SendCancels, CancelWrite, Goto,
    Active, SendPcs, OtherPcs, Ops, Ptys
<1>6. CASE SendAwaits
  BY <1>6 DEF SendInv, WriterType, CallType, Counted, Owned, SendAwaits, AfterWait, Goto, Active,
    SendPcs, OtherPcs, Ops, Ptys
<1>7. CASE SendFinishes
  <2>1. PICK ok \in BOOLEAN : Return(ok)
    BY <1>7 DEF SendFinishes, SendAnswersOk, SendInv, CallType, WriterType
  <2> QED BY <2>1, SendReturns
<1> QED BY <1>1, <1>2, <1>3, <1>4, <1>5, <1>6, <1>7 DEF Send

\* What the terminals, the hosts and the drains do leaves the send alone.
LEMMA SendOthers ==
    ASSUME SendInv, UNCHANGED <<writer, call>> PROVE SendInv'
BY DEF SendInv, WriterType, CallType, Counted, Owned, Ptys

\* A step of a call that is not a send, while no writer runs.
LEMMA SendSilent ==
    ASSUME SendInv, call.pc \notin SendPcs, writer' = writer,
           CallType', call'.pc \notin SendPcs \cup {"finish"}
    PROVE SendInv'
<1>1. WriterType' /\ Counted'
  BY DEF SendInv, WriterType, Counted
<1>2. Owned'
  BY DEF SendInv, Owned
<1> QED BY <1>1, <1>2 DEF SendInv

\* A close: the terminal is freed while no send is in progress.
LEMMA SendFree == ASSUME SendInv, Free PROVE SendInv'
<1>0. call.pc \notin SendPcs
  BY DEF Free, FreeDrains, FreeTerminates, FreeClosesConsole, FreeConsoleGone, FreeWaits,
    FreeWaitsAgain, FreeReleases, SendPcs
<1>1. CASE \E ok \in BOOLEAN : Return(ok)
  BY <1>1, SendReturns
<1>2. CASE /\ writer' = writer
           /\ \E pc \in OtherPcs \ {"finish"} : Goto(pc)
  <2>1. CallType' /\ call'.pc \notin SendPcs \cup {"finish"}
    BY <1>2 DEF SendInv, CallType, Goto, OtherPcs, SendPcs
  <2> QED BY <1>0, <1>2, <2>1, SendSilent
<1>3. CASE writer' = writer /\ FreeTerminates
  <2>1. CallType' /\ call'.pc \notin SendPcs \cup {"finish"}
    BY <1>3 DEF FreeTerminates, SendInv, CallType, OtherPcs, SendPcs
  <2> QED BY <1>0, <1>3, <2>1, SendSilent
<1>4. call.bad \in BOOLEAN
  BY DEF SendInv, CallType
<1> QED BY <1>1, <1>2, <1>3, <1>4 DEF Free, FreeDrains, FreeClosesConsole, FreeConsoleGone,
  FreeWaits, FreeWaitsAgain, FreeReleases, OtherPcs

\* The exit begins when no call is in progress.
LEMMA SendExit == ASSUME SendInv, Exit, listed \subseteq Ptys PROVE SendInv'
<1>1. call.pc \notin SendPcs /\ writer' = writer
  BY DEF Exit, ExitBegins, ExitNext, ExitRoot, SendPcs
<1>2. CASE \E pc \in {"root", "over"} : Goto(pc)
  <2>1. CallType' /\ call'.pc \notin SendPcs \cup {"finish"}
    BY <1>2 DEF SendInv, CallType, Goto, OtherPcs, SendPcs
  <2> QED BY <1>1, <2>1, SendSilent
<1>3. CASE \E p \in {0} \cup Ptys, pc \in {"exit", "free"} : call' = Calling("exit", p, pc)
  <2>1. CallType' /\ call'.pc \notin SendPcs \cup {"finish"}
    <3>1. PICK p \in {0} \cup Ptys, pc \in {"exit", "free"} : call' = Calling("exit", p, pc)
      BY <1>3
    <3>2. call' = [op |-> "exit", pty |-> p, pc |-> pc, bad |-> FALSE]
      BY <3>1 DEF Calling
    <3> QED BY <3>2 DEF CallType, SendPcs, OtherPcs, Ops
  <2> QED BY <1>1, <2>1, SendSilent
<1> QED BY <1>2, <1>3 DEF Exit, ExitBegins, ExitNext, ExitRoot

\* Every step preserves it.
LEMMA SendStep == ASSUME SendInv, listed \subseteq Ptys, [Next]_vars PROVE SendInv'
<1>1. CASE \E p \in Ptys : Spawn(p) \/ SendCannot(p) \/ HostServes(p) \/ HostActs(p) \/ Drain(p)
  BY <1>1, SendOthers DEF Spawn, SendCannot, HostServes, HostActs, Drain
<1>2. CASE \E p \in Ptys : SendBegins(p) \/ ReadBegins(p) \/ CloseBegins(p)
  BY <1>2, SendOpens DEF SendBegins, ReadBegins, CloseBegins
<1>3. CASE Read
  BY <1>3, SendReturns DEF Read
<1>4. CASE UNCHANGED vars
  BY <1>4, SendOthers DEF vars
<1> QED BY <1>1, <1>2, <1>3, <1>4, SendWriter, SendLoop, SendFree, SendExit DEF Next

\* Only terminals are listed.
LEMMA ListedIsPtys == Spec => [](listed \subseteq Ptys)
<1>1. Init => listed \subseteq Ptys
  BY DEF Init
<1>2. listed \subseteq Ptys /\ [Next]_vars => (listed \subseteq Ptys)'
  <2> SUFFICES ASSUME listed \subseteq Ptys, [Next]_vars PROVE (listed \subseteq Ptys)'
    OBVIOUS
  <2>1. \/ listed' = listed
        \/ \E p \in Ptys : listed' = listed \cup {p} \/ listed' = listed \ {p}
        \/ \E p : listed' = listed \ {p}
    BY DEF Next, vars, Spawn, SendBegins, SendCannot, ReadBegins, CloseBegins, HostServes, HostActs,
           Drain, Writer, Send, Read, Free, FreeDrains, FreeTerminates, FreeClosesConsole, FreeConsoleGone, FreeWaits,
           FreeWaitsAgain, FreeReleases, Exit
  <2> QED BY <2>1 DEF Ptys
<1> QED BY <1>1, <1>2, PTL DEF Spec

\* The writer thread of a pty send never outlives the call (PtyCmd), for any sizes and any failures.
THEOREM SendIsOverHolds == Spec => []SendIsOver
<1> QED BY SendInit, SendStep, SendInvSuffices, ListedIsPtys, PTL DEF Spec
---------------------------------------------------------------------------
(* TeardownIsClean: what each terminal holds, at every point of every call *)

Dying == {"console", "console wait", "drain wait", "last wait", "release"}
Senders == SendPcs \cup {"finish"}
ListedPcs == Senders \cup {"read", "free"}
Unowned == {"idle", "exit", "root", "over"}

\* A terminal is a record of its fields.
Whole(t) == t = [held |-> t.held, bad |-> t.bad, tree |-> t.tree, host |-> t.host,
                 pend |-> t.pend, made |-> t.made, keys |-> t.keys, screen |-> t.screen,
                 queue |-> t.queue, given |-> t.given, drain |-> t.drain]
PtyType == pty = [p \in Ptys |-> pty[p]] /\ \A p \in Ptys : Whole(pty[p])
ListedType == listed \subseteq Ptys
\* Where the terminal of a call is while the call goes on.
CallsTerminal == /\ call.pc \in Unowned => call.pty = 0
                 /\ call.pc \in ListedPcs => call.pty \in listed
                 /\ call.pc \in Dying \cup {"terminate"} => call.pty \in Ptys \ listed

\* What a send has added to what its terminal holds: the writer closes its own duplicate.
SendHolds(wpc) == IF wpc = "over" THEN {"thread"} ELSE {"write", "thread"}
OfSend(own, pc, wpc) == IF own /\ pc \in Senders THEN SendHolds(wpc) ELSE {}
\* What is left to close at each point of a close.
ToClose(pc, bad) ==
    {"outR", "job", "proc", "pty", "drain"}
      \cup (IF pc = "terminate" \/ ~bad THEN {"jobH"} ELSE {})
      \cup (IF pc \in {"terminate", "console"} THEN {"inW"} ELSE {})
      \cup (IF pc \in {"terminate", "console", "console wait"} THEN {"hpc"} ELSE {})
Dies(t, pc, bad) == /\ t.held = ToClose(pc, bad) /\ t.drain \in {"reading", "gap", "over"}
                    /\ pc \in Dying => t.tree # "alive"
                    /\ pc = "release" => t.drain = "over"
\* What is left of a terminal when the close is over: nothing, or what an unfinished drain needs.
Gone(t) == /\ t.tree # "alive"
           /\ \/ t.held = {} /\ t.drain \in {"none", "over"}
              \/ t.drain = "left" /\ t.held \ {"jobH"} = {"outR", "proc", "job", "pty"}
HeldIsRight ==
    /\ \A p \in Ptys : pty[p].bad = {}
    /\ \A p \in listed : pty[p].held = Handles \cup OfSend(call.pty = p, call.pc, writer.pc)
    /\ \A p \in Ptys \ listed : IF call.pty = p THEN Dies(pty[p], call.pc, call.bad)
                                                ELSE Gone(pty[p])
NothingAlive == call.pc = "over" => \A p \in Ptys : pty[p].tree # "alive"
TeardownInv == SendInv /\ PtyType /\ ListedType /\ CallsTerminal /\ HeldIsRight /\ NothingAlive

\* It says what TeardownIsClean says.
LEMMA TeardownSuffices == TeardownInv => TeardownIsClean
<1> SUFFICES ASSUME TeardownInv PROVE TeardownIsClean
  OBVIOUS
<1>1. \A p \in listed : "outR" \in pty[p].held /\ (call.pty # p => pty[p].held = Handles)
  BY DEF TeardownInv, HeldIsRight, OfSend, Handles
<1>2. \A p \in Ptys \ listed : call.pty # p => Gone(pty[p])
  BY DEF TeardownInv, HeldIsRight
<1>3. \A p \in Ptys \ listed : call.pty = p => "outR" \in pty[p].held
  <2>1. \A p \in Ptys \ listed : call.pty = p => pty[p].held = ToClose(call.pc, call.bad)
    BY DEF TeardownInv, HeldIsRight, Dies
  <2>2. "outR" \in ToClose(call.pc, call.bad)
    BY DEF ToClose
  <2> QED BY <2>1, <2>2
<1>4. \A p \in Ptys \ listed :
        call.pty # p => (pty[p].drain \in {"reading", "gap", "left"} => "outR" \in pty[p].held)
  BY <1>2 DEF Gone
<1>5. \A p \in Ptys : pty[p].bad = {}
  BY DEF TeardownInv, HeldIsRight
<1> QED BY <1>1, <1>2, <1>3, <1>4, <1>5 DEF TeardownIsClean, TeardownInv, NothingAlive, Gone

\* Nothing is allocated to begin with.
LEMMA TeardownInit == Init => TeardownInv
<1> SUFFICES ASSUME Init PROVE TeardownInv
  OBVIOUS
<1>1. \A p \in Ptys : pty[p] = NoPty
  BY DEF Init
<1>2. call = [op |-> "none", pty |-> 0, pc |-> "idle", bad |-> FALSE] /\ listed = {}
  BY DEF Init, Idle, Calling
<1>3. PtyType
  BY <1>1 DEF PtyType, Whole, Init, NoPty
<1>4. CallsTerminal /\ ListedType /\ NothingAlive
  BY <1>2 DEF CallsTerminal, ListedType, NothingAlive, Senders, SendPcs, Dying, ListedPcs, Unowned
<1>5. HeldIsRight
  <2>1. \A p \in Ptys : Gone(pty[p]) /\ pty[p].bad = {} /\ call.pty # p
    BY <1>1, <1>2 DEF Gone, NoPty, Ptys
  <2> QED BY <1>2, <2>1 DEF HeldIsRight
<1> QED BY <1>3, <1>4, <1>5, SendInit DEF TeardownInv

\* A terminal stays whole, and what is not assigned is kept.
LEMMA Updates ==
    ASSUME NEW t, Whole(t), NEW a
    PROVE  /\ Whole([t EXCEPT !.held = a]) /\ Whole([t EXCEPT !.tree = a])
           /\ Whole([t EXCEPT !.host = a]) /\ Whole([t EXCEPT !.pend = a])
           /\ Whole([t EXCEPT !.made = a]) /\ Whole([t EXCEPT !.keys = a])
           /\ Whole([t EXCEPT !.screen = a]) /\ Whole([t EXCEPT !.queue = a])
           /\ Whole([t EXCEPT !.given = a]) /\ Whole([t EXCEPT !.drain = a])
           /\ Whole([t EXCEPT !.bad = a])
BY DEF Whole

\* The tree, the drain and the text are the same.
Same(t, u) == /\ t.tree = u.tree /\ t.drain = u.drain /\ t.queue = u.queue
              /\ t.screen = u.screen /\ t.given = u.given /\ t.made = u.made

\* Closing changes what is held, and reports what was not.
LEMMA Closes ==
    ASSUME NEW t, Whole(t), NEW names
    PROVE  LET c == Close(t, names) IN
           /\ Whole(c) /\ c.held = t.held \ names /\ c.bad = t.bad \cup (names \ t.held)
           /\ Same(c, t) /\ c.keys = t.keys /\ c.host = t.host /\ c.pend = t.pend
<1> DEFINE held == t.held \ names
           bad == t.bad \cup (names \ t.held)
           c == [t EXCEPT !.held = held, !.bad = bad]
<1>1. Close(t, names) = c
  BY DEF Close, Whole
<1> HIDE DEF held, bad
<1>2. Whole(c)
  BY Updates
<1>3. /\ c.held = held /\ c.bad = bad /\ c.tree = t.tree /\ c.drain = t.drain
      /\ c.queue = t.queue /\ c.screen = t.screen /\ c.given = t.given /\ c.made = t.made
      /\ c.keys = t.keys /\ c.host = t.host /\ c.pend = t.pend
  BY DEF Whole
<1> HIDE DEF c
<1>4. Same(c, t)
  BY <1>3 DEF Same
<1> QED BY <1>1, <1>2, <1>3, <1>4 DEF held, bad

\* One terminal changes and the others stay.
LEMMA OneTerminal ==
    ASSUME PtyType, NEW p \in Ptys, NEW t, Whole(t), pty' = [pty EXCEPT ![p] = t]
    PROVE  PtyType' /\ pty'[p] = t /\ \A q \in Ptys \ {p} : pty'[q] = pty[q]
BY DEF PtyType, Ptys

\* A step of a call, or of its writer, on its own terminal.
LEMMA OneFits ==
    ASSUME TeardownInv, SendInv', NEW p \in Ptys, NEW t, Whole(t), pty' = [pty EXCEPT ![p] = t],
           call.pty \in {0, p}, call'.pty \in {0, p}, call'.pc # "over", CallsTerminal',
           listed' \in {listed, listed \cup {p}, listed \ {p}},
           t.bad = {},
           p \in listed' => t.held = Handles \cup OfSend(call'.pty = p, call'.pc, writer'.pc),
           p \notin listed' => IF call'.pty = p THEN Dies(t, call'.pc, call'.bad) ELSE Gone(t)
    PROVE  TeardownInv'
<1>1. PtyType' /\ pty'[p] = t /\ \A q \in Ptys \ {p} : pty'[q] = pty[q]
  BY OneTerminal DEF TeardownInv
<1>2. ListedType' /\ NothingAlive'
  BY DEF TeardownInv, ListedType, NothingAlive, Ptys
<1>3. \A q \in Ptys \ {p} : /\ call.pty # q /\ call'.pty # q /\ (q \in listed' <=> q \in listed)
  BY DEF Ptys
<1>4. \A q \in Ptys : pty'[q].bad = {}
  BY <1>1 DEF TeardownInv, HeldIsRight
<1>5. ASSUME NEW q \in listed'
      PROVE  pty'[q].held = Handles \cup OfSend(call'.pty = q, call'.pc, writer'.pc)
  <2>1. CASE q = p
    BY <1>1, <1>5, <2>1
  <2>2. CASE q # p
    <3>1. q \in Ptys /\ q \in listed /\ ~(call'.pty = q) /\ ~(call.pty = q)
      BY <1>2, <1>3, <2>2 DEF ListedType
    <3>2. pty[q].held = Handles
      BY <3>1 DEF TeardownInv, HeldIsRight, OfSend
    <3> QED BY <1>1, <2>2, <3>1, <3>2 DEF OfSend
  <2> QED BY <2>1, <2>2
<1>6. ASSUME NEW q \in Ptys \ listed'
      PROVE  IF call'.pty = q THEN Dies(pty'[q], call'.pc, call'.bad) ELSE Gone(pty'[q])
  <2>1. CASE q = p
    BY <1>1, <1>6, <2>1
  <2>2. CASE q # p
    <3>1. q \notin listed /\ ~(call'.pty = q) /\ ~(call.pty = q)
      BY <1>3, <1>6, <2>2
    <3> QED BY <1>1, <1>6, <2>2, <3>1 DEF TeardownInv, HeldIsRight
  <2> QED BY <2>1, <2>2
<1>7. HeldIsRight'
  BY <1>4, <1>5, <1>6 DEF HeldIsRight, Ptys
<1> QED BY <1>1, <1>2, <1>7 DEF TeardownInv

\* A host and a drain change neither what is held nor whether the tree lives.
LEMMA HostKeeps ==
    ASSUME TeardownInv, SendInv', NEW p \in Ptys, UNCHANGED <<listed, call, writer>>,
           NEW t, Whole(t), pty' = [pty EXCEPT ![p] = t],
           t.held = pty[p].held, t.bad = pty[p].bad, t.tree = pty[p].tree,
           \/ t.drain = pty[p].drain
           \/ pty[p].drain \in {"reading", "gap"} /\ t.drain \in {"reading", "gap", "over"}
    PROVE TeardownInv'
<1>1. PtyType' /\ pty'[p] = t /\ \A q \in Ptys \ {p} : pty'[q] = pty[q]
  BY OneTerminal DEF TeardownInv
<1>2. CallsTerminal' /\ ListedType' /\ NothingAlive'
  BY <1>1 DEF TeardownInv, CallsTerminal, ListedType, NothingAlive, Ptys
<1>3. \A q \in Ptys : pty'[q].bad = {} /\ pty'[q].held = pty[q].held
  BY <1>1 DEF TeardownInv, HeldIsRight
<1>4. ASSUME NEW q \in Ptys \ listed
      PROVE  IF call.pty = q THEN Dies(pty'[q], call.pc, call.bad) ELSE Gone(pty'[q])
  <2>1. IF call.pty = q THEN Dies(pty[q], call.pc, call.bad) ELSE Gone(pty[q])
    BY DEF TeardownInv, HeldIsRight
  <2>2. CASE q # p
    BY <1>1, <2>1, <2>2
  <2>3. CASE q = p /\ call.pty = q
    <3>1. Dies(pty[p], call.pc, call.bad)
      BY <2>1, <2>3
    <3>2. Dies(t, call.pc, call.bad)
      BY <3>1 DEF Dies
    <3> QED BY <1>1, <2>3, <3>2
  <2>4. CASE q = p /\ call.pty # q
    <3>1. Gone(pty[p])
      BY <2>1, <2>4
    <3>2. Gone(t)
      BY <3>1 DEF Gone
    <3> QED BY <1>1, <2>4, <3>2
  <2> QED BY <2>2, <2>3, <2>4
<1>5. \A q \in listed : pty'[q].held = Handles \cup OfSend(call.pty = q, call.pc, writer.pc)
  BY <1>3 DEF TeardownInv, HeldIsRight, ListedType
<1>6. HeldIsRight'
  BY <1>3, <1>4, <1>5 DEF HeldIsRight, Ptys
<1> QED BY <1>1, <1>2, <1>6 DEF TeardownInv

\* The hosts and the drains.
LEMMA TeardownHosts ==
    ASSUME TeardownInv, SendInv', NEW p \in Ptys, HostServes(p) \/ HostActs(p) \/ Drain(p)
    PROVE TeardownInv'
<1> DEFINE w == pty[p]
<1>0. UNCHANGED <<listed, call, writer>> /\ PtyType /\ Whole(w)
  BY DEF HostServes, HostActs, Drain, TeardownInv, PtyType
<1>1. ASSUME NEW a, pty' = [pty EXCEPT ![p].pend = a] PROVE TeardownInv'
  <2> DEFINE t == [w EXCEPT !.pend = a]
  <2>1. Whole(t) BY <1>0, Updates
  <2>2. t.held = w.held /\ t.bad = w.bad /\ t.tree = w.tree /\ t.drain = w.drain
    BY <1>0 DEF Whole
  <2> QED BY <1>0, <1>1, <2>1, <2>2, HostKeeps
<1>2. ASSUME NEW a, pty' = [pty EXCEPT ![p].host = a] PROVE TeardownInv'
  <2> DEFINE t == [w EXCEPT !.host = a]
  <2>1. Whole(t) BY <1>0, Updates
  <2>2. t.held = w.held /\ t.bad = w.bad /\ t.tree = w.tree /\ t.drain = w.drain
    BY <1>0 DEF Whole
  <2> QED BY <1>0, <1>2, <2>1, <2>2, HostKeeps
<1>3. ASSUME NEW a, NEW b, pty' = [pty EXCEPT ![p].host = a, ![p].pend = b] PROVE TeardownInv'
  <2> DEFINE t == [w EXCEPT !.host = a, !.pend = b]
  <2>1. Whole(t) BY <1>0, Updates
  <2>2. t.held = w.held /\ t.bad = w.bad /\ t.tree = w.tree /\ t.drain = w.drain
    BY <1>0 DEF Whole
  <2>3. pty' = [pty EXCEPT ![p] = t] BY <1>0, <1>3, Zenon DEF PtyType
  <2> QED BY <1>0, <2>1, <2>2, <2>3, HostKeeps
<1>4. ASSUME NEW a, NEW b, pty' = [pty EXCEPT ![p].keys = a, ![p].pend = b] PROVE TeardownInv'
  <2> DEFINE t == [w EXCEPT !.keys = a, !.pend = b]
  <2>1. Whole(t) BY <1>0, Updates
  <2>2. t.held = w.held /\ t.bad = w.bad /\ t.tree = w.tree /\ t.drain = w.drain
    BY <1>0 DEF Whole
  <2>3. pty' = [pty EXCEPT ![p] = t] BY <1>0, <1>4, Zenon DEF PtyType
  <2> QED BY <1>0, <2>1, <2>2, <2>3, HostKeeps
<1>5. ASSUME NEW a, NEW b, NEW c,
             pty' = [pty EXCEPT ![p].pend = a, ![p].made = b, ![p].screen = c] PROVE TeardownInv'
  <2> DEFINE t == [w EXCEPT !.pend = a, !.made = b, !.screen = c]
  <2>1. Whole(t) BY <1>0, Updates
  <2>2. t.held = w.held /\ t.bad = w.bad /\ t.tree = w.tree /\ t.drain = w.drain
    BY <1>0 DEF Whole
  <2>3. pty' = [pty EXCEPT ![p] = t] BY <1>0, <1>5, Zenon DEF PtyType
  <2> QED BY <1>0, <2>1, <2>2, <2>3, HostKeeps
<1>6. ASSUME NEW a, NEW b \in {"gap", "over", "reading"}, w.drain \in {"reading", "gap"},
             \/ pty' = [pty EXCEPT ![p].screen = a, ![p].drain = b]
             \/ pty' = [pty EXCEPT ![p].drain = b]
      PROVE TeardownInv'
  <2>1. CASE pty' = [pty EXCEPT ![p].drain = b]
    <3> DEFINE t == [w EXCEPT !.drain = b]
    <3>1. Whole(t) BY <1>0, Updates
    <3>2. t.held = w.held /\ t.bad = w.bad /\ t.tree = w.tree /\ t.drain = b BY <1>0, <1>6 DEF Whole
    <3> QED BY <1>0, <1>6, <2>1, <3>1, <3>2, HostKeeps
  <2>2. CASE pty' = [pty EXCEPT ![p].screen = a, ![p].drain = b]
    <3> DEFINE t == [w EXCEPT !.screen = a, !.drain = b]
    <3>1. Whole(t) BY <1>0, Updates
    <3>2. t.held = w.held /\ t.bad = w.bad /\ t.tree = w.tree /\ t.drain = b BY <1>0, <1>6 DEF Whole
    <3>3. pty' = [pty EXCEPT ![p] = t] BY <1>0, <2>2, Zenon DEF PtyType
    <3> QED BY <1>0, <1>6, <3>1, <3>2, <3>3, HostKeeps
  <2> QED BY <1>6, <2>1, <2>2
<1>7. HostActs(p) => TeardownInv'
  BY <1>1, <1>3 DEF HostActs, HostTalks, HostDies
<1>8. HostServes(p) => TeardownInv'
  BY <1>2, <1>4, <1>5 DEF HostServes, HostReads, HostWrites, HostEnds
<1>9. Drain(p) => TeardownInv'
  BY <1>6 DEF Drain, DrainReads, DrainAgain
<1> QED BY <1>7, <1>8, <1>9

\* The writer puts keys into the pipe and closes its duplicate.
LEMMA TeardownWriter == ASSUME TeardownInv, SendInv', Writer PROVE TeardownInv'
<1> DEFINE p == call.pty
           w == pty[p]
<1>0. UNCHANGED <<listed, call>> /\ PtyType /\ writer.pc \in Active
  BY DEF Writer, WriterCheck, WriterEnters, WriterPuts, WriterFails, WriterCloses, Active, TeardownInv
<1>1. call.pc \in SendPcs /\ p \in listed /\ p \in Ptys /\ Whole(w)
  BY <1>0 DEF TeardownInv, SendInv, Owned, CallsTerminal, ListedType, ListedPcs, Senders, PtyType
<1>2. w.bad = {} /\ w.held = Handles \cup {"write", "thread"}
  BY <1>0, <1>1 DEF TeardownInv, HeldIsRight, OfSend, SendHolds, Senders, Active
<1>3. CallsTerminal'
  BY <1>0, <1>1 DEF TeardownInv, CallsTerminal, ListedPcs, Senders, SendPcs, Unowned, Dying
<1>4. ASSUME NEW t, Whole(t), pty' = [pty EXCEPT ![p] = t],
             t.bad = {}, t.held = Handles \cup SendHolds(writer'.pc)
      PROVE  TeardownInv'
  <2>1. t.held = Handles \cup OfSend(call'.pty = p, call'.pc, writer'.pc)
    BY <1>0, <1>1, <1>4 DEF OfSend, Senders
  <2>2. call'.pc # "over"
    BY <1>0, <1>1 DEF SendPcs
  <2> QED BY <1>0, <1>1, <1>3, <1>4, <2>1, <2>2, OneFits
<1>5. CASE pty' = pty /\ writer'.pc # "over"
  <2>1. pty' = [pty EXCEPT ![p] = w] BY <1>0, <1>5 DEF PtyType
  <2> QED BY <1>1, <1>2, <1>4, <1>5, <2>1 DEF SendHolds
<1>6. CASE WriterPuts(p)
  <2> DEFINE a == w.keys + 1
             t == [w EXCEPT !.keys = a]
  <2>1. Whole(t) BY <1>1, Updates
  <2>2. t.held = w.held /\ t.bad = w.bad BY <1>1 DEF Whole
  <2>3. pty' = [pty EXCEPT ![p] = t] BY <1>6 DEF WriterPuts
  <2>4. writer'.pc # "over" BY <1>6 DEF WriterPuts, TeardownInv, SendInv, WriterType
  <2> HIDE DEF t
  <2> QED BY <1>2, <1>4, <2>1, <2>2, <2>3, <2>4 DEF SendHolds
<1>7. CASE WriterCloses(p)
  <2>1. PICK t : t = Close(w, {"write"}) OBVIOUS
  <2>2. Whole(t) /\ t.held = w.held \ {"write"} /\ t.bad = w.bad \cup ({"write"} \ w.held)
    BY <1>1, <2>1, Closes
  <2>3. t.bad = {} /\ t.held = Handles \cup {"thread"}
    BY <1>2, <2>2 DEF Handles
  <2>4. writer'.pc = "over" BY <1>7 DEF WriterCloses, TeardownInv, SendInv, WriterType
  <2>5. pty' = [pty EXCEPT ![p] = t] BY <1>7, <2>1 DEF WriterCloses
  <2> QED BY <1>4, <2>2, <2>3, <2>4, <2>5 DEF SendHolds
<1>8. pty' = pty => writer'.pc # "over" \/ WriterCloses(p)
  BY DEF Writer, WriterCheck, WriterEnters, WriterPuts, WriterFails, TeardownInv, SendInv, WriterType, Active
<1> QED BY <1>5, <1>6, <1>7, <1>8 DEF Writer, WriterCheck, WriterEnters, WriterFails

\* What the calls of a spawn make, one after the other.
LEMMA MadeAre ==
    /\ MadeBefore(1) = {} /\ MadeBefore(2) = {"inR", "inW"}
    /\ MadeBefore(3) = {"inR", "inW", "outR", "outW"}
    /\ MadeBefore(4) = {"inR", "inW", "outR", "outW", "hpc"}
    /\ MadeBefore(5) = {"inR", "inW", "outR", "outW", "hpc", "job", "jobH"}
    /\ MadeBefore(6) = {"inR", "inW", "outR", "outW", "hpc", "job", "jobH", "pty"}
    /\ MadeBefore(7) = {"inR", "inW", "outR", "outW", "hpc", "job", "jobH", "pty", "proc"}
<1>1. /\ Makes[1] = {"inR", "inW"} /\ Makes[2] = {"outR", "outW"} /\ Makes[3] = {"hpc"}
      /\ Makes[4] = {"job", "jobH"} /\ Makes[5] = {"pty"} /\ Makes[6] = {"proc"}
  BY DEF Makes
<1>2. ASSUME NEW n \in 1..6 PROVE MadeBefore(n + 1) = MadeBefore(n) \cup Makes[n]
  <2>1. 1..((n + 1) - 1) = (1..(n - 1)) \cup {n}
    OBVIOUS
  <2> QED BY <2>1 DEF MadeBefore
<1>3. MadeBefore(1) = {}
  BY DEF MadeBefore
<1>4. /\ MadeBefore(1 + 1) = MadeBefore(1) \cup Makes[1]
      /\ MadeBefore(2 + 1) = MadeBefore(2) \cup Makes[2]
      /\ MadeBefore(3 + 1) = MadeBefore(3) \cup Makes[3]
      /\ MadeBefore(4 + 1) = MadeBefore(4) \cup Makes[4]
      /\ MadeBefore(5 + 1) = MadeBefore(5) \cup Makes[5]
      /\ MadeBefore(6 + 1) = MadeBefore(6) \cup Makes[6]
  BY <1>2
<1>5. 1 + 1 = 2 /\ 2 + 1 = 3 /\ 3 + 1 = 4 /\ 4 + 1 = 5 /\ 5 + 1 = 6 /\ 6 + 1 = 7
  OBVIOUS
<1> QED BY <1>1, <1>3, <1>4, <1>5

\* Whichever call of a spawn fails, done closes what is open, once; nothing fails at 7.
LEMMA SpawnCleans ==
    ASSUME NEW n \in 1..7
    PROVE  /\ HandedOver(n) \subseteq MadeBefore(n)
           /\ AtDone(Locals(n)) \subseteq MadeBefore(n) \ HandedOver(n)
           /\ (MadeBefore(n) \ HandedOver(n)) \ AtDone(Locals(n)) = IF n = 7 THEN Handles ELSE {}
<1>1. Len(Makes) = 6
  BY DEF Makes
<1>2. n \in {1, 2, 3} \/ n \in {4, 5} \/ n = 6 \/ n = 7
  OBVIOUS
<1>3. CASE n \in {1, 2, 3}
  <2>1. HandedOver(n) = {} /\ Locals(n) = MadeBefore(n)
    BY <1>1, <1>3 DEF HandedOver, Locals
  <2>2. AtDone(MadeBefore(n)) = MadeBefore(n)
    BY <1>3, MadeAre DEF AtDone, ChildEnds
  <2> QED BY <1>3, <2>1, <2>2
<1>4. CASE n \in {4, 5}
  <2>1. HandedOver(n) = ChildEnds /\ Locals(n) = MadeBefore(n) \ ChildEnds
    BY <1>1, <1>4 DEF HandedOver, Locals
  <2>2. AtDone(MadeBefore(n) \ ChildEnds) = MadeBefore(n) \ ChildEnds /\ ChildEnds \subseteq MadeBefore(n)
    BY <1>4, MadeAre DEF AtDone, ChildEnds
  <2> QED BY <1>4, <2>1, <2>2
<1>5. CASE n = 6
  <2>1. HandedOver(n) = ChildEnds /\ Locals(n) = MadeBefore(n) \ ChildEnds
    BY <1>1, <1>5 DEF HandedOver, Locals
  <2>2. MadeBefore(n) \ ChildEnds = {"inW", "outR", "hpc", "job", "jobH", "pty"}
    BY <1>5, MadeAre DEF ChildEnds
  <2>3. AtDone({"inW", "outR", "hpc", "job", "jobH", "pty"}) = {"inW", "outR", "hpc", "job", "jobH", "pty"}
    BY DEF AtDone, ChildEnds
  <2>4. ChildEnds \subseteq MadeBefore(n)
    BY <1>5, MadeAre DEF ChildEnds
  <2> QED BY <1>5, <2>1, <2>2, <2>3, <2>4
<1>6. CASE n = 7
  <2>1. HandedOver(n) = ChildEnds /\ Locals(n) = {"pty", "proc"}
    BY <1>1, <1>6 DEF HandedOver, Locals
  <2>2. AtDone({"pty", "proc"}) = {}
    BY DEF AtDone, ChildEnds
  <2>3. MadeBefore(n) \ ChildEnds = Handles /\ ChildEnds \subseteq MadeBefore(n)
    BY <1>6, MadeAre DEF ChildEnds, Handles
  <2> QED BY <1>6, <2>1, <2>2, <2>3
<1> QED BY <1>2, <1>3, <1>4, <1>5, <1>6

\* What a spawn leaves: a terminal of its own, or nothing.
LEMMA Spawned ==
    ASSUME TeardownInv, NEW p \in Ptys, Spawn(p)
    PROVE  \E ok, t :
             /\ ok \in BOOLEAN /\ Whole(t) /\ t.bad = {} /\ t.held = (IF ok THEN Handles ELSE {})
             /\ t.tree = (IF ok THEN "alive" ELSE "none") /\ t.drain = "none" /\ t.queue = <<>>
             /\ t.screen = <<>> /\ t.given = <<>> /\ t.made = 0
             /\ pty' = [pty EXCEPT ![p] = t] /\ listed' = IF ok THEN listed \cup {p} ELSE listed
<1>0. Len(Makes) = 6 /\ 1..(6 + 1) = 1..7
  BY DEF Makes
<1>1. PICK n \in 1..7 :
        LET made == [NoPty EXCEPT !.held = MadeBefore(n)]
            done == Close(Close(made, HandedOver(n)), AtDone(Locals(n)))
            ok == n > 6
        IN  /\ pty' = [pty EXCEPT ![p] = [done EXCEPT !.tree = IF ok THEN "alive" ELSE "none",
                                                     !.host = IF ok THEN "up" ELSE "none"]]
            /\ listed' = IF ok THEN listed \cup {p} ELSE listed
  BY <1>0 DEF Spawn
<1>2. PICK a, b, c : a = MadeBefore(n) /\ b = HandedOver(n) /\ c = AtDone(Locals(n))
  OBVIOUS
<1>3. PICK ok \in BOOLEAN : (n > 6 <=> ok) /\ (n = 7 <=> ok)
  <2>1. n > 6 <=> n = 7 OBVIOUS
  <2>2. CASE n = 7
    <3>1. (n > 6 <=> TRUE) /\ (n = 7 <=> TRUE) BY <2>1, <2>2
    <3> QED BY <3>1, Zenon
  <2>3. CASE n # 7
    <3>1. (n > 6 <=> FALSE) /\ (n = 7 <=> FALSE) BY <2>1, <2>3
    <3> QED BY <3>1, Zenon
  <2> QED BY <2>2, <2>3
<1>4. PICK tree, host : /\ tree = (IF ok THEN "alive" ELSE "none")
                        /\ host = (IF ok THEN "up" ELSE "none")
  OBVIOUS
<1>5. PICK made, mid, done : /\ made = [NoPty EXCEPT !.held = a] /\ mid = Close(made, b)
                             /\ done = Close(mid, c)
  OBVIOUS
<1>6. b \subseteq a /\ c \subseteq a \ b /\ (a \ b) \ c = (IF ok THEN Handles ELSE {})
  BY <1>2, <1>3, SpawnCleans
<1>7. /\ Whole(made) /\ made.held = a /\ made.bad = {} /\ made.drain = "none" /\ made.queue = <<>>
      /\ made.screen = <<>> /\ made.given = <<>> /\ made.made = 0
  BY <1>5 DEF NoPty, Whole
<1>8. Whole(mid) /\ mid.held = a \ b /\ mid.bad = {} /\ Same(mid, made)
  <2>1. /\ Whole(mid) /\ mid.held = made.held \ b
        /\ mid.bad = made.bad \cup (b \ made.held) /\ Same(mid, made)
    <3>1. mid = Close(made, b) BY <1>5
    <3> QED BY <1>7, <3>1, Closes
  <2> QED BY <1>6, <1>7, <2>1
<1>9. Whole(done) /\ done.held = (a \ b) \ c /\ done.bad = {} /\ Same(done, mid)
  <2>1. /\ Whole(done) /\ done.held = mid.held \ c
        /\ done.bad = mid.bad \cup (c \ mid.held) /\ Same(done, mid)
    <3>1. done = Close(mid, c) BY <1>5
    <3> QED BY <1>8, <3>1, Closes
  <2> QED BY <1>6, <1>8, <2>1
<1>10. PICK t : t = [done EXCEPT !.tree = tree, !.host = host]
  OBVIOUS
<1>11. Whole(t) /\ t.held = done.held /\ t.bad = done.bad /\ t.tree = tree /\ t.drain = done.drain
       /\ t.queue = done.queue /\ t.screen = done.screen /\ t.given = done.given /\ t.made = done.made
  BY <1>9, <1>10 DEF Whole
<1>12. /\ t.drain = "none" /\ t.queue = <<>> /\ t.screen = <<>> /\ t.given = <<>> /\ t.made = 0
  BY <1>7, <1>8, <1>9, <1>11 DEF Same
<1>13. pty' = [pty EXCEPT ![p] = t] /\ listed' = IF ok THEN listed \cup {p} ELSE listed
  BY <1>1, <1>2, <1>3, <1>4, <1>5, <1>10
<1> QED BY <1>4, <1>6, <1>9, <1>11, <1>12, <1>13

\* A spawn makes a terminal and lists it, or leaves nothing.
LEMMA TeardownSpawn == ASSUME TeardownInv, SendInv', NEW p \in Ptys, Spawn(p) PROVE TeardownInv'
<1>1. PICK ok, t :
        /\ ok \in BOOLEAN /\ Whole(t) /\ t.bad = {} /\ t.held = (IF ok THEN Handles ELSE {})
        /\ t.tree = (IF ok THEN "alive" ELSE "none") /\ t.drain = "none"
        /\ pty' = [pty EXCEPT ![p] = t] /\ listed' = IF ok THEN listed \cup {p} ELSE listed
  BY Spawned
<1>2. call.pc = "idle" /\ pty[p] = NoPty /\ UNCHANGED <<call, writer>> /\ call.pty = 0 /\ ~(0 = p)
  BY DEF Spawn, TeardownInv, CallsTerminal, Unowned, Ptys
<1>3. p \notin listed
  BY <1>2 DEF TeardownInv, HeldIsRight, NoPty, Handles
<1>4. CallsTerminal'
  BY <1>2 DEF TeardownInv, CallsTerminal, Unowned, ListedPcs, Senders, SendPcs, Dying
<1>5. OfSend(call'.pty = p, call'.pc, writer'.pc) = {}
  BY <1>2 DEF OfSend
<1>6. p \in listed' => ok /\ t.held = Handles \cup OfSend(call'.pty = p, call'.pc, writer'.pc)
  BY <1>1, <1>3, <1>5
<1>7. p \notin listed' => IF call'.pty = p THEN Dies(t, call'.pc, call'.bad) ELSE Gone(t)
  BY <1>1, <1>2 DEF Gone
<1> QED BY <1>1, <1>2, <1>4, <1>6, <1>7, OneFits

\* A call that begins has a listed terminal; a send adds to it what its writer needs.
LEMMA TeardownOpens ==
    ASSUME TeardownInv, SendInv', UNCHANGED listed, NEW p \in Ptys, NEW op \in {"send", "read", "close"},
           NEW pc \in {"poll", "read", "free"}, Begin(op, p, pc), op = "send" <=> pc = "poll",
           NEW t, Whole(t), pty' = [pty EXCEPT ![p] = t], t.bad = pty[p].bad,
           t.held = IF op = "send" THEN pty[p].held \cup {"write", "thread"} ELSE pty[p].held
    PROVE TeardownInv'
<1>1. call' = [op |-> op, pty |-> p, pc |-> pc, bad |-> FALSE] /\ call.pty = 0 /\ p \in listed /\ ~(0 = p)
  BY DEF Begin, Calling, TeardownInv, CallsTerminal, Unowned, Ptys
<1>2. CallsTerminal'
  BY <1>1 DEF CallsTerminal, Unowned, ListedPcs, Senders, SendPcs, Dying
<1>3. pty[p].held = Handles /\ pty[p].bad = {}
  BY <1>1 DEF TeardownInv, HeldIsRight, OfSend
<1>4. op = "send" => writer'.pc = "check"
  BY DEF Begin, WriterAt
<1>5. t.held = Handles \cup OfSend(call'.pty = p, call'.pc, writer'.pc)
  <2>1. CASE op = "send"
    BY <1>1, <1>3, <1>4, <2>1 DEF OfSend, Senders, SendPcs, SendHolds
  <2>2. CASE op # "send"
    BY <1>1, <1>3, <2>2 DEF OfSend, Senders, SendPcs
  <2> QED BY <2>1, <2>2
<1> QED BY <1>1, <1>2, <1>3, <1>5, OneFits

\* The calls of a script.
LEMMA TeardownBegins ==
    ASSUME TeardownInv, SendInv', NEW p \in Ptys, SendBegins(p) \/ ReadBegins(p) \/ CloseBegins(p)
    PROVE  TeardownInv'
<1> DEFINE w == pty[p]
<1>0. PtyType /\ Whole(w) /\ pty = [pty EXCEPT ![p] = w] /\ listed' = listed
  BY DEF TeardownInv, PtyType, SendBegins, ReadBegins, CloseBegins
<1>1. CASE SendBegins(p)
  <2> DEFINE held == w.held \cup {"write", "thread"}
             t == [w EXCEPT !.held = held]
  <2>1. Whole(t) BY <1>0, Updates
  <2>2. t.held = held /\ t.bad = w.bad BY <1>0 DEF Whole
  <2>3. pty' = [pty EXCEPT ![p] = t] BY <1>1 DEF SendBegins
  <2>4. Begin("send", p, "poll") BY <1>1 DEF SendBegins
  <2> HIDE DEF t
  <2> QED BY <1>0, <2>1, <2>2, <2>3, <2>4, TeardownOpens
<1>2. CASE ReadBegins(p)
  <2>1. Begin("read", p, "read") /\ pty' = [pty EXCEPT ![p] = w] BY <1>0, <1>2 DEF ReadBegins
  <2> QED BY <1>0, <2>1, TeardownOpens
<1>3. CASE CloseBegins(p)
  <2>1. Begin("close", p, "free") /\ pty' = [pty EXCEPT ![p] = w] BY <1>0, <1>3 DEF CloseBegins
  <2> QED BY <1>0, <2>1, TeardownOpens
<1> QED BY <1>1, <1>2, <1>3

\* A send that cannot begin closes the duplicate it made.
LEMMA TeardownCannot ==
    ASSUME TeardownInv, SendInv', NEW p \in Ptys, SendCannot(p) PROVE TeardownInv'
<1> DEFINE w == pty[p]
<1>0. PtyType /\ Whole(w) /\ UNCHANGED <<listed, call, writer>> /\ p \in listed
      /\ call.pc = "idle" /\ call.pty = 0 /\ ~(0 = p)
  BY DEF TeardownInv, PtyType, SendCannot, CallsTerminal, Unowned, Ptys
<1>1. CallsTerminal' /\ call'.pc # "over"
  BY <1>0 DEF TeardownInv, CallsTerminal
<1>2. w.held = Handles /\ w.bad = {}
  BY <1>0 DEF TeardownInv, HeldIsRight, OfSend
<1>3. ASSUME NEW t, Whole(t), pty' = [pty EXCEPT ![p] = t], t.bad = {}, t.held = Handles
      PROVE  TeardownInv'
  <2>1. OfSend(call'.pty = p, call'.pc, writer'.pc) = {}
    BY <1>0 DEF OfSend
  <2> QED BY <1>0, <1>1, <1>3, <2>1, OneFits
<1>4. CASE UNCHANGED pty
  <2>1. pty' = [pty EXCEPT ![p] = w] BY <1>0, <1>4 DEF PtyType
  <2> QED BY <1>0, <1>2, <1>3, <2>1
<1>5. CASE ~UNCHANGED pty
  <2>1. PICK held, mid, t : /\ held = w.held \cup {"write"} /\ mid = [w EXCEPT !.held = held]
                            /\ t = Close(mid, {"write"})
    OBVIOUS
  <2>2. Whole(mid) /\ mid.held = held /\ mid.bad = {}
    BY <1>0, <1>2, <2>1 DEF Whole
  <2>3. Whole(t) /\ t.held = mid.held \ {"write"} /\ t.bad = mid.bad \cup ({"write"} \ mid.held)
    <3>1. t = Close(mid, {"write"}) BY <2>1
    <3> QED BY <2>2, <3>1, Closes
  <2>4. t.held = Handles /\ t.bad = {}
    BY <1>2, <2>1, <2>2, <2>3 DEF Handles
  <2>5. pty' = [pty EXCEPT ![p] = t]
    BY <1>5, <2>1 DEF SendCannot
  <2> QED BY <1>3, <2>3, <2>4, <2>5
<1> QED BY <1>4, <1>5

\* A call that returns owns no terminal; the one it had is listed still, or gone.
LEMMA TeardownReturns ==
    ASSUME TeardownInv, SendInv', UNCHANGED listed, NEW p \in Ptys, p = call.pty,
           NEW t, Whole(t), pty' = [pty EXCEPT ![p] = t], t.bad = {},
           NEW ok \in BOOLEAN, Return(ok),
           IF p \in listed THEN t.held = Handles ELSE Gone(t)
    PROVE  TeardownInv'
<1>1. call'.pty = 0 /\ call'.pc \in {"idle", "exit", "root"} /\ ~(0 = p)
  BY DEF Return, Idle, Calling, Ptys
<1>2. CallsTerminal'
  BY <1>1 DEF CallsTerminal, Unowned, ListedPcs, Senders, SendPcs, Dying
<1>3. OfSend(call'.pty = p, call'.pc, writer'.pc) = {}
  BY <1>1 DEF OfSend
<1> QED BY <1>1, <1>2, <1>3, OneFits

\* A step of a call on a listed terminal that leaves what is held.
LEMMA ListedMoves ==
    ASSUME TeardownInv, SendInv', UNCHANGED listed, NEW p \in listed, p = call.pty,
           NEW t, Whole(t), pty' = [pty EXCEPT ![p] = t], t.bad = pty[p].bad, t.held = pty[p].held,
           call.pc \in SendPcs, call'.pty = p, call'.pc \in Senders,
           writer'.pc = "over" <=> writer.pc = "over"
    PROVE  TeardownInv'
<1>1. p \in Ptys
  BY DEF TeardownInv, ListedType
<1>2. CallsTerminal' /\ call'.pc # "over"
  BY DEF CallsTerminal, Unowned, ListedPcs, Senders, SendPcs, Dying
<1>3. SendHolds(writer'.pc) = SendHolds(writer.pc)
  BY DEF SendHolds
<1>4. t.held = Handles \cup OfSend(call'.pty = p, call'.pc, writer'.pc) /\ t.bad = {}
  BY <1>1, <1>3 DEF TeardownInv, HeldIsRight, OfSend, Senders
<1> QED BY <1>1, <1>2, <1>4, OneFits

\* A send takes from the screen; when it ends, it closes the thread's handle.
LEMMA TeardownSend == ASSUME TeardownInv, SendInv', Send PROVE TeardownInv'
<1> DEFINE p == call.pty
           w == pty[p]
<1>1. call.pc \in Senders /\ listed' = listed /\ p \in listed /\ p \in Ptys /\ PtyType /\ Whole(w)
  BY DEF Send, SendPolls, SendCaptures, SendRechecks, SendStops, SendCancels, SendAwaits, SendFinishes,
         SendPcs, Senders, ListedPcs, TeardownInv, CallsTerminal, ListedType, PtyType
<1>2. CASE SendFinishes
  <2>1. writer.pc = "over" /\ call.pc = "finish"
    BY <1>2 DEF SendFinishes, TeardownInv, SendInv, Owned
  <2>2. w.held = Handles \cup {"thread"} /\ w.bad = {}
    BY <1>1, <2>1 DEF TeardownInv, HeldIsRight, OfSend, Senders, SendHolds
  <2>3. PICK t : t = Close(w, {"thread"})
    OBVIOUS
  <2>4. Whole(t) /\ t.held = w.held \ {"thread"} /\ t.bad = w.bad \cup ({"thread"} \ w.held)
    BY <1>1, <2>3, Closes
  <2>5. t.held = Handles /\ t.bad = {}
    BY <2>2, <2>4 DEF Handles
  <2>6. pty' = [pty EXCEPT ![p] = t]
    BY <1>2, <2>3 DEF SendFinishes
  <2>7. PICK ok \in BOOLEAN : Return(ok)
    BY <1>2 DEF SendFinishes, SendAnswersOk
  <2> QED BY <1>1, <2>4, <2>5, <2>6, <2>7, TeardownReturns
<1>3. CASE ~SendFinishes
  <2>1. call.pc \in SendPcs /\ (writer'.pc = "over" <=> writer.pc = "over")
    BY <1>3 DEF Send, SendPolls, SendCaptures, SendRechecks, SendStops, SendCancels, SendAwaits,
           CancelWrite, SendPcs, TeardownInv, SendInv, WriterType
  <2>2. \E pc \in Senders, bad \in BOOLEAN : \/ call' = [call EXCEPT !.pc = pc, !.bad = bad]
                                             \/ call' = [call EXCEPT !.pc = pc]
    BY <1>3 DEF Send, SendPolls, SendCaptures, SendRechecks, SendStops, SendCancels, SendAwaits,
           SendGivesUp, AfterWait, Goto, SendPcs, Senders
  <2>3. call'.pc \in Senders /\ call'.pty = p
    BY <2>2 DEF TeardownInv, SendInv, CallType
  <2>4. CASE UNCHANGED pty
    <3>1. pty' = [pty EXCEPT ![p] = w] BY <1>1, <2>4 DEF PtyType
    <3> QED BY <1>1, <2>1, <2>3, <3>1, ListedMoves
  <2>5. CASE Captured(p)
    <3>1. PICK a, b : pty' = [pty EXCEPT ![p].queue = a, ![p].screen = b]
      BY <2>5 DEF Captured
    <3>2. PICK t : t = [w EXCEPT !.queue = a, !.screen = b]
      OBVIOUS
    <3>3. Whole(t) /\ t.held = w.held /\ t.bad = w.bad BY <1>1, <3>2 DEF Whole
    <3>4. pty' = [pty EXCEPT ![p] = t] BY <1>1, <3>1, <3>2, Zenon DEF PtyType
    <3> QED BY <1>1, <2>1, <2>3, <3>3, <3>4, ListedMoves
  <2> QED BY <1>3, <2>4, <2>5 DEF Send, SendPolls, SendCaptures, SendRechecks, SendStops, SendCancels,
           SendAwaits
<1> QED BY <1>2, <1>3

\* A read answers.
LEMMA TeardownRead == ASSUME TeardownInv, SendInv', Read PROVE TeardownInv'
<1> DEFINE p == call.pty
           w == pty[p]
<1>1. call.pc = "read" /\ listed' = listed /\ p \in listed /\ p \in Ptys /\ PtyType /\ Whole(w)
      /\ Return(TRUE)
  BY DEF Read, ListedPcs, TeardownInv, CallsTerminal, ListedType, PtyType
<1>2. w.held = Handles /\ w.bad = {}
  BY <1>1 DEF TeardownInv, HeldIsRight, OfSend, Senders, SendPcs
<1>3. ASSUME NEW t, Whole(t), pty' = [pty EXCEPT ![p] = t], t.held = w.held, t.bad = w.bad
      PROVE  TeardownInv'
  BY <1>1, <1>2, <1>3, TeardownReturns
<1>4. CASE Nothing(p)
  <2>1. pty' = [pty EXCEPT ![p] = w] BY <1>1, <1>4 DEF PtyType, Nothing
  <2> QED BY <1>1, <1>3, <2>1
<1>5. CASE FromQueue(p)
  <2>1. PICK a, b : pty' = [pty EXCEPT ![p].given = a, ![p].queue = b]
    BY <1>5 DEF FromQueue
  <2>2. PICK t : t = [w EXCEPT !.given = a, !.queue = b]
    OBVIOUS
  <2>3. Whole(t) /\ t.held = w.held /\ t.bad = w.bad BY <1>1, <2>2 DEF Whole
  <2>4. pty' = [pty EXCEPT ![p] = t] BY <1>1, <2>1, <2>2, Zenon DEF PtyType
  <2> QED BY <1>3, <2>3, <2>4
<1>6. CASE FromPipe(p)
  <2>1. PICK a, b : pty' = [pty EXCEPT ![p].given = a, ![p].screen = b]
    BY <1>6 DEF FromPipe
  <2>2. PICK t : t = [w EXCEPT !.given = a, !.screen = b]
    OBVIOUS
  <2>3. Whole(t) /\ t.held = w.held /\ t.bad = w.bad BY <1>1, <2>2 DEF Whole
  <2>4. pty' = [pty EXCEPT ![p] = t] BY <1>1, <2>1, <2>2, Zenon DEF PtyType
  <2> QED BY <1>3, <2>3, <2>4
<1> QED BY <1>4, <1>5, <1>6 DEF Read

\* A step of a close on the terminal it has taken from the list.
LEMMA DyingMoves ==
    ASSUME TeardownInv, SendInv', NEW p \in Ptys, p = call.pty, listed' = listed \ {p},
           NEW t, Whole(t), pty' = [pty EXCEPT ![p] = t], t.bad = {},
           call'.pty = p, call'.pc \in Dying \cup {"terminate"}, Dies(t, call'.pc, call'.bad)
    PROVE TeardownInv'
<1>1. CallsTerminal' /\ call'.pc # "over"
  BY DEF CallsTerminal, Unowned, ListedPcs, Senders, SendPcs, Dying
<1> QED BY <1>1, OneFits

\* A close starts the drain, and from then on the terminal is its own.
LEMMA TeardownDrains == ASSUME TeardownInv, SendInv', FreeDrains PROVE TeardownInv'
<1> DEFINE p == call.pty
           w == pty[p]
<1>1. call.pc = "free" /\ p \in listed /\ p \in Ptys /\ PtyType /\ Whole(w)
  BY DEF FreeDrains, ListedPcs, TeardownInv, CallsTerminal, ListedType, PtyType
<1>2. w.held = Handles /\ w.bad = {}
  BY <1>1 DEF TeardownInv, HeldIsRight, OfSend, Senders, SendPcs
<1>3. CASE Return(FALSE) /\ UNCHANGED <<pty, listed>>
  <2>1. pty' = [pty EXCEPT ![p] = w] BY <1>1, <1>3 DEF PtyType
  <2> QED BY <1>1, <1>2, <1>3, <2>1, TeardownReturns
<1>4. CASE /\ Goto("terminate") /\ listed' = listed \ {p}
           /\ pty' = [pty EXCEPT ![p].drain = DrainStarted, ![p].given = <<>>,
                                 ![p].held = @ \cup {"drain"}]
  <2> DEFINE held == w.held \cup {"drain"}
  <2>1. PICK t : t = [w EXCEPT !.drain = "reading", !.given = <<>>, !.held = held]
    OBVIOUS
  <2>2. pty' = [pty EXCEPT ![p].drain = "reading", ![p].given = <<>>, ![p].held = held]
    BY <1>4, <1>1, Zenon DEF DrainStarted, PtyType
  <2> HIDE DEF held
  <2>3. Whole(t) /\ t.held = held /\ t.bad = w.bad /\ t.drain = "reading" BY <1>1, <2>1 DEF Whole
  <2>4. pty' = [pty EXCEPT ![p] = t] BY <1>1, <2>1, <2>2, Zenon DEF PtyType
  <2>5. call'.pty = p /\ call'.pc = "terminate"
    BY <1>4 DEF Goto, TeardownInv, SendInv, CallType
  <2>6. held = ToClose("terminate", call'.bad)
    BY <1>2 DEF held, Handles, ToClose
  <2>7. Dies(t, call'.pc, call'.bad)
    BY <2>3, <2>5, <2>6 DEF Dies, Dying
  <2> QED BY <1>1, <1>2, <1>4, <2>3, <2>4, <2>5, <2>7, DyingMoves
<1> QED BY <1>3, <1>4 DEF FreeDrains

\* A close takes the tree down before it gives anything back, closes each handle once, and
\* leaves only what a drain may still use.
LEMMA TeardownFree == ASSUME TeardownInv, SendInv', Free PROVE TeardownInv'
<1> DEFINE p == call.pty
           w == pty[p]
<1>0. FreeDrains \/ call.pc \in Dying \cup {"terminate"}
  BY DEF Free, FreeTerminates, FreeClosesConsole, FreeConsoleGone, FreeWaits, FreeWaitsAgain,
         FreeReleases, Dying
<1>1. ASSUME call.pc \in Dying \cup {"terminate"}
      PROVE  /\ p \in Ptys /\ p \notin listed /\ listed \ {p} = listed /\ PtyType /\ Whole(w)
             /\ w.bad = {} /\ Dies(w, call.pc, call.bad) /\ call.bad \in BOOLEAN
             /\ pty = [pty EXCEPT ![p] = w]
  <2>1. p \in Ptys /\ p \notin listed /\ PtyType /\ call.bad \in BOOLEAN
    BY <1>1 DEF TeardownInv, CallsTerminal, SendInv, CallType
  <2>2. w.bad = {} /\ Dies(w, call.pc, call.bad)
    BY <2>1 DEF TeardownInv, HeldIsRight
  <2> QED BY <2>1, <2>2 DEF PtyType
<1>2. ASSUME NEW pc, Goto(pc) PROVE call'.pc = pc /\ call'.pty = p /\ call'.bad = call.bad
  BY <1>2 DEF Goto, TeardownInv, SendInv, CallType
<1>3. CASE FreeTerminates
  <2>0. call.pc = "terminate" /\ listed' = listed
    BY <1>3 DEF FreeTerminates
  <2>1. PICK failed \in BOOLEAN :
          /\ pty' = [pty EXCEPT ![p] = [Close(@, IF failed THEN {"jobH"} ELSE {})
                                        EXCEPT !.tree = TreeAfter(failed)]]
          /\ call' = [call EXCEPT !.pc = "console", !.bad = failed]
    BY <1>3 DEF FreeTerminates
  <2>2. PICK names, c, t : /\ names = (IF failed THEN {"jobH"} ELSE {}) /\ c = Close(w, names)
                           /\ t = [c EXCEPT !.tree = "dead"]
    OBVIOUS
  <2>3. Whole(c) /\ c.held = w.held \ names /\ c.bad = w.bad \cup (names \ w.held) /\ Same(c, w)
    BY <1>1, <2>0, <2>2, Closes
  <2>4. Whole(t) /\ t.held = c.held /\ t.bad = c.bad /\ t.tree = "dead" /\ t.drain = w.drain
    BY <2>2, <2>3 DEF Whole, Same
  <2>5. w.held = ToClose("terminate", call.bad) /\ w.drain \in {"reading", "gap", "over"}
    BY <1>1, <2>0 DEF Dies
  <2>6. t.held = ToClose("console", failed) /\ t.bad = {}
    BY <1>1, <2>0, <2>2, <2>3, <2>4, <2>5 DEF ToClose
  <2>7. call'.pty = p /\ call'.pc = "console" /\ call'.bad = failed
    BY <2>1 DEF TeardownInv, SendInv, CallType
  <2>8. Dies(t, call'.pc, call'.bad)
    BY <2>4, <2>5, <2>6, <2>7 DEF Dies
  <2>9. pty' = [pty EXCEPT ![p] = t]
    BY <2>1, <2>2 DEF TreeAfter
  <2> QED BY <1>1, <2>0, <2>4, <2>6, <2>7, <2>8, <2>9, DyingMoves DEF Dying
<1>4. CASE FreeClosesConsole
  <2>0. call.pc = "console" /\ listed' = listed /\ Goto("console wait")
    BY <1>4 DEF FreeClosesConsole
  <2>1. PICK c, t : /\ c = Close(w, {"inW"})
                    /\ t = IF c.host = "up" THEN [c EXCEPT !.host = "closing", !.pend = @ + 1] ELSE c
    OBVIOUS
  <2>2. Whole(c) /\ c.held = w.held \ {"inW"} /\ c.bad = w.bad \cup ({"inW"} \ w.held) /\ Same(c, w)
    <3>1. Whole(w) BY <1>1, <2>0 DEF Dying
    <3> QED BY <2>1, <3>1, Closes
  <2>3. Whole(t) /\ t.held = c.held /\ t.bad = c.bad /\ t.tree = w.tree /\ t.drain = w.drain
    BY <2>1, <2>2 DEF Whole, Same
  <2>4. w.held = ToClose("console", call.bad) /\ w.drain \in {"reading", "gap", "over"} /\ w.tree # "alive"
    BY <1>1, <2>0 DEF Dies, Dying
  <2>5. t.held = ToClose("console wait", call.bad) /\ t.bad = {}
    BY <1>1, <2>0, <2>2, <2>3, <2>4 DEF ToClose, Dying
  <2>6. Dies(t, call'.pc, call'.bad)
    <3>1. call'.pc = "console wait" /\ call'.bad = call.bad BY <1>2, <2>0
    <3> QED BY <2>3, <2>4, <2>5, <3>1 DEF Dies
  <2>7. pty' = [pty EXCEPT ![p] = t]
    BY <1>4, <2>1 DEF FreeClosesConsole
  <2> QED BY <1>1, <1>2, <2>0, <2>3, <2>5, <2>6, <2>7, DyingMoves DEF Dying
<1>5. CASE FreeConsoleGone
  <2>0. call.pc = "console wait" /\ listed' = listed /\ Goto("drain wait")
    BY <1>5 DEF FreeConsoleGone
  <2>1. PICK t : t = Close(w, {"hpc"})
    OBVIOUS
  <2>2. Whole(t) /\ t.held = w.held \ {"hpc"} /\ t.bad = w.bad \cup ({"hpc"} \ w.held) /\ Same(t, w)
    <3>1. Whole(w) BY <1>1, <2>0 DEF Dying
    <3> QED BY <2>1, <3>1, Closes
  <2>3. w.held = ToClose("console wait", call.bad) /\ w.drain \in {"reading", "gap", "over"}
        /\ w.tree # "alive"
    BY <1>1, <2>0 DEF Dies, Dying
  <2>4. t.held = ToClose("drain wait", call.bad) /\ t.bad = {}
    BY <1>1, <2>0, <2>2, <2>3 DEF ToClose, Dying
  <2>5. Dies(t, call'.pc, call'.bad)
    <3>1. call'.pc = "drain wait" /\ call'.bad = call.bad BY <1>2, <2>0
    <3> QED BY <2>2, <2>3, <2>4, <3>1 DEF Dies, Same
  <2>6. pty' = [pty EXCEPT ![p] = t]
    BY <1>5, <2>1 DEF FreeConsoleGone
  <2> QED BY <1>1, <1>2, <2>0, <2>2, <2>4, <2>5, <2>6, DyingMoves DEF Dying
\* What is held while the drain is waited for.
<1>6. ASSUME NEW pc \in {"drain wait", "last wait", "release"}, NEW bad
      PROVE  ToClose(pc, bad) = {"outR", "job", "proc", "pty", "drain"}
                                  \cup (IF bad THEN {} ELSE {"jobH"})
  BY <1>6 DEF ToClose
<1>7. CASE FreeWaits
  <2>0. call.pc = "drain wait" /\ listed' = listed
    BY <1>7 DEF FreeWaits
  <2>1. Dies(w, "drain wait", call.bad)
    BY <1>1, <2>0 DEF Dying
  <2>2. CASE w.drain = "over" /\ Goto("release") /\ UNCHANGED pty
    <3>1. Dies(w, "release", call.bad)
      BY <1>6, <2>1, <2>2 DEF Dies, Dying
    <3>2. call'.pc = "release" /\ call'.pty = p /\ call'.bad = call.bad
      BY <1>2, <2>2
    <3>3. pty' = [pty EXCEPT ![p] = w]
      BY <1>1, <2>0, <2>2 DEF Dying
    <3> QED BY <1>1, <2>0, <3>1, <3>2, <3>3, DyingMoves DEF Dying
  <2>3. CASE /\ Goto("last wait")
             /\ pty' = [pty EXCEPT ![p].drain = IF @ = "reading" THEN "over" ELSE @]
    <3>1. PICK drain, t : /\ drain = (IF w.drain = "reading" THEN "over" ELSE w.drain)
                          /\ t = [w EXCEPT !.drain = drain]
      OBVIOUS
    <3>2. Whole(t) /\ t.held = w.held /\ t.bad = w.bad /\ t.tree = w.tree /\ t.drain = drain
      BY <1>1, <2>0, <3>1 DEF Whole, Dying
    <3>3. Dies(t, "last wait", call.bad)
      BY <1>6, <2>1, <3>1, <3>2 DEF Dies, Dying
    <3>4. call'.pc = "last wait" /\ call'.pty = p /\ call'.bad = call.bad
      BY <1>2, <2>3
    <3>5. pty' = [pty EXCEPT ![p] = t]
      BY <1>1, <2>0, <2>3, <3>1, Zenon DEF PtyType, Dying
    <3> QED BY <1>1, <2>0, <3>2, <3>3, <3>4, <3>5, DyingMoves DEF Dying
  <2> QED BY <1>7, <2>2, <2>3 DEF FreeWaits
<1>8. CASE FreeWaitsAgain
  <2>0. call.pc = "last wait" /\ listed' = listed
    BY <1>8 DEF FreeWaitsAgain
  <2>1. Dies(w, "last wait", call.bad)
    BY <1>1, <2>0 DEF Dying
  <2>2. CASE w.drain = "over" /\ Goto("release") /\ UNCHANGED pty
    <3>1. Dies(w, "release", call.bad)
      BY <1>6, <2>1, <2>2 DEF Dies, Dying
    <3>2. call'.pc = "release" /\ call'.pty = p /\ call'.bad = call.bad
      BY <1>2, <2>2
    <3>3. pty' = [pty EXCEPT ![p] = w]
      BY <1>1, <2>0, <2>2 DEF Dying
    <3> QED BY <1>1, <2>0, <3>1, <3>2, <3>3, DyingMoves DEF Dying
  <2>3. CASE /\ Return(FALSE)
             /\ pty' = [pty EXCEPT ![p] = [Close(@, {"drain"}) EXCEPT !.drain = "left"]]
    <3>1. PICK c, t : c = Close(w, {"drain"}) /\ t = [c EXCEPT !.drain = "left"]
      OBVIOUS
    <3>2. Whole(c) /\ c.held = w.held \ {"drain"} /\ c.bad = w.bad \cup ({"drain"} \ w.held) /\ Same(c, w)
      <4>1. Whole(w) BY <1>1, <2>0 DEF Dying
      <4> QED BY <3>1, <4>1, Closes
    <3>3. Whole(t) /\ t.held = c.held /\ t.bad = c.bad /\ t.tree = w.tree /\ t.drain = "left"
      BY <3>1, <3>2 DEF Whole, Same
    <3>4. w.held = ToClose("last wait", call.bad) /\ w.tree # "alive"
      BY <2>1 DEF Dies, Dying
    <3>5. w.held = {"outR", "job", "proc", "pty", "drain"} \cup (IF call.bad THEN {} ELSE {"jobH"})
      BY <1>6, <3>4
    <3>6. t.held \ {"jobH"} = {"outR", "proc", "job", "pty"} /\ t.bad = {}
      BY <1>1, <2>0, <3>2, <3>3, <3>5 DEF Dying
    <3>7. Gone(t)
      BY <3>3, <3>4, <3>6 DEF Gone
    <3>8. pty' = [pty EXCEPT ![p] = t]
      BY <2>3, <3>1
    <3> QED BY <1>1, <2>0, <2>3, <3>3, <3>6, <3>7, <3>8, TeardownReturns DEF Dying
  <2> QED BY <1>8, <2>2, <2>3 DEF FreeWaitsAgain
<1>9. CASE FreeReleases
  <2>0. call.pc = "release" /\ listed' = listed /\ Return(~call.bad)
        /\ pty' = [pty EXCEPT ![p] = Released(@, call.bad)]
    BY <1>9 DEF FreeReleases
  <2>1. PICK names, c, t :
          /\ names = {"drain", "outR", "proc", "pty"} \cup JobFreed(call.bad) /\ c = Close(w, names)
          /\ t = [c EXCEPT !.queue = <<>>, !.screen = <<>>, !.keys = 0, !.made = 0]
    OBVIOUS
  <2>2. Whole(c) /\ c.held = w.held \ names /\ c.bad = w.bad \cup (names \ w.held) /\ Same(c, w)
    BY <1>1, <2>0, <2>1, Closes DEF Dying
  <2>3. Whole(t) /\ t.held = c.held /\ t.bad = c.bad /\ t.tree = w.tree /\ t.drain = w.drain
    BY <2>1, <2>2 DEF Whole, Same
  <2>4. w.held = ToClose("release", call.bad) /\ w.tree # "alive" /\ w.drain = "over"
    BY <1>1, <2>0 DEF Dies, Dying
  <2>5. w.held = {"outR", "job", "proc", "pty", "drain"} \cup (IF call.bad THEN {} ELSE {"jobH"})
    BY <1>6, <2>4
  <2>6. names = w.held
    BY <2>1, <2>5 DEF JobFreed
  <2>7. t.held = {} /\ t.bad = {}
    BY <1>1, <2>0, <2>2, <2>3, <2>6 DEF Dying
  <2>8. Gone(t)
    BY <2>3, <2>4, <2>7 DEF Gone
  <2>9. pty' = [pty EXCEPT ![p] = t]
    BY <2>0, <2>1 DEF Released
  <2>10. PICK ok \in BOOLEAN : Return(ok)
    BY <1>1, <2>0 DEF Dying
  <2> QED BY <1>1, <2>0, <2>3, <2>7, <2>8, <2>9, <2>10, TeardownReturns DEF Dying
<1> QED BY <1>3, <1>4, <1>5, <1>7, <1>8, <1>9, TeardownDrains DEF Free

\* The exit closes what is listed, and the root job takes the rest.
LEMMA TeardownExit == ASSUME TeardownInv, SendInv', Exit PROVE TeardownInv'
<1>0. UNCHANGED <<listed, writer>> /\ PtyType /\ call.pty = 0
  BY DEF Exit, ExitBegins, ExitNext, ExitRoot, TeardownInv, CallsTerminal, Unowned
<1>1. ASSUME PtyType', call'.pty = 0, call'.pc \in Unowned, NothingAlive',
             \A q \in Ptys : /\ pty'[q].held = pty[q].held /\ pty'[q].bad = pty[q].bad
                             /\ pty'[q].drain = pty[q].drain
                             /\ pty[q].tree # "alive" => pty'[q].tree # "alive"
      PROVE  TeardownInv'
  <2>1. CallsTerminal' /\ ListedType'
    BY <1>0, <1>1 DEF CallsTerminal, Unowned, ListedPcs, Senders, SendPcs, Dying, TeardownInv,
      ListedType, Ptys
  <2>2. \A q \in Ptys : ~(call.pty = q) /\ ~(call'.pty = q)
    BY <1>0, <1>1 DEF Ptys
  <2>3. \A q \in listed : pty'[q].held = Handles
    BY <1>1, <2>2 DEF TeardownInv, ListedType, HeldIsRight, OfSend
  <2>4. \A q \in Ptys \ listed : Gone(pty'[q])
    BY <1>1, <2>2 DEF TeardownInv, HeldIsRight, Gone
  <2>5. \A q \in Ptys : pty'[q].bad = {}
    BY <1>1 DEF TeardownInv, HeldIsRight
  <2>6. \A q \in listed : OfSend(call'.pty = q, call'.pc, writer'.pc) = {}
    BY <2>2 DEF OfSend, TeardownInv, ListedType
  <2>7. HeldIsRight'
    BY <1>0, <2>2, <2>3, <2>4, <2>5, <2>6 DEF HeldIsRight, Ptys
  <2> QED BY <1>1, <2>1, <2>7 DEF TeardownInv
<1>2. CASE UNCHANGED pty /\ (Goto("root") \/ call' = Calling("exit", 0, "exit"))
  <2>1. call'.pty = 0 /\ call'.pc \in {"exit", "root"}
    BY <1>0, <1>2 DEF Goto, Calling, TeardownInv, SendInv, CallType
  <2>2. PtyType' /\ NothingAlive'
    BY <1>0, <1>2, <2>1 DEF PtyType, NothingAlive, Ptys
  <2> QED BY <1>1, <1>2, <2>1, <2>2 DEF Unowned
<1>3. ASSUME UNCHANGED pty, NEW p \in listed, call' = Calling("exit", p, "free") PROVE TeardownInv'
  <2>1. p \in Ptys /\ pty' = [pty EXCEPT ![p] = pty[p]] /\ Whole(pty[p]) /\ ~(0 = p)
    <3>1. p \in Ptys BY <1>3 DEF TeardownInv, ListedType
    <3>2. pty = [pty EXCEPT ![p] = pty[p]] /\ Whole(pty[p]) BY <1>0, <3>1 DEF PtyType
    <3> QED BY <1>3, <3>1, <3>2 DEF Ptys
  <2>2. call'.pty = p /\ call'.pc = "free"
    BY <1>3 DEF Calling
  <2>3. CallsTerminal'
    BY <1>0, <2>2 DEF CallsTerminal, Unowned, ListedPcs, Senders, SendPcs, Dying
  <2>4. OfSend(call'.pty = p, call'.pc, writer'.pc) = {} /\ OfSend(call.pty = p, call.pc, writer.pc) = {}
    BY <1>0, <2>1, <2>2 DEF OfSend, Senders, SendPcs
  <2>5. pty[p].held = Handles /\ pty[p].bad = {}
    <3>1. pty[p].held = Handles \cup OfSend(call.pty = p, call.pc, writer.pc) /\ pty[p].bad = {}
      BY <1>3, <2>1 DEF TeardownInv, HeldIsRight
    <3>2. Handles \cup {} = Handles OBVIOUS
    <3> QED BY <2>4, <3>1, <3>2
  <2> QED BY <1>0, <2>1, <2>2, <2>3, <2>4, <2>5, OneFits
<1>4. CASE ExitRoot
  <2>1. call'.pty = 0 /\ call'.pc = "over"
    BY <1>0, <1>4 DEF ExitRoot, Goto, TeardownInv, SendInv, CallType
  <2>2. ASSUME NEW q \in Ptys
        PROVE  /\ Whole(pty'[q]) /\ pty'[q].tree # "alive" /\ pty'[q].held = pty[q].held
               /\ pty'[q].drain = pty[q].drain /\ pty'[q].bad = pty[q].bad
    <3>0. Whole(pty[q]) BY <1>0 DEF PtyType
    <3>1. CASE pty[q].tree # "alive"
      BY <1>4, <3>0, <3>1 DEF ExitRoot
    <3>2. CASE pty[q].tree = "alive"
      <4>1. PICK t : t = [pty[q] EXCEPT !.tree = "dead"]
        OBVIOUS
      <4>2. /\ Whole(t) /\ t.held = pty[q].held /\ t.bad = pty[q].bad /\ t.drain = pty[q].drain
            /\ t.tree = "dead"
        BY <3>0, <4>1 DEF Whole
      <4>3. pty'[q] = t BY <1>4, <3>2, <4>1 DEF ExitRoot
      <4> QED BY <4>2, <4>3
    <3> QED BY <3>1, <3>2
  <2>3. PtyType' /\ NothingAlive'
    BY <1>4, <2>2 DEF PtyType, ExitRoot, NothingAlive, Ptys
  <2> QED BY <1>1, <2>1, <2>2, <2>3 DEF Unowned
<1> QED BY <1>2, <1>3, <1>4 DEF Exit, ExitBegins, ExitNext

\* Every step preserves it.
LEMMA TeardownStep == ASSUME TeardownInv, [Next]_vars PROVE TeardownInv'
<1>0. SendInv'
  BY SendStep DEF TeardownInv, ListedType
<1>1. CASE UNCHANGED vars
  BY <1>0, <1>1 DEF vars, TeardownInv, PtyType, CallsTerminal, ListedType, HeldIsRight, NothingAlive,
    Ptys
<1> QED BY <1>0, <1>1, TeardownSpawn, TeardownBegins, TeardownCannot, TeardownHosts, TeardownWriter,
           TeardownSend, TeardownRead, TeardownFree, TeardownExit DEF Next

\* Whatever call fails, a spawn, a send and a close close each handle once and forget none,
\* and after the exit no tree lives (pty_spawn, pty_free, PtyCmd, proc_cleanup).
THEOREM TeardownIsCleanHolds == Spec => []TeardownIsClean
<1> QED BY TeardownInit, TeardownStep, TeardownSuffices, PTL DEF Spec
---------------------------------------------------------------------------
(* OutputIsKept: retained chunks and pipe are the tail of what the screen said *)

\* What sequences are joined to.
Seqs == INSTANCE SeqProofs WITH Step <- Append
LEMMA JoinedIs == \A q : Flat(q) = Seqs!FlattenSeq(q)
  BY DEF Flat, FlattenSeq, Seqs!FlattenSeq

\* What a screen is made of; a name of its own keeps the sets of sequences small for the provers.
Units == Nat
Line(n) == [i \in 1..n |-> i]
Screens(t) == /\ t.queue \in Seq(Seq(Units)) /\ t.screen \in Seq(Units) /\ t.given \in Seq(Units)
              /\ t.made \in Nat
\* What the script was given, what is retained, what waits in the pipe.
Told(given, queue, screen) == (given \o Flat(queue)) \o screen
InOrder(t) == /\ Told(t.given, t.queue, t.screen) = Line(t.made)
              /\ Len(Flat(t.queue)) <= QueueLimit
\* What nothing but the terminal's own send and read take from, while it is listed.
Retained(t) == Screens(t) /\ InOrder(t) /\ t.drain = "none"
RetainedInv == \A p \in listed : Retained(pty[p])

\* What is retained and read depends on these fields alone.
LEMMA RetainedSame ==
    ASSUME NEW t, NEW u, Retained(u), t.queue = u.queue, t.screen = u.screen, t.given = u.given,
           t.made = u.made, t.drain = u.drain
    PROVE  Retained(t)
BY DEF Retained, Screens, InOrder

\* One terminal changes.
LEMMA RetainedOne ==
    ASSUME TeardownInv, RetainedInv, NEW p \in Ptys, NEW t, Whole(t), pty' = [pty EXCEPT ![p] = t],
           listed' \subseteq listed \cup {p}, p \in listed' => Retained(t)
    PROVE  RetainedInv'
<1>1. pty'[p] = t /\ \A q \in Ptys \ {p} : pty'[q] = pty[q]
  BY OneTerminal DEF TeardownInv
<1>2. ASSUME NEW q \in listed' PROVE Retained(pty'[q])
  <2>1. CASE q = p
    BY <1>1, <1>2, <2>1
  <2>2. CASE q # p
    <3>1. q \in listed /\ q \in Ptys
      BY <2>2 DEF TeardownInv, ListedType
    <3>2. pty'[q] = pty[q]
      BY <1>1, <2>2, <3>1
    <3> QED BY <3>1, <3>2 DEF RetainedInv
  <2> QED BY <2>1, <2>2
<1>3. RetainedInv' <=> \A q \in listed' : Retained(pty'[q])
  BY DEF RetainedInv, Retained, Screens, InOrder
<1> QED BY <1>2, <1>3

\* No terminal that stays listed changes.
LEMMA RetainedKeeps ==
    ASSUME RetainedInv, listed' \subseteq listed,
           \A q \in listed' : \/ pty'[q] = pty[q]
                              \/ /\ pty'[q].queue = pty[q].queue /\ pty'[q].screen = pty[q].screen
                                 /\ pty'[q].given = pty[q].given /\ pty'[q].made = pty[q].made
                                 /\ pty'[q].drain = pty[q].drain
    PROVE  RetainedInv'
<1>1. ASSUME NEW q \in listed' PROVE Retained(pty'[q])
  <2>1. Retained(pty[q])
    BY DEF RetainedInv
  <2>2. CASE pty'[q] = pty[q]
    BY <2>1, <2>2
  <2>3. CASE pty'[q] # pty[q]
    BY <2>1, <2>3, RetainedSame
  <2> QED BY <2>2, <2>3
<1>2. RetainedInv' <=> \A q \in listed' : Retained(pty'[q])
  BY DEF RetainedInv, Retained, Screens, InOrder
<1> QED BY <1>1, <1>2

\* Concatenation is associative.
LEMMA Assoc == ASSUME NEW S PROVE \A u, x, y \in Seq(S) : (u \o x) \o y = u \o (x \o y)
BY ConcatAssociative

\* In particular of the units of a screen.
LEMMA AssocUnits == \A u, x, y \in Seq(Units) : (u \o x) \o y = u \o (x \o y)
BY Assoc

\* The first n of a sequence, and the rest.
Cut(s, n, a, b) == n \in 0..Len(s) /\ a = SubSeq(s, 1, n) /\ b = SubSeq(s, n + 1, Len(s))

\* The two parts are sequences and join to the whole.
LEMMA CutJoins ==
    ASSUME NEW s \in Seq(Units), NEW n, NEW a, NEW b, Cut(s, n, a, b)
    PROVE  a \in Seq(Units) /\ b \in Seq(Units) /\ Len(a) = n /\ a \o b = s
<1>1. n \in 0..Len(s) /\ a = SubSeq(s, 1, n) /\ b = SubSeq(s, n + 1, Len(s))
  BY DEF Cut
<1>2. Len(s) \in Nat /\ n \in 0..Len(s) /\ n \in Int /\ \A i \in 1..Len(s) : s[i] \in Units
  BY <1>1, LenProperties
<1>3. SubSeq(s, 1, n) \in Seq(Units) /\ Len(SubSeq(s, 1, n)) = n
  <2>1. \A i \in 1..n : s[i] \in Units
    BY <1>2
  <2> QED BY <1>2, <2>1, SubSeqProperties
<1>4. SubSeq(s, n + 1, Len(s)) \in Seq(Units)
  <2>1. \A i \in (n + 1)..Len(s) : s[i] \in Units
    BY <1>2
  <2>2. n + 1 \in Int /\ Len(s) \in Int
    BY <1>2
  <2> QED BY <2>1, <2>2, SubSeqProperties
<1>5. a \o b = s
  <2>1. 1 \in 1..(Len(s) + 1) /\ n \in (1 - 1)..Len(s) /\ Len(s) \in n..Len(s)
    BY <1>2
  <2>2. SubSeq(s, 1, n) \o SubSeq(s, n + 1, Len(s)) = SubSeq(s, 1, Len(s))
    BY <2>1, ConcatAdjacentSubSeq
  <2> QED BY <1>1, <2>2, SubSeqFull
<1> QED BY <1>1, <1>3, <1>4, <1>5

\* Moving the first units of a sequence to the end of the second of two before it.
LEMMA CutMoves ==
    ASSUME NEW s \in Seq(Units), NEW n, NEW a, NEW b, Cut(s, n, a, b),
           NEW g \in Seq(Units), NEW k \in Seq(Units)
    PROVE  (g \o (k \o a)) \o b = (g \o k) \o s
<1>1. a \in Seq(Units) /\ b \in Seq(Units) /\ a \o b = s
  BY CutJoins
<1>2. g \o k \in Seq(Units)
  BY ConcatProperties
<1>3. g \o (k \o a) = (g \o k) \o a
  BY <1>1, AssocUnits
<1>4. ((g \o k) \o a) \o b = (g \o k) \o (a \o b)
  BY <1>1, <1>2, AssocUnits
<1> QED BY <1>1, <1>3, <1>4

\* The least of three sizes.
LEMMA LeastIs ==
    ASSUME NEW a \in Nat, NEW b \in Nat, NEW c \in Nat
    PROVE  LET n == Least({a, b, c}) IN n \in {a, b, c} /\ n <= a /\ n <= b /\ n <= c
<1>1. \E n \in {a, b, c} : \A m \in {a, b, c} : n <= m
  <2>1. CASE a <= b /\ a <= c BY <2>1
  <2>2. CASE b <= a /\ b <= c BY <2>2
  <2>3. CASE c <= a /\ c <= b BY <2>3
  <2> QED BY <2>1, <2>2, <2>3
<1> DEFINE n == Least({a, b, c})
<1>2. n \in {a, b, c} /\ \A m \in {a, b, c} : n <= m
  BY <1>1 DEF Least
<1> QED BY <1>2

\* And of two.
LEMMA LeastOfTwo ==
    ASSUME NEW a \in Nat, NEW b \in Nat
    PROVE  LET n == Least({a, b}) IN n \in {a, b} /\ n <= a /\ n <= b
<1>1. \E n \in {a, b} : \A m \in {a, b} : n <= m
  <2>1. CASE a <= b BY <2>1
  <2>2. CASE b <= a BY <2>2
  <2> QED BY <2>1, <2>2
<1> DEFINE n == Least({a, b})
<1>2. n \in {a, b} /\ \A m \in {a, b} : n <= m
  BY <1>1 DEF Least
<1> QED BY <1>2

\* A chunk of the screen, s, becomes the last of the queue: r and b are what they become.
Captures(g, q, s, n, a, r, b) ==
    /\ g \in Seq(Units) /\ q \in Seq(Seq(Units)) /\ s \in Seq(Units)
    /\ Cut(s, n, a, b) /\ r = Append(q, a) /\ n <= QueueLimit - Len(Flat(q))

\* A chunk moves from the pipe to what is retained.
LEMMA OrderCaptures ==
    ASSUME NEW g, NEW q, NEW s, NEW n, NEW a, NEW r, NEW b, Captures(g, q, s, n, a, r, b)
    PROVE  /\ r \in Seq(Seq(Units)) /\ b \in Seq(Units)
           /\ Told(g, r, b) = Told(g, q, s) /\ Len(Flat(r)) <= QueueLimit
<1>0. /\ g \in Seq(Units) /\ q \in Seq(Seq(Units)) /\ s \in Seq(Units)
      /\ Cut(s, n, a, b) /\ r = Append(q, a) /\ n <= QueueLimit - Len(Flat(q))
  BY DEF Captures
<1>1. PICK k : k = Flat(q)
  OBVIOUS
<1>2. k \in Seq(Units)
  BY <1>0, <1>1, JoinedIs, Seqs!FlatType
<1>3. /\ a \in Seq(Units) /\ b \in Seq(Units) /\ Len(a) = n
      /\ (g \o (k \o a)) \o b = (g \o k) \o s
  <2>1. a \in Seq(Units) /\ b \in Seq(Units) /\ Len(a) = n
    BY <1>0, CutJoins
  <2>2. (g \o (k \o a)) \o b = (g \o k) \o s
    <3>1. g \in Seq(Units) /\ s \in Seq(Units) /\ Cut(s, n, a, b)
      BY <1>0
    <3> QED BY <1>2, <3>1, CutMoves
  <2> QED BY <2>1, <2>2
<1>4. r \in Seq(Seq(Units))
  BY <1>0, <1>3, AppendProperties
<1>5. Flat(r) = k \o a
  BY <1>0, <1>1, <1>3, JoinedIs, Seqs!FlatAppend
<1>6. Len(Flat(r)) = Len(k) + n
  <2>1. Len(k \o a) = Len(k) + Len(a)
    BY <1>2, <1>3, ConcatProperties
  <2> QED BY <1>3, <1>5, <2>1
<1>7. Len(k) \in Nat /\ QueueLimit \in Nat /\ n \in Int
  <2>1. Len(k) \in Nat /\ Len(s) \in Nat
    BY <1>0, <1>2, LenProperties
  <2> QED BY <2>1, <1>0, PtyAssumption DEF Cut
<1>8. Len(Flat(r)) <= QueueLimit
  <2>1. n <= QueueLimit - Len(k)
    BY <1>0, <1>1
  <2> QED BY <1>6, <1>7, <2>1
<1>9. (g \o Flat(r)) \o b = (g \o k) \o s
  BY <1>3, <1>5
<1> QED BY <1>0, <1>1, <1>3, <1>4, <1>8, <1>9 DEF Told

\* The first chunk of the queue goes to the script: h and r are what they become.
Gives(g, q, s, h, r) ==
    /\ g \in Seq(Units) /\ q \in Seq(Seq(Units)) /\ s \in Seq(Units) /\ q # <<>>
    /\ Len(Flat(q)) <= QueueLimit
    /\ h = g \o Head(q) /\ r = Tail(q)

\* The first retained chunk is given.
LEMMA OrderGivesChunk ==
    ASSUME NEW g, NEW q, NEW s, NEW h, NEW r, Gives(g, q, s, h, r)
    PROVE  /\ r \in Seq(Seq(Units)) /\ h \in Seq(Units)
           /\ Told(h, r, s) = Told(g, q, s)
           /\ Len(Flat(r)) <= QueueLimit
<1>0. /\ g \in Seq(Units) /\ q \in Seq(Seq(Units)) /\ q # <<>> /\ Len(Flat(q)) <= QueueLimit
      /\ h = g \o Head(q) /\ r = Tail(q)
  BY DEF Gives
<1> DEFINE a == Head(q)
<1>1. a \in Seq(Units) /\ r \in Seq(Seq(Units))
  BY <1>0, HeadTailProperties
<1>2. PICK k : k = Flat(r)
  OBVIOUS
<1>3. k \in Seq(Units)
  BY <1>1, <1>2, JoinedIs, Seqs!FlatType
<1>4. Flat(q) = a \o k
  BY <1>0, <1>2, JoinedIs, Seqs!FlatHead
<1>5. (g \o a) \o k = g \o (a \o k)
  BY <1>0, <1>1, <1>3, AssocUnits
<1>6. Len(a \o k) = Len(a) + Len(k) /\ g \o a \in Seq(Units)
  BY <1>0, <1>1, <1>3, ConcatProperties
<1>7. Len(a) \in Nat /\ Len(k) \in Nat /\ QueueLimit \in Nat
  BY <1>1, <1>3, PtyAssumption, LenProperties
<1>8. Len(k) <= QueueLimit
  <2>1. Len(a) + Len(k) <= QueueLimit
    BY <1>0, <1>4, <1>6
  <2> QED BY <1>7, <2>1
<1> QED BY <1>0, <1>1, <1>2, <1>4, <1>5, <1>6, <1>8 DEF Told

\* Nothing is retained: a chunk goes from the pipe to the script.
LEMMA OrderGivesPipe ==
    ASSUME NEW g \in Seq(Units), NEW s \in Seq(Units), NEW n, NEW a, NEW b, Cut(s, n, a, b)
    PROVE  /\ g \o a \in Seq(Units) /\ b \in Seq(Units)
           /\ Told(g \o a, <<>>, b) = Told(g, <<>>, s)
<1>1. <<>> \in Seq(Units) /\ Flat(<<>>) = <<>>
  BY EmptySeq DEF Flat, FlattenSeq
<1>2. a \in Seq(Units) /\ b \in Seq(Units) /\ (g \o a) \o b = g \o s
  <2>1. a \in Seq(Units) /\ b \in Seq(Units) /\ a \o b = s
    BY CutJoins
  <2>2. (g \o a) \o b = g \o (a \o b)
    BY <2>1, AssocUnits
  <2> QED BY <2>1, <2>2
<1>3. g \o a \in Seq(Units)
  BY <1>2, ConcatProperties
<1>4. (g \o a) \o <<>> = g \o a /\ g \o <<>> = g
  BY <1>3, ConcatEmptySeq
<1> QED BY <1>1, <1>2, <1>3, <1>4 DEF Told

\* What the host writes comes last.
LEMMA OrderWrites ==
    ASSUME NEW g \in Seq(Units), NEW q \in Seq(Seq(Units)), NEW s \in Seq(Units), NEW n \in Nat,
           Told(g, q, s) = Line(n), NEW m, m = n + 1
    PROVE  m \in Nat /\ Append(s, m) \in Seq(Units) /\ Told(g, q, Append(s, m)) = Line(m)
<1>1. PICK k : k = g \o Flat(q)
  OBVIOUS
<1>2. k \in Seq(Units)
  BY <1>1, JoinedIs, Seqs!FlatType, ConcatProperties
<1>3. m \in Units /\ m \in Nat
  BY DEF Units
<1>4. Append(s, m) \in Seq(Units) /\ Append(s, m) = s \o <<m>>
  BY <1>3, AppendProperties, AppendIsConcat
<1>5. <<m>> \in Seq(Units)
  BY <1>3
<1>6. (k \o s) \o <<m>> = k \o (s \o <<m>>)
  BY <1>2, <1>5, AssocUnits
<1>7. Line(n) \o <<m>> = Line(m)
  BY DEF Line
<1>8. k \o s = Line(n)
  BY <1>1 DEF Told
<1>9. k \o Append(s, m) = Line(m)
  BY <1>4, <1>6, <1>7, <1>8
<1> QED BY <1>1, <1>3, <1>4, <1>9 DEF Told

\* One terminal changes, but not what it retains.
LEMMA RetainedStays ==
    ASSUME TeardownInv, RetainedInv, NEW p \in Ptys, NEW t, Whole(t), pty' = [pty EXCEPT ![p] = t],
           listed' \subseteq listed,
           p \in listed' => /\ t.queue = pty[p].queue /\ t.screen = pty[p].screen
                            /\ t.given = pty[p].given /\ t.made = pty[p].made
                            /\ t.drain = pty[p].drain
    PROVE  RetainedInv'
<1>1. p \in listed' => Retained(t)
  <2> SUFFICES ASSUME p \in listed' PROVE Retained(t)
    OBVIOUS
  <2>1. Retained(pty[p])
    BY DEF RetainedInv
  <2> QED BY <2>1, RetainedSame
<1> QED BY <1>1, RetainedOne

\* Closing a handle does not.
LEMMA RetainedCloses ==
    ASSUME TeardownInv, RetainedInv, NEW p \in Ptys, NEW names,
           pty' = [pty EXCEPT ![p] = Close(@, names)], listed' \subseteq listed
    PROVE  RetainedInv'
<1>1. PICK t : t = Close(pty[p], names)
  OBVIOUS
<1>2. Whole(pty[p])
  BY DEF TeardownInv, PtyType
<1>3. Whole(t) /\ Same(t, pty[p])
  BY <1>1, <1>2, Closes
<1>4. pty' = [pty EXCEPT ![p] = t]
  BY <1>1
<1> QED BY <1>3, <1>4, RetainedStays DEF Same

\* Nothing is listed to begin with.
LEMMA RetainedInit == Init => RetainedInv
BY DEF Init, RetainedInv

\* A new terminal has said nothing.
LEMMA RetainedSpawn == ASSUME TeardownInv, RetainedInv, NEW p \in Ptys, Spawn(p) PROVE RetainedInv'
<1>1. PICK ok, t :
        /\ ok \in BOOLEAN /\ Whole(t) /\ t.drain = "none" /\ t.queue = <<>> /\ t.screen = <<>> /\ t.given = <<>>
        /\ t.made = 0
        /\ pty' = [pty EXCEPT ![p] = t] /\ listed' = IF ok THEN listed \cup {p} ELSE listed
  BY Spawned
<1>2. Retained(t)
  <2>1. <<>> \in Seq(Units) /\ <<>> \in Seq(Seq(Units)) /\ Flat(<<>>) = <<>> /\ Len(<<>>) = 0
    BY EmptySeq DEF Flat, FlattenSeq
  <2>2. (<<>> \o <<>>) \o <<>> = <<>>
    BY <2>1, ConcatEmptySeq
  <2>3. Line(0) = <<>>
    BY DEF Line
  <2>4. QueueLimit \in Nat
    BY PtyAssumption
  <2> QED BY <1>1, <2>1, <2>2, <2>3, <2>4 DEF Retained, Screens, InOrder, Told
<1>3. listed' \subseteq listed \cup {p}
  BY <1>1
<1> QED BY <1>1, <1>2, <1>3, RetainedOne

\* What a host writes comes after what it wrote; a drain reads no listed terminal.
LEMMA RetainedHosts ==
    ASSUME TeardownInv, RetainedInv, NEW p \in Ptys, HostServes(p) \/ HostActs(p) \/ Drain(p)
    PROVE  RetainedInv'
<1> DEFINE w == pty[p]
<1>0. listed' = listed /\ PtyType /\ Whole(w) /\ (p \in listed => Retained(w))
  BY DEF HostServes, HostActs, Drain, TeardownInv, PtyType, RetainedInv
<1>1. ASSUME NEW a, NEW b, \/ pty' = [pty EXCEPT ![p].pend = a]
                           \/ pty' = [pty EXCEPT ![p].host = b]
                           \/ pty' = [pty EXCEPT ![p].host = b, ![p].pend = a]
                           \/ pty' = [pty EXCEPT ![p].keys = b, ![p].pend = a]
      PROVE RetainedInv'
  <2>0. ASSUME NEW t, Whole(t), pty' = [pty EXCEPT ![p] = t],
               /\ t.queue = w.queue /\ t.screen = w.screen /\ t.given = w.given
               /\ t.made = w.made /\ t.drain = w.drain
        PROVE  RetainedInv'
    BY <1>0, <2>0, RetainedStays
  <2>1. CASE pty' = [pty EXCEPT ![p].pend = a]
    <3> DEFINE t == [w EXCEPT !.pend = a]
    <3>1. Whole(t) BY <1>0, Updates
    <3>2. /\ t.queue = w.queue /\ t.screen = w.screen /\ t.given = w.given
          /\ t.made = w.made /\ t.drain = w.drain BY <1>0 DEF Whole
    <3> QED BY <2>0, <2>1, <3>1, <3>2
  <2>2. CASE pty' = [pty EXCEPT ![p].host = b]
    <3> DEFINE t == [w EXCEPT !.host = b]
    <3>1. Whole(t) BY <1>0, Updates
    <3>2. /\ t.queue = w.queue /\ t.screen = w.screen /\ t.given = w.given
          /\ t.made = w.made /\ t.drain = w.drain BY <1>0 DEF Whole
    <3> QED BY <2>0, <2>2, <3>1, <3>2
  <2>3. CASE pty' = [pty EXCEPT ![p].host = b, ![p].pend = a]
    <3> DEFINE t == [w EXCEPT !.host = b, !.pend = a]
    <3>1. Whole(t) BY <1>0, Updates
    <3>2. /\ t.queue = w.queue /\ t.screen = w.screen /\ t.given = w.given
          /\ t.made = w.made /\ t.drain = w.drain BY <1>0 DEF Whole
    <3>3. pty' = [pty EXCEPT ![p] = t] BY <1>0, <2>3, Zenon DEF PtyType
    <3> QED BY <2>0, <3>1, <3>2, <3>3
  <2>4. CASE pty' = [pty EXCEPT ![p].keys = b, ![p].pend = a]
    <3> DEFINE t == [w EXCEPT !.keys = b, !.pend = a]
    <3>1. Whole(t) BY <1>0, Updates
    <3>2. /\ t.queue = w.queue /\ t.screen = w.screen /\ t.given = w.given
          /\ t.made = w.made /\ t.drain = w.drain BY <1>0 DEF Whole
    <3>3. pty' = [pty EXCEPT ![p] = t] BY <1>0, <2>4, Zenon DEF PtyType
    <3> QED BY <2>0, <3>1, <3>2, <3>3
  <2> QED BY <1>1, <2>1, <2>2, <2>3, <2>4
<1>2. CASE HostWrites(p)
  <2> DEFINE a == w.pend - 1
             b == w.made + 1
             c == Append(w.screen, w.made + 1)
             t == [w EXCEPT !.pend = a, !.made = b, !.screen = c]
  <2>1. pty' = [pty EXCEPT ![p].pend = a, ![p].made = b, ![p].screen = c]
    BY <1>2 DEF HostWrites
  <2>2. p \in listed => c \in Seq(Units) /\ b \in Nat /\ Told(w.given, w.queue, c) = Line(b)
    <3> SUFFICES ASSUME p \in listed
                 PROVE  c \in Seq(Units) /\ b \in Nat /\ Told(w.given, w.queue, c) = Line(b)
      OBVIOUS
    <3>1. /\ w.given \in Seq(Units) /\ w.queue \in Seq(Seq(Units)) /\ w.screen \in Seq(Units)
          /\ w.made \in Nat /\ Told(w.given, w.queue, w.screen) = Line(w.made)
      BY <1>0 DEF Retained, Screens, InOrder
    <3> QED BY <3>1, OrderWrites
  <2> HIDE DEF a, b, c
  <2>3. Whole(t) BY <1>0, Updates
  <2>4. t.queue = w.queue /\ t.given = w.given /\ t.drain = w.drain /\ t.screen = c /\ t.made = b
    BY <1>0 DEF Whole
  <2>5. pty' = [pty EXCEPT ![p] = t] BY <1>0, <2>1, Zenon DEF PtyType
  <2> HIDE DEF t
  <2>6. p \in listed => Retained(t)
    BY <1>0, <2>2, <2>4 DEF Retained, Screens, InOrder
  <2> QED BY <1>0, <2>3, <2>5, <2>6, RetainedOne
<1>3. CASE Drain(p)
  <2>1. p \notin listed
    BY <1>0, <1>3 DEF Drain, DrainReads, DrainAgain, Retained
  <2>2. PICK a, b : \/ pty' = [pty EXCEPT ![p].screen = a, ![p].drain = b]
                    \/ pty' = [pty EXCEPT ![p].drain = b]
    BY <1>3 DEF Drain, DrainReads, DrainAgain
  <2>3. \A q \in listed' : pty'[q] = pty[q]
    BY <1>0, <2>1, <2>2 DEF PtyType, TeardownInv, ListedType
  <2> QED BY <1>0, <2>3, RetainedKeeps
<1>4. HostActs(p) => RetainedInv'
  BY <1>1 DEF HostActs, HostTalks, HostDies
<1>5. HostServes(p) => RetainedInv'
  BY <1>1, <1>2 DEF HostServes, HostReads, HostEnds
<1> QED BY <1>3, <1>4, <1>5

\* The writer only counts the keys it puts.
LEMMA RetainedWriter == ASSUME TeardownInv, RetainedInv, Writer PROVE RetainedInv'
<1>0. listed' = listed /\ PtyType
  BY DEF Writer, TeardownInv
<1>1. CASE UNCHANGED pty
  BY <1>0, <1>1, RetainedKeeps
<1>2. ASSUME NEW p \in Ptys, NEW a, pty' = [pty EXCEPT ![p].keys = a] PROVE RetainedInv'
  <2> DEFINE t == [pty[p] EXCEPT !.keys = a]
  <2>0. Whole(pty[p]) BY <1>0 DEF PtyType
  <2>1. Whole(t) BY <2>0, Updates
  <2>2. /\ t.queue = pty[p].queue /\ t.screen = pty[p].screen /\ t.given = pty[p].given
        /\ t.made = pty[p].made /\ t.drain = pty[p].drain BY <2>0 DEF Whole
  <2> QED BY <1>0, <1>2, <2>1, <2>2, RetainedStays
<1>3. ASSUME NEW p \in Ptys, NEW names, pty' = [pty EXCEPT ![p] = Close(@, names)] PROVE RetainedInv'
  BY <1>0, <1>3, RetainedCloses
<1> QED BY <1>1, <1>2, <1>3 DEF Writer, WriterCheck, WriterEnters, WriterPuts, WriterFails, WriterCloses

\* A send moves a chunk from the screen to the end of what it retains.
LEMMA RetainedSend == ASSUME TeardownInv, RetainedInv, Send PROVE RetainedInv'
<1> DEFINE p == call.pty
           w == pty[p]
<1>1. call.pc \in SendPcs \cup {"finish"} /\ listed' = listed /\ p \in listed /\ p \in Ptys /\ PtyType
  BY DEF Send, SendPolls, SendCaptures, SendRechecks, SendStops, SendCancels, SendAwaits, SendFinishes,
         SendPcs, Senders, ListedPcs, TeardownInv, CallsTerminal, ListedType
<1>2. CASE UNCHANGED pty
  BY <1>1, <1>2, RetainedKeeps
<1>3. CASE Captured(p)
  <2> DEFINE n == Least({Len(w.screen), Chunk, Room(p)})
             a == SubSeq(w.screen, 1, n)
             b == SubSeq(w.screen, n + 1, Len(w.screen))
             r == Append(w.queue, a)
             t == [w EXCEPT !.queue = r, !.screen = b]
  <2>1. Whole(w) /\ Screens(w) /\ InOrder(w) /\ w.drain = "none"
    BY <1>1 DEF PtyType, RetainedInv, Retained
  <2>2. pty' = [pty EXCEPT ![p].queue = r, ![p].screen = b]
    BY <1>1, <1>3, Zenon DEF Captured, PtyType
  <2>3. Len(w.screen) \in Nat /\ Chunk \in Nat /\ Room(p) \in Nat
    <3>1. Flat(w.queue) \in Seq(Units)
      BY <2>1, JoinedIs, Seqs!FlatType DEF Screens
    <3>2. Len(Flat(w.queue)) \in Nat /\ Len(w.screen) \in Nat
      BY <2>1, <3>1, LenProperties DEF Screens
    <3>3. Chunk \in Nat /\ QueueLimit \in Nat
      BY PtyAssumption
    <3>4. Len(Flat(w.queue)) <= QueueLimit
      BY <2>1 DEF InOrder
    <3> QED BY <3>2, <3>3, <3>4 DEF Room
  <2>4. n \in Nat /\ n <= Len(w.screen) /\ n <= Room(p)
    BY <2>3, LeastIs
  <2>5. Cut(w.screen, n, a, b) /\ n <= QueueLimit - Len(Flat(w.queue))
    <3>1. n \in 0..Len(w.screen)
      BY <2>3, <2>4
    <3> QED BY <2>4, <3>1 DEF Cut, Room
  <2> HIDE DEF n, a, b
  <2>6. /\ r \in Seq(Seq(Units)) /\ b \in Seq(Units)
        /\ Told(w.given, r, b) = Told(w.given, w.queue, w.screen)
        /\ Len(Flat(r)) <= QueueLimit
    <3>1. w.given \in Seq(Units) /\ w.queue \in Seq(Seq(Units)) /\ w.screen \in Seq(Units)
      BY <2>1 DEF Screens
    <3>2. Captures(w.given, w.queue, w.screen, n, a, r, b)
      BY <2>5, <3>1 DEF Captures
    <3> HIDE DEF r
    <3> QED BY <3>2, OrderCaptures, Zenon
  <2> HIDE DEF r
  <2>7. Whole(t) BY <2>1, Updates
  <2>8. t.queue = r /\ t.screen = b /\ t.given = w.given /\ t.made = w.made /\ t.drain = w.drain
    BY <2>1 DEF Whole
  <2>9. pty' = [pty EXCEPT ![p] = t] BY <1>1, <2>2, Zenon DEF PtyType
  <2> HIDE DEF t
  <2>10. Retained(t)
    BY <2>1, <2>6, <2>8 DEF Retained, Screens, InOrder
  <2> QED BY <1>1, <2>7, <2>9, <2>10, RetainedOne
<1>4. CASE SendFinishes
  BY <1>1, <1>4, RetainedCloses DEF SendFinishes
<1>5. UNCHANGED pty \/ Captured(p) \/ SendFinishes
  BY DEF Send, SendPolls, SendCaptures, SendRechecks, SendStops, SendCancels, SendAwaits
<1> QED BY <1>2, <1>3, <1>4, <1>5

\* A read gives the oldest of what is retained, and the screen only after it.
LEMMA RetainedRead == ASSUME TeardownInv, RetainedInv, Read PROVE RetainedInv'
<1> DEFINE p == call.pty
           w == pty[p]
<1>1. call.pc = "read" /\ listed' = listed /\ p \in listed /\ p \in Ptys /\ PtyType
  BY DEF Read, ListedPcs, TeardownInv, CallsTerminal, ListedType
<1>2. Whole(w) /\ Screens(w) /\ InOrder(w) /\ w.drain = "none"
  BY <1>1 DEF PtyType, RetainedInv, Retained
<1>3. /\ w.given \in Seq(Units) /\ w.queue \in Seq(Seq(Units)) /\ w.screen \in Seq(Units)
      /\ w.made \in Nat /\ Len(Flat(w.queue)) <= QueueLimit
      /\ Told(w.given, w.queue, w.screen) = Line(w.made)
  BY <1>2 DEF Screens, InOrder
<1>4. CASE Nothing(p)
  BY <1>1, <1>4, RetainedKeeps DEF Nothing
<1>5. CASE FromQueue(p)
  <2> DEFINE a == Head(w.queue)
             r == Tail(w.queue)
             g == w.given \o a
             t == [w EXCEPT !.given = g, !.queue = r]
  <2>1. pty' = [pty EXCEPT ![p].given = g, ![p].queue = r] /\ w.queue # <<>>
    BY <1>1, <1>5, Zenon DEF FromQueue, PtyType
  <2>2. /\ r \in Seq(Seq(Units)) /\ g \in Seq(Units)
        /\ Told(g, r, w.screen) = Told(w.given, w.queue, w.screen)
        /\ Len(Flat(r)) <= QueueLimit
    <3>1. Gives(w.given, w.queue, w.screen, g, r)
      BY <1>3, <2>1 DEF Gives
    <3> HIDE DEF g, r
    <3> QED BY <3>1, OrderGivesChunk, Zenon
  <2> HIDE DEF g, r
  <2>3. Whole(t) BY <1>2, Updates
  <2>4. t.queue = r /\ t.screen = w.screen /\ t.given = g /\ t.made = w.made /\ t.drain = w.drain
    BY <1>2 DEF Whole
  <2>5. pty' = [pty EXCEPT ![p] = t] BY <1>1, <2>1, Zenon DEF PtyType
  <2> HIDE DEF t
  <2>6. Retained(t)
    BY <1>2, <1>3, <2>2, <2>4 DEF Retained, Screens, InOrder
  <2> QED BY <1>1, <2>3, <2>5, <2>6, RetainedOne
<1>6. CASE FromPipe(p)
  <2> DEFINE n == Least({Len(w.screen), Chunk})
             a == SubSeq(w.screen, 1, n)
             b == SubSeq(w.screen, n + 1, Len(w.screen))
             g == w.given \o a
             t == [w EXCEPT !.given = g, !.screen = b]
  <2>1. pty' = [pty EXCEPT ![p].given = g, ![p].screen = b] /\ w.queue = <<>>
    BY <1>1, <1>6, Zenon DEF FromPipe, PtyType
  <2>2. Cut(w.screen, n, a, b)
    <3>1. Len(w.screen) \in Nat /\ Chunk \in Nat
      BY <1>3, PtyAssumption, LenProperties
    <3>2. n \in Nat /\ n <= Len(w.screen)
      BY <3>1, LeastOfTwo
    <3>3. n \in 0..Len(w.screen)
      BY <3>1, <3>2
    <3> QED BY <3>3 DEF Cut
  <2> HIDE DEF n, a, b
  <2>3. /\ g \in Seq(Units) /\ b \in Seq(Units)
        /\ Told(g, w.queue, b) = Told(w.given, w.queue, w.screen)
    BY <1>3, <2>1, <2>2, OrderGivesPipe
  <2> HIDE DEF g
  <2>4. Whole(t) BY <1>2, Updates
  <2>5. t.queue = w.queue /\ t.screen = b /\ t.given = g /\ t.made = w.made /\ t.drain = w.drain
    BY <1>2 DEF Whole
  <2>6. pty' = [pty EXCEPT ![p] = t] BY <1>1, <2>1, Zenon DEF PtyType
  <2> HIDE DEF t
  <2>7. Retained(t)
    BY <1>2, <1>3, <2>3, <2>5 DEF Retained, Screens, InOrder
  <2> QED BY <1>1, <2>4, <2>6, <2>7, RetainedOne
<1> QED BY <1>4, <1>5, <1>6 DEF Read

\* A close takes its terminal from the list first, and touches no other.
LEMMA RetainedFree == ASSUME TeardownInv, RetainedInv, Free PROVE RetainedInv'
<1> DEFINE p == call.pty
<1>1. PtyType /\ listed \subseteq Ptys
  BY DEF TeardownInv, ListedType
<1>2. CASE UNCHANGED pty /\ listed' = listed
  BY <1>2, RetainedKeeps
<1>3. ASSUME listed' = listed \ {p}, \A q \in Ptys \ {p} : pty'[q] = pty[q] PROVE RetainedInv'
  BY <1>1, <1>3, RetainedKeeps
<1>4. CASE FreeDrains
  <2>1. CASE UNCHANGED <<pty, listed>>
    BY <1>2, <2>1
  <2>2. CASE /\ listed' = listed \ {p}
             /\ pty' = [pty EXCEPT ![p].drain = DrainStarted, ![p].given = <<>>,
                                   ![p].held = @ \cup {"drain"}]
    BY <1>1, <1>3, <2>2 DEF PtyType
  <2> QED BY <1>4, <2>1, <2>2 DEF FreeDrains
<1>5. CASE call.pc \in Dying \cup {"terminate"} /\ \A q \in Ptys \ {p} : pty'[q] = pty[q]
  <2>1. p \notin listed
    BY <1>5 DEF TeardownInv, CallsTerminal
  <2>2. listed' = listed \/ FreeDrains
    BY DEF Free, FreeWaitsAgain, FreeReleases, FreeTerminates, FreeClosesConsole, FreeConsoleGone,
           FreeWaits
  <2> QED BY <1>3, <1>4, <1>5, <2>1, <2>2
<1>6. CASE FreeTerminates \/ FreeConsoleGone \/ FreeReleases \/ FreeWaitsAgain
  BY <1>1, <1>5, <1>6 DEF FreeTerminates, FreeConsoleGone, FreeReleases, FreeWaitsAgain, Dying, PtyType
<1>7. CASE FreeClosesConsole \/ FreeWaits
  BY <1>1, <1>5, <1>7 DEF FreeClosesConsole, FreeWaits, Dying, PtyType
<1> QED BY <1>4, <1>6, <1>7 DEF Free

\* The exit only kills trees.
LEMMA RetainedExit == ASSUME TeardownInv, RetainedInv, Exit PROVE RetainedInv'
<1>1. listed' = listed /\ listed \subseteq Ptys /\ PtyType
  BY DEF Exit, TeardownInv, ListedType
<1>2. CASE UNCHANGED pty
  BY <1>1, <1>2, RetainedKeeps
<1>3. CASE ExitRoot
  <2>1. ASSUME NEW q \in Ptys
        PROVE  /\ pty'[q].queue = pty[q].queue /\ pty'[q].screen = pty[q].screen
               /\ pty'[q].given = pty[q].given /\ pty'[q].made = pty[q].made
               /\ pty'[q].drain = pty[q].drain
    <3>1. Whole(pty[q])
      BY <1>1 DEF PtyType
    <3>2. pty'[q] = pty[q] \/ pty'[q] = [pty[q] EXCEPT !.tree = "dead"]
      BY <1>3 DEF ExitRoot
    <3> QED BY <3>1, <3>2 DEF Whole
  <2> QED BY <1>1, <2>1, RetainedKeeps
<1> QED BY <1>2, <1>3 DEF Exit, ExitBegins, ExitNext

\* Every step preserves it.
LEMMA RetainedStep == ASSUME TeardownInv, RetainedInv, [Next]_vars PROVE RetainedInv'
<1>1. CASE \E p \in Ptys : ReadBegins(p) \/ CloseBegins(p)
  BY <1>1, RetainedKeeps DEF ReadBegins, CloseBegins
<1>2. CASE UNCHANGED vars
  BY <1>2, RetainedKeeps DEF vars
<1>3. ASSUME NEW p \in Ptys, SendBegins(p) \/ SendCannot(p) PROVE RetainedInv'
  <2>0. listed' = listed /\ Whole(pty[p])
    BY <1>3 DEF SendBegins, SendCannot, TeardownInv, PtyType
  <2>1. CASE UNCHANGED pty
    BY <2>0, <2>1, RetainedKeeps
  <2>2. ASSUME NEW held, pty' = [pty EXCEPT ![p].held = held] PROVE RetainedInv'
    <3>1. PICK t : t = [pty[p] EXCEPT !.held = held]
      OBVIOUS
    <3>2. Whole(t) /\ Same(t, pty[p]) BY <2>0, <3>1 DEF Whole, Same
    <3>3. pty' = [pty EXCEPT ![p] = t] BY <2>2, <3>1
    <3> QED BY <2>0, <3>2, <3>3, RetainedStays DEF Same
  <2>3. CASE SendCannot(p) /\ ~UNCHANGED pty
    <3>1. PICK held, mid, t : /\ held = pty[p].held \cup {"write"}
                              /\ mid = [pty[p] EXCEPT !.held = held] /\ t = Close(mid, {"write"})
      OBVIOUS
    <3>2. Whole(mid) /\ Same(mid, pty[p]) BY <2>0, <3>1 DEF Whole, Same
    <3>3. Whole(t) /\ Same(t, mid) BY <3>1, <3>2, Closes
    <3>4. pty' = [pty EXCEPT ![p] = t] BY <2>3, <3>1 DEF SendCannot
    <3> QED BY <2>0, <3>2, <3>3, <3>4, RetainedStays DEF Same
  <2> QED BY <1>3, <2>1, <2>2, <2>3 DEF SendBegins
<1> QED BY <1>1, <1>2, <1>3, RetainedSpawn, RetainedHosts, RetainedWriter, RetainedSend, RetainedRead,
           RetainedFree, RetainedExit DEF Next

\* Given, retained and waiting are as many as the host wrote.
LEMMA RetainedSuffices == RetainedInv => OutputIsKept
<1> SUFFICES ASSUME RetainedInv, NEW p \in listed
             PROVE  LET kept == Flat(pty[p].queue) IN
                    /\ pty[p].given \o kept \o pty[p].screen = [i \in 1..pty[p].made |-> i]
                    /\ pty[p].made - Len(pty[p].given) = Pending(p)
                    /\ Len(kept) <= QueueLimit
  BY DEF OutputIsKept
<1> DEFINE w == pty[p]
<1>1. Screens(w) /\ InOrder(w)
  BY DEF RetainedInv, Retained
<1>2. PICK k : k = Flat(w.queue)
  OBVIOUS
<1>3. w.given \in Seq(Units) /\ w.screen \in Seq(Units) /\ k \in Seq(Units) /\ w.made \in Nat
  BY <1>1, <1>2, JoinedIs, Seqs!FlatType DEF Screens
<1>4. (w.given \o k) \o w.screen = Line(w.made) /\ Len(k) <= QueueLimit
  BY <1>1, <1>2 DEF InOrder, Told
<1>5. Len(w.given) + Len(k) + Len(w.screen) = w.made
  <2>1. w.given \o k \in Seq(Units) /\ Len(w.given \o k) = Len(w.given) + Len(k)
    BY <1>3, ConcatProperties
  <2>2. Len((w.given \o k) \o w.screen) = Len(w.given \o k) + Len(w.screen)
    BY <1>3, <2>1, ConcatProperties
  <2>3. Len(Line(w.made)) = w.made
    BY <1>3 DEF Line
  <2> QED BY <1>4, <2>1, <2>2, <2>3
<1>6. Len(w.given) \in Nat /\ Len(k) \in Nat /\ Len(w.screen) \in Nat
  BY <1>3, LenProperties
<1>7. w.made - Len(w.given) = Len(k) + Len(w.screen)
  <2>1. PICK a, b, c, d : a = w.made /\ b = Len(w.given) /\ c = Len(k) /\ d = Len(w.screen)
    OBVIOUS
  <2>2. a \in Nat /\ b \in Nat /\ c \in Nat /\ d \in Nat /\ b + c + d = a
    BY <1>3, <1>5, <1>6, <2>1
  <2>3. a - b = c + d
    BY <2>2
  <2> QED BY <2>1, <2>3
<1> QED BY <1>2, <1>4, <1>7 DEF Pending, Line

\* While a terminal is listed the script gets what its screen said, whole and in order:
\* given, then retained by a send, then waiting in the pipe, and what is retained stays
\* within its limit (pty_output_capture, pty read, pty info).
THEOREM OutputIsKeptHolds == Spec => []OutputIsKept
<1>1. Init /\ [][Next]_vars => [](TeardownInv /\ RetainedInv)
  BY TeardownInit, TeardownStep, RetainedInit, RetainedStep, PTL
<1> QED BY <1>1, RetainedSuffices, PTL DEF Spec
===========================================================================
