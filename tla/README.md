# TLA+ models of Machteld

Machteld is a Tcl 9 runtime for Windows: one executable that holds Tcl and a set of
commands written in C (`src/src/*.c`) and Tcl (`src/tcl/*.tcl`) - supervised child
processes, pools of them, directory watches, pseudo-consoles, atomic publication of
files, HTTP, JSON, SQLite, hashing and directory walks. This directory holds TLA+
modules for the parts whose correctness depends on order, failure or boundaries, the
TLC runs that check them, and TLAPS proofs about the most important of them.

Paths below are relative to the repository root.

## 1. Inventory

| Component | Where | State it keeps | Operations | Module |
|---|---|---|---|---|
| pool director | `tcl/pool.tcl` | `POOL` dict per token: workers, pending queue, inflight map, results, tries, counters, `fatal`, `done`; `POOL_DONE(token)` | `pool create, submit, wait, info, list, close`; handlers `PoolReadable`, `PoolFeed`, `PoolRequeue`, `PoolDied` | `Pool`, `PoolBatch` |
| worker loop | `tcl/worker.tcl` | handler table, `SERVING` | `worker handle, serve` | as `Pool` sees it |
| pmap | `tcl/pmap.tcl` | none | `pmap`: one pool, created and closed around a batch | - |
| supervised child | `src/proc.c` 1-1430 | `child_t` in a registry; threads (monitor, readers, writer); events `doneEv`; deadline; captured output | `run`, `child start, wait, kill, close, info, list` | `Child`, `ChildPromise` |
| job object, launch | `src/winjob_job.c`, `winjob_launch.c` | jobs; pipe, process, thread and console handles | create, limit, terminate, close; `wj_launch`, `wj_launch_pty` | `Launch` |
| command lines | `src/winjob_cmdline.c`, `wintext.c` | none | quoting for a program and for cmd.exe; UTF-8/UTF-16 | `Cmdline` |
| detach | `src/proc.c` 1520 | none | `detach` | `Launch` |
| wait | `src/proc.c` 1434 | none | `wait ?-any? token ...` | one watch, in `Watch` |
| pty | `src/proc.c` 1560-2017, `tcl/machteld.tcl` 134-230 | `pty_t`: console, job, pipes, retained output; writer and drain threads | `pty spawn, send, read, info, close`; `expect` | `Pty` |
| watch | `src/proc.c` 2018 | `watch_t`: queue, `dropped`, `failed`, events ready/data/stop; a reader thread with an outstanding `ReadDirectoryChangesW` | `watch start, read, info, list, close` | `Watch`, `Coalesce` |
| publication | `src/publish.c` | none between calls: names in two directories, one held handle | `Publish candidate destination` | `Publish` |
| dirs, links, canon | `src/dirs.c` | a work stack while walking | `dirs`, `links`, `canon` | `Dirs` |
| mtps | `src/ps.c` | none | `mtps list, info, kill ?-tree?` | `Mtps` |
| scope | `tcl/machteld.tcl` 85-130 | stack of child tokens | `scope body` | - |
| wrap | `tcl/machteld.tcl` 400-620 | a staging directory | `wrap`, which ends in `Publish` | - |
| store | `src/store.c` | one SQLite handle per token | `store open, eval, transaction, close` | - |
| log | `tcl/log.tcl` | level, sink channel, ownership | `log configure`, `log <level>` | - |
| http | `src/http.c` | none between calls | `http get, post, ...` over WinHTTP | - |
| hash | `src/hash.c` | streaming contexts by token | `hash`, `open, update, final` over BCrypt | - |
| json | `src/json.c` | none | encode, decode, over yyjson | - |
| cli, docs, manifest | `tcl/cli.tcl`, `tcl/docs.tcl` | none | parse, look up | - |
| hosts, entry gate | `src/entry.c`, `machteld_*.c` | none after start | start-up | - |

How they interact. The script runs in one Tcl interpreter thread; every command above is
a call of it. A pool is Tcl code over `child start`, `wait` and channels. Children, ptys
and detached processes are made by the same two launch functions, and every supervised
one is in a job of its own inside a root job that dies with machteld. `wait` blocks on the
events that child monitors and watch threads set. `wrap` and the build tools end in
`Publish`. `mtps`, `dirs` and `Publish` act on state that belongs to the system - pids,
names - and share it with programs that know nothing of machteld.

### What is hard, and what makes each part correct

* **Pool.** One interpreter thread, several crashing workers and an event loop that
  interleaves handlers with the script. Correct when every accepted item is in exactly
  one place and answered once, whatever the workers do; retries are counted and bounded;
  nobody sits idle while items wait; a completed batch wakes `pool wait`; what `pool wait`
  returns is the batch.
* **Child.** Four or five threads, a process tree, pipes of limited size, a deadline and
  commands in any order. Correct when completion stands for the whole tree and all its
  output, the status is the true reason, releasing a child leaves neither a thread that
  uses its memory nor a process, and kill, close and the deadline always come to an end.
* **Watch.** A kernel record, a reader thread, a bounded queue and a manual-reset event.
  Correct when no change since `start` disappears without an overflow row or an error,
  the event agrees with the queue, and closing withdraws the outstanding read before its
  buffer goes.
* **Watch coalescing.** One batch of records into rows. Correct when every path is named
  once, the action follows the documented precedence whatever order Windows reported,
  and `from` names the file's old name.
* **Publication.** A sequence of name-based calls with other processes between any two of
  them. Correct when success means that the candidate is at the destination, failure
  leaves the previous destination, and no file of somebody else is deleted.
* **Pty.** Two pipes with a console host between them that does one thing at a time, a
  writer thread that uses the caller's memory, a drain thread that uses the terminal's
  handle. Correct when output stays whole and in order, a send and a close return,
  neither thread outlives what it uses, and whatever fails each handle is closed once.
* **Launch.** A dozen calls, each of which may fail, four callers with their own clean-up,
  and the death of machteld at any moment. Correct when nothing is left behind or closed
  twice, a supervised process lives only in its jobs, and each argument arrives as given.
* **Dirs, mtps.** Walking a tree of names (or of pids) that changes under the walk. Correct
  when the answer accounts for what is missing from it, and nothing outside the tree is
  entered (or terminated) without a change that cannot be excluded.
* **Store, log, hash, http, json, cli.** Mostly sequential: partial failure (a new store or
  sink that cannot be opened), limits, and codecs of other people's libraries.

The hazards are listed, each at its line, in `PROJECT.json`.

## 2. Plan

Built, in the order of importance:

1. `PoolBatch`, `Pool` (abstract batch, director), the refinement, `PoolProofs`.
2. `ChildPromise`, `Child` (abstract child; its threads, tree and commands), the refinement,
   `ChildProofs`.
3. `Publish`: publication against other processes; `PublishProofs`.
4. `Watch`, `Coalesce`: the watch's queue and its read batch; `WatchProofs`, about both.
5. `Pty`: send, read, close and exit of pseudo-consoles; `PtyProofs`.
6. `Launch` over `Cmdline`: how processes are made, and what they are told; `LaunchProofs`,
   with what the quoting promises for every argument, over `SeqProofs`.
7. `Dirs`, `Mtps`: walks over names and pids that change; `WalkProofs`.

Left, in this order:

1. `wait` over several children and watches: `-any`, all, and the limit of 64 handles.
2. `Pool`, `pmap` and `scope` as clients of `ChildPromise`.
3. `log configure` and `store open`, which replace one thing by another in one go.
4. Line assembly of the pump and `valid_utf8` at chunk boundaries.

## 3. Modules and how they correspond to the code

### `PoolBatch` and `Pool`

`PoolBatch` is what a pool promises about its batch, without workers: items are owed,
then settled once as replied or poisoned; the batch is complete only when nothing is
owed; an answer covers the batch. `Pool` is the director.

The director is one thread, but its handlers make several calls, and the workers run
meanwhile. So each handler is cut at the calls whose outcome depends on a worker: the
loop of `PoolReadable` takes one line per step (`ReadReply`, `ReadTrouble`,
`ReadDrained`, `ReadClosed`), `PoolFeed` and `PoolDied` are steps of their own, and
`act`, `todo` and `reading` hold the director in its handler until it returns (`Quiet`
is the event loop between two handlers). A handler's own bookkeeping - requeue, check
for completion, feeding on - happens inside the step, as in the code.

| Code | Model |
|---|---|
| `POOL` keys `workers, pending, inflight, results, tries, dead, requeued, fatal, done` | variables of the same names; `fatal` as a flag |
| `POOL submitted`, `nextid` | `submitted`; ids are `0 .. submitted - 1` |
| `::machteld::POOL_DONE(token)` | `signal` |
| a worker's child token | the number of its launch |
| its two pipes | `inbox`, `outbox`; a reply is its id, a line that is no valid reply is `Junk` |
| `vwait` in `pool wait` | `waiting`; `PoolWaitReturns` runs as soon as the event that wrote the variable is over |

`pool create` and `pool submit` raise an error rather than change anything when they are
called in the wrong state; such calls are not steps. A pool accepts one batch.

### `ChildPromise` and `Child`

`ChildPromise` is what a script may rely on, without threads, pipes or processes: a child is
over once, with one exit; until its result is collected its output grows and a kill counts, a
deadline until it is over; a snapshot is answered only of a child that is not over; the result
is collected once, by whichever command comes to it, and every later answer repeats it; a child
is released once it was collected, or leaked for good. `Child` implements it (`Promise`): `exit`
is `exitCode` from `done` on, `output` is `len`, `collected` is `reaped`.

`Child` is one child from launch to release. Threads and the interpreter are separate actors that
take their own steps; the interpreter blocks in `cmd` (wait, run, pump, close, unwind).
A process tree writes, reads, spawns, crashes and dies by itself.

| Code | Model |
|---|---|
| `child_monitor_thread` | `MonitorProc` (wait for the direct process), `MonitorJob` (job empty), `MonitorDone`/`MonitorAgain` (deadline, I/O), by `mon` |
| `reader_thread`, `writer_thread` | `ReaderReads`, `ReaderEnds`, `WriterWrites`, `WriterEnds` |
| `child_launch`, its unwinding | `Start`, `LaunchFails`, `LaunchUnwound` |
| `child_reap`, `child_free` | `Reap`, `ReapFails`, `Joined`, `GivesUp`, `ChildFree`, `Freed` |
| `child_pump` | `PumpOnce`, `PumpStops` (`po.eof`, `pe.eof`: at the end, or at a read that failed), `PumpAborts`, `PumpOver`, `PumpReturns`, `PumpAborted` |
| job object | `doomed` (terminated or closed with KILL_ON_JOB_CLOSE) |
| output | chunks; `wrote` counts what the tree wrote, `len` what was captured or handed to a callback |

A system call that may fail does so at most `MaxFaults` times in a behaviour.

### `Publish`

Several publishers of one destination, each in `pc` at the next call of `PublishCmd`, and
other programs between any two calls. A name holds a file, a directory or nothing; a file
is who made it.

| Code | Model |
|---|---|
| one round of `PublishCmd` | `CheckCandidate`, `ProbeDestination`, `MoveCandidate` (destination absent), or `ReserveBackup`, `RecheckCandidate`, `RecheckDestination`, `HoldDestination`, `ReplaceFile`/`ReplaceFileFails` |
| the retry and its limit | `Retry`, `attempt`, `Attempts` |
| `delete_backup_after_replace`, `delete_identity` | `CleanUp`, `Discard` |
| `recover_replace_failure` | `Recover`, `Restore` (with `PutBack`), `Verify`; `Restore` fails when the owner of the backup deleted it meanwhile |
| the caller's result | `result`: its kind, why, and whether it claims that a backup was retained |

What Windows promises is an assumption here: `ReplaceFileW` is atomic when it succeeds
and otherwise leaves everything in place, or the destination under the backup name only;
deleting takes effect at once; nobody else touches the random backup names.

### `Watch` and `Coalesce`

`Watch` has three actors: the directory with the kernel's record of it, the reader
thread, and the interpreter. A critical section of `w->lock` is one step, an event set
after it another (`ThreadFails`, then `FailSignals`). Changes are numbered, and history
variables say where each went: `given` to a read, `told` by an overflow row or an error,
or `shed` and still to be told.

| Code | Model |
|---|---|
| `watch_thread` | `ThreadBegins`, `ThreadIssues`, `ThreadQueues` (with `Push`), `ThreadRefuses`, `ThreadFindsError`, `ThreadWaitFails`, `ThreadStops`, by `thread` |
| `ReadDirectoryChangesW` | `read`, its buffer `buf`, the kernel's record `os` |
| `watch start`, `read`, `close` | `WatchStart`, `StartArmed`/`StartFails`; `ReadBegins`, `ReadWakes`, `Drain`; `WatchClose`, `FreeStarts`, `FreeForces`, `Freed`, `FreeLeaks` |
| `wait` on a watch | `WaitBegins`, `WaitReturns`, `WaitFails` |

The kernel records changes from the first read on, also between two reads; when its
buffer overflows it forgets the buffer and the next read reports no bytes.

`Coalesce` takes the same queue one level closer: records with names and actions, as a
directory in which files are created, written, removed and renamed produces them, and the
two passes of `WatchCmd` as operators (`Joined` and `JoinedWith` for the first, `Leads`,
`Group`, `Action`, `From` for the second). `Read` may cut the batch anywhere. The rows
are those of the batch so far, so every reachable state checks one possible read.

### `Pty`

Several terminals behind one interpreter thread. A terminal is a record of what the process
holds for it by name (pipe ends, console, job and its handle, process, the thread handles and
the record itself), of what was closed without being held (`bad`), its tree, its console host, its two pipes, its retained output and its drain
thread; output bytes are numbered. The host serves keyboard and screen one at a time, which
is what makes a naive `send` deadlock.

| Code | Model |
|---|---|
| `pty_spawn` and its unwinding | `Spawn`: `Makes` lists what each call makes, `Locals` what is set when one fails, `AtDone` what the label `done` then closes |
| `pty send`: thread, polling, retained output, cancellation | `SendBegins`, `SendCannot`, `SendPolls`, `SendCaptures`, `SendRechecks`, `SendStops`, `SendCancels` with `CancelWrite`, `SendAwaits`, `SendFinishes`; the thread: `Writer`. A failing wait is a step of `SendPolls`, `SendRechecks` and `SendAwaits` |
| `pty read` | `ReadBegins`, `FromQueue`, `FromPipe`, `Nothing` |
| `pty_free`, called by `close` and at exit | `FreeTerminates`, `FreeClosesConsole`, `FreeDrains`, `FreeConsoleGone`, `FreeWaits`, `FreeWaitsAgain`, `FreeReleases`; the thread: `Drain` |
| `proc_cleanup` | `ExitBegins`, `ExitNext`, `ExitRoot` |

Each clean-up closes the handles its code names, with `Close`, and nothing else: what it forgets
stays in `held`, and what it closes twice is in `bad`.

A cancellation affects only a `WriteFile` or `ReadFile` in progress: the gap between a
thread's look at its stop flag and its call is a state of its own.

### `Launch` and `Cmdline`

`Cmdline` is `winjob_cmdline.c` as operators over sequences of the seven kinds of character
the quoting distinguishes, with the two readers at the other end (the C runtime's argument
parser, cmd.exe's two passes) as external operators. `Launch` extends it: one request from a
script to its end, call by call, with a failure possible at each and machteld's death
between any two. `Caller`, `BothLaunchers` and `StdioLauncher` group the steps by the
function they belong to. `own` is the variables and fields that are set, by the names of the
code (`stdinR`, `c.inW`, `wi.write`, `tOut`, `doneEv`, ...) and the channels of Tcl; `held` is the
handles. `Handle` says which handle a variable stands for: the script's end of the stdin pipe
goes from `stdinW` to `c.inW` or to the writer's `wi.write`, and from `c.inW` to a channel
(`Input`, `Handover`), so that one handle could be closed under two names. Each clean-up lists
the variables it closes as its code does: `Cleanup` and `GiveUp` of the launcher, `After` (the ends
that belong to the child), `Unwind` (`ChildFails` for `child_launch`, and the lists of `pty_spawn`
and `DetachCmd`), `Reap` (`child_reap`, at the end of `child wait` or of `run`, or in `child_free`),
`CloseChannels`, `Freed`, `PtyFree`; `WriterEnds` is the writer thread, which closes what it writes
to. A variable a list forgets stays held, and a handle closed while it is not held sets
`bad`. A call that refuses to terminate and a wait that fails (`missed`) are steps as well. Here
the threads are only handles: what they do is in `Child` and `Pty`, and so is the monitor, which
may close the child's job before its owner does.

### `Dirs` and `Mtps`

`Dirs` walks a tree of names that `Swap` may change between any two calls: directories,
files, links, junctions, directories behind a filter, aliases without a type name, broken
links. The root of a walk is the exception: the code opens it up to three times, and the
model takes it to be the same directory each time (`canon`'s name does change). Each directory is
opened (`OpenDir`), checked (`Check`), reopened when it is behind a filter (`Reopen`), and listed (`List`, `Row`, `Finish`). `canon` is `CanonOpen`, `CanonRaw`,
`CanonIdentify`. The answer under construction is `out`, with the rows a caller sees. A
listing that stops half way loses files and folders alike (`Lost`), a path that cannot be made
is one row of its parent, and a file may be shown with an empty path (`Unclear`, `blank`).

`Mtps` has processes that start, end and leave a pid behind that may be handed out again, at
any moment. A command takes a snapshot (`TakeSnapshot`), walks it (`Look`), and opens and
terminates one pid at a time (`Open`, `OpenLess`, `Terminate`). A termination may be refused
for a living process as well as for a corpse; `ReadExitCode` then tells them apart by the exit
code, where it may be read and is not `STILL_ACTIVE`. That the code of an open process can be
read at all is taken for granted.

## 4. Runs

| Run | Question | Bounds |
|---|---|---|
| `pool` | the safety properties of the director, that it implements `PoolBatch`, that a batch is decided and `pool wait` returns | 2 workers, batches of 0-2 items, 2 tries, 1 misbehaving line: with two of each, an item can be requeued behind and before another, a worker can die with and without an item, poison is reached, and each of these can happen while another call is under way |
| `pool_workerless` | (finding) a dead worker is replaced | workers that die before `pool submit` |
| `child_safety` | completion, release, output, status; that `run` and `child` implement `ChildPromise` | one stream, 2 chunks against a pipe and a capture of 1, one descendant, one fault, all four modes |
| `child_live` | deadline, kill, close and the clean-up of `run` come to an end | capture and stream mode with a reader thread and a writer, one chunk, one fault, no descendant: those do not show to the threads, which wait for the job |
| `child_pipes` | no deadlock over full pipes | capture, 2 chunks each way against pipes of 1 |
| `publish` | the destination is kept or named, success is the candidate, candidates and newcomers survive, nothing is left over, a change costs one round | 2 publishers, 2 rounds instead of 8, 2 changes by others, 1 fault: both publishers can be in any two calls while the names change under both. The proofs remove the bounds |
| `watch` | no change is lost without a word, the event is the queue, no thread or read outlives the watch, a change or a failure ends a `wait` | 4 changes against a queue and a kernel buffer of 2, 1 fault: both overflow, separately and after each other, with changes before and after |
| `coalesce` | `from`, arrivals and departures of a batch | 6 records over three names and one that has no UTF-8 form: two renames onto one name with its removal in between take five. Names are compared for equality only, so those that convert are symmetric |
| `pty` | output is kept, the writer thread is over, teardown is clean, every call returns | 2 terminals, a screen pipe of 2 units, a keyboard pipe of 1, chunks of 2, 2 retained units, one send of 2 units, 3 units said, 1 fault: a screen fills while a send waits, the limit is met with part of a chunk, and one terminal is torn down while the other has a drain left behind |
| `launch` | arguments arrive, a batch line is inert, nothing is left behind, nothing is loose | every kind of request, arguments of up to 4 characters alone (a run of backslashes on either side of a quote needs 4), pairs of shorter ones, a failure at any call, stdin from nowhere, empty, from bytes and from a channel, output captured or to callbacks, the end of machteld at any step |
| `dirs` | nothing is missing unexplained, rows and counts agree, escapes need a swap, `canon` tells apart | trees of two names in the root and three below, of every kind of name; depth limit, pruning; 1 change under the walk, 1 fault |
| `mtps` | the report is true, survivors are explained, children go first, strangers are hit only by reuse | 4 pids, one of them the system's, 4 processes, 2 events during the command, 1 odd process: a pid is freed and handed out again within one command |

`CHECK_DEADLOCK FALSE` is set where the program really may stop: a script that closed its
pool, child, watch or terminals, or whose command returned, has nothing more to do.

### Fairness

* **Pool.** A started handler returns, timers fire, workers answer or die. Readable
  events get strong fairness: Tcl queues the event of a ready channel even when the timer
  of a short wait is serviced first, so a script that polls with tiny timeouts cannot
  starve them. The script itself owes nothing.
* **Child.** The system schedules every thread, its clock runs, and processes it was told
  to terminate die. The tree owes nothing, except in `WorkingTreeSpec`, used only by
  `child_pipes`, where it gets on with its work as far as its pipes allow.
* **Watch.** The kernel completes a read that has something to report, the thread is
  scheduled, and a wait whose event is set is woken. The script owes nothing.
* **Pty.** The interpreter thread goes on with a call it has begun, and the writer and drain
  threads are scheduled. A console host that is up reads its keyboard and writes its screen
  when there is room, whatever the child does: it is a system process that buffers keys
  itself. The child and the script owe nothing.

`Publish`, `Launch`, `Dirs`, `Mtps` and `Coalesce` are checked for safety only: each is one
call that runs to its end and waits for nobody.

## 5. Proofs

A theorem about a component is `Spec => []Property`, or for the refinement `Spec =>
ImplementsBatch`, for every value of the constants that satisfies the module's named
assumptions. Each proof module defines an inductive invariant, proves it of the initial states
and of every step (one lemma per conjunct, one case per action), and reads the property off
it. The invariants were checked by TLC before they were proved. `SeqProofs`, and the two theorems
about command lines in `LaunchProofs`, are about operators: they hold of every argument.

* **`PoolProofs`**: `TypeCorrect`, and `ItemsConserved` (every item is in one place). Neither
  is inductive alone. `PoolInv` adds to the types: `BeforeBatch` (nothing is queued, in flight
  or answered before the batch is accepted), `FeedsAreFree` (a `PoolFeed` still to be made is
  for a worker with nothing in flight, else feeding it would overwrite its item) and
  `Conserved` (queue, in-flight map and results list hold no item twice, share none, and
  together hold the submitted ids).
  `RetriesAccounted` (`RetryAccount`: poison exactly after `MaxTries` deaths, launches
  finitely many) needs `RetryInv`: every lost try is one requeue or one poison reply
  (`TriesAreCounted`, a cardinality argument over pairs of an item and a try), launches never
  exceed the width plus the lost tries, counting the queue while a worker is idle
  (`Launches`), and a handler that is under way concerns a worker still counted as open.
  `NoMissedWakeupHolds` and `DirectorImplementsBatch`, the refinement: the initial states of
  `Pool` are those of `PoolBatch`, and every step is a step of it or a stutter. `DirectorInv`
  adds to `PoolInv` what the director believes: a batch that is done owes nothing unless it was
  given up (`DoneIsEmpty`), one that owes nothing and is not done is about to be checked
  (`EmptyIsChecked`: whoever settles the last item feeds or buries its worker next, which ends
  in `PoolCheckDone`), and `POOL_DONE` agrees with `done` while `pool wait` listens (`Awaited`).
* **`ChildProofs`**: `DoneMeansOverHolds`, `ReleaseIsCleanHolds`. What the monitor counted is a
  step older than the event it sets, so `Monitored` carries the count over that step (a job
  once empty stays empty: nobody is left to spawn); it also says that a monitor exists for
  every child whose launch did not fail, and that only a done child was reaped. `Started`
  and `GivenUp` (a child being given up has been terminated) cover the failed launches.
  A second invariant on top of it, `CInv`, carries `VerdictIsTrueHolds`, `AllOutputReportedHolds`
  and `ResultsAreKeptHolds`: what became of the direct process and who killed it (`Truth`), a
  report is still what `child_reap` would say and no snapshot is ahead of the capture (`Kept`), a
  chunk is in its pipe, captured or past the limit (`Flow`), a stream read to its end stays there
  (`Drained`), and a collected result was not killed afterwards in its name (`Sealed`).
  `ChildImplementsPromise`, the refinement, uses both: a step that shows to the script is one step
  of the promise, because no thread is left at work on a child whose event is set, no command
  is under way on one that was collected, and an exit code does not change once it is out.
  `ResultsAreKeptHolds` spells out one consequence, for the answers alone.
* **`PublishProofs`**: all five properties of `Publish` - `DestinationIsKeptHolds`,
  `ResultIsTrueHolds`, `NewcomerSurvivesHolds`, `NoLitterHolds`,
  `GivesUpOnlyWhenChangedHolds`. One invariant, of what each publisher knows at each call:
  markers are only ever at backup names, what is about to be put back is the file that was
  held or nothing (`Restoring`), the candidate is the one given unless touched since
  (`Given`), names of later rounds are free (`Fresh`), what a finished round left (`Tidy`), and
  a change is counted before a name can differ from what the round saw there (`Caused`). A
  step of one publisher touches nothing of the others' but their backups, and those it can
  only delete by file (`Alone`), so each conjunct needs an argument for the moving publisher
  only.
* **`PtyProofs`**: `SendIsOverHolds` from `SendInv` (the shape of the writer's state, the call
  that owns it, how much it has written), `TeardownIsCleanHolds` from `TeardownInv`
  (exactly what a terminal holds while it is listed, at each point of a send and of a close, and
  after it; `SpawnCleans` for each call of a spawn that can fail), and `OutputIsKeptHolds` from `RetainedInv`: what a listed terminal was given, retains
  and has in its pipe is, put together in this order, all that its screen ever said.
* **`LaunchProofs`**: `NeverLooseHolds`, for every set of requests. The invariant relates each
  step of the launch to the job the process is in and to the handles duplicated for it so
  far: a process that exists was created after the job was given its kill flag.
  `NothingLeftBehindHolds` rests on `LInv`: what is held is what the variables name and the
  duplicates (`Held`), no two variables that are set name one handle (`Apart`), no handle is
  duplicated twice for one stream (`ListOnce`), and at each step it is known which variables are
  set, but for those the writer or a script may have closed meanwhile (`OwnKnown`), and what the
  result and the process can be (`ResultKnown`, `ProcessKnown`). A clean-up is then right because
  its list covers what may be set, and not because it closes what is held.
  `ProgramReadsBack` and `BatchReadsBack` are about all arguments of any length over the seven
  kinds of character. Both readers are folds, so the argument is about what a reader's state is
  after a piece of line (`Inside`: within an argument, with so many backslashes pending; `Sends`:
  a piece takes one state to another), one lemma per kind of character, and an induction over
  the argument, then over the arguments. For a batch file the same is done for cmd's percent
  phase and for its look-out for characters it acts on. `ArgumentsArriveHolds` and
  `BatchIsInertHolds` follow with `LineIsMade`: from the duplication of handles on, the line is the
  one the quoting made of this request, and not a refused one.
* **`WalkProofs`**, about `Mtps`: all four properties. Part of the invariant is about the system (`SystemInv`:
  processes are numbered by birth, whoever lives has its pid), part about what the command knows
  at each call (`SnapIsTrue`, `HandleIsTrue`: behind the pid that could not be opened is the same
  process, or one born since; `ListIsTrue`: whoever is meant is still listed, being worked on, or
  answered; `Order`). `ReportIsTrueHolds` and `ChildrenFirstHolds` follow at once.
  `StrangerOnlyByReuseHolds` and `SurvivorsExplainedHolds` need the two recursive functions: that
  they exist (`LevelsExist`, `LineExists`), that `Forefathers` is the least set closed under parents
  (`ForefathersAre`, `ForefathersLeast`), and that the passes of the code are enough (`RoomBelow`:
  levels are disjoint, so a snapshot of n entries has no more than n of them).
* **`WalkProofs`**, about `Dirs`: all four properties, for trees of any width and depth and any
  number of changes and faults (`WalkInv`). Whatever the walk has read may be so no more, so each
  part speaks of names nobody moved, or names the change to blame: `EscapeInv` (links above a path
  that is visited, or on its handle, are there since a swap), `FreshInv` (what a handle shows of an
  untouched directory is there), `TreeInv` (the tree stays one), `CanonInv`. `OnceInv` says that a
  name is waiting, in hand, entered, given up or named, and only one of these, `DecidedInv` what
  its row may say, `CountInv` that the counts add up with the one in hand; `ToldInv` says
  where each name that the answer owes below an enumerated directory is now: in the answer, on
  the stack, in hand, in a row of its own, or counted by a row of the directory; `AnswerInv` says
  the same of the listed directories themselves. `AccountedHolds` is what is left of them when
  the stack is empty.
* **`SeqProofs`** holds what these proofs share: how `FoldLeft` and `FlattenSeq` of the community
  modules behave on an appended or concatenated sequence. Induction comes as two theorems about
  sets (of naturals, of sequences) instead of predicates, so that they can be cited.
* **`WatchProofs`**: `NoSilentGapHolds`, `EventIsTheQueueHolds` and `StopIsCleanHolds`. A change
  goes from the kernel's record through the thread's buffer and the queue to a read;
  `Accounts` says of each of these places that every earlier change is there or beyond it,
  or was counted as dropped. `Reading` says when the buffer is empty and whose the read is,
  `Course` how far a watch and its commands have got, and `Signalled` is the event at any
  time, not in a live watch only.
  About `Coalesce`: `FromIsTrueHolds` and `NothingUnsaidHolds`, for batches of any length. As long
  as no name was dropped, the two records of a rename that no read cut stand side by side
  (`Paired`), so that the next new name is the right one (`JoinIs`); a name that came and stayed
  has a record of it, and none of its removal after that (`Arrivals`), and the last record of a free name is one of its leaving
  (`Departures`). `RowOf` and `FromIs` say what the passes of the code make of such a batch.

Every safety property that a run checks is proved. Out of the prover's reach, and left to TLC:
liveness - that a batch is decided (`BatchIsDecided`), a deadline and a kill come to an end
(`DeadlineIsEnforced`, `KillCompletes`), a capture completes (`CaptureCompletes`), a call on a
terminal returns (`CallsReturn`) and a change wakes its reader (`ChangeWakes`).

## 6. Disagreements found

`pool_workerless` in `PROJECT.json` has a run: a pool whose workers died before the
submission is never staffed again.

Others were met while modelling and have no run of their own. The properties are stated so
that they hold of the code; each exception is one of these.

* `publish.c:706`: an error may say that the prior destination remains at a backup name that
  holds nothing, or something else (`publish.c:485`: "could only be retained at backup").
  `Recover` and `Verify` return `Claim` there.
* `publish.c:694`: the clean-up deletes by handle, and so may delete a file that another
  program had set aside after the last look (`docs/packaging.md:59-62`); `DestinationIsKept`
  excepts a file some publisher deleted.
* `proc.c:2133`: a watch thread whose wait failed ends with its read outstanding (the comment
  at `proc.c:2126` explains why it must not).
* `proc.c:688`: after a failed exit-code query `doneEv` is set although descendants run
  (`proc.c:221`); `DoneMeansOver` excepts it.
* `proc.c:885-888`: the failure path of a launch does not look at what its waits for the
  threads return, and frees `child_t` in any case, where `child_free` (`proc.c:1031-1032`) "leaks
  rather than freeing memory another thread may touch"; `ReleaseIsClean` excepts a failed launch
  one of whose waits failed.
* `proc.c:1155, 1160`: the pump takes any failing `PeekNamedPipe` or `ReadFile` for the end of the
  stream, and records no error as `reader_thread` does (`proc.c:159-164`); the result of `run
  -onout` then lacks output and is not an error. `AllOutputReported` excepts such a stream.
* `proc.c:877`: the failure path of a launch ignores a failed termination and then waits for
  its readers without a limit.
* `winjob_launch.c:190-191, 199-200`: a detached process that cannot be terminated is waited for
  without a limit, and left suspended where the wait fails; `NothingLeftBehind` excepts it, as it does
  the writer of a failed launch whose wait failed (`proc.c:885-888`).
* `child kill` marks a child as killed whenever its result is not collected yet, also when
  its tree has ended by itself; `VerdictIsTrue` asks of `killed` only that a termination was
  ordered.
* `pty read` returns chunks as the pipe gave them; a UTF-8 sequence may be split.
* `winjob_launch.c:187`: a detached process is created suspended; it stays so for ever when
  machteld dies before it is resumed.
* `dirs.c:11-13`: "replacing a scanned directory with a junction cannot escape the requested
  tree" does not hold for an ancestor that is replaced, nor between the two opens of a
  directory behind a filter; `EscapeNeedsASwap` says exactly when. `dirs.c:801`: when the tag of
  such a directory cannot be queried it is listed through the raw handle and shown as
  descended.
* `canon` (`dirs.c:1372`): every failure to open but a denial is answered `notfound`, also for a
  name that is there and in use; a file that is created between its two opens answers
  `dangling`. `CanonTellsApart` excepts a call that failed, unless it was denied.
* `dirs.c:1273-1281`: when the root's entry in its parent cannot be read, nothing says so, and a
  root behind a filter that hides its tag from the handle has neither a row nor an error, against
  `dirs.c:1283-1284`. `RowsAgree` excepts such a root.
* `dirs.c:563, 594`: a link or a file with several links whose name has no UTF-8 form is shown
  with an empty path and without an error, where a folder of such a name is an errors row
  (`dirs.c:138-144`). `Accounted` takes the row with the empty path for an answer.
* `coalesce`: a file that was created, removed and created again within one batch has the row
  `removed`, by the precedence of `proc.c:2455`, although it is there; `NothingUnsaid` excepts a name
  with a record of its removal before that of its last coming, and only that.
* `coalesce`: a name may go without a row when two files of one batch were renamed to the
  same new name, or when the batch ends between the two records of a rename (the exceptions
  of `NothingUnsaid`), and `from` may be wrong, beside an overflow row, when the new name of a
  rename was dropped (`FromIsTrue`).

## 7. Not modelled

A change record without a name, which `watch_thread` passes over (`proc.c:2160`): it says of no
entry. Texts of messages, option parsing, the environment block and paths; encoding of requests
and replies (a request is its id); resource limits of the job other than as an early end
of a process; `info` and `list` commands, which read only (`pty info` and `mtps` excepted);
re-entrant commands (a callback that closes the pool inside `pool wait`); `wait` over more
than one token; `pty expect`, which is a loop of reads in Tcl. The program name on a command
line is plain: the C runtime reads it by simpler rules than the arguments.

Not modelled at all, with the reason in `PROJECT.json`: pmap, scope, store, log, hash, http,
json, cli, docs, wrap, hosts and build tools. They are sequential, keep little or no state of
their own, or are thin layers over a library whose behaviour would be the model.
