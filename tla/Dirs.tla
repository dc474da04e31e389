-------------------------------- MODULE Dirs --------------------------------
(* dirs and links (dirs.c): a walk over a tree that other programs change while *)
(* it is walked, and in which any call may fail; and canon, which follows one    *)
(* name. A walk never shows a partial result as a whole one.                     *)
EXTENDS Naturals, Sequences, SequencesExt, FiniteSets, FiniteSetsExt

CONSTANTS Width, MaxDepth,  \* at most so many names in a directory, so deep
          Trees, Options,   \* the trees walked, and the commands given
          MaxSwaps, MaxFaults

\* A path is the sequence of its names below the root, a name its place in the
\* order of the names (dirs_namecmp).
Paths == UNION {[1 .. n -> 1 .. Width] : n \in 0 .. MaxDepth}
Root == <<>>
Parent(p) == Front(p)
Ancestors(p) == {SubSeq(p, 1, n) : n \in 0 .. Len(p) - 1}

(* What a name can be. multi has several links, flink is a symbolic link to a   *)
(* file, cloud a directory behind a filter; a junction names a directory outside *)
(* of the tree, an alias (DFS) is one whose type has no name; broken names       *)
(* nothing.                                                                      *)
Folders == {"dir", "cloud", "junction", "alias", "broken"}
Files == {"file", "multi", "flink"}
Reparse == {"cloud", "junction", "alias", "broken", "flink"}
IsName(k) == k \in Reparse \ {"cloud"}
ASSUME SizeAssumption == Width \in Nat \ {0} /\ MaxDepth \in Nat
ASSUME TreeAssumption ==
  \A t \in Trees : /\ t \in [Paths -> Folders \cup Files \cup {"none"}]
                   /\ \A p \in Paths \ {Root} : t[p] # "none" => (t[Parent(p)] \in {"dir", "cloud"} \/ Parent(p) = Root)
ASSUME OptionsAssumption ==
  Options \subseteq [mode : {"dirs", "links", "canon"}, cap : Int, prune : SUBSET (1 .. Width),
                     hardlinks : BOOLEAN, spelled : STRING]

VARIABLES
  fs,      \* the tree as it is now
  swaps,   \* the changes so far: <<path, what it was>>
  faults,  \* how many calls have failed
  opt,     \* the command: mode, cap, prune, hardlinks
  at,      \* the next step
  stack,   \* the directories to visit, the next one last
  it,      \* the directory visited: path, seen, action
  via,     \* the handle held: what it is, and where
  got,     \* <<path, where>> of each directory that was enumerated
  out      \* the result under construction
walkVars == <<fs, swaps, faults, opt, at, stack, it, via, got, out>>

NoResult == [code |-> "none", paths |-> <<>>, count |-> 0, links |-> {}, errors |-> {},
             pruned |-> 0, limited |-> 0, entries |-> {}, multi |-> {}, entered |-> {},
             blank |-> {}]
NoItem == [path |-> Root, seen |-> "dir", action |-> "descended"]
NoVia == [kind |-> "none", where |-> "in", kids |-> {}]

WalkInit ==
  /\ fs \in Trees /\ swaps = {} /\ faults = 0 /\ opt \in Options /\ at = "start"
  /\ stack = <<>> /\ it = NoItem /\ via = NoVia /\ got = {} /\ out = NoResult

Fails == faults < MaxFaults /\ faults' = faults + 1
Step(from, to) == at = from /\ at' = to /\ UNCHANGED <<fs, swaps, opt>>
\* An errors row: where, why, and how many of it.
WithRows(o, p, why, n) ==
  IF n = 0 THEN o ELSE [o EXCEPT !.errors = @ \cup {<<p, why, n>>}]
Answer(from, code) ==
  /\ Step(from, "done") /\ out' = [out EXCEPT !.code = code]
  /\ UNCHANGED <<faults, stack, it, via, got>>
------------------------------------------------------------------------------
(* Opening a name: dirs_open.                                                *)

\* A path leads out of the tree where a directory above it has become a name of
\* another; what is out there is a directory with a directory in it. A handle shows
\* what its directory held when it was opened; one on a name itself shows nothing.
Kids(p) == {[name |-> i, kind |-> fs[Append(p, i)]] :
              i \in {j \in 1 .. Width : Len(p) < MaxDepth /\ fs[Append(p, j)] # "none"}}
Outside(p) == [kind |-> "dir", where |-> "out",
               kids |-> IF Len(p) < MaxDepth THEN {[name |-> 1, kind |-> "dir"]} ELSE {}]
Leads(p) ==
  IF \E q \in Ancestors(p) : q # Root /\ fs[q] \in {"junction", "alias"} THEN Outside(p)
  ELSE [kind |-> fs[p], where |-> "in", kids |-> IF fs[p] \in {"dir", "cloud"} THEN Kids(p) ELSE {}]
\* A root that names a directory elsewhere is the tree that was asked for.
Follow(h, p) ==
  CASE h.kind \in {"junction", "alias"} ->
         IF p = Root THEN [kind |-> "dir", where |-> "in", kids |-> Kids(p)] ELSE Outside(p)
    [] h.kind = "cloud" -> [h EXCEPT !.kind = "dir"]
    [] h.kind = "broken" -> NoVia
    [] OTHER -> h
Opened(p, follow) == IF follow THEN Follow(Leads(p), p) ELSE Leads(p)
------------------------------------------------------------------------------
(* The command: dirs_prefix and the checks of dirs_core.                     *)

\* Spellings of the root whose meaning depends on hidden state, or that Windows
\* would turn into the name of another directory.
Refused == {"empty", "drive-relative", "device", "trailing dot", "not text"}
Prefix ==
  \/ opt.spelled \in Refused /\ Answer("start", "badvalue")
  \/ /\ opt.spelled \notin Refused
     /\ Step("start", IF opt.mode = "canon" THEN "canon" ELSE "root")
     /\ UNCHANGED <<faults, stack, it, via, got, out>>

RootOpen ==
  \/ Opened(Root, TRUE).kind # "dir" /\ Answer("root", "notfound")
  \/ /\ Opened(Root, TRUE).kind = "dir"
     /\ Step("root", "classify") /\ UNCHANGED <<faults, stack, it, via, got, out>>
  \/ /\ Fails /\ Step("root", "done") /\ out' = [out EXCEPT !.code = "notfound"]
     /\ UNCHANGED <<stack, it, via, got>>

\* What the root is itself is asked of a handle that does not follow it and, where
\* that one sees no reparse point, of the entry in its parent. A handle that cannot be
\* had is an errors row, whether or not the entry knows better; an entry that cannot be
\* had is none, and a filter may hide its reparse point from the handle.
RootSeen(known) == IF known THEN fs[Root] ELSE "dir"
RootClassify ==
  /\ Step("classify", "pop")
  /\ \E known \in BOOLEAN :
       /\ stack' = <<[path |-> Root, seen |-> RootSeen(known), pruned |-> FALSE]>>
       /\ \/ known /\ UNCHANGED <<faults, out>>
          \/ ~known /\ fs[Root] = "cloud" /\ Fails /\ UNCHANGED out
          \/ Fails /\ out' = WithRows(out, Root, "classify", 1)
  /\ UNCHANGED <<it, via, got>>
------------------------------------------------------------------------------
(* The walk: dirs_walk.                                                      *)

\* A directory is listed before anything is decided about it; then the depth, the
\* patterns and the scan of its parent decide, in this order, whether it is opened.
Limited(item) == opt.cap >= 0 /\ Len(item.path) >= opt.cap
Policy(item) ==
  CASE Limited(item) -> "depthlimited"
    [] ~Limited(item) /\ item.pruned -> "pruned"
    [] ~Limited(item) /\ ~item.pruned /\ IsName(item.seen) /\ item.path # Root -> "nofollow"
    [] OTHER -> "descended"
Listed(o, p) ==
  [o EXCEPT !.count = @ + 1, !.paths = IF opt.mode = "dirs" THEN Append(@, p) ELSE @]
Counted(o, action) ==
  [o EXCEPT !.limited = @ + (IF action = "depthlimited" THEN 1 ELSE 0),
            !.pruned = @ + (IF action = "pruned" THEN 1 ELSE 0)]
Pop ==
  /\ stack # <<>>
  /\ LET item == Last(stack)  action == Policy(item)
     IN /\ Step("pop", IF action = "descended" THEN "open" ELSE "row")
        /\ it' = [path |-> item.path, seen |-> item.seen, action |-> action]
        /\ \/ out' = Counted(Listed(out, item.path), action) /\ UNCHANGED faults
           \/ Fails /\ out' = Counted(WithRows(out, item.path, "name", 1), action)
  /\ stack' = Front(stack) /\ UNCHANGED <<via, got>>

Failed(why) ==
  /\ at' = "row" /\ it' = [it EXCEPT !.action = "failed"]
  /\ out' = WithRows(out, it.path, why, 1) /\ via' = NoVia
Opening(from, follow, to) ==
  /\ \/ /\ Step(from, to) /\ Opened(it.path, follow).kind # "none"
        /\ via' = Opened(it.path, follow) /\ UNCHANGED <<faults, it, out>>
     \/ Opened(it.path, follow).kind = "none" /\ UNCHANGED faults /\ Step(from, "row") /\ Failed("open")
     \/ Fails /\ Step(from, "row") /\ Failed("open")
  /\ UNCHANGED <<stack, got>>
OpenDir == IF it.path = Root THEN Opening("open", TRUE, "list") ELSE Opening("open", FALSE, "check")

\* The handle may veto what the scan allowed; a directory behind a filter is opened
\* once more, following. A query that fails leaves the handle as it is.
\* Fault: the handle is not asked.
VetoesNothing(k) == FALSE
Vetoes(k) == IsName(k)
Check ==
  /\ \/ /\ Step("check", "row") /\ Vetoes(via.kind)
        /\ it' = [it EXCEPT !.seen = via.kind, !.action = "nofollow"] /\ via' = NoVia
        /\ UNCHANGED faults
     \/ /\ Step("check", "reopen") /\ via.kind \in Reparse /\ ~Vetoes(via.kind)
        /\ it' = [it EXCEPT !.seen = via.kind] /\ via' = NoVia /\ UNCHANGED faults
     \/ via.kind \notin Reparse /\ Step("check", "list") /\ UNCHANGED <<faults, it, via>>
     \/ Fails /\ Step("check", "list") /\ UNCHANGED <<it, via>>
  /\ UNCHANGED <<stack, got, out>>
Reopen == Opening("reopen", TRUE, "list")
------------------------------------------------------------------------------
(* One directory: dirs_children, and the rows of links.                      *)

Child(c) == Append(it.path, c.name)
Subfolders == {c \in via.kids : c.kind \in Folders}
\* The children are pushed in the order of their names, the last one first.
Nth(kept, i) == CHOOSE c \in kept : Cardinality({d \in kept : d.name >= c.name}) = i
Item(c) == [path |-> Child(c), seen |-> c.kind, pruned |-> c.name \in opt.prune]
Pushed(kept) == stack \o [i \in 1 .. Cardinality(kept) |-> Item(Nth(kept, i))]

\* Of the files, links names the symbolic links and, if asked, those whose handle
\* tells of several links; a file that cannot be asked is an errors row. One whose name
\* has no UTF-8 form is a row with an empty path (blank: whom such rows are about).
Wanted ==
  IF opt.mode = "dirs" THEN {}
  ELSE {c \in via.kids : c.kind = "flink" \/ (opt.hardlinks /\ c.kind \in Files)}
WithFiles(o, lost, unread, unnamed) ==
  LET links == {Child(c) : c \in {c \in Wanted \ lost : c.kind = "flink"}}
      asked == {Child(c) : c \in {c \in Wanted \ lost : c.kind # "flink"}}
      silent == {p \in links \cup asked : p \in unread \/ Leads(p).kind = "none"}
      many == {p \in asked \ silent : Leads(p).kind = "multi"}
  IN [o EXCEPT !.entries = @ \cup (links \ unnamed),
               !.multi = @ \cup (many \ unnamed),
               !.blank = @ \cup ((links \cup many) \cap unnamed),
               !.errors = @ \cup {<<p, "file", 1>> : p \in silent}]

\* A child whose path cannot be made is one row of its parent each: a folder's name may
\* have no UTF-8 form, and memory may run out for it or for a file links wants. A listing
\* that stops half way, or makes no sense, loses files and folders for one row.
\* Fault: the rows tell that children are missing, not how many.
RowsForOne(lost) == IF lost = {} THEN 0 ELSE 1
RowsFor(lost) == Cardinality(lost)
Lost(lost, why) ==
  /\ why = "lost" => lost \subseteq Subfolders \cup Wanted
  /\ IF lost = {} /\ why = "lost" THEN UNCHANGED faults ELSE Fails
  /\ stack' = Pushed(Subfolders \ lost)
  /\ out' = WithFiles(WithRows(out, it.path, why, IF why = "cut" THEN 1 ELSE RowsFor(lost)), lost, {}, {})
Unclear(c) ==
  /\ Fails /\ stack' = Pushed(Subfolders)
  /\ \E unread, unnamed \in SUBSET {Child(c)} :
       unread \cup unnamed # {} /\ out' = WithFiles(out, {}, unread, unnamed)
List ==
  /\ \/ /\ via.kind \in Files /\ UNCHANGED <<faults, stack, got>>
        /\ Step("list", "row") /\ Failed("list")
     \/ Fails /\ Step("list", "row") /\ Failed("list") /\ UNCHANGED <<stack, got>>
     \/ /\ via.kind \notin Files /\ Step("list", "row")
        /\ got' = got \cup {<<it.path, via.where>>} /\ via' = NoVia /\ UNCHANGED it
        /\ \/ \E lost \in SUBSET via.kids, why \in {"lost", "cut"} : Lost(lost, why)
           \/ \E c \in Wanted : Unclear(c)

\* Every reparse directory gets a row that says what was done about it; links names
\* it, with a row where its type has no name or its target cannot be read.
\* Fault: the row of a directory that could not be listed says it was entered.
ActionAsDecided(item) == IF item.action = "failed" THEN "descended" ELSE item.action
Action(item) == item.action
LinkRow == opt.mode = "links" /\ IsName(it.seen)
Row ==
  /\ Step("row", "pop")
  /\ \E why \in {"", "type", "target"} :
       /\ \/ why = "type" /\ LinkRow /\ it.seen = "alias" /\ UNCHANGED faults
          \/ why = "target" /\ LinkRow /\ it.seen # "alias" /\ Fails
          \/ why = "" /\ ~(LinkRow /\ it.seen = "alias") /\ UNCHANGED faults
       /\ out' = IF it.seen \notin Reparse THEN out ELSE
            [out EXCEPT !.links = @ \cup {<<it.path, it.seen, Action(it)>>},
               !.entries = IF LinkRow THEN @ \cup {it.path} ELSE @,
               !.errors = IF why = "" THEN @ ELSE @ \cup {<<it.path, why, 1>>},
               !.entered = IF opt.mode = "links" /\ ~LinkRow /\ it.action = "descended"
                           THEN @ \cup {it.path} ELSE @]
  /\ UNCHANGED <<stack, it, via, got>>
Finish == stack = <<>> /\ Answer("pop", "ok")
------------------------------------------------------------------------------
(* canon: the name is followed; where that fails, a second look tells a link     *)
(* that leads nowhere from a name that is not there.                             *)
CanonOpen ==
  /\ \/ /\ Opened(Root, TRUE).kind # "none" /\ Step("canon", "identify") /\ UNCHANGED <<faults, it>>
     \/ /\ Opened(Root, TRUE).kind = "none" /\ Step("canon", "raw")
        /\ it' = [it EXCEPT !.action = "missing"] /\ UNCHANGED faults
     \/ /\ Fails /\ Step("canon", "raw")
        /\ \E why \in {"denied", "unreadable"} : it' = [it EXCEPT !.action = why]
  /\ UNCHANGED <<stack, via, got, out>>
\* What kept the first look from the name may keep the second one from it too. Every
\* failure but a denial is taken for a name that is not there.
\* Fault: the second look is left out.
ThereNever(k) == FALSE
There(k) == k # "none"
CanonCode == IF it.action = "denied" THEN "oserror" ELSE "notfound"
CanonRaw ==
  \/ There(Opened(Root, FALSE).kind) /\ Answer("raw", "dangling")
  \/ ~There(Opened(Root, FALSE).kind) /\ Answer("raw", CanonCode)
  \/ it.action # "missing" /\ Answer("raw", CanonCode)
  \/ Fails /\ Step("raw", "done") /\ out' = [out EXCEPT !.code = CanonCode]
     /\ UNCHANGED <<stack, it, via, got>>
CanonIdentify ==
  \/ Answer("identify", "ok")
  \/ Fails /\ Step("identify", "done") /\ out' = [out EXCEPT !.code = "oserror"]
     /\ UNCHANGED <<stack, it, via, got>>
------------------------------------------------------------------------------
(* Another program changes what a name is; what was below it is gone. The root *)
(* of a walk stays what it was when the walk was asked for.                    *)
Swap ==
  /\ at # "done" /\ Cardinality(swaps) < MaxSwaps
  /\ \E p \in Paths, k \in {"none", "file", "dir", "junction", "broken"} :
       /\ p = Root <=> opt.mode = "canon"
       /\ fs[p] # k /\ (p # Root => fs[Parent(p)] \in {"dir", "cloud", "junction"})
       /\ p # Root => fs[p] # "none"
       /\ swaps' = swaps \cup {<<p, fs[p]>>}
       /\ fs' = [q \in Paths |-> IF q = p THEN k ELSE IF IsStrictPrefix(p, q) THEN "none" ELSE fs[q]]
  /\ UNCHANGED <<faults, opt, at, stack, it, via, got, out>>

WalkNext == Prefix \/ RootOpen \/ RootClassify \/ Pop \/ OpenDir \/ Check \/ Reopen \/ List \/ Row
        \/ Finish \/ CanonOpen \/ CanonRaw \/ CanonIdentify \/ Swap
WalkSpec == WalkInit /\ [][WalkNext]_walkVars
------------------------------------------------------------------------------
(* Properties.                                                               *)

Done(mode) == at = "done" /\ opt.mode = mode /\ out.code = "ok"
Untouched(p) == \A s \in swaps : ~IsPrefix(s[1], p)
Seen(p) == p \in ToSet(out.paths)
Shown(p) == {r \in out.links : r[1] = p}
Errors(p) == {e \in out.errors : e[1] = p}

\* Why nothing below a directory is in the answer, as its caller can tell: its depth,
\* a pattern that its name matches, its links row, or an errors row.
Explains(q) ==
  \/ opt.cap >= 0 /\ Len(q) >= opt.cap
  \/ q # Root /\ Last(q) \in opt.prune
  \/ \E r \in Shown(q) : r[3] = "nofollow"
  \/ \E e \in Errors(q) : e[2] \in {"open", "list", "cut"}
\* What an answer owes of a name, and what it has of it: dirs a path for each folder,
\* links a row for each link and, if asked, each file with several links. Such a row,
\* and an errors row, may show an empty path: this module says whom it is about.
Owed(p) == IF opt.mode = "dirs" THEN fs[p] \in Folders
           ELSE IsName(fs[p]) \/ (fs[p] = "multi" /\ opt.hardlinks)
Given(p) == IF opt.mode = "dirs" THEN Seen(p)
            ELSE p \in out.blank \cup (IF fs[p] = "multi" THEN out.multi ELSE out.entries)
Missing(q) == {p \in Paths : /\ p # Root /\ Parent(p) = q /\ Untouched(p)
                             /\ Owed(p) /\ ~Given(p) /\ Errors(p) = {}}

\* Nothing that nobody touched is missing without an explanation (what dirs.c:6-7
\* promises). Of a directory that dirs lists, or links enumerated, whatever the answer
\* owes is there or has a row of its own, or the directory explains why not, or rows of
\* the directory count at least as many as are missing there.
Accounted ==
  Done("dirs") \/ Done("links") =>
    \A q \in IF opt.mode = "dirs" THEN ToSet(out.paths) ELSE {g[1] : g \in got} :
      Untouched(q) /\ ~Explains(q) =>
        Missing(q) = {} \/ \E e \in Errors(q) : e[2] = "lost" /\ Cardinality(Missing(q)) <= e[3]

\* What the rows say was done is what was done, also to a root that is itself a
\* link (but a root behind a filter has neither row where its handle hides the filter
\* and its entry could not be read, dirs.c:1273-1281); and the numbers add up: what was
\* listed was entered, refused for its depth or a pattern, not followed, or failed
\* (dirs_walk).
RowsAgree ==
  at = "done" /\ out.code = "ok" /\ opt.mode # "canon" =>
    LET entered == {g[1] : g \in got}
        failed == {e[1] : e \in {e \in out.errors : e[2] \in {"open", "list"}}}
    IN /\ \A r \in out.links : /\ r[3] = "descended" => r[1] \in entered
                               /\ r[3] = "failed" => r[1] \in failed
                               /\ r[3] # "descended" => r[1] \notin entered
       /\ fs[Root] \in Reparse /\ Errors(Root) = {} =>
            Shown(Root) # {} \/ (fs[Root] = "cloud" /\ faults > 0)
       /\ out.count + Cardinality({e \in out.errors : e[2] = "name"}) =
            Cardinality(entered) + Cardinality(failed) + out.pruned + out.limited
              + Cardinality({r \in out.links : r[3] = "nofollow"})

\* The walk leaves the tree only where a directory it had scanned was replaced by a
\* name for another: above the directory that is opened, or at it when it is behind a
\* filter and opened a second time (dirs.c:813-820).
EscapeNeedsASwap ==
  \A g \in got : g[2] = "out" =>
    \E s \in swaps : IsStrictPrefix(s[1], g[1]) \/ (s[1] = g[1] /\ s[2] = "cloud")

\* canon tells a name that is not there from a link that leads nowhere, as far as the
\* name was one or the other at some moment of the call. A call that failed may make
\* either answer wrong, but a denied one never makes a name "notfound" (dirs.c:1372).
CanonTellsApart ==
  at = "done" /\ opt.mode = "canon" /\ out.code # "badvalue" =>
    LET moments == {fs[Root]} \cup {s[2] : s \in swaps}
    IN CASE out.code = "ok" -> moments \ {"none", "broken"} # {}
         [] out.code = "notfound" -> "none" \in moments \/ (faults > 0 /\ it.action # "denied")
         [] out.code = "dangling" -> moments # {"none"} /\ (faults > 0 \/ moments \cap {"none", "broken"} # {})
         [] out.code = "oserror" -> faults > 0
==============================================================================
