------------------------------- MODULE MCDirs -------------------------------
EXTENDS Dirs

Walks == {[mode |-> m, cap |-> c, prune |-> p, hardlinks |-> m = "links", spelled |-> "plain"] :
            m \in {"dirs", "links"}, c \in {-1, 1}, p \in {{}, {2}}}
Other == [mode |-> "canon", cap |-> -1, prune |-> {}, hardlinks |-> FALSE, spelled |-> "plain"]
Commands == (Walks \ {w \in Walks : w.cap = 1 /\ w.prune # {}})
              \cup {Other, [Other EXCEPT !.spelled = "trailing dot"]}

\* Two names in the root, two below the first of them and one below the second.
Tree(r, a, b, aa, ab, ba) ==
  [p \in Paths |-> CASE p = <<>> -> r [] p = <<1>> -> a [] p = <<2>> -> b
                     [] p = <<1, 1>> -> aa [] p = <<1, 2>> -> ab [] p = <<2, 1>> -> ba
                     [] OTHER -> "none"]
Below(k) == IF k \in {"dir", "cloud"} THEN {"none", "dir"} ELSE {"none"}
SomeTrees ==
  {Tree("dir", a, b, aa, ab, ba) : a \in {"dir", "cloud", "junction"}, b \in {"dir", "cloud"},
      aa \in {"none", "dir", "junction", "flink", "multi"}, ab \in {"none", "dir"}, ba \in {"none", "alias"}}
  \cup {Tree(r, a, "none", "none", "none", "none") :
      r \in {"none", "file", "dir", "cloud", "junction", "alias", "broken"},
      a \in {"none", "dir", "file", "multi", "flink", "alias", "broken"}}
GoodTrees ==
  {t \in SomeTrees : \A p \in Paths \ {<<>>} :
     t[p] # "none" => \/ t[Front(p)] \in {"dir", "cloud"}
                      \/ Len(p) = 1 /\ t[<<>>] \in {"junction", "alias"}}
==============================================================================
