------------------------------ MODULE SeqProofs ------------------------------
(***************************************************************************)
(* What FoldLeft and FlattenSeq of the community modules compute, step by  *)
(* step, for any operator and any sequence, with the induction the proofs  *)
(* about them need. A module that folds with an operator of its own        *)
(* instantiates this one with it.                                          *)
(***************************************************************************)
EXTENDS Integers, SequencesExt, SequenceTheorems, WellFoundedInduction, TLAPS

CONSTANT Step(_, _)   \* what a fold does with what it has so far and the next element

\* A non-empty set of naturals has a least element.
LEMMA LeastNat ==
  ASSUME NEW T \in SUBSET Nat, T # {}
  PROVE  \E x \in T : \A y \in T : x <= y
<1>1. \E x \in T : \A y \in T : ~ (<<y, x>> \in OpToRel(<, Nat))
  BY NatLessThanWellFounded, WFMin
<1>2. \A x, y \in Nat : ~ (<<y, x>> \in OpToRel(<, Nat)) => x <= y
  BY DEF OpToRel
<1> QED BY <1>1, <1>2, Zenon

\* Induction, over a set of naturals.
LEMMA NatSetInduction ==
  ASSUME NEW S \in SUBSET Nat, 0 \in S, \A n \in S : n + 1 \in S
  PROVE  S = Nat
<1> SUFFICES ASSUME Nat \ S # {} PROVE FALSE
  OBVIOUS
<1>1. PICK x \in Nat \ S : \A y \in Nat \ S : x <= y
  BY LeastNat
<1>2. x # 0 /\ x - 1 \in Nat /\ x - 1 \in S
  BY <1>1
<1> QED BY <1>1, <1>2

\* Induction, over a set of sequences.
LEMMA SeqSetInduction ==
  ASSUME NEW A, NEW D \in SUBSET Seq(A), <<>> \in D, \A s \in D : \A c \in A : Append(s, c) \in D
  PROVE  D = Seq(A)
<1> DEFINE E == {n \in Nat : \A s \in Seq(A) : Len(s) = n => s \in D}
<1>1. 0 \in E
  BY EmptySeq
<1>2. ASSUME NEW n \in E PROVE n + 1 \in E
  <2>1. n \in Nat /\ \A s \in Seq(A) : Len(s) = n => s \in D
    OBVIOUS
  <2>2. ASSUME NEW s \in Seq(A), Len(s) = n + 1 PROVE s \in D
    <3>1. s # <<>>
      BY <2>1, <2>2
    <3>2. PICK p \in Seq(A), e \in A : s = Append(p, e)
      BY <3>1, SequenceEmptyOrAppend
    <3>3. Len(p) = n
      BY <2>1, <2>2, <3>2, AppendProperties
    <3> QED BY <2>1, <3>2, <3>3
  <2> QED BY <2>1, <2>2
<1>3. E = Nat
  BY <1>1, <1>2, NatSetInduction
<1>4. ASSUME NEW s \in Seq(A) PROVE s \in D
  BY <1>3, LenProperties
<1> QED BY <1>4
---------------------------------------------------------------------------
(* FoldLeft *)

\* The function FoldLeft chooses: its value for a set of places is the fold over them.
Iterates(g, b, s, N) ==
  g = [S \in SUBSET (1 .. N) |-> IF S = {} THEN b ELSE Step(g[S \ {Max(S)}], s[Max(S)])]

\* The greatest of some places.
LEMMA MaxIs ==
  ASSUME NEW N \in Nat, NEW S \in SUBSET (1 .. N), S # {}
  PROVE  Max(S) \in S /\ \A y \in S : Max(S) >= y
<1> DEFINE T == {y \in Nat : \E x \in S : y = N - x}
<1>0. \A x \in S : x \in Int /\ N - x \in Nat
  OBVIOUS
<1>1. T \in SUBSET Nat /\ T # {} /\ \A x \in S : N - x \in T
  BY <1>0
<1>2. PICK t \in T : \A y \in T : t <= y
  BY <1>1, LeastNat
<1>3. PICK x \in S : t = N - x
  OBVIOUS
<1>4. \A y \in S : x >= y
  <2> TAKE y \in S
  <2>1. N - x <= N - y /\ x \in Int /\ y \in Int
    BY <1>0, <1>1, <1>2, <1>3
  <2> QED BY <2>1
<1>5. \E z \in S : \A y \in S : z >= y
  BY <1>4
<1> QED BY <1>5 DEF Max

LEMMA MaxUpTo ==
  ASSUME NEW n \in Nat \ {0}
  PROVE  Max(1 .. n) = n /\ (1 .. n) \ {n} = 1 .. n - 1
<1>1. 1 .. n \in SUBSET (1 .. n) /\ 1 .. n # {} /\ n \in 1 .. n
  OBVIOUS
<1>2. Max(1 .. n) \in 1 .. n /\ Max(1 .. n) >= n
  BY <1>1, MaxIs
<1> QED BY <1>2

\* There is such a function.
LEMMA IterateExists == ASSUME NEW b, NEW s, NEW N \in Nat PROVE \E g : Iterates(g, b, s, N)
<1> DEFINE D == {n \in Nat : \E g : Iterates(g, b, s, n)}
<1>1. 0 \in D
  <2> DEFINE g == [S \in SUBSET (1 .. 0) |-> b]
  <2>1. Iterates(g, b, s, 0)
    BY DEF Iterates
  <2> QED BY <2>1
<1>2. ASSUME NEW n \in D PROVE n + 1 \in D
  <2>1. n \in Nat
    OBVIOUS
  <2>2. PICK g : Iterates(g, b, s, n)
    OBVIOUS
  <2> DEFINE h == [S \in SUBSET (1 .. n + 1) |->
                     IF S = {} THEN b ELSE Step(g[S \ {Max(S)}], s[Max(S)])]
  <2>3. \A S \in SUBSET (1 .. n) : S \in SUBSET (1 .. n + 1) /\ h[S] = g[S]
    <3>1. \A S \in SUBSET (1 .. n) : S \in SUBSET (1 .. n + 1)
      BY <2>1
    <3>2. \A S \in SUBSET (1 .. n) : g[S] = IF S = {} THEN b ELSE Step(g[S \ {Max(S)}], s[Max(S)])
      BY <2>2 DEF Iterates
    <3> QED BY <3>1, <3>2
  <2>4. ASSUME NEW S \in SUBSET (1 .. n + 1), S # {}
        PROVE  S \ {Max(S)} \in SUBSET (1 .. n)
    <3>1. n + 1 \in Nat
      BY <2>1
    <3>2. Max(S) \in S /\ \A y \in S : Max(S) >= y
      BY <2>4, <3>1, MaxIs
    <3>3. \A y \in S : y \in 1 .. n + 1 /\ Max(S) >= y
      BY <3>2
    <3>4. \A y \in S : y # Max(S) => y \in 1 .. n
      <4> TAKE y \in S
      <4>1. Max(S) \in 1 .. n + 1 /\ y \in 1 .. n + 1 /\ Max(S) >= y
        BY <3>2, <3>3
      <4> HIDE DEF D
      <4> QED BY <2>1, <4>1
    <3> QED BY <3>4
  <2>5. h = [S \in SUBSET (1 .. n + 1) |->
               IF S = {} THEN b ELSE Step(h[S \ {Max(S)}], s[Max(S)])]
    BY <2>3, <2>4
  <2>6. Iterates(h, b, s, n + 1)
    BY <2>5 DEF Iterates
  <2> QED BY <2>1, <2>6
<1>3. D = Nat
  BY <1>1, <1>2, NatSetInduction
<1> QED BY <1>3

\* FoldLeft takes its value for every place.
LEMMA FoldIs ==
  ASSUME NEW b, NEW s, NEW N \in Nat, DOMAIN s = 1 .. N
  PROVE  \E g : Iterates(g, b, s, N) /\ FoldLeft(Step, b, s) = g[1 .. N]
<1> DEFINE f == CHOOSE g : Iterates(g, b, s, N)
<1>1. Iterates(f, b, s, N)
  BY IterateExists
<1>2. FoldLeft(Step, b, s) = f[1 .. N]
  BY DEF FoldLeft, MapThenFoldSet, Iterates
<1> QED BY <1>1, <1>2

\* And that one place by place.
LEMMA IterateNext ==
  ASSUME NEW g, NEW b, NEW s, NEW N \in Nat, Iterates(g, b, s, N)
  PROVE  g[{}] = b /\ \A n \in 1 .. N : g[1 .. n] = Step(g[1 .. n - 1], s[n])
<1>1. \A S \in SUBSET (1 .. N) : g[S] = IF S = {} THEN b ELSE Step(g[S \ {Max(S)}], s[Max(S)])
  BY DEF Iterates
<1>2. g[{}] = b
  BY <1>1
<1>3. ASSUME NEW n \in 1 .. N PROVE g[1 .. n] = Step(g[1 .. n - 1], s[n])
  <2>1. 1 .. n \in SUBSET (1 .. N) /\ 1 .. n # {} /\ n \in Nat \ {0}
    BY <1>3
  <2>2. Max(1 .. n) = n /\ (1 .. n) \ {n} = 1 .. n - 1
    BY <2>1, MaxUpTo
  <2> QED BY <1>1, <2>1, <2>2
<1> QED BY <1>2, <1>3

\* A fold over nothing.
THEOREM FoldEmpty == ASSUME NEW b PROVE FoldLeft(Step, b, <<>>) = b
<1>1. DOMAIN <<>> = 1 .. 0 /\ 1 .. 0 = {}
  OBVIOUS
<1>2. PICK g : Iterates(g, b, <<>>, 0) /\ FoldLeft(Step, b, <<>>) = g[1 .. 0]
  BY <1>1, FoldIs
<1>3. g[{}] = b
  BY <1>2, IterateNext
<1> QED BY <1>1, <1>2, <1>3

\* A fold takes the last element last.
THEOREM FoldAppend ==
  ASSUME NEW A, NEW s \in Seq(A), NEW c \in A, NEW b
  PROVE  FoldLeft(Step, b, Append(s, c)) = Step(FoldLeft(Step, b, s), c)
<1> DEFINE r == Append(s, c)
           N == Len(s)
<1>1. N \in Nat /\ DOMAIN s = 1 .. N /\ DOMAIN r = 1 .. N + 1 /\ r[N + 1] = c
      /\ \A i \in 1 .. N : r[i] = s[i]
  BY AppendProperties, LenProperties
<1> HIDE DEF r, N
<1>2. PICK g : Iterates(g, b, s, N) /\ FoldLeft(Step, b, s) = g[1 .. N]
  BY <1>1, FoldIs
<1>3. PICK h : Iterates(h, b, r, N + 1) /\ FoldLeft(Step, b, r) = h[1 .. N + 1]
  <2>1. N + 1 \in Nat
    BY <1>1
  <2> QED BY <1>1, <2>1, FoldIs
<1>4. g[{}] = b /\ \A n \in 1 .. N : g[1 .. n] = Step(g[1 .. n - 1], s[n])
  BY <1>1, <1>2, IterateNext
<1>5. h[{}] = b /\ \A n \in 1 .. N + 1 : h[1 .. n] = Step(h[1 .. n - 1], r[n])
  <2>1. N + 1 \in Nat
    BY <1>1
  <2> QED BY <1>3, <2>1, IterateNext
<1> DEFINE D == {n \in Nat : n <= N => h[1 .. n] = g[1 .. n]}
<1>6. 0 \in D
  <2>1. 1 .. 0 = {}
    OBVIOUS
  <2> QED BY <1>4, <1>5, <2>1
<1>7. ASSUME NEW n \in D PROVE n + 1 \in D
  <2>1. n \in Nat /\ (n <= N => h[1 .. n] = g[1 .. n])
    OBVIOUS
  <2>2. ASSUME n + 1 <= N PROVE h[1 .. n + 1] = g[1 .. n + 1]
    <3>1. n + 1 \in 1 .. N /\ n + 1 \in 1 .. N + 1 /\ (n + 1) - 1 = n /\ n <= N
      BY <1>1, <2>1, <2>2
    <3>2. h[1 .. n + 1] = Step(h[1 .. n], r[n + 1]) /\ g[1 .. n + 1] = Step(g[1 .. n], s[n + 1])
      BY <1>4, <1>5, <3>1
    <3> QED BY <1>1, <2>1, <3>1, <3>2
  <2> QED BY <2>1, <2>2
<1>8. D = Nat
  BY <1>6, <1>7, NatSetInduction
<1>9. h[1 .. N] = g[1 .. N]
  BY <1>1, <1>8
<1>10. h[1 .. N + 1] = Step(h[1 .. N], c)
  <2>1. N + 1 \in 1 .. N + 1 /\ (N + 1) - 1 = N
    BY <1>1
  <2> QED BY <1>1, <1>5, <2>1
<1> QED BY <1>2, <1>3, <1>9, <1>10 DEF r

\* And over two sequences, one after the other.
THEOREM FoldConcat ==
  ASSUME NEW A, NEW s \in Seq(A), NEW t \in Seq(A), NEW b
  PROVE  FoldLeft(Step, b, s \o t) = FoldLeft(Step, FoldLeft(Step, b, s), t)
<1> DEFINE D == {u \in Seq(A) : FoldLeft(Step, b, s \o u) = FoldLeft(Step, FoldLeft(Step, b, s), u)}
<1>1. <<>> \in D
  <2>1. <<>> \in Seq(A) /\ s \o <<>> = s
    BY EmptySeq, ConcatEmptySeq
  <2> QED BY <2>1, FoldEmpty
<1>2. ASSUME NEW u \in D, NEW c \in A PROVE Append(u, c) \in D
  <2>1. u \in Seq(A) /\ FoldLeft(Step, b, s \o u) = FoldLeft(Step, FoldLeft(Step, b, s), u)
    OBVIOUS
  <2>2. s \o u \in Seq(A) /\ Append(u, c) \in Seq(A) /\ s \o Append(u, c) = Append(s \o u, c)
    <3>1. s \o u \in Seq(A) /\ Append(u, c) \in Seq(A) /\ <<c>> \in Seq(A)
      BY <2>1, ConcatProperties, AppendProperties
    <3>2. Append(u, c) = u \o <<c>> /\ Append(s \o u, c) = (s \o u) \o <<c>>
      BY <2>1, <3>1, AppendIsConcat
    <3>3. (s \o u) \o <<c>> = s \o (u \o <<c>>)
      BY <2>1, <3>1, ConcatAssociative
    <3> QED BY <3>1, <3>2, <3>3
  <2>3. FoldLeft(Step, b, Append(s \o u, c)) = Step(FoldLeft(Step, b, s \o u), c)
    BY <2>2, FoldAppend
  <2>4. FoldLeft(Step, FoldLeft(Step, b, s), Append(u, c))
          = Step(FoldLeft(Step, FoldLeft(Step, b, s), u), c)
    BY <2>1, FoldAppend
  <2> QED BY <2>1, <2>2, <2>3, <2>4
<1>3. D = Seq(A)
  BY <1>1, <1>2, SeqSetInduction
<1> QED BY <1>3
---------------------------------------------------------------------------
(* FlattenSeq *)

\* The function FlattenSeq chooses: g[i] is what the first i of the n sequences join to.
Joins(q, n, g) == g = [i \in 1..n |-> IF i = 1 THEN q[i] ELSE g[i - 1] \o q[i]]

\* There is one.
LEMMA JoinExists == ASSUME NEW q, NEW n \in Nat PROVE \E g : Joins(q, n, g)
<1> DEFINE D == {m \in Nat : \E g : Joins(q, m, g)}
<1>1. 0 \in D
  <2> DEFINE g == [i \in 1..0 |-> IF i = 1 THEN q[i] ELSE q[i]]
  <2>1. Joins(q, 0, g)
    BY DEF Joins
  <2> QED BY <2>1
<1>2. ASSUME NEW m \in D PROVE m + 1 \in D
  <2>1. PICK g : Joins(q, m, g)
    OBVIOUS
  <2> DEFINE h == [i \in 1..(m + 1) |-> IF i = 1 THEN q[i] ELSE g[i - 1] \o q[i]]
  <2>2. m \in Nat
    OBVIOUS
  <2>3. \A i \in 1..(m + 1) : i # 1 => i - 1 \in 1..m /\ h[i - 1] = g[i - 1]
    <3>1. \A i \in 1..m : g[i] = IF i = 1 THEN q[i] ELSE g[i - 1] \o q[i]
      BY <2>1 DEF Joins
    <3>2. \A i \in 1..m : i \in 1..(m + 1)
      BY <2>2
    <3>3. \A i \in 1..m : h[i] = g[i]
      BY <3>1, <3>2
    <3>4. \A i \in 1..(m + 1) : i # 1 => i - 1 \in 1..m
      BY <2>2
    <3> QED BY <3>3, <3>4
  <2>4. h = [i \in 1..(m + 1) |-> IF i = 1 THEN q[i] ELSE h[i - 1] \o q[i]]
    BY <2>3
  <2>5. Joins(q, m + 1, h)
    BY <2>4 DEF Joins
  <2> QED BY <2>5
<1>3. D = Nat
  BY <1>1, <1>2, NatSetInduction
<1> QED BY <1>3

\* FlattenSeq takes its last value.
LEMMA FlatIs ==
  ASSUME NEW q, Len(q) \in Nat \ {0} PROVE \E g : Joins(q, Len(q), g) /\ FlattenSeq(q) = g[Len(q)]
<1> DEFINE f == CHOOSE g : Joins(q, Len(q), g)
<1>1. Joins(q, Len(q), f)
  BY JoinExists
<1>2. FlattenSeq(q) = f[Len(q)]
  BY DEF FlattenSeq, Joins
<1> QED BY <1>1, <1>2

\* The definition, unfolded once.
LEMMA JoinFirst == ASSUME NEW q, NEW n \in Nat \ {0}, NEW g, Joins(q, n, g) PROVE g[1] = q[1]
<1>1. \A i \in 1..n : g[i] = IF i = 1 THEN q[i] ELSE g[i - 1] \o q[i]
  BY DEF Joins
<1>2. 1 \in 1..n
  OBVIOUS
<1> QED BY <1>1, <1>2

\* And once more.
LEMMA JoinNext ==
  ASSUME NEW q, NEW n \in Nat, NEW g, Joins(q, n, g), NEW m \in 1..(n - 1)
  PROVE  g[m + 1] = g[m] \o q[m + 1]
<1>1. \A i \in 1..n : g[i] = IF i = 1 THEN q[i] ELSE g[i - 1] \o q[i]
  BY DEF Joins
<1>2. m + 1 \in 1..n /\ m + 1 # 1 /\ (m + 1) - 1 = m
  OBVIOUS
<1> QED BY <1>1, <1>2

\* Its values are sequences of the same elements.
LEMMA JoinType ==
  ASSUME NEW S, NEW q \in Seq(Seq(S)), NEW g, Joins(q, Len(q), g)
  PROVE  \A i \in 1..Len(q) : g[i] \in Seq(S)
<1> DEFINE D == {m \in Nat : m \in 1..Len(q) => g[m] \in Seq(S)}
<1>1. 0 \in D
  OBVIOUS
<1>2. ASSUME NEW m \in D PROVE m + 1 \in D
  <2>1. m \in Nat /\ (m \in 1..Len(q) => g[m] \in Seq(S))
    OBVIOUS
  <2> SUFFICES ASSUME m + 1 \in 1..Len(q) PROVE g[m + 1] \in Seq(S)
    BY <2>1
  <2>2. q[m + 1] \in Seq(S)
    BY ElementOfSeq
  <2>3. Len(q) \in Nat \ {0} /\ (m # 0 => m \in 1..(Len(q) - 1) /\ m \in 1..Len(q))
    BY <2>1
  <2>4. CASE m = 0
    <3>1. g[1] = q[1] /\ m + 1 = 1
      BY <2>3, <2>4, JoinFirst
    <3> QED BY <2>2, <3>1
  <2>5. CASE m # 0
    <3>1. g[m + 1] = g[m] \o q[m + 1] /\ g[m] \in Seq(S)
      BY <2>1, <2>3, <2>5, JoinNext
    <3> QED BY <2>2, <3>1, ConcatProperties
  <2> QED BY <2>4, <2>5
<1>3. D = Nat
  BY <1>1, <1>2, NatSetInduction
<1> QED BY <1>3

\* So is what it all joins to.
LEMMA FlatType == ASSUME NEW S, NEW q \in Seq(Seq(S)) PROVE FlattenSeq(q) \in Seq(S)
<1>1. CASE q = <<>>
  BY <1>1 DEF FlattenSeq
<1>2. CASE q # <<>>
  <2>1. Len(q) \in Nat \ {0}
    BY <1>2, EmptySeq
  <2>2. PICK g : Joins(q, Len(q), g) /\ FlattenSeq(q) = g[Len(q)]
    BY <2>1, FlatIs
  <2>3. g[Len(q)] \in Seq(S)
    BY <2>1, <2>2, JoinType
  <2> QED BY <2>2, <2>3
<1> QED BY <1>1, <1>2

\* A sequence appended comes last.
LEMMA FlatAppend ==
  ASSUME NEW S, NEW q \in Seq(Seq(S)), NEW a \in Seq(S)
  PROVE  FlattenSeq(Append(q, a)) = FlattenSeq(q) \o a
<1> DEFINE r == Append(q, a)
<1>0. r \in Seq(Seq(S)) /\ Len(r) = Len(q) + 1 /\ Len(q) \in Nat /\ r[Len(q) + 1] = a
      /\ \A i \in 1..Len(q) : r[i] = q[i]
  OBVIOUS
<1>1. PICK h : Joins(r, Len(r), h) /\ FlattenSeq(r) = h[Len(r)]
  <2>1. Len(r) \in Nat \ {0}
    BY <1>0
  <2> QED BY <2>1, FlatIs
<1>2. CASE q = <<>>
  <2>1. FlattenSeq(q) = <<>>
    BY <1>2 DEF FlattenSeq
  <2>2. Len(r) = 1 /\ h[1] = a
    <3>1. Len(q) = 0
      BY <1>2
    <3>2. Len(r) = 1 /\ r[1] = a
      BY <1>0, <3>1
    <3>3. Len(r) \in Nat \ {0}
      BY <3>2
    <3> QED BY <1>1, <3>2, <3>3, JoinFirst
  <2> QED BY <1>1, <2>1, <2>2, ConcatEmptySeq
<1>3. CASE q # <<>>
  <2>0. Len(q) # 0
    BY <1>3, EmptySeq
  <2>1. PICK g : Joins(q, Len(q), g) /\ FlattenSeq(q) = g[Len(q)]
    BY <1>0, <2>0, FlatIs
  <2>7. h[1] = r[1] /\ g[1] = q[1]
    <3>1. Len(r) \in Nat \ {0} /\ Len(q) \in Nat \ {0}
      BY <1>0, <2>0
    <3>2. h[1] = r[1]
      BY <1>1, <3>1, JoinFirst
    <3>3. g[1] = q[1]
      BY <2>1, <3>1, JoinFirst
    <3> QED BY <3>2, <3>3
  <2> DEFINE D == {m \in Nat : m \in 1..Len(q) => h[m] = g[m]}
  <2>2. 0 \in D
    OBVIOUS
  <2>3. ASSUME NEW m \in D PROVE m + 1 \in D
    <3>1. m \in Nat /\ (m \in 1..Len(q) => h[m] = g[m])
      OBVIOUS
    <3> SUFFICES ASSUME m + 1 \in 1..Len(q) PROVE h[m + 1] = g[m + 1]
      BY <3>1
    <3>2. m + 1 \in 1..Len(r) /\ r[m + 1] = q[m + 1]
      BY <1>0
    <3>3. Len(q) \in Nat \ {0} /\ Len(r) \in Nat \ {0}
      BY <1>0, <2>0
    <3>5. CASE m = 0
      <4>1. m + 1 = 1
        BY <3>5
      <4> QED BY <2>7, <3>2, <4>1
    <3>4. CASE m # 0
      <4>1. m \in 1..(Len(q) - 1) /\ m \in 1..(Len(r) - 1) /\ m \in 1..Len(q)
        BY <1>0, <3>1, <3>4
      <4>2. h[m + 1] = h[m] \o r[m + 1] /\ g[m + 1] = g[m] \o q[m + 1]
        BY <1>1, <2>1, <3>3, <4>1, JoinNext
      <4> QED BY <3>1, <3>2, <4>1, <4>2
    <3> QED BY <3>4, <3>5
  <2>4. D = Nat
    BY <2>2, <2>3, NatSetInduction
  <2>5. h[Len(q)] = g[Len(q)]
    BY <1>0, <2>0, <2>4
  <2>6. h[Len(r)] = h[Len(q)] \o a
    <3>1. Len(r) \in Nat /\ Len(q) \in 1..(Len(r) - 1) /\ Len(q) + 1 = Len(r)
      BY <1>0, <2>0
    <3>2. h[Len(q) + 1] = h[Len(q)] \o r[Len(q) + 1]
      BY <1>1, <3>1, JoinNext
    <3> QED BY <1>0, <3>1, <3>2
  <2> QED BY <1>1, <2>1, <2>5, <2>6
<1> QED BY <1>2, <1>3

\* And the first one comes first.
THEOREM FlatHead ==
  ASSUME NEW S, NEW q \in Seq(Seq(S)), q # <<>>
  PROVE  FlattenSeq(q) = Head(q) \o FlattenSeq(Tail(q))
<1> DEFINE D == {u \in Seq(Seq(S)) : u # <<>> => FlattenSeq(u) = Head(u) \o FlattenSeq(Tail(u))}
<1>a. \A x, y, z \in Seq(S) : (x \o y) \o z = x \o (y \o z)
  BY ConcatAssociative
<1>1. <<>> \in D
  BY EmptySeq
<1>2. ASSUME NEW u \in D, NEW c \in Seq(S) PROVE Append(u, c) \in D
  <2>1. u \in Seq(Seq(S)) /\ (u # <<>> => FlattenSeq(u) = Head(u) \o FlattenSeq(Tail(u)))
    OBVIOUS
  <2>2. Append(u, c) \in Seq(Seq(S)) /\ FlattenSeq(Append(u, c)) = FlattenSeq(u) \o c
    BY <2>1, FlatAppend, AppendProperties
  <2>3. /\ Head(Append(u, c)) = IF u = <<>> THEN c ELSE Head(u)
        /\ Tail(Append(u, c)) = IF u = <<>> THEN <<>> ELSE Append(Tail(u), c)
    BY <2>1, HeadTailAppend
  <2>4. CASE u = <<>>
    <3>1. FlattenSeq(<<>>) = <<>> /\ <<>> \o c = c /\ c \o <<>> = c
      BY ConcatEmptySeq DEF FlattenSeq
    <3> QED BY <2>2, <2>3, <2>4, <3>1
  <2>5. CASE u # <<>>
    <3>1. Head(u) \in Seq(S) /\ Tail(u) \in Seq(Seq(S))
      BY <2>1, <2>5, HeadTailProperties
    <3>2. FlattenSeq(Tail(u)) \in Seq(S)
          /\ FlattenSeq(Append(Tail(u), c)) = FlattenSeq(Tail(u)) \o c
      BY <3>1, FlatType, FlatAppend
    <3>3. (Head(u) \o FlattenSeq(Tail(u))) \o c = Head(u) \o (FlattenSeq(Tail(u)) \o c)
      BY <1>a, <3>1, <3>2, Zenon
    <3> QED BY <2>1, <2>2, <2>3, <2>5, <3>2, <3>3
  <2> QED BY <2>2, <2>4, <2>5
<1>3. D = Seq(Seq(S))
  BY <1>1, <1>2, SeqSetInduction
<1> QED BY <1>3
==============================================================================
