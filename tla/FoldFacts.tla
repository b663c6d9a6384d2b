------------------------------- MODULE FoldFacts -------------------------------
(***************************************************************************)
(* What a fold over a sequence computes, for any step: facts that the      *)
(* proofs about the selections and merges of other modules instantiate     *)
(* with their own step, one instance for each.  Induction is stated over   *)
(* sets, which the provers can instantiate; it rests on the theorem that   *)
(* the numbers are well founded.                                           *)
(***************************************************************************)
EXTENDS Naturals, Sequences, SequencesExt, SequenceTheorems, WellFoundedInduction, TLAPS

\* What one element x does to the result r so far, under a parameter p.
CONSTANT Step(_, _, _)

Folded(p, base, s) == FoldLeft(LAMBDA r, x : Step(p, r, x), base, s)

--------------------------------------------------------------------------------
(* Induction                                                               *)

\* A nonempty set of numbers has a least one.
LEMMA LeastNumber ==
  ASSUME NEW T \in SUBSET Nat, T # {}
  PROVE  \E n \in T : \A m \in T : n <= m
<1> DEFINE Less == {ss \in Nat \X Nat : ss[1] < ss[2]}
<1>1. IsWellFoundedOn(Less, Nat)
  BY NatLessThanWellFounded DEF OpToRel
<1>2. PICK n \in T : \A m \in T : <<m, n>> \notin Less
  <2> HIDE DEF Less
  <2> QED BY <1>1, WFMin
<1>3. \A m \in T : ~(m < n) /\ m \in Nat /\ n \in Nat
  BY <1>2
<1> QED
  BY <1>3

\* What holds of 0 and of each successor is a set that contains every number.
LEMMA NumberInduction ==
  ASSUME NEW T, 0 \in T, \A n \in Nat : n \in T => n + 1 \in T
  PROVE  \A n \in Nat : n \in T
<1> DEFINE Bad == {n \in Nat : n \notin T}
<1> SUFFICES ASSUME Bad # {} PROVE FALSE
  OBVIOUS
<1>1. PICK n \in Bad : \A m \in Bad : n <= m
  <2>1. Bad \in SUBSET Nat
    OBVIOUS
  <2> HIDE DEF Bad
  <2> QED BY <2>1, LeastNumber
<1>2. n # 0 /\ n - 1 \in Nat /\ n - 1 < n
  OBVIOUS
<1>3. n - 1 \in T
  BY <1>1, <1>2
<1> QED BY <1>2, <1>3

\* What holds of the empty list and of each longer one holds of all.
LEMMA ListInduction ==
  ASSUME NEW S, NEW T, <<>> \in T,
         \A s \in Seq(S), x \in S : s \in T => Append(s, x) \in T
  PROVE  \A s \in Seq(S) : s \in T
<1> DEFINE N == {n \in Nat : \A s \in Seq(S) : Len(s) = n => s \in T}
<1>1. 0 \in N
  BY EmptySeq
<1>2. ASSUME NEW n \in Nat, n \in N
      PROVE  n + 1 \in N
  <2> SUFFICES ASSUME NEW s \in Seq(S), Len(s) = n + 1 PROVE s \in T
    OBVIOUS
  <2>1. PICK t \in Seq(S), x \in S : s = Append(t, x)
    BY SequenceEmptyOrAppend, EmptySeq
  <2>2. Len(t) = n
    BY <2>1, AppendProperties, LenProperties
  <2> QED BY <1>2, <2>1, <2>2
<1>3. \A n \in Nat : n \in N
  <2> HIDE DEF N
  <2> QED BY <1>1, <1>2, NumberInduction
<1> QED BY <1>3, LenProperties

--------------------------------------------------------------------------------
(* A fold takes one step for each element, in their order                  *)

LEMMA MaxIs ==
  ASSUME NEW S \in SUBSET Nat, NEW n \in S, \A m \in S : m <= n
  PROVE  Max(S) = n
<1>1. \A y \in S : n >= y
  OBVIOUS
<1>2. \A x \in S : (\A y \in S : x >= y) => x = n
  OBVIOUS
<1> QED BY <1>1, <1>2 DEF Max

Folds(f, p, base, s, n) ==
  f = [S \in SUBSET (1..n) |-> IF S = {} THEN base ELSE Step(p, f[S \ {Max(S)}], s[Max(S)])]

LEMMA FoldExists ==
  ASSUME NEW p, NEW base, NEW s, NEW n \in Nat
  PROVE  \E f : Folds(f, p, base, s, n)
<1> DEFINE T == {k \in Nat : \E f : Folds(f, p, base, s, k)}
<1>1. 0 \in T
  <2> DEFINE f == [S \in SUBSET (1..0) |-> base]
  <2>1. \A S \in SUBSET (1..0) : S = {}
    OBVIOUS
  <2>2. Folds(f, p, base, s, 0)
    BY <2>1 DEF Folds
  <2> QED BY <2>2
<1>2. ASSUME NEW k \in Nat, k \in T
      PROVE  k + 1 \in T
  <2>1. PICK f : Folds(f, p, base, s, k)
    BY <1>2
  <2> DEFINE g == [S \in SUBSET (1..k+1) |->
                     IF S \subseteq 1..k THEN f[S] ELSE Step(p, f[S \ {k+1}], s[k+1])]
  <2>2. ASSUME NEW S \in SUBSET (1..k+1)
        PROVE  g[S] = IF S = {} THEN base ELSE Step(p, g[S \ {Max(S)}], s[Max(S)])
    <3>1. CASE S \subseteq 1..k
      <4>1. g[S] = f[S] /\ g[S \ {Max(S)}] = f[S \ {Max(S)}]
        BY <3>1
      <4>2. f[S] = IF S = {} THEN base ELSE Step(p, f[S \ {Max(S)}], s[Max(S)])
        BY <2>1, <3>1 DEF Folds
      <4> QED BY <4>1, <4>2
    <3>2. CASE ~(S \subseteq 1..k)
      <4>1. k + 1 \in S /\ S # {}
        BY <3>2
      <4>2. Max(S) = k + 1
        BY <4>1, MaxIs
      <4>3. S \ {k+1} \subseteq 1..k
        OBVIOUS
      <4>4. g[S \ {k+1}] = f[S \ {k+1}]
        BY <4>3
      <4>5. g[S] = Step(p, f[S \ {k+1}], s[k+1])
        BY <3>2
      <4> HIDE DEF g
      <4> QED BY <4>1, <4>2, <4>4, <4>5
    <3> QED BY <3>1, <3>2
  <2>3. g = [S \in SUBSET (1..k+1) |-> g[S]]
    OBVIOUS
  <2> HIDE DEF g
  <2>4. Folds(g, p, base, s, k + 1)
    BY <2>2, <2>3 DEF Folds
  <2> QED BY <2>4
<1>3. \A k \in Nat : k \in T
  <2> HIDE DEF T
  <2> QED BY <1>1, <1>2, NumberInduction
<1> QED BY <1>3

IsTrace(h, p, base, s) == h[0] = base /\ \A i \in 1..Len(s) : h[i] = Step(p, h[i-1], s[i])
IsList(s) == Len(s) \in Nat /\ DOMAIN s = 1..Len(s)

LEMMA FoldTrace ==
  ASSUME NEW p, NEW base, NEW s, IsList(s)
  PROVE  \E h : IsTrace(h, p, base, s) /\ Folded(p, base, s) = h[Len(s)]
<1>0. Len(s) \in Nat /\ DOMAIN s = 1..Len(s)
  BY DEF IsList
<1> DEFINE f == CHOOSE f : Folds(f, p, base, s, Len(s))
<1>1. Folded(p, base, s) = (CHOOSE iter : iter = [D \in SUBSET DOMAIN s |->
            IF D = {} THEN base ELSE Step(p, iter[D \ {Max(D)}], s[Max(D)])])[DOMAIN s]
  BY Zenon DEF Folded, FoldLeft, MapThenFoldSet
<1>2. Folded(p, base, s) = f[1..Len(s)]
  BY <1>0, <1>1, Zenon DEF Folds
<1>3. Folds(f, p, base, s, Len(s))
  BY <1>0, FoldExists
<1> HIDE DEF f
<1> DEFINE h == [i \in 0..Len(s) |-> f[1..i]]
<1>4. h[0] = base
  <2>1. 1..0 = {}
    OBVIOUS
  <2> QED BY <1>0, <1>3, <2>1 DEF Folds
<1>5. ASSUME NEW i \in 1..Len(s)
      PROVE  h[i] = Step(p, h[i-1], s[i])
  <2>1. i \in Nat /\ i \in 1..i /\ 1..i \in SUBSET Nat /\ \A m \in 1..i : m <= i
    BY <1>0
  <2>2. Max(1..i) = i
    BY <2>1, MaxIs
  <2>3. 1..i # {} /\ (1..i) \ {i} = 1..(i-1) /\ 1..i \in SUBSET (1..Len(s))
    BY <1>0, <2>1
  <2>4. f[1..i] = Step(p, f[1..(i-1)], s[i])
    BY <1>3, <2>2, <2>3 DEF Folds
  <2>5. h[i] = f[1..i] /\ h[i-1] = f[1..(i-1)]
    BY <1>0
  <2> QED BY <2>4, <2>5
<1>6. Folded(p, base, s) = h[Len(s)]
  BY <1>0, <1>2
<1> HIDE DEF h
<1> QED BY <1>4, <1>5, <1>6 DEF IsTrace

LEMMA TracesAgree ==
  ASSUME NEW p, NEW base, NEW s, NEW t, Len(s) \in Nat, Len(t) \in Nat, Len(s) <= Len(t),
         \A i \in 1..Len(s) : s[i] = t[i],
         NEW g, IsTrace(g, p, base, s), NEW h, IsTrace(h, p, base, t)
  PROVE  g[Len(s)] = h[Len(s)]
<1> DEFINE T == {k \in Nat : k <= Len(s) => g[k] = h[k]}
<1>1. 0 \in T
  BY DEF IsTrace
<1>2. ASSUME NEW k \in Nat, k \in T
      PROVE  k + 1 \in T
  <2> SUFFICES ASSUME k + 1 <= Len(s) PROVE g[k+1] = h[k+1]
    OBVIOUS
  <2>1. k + 1 \in 1..Len(s) /\ k + 1 \in 1..Len(t) /\ (k + 1) - 1 = k /\ g[k] = h[k]
    BY <1>2
  <2> QED BY <2>1 DEF IsTrace
<1>3. \A k \in Nat : k \in T
  <2> HIDE DEF T
  <2> QED BY <1>1, <1>2, NumberInduction
<1> QED BY <1>3

THEOREM FoldOfEmpty == ASSUME NEW p, NEW base PROVE Folded(p, base, <<>>) = base
<1>1. IsList(<<>>) /\ Len(<<>>) = 0
  BY DEF IsList
<1>2. PICK h : IsTrace(h, p, base, <<>>) /\ Folded(p, base, <<>>) = h[Len(<<>>)]
  BY <1>1, FoldTrace
<1> QED BY <1>1, <1>2 DEF IsTrace

THEOREM FoldOfAppend ==
  ASSUME NEW p, NEW base, NEW S, NEW s \in Seq(S), NEW x \in S
  PROVE  Folded(p, base, Append(s, x)) = Step(p, Folded(p, base, s), x)
<1> DEFINE t == Append(s, x)
<1>1. /\ IsList(s) /\ IsList(t) /\ Len(t) = Len(s) + 1 /\ Len(s) \in Nat /\ t[Len(s) + 1] = x
      /\ \A i \in 1..Len(s) : s[i] = t[i]
  BY AppendProperties, LenProperties DEF IsList
<1> HIDE DEF t
<1>2. PICK g : IsTrace(g, p, base, s) /\ Folded(p, base, s) = g[Len(s)]
  BY <1>1, FoldTrace
<1>3. PICK h : IsTrace(h, p, base, t) /\ Folded(p, base, t) = h[Len(t)]
  BY <1>1, FoldTrace
<1>4. g[Len(s)] = h[Len(s)]
  <2>1. Len(s) <= Len(t) /\ Len(t) \in Nat
    BY <1>1
  <2> QED BY <1>1, <1>2, <1>3, <2>1, TracesAgree
<1>5. h[Len(s) + 1] = Step(p, h[Len(s)], x)
  <2>1. Len(s) + 1 \in 1..Len(t) /\ (Len(s) + 1) - 1 = Len(s)
    BY <1>1
  <2> QED BY <1>1, <1>3, <2>1 DEF IsTrace
<1>6. Folded(p, base, t) = Step(p, Folded(p, base, s), x)
  BY <1>1, <1>2, <1>3, <1>4, <1>5
<1> QED BY <1>6 DEF t

\* Whatever every step keeps, the result has.
THEOREM FoldKeeps ==
  ASSUME NEW p, NEW S, NEW W, NEW base \in W, NEW s \in Seq(S),
         \A r \in W, x \in S : Step(p, r, x) \in W
  PROVE  Folded(p, base, s) \in W
<1> DEFINE T == {t \in Seq(S) : Folded(p, base, t) \in W}
<1>1. <<>> \in T
  BY FoldOfEmpty, EmptySeq
<1>2. ASSUME NEW t \in Seq(S), NEW x \in S, t \in T
      PROVE  Append(t, x) \in T
  BY <1>2, FoldOfAppend, AppendProperties
<1>3. \A t \in Seq(S) : t \in T
  <2> HIDE DEF T
  <2> QED BY <1>1, <1>2, ListInduction
<1> QED BY <1>3
================================================================================
