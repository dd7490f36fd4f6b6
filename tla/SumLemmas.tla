----------------------------- MODULE SumLemmas -----------------------------
(***************************************************************************)
(* What SumFunctionOnSet of the community modules returns on a finite set: *)
(* the payments table is summed with it (Checkout!Total).  The library     *)
(* folds over a recursive function that takes the elements as CHOOSE gives *)
(* them; here it is shown that this function exists on every finite set    *)
(* and that the order does not matter, which is all a proof needs to know. *)
(*                                                                         *)
(* There is no induction rule to instantiate: every argument takes a       *)
(* smallest set for which the claim fails (Smallest).                      *)
(***************************************************************************)
EXTENDS Functions, Integers, FiniteSetTheorems, WellFoundedInduction, TLAPS

\* The element the fold takes next.
Taken(s) == CHOOSE x \in s : TRUE

\* g is the function over which the sum of f on S is folded.
IsFold(f, S, g) ==
    g = [s \in SUBSET S |-> IF s = {} THEN 0 ELSE f[Taken(s)] + g[s \ {Taken(s)}]]

Fold(f, S) == CHOOSE g : IsFold(f, S, g)

\* What g is on the subsets of S.
FoldedOn(f, S, g) ==
    \A s \in SUBSET S : g[s] = IF s = {} THEN 0 ELSE f[Taken(s)] + g[s \ {Taken(s)}]

\* Of finitely nested sets one has no smaller one.
LEMMA Smallest ==
  ASSUME NEW S, IsFiniteSet(S), NEW B \in SUBSET (SUBSET S), B # {}
  PROVE  \E T \in B : \A U \in SUBSET T : U # T => U \notin B
<1>1. B \subseteq FiniteSubsetsOf(S)
  BY FS_Subset DEF FiniteSubsetsOf
<1>2. PICK T \in B : \A U \in B : ~(<<U, T>> \in StrictSubsetOrdering(S))
  BY <1>1, FS_StrictSubsetOrderingWellFounded, WFMin
<1>3. ASSUME NEW U \in SUBSET T, U # T, U \in B PROVE FALSE
  <2>1. <<U, T>> \in StrictSubsetOrdering(S)
    BY <1>2, <1>3, Zenon DEF StrictSubsetOrdering
  <2> QED
    BY <1>2, <1>3, <2>1
<1> QED
  BY <1>2, <1>3

\* What the fold takes is in the set.
LEMMA TakenIn == ASSUME NEW s, s # {} PROVE Taken(s) \in s
  BY DEF Taken

\* The values of the fold.
LEMMA FoldValue ==
  ASSUME NEW f, NEW S, NEW g, IsFold(f, S, g)
  PROVE  FoldedOn(f, S, g)
<1> DEFINE body(s) == IF s = {} THEN 0 ELSE f[Taken(s)] + g[s \ {Taken(s)}]
<1>1. g = [s \in SUBSET S |-> body(s)]
  BY DEF IsFold
<1> HIDE DEF body
<1>2. \A s \in SUBSET S : g[s] = body(s)
  BY <1>1
<1> QED
  BY <1>2 DEF body, FoldedOn

\* The fold on a set and the fold on a subset of it agree wherever both are
\* defined.
LEMMA FoldsAgree ==
  ASSUME NEW f, NEW S, IsFiniteSet(S), NEW T \in SUBSET S,
         NEW g, IsFold(f, S, g), NEW h, IsFold(f, T, h), NEW s \in SUBSET T
  PROVE  g[s] = h[s]
<1>1. FoldedOn(f, S, g) /\ FoldedOn(f, T, h)
  BY FoldValue
<1> DEFINE B == {u \in SUBSET T : g[u] # h[u]}
<1>2. SUFFICES ASSUME B # {} PROVE FALSE
  OBVIOUS
<1>3. PICK u \in B : \A v \in SUBSET u : v # u => v \notin B
  <2>1. B \in SUBSET (SUBSET S)
    OBVIOUS
  <2> HIDE DEF B
  <2> QED
    BY <1>2, <2>1, Smallest
<1>4. u # {} => g[u \ {Taken(u)}] = h[u \ {Taken(u)}]
  BY <1>3, TakenIn
<1> QED
  BY <1>1, <1>4 DEF FoldedOn

\* The fold exists on every finite set.
LEMMA FoldExists ==
  ASSUME NEW f, NEW S, IsFiniteSet(S)
  PROVE  IsFold(f, S, Fold(f, S))
<1> DEFINE B == {u \in SUBSET S : ~ IsFold(f, u, Fold(f, u))}
<1>0. SUFFICES ASSUME B # {} PROVE FALSE
  OBVIOUS
<1>1. PICK T \in B : \A v \in SUBSET T : v # T => v \notin B
  <2>1. B \in SUBSET (SUBSET S)
    OBVIOUS
  <2> HIDE DEF B
  <2> QED
    BY <1>0, <2>1, Smallest
<1>2. \A v \in SUBSET T : v # T => IsFold(f, v, Fold(f, v)) /\ IsFiniteSet(v)
  BY <1>1, FS_Subset
<1> DEFINE val(v) == Fold(f, v)[v]
           body(v) == IF v = {} THEN 0 ELSE f[Taken(v)] + val(v \ {Taken(v)})
           g == [v \in SUBSET T |-> body(v)]
<1>3. ASSUME NEW v \in SUBSET T, v # T PROVE g[v] = val(v)
  <2>1. IsFold(f, v, Fold(f, v)) /\ IsFiniteSet(v)
    BY <1>2, <1>3
  <2>2. val(v) = IF v = {} THEN 0 ELSE f[Taken(v)] + Fold(f, v)[v \ {Taken(v)}]
    BY <2>1, FoldValue DEF FoldedOn
  <2>3. ASSUME v # {} PROVE Fold(f, v)[v \ {Taken(v)}] = val(v \ {Taken(v)})
    <3> DEFINE w == v \ {Taken(v)}
    <3>1. w \in SUBSET v /\ w \in SUBSET T /\ w # T
      BY <2>3, TakenIn
    <3>2. IsFold(f, w, Fold(f, w))
      BY <1>2, <3>1
    <3> HIDE DEF w
    <3>3. Fold(f, v)[w] = Fold(f, w)[w]
      BY <2>1, <3>1, <3>2, FoldsAgree
    <3> QED
      BY <3>3 DEF w
  <2>4. g[v] = body(v)
    OBVIOUS
  <2> QED
    BY <2>2, <2>3, <2>4
<1>4. ASSUME NEW v \in SUBSET T
      PROVE  body(v) = IF v = {} THEN 0 ELSE f[Taken(v)] + g[v \ {Taken(v)}]
  <2>1. ASSUME v # {} PROVE g[v \ {Taken(v)}] = val(v \ {Taken(v)})
    <3>1. v \ {Taken(v)} \in SUBSET T /\ v \ {Taken(v)} # T
      BY <2>1, TakenIn
    <3> HIDE DEF g, val
    <3> QED
      BY <1>3, <3>1
  <2> QED
    BY <2>1
<1>5. IsFold(f, T, g)
  <2> DEFINE b2(v) == IF v = {} THEN 0 ELSE f[Taken(v)] + g[v \ {Taken(v)}]
  <2>1. \A v \in SUBSET T : body(v) = b2(v)
    BY <1>4
  <2>2. g = [v \in SUBSET T |-> body(v)]
    OBVIOUS
  <2> HIDE DEF g, body
  <2>3. g = [v \in SUBSET T |-> b2(v)]
    <3> HIDE DEF b2
    <3> QED
      BY <2>1, <2>2
  <2> QED
    BY <2>3 DEF IsFold
<1>6. IsFold(f, T, Fold(f, T))
  <2> HIDE DEF g
  <2> QED
    BY <1>5 DEF Fold
<1> QED
  BY <1>1, <1>6

\* The library's sum is this fold.
LEMMA SumIsFold ==
  ASSUME NEW f, NEW S
  PROVE  SumFunctionOnSet(f, S) = Fold(f, S)[S]
  BY DEF SumFunctionOnSet, FoldFunctionOnSet, MapThenFoldSet, Fold, IsFold, Taken

(***************************************************************************)
(* The sum                                                                 *)
(***************************************************************************)

\* The sum of nothing, and the sum as the library takes it.
LEMMA SumStep ==
  ASSUME NEW f, NEW S, IsFiniteSet(S)
  PROVE  SumFunctionOnSet(f, S) =
           IF S = {} THEN 0
           ELSE f[Taken(S)] + SumFunctionOnSet(f, S \ {Taken(S)})
<1> DEFINE w == S \ {Taken(S)}
<1>1. IsFold(f, S, Fold(f, S))
  BY FoldExists
<1>2. Fold(f, S)[S] = IF S = {} THEN 0 ELSE f[Taken(S)] + Fold(f, S)[w]
  BY <1>1, FoldValue DEF FoldedOn
<1>3. w \in SUBSET S /\ IsFiniteSet(w)
  BY FS_Subset
<1> HIDE DEF w
<1>4. IsFold(f, w, Fold(f, w))
  BY <1>3, FoldExists
<1>5. Fold(f, S)[w] = Fold(f, w)[w]
  BY <1>1, <1>3, <1>4, FoldsAgree
<1>6. SumFunctionOnSet(f, S) = Fold(f, S)[S] /\ SumFunctionOnSet(f, w) = Fold(f, w)[w]
  BY SumIsFold
<1> QED
  BY <1>2, <1>5, <1>6 DEF w

\* The sum of integers is one.
LEMMA SumInt ==
  ASSUME NEW f, NEW S, IsFiniteSet(S), \A x \in S : f[x] \in Int
  PROVE  SumFunctionOnSet(f, S) \in Int
<1> DEFINE B == {u \in SUBSET S : SumFunctionOnSet(f, u) \notin Int}
<1>0. SUFFICES ASSUME B # {} PROVE FALSE
  OBVIOUS
<1>1. PICK T \in B : \A v \in SUBSET T : v # T => v \notin B
  <2>1. B \in SUBSET (SUBSET S)
    OBVIOUS
  <2> HIDE DEF B
  <2> QED
    BY <1>0, <2>1, Smallest
<1>2. T \in SUBSET S /\ IsFiniteSet(T) /\ SumFunctionOnSet(f, T) \notin Int
  BY FS_Subset
<1>3. SumFunctionOnSet(f, T) =
        IF T = {} THEN 0 ELSE f[Taken(T)] + SumFunctionOnSet(f, T \ {Taken(T)})
  BY <1>2, SumStep
<1>4. T # {} => f[Taken(T)] \in Int /\ SumFunctionOnSet(f, T \ {Taken(T)}) \in Int
  BY <1>1, <1>2, TakenIn
<1> QED
  BY <1>2, <1>3, <1>4

\* Any element may be taken first.
LEMMA SumTake ==
  ASSUME NEW f, NEW S, IsFiniteSet(S), \A y \in S : f[y] \in Int, NEW x \in S
  PROVE  SumFunctionOnSet(f, S) = f[x] + SumFunctionOnSet(f, S \ {x})
<1> DEFINE Sum(u) == SumFunctionOnSet(f, u)
           B == {u \in SUBSET S : \E y \in u : Sum(u) # f[y] + Sum(u \ {y})}
<1>0. SUFFICES ASSUME B # {} PROVE FALSE
  OBVIOUS
<1>1. PICK T \in B : \A v \in SUBSET T : v # T => v \notin B
  <2>1. B \in SUBSET (SUBSET S)
    OBVIOUS
  <2> HIDE DEF B
  <2> QED
    BY <1>0, <2>1, Smallest
<1>2. PICK y \in T : Sum(T) # f[y] + Sum(T \ {y})
  OBVIOUS
<1> DEFINE p == Taken(T)
<1>3. T \in SUBSET S /\ IsFiniteSet(T) /\ T # {} /\ p \in T
  BY <1>2, FS_Subset, TakenIn
<1>4. Sum(T) = f[p] + Sum(T \ {p})
  BY <1>3, SumStep
<1> HIDE DEF p
<1>5. p # y
  BY <1>2, <1>4
<1>6. /\ Sum(T \ {p}) = f[y] + Sum((T \ {p}) \ {y})
      /\ Sum(T \ {y}) = f[p] + Sum((T \ {y}) \ {p})
  <2>1. /\ T \ {p} \notin B /\ T \ {y} \notin B
        /\ T \ {p} \in SUBSET S /\ T \ {y} \in SUBSET S
        /\ y \in T \ {p} /\ p \in T \ {y}
    <3> HIDE DEF B
    <3> QED
      BY <1>1, <1>3, <1>5
  <2> HIDE DEF Sum
  <2> QED
    BY <2>1
<1>7. (T \ {p}) \ {y} = (T \ {y}) \ {p}
  OBVIOUS
<1>8. Sum((T \ {p}) \ {y}) \in Int /\ f[p] \in Int /\ f[y] \in Int
  <2>1. (T \ {p}) \ {y} \in SUBSET S /\ IsFiniteSet((T \ {p}) \ {y})
    BY <1>3, FS_Subset
  <2> QED
    BY <1>3, <2>1, SumInt
<1> DEFINE rest == Sum((T \ {p}) \ {y})
<1>9. Sum(T) = f[p] + (f[y] + rest) /\ Sum(T \ {y}) = f[p] + rest /\ rest \in Int
  BY <1>4, <1>6, <1>7, <1>8
<1> HIDE DEF Sum, B, rest
<1>10. f[p] + (f[y] + rest) = f[y] + (f[p] + rest)
  BY <1>8, <1>9
<1> QED
  BY <1>2, <1>9, <1>10

\* A sum depends on the values alone.
LEMMA SumSame ==
  ASSUME NEW f, NEW h, NEW S, IsFiniteSet(S), \A x \in S : f[x] = h[x]
  PROVE  SumFunctionOnSet(f, S) = SumFunctionOnSet(h, S)
<1> DEFINE B == {u \in SUBSET S : SumFunctionOnSet(f, u) # SumFunctionOnSet(h, u)}
<1>0. SUFFICES ASSUME B # {} PROVE FALSE
  OBVIOUS
<1>1. PICK T \in B : \A v \in SUBSET T : v # T => v \notin B
  <2>1. B \in SUBSET (SUBSET S)
    OBVIOUS
  <2> HIDE DEF B
  <2> QED
    BY <1>0, <2>1, Smallest
<1>2. /\ T \in SUBSET S /\ IsFiniteSet(T)
      /\ SumFunctionOnSet(f, T) # SumFunctionOnSet(h, T)
  BY FS_Subset
<1>3. /\ SumFunctionOnSet(f, T) =
           IF T = {} THEN 0 ELSE f[Taken(T)] + SumFunctionOnSet(f, T \ {Taken(T)})
      /\ SumFunctionOnSet(h, T) =
           IF T = {} THEN 0 ELSE h[Taken(T)] + SumFunctionOnSet(h, T \ {Taken(T)})
  BY <1>2, SumStep
<1>4. T # {} =>
        /\ f[Taken(T)] = h[Taken(T)]
        /\ SumFunctionOnSet(f, T \ {Taken(T)}) = SumFunctionOnSet(h, T \ {Taken(T)})
  BY <1>1, <1>2, TakenIn
<1> QED
  BY <1>2, <1>3, <1>4

\* A sum of zeros is zero.
LEMMA SumZero ==
  ASSUME NEW f, NEW S, IsFiniteSet(S), \A x \in S : f[x] = 0
  PROVE  SumFunctionOnSet(f, S) = 0
<1> DEFINE B == {u \in SUBSET S : SumFunctionOnSet(f, u) # 0}
<1>0. SUFFICES ASSUME B # {} PROVE FALSE
  OBVIOUS
<1>1. PICK T \in B : \A v \in SUBSET T : v # T => v \notin B
  <2>1. B \in SUBSET (SUBSET S)
    OBVIOUS
  <2> HIDE DEF B
  <2> QED
    BY <1>0, <2>1, Smallest
<1>2. T \in SUBSET S /\ IsFiniteSet(T) /\ SumFunctionOnSet(f, T) # 0
  BY FS_Subset
<1>3. SumFunctionOnSet(f, T) =
        IF T = {} THEN 0 ELSE f[Taken(T)] + SumFunctionOnSet(f, T \ {Taken(T)})
  BY <1>2, SumStep
<1>4. T # {} => f[Taken(T)] = 0 /\ SumFunctionOnSet(f, T \ {Taken(T)}) = 0
  BY <1>1, <1>2, TakenIn
<1> QED
  BY <1>2, <1>3, <1>4

\* A value that grows makes the sum grow by as much.
LEMMA SumGrows ==
  ASSUME NEW f, NEW h, NEW S, IsFiniteSet(S),
         \A y \in S : f[y] \in Int /\ h[y] \in Int,
         NEW x \in S, NEW d \in Int, h[x] = f[x] + d,
         \A y \in S \ {x} : h[y] = f[y]
  PROVE  SumFunctionOnSet(h, S) = SumFunctionOnSet(f, S) + d
<1>1. /\ SumFunctionOnSet(f, S) = f[x] + SumFunctionOnSet(f, S \ {x})
      /\ SumFunctionOnSet(h, S) = h[x] + SumFunctionOnSet(h, S \ {x})
  BY SumTake
<1>2. IsFiniteSet(S \ {x})
  BY FS_RemoveElement
<1>3. SumFunctionOnSet(f, S \ {x}) = SumFunctionOnSet(h, S \ {x})
  BY <1>2, SumSame
<1>4. SumFunctionOnSet(f, S \ {x}) \in Int
  BY <1>2, SumInt
<1> QED
  BY <1>1, <1>3, <1>4

\* A sum may be taken over other indices, if no two of them become one.
LEMMA SumReindex ==
  ASSUME NEW f, NEW S, IsFiniteSet(S), \A x \in S : f[x] \in Int,
         NEW m, \A x, y \in S : m[x] = m[y] => x = y,
         NEW h, \A x \in S : h[m[x]] = f[x]
  PROVE  SumFunctionOnSet(f, S) = SumFunctionOnSet(h, {m[x] : x \in S})
<1> DEFINE image(u) == {m[x] : x \in u}
           B == {u \in SUBSET S : SumFunctionOnSet(f, u) # SumFunctionOnSet(h, image(u))}
<1>0. SUFFICES ASSUME B # {} PROVE FALSE
  OBVIOUS
<1>1. PICK T \in B : \A v \in SUBSET T : v # T => v \notin B
  <2>1. B \in SUBSET (SUBSET S)
    OBVIOUS
  <2> HIDE DEF B
  <2> QED
    BY <1>0, <2>1, Smallest
<1>2. /\ T \in SUBSET S /\ IsFiniteSet(T)
      /\ SumFunctionOnSet(f, T) # SumFunctionOnSet(h, image(T))
  BY FS_Subset
<1>3. IsFiniteSet(image(T))
  <2> DEFINE k == [x \in T |-> m[x]]
  <2>1. k \in Surjection(T, image(T))
    BY DEF Surjection
  <2> HIDE DEF k, image
  <2> QED
    BY <1>2, <2>1, FS_Surjection
<1>4. T # {}
  <2>1. SumFunctionOnSet(f, {}) = 0 /\ SumFunctionOnSet(h, {}) = 0
    BY FS_EmptySet, SumStep
  <2>2. T = {} => image(T) = {}
    OBVIOUS
  <2> QED
    BY <1>2, <2>1, <2>2
<1>5. PICK x \in T : TRUE
  BY <1>4
<1>6. SumFunctionOnSet(f, T) = f[x] + SumFunctionOnSet(f, T \ {x})
  BY <1>2, SumTake
<1>7. SumFunctionOnSet(h, image(T)) = h[m[x]] + SumFunctionOnSet(h, image(T) \ {m[x]})
  <2>1. m[x] \in image(T) /\ \A y \in image(T) : h[y] \in Int
    BY <1>2
  <2> HIDE DEF image
  <2> QED
    BY <1>3, <2>1, SumTake
<1>8. image(T) \ {m[x]} = image(T \ {x})
  BY <1>2
<1>9. SumFunctionOnSet(f, T \ {x}) = SumFunctionOnSet(h, image(T \ {x}))
  BY <1>1, <1>2
<1> HIDE DEF image, B
<1> QED
  BY <1>2, <1>6, <1>7, <1>8, <1>9
=============================================================================
