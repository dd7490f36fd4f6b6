---------------------------- MODULE PricedProofs ----------------------------
(***************************************************************************)
(* Proofs about Pricing and PricedRelay, for every table of prices, every  *)
(* markup, every report of usage and every width of the integers.          *)
(*                                                                         *)
(* Three arguments meet.  The arithmetic: the two roundings of the cost    *)
(* are ceilings (CostBounds, FormulaIsCost).  The look-up: the first hit   *)
(* in a list sorted by length is the longest prefix, and there is only one *)
(* of a length (LookUp).  The concurrency: when no admin request is under  *)
(* way the table in memory is the one in the database, which is PriceInv   *)
(* of PriceAdmin; PricedInv carries this from the quote to the delivery.   *)
(***************************************************************************)
EXTENDS PricedRelay, PriceProofs, FiniteSetTheorems

(***************************************************************************)
(* Arithmetic                                                              *)
(***************************************************************************)

\* big.Int's Int64 is exact on what fits.
LEMMA Int64Fits == \A n \in Nat : n < Half => Int64(n) = n
  BY PricingAssumption DEF Int64

\* What \div computes.
LEMMA DivBounds ==
  \A a \in Int, b \in Nat \ {0} :
      a \div b \in Int /\ b * (a \div b) <= a /\ a < b * (a \div b) + b
  OBVIOUS

\* The least multiple of b that is not below a.
IsCeil(c, a, b) == a <= b * c /\ b * c < a + b

\* There is only one.
LEMMA CeilUnique ==
  ASSUME NEW a \in Int, NEW b \in Nat \ {0}, NEW c \in Int, NEW d \in Int,
         IsCeil(c, a, b), IsCeil(d, a, b)
  PROVE  c = d
<1>1. ASSUME NEW x \in Int, NEW y \in Int, IsCeil(x, a, b), IsCeil(y, a, b), x >= y + 1
      PROVE  FALSE
  <2>1. b * x >= b * (y + 1)
    BY <1>1
  <2>2. b * (y + 1) = b * y + b
    OBVIOUS
  <2> QED
    BY <1>1, <2>1, <2>2 DEF IsCeil
<1>2. ~(c >= d + 1) /\ ~(d >= c + 1)
  BY <1>1
<1> QED
  BY <1>2

\* README's rounding up is a ceiling.
LEMMA CeilDivIsCeil ==
  ASSUME NEW a \in Int, NEW b \in Nat \ {0}
  PROVE  CeilDiv(a, b) \in Int /\ IsCeil(CeilDiv(a, b), a, b)
<1>1. PICK q \in Int : q = (-a) \div b /\ b * q <= -a /\ -a < b * q + b
  BY DivBounds
<1>2. b * (-q) = -(b * q)
  OBVIOUS
<1> QED
  BY <1>1, <1>2 DEF CeilDiv, IsCeil

\* Adding the divisor less one and dividing is a ceiling.
LEMMA AddDivIsCeil ==
  ASSUME NEW a \in Int, NEW b \in Nat \ {0}
  PROVE  (a + b - 1) \div b \in Int /\ IsCeil((a + b - 1) \div b, a, b)
<1>1. PICK q \in Int : q = (a + b - 1) \div b /\ b * q <= a + b - 1 /\ a + b - 1 < b * q + b
  BY DivBounds
<1> QED
  BY <1>1 DEF IsCeil

\* ceilRat is a ceiling on what is not negative.
LEMMA CeilRatIsCeil ==
  ASSUME NEW a \in Nat, NEW b \in Nat \ {0}
  PROVE  ceilRat(a, b) \in Int /\ IsCeil(ceilRat(a, b), a, b)
<1>1. PICK q \in Int, m \in Int : q = a \div b /\ m = a % b /\ a = b * q + m /\ 0 <= m /\ m < b
  OBVIOUS
<1>2. ceilRat(a, b) = q + (IF m = 0 THEN 0 ELSE 1)
  BY <1>1 DEF ceilRat, Quo
<1>3. b * (q + 1) = b * q + b
  OBVIOUS
<1> QED
  BY <1>1, <1>2, <1>3 DEF IsCeil

\* A ceiling of what is not negative is not negative.
LEMMA CeilNat ==
  ASSUME NEW a \in Nat, NEW b \in Nat \ {0}, NEW c \in Int, IsCeil(c, a, b)
  PROVE  c \in Nat
<1>1. c < 0 => b * c < 0
  OBVIOUS
<1> QED
  BY <1>1 DEF IsCeil

\* What a markup may be.
Fractions == [num : Nat \ {0}, den : Nat \ {0}]

\* What tokens are worth is not negative.
LEMMA WorthNat ==
  ASSUME NEW p \in Amounts(Nat), NEW u \in Counts
  PROVE  Worth(p, u) \in Nat
<1> DEFINE n == NonNegative(u.prompt)
           c == Cached(u)
           o == NonNegative(u.completion)
<1>1. n \in Nat /\ c \in Nat /\ o \in Nat /\ n - c \in Nat
  BY DEF Counts, Cached, NonNegative, AtMost
<1>2. Worth(p, u) = (n - c) * p.input + c * p.cached + o * p.output
  BY DEF Worth
<1>3. p.input \in Nat /\ p.cached \in Nat /\ p.output \in Nat
  BY DEF Amounts
<1> HIDE DEF n, c, o
<1>4. (n - c) * p.input \in Nat /\ c * p.cached \in Nat /\ o * p.output \in Nat
  BY <1>1, <1>3
<1> QED
  BY <1>2, <1>4

\* Both roundings of the cost are ceilings.
LEMMA Roundings ==
  ASSUME NEW p \in Amounts(Nat), NEW u \in Counts, NEW mk \in Fractions
  PROVE  /\ Units(p, u) \in Nat
         /\ IsCeil(Units(p, u), Worth(p, u), Million)
         /\ WithMarkup(Units(p, u), mk) \in Nat
         /\ IsCeil(WithMarkup(Units(p, u), mk), Units(p, u) * mk.num, mk.den)
<1>1. Units(p, u) \in Int /\ IsCeil(Units(p, u), Worth(p, u), Million)
  <2>1. PICK W \in Int : W = Worth(p, u)
    BY WorthNat
  <2>2. Million \in Nat \ {0}
    BY PricingAssumption
  <2>3. /\ (W + Million - 1) \div Million \in Int
        /\ IsCeil((W + Million - 1) \div Million, W, Million)
    BY <2>2, AddDivIsCeil
  <2> QED
    BY <2>1, <2>3 DEF Units
<1>2. Units(p, u) \in Nat
  BY <1>1, WorthNat, CeilNat, PricingAssumption
<1>3. PICK n \in Nat : n = Units(p, u)
  BY <1>2
<1>4. mk.num \in Nat \ {0} /\ mk.den \in Nat \ {0}
  BY DEF Fractions
<1>5. n * mk.num \in Nat
  BY <1>4
<1>6. WithMarkup(n, mk) \in Int /\ IsCeil(WithMarkup(n, mk), n * mk.num, mk.den)
  <2>1. CASE mk.num = mk.den
    <3>1. mk.den * n = n * mk.num
      BY <1>4, <2>1
    <3> QED
      BY <1>4, <1>5, <2>1, <3>1 DEF WithMarkup, IsCeil
  <2>2. CASE mk.num # mk.den
    BY <1>4, <1>5, <2>2, CeilRatIsCeil DEF WithMarkup
  <2> QED
    BY <2>1, <2>2
<1>7. WithMarkup(n, mk) \in Nat
  BY <1>4, <1>5, <1>6, CeilNat
<1> QED
  BY <1>1, <1>2, <1>3, <1>6, <1>7

\* A cost is never below what the tokens are worth with the markup, and above
\* it by less than one unit and one unit times the markup.
LEMMA CostBounds ==
  ASSUME NEW p \in Amounts(Nat), NEW u \in Counts, NEW mk \in Fractions
  PROVE  LET cost == CostMicroUSDC(p, u, mk)
             paid == cost * Million * mk.den
             worth == Worth(p, u) * mk.num
         IN  /\ u.prompt > 0 \/ u.completion > 0 => cost >= 1
             /\ worth <= paid
             /\ cost = 1 \/ paid < worth + Million * mk.num + Million * mk.den
<1>1. PICK W \in Nat, U \in Nat, T \in Nat :
        /\ W = Worth(p, u) /\ U = Units(p, u) /\ T = WithMarkup(U, mk)
        /\ IsCeil(U, W, Million) /\ IsCeil(T, U * mk.num, mk.den)
  BY WorthNat, Roundings
<1>2. PICK M \in Nat \ {0}, n \in Nat \ {0}, d \in Nat \ {0} :
        M = Million /\ n = mk.num /\ d = mk.den
  BY PricingAssumption DEF Fractions
<1>3. PICK cost \in Nat :
        /\ cost = CostMicroUSDC(p, u, mk)
        /\ cost >= T /\ (cost = T \/ cost = 1)
        /\ u.prompt > 0 \/ u.completion > 0 => cost >= 1
  BY <1>1 DEF CostMicroUSDC
<1>4. /\ W <= M * U /\ M * U < W + M
      /\ U * n <= d * T /\ d * T < U * n + d
  BY <1>1, <1>2 DEF IsCeil
<1>5. W * n <= (M * U) * n /\ (M * U) * n < (W + M) * n
  BY <1>4
<1>6. M * (U * n) <= M * (d * T) /\ M * (d * T) < M * (U * n + d)
  BY <1>4
<1>7. /\ (M * U) * n = M * (U * n)
      /\ (W + M) * n = W * n + M * n
      /\ M * (U * n + d) = M * (U * n) + M * d
      /\ T * M * d = M * (d * T)
  OBVIOUS
<1>8. T * M * d <= cost * M * d
  <2>1. M * d \in Nat /\ T * M * d = T * (M * d) /\ cost * M * d = cost * (M * d)
    OBVIOUS
  <2>2. T * (M * d) <= cost * (M * d)
    BY <1>3, <2>1
  <2> QED
    BY <2>1, <2>2
<1>9. /\ W * n <= cost * M * d
      /\ cost = 1 \/ cost * M * d < W * n + M * n + M * d
  <2>1. W * n \in Nat /\ (M * U) * n \in Nat /\ M * (d * T) \in Nat /\ M * n \in Nat
          /\ M * d \in Nat /\ T * M * d \in Nat /\ cost * M * d \in Nat
          /\ M * (U * n) \in Nat
    OBVIOUS
  <2> QED
    BY <1>3, <1>5, <1>6, <1>7, <1>8, <2>1
<1> QED
  BY <1>1, <1>2, <1>3, <1>9

\* README's formula on the headers gives the cost before the minimum of one.
LEMMA FormulaIsCost ==
  ASSUME NEW p \in Amounts(Nat), NEW u \in Counts, NEW mk \in Fractions,
         u.cached \in 0..u.prompt, u.completion >= 0
  PROVE  Formula(receipt(u, p), mk) = WithMarkup(Units(p, u), mk)
<1>1. /\ NonNegative(u.prompt) = u.prompt
      /\ Cached(u) = u.cached
      /\ NonNegative(u.completion) = u.completion
      /\ NonNegative(u.prompt - u.cached) = u.prompt - u.cached
  BY DEF Counts, NonNegative, Cached, AtMost
<1> DEFINE h == receipt(u, p)
<1>2. h.input * h.price.input + h.cached * h.price.cached + h.output * h.price.output
        = Worth(p, u)
  BY <1>1 DEF receipt, Worth
<1>3. CeilDiv(Worth(p, u), Million) = Units(p, u)
  BY WorthNat, Roundings, CeilDivIsCeil, CeilUnique, PricingAssumption
<1>4. PICK n \in Nat : n = Units(p, u)
  BY Roundings
<1>5. mk.den \in Nat \ {0} /\ n * mk.num \in Int
  BY DEF Fractions
<1>6. CeilDiv(n * mk.num, mk.den) = WithMarkup(n, mk)
  <2>1. IsCeil(WithMarkup(n, mk), n * mk.num, mk.den) /\ WithMarkup(n, mk) \in Int
    BY <1>4, Roundings
  <2> QED
    BY <1>5, <2>1, CeilDivIsCeil, CeilUnique
<1> HIDE DEF h
<1> QED
  BY <1>2, <1>3, <1>4, <1>6 DEF Formula, h

\* No part of a price is higher, no count of tokens larger with as many of
\* them cached, and no markup higher.
NoDearer(p, q) == p.input <= q.input /\ p.output <= q.output /\ p.cached <= q.cached

NoMore(u, v) ==
    /\ u.prompt <= v.prompt
    /\ u.completion <= v.completion
    /\ u.cached = v.cached

NoHigher(mk, nk) == mk.num * nk.den <= nk.num * mk.den

\* A product grows with its factors.
LEMMA TimesGrows ==
  \A a, b, c, d \in Nat : a <= b /\ c <= d => a * c <= b * d
<1> SUFFICES ASSUME NEW a \in Nat, NEW b \in Nat, NEW c \in Nat, NEW d \in Nat,
                    a <= b, c <= d
             PROVE  a * c <= b * d
  OBVIOUS
<1>1. PICK x \in Nat, y \in Nat : b = a + x /\ d = c + y
  <2>1. b - a \in Nat /\ d - c \in Nat /\ b = a + (b - a) /\ d = c + (d - c)
    OBVIOUS
  <2> QED
    BY <2>1
<1>2. b * d = a * c + a * y + x * c + x * y
  BY <1>1
<1>3. a * c \in Nat /\ a * y \in Nat /\ x * c \in Nat /\ x * y \in Nat
  OBVIOUS
<1> QED
  BY <1>2, <1>3

\* More tokens at prices no lower are worth no less: a token more in the
\* prompt is one more that is cached or one more that is not.
LEMMA WorthGrows ==
  ASSUME NEW p \in Amounts(Nat), NEW q \in Amounts(Nat), NEW u \in Counts, NEW v \in Counts,
         NoDearer(p, q), NoMore(u, v)
  PROVE  Worth(p, u) <= Worth(q, v)
<1> DEFINE n(w) == NonNegative(w.prompt)
           c(w) == Cached(w)
           o(w) == NonNegative(w.completion)
<1>1. /\ n(u) - c(u) \in Nat /\ n(v) - c(v) \in Nat /\ n(u) - c(u) <= n(v) - c(v)
      /\ c(u) \in Nat /\ c(v) \in Nat /\ c(u) <= c(v)
      /\ o(u) \in Nat /\ o(v) \in Nat /\ o(u) <= o(v)
  BY DEF NoMore, Counts, Cached, NonNegative, AtMost
<1>2. /\ p.input \in Nat /\ p.cached \in Nat /\ p.output \in Nat
      /\ q.input \in Nat /\ q.cached \in Nat /\ q.output \in Nat
      /\ p.input <= q.input /\ p.cached <= q.cached /\ p.output <= q.output
  BY DEF NoDearer, Amounts
<1>3. /\ Worth(p, u) = (n(u) - c(u)) * p.input + c(u) * p.cached + o(u) * p.output
      /\ Worth(q, v) = (n(v) - c(v)) * q.input + c(v) * q.cached + o(v) * q.output
  BY DEF Worth
<1> HIDE DEF n, c, o
<1>4. PICK fu \in Nat, fv \in Nat : fu = n(u) - c(u) /\ fv = n(v) - c(v) /\ fu <= fv
  BY <1>1
<1>5. /\ fu * p.input <= fv * q.input
      /\ c(u) * p.cached <= c(v) * q.cached
      /\ o(u) * p.output <= o(v) * q.output
  BY <1>1, <1>2, <1>4, TimesGrows
<1>6. /\ fu * p.input \in Nat /\ fv * q.input \in Nat
      /\ c(u) * p.cached \in Nat /\ c(v) * q.cached \in Nat
      /\ o(u) * p.output \in Nat /\ o(v) * q.output \in Nat
  BY <1>1, <1>2
<1> QED
  BY <1>3, <1>4, <1>5, <1>6

\* A ceiling is the least: what is a multiple enough is no smaller.
LEMMA CeilLeast ==
  ASSUME NEW a \in Int, NEW b \in Nat \ {0}, NEW c \in Int, NEW d \in Int,
         IsCeil(c, a, b), a <= b * d
  PROVE  c <= d
<1> SUFFICES ASSUME c >= d + 1 PROVE FALSE
  OBVIOUS
<1>1. b * c >= b * (d + 1)
  OBVIOUS
<1>2. b * (d + 1) = b * d + b
  OBVIOUS
<1> QED
  BY <1>1, <1>2 DEF IsCeil

\* A product with a positive factor is no larger only if the other is not.
LEMMA TimesCancel ==
  \A a, b \in Int, k \in Nat \ {0} : k * a <= k * b => a <= b
<1> SUFFICES ASSUME NEW a \in Int, NEW b \in Int, NEW k \in Nat \ {0},
                    k * a <= k * b, a >= b + 1
             PROVE  FALSE
  OBVIOUS
<1>1. k * a >= k * (b + 1)
  OBVIOUS
<1>2. k * (b + 1) = k * b + k
  OBVIOUS
<1> QED
  BY <1>1, <1>2

\* The two roundings and the least of one unit keep the order of what the
\* tokens are worth and of the markups.
LEMMA CostGrows ==
  ASSUME NEW p \in Amounts(Nat), NEW q \in Amounts(Nat), NEW u \in Counts, NEW v \in Counts,
         NEW mk \in Fractions, NEW nk \in Fractions,
         NoDearer(p, q), NoMore(u, v), NoHigher(mk, nk)
  PROVE  CostMicroUSDC(p, u, mk) <= CostMicroUSDC(q, v, nk)
<1>1. PICK W \in Nat, U \in Nat, T \in Nat :
        /\ W = Worth(p, u) /\ U = Units(p, u) /\ T = WithMarkup(U, mk)
        /\ IsCeil(U, W, Million) /\ IsCeil(T, U * mk.num, mk.den)
  BY WorthNat, Roundings
<1>2. PICK X \in Nat, V \in Nat, S \in Nat :
        /\ X = Worth(q, v) /\ V = Units(q, v) /\ S = WithMarkup(V, nk)
        /\ IsCeil(V, X, Million) /\ IsCeil(S, V * nk.num, nk.den)
  BY WorthNat, Roundings
<1>3. PICK n \in Nat \ {0}, d \in Nat \ {0}, k \in Nat \ {0}, e \in Nat \ {0} :
        /\ n = mk.num /\ d = mk.den /\ k = nk.num /\ e = nk.den
        /\ n * e <= k * d
  BY DEF Fractions, NoHigher
<1>4. U <= V
  <2>1. W <= X
    BY <1>1, <1>2, WorthGrows
  <2>2. PICK M \in Nat \ {0} : M = Million
    BY PricingAssumption
  <2>3. X <= M * V /\ M * V \in Int
    BY <1>2, <2>2 DEF IsCeil
  <2>4. IsCeil(U, W, M) /\ W <= M * V
    BY <1>1, <2>1, <2>2, <2>3
  <2> QED
    BY <2>4, CeilLeast
<1>5. U * n <= d * S
  <2>1. V * k <= e * S
    BY <1>2, <1>3 DEF IsCeil
  <2>2. U * (n * e) <= V * (k * d)
    <3>1. n * e \in Nat /\ k * d \in Nat
      OBVIOUS
    <3> QED
      BY <1>3, <1>4, <3>1, TimesGrows
  <2>3. (V * k) * d <= (e * S) * d
    <3>1. V * k \in Nat /\ e * S \in Nat
      OBVIOUS
    <3> QED
      BY <2>1, <3>1, TimesGrows
  <2>4. /\ U * (n * e) = e * (U * n)
        /\ V * (k * d) = (V * k) * d
        /\ (e * S) * d = e * (d * S)
    OBVIOUS
  <2>5. e * (U * n) <= e * (d * S)
    <3>1. e * (U * n) \in Nat /\ (V * k) * d \in Nat /\ e * (d * S) \in Nat
      OBVIOUS
    <3> QED
      BY <2>2, <2>3, <2>4, <3>1
  <2>6. U * n \in Int /\ d * S \in Int
    OBVIOUS
  <2> QED
    BY <2>5, <2>6, TimesCancel
<1>6. T <= S
  <2>1. PICK a \in Int : a = U * n
    OBVIOUS
  <2>2. IsCeil(T, a, d) /\ a <= d * S
    BY <1>1, <1>3, <1>5, <2>1
  <2> QED
    BY <2>2, CeilLeast
<1>7. u.prompt > 0 \/ u.completion > 0 => v.prompt > 0 \/ v.completion > 0
  BY DEF NoMore, Counts
<1> QED
  BY <1>1, <1>2, <1>6, <1>7 DEF CostMicroUSDC

(***************************************************************************)
(* The look-up                                                             *)
(***************************************************************************)

\* A set of positive numbers has a least one.
LEMMA Least ==
  ASSUME NEW T \in SUBSET (Nat \ {0}), T # {}
  PROVE  \E x \in T : \A y \in T : x <= y
<1> DEFINE I == {1..x : x \in T}
<1>1. I \subseteq FiniteSubsetsOf(Nat) /\ I # {}
  <2>1. ASSUME NEW x \in T PROVE 1..x \in FiniteSubsetsOf(Nat)
    <3>1. IsFiniteSet(1..x)
      BY FS_Interval
    <3>2. 1..x \in SUBSET Nat
      OBVIOUS
    <3> QED
      BY <3>1, <3>2 DEF FiniteSubsetsOf
  <2> QED
    BY <2>1
<1>2. PICK s \in I : \A t \in I : ~(<<t, s>> \in StrictSubsetOrdering(Nat))
  BY <1>1, FS_StrictSubsetOrderingWellFounded, WFMin
<1>3. PICK x \in T : s = 1..x
  BY <1>2
<1>4. ASSUME NEW y \in T, ~(x <= y) PROVE FALSE
  <2>1. 1..y \in SUBSET Nat /\ 1..x \in SUBSET Nat /\ 1..y \subseteq 1..x
    BY <1>4
  <2>2. x \in 1..x /\ x \notin 1..y
    BY <1>4
  <2>3. <<1..y, 1..x>> \in StrictSubsetOrdering(Nat)
    BY <2>1, <2>2, Zenon DEF StrictSubsetOrdering
  <2> QED
    BY <1>2, <1>3, <2>3
<1> QED
  BY <1>4

\* Two prefixes of one name that are of the same length are the same.
LEMMA PrefixUnique ==
  ASSUME NEW s \in Seq(Letters), NEW t \in Seq(Letters), NEW u \in Seq(Letters),
         IsPrefix(s, u), IsPrefix(t, u), Len(s) = Len(t)
  PROVE  s = t
<1>1. SubSeq(s, 1, Len(s)) = SubSeq(t, 1, Len(t))
  BY DEF IsPrefix
<1>2. SubSeq(s, 1, Len(s)) = s /\ SubSeq(t, 1, Len(t)) = t
  OBVIOUS
<1> QED
  BY <1>1, <1>2

\* Table.prefixes lists every key of the table.
LEMMA OrderComplete ==
  ASSUME NEW K, IsFiniteSet(K), NEW order \in PrefixOrders(K)
  PROVE  /\ DOMAIN order \subseteq Nat \ {0}
         /\ \A i \in DOMAIN order : order[i] \in K
         /\ \A k \in K : \E i \in DOMAIN order : order[i] = k
         /\ \A i, j \in DOMAIN order : i < j => Len(order[i]) >= Len(order[j])
<1> DEFINE D == 1..Cardinality(K)
<1>1. Cardinality(K) \in Nat
  BY FS_CardinalityType
<1>2. order \in [D -> K] /\ \A i, j \in D : i # j => order[i] # order[j]
  BY DEF PrefixOrders, SetToSeqs
<1>3. order \in Injection(D, K)
  BY <1>2 DEF Injection, IsInjective
<1>4. Cardinality(D) = Cardinality(K)
  BY <1>1, FS_Interval
<1>5. order \in Surjection(D, K)
  BY <1>3, <1>4, FS_Injection
<1>6. \A k \in K : \E i \in D : order[i] = k
  BY <1>5 DEF Surjection
<1>7. \A i, j \in DOMAIN order : i < j => Len(order[i]) >= Len(order[j])
  BY DEF PrefixOrders
<1> QED
  BY <1>1, <1>2, <1>6, <1>7

\* The keys of a table that are prefixes of a name.
Keys(rows, name) == {m \in Listed(rows) : IsPrefix(m, name)}

\* The longest of them.
IsBest(best, rows, name) ==
  best \in Keys(rows, name) /\ \A k \in Keys(rows, name) : Len(k) <= Len(best)

\* A name has one longest prefix in a table.
LEMMA BestUnique ==
  ASSUME NEW rows, NEW name \in Names, NEW a, NEW b, IsBest(a, rows, name), IsBest(b, rows, name)
  PROVE  a = b
<1>1. /\ a \in Seq(Letters) /\ b \in Seq(Letters) /\ name \in Seq(Letters)
      /\ IsPrefix(a, name) /\ IsPrefix(b, name)
  BY PricedAssumption DEF IsBest, Keys, Listed
<1>2. Len(a) <= Len(b) /\ Len(b) <= Len(a)
  BY DEF IsBest
<1>3. Len(a) = Len(b)
  BY <1>1, <1>2
<1> QED
  BY <1>1, <1>3, PrefixUnique

\* Whatever the order of the map and of the sort, priceFor finds the price of
\* the longest prefix, or the default price if there is none.
LEMMA LookUp ==
  ASSUME NEW rows \in Rows, NEW name \in Names, NEW order \in PrefixOrders(Listed(rows))
  PROVE  LET p == priceFor(Compiled(rows), order, compilePrice(DefaultPrice), name)
         IN  \/ Keys(rows, name) = {} /\ p = compilePrice(DefaultPrice)
             \/ \E best : IsBest(best, rows, name) /\ p = compilePrice(rows[best])
<1> DEFINE p == priceFor(Compiled(rows), order, compilePrice(DefaultPrice), name)
           hits == {i \in DOMAIN order : IsPrefix(order[i], name)}
<1>0. /\ Listed(rows) \subseteq Models
      /\ name \in Seq(Letters)
      /\ \A m \in Models : m \in Seq(Letters)
      /\ DOMAIN Compiled(rows) = Listed(rows)
      /\ \A m \in Listed(rows) : Compiled(rows)[m] = compilePrice(rows[m])
  BY PricedAssumption DEF Listed, Compiled
<1>1. IsFiniteSet(Listed(rows))
  BY <1>0, FS_Subset, PricedAssumption
<1>2. /\ DOMAIN order \subseteq Nat \ {0}
      /\ \A i \in DOMAIN order : order[i] \in Listed(rows)
      /\ \A k \in Listed(rows) : \E i \in DOMAIN order : order[i] = k
      /\ \A i, j \in DOMAIN order : i < j => Len(order[i]) >= Len(order[j])
  BY <1>1, OrderComplete
<1>3. CASE name \in Listed(rows)
  <2>1. IsPrefix(name, name)
    BY <1>0 DEF IsPrefix
  <2>2. IsBest(name, rows, name)
    BY <1>3, <2>1 DEF IsBest, Keys, IsPrefix
  <2>3. p = compilePrice(rows[name])
    BY <1>0, <1>3 DEF priceFor
  <2> QED
    BY <2>2, <2>3
<1>4. CASE name \notin Listed(rows) /\ hits = {}
  <2>1. Keys(rows, name) = {}
    BY <1>2, <1>4 DEF Keys
  <2>2. p = compilePrice(DefaultPrice)
    BY <1>0, <1>4 DEF priceFor
  <2> QED
    BY <2>1, <2>2
<1>5. CASE name \notin Listed(rows) /\ hits # {}
  <2>1. hits \in SUBSET (Nat \ {0})
    BY <1>2
  <2>2. \E i \in hits : \A j \in hits : i <= j
    BY <1>5, <2>1, Least
  <2> DEFINE i == CHOOSE i \in hits : \A j \in hits : i <= j
  <2>3. i \in hits /\ \A j \in hits : i <= j
    BY <2>2
  <2>4. p = Compiled(rows)[order[i]]
    BY <1>0, <1>5 DEF priceFor
  <2> HIDE DEF i
  <2>5. order[i] \in Listed(rows) /\ IsPrefix(order[i], name)
    BY <1>2, <2>3
  <2>6. ASSUME NEW k \in Keys(rows, name) PROVE Len(k) <= Len(order[i])
    <3>1. PICK j \in DOMAIN order : order[j] = k
      BY <1>2 DEF Keys
    <3>2. j \in hits
      BY <3>1 DEF Keys
    <3>3. CASE i = j
      BY <1>0, <2>5, <3>1, <3>3
    <3>4. CASE i < j
      BY <1>0, <1>2, <2>3, <2>5, <3>1, <3>4
    <3>5. i <= j /\ i \in Nat /\ j \in Nat
      BY <2>1, <2>3, <3>2
    <3> QED
      BY <3>3, <3>4, <3>5
  <2>7. IsBest(order[i], rows, name)
    BY <2>5, <2>6 DEF IsBest, Keys
  <2>8. p = compilePrice(rows[order[i]])
    BY <1>0, <2>4, <2>5
  <2> QED
    BY <2>7, <2>8
<1> HIDE DEF p, hits
<1> QED
  BY <1>3, <1>4, <1>5 DEF p

\* A name with a prefix in a table has a longest one.
LEMMA BestExists ==
  ASSUME NEW rows, NEW name \in Names, Keys(rows, name) # {}
  PROVE  \E best : IsBest(best, rows, name)
<1> DEFINE short(k) == Len(name) - Len(k) + 1
           T == {short(k) : k \in Keys(rows, name)}
<1>1. name \in Seq(Letters) /\ Len(name) \in Nat
  BY PricedAssumption
<1>2. ASSUME NEW k \in Keys(rows, name)
      PROVE  Len(k) \in Nat /\ Len(k) <= Len(name)
  <2>1. k \in Seq(Letters) /\ IsPrefix(k, name)
    BY PricedAssumption DEF Keys, Listed
  <2> QED
    BY <1>1, <2>1 DEF IsPrefix
<1>3. T \in SUBSET (Nat \ {0}) /\ T # {}
  BY <1>1, <1>2
<1>4. PICK x \in T : \A y \in T : x <= y
  BY <1>3, Least
<1>5. PICK best \in Keys(rows, name) : x = short(best)
  BY <1>4
<1>6. ASSUME NEW k \in Keys(rows, name) PROVE Len(k) <= Len(best)
  <2>1. short(best) <= short(k)
    BY <1>4, <1>5
  <2> QED
    BY <1>1, <1>2, <2>1
<1> QED
  BY <1>5, <1>6 DEF IsBest

(***************************************************************************)
(* The prices of a name                                                    *)
(***************************************************************************)

\* What compiles is a price that is not negative, and its compiled form is it
\* wherever that fits the integers.
LEMMA CompileExact ==
  ASSUME NEW p \in Prices \cup {DefaultPrice}
  PROVE  /\ Meant(p) \in Amounts(Nat)
         /\ compilePrice(p) \in Amounts(Int)
         /\ Fits(Meant(p)) => compilePrice(p) = Meant(p)
<1>1. p \in [input : Text, output : Text, cached : Text] /\ Compiles(p)
  BY PricedAssumption
<1>2. ASSUME NEW t \in Text, Parses(t)
      PROVE  t.micros \in Nat /\ parseUSDToMicros(t) \in Int
  <2>1. t.micros \in Nat
    BY <1>2 DEF Text, Parses, Blank, NotANumber
  <2>2. \A n \in Nat : Int64(n) \in Int
    BY PricingAssumption DEF Int64
  <2> QED
    BY <2>1, <2>2 DEF parseUSDToMicros
<1> DEFINE c == IF p.cached = Blank THEN p.input ELSE p.cached
<1>3. /\ p.input \in Text /\ Parses(p.input)
      /\ p.output \in Text /\ Parses(p.output)
      /\ c \in Text /\ Parses(c)
  BY <1>1 DEF Compiles
<1>4. /\ Meant(p) = [input |-> p.input.micros, output |-> p.output.micros, cached |-> c.micros]
      /\ compilePrice(p) = [input |-> parseUSDToMicros(p.input),
                            output |-> parseUSDToMicros(p.output),
                            cached |-> parseUSDToMicros(c)]
  BY DEF Meant, compilePrice
<1> HIDE DEF c
<1>5. Meant(p) \in Amounts(Nat) /\ compilePrice(p) \in Amounts(Int)
  BY <1>2, <1>3, <1>4 DEF Amounts
<1>6. ASSUME Fits(Meant(p)) PROVE compilePrice(p) = Meant(p)
  <2>1. p.input.micros < Half /\ p.output.micros < Half /\ c.micros < Half
    BY <1>4, <1>6 DEF Fits
  <2> QED
    BY <1>2, <1>3, <1>4, <2>1, Int64Fits DEF parseUSDToMicros
<1> QED
  BY <1>5, <1>6

\* What the operator has configured for a name is the price of the longest
\* prefix in the database.
LEMMA DueIsBest ==
  ASSUME modelPrices \in Rows, NEW name \in Names
  PROVE  /\ Due(name) \in Amounts(Nat)
         /\ Keys(modelPrices, name) = {} => Due(name) = Meant(DefaultPrice)
         /\ \A best : IsBest(best, modelPrices, name) => Due(name) = Meant(modelPrices[best])
<1> DEFINE keys == Keys(modelPrices, name)
           b == CHOOSE m \in keys : \A k \in keys : Len(k) <= Len(m)
<1>1. Due(name) = Meant(IF keys = {} THEN DefaultPrice ELSE modelPrices[b])
  BY DEF Due, Keys
<1>2. \A best : IsBest(best, modelPrices, name) => modelPrices[best] \in Prices
  BY DEF IsBest, Keys, Listed, Rows
<1>3. CASE keys = {}
  <2>1. Due(name) = Meant(DefaultPrice)
    BY <1>1, <1>3
  <2> QED
    BY <1>3, <2>1, CompileExact DEF IsBest
<1>4. CASE keys # {}
  <2>1. IsBest(b, modelPrices, name)
    <3>1. \E m \in keys : \A k \in keys : Len(k) <= Len(m)
      BY <1>4, BestExists DEF IsBest
    <3> QED
      BY <3>1 DEF IsBest
  <2>2. Due(name) = Meant(modelPrices[b])
    BY <1>1, <1>4
  <2> HIDE DEF b
  <2>3. Due(name) \in Amounts(Nat)
    BY <1>2, <2>1, <2>2, CompileExact
  <2> QED
    BY <1>4, <2>1, <2>2, <2>3, BestUnique
<1> QED
  BY <1>3, <1>4

\* Whatever priceFor returns is a price; in a calm moment it is the one the
\* operator has configured.
LEMMA FoundDue ==
  ASSUME PriceInv, up, NEW name \in Names, NEW p \in Found(name)
  PROVE  /\ p \in Amounts(Int)
         /\ Calm /\ Fits(Due(name)) => p = Due(name)
<1>1. table \in Rows /\ modelPrices \in Rows
  BY DEF PriceInv, TypeOK
<1>2. PICK order \in PrefixOrders(Listed(table)) :
        p = priceFor(Compiled(table), order, compilePrice(DefaultPrice), name)
  BY DEF Found
<1>3. \/ Keys(table, name) = {} /\ p = compilePrice(DefaultPrice)
      \/ \E best : IsBest(best, table, name) /\ p = compilePrice(table[best])
  BY <1>1, <1>2, LookUp
<1>4. \A best : IsBest(best, table, name) => table[best] \in Prices
  BY <1>1 DEF IsBest, Keys, Listed, Rows
<1>5. p \in Amounts(Int)
  BY <1>3, <1>4, CompileExact
<1>6. ASSUME Calm, Fits(Due(name)) PROVE p = Due(name)
  <2>1. \A a \in Admins : ad[a].pc \in {"idle", "setting"}
    BY <1>6 DEF Calm, PriceInv, TypeOK
  <2>2. table = modelPrices
    BY <1>6, <2>1 DEF Calm, PriceInv, LoneInv
  <2>3. CASE Keys(table, name) = {} /\ p = compilePrice(DefaultPrice)
    BY <1>1, <1>6, <2>2, <2>3, DueIsBest, CompileExact
  <2>4. ASSUME NEW best, IsBest(best, table, name), p = compilePrice(table[best])
        PROVE  p = Due(name)
    <3>1. Due(name) = Meant(table[best])
      BY <1>1, <2>2, <2>4, DueIsBest
    <3> QED
      BY <1>4, <1>6, <2>4, <3>1, CompileExact
  <2> QED
    BY <1>3, <2>3, <2>4
<1> QED
  BY <1>5, <1>6

\* A cost is a whole number, even at a price that did not fit.
LEMMA CostInt ==
  ASSUME NEW p \in Amounts(Int), NEW u \in Counts, NEW mk \in Fractions
  PROVE  CostMicroUSDC(p, u, mk) \in Int
<1>1. PICK W \in Int : W = Worth(p, u)
  <2>1. /\ NonNegative(u.prompt) \in Int /\ Cached(u) \in Int /\ NonNegative(u.completion) \in Int
        /\ p.input \in Int /\ p.cached \in Int /\ p.output \in Int
    BY DEF Counts, Amounts, NonNegative, Cached, AtMost
  <2> QED
    BY <2>1 DEF Worth
<1>2. PICK U \in Int : U = Units(p, u)
  BY <1>1, AddDivIsCeil, PricingAssumption DEF Units
<1>3. PICK n \in Nat \ {0}, d \in Nat \ {0} : n = mk.num /\ d = mk.den
  BY DEF Fractions
<1>4. PICK x \in Int : x = U * n
  OBVIOUS
<1>5. ceilRat(x, d) \in Int
  BY DEF ceilRat, Quo
<1>6. WithMarkup(U, mk) \in Int
  BY <1>3, <1>4, <1>5 DEF WithMarkup
<1> QED
  BY <1>2, <1>6 DEF CostMicroUSDC

(***************************************************************************)
(* The relay                                                               *)
(***************************************************************************)

\* The states of a response.
LEMMA RespStates ==
  ASSUME NEW x \in RespState
  PROVE  /\ x.pc \in {"none", "pricing", "staged", "delivered"}
         /\ x.pc # "none" => x.name \in Names /\ x.usage \in Counts /\ x.markup \in Fractions
                               /\ x.markup \in Markups
         /\ x.pc \in {"staged", "delivered"} =>
              /\ x.cost \in Int /\ x.due \in Amounts(Nat) /\ x.price \in Amounts(Int)
              /\ x.calm \in BOOLEAN
<1>1. Markups \subseteq Fractions
  BY PricedAssumption DEF Fractions
<1>2. CASE x = NoResp
  BY <1>2 DEF NoResp
<1>3. CASE x \in [pc : {"pricing"}, name : Names, usage : Counts, markup : Markups]
  BY <1>1, <1>3
<1>4. CASE x \in [pc : {"staged"}, name : Names, usage : Counts, markup : Markups,
                  cost : Int, price : Amounts(Int), due : Amounts(Nat), calm : BOOLEAN]
  BY <1>1, <1>4
<1>5. CASE x \in [pc : {"delivered"}, name : Names, usage : Counts, markup : Markups,
                  cost : Int, price : Amounts(Int), due : Amounts(Nat), calm : BOOLEAN,
                  headers : [input : Int, cached : Int, output : Int, price : Amounts(Int)]]
  BY <1>1, <1>5
<1> QED
  BY <1>2, <1>3, <1>4, <1>5 DEF RespState

\* Every step of the relay is a step of the administration or leaves it alone.
LEMMA PricedStep == [PricedNext]_pricedVars => [Next]_vars
  BY DEF PricedNext, pricedVars, vars, Administer, Drop, Next, Arrive, Quote, Deliver

\* A step that touches one response and no price.
LEMMA OneResp ==
  ASSUME PricedInv, UNCHANGED vars, NEW r \in Resps, NEW x \in RespState,
         resp' = [resp EXCEPT ![r] = x], RespOK(r)'
  PROVE  PricedInv'
<1>1. resp' \in [Resps -> RespState]
  BY DEF PricedInv
<1>2. PriceInv'
  BY PriceStep DEF PricedInv
<1>3. ASSUME NEW s \in Resps PROVE RespOK(s)'
  <2>1. CASE s # r
    <3>1. resp'[s] = resp[s] /\ up' = up /\ RespOK(s)
      BY <2>1 DEF PricedInv, vars
    <3> QED
      BY <3>1 DEF RespOK
  <2> QED
    BY <2>1
<1> QED
  BY <1>1, <1>2, <1>3 DEF PricedInv

\* A step of the administration that ends nothing.
LEMMA AdministerKeeps ==
  ASSUME PricedInv, [Next]_vars, UNCHANGED resp, up => up'
  PROVE  PricedInv'
<1>1. PriceInv'
  BY PriceStep DEF PricedInv
<1>2. ASSUME NEW r \in Resps PROVE RespOK(r)'
  BY DEF PricedInv, RespOK
<1> QED
  BY <1>1, <1>2 DEF PricedInv

\* PricedInv is inductive.
LEMMA NextPriced == PricedInv /\ [PricedNext]_pricedVars => PricedInv'
<1> SUFFICES ASSUME PricedInv, [PricedNext]_pricedVars PROVE PricedInv'
  OBVIOUS
<1>0. /\ PriceInv
      /\ resp \in [Resps -> RespState]
      /\ \A r \in Resps : RespOK(r)
      /\ markup \in Markups
      /\ modelPrices \in Rows
  BY DEF PricedInv, PriceInv, TypeOK
<1>1. CASE Administer
  <2>1. up => up'
    BY <1>1 DEF Administer, PriceRequest, SavePrice, DeletePrice, ResetPrices, WriteFails, Write,
                Reload, List, ListFails, Replace, MarkupRequest, SaveSettings, SetSetting,
                SetSettingFails, Start
  <2>2. resp' = resp
    BY <1>1 DEF Administer
  <2> QED
    BY <2>1, <2>2, PricedStep, AdministerKeeps
<1>2. CASE Drop
  <2>1. PriceInv'
    BY <1>0, PricedStep, PriceStep
  <2>2. resp' = [r \in Resps |-> IF resp[r].pc = "delivered" THEN resp[r] ELSE NoResp]
    BY <1>2 DEF Drop
  <2>3. NoResp \in RespState
    BY DEF RespState
  <2>4. resp' \in [Resps -> RespState]
    BY <1>0, <2>2, <2>3
  <2>5. ASSUME NEW r \in Resps PROVE RespOK(r)'
    <3>1. CASE resp[r].pc = "delivered"
      <4>1. resp'[r] = resp[r]
        BY <2>2, <3>1
      <4> QED
        BY <1>0, <3>1, <4>1 DEF RespOK
    <3>2. CASE resp[r].pc # "delivered"
      <4>1. resp'[r] = NoResp
        BY <2>2, <3>2
      <4> QED
        BY <4>1 DEF RespOK, NoResp
    <3> QED
      BY <3>1, <3>2
  <2> QED
    BY <2>1, <2>4, <2>5 DEF PricedInv
<1>3. ASSUME NEW r \in Resps, NEW name \in Names, NEW report \in Reports,
             Arrive(r, name, report)
      PROVE  PricedInv'
  <2> DEFINE x == [pc |-> "pricing", name |-> name, usage |-> extractUsage(report),
                   markup |-> markup]
  <2>1. extractUsage(report) \in Counts
    BY PricedAssumption DEF Counts
  <2>2. x \in RespState /\ x.pc = "pricing"
    BY <1>0, <2>1 DEF RespState
  <2>3. up /\ resp' = [resp EXCEPT ![r] = x] /\ UNCHANGED vars
    BY <1>3 DEF Arrive
  <2> HIDE DEF x
  <2>4. resp'[r] = x /\ up'
    BY <1>0, <2>3 DEF vars
  <2>5. RespOK(r)'
    BY <2>2, <2>4 DEF RespOK
  <2> QED
    BY <2>2, <2>3, <2>5, OneResp
<1>4. ASSUME NEW r \in Resps, Quote(r) PROVE PricedInv'
  <2>1. PICK p \in Found(resp[r].name) :
          resp' = [resp EXCEPT ![r] =
                      [pc |-> "staged", name |-> resp[r].name,
                       usage |-> resp[r].usage, markup |-> resp[r].markup,
                       cost |-> CostMicroUSDC(p, resp[r].usage, resp[r].markup),
                       price |-> p, due |-> Due(resp[r].name), calm |-> Calm]]
    BY <1>4 DEF Quote
  <2>2. /\ resp[r].pc = "pricing" /\ UNCHANGED vars
    BY <1>4 DEF Quote
  <2>3. up
    BY <1>0, <2>2 DEF RespOK
  <2>4. PICK name \in Names, u \in Counts, mk \in Fractions :
          /\ name = resp[r].name /\ u = resp[r].usage /\ mk = resp[r].markup
          /\ mk \in Markups
    BY <1>0, <2>2, RespStates
  <2>5. PICK due \in Amounts(Nat), calm \in BOOLEAN, cost \in Int :
          due = Due(name) /\ calm = Calm /\ cost = CostMicroUSDC(p, u, mk)
    <3>1. p \in Amounts(Int)
      BY <1>0, <2>3, <2>4, FoundDue
    <3> QED
      BY <1>0, <3>1, DueIsBest, CostInt DEF Calm
  <2>6. p \in Amounts(Int) /\ (calm /\ Fits(due) => p = due)
    BY <1>0, <2>1, <2>3, <2>4, <2>5, FoundDue
  <2> DEFINE x == [pc |-> "staged", name |-> name, usage |-> u, markup |-> mk,
                   cost |-> cost, price |-> p, due |-> due, calm |-> calm]
  <2>7. x \in RespState
    BY <2>4, <2>6 DEF RespState
  <2>8. resp' = [resp EXCEPT ![r] = x]
    BY <2>1, <2>4, <2>5
  <2>9. x.pc = "staged" /\ x.calm = calm /\ x.due = due /\ x.price = p /\ x.cost = cost
          /\ x.usage = u /\ x.markup = mk
    OBVIOUS
  <2> HIDE DEF x
  <2>10. resp'[r] = x /\ up'
    BY <1>0, <2>2, <2>3, <2>8 DEF vars
  <2>11. RespOK(r)'
    BY <2>5, <2>6, <2>9, <2>10 DEF RespOK
  <2> QED
    BY <2>2, <2>7, <2>8, <2>11, OneResp
<1>5. ASSUME NEW r \in Resps, Deliver(r) PROVE PricedInv'
  <2>1. PICK p \in Found(resp[r].name) :
          resp' = [resp EXCEPT ![r] =
                      [pc |-> "delivered", name |-> resp[r].name,
                       usage |-> resp[r].usage, markup |-> resp[r].markup,
                       cost |-> resp[r].cost, price |-> p,
                       due |-> Due(resp[r].name),
                       calm |-> resp[r].calm /\ Calm /\ resp[r].due = Due(resp[r].name),
                       headers |-> receipt(resp[r].usage, p)]]
    BY <1>5 DEF Deliver
  <2>2. resp[r].pc = "staged" /\ UNCHANGED vars
    BY <1>5 DEF Deliver
  <2>3. up
    BY <1>0, <2>2 DEF RespOK
  <2>4. PICK name \in Names, u \in Counts, mk \in Fractions, cost \in Int :
          /\ name = resp[r].name /\ u = resp[r].usage /\ mk = resp[r].markup
          /\ mk \in Markups /\ cost = resp[r].cost
    BY <1>0, <2>2, RespStates
  <2>5. PICK due \in Amounts(Nat), calm \in BOOLEAN :
          due = Due(name) /\ calm = (resp[r].calm /\ Calm /\ resp[r].due = Due(name))
    BY <1>0, DueIsBest
  <2>6. p \in Amounts(Int) /\ (calm /\ Fits(due) => p = due)
    BY <1>0, <2>1, <2>3, <2>4, <2>5, FoundDue
  <2>7. calm /\ Fits(due) => cost = CostMicroUSDC(due, u, mk)
    BY <1>0, <2>2, <2>4, <2>5 DEF RespOK
  <2>8. receipt(u, p) \in [input : Int, cached : Int, output : Int, price : Amounts(Int)]
    <3>1. u.prompt \in Int /\ u.cached \in Int /\ u.completion \in Int
      BY DEF Counts
    <3>2. NonNegative(u.prompt - u.cached) \in Int
      BY <3>1 DEF NonNegative
    <3> QED
      BY <2>6, <3>1, <3>2 DEF receipt
  <2> DEFINE x == [pc |-> "delivered", name |-> name, usage |-> u, markup |-> mk,
                   cost |-> cost, price |-> p, due |-> due, calm |-> calm,
                   headers |-> receipt(u, p)]
  <2>9. x \in RespState
    BY <2>4, <2>6, <2>8 DEF RespState
  <2>10. resp' = [resp EXCEPT ![r] = x]
    BY <2>1, <2>4, <2>5
  <2>11. x.pc = "delivered" /\ x.calm = calm /\ x.due = due /\ x.price = p /\ x.cost = cost
           /\ x.usage = u /\ x.markup = mk /\ x.headers = receipt(u, p)
    OBVIOUS
  <2> HIDE DEF x
  <2>12. resp'[r] = x
    BY <1>0, <2>10
  <2>13. RespOK(r)'
    BY <2>6, <2>7, <2>11, <2>12 DEF RespOK
  <2> QED
    BY <2>2, <2>9, <2>10, <2>13, OneResp
<1>6. CASE UNCHANGED pricedVars
  <2>1. UNCHANGED vars /\ UNCHANGED resp /\ (up => up')
    BY <1>6 DEF pricedVars, vars
  <2> QED
    BY <2>1, AdministerKeeps
<1> QED
  BY <1>1, <1>2, <1>3, <1>4, <1>5, <1>6 DEF PricedNext

\* PricedInv holds in every state: what a response is charged and shown is the
\* configured price wherever the operator knows what that is.
THEOREM PricedInvHolds == PricedSpec => []PricedInv
<1>1. PricedInit => PricedInv
  <2> SUFFICES ASSUME PricedInit PROVE PricedInv
    OBVIOUS
  <2>1. PriceInv
    BY PriceInit DEF PricedInit
  <2>2. resp = [r \in Resps |-> NoResp] /\ NoResp \in RespState
    BY DEF PricedInit, RespState
  <2>3. ASSUME NEW r \in Resps PROVE RespOK(r)
    <3>1. resp[r].pc = "none"
      BY <2>2 DEF NoResp
    <3> QED
      BY <3>1 DEF RespOK
  <2> QED
    BY <2>1, <2>2, <2>3 DEF PricedInv
<1> QED
  BY <1>1, NextPriced, PTL DEF PricedSpec

\* Every response is priced, and its headers filled in, with the row of its
\* model or else of its longest prefix in the database, for every order of the
\* map and of the sort and every history of requests, failures and restarts.
THEOREM PricesAreTheConfigured == PricedSpec => []PricedAsConfigured
<1>1. PricedInv => PricedAsConfigured
  BY DEF PricedInv, RespOK, PricedAsConfigured, Quoted
<1> QED
  BY <1>1, PricedInvHolds, PTL

\* README's formula on the headers of a paid response gives its cost, for
\* every usage, price and markup.
THEOREM ReceiptsExplain == PricedSpec => []ReceiptExplainsCost
<1>1. ASSUME PricedInv, NEW r \in Quoted, resp[r].pc = "delivered", resp[r].calm,
             Fits(resp[r].due), resp[r].usage.cached \in 0..resp[r].usage.prompt,
             resp[r].usage.completion >= 0
      PROVE  \/ resp[r].cost = Formula(resp[r].headers, resp[r].markup)
             \/ resp[r].cost = 1 /\ Formula(resp[r].headers, resp[r].markup) = 0
  <2>1. resp[r] \in RespState /\ RespOK(r)
    BY <1>1 DEF PricedInv, Quoted
  <2>2. PICK due \in Amounts(Nat), u \in Counts, mk \in Fractions :
          due = resp[r].due /\ u = resp[r].usage /\ mk = resp[r].markup
    BY <1>1, <2>1, RespStates
  <2>3. /\ resp[r].cost = CostMicroUSDC(due, u, mk)
        /\ resp[r].headers = receipt(u, due)
    BY <1>1, <2>1, <2>2 DEF RespOK
  <2>4. Formula(receipt(u, due), mk) = WithMarkup(Units(due, u), mk)
    BY <1>1, <2>2, FormulaIsCost
  <2> QED
    BY <2>2, <2>3, <2>4 DEF CostMicroUSDC
<1>2. PricedInv => ReceiptExplainsCost
  BY <1>1 DEF ReceiptExplainsCost
<1> QED
  BY <1>2, PricedInvHolds, PTL

\* A staged response is never quoted below its worth, and never above it by
\* more than the two roundings, for every usage, price and markup.
THEOREM QuotesAreTight == PricedSpec => []QuoteIsTight
<1>1. ASSUME PricedInv, NEW r \in Resps, resp[r].pc = "staged", resp[r].calm, Fits(resp[r].due)
      PROVE  LET mk == resp[r].markup
                 paid == resp[r].cost * Million * mk.den
                 worth == Value(r) * mk.num
             IN  /\ resp[r].usage.prompt > 0 \/ resp[r].usage.completion > 0 => resp[r].cost >= 1
                 /\ worth <= paid
                 /\ \/ resp[r].cost = 1
                    \/ paid < worth + Million * mk.num + Million * mk.den
  <2>1. resp[r] \in RespState /\ RespOK(r)
    BY <1>1 DEF PricedInv
  <2>2. PICK due \in Amounts(Nat), u \in Counts, mk \in Fractions :
          due = resp[r].due /\ u = resp[r].usage /\ mk = resp[r].markup
    BY <1>1, <2>1, RespStates
  <2>3. resp[r].cost = CostMicroUSDC(due, u, mk)
    BY <1>1, <2>1, <2>2 DEF RespOK
  <2>4. Value(r) = Worth(due, u)
    <3> DEFINE count(n) == IF n < 0 THEN 0 ELSE n
               p == count(u.prompt)
               c == IF u.cached < p THEN count(u.cached) ELSE p
    <3>1. u.prompt \in Int /\ u.cached \in Int /\ u.completion \in Int
      BY DEF Counts
    <3>2. /\ p = NonNegative(u.prompt)
          /\ c = Cached(u)
          /\ count(u.completion) = NonNegative(u.completion)
      BY <3>1 DEF NonNegative, Cached, AtMost
    <3>3. Value(r) = (p - c) * due.input + c * due.cached + count(u.completion) * due.output
      BY <2>2 DEF Value
    <3> HIDE DEF p, c, count
    <3> QED
      BY <3>2, <3>3 DEF Worth
  <2> QED
    BY <2>2, <2>3, <2>4, CostBounds
<1>2. PricedInv => QuoteIsTight
  BY <1>1 DEF QuoteIsTight
<1> QED
  BY <1>2, PricedInvHolds, PTL

\* Of two responses that are priced as configured, the one that used no more
\* tokens, at prices and a markup no higher, is charged no more, whatever the
\* two roundings and the least of one unit do to either (pricing.go 250-275).
QuoteIsMonotone ==
    \A r, s \in {x \in Quoted : resp[x].calm /\ Fits(resp[x].due)} :
        /\ NoDearer(resp[r].due, resp[s].due)
        /\ NoMore(resp[r].usage, resp[s].usage)
        /\ NoHigher(resp[r].markup, resp[s].markup)
        => resp[r].cost <= resp[s].cost

\* Who uses more never pays less: for every usage, price and markup, and every
\* history of requests, failures and restarts.
THEOREM QuotesAreMonotone == PricedSpec => []QuoteIsMonotone
<1>1. ASSUME PricedInv, NEW r \in Quoted, resp[r].calm, Fits(resp[r].due)
      PROVE  \E due \in Amounts(Nat), u \in Counts, mk \in Fractions :
               /\ due = resp[r].due /\ u = resp[r].usage /\ mk = resp[r].markup
               /\ resp[r].cost = CostMicroUSDC(due, u, mk)
  <2>1. resp[r] \in RespState /\ RespOK(r) /\ resp[r].pc \in {"staged", "delivered"}
    BY <1>1 DEF PricedInv, Quoted
  <2>2. /\ resp[r].due \in Amounts(Nat) /\ resp[r].usage \in Counts
        /\ resp[r].markup \in Fractions
    BY <2>1, RespStates
  <2>3. resp[r].cost = CostMicroUSDC(resp[r].due, resp[r].usage, resp[r].markup)
    BY <1>1, <2>1 DEF RespOK
  <2> QED
    BY <2>2, <2>3
<1>2. ASSUME PricedInv,
             NEW r \in Quoted, resp[r].calm, Fits(resp[r].due),
             NEW s \in Quoted, resp[s].calm, Fits(resp[s].due),
             NoDearer(resp[r].due, resp[s].due),
             NoMore(resp[r].usage, resp[s].usage),
             NoHigher(resp[r].markup, resp[s].markup)
      PROVE  resp[r].cost <= resp[s].cost
  <2>1. PICK p \in Amounts(Nat), u \in Counts, mk \in Fractions :
          /\ p = resp[r].due /\ u = resp[r].usage /\ mk = resp[r].markup
          /\ resp[r].cost = CostMicroUSDC(p, u, mk)
    BY <1>1, <1>2
  <2>2. PICK q \in Amounts(Nat), v \in Counts, nk \in Fractions :
          /\ q = resp[s].due /\ v = resp[s].usage /\ nk = resp[s].markup
          /\ resp[s].cost = CostMicroUSDC(q, v, nk)
    BY <1>1, <1>2
  <2>3. NoDearer(p, q) /\ NoMore(u, v) /\ NoHigher(mk, nk)
    BY <1>2, <2>1, <2>2
  <2> QED
    BY <2>1, <2>2, <2>3, CostGrows
<1>3. PricedInv => QuoteIsMonotone
  BY <1>2 DEF QuoteIsMonotone
<1> QED
  BY <1>3, PricedInvHolds, PTL

\* The relay's readers do nothing to the prices that PriceAdmin alone would
\* not: with responses being priced and delivered in between, the prices still
\* behave as specified there (relay.go 140 and 224 only read).
THEOREM PricedKeepsPrices == PricedSpec => Spec
<1>1. PricedInit => Init
  BY DEF PricedInit
<1> QED
  BY <1>1, PricedStep, PTL DEF PricedSpec, Spec
=============================================================================
