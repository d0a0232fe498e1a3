--------------------------- MODULE SequenceLemmas ---------------------------
(***************************************************************************)
(* Facts about the operators of Totals, for every sequence and every       *)
(* finite set: running totals, totals of weights, sums.  What is recursive *)
(* is proved by induction over its domain (SetInduction), which comes from *)
(* the least element of a set of naturals.                                 *)
(***************************************************************************)
EXTENDS Totals, WellFoundedInduction, TLAPS

(* A non-empty set of naturals has a least element. *)
LEMMA LeastNatural ==
  ASSUME NEW T \in SUBSET Nat, T # {}
  PROVE  \E n \in T : \A m \in T : n <= m
<1>1. PICK n \in T : \A m \in T : ~ (<<m, n>> \in OpToRel(<, Nat))
  BY NatLessThanWellFounded, WFMin, Zenon
<1>2. \A m \in T : ~ (m < n)
  BY <1>1, Zenon DEF OpToRel
<1> QED BY <1>2

(* Induction up to N for a claim given as the set G of the numbers it holds *)
(* for: otherwise there would be a least number outside G.                  *)
LEMMA SetInduction ==
  ASSUME NEW N \in Nat, NEW G,
         0 \in G,
         \A n \in 0..(N - 1) : n \in G => n + 1 \in G
  PROVE  0..N \subseteq G
<1> DEFINE Bad == (0..N) \ G
<1> SUFFICES ASSUME Bad # {} PROVE FALSE
  OBVIOUS
<1>1. PICK n \in Bad : \A m \in Bad : n <= m
  <2>1. Bad \in SUBSET Nat
    OBVIOUS
  <2> HIDE DEF Bad
  <2> QED BY <2>1, LeastNatural
<1>2. n # 0 /\ n - 1 \in 0..(N - 1) /\ n - 1 \notin Bad
  BY <1>1
<1>3. n - 1 \in G
  BY <1>2
<1>4. (n - 1) + 1 \in G
  BY <1>2, <1>3
<1> QED BY <1>4

-----------------------------------------------------------------------------
(* Two sequences of the same length with the same elements are equal. *)
LEMMA SameSequence ==
  ASSUME NEW F, NEW G, NEW q \in Seq(F), NEW r \in Seq(G), Len(q) = Len(r),
         \A i \in 1..Len(q) : q[i] = r[i]
  PROVE  q = r
OBVIOUS

(* A weight for every element of a sequence. *)
Weights(w, q) == [i \in 1..Len(q) |-> w[q[i]]]

(* There is a weight for every element. *)
LEMMA WeightsShape ==
  ASSUME NEW F, NEW w \in [F -> Nat], NEW q \in Seq(F)
  PROVE  /\ Weights(w, q) \in Seq(Nat) /\ Len(Weights(w, q)) = Len(q)
         /\ \A i \in 1..Len(q) : Weights(w, q)[i] = w[q[i]]
BY DEF Weights

(* The weights of a longer sequence. *)
LEMMA WeightsAppend ==
  ASSUME NEW F, NEW w \in [F -> Nat], NEW q \in Seq(F), NEW f \in F
  PROVE  Weights(w, Append(q, f)) = Append(Weights(w, q), w[f])
<1> DEFINE t == Append(q, f)
           l == Weights(w, t)
           p == Weights(w, q)
           r == Append(p, w[f])
<1>1. /\ t \in Seq(F) /\ Len(t) = Len(q) + 1 /\ Len(q) \in Nat
      /\ \A i \in 1..Len(q) : t[i] = q[i]
      /\ t[Len(q) + 1] = f
  OBVIOUS
<1> HIDE DEF t
<1>2. /\ l \in Seq(Nat) /\ Len(l) = Len(q) + 1
      /\ \A i \in 1..(Len(q) + 1) : l[i] = w[t[i]]
  <2>1. /\ l \in Seq(Nat) /\ Len(l) = Len(t)
        /\ \A i \in 1..Len(t) : l[i] = w[t[i]]
    BY <1>1, WeightsShape
  <2> QED BY <2>1, <1>1
<1>3. /\ p \in Seq(Nat) /\ Len(p) = Len(q)
      /\ \A i \in 1..Len(q) : p[i] = w[q[i]]
  BY WeightsShape
<1> HIDE DEF l, p
<1>4. /\ r \in Seq(Nat) /\ Len(r) = Len(q) + 1
      /\ \A i \in 1..Len(q) : r[i] = w[q[i]]
      /\ r[Len(q) + 1] = w[f]
  BY <1>3
<1> HIDE DEF r
<1>5. \A i \in 1..Len(l) : l[i] = r[i]
  <2> TAKE i \in 1..Len(l)
  <2>1. CASE i \in 1..Len(q)
    BY <2>1, <1>1, <1>2, <1>4, ZenonT(30)
  <2>2. CASE i = Len(q) + 1
    BY <2>2, <1>1, <1>2, <1>4
  <2> QED BY <2>1, <2>2, <1>1, <1>2
<1>6. l = r
  BY <1>2, <1>4, <1>5, SameSequence
<1> QED BY <1>6 DEF l, p, r, t

(* The weights of a sequence without its first element. *)
LEMMA WeightsTail ==
  ASSUME NEW F, NEW w \in [F -> Nat], NEW q \in Seq(F), q # <<>>
  PROVE  Weights(w, Tail(q)) = Tail(Weights(w, q))
<1> DEFINE t == Tail(q)
           l == Weights(w, t)
           p == Weights(w, q)
           r == Tail(p)
<1>1. /\ t \in Seq(F) /\ Len(t) = Len(q) - 1 /\ Len(q) \in Nat \ {0}
      /\ \A i \in 1..(Len(q) - 1) : t[i] = q[i + 1]
  OBVIOUS
<1> HIDE DEF t
<1>2. /\ l \in Seq(Nat) /\ Len(l) = Len(q) - 1
      /\ \A i \in 1..(Len(q) - 1) : l[i] = w[q[i + 1]]
  <2>1. /\ l \in Seq(Nat) /\ Len(l) = Len(t)
        /\ \A i \in 1..Len(t) : l[i] = w[t[i]]
    BY <1>1 DEF Weights
  <2> HIDE DEF l, p, r
  <2> QED BY <2>1, <1>1
<1>3. /\ p \in Seq(Nat) /\ Len(p) = Len(q)
      /\ \A i \in 1..Len(q) : p[i] = w[q[i]]
  BY WeightsShape
<1> HIDE DEF l, p
<1>4. /\ r \in Seq(Nat) /\ Len(r) = Len(q) - 1
      /\ \A i \in 1..(Len(q) - 1) : r[i] = p[i + 1]
  BY <1>1, <1>3
<1> HIDE DEF r
<1>5. \A i \in 1..Len(l) : l[i] = r[i]
  <2> TAKE i \in 1..Len(l)
  <2>1. i \in 1..(Len(q) - 1) /\ i + 1 \in 1..Len(q)
    BY <1>1, <1>2
  <2> QED BY <2>1, <1>2, <1>3, <1>4, Zenon
<1>6. l = r
  BY <1>2, <1>4, <1>5, SameSequence, Zenon
<1> QED BY <1>6 DEF l, p, r, t

-----------------------------------------------------------------------------
(* What defines the running totals of q. *)
IsPartial(q, f) == f = [i \in 0..Len(q) |-> IF i = 0 THEN 0 ELSE f[i - 1] + q[i]]

(* A function of running totals exists, by induction on its domain. *)
LEMMA PartialExists ==
  ASSUME NEW q \in Seq(Int)
  PROVE  \E f : IsPartial(q, f)
<1> DEFINE Upto(n, f) == f = [i \in 0..n |-> IF i = 0 THEN 0 ELSE f[i - 1] + q[i]]
           G == {n \in 0..Len(q) : \E f : Upto(n, f)}
<1>1. 0 \in G
  <2> DEFINE f0 == [i \in 0..0 |-> 0]
  <2>1. Upto(0, f0)
    OBVIOUS
  <2>2. 0 \in 0..Len(q)
    OBVIOUS
  <2> HIDE DEF Upto
  <2> QED BY <2>1, <2>2, Zenon
<1>2. ASSUME NEW n \in 0..(Len(q) - 1), n \in G PROVE n + 1 \in G
  <2>1. PICK f : Upto(n, f)
    BY <1>2
  <2> DEFINE g == [i \in 0..(n + 1) |-> IF i = n + 1 THEN f[n] + q[n + 1] ELSE f[i]]
  <2>2. Upto(n + 1, g)
    BY <2>1
  <2>3. n + 1 \in 0..Len(q)
    OBVIOUS
  <2> HIDE DEF Upto
  <2> QED BY <2>2, <2>3, Zenon
<1>3. Len(q) \in G
  <2>1. Len(q) \in Nat /\ Len(q) \in 0..Len(q)
    OBVIOUS
  <2> HIDE DEF G
  <2>2. 0..Len(q) \subseteq G
    BY <1>1, <1>2, <2>1, SetInduction, Zenon
  <2> QED BY <2>1, <2>2
<1> QED BY <1>3 DEF IsPartial

(* The recursion of Partial is well-founded. *)
LEMMA PartialDef ==
  ASSUME NEW q \in Seq(Int)
  PROVE  IsPartial(q, Partial(q))
<1>1. Partial(q) = CHOOSE f : IsPartial(q, f)
  BY DEF Partial, IsPartial
<1> QED BY <1>1, PartialExists, Zenon

(* It is the only one. *)
LEMMA PartialUnique ==
  ASSUME NEW q \in Seq(Int), NEW f, IsPartial(q, f)
  PROVE  f = Partial(q)
<1> DEFINE g == Partial(q)
<1>1. IsPartial(q, g)
  BY PartialDef
<1> HIDE DEF g
<1> DEFINE G == {n \in 0..Len(q) : f[n] = g[n]}
<1>2. 0..Len(q) \subseteq G
  <2>1. 0 \in G
    BY <1>1 DEF IsPartial
  <2>2. ASSUME NEW n \in 0..(Len(q) - 1), n \in G PROVE n + 1 \in G
    BY <1>1, <2>2 DEF IsPartial
  <2>3. Len(q) \in Nat
    OBVIOUS
  <2> HIDE DEF G
  <2> QED BY <2>1, <2>2, <2>3, SetInduction, Zenon
<1>3. DOMAIN f = 0..Len(q) /\ DOMAIN g = 0..Len(q)
  BY <1>1 DEF IsPartial
<1>4. f = [n \in 0..Len(q) |-> f[n]] /\ g = [n \in 0..Len(q) |-> g[n]]
  BY <1>1 DEF IsPartial
<1>5. f = g
  BY <1>2, <1>4
<1> QED BY <1>5 DEF g

(* The running totals as facts about single entries. *)
LEMMA PartialEntries ==
  ASSUME NEW q \in Seq(Int)
  PROVE  /\ Partial(q)[0] = 0
         /\ \A i \in 1..Len(q) : Partial(q)[i] = Partial(q)[i - 1] + q[i]
<1> DEFINE g == Partial(q)
<1>1. IsPartial(q, g)
  BY PartialDef
<1> HIDE DEF g
<1> DEFINE h == [i \in 0..Len(q) |-> IF i = 0 THEN 0 ELSE g[i - 1] + q[i]]
<1>2. g = h
  BY <1>1 DEF IsPartial
<1>3. /\ h[0] = 0
      /\ \A i \in 1..Len(q) : h[i] = g[i - 1] + q[i]
  OBVIOUS
<1> HIDE DEF h
<1> QED BY <1>2, <1>3 DEF g

(* To know the running totals it suffices to satisfy the recursion. *)
LEMMA PartialIs ==
  ASSUME NEW q \in Seq(Int), NEW f,
         f = [i \in 0..Len(q) |-> f[i]],
         f[0] = 0,
         \A i \in 1..Len(q) : f[i] = f[i - 1] + q[i]
  PROVE  Partial(q) = f
<1> DEFINE h == [i \in 0..Len(q) |-> IF i = 0 THEN 0 ELSE f[i - 1] + q[i]]
<1>1. ASSUME NEW i \in 0..Len(q) PROVE f[i] = h[i]
  <2>1. h[i] = IF i = 0 THEN 0 ELSE f[i - 1] + q[i]
    BY Zenon
  <2> HIDE DEF h
  <2>2. CASE i = 0
    BY <2>1, <2>2, Zenon
  <2>3. CASE i # 0
    <3>1. i \in 1..Len(q)
      BY <2>3
    <3> QED BY <2>1, <2>3, <3>1, Zenon
  <2> QED BY <2>2, <2>3
<1>2. f = h
  <2>1. h = [i \in 0..Len(q) |-> h[i]]
    OBVIOUS
  <2> HIDE DEF h
  <2> QED BY <1>1, <2>1
<1>3. IsPartial(q, f)
  BY <1>2, Zenon DEF IsPartial
<1> QED BY <1>3, PartialUnique, Zenon

(* Running totals of integers are integers. *)
LEMMA PartialType ==
  ASSUME NEW q \in Seq(Int)
  PROVE  Partial(q) \in [0..Len(q) -> Int]
<1> DEFINE g == Partial(q)
           G == {n \in 0..Len(q) : g[n] \in Int}
<1>1. IsPartial(q, g)
  BY PartialDef
<1> HIDE DEF g
<1>2. 0..Len(q) \subseteq G
  <2>1. 0 \in G
    BY <1>1 DEF IsPartial
  <2>2. ASSUME NEW n \in 0..(Len(q) - 1), n \in G PROVE n + 1 \in G
    BY <1>1, <2>2 DEF IsPartial
  <2>3. Len(q) \in Nat
    OBVIOUS
  <2> HIDE DEF G
  <2> QED BY <2>1, <2>2, <2>3, SetInduction, Zenon
<1>3. g = [n \in 0..Len(q) |-> g[n]]
  BY <1>1 DEF IsPartial
<1>4. g \in [0..Len(q) -> Int]
  BY <1>2, <1>3
<1> QED BY <1>4 DEF g

(* Appending an element leaves the running totals and adds one. *)
LEMMA PartialAppend ==
  ASSUME NEW q \in Seq(Int), NEW x \in Int
  PROVE  Partial(Append(q, x)) = [i \in 0..(Len(q) + 1) |->
             IF i <= Len(q) THEN Partial(q)[i] ELSE Partial(q)[Len(q)] + x]
<1> DEFINE r == Append(q, x)
           g == Partial(q)
           f == [i \in 0..(Len(q) + 1) |->
                    IF i <= Len(q) THEN g[i] ELSE g[Len(q)] + x]
<1>1. /\ r \in Seq(Int) /\ Len(r) = Len(q) + 1
      /\ \A i \in 1..Len(q) : r[i] = q[i]
      /\ r[Len(q) + 1] = x
  OBVIOUS
<1>2. g[0] = 0 /\ \A i \in 1..Len(q) : g[i] = g[i - 1] + q[i]
  BY PartialEntries
<1> HIDE DEF g, r
<1>3. \A i \in 1..Len(r) : f[i] = f[i - 1] + r[i]
  BY <1>1, <1>2
<1>4. f[0] = 0 /\ f = [i \in 0..Len(r) |-> f[i]]
  BY <1>1, <1>2
<1> HIDE DEF f
<1>5. Partial(r) = f
  BY <1>1, <1>3, <1>4, PartialIs, Zenon
<1> QED BY <1>5 DEF f, g, r

(* Dropping the first element lowers all the running totals by it. *)
LEMMA PartialTail ==
  ASSUME NEW q \in Seq(Int), q # <<>>
  PROVE  Partial(Tail(q)) = [i \in 0..(Len(q) - 1) |-> Partial(q)[i + 1] - q[1]]
<1> DEFINE r == Tail(q)
           g == Partial(q)
           f == [i \in 0..(Len(q) - 1) |-> g[i + 1] - q[1]]
<1>1. /\ r \in Seq(Int) /\ Len(r) = Len(q) - 1 /\ Len(q) \in Nat \ {0}
      /\ \A i \in 1..Len(r) : r[i] = q[i + 1]
      /\ \A i \in 1..Len(q) : q[i] \in Int
  OBVIOUS
<1>2. g[0] = 0 /\ \A i \in 1..Len(q) : g[i] = g[i - 1] + q[i]
  BY PartialEntries
<1>3. \A i \in 0..Len(q) : g[i] \in Int
  BY PartialType
<1> HIDE DEF g, r
<1>4. ASSUME NEW i \in 1..Len(r) PROVE f[i] = f[i - 1] + r[i]
  <2>1. g[i + 1] = g[i] + q[i + 1] /\ r[i] = q[i + 1]
    BY <1>1, <1>2
  <2>2. {g[i], q[i + 1], q[1]} \subseteq Int
    BY <1>1, <1>3
  <2>3. f[i] = g[i + 1] - q[1] /\ f[i - 1] = g[i] - q[1]
    BY <1>1
  <2> HIDE DEF f
  <2> QED BY <2>1, <2>2, <2>3
<1>5. f[0] = 0 /\ f = [i \in 0..Len(r) |-> f[i]]
  BY <1>1, <1>2
<1> HIDE DEF f
<1>6. Partial(r) = f
  BY <1>1, <1>4, <1>5, PartialIs, Zenon
<1> QED BY <1>6 DEF f, g, r

-----------------------------------------------------------------------------
(* The same for totals. *)
LEMMA TotalType ==
  ASSUME NEW q \in Seq(Int)
  PROVE  Total(q) \in Int
BY PartialType DEF Total

(* Nothing adds up to 0. *)
LEMMA TotalEmpty == Total(<<>>) = 0
<1>1. <<>> \in Seq(Int) /\ Len(<<>>) = 0
  OBVIOUS
<1> QED BY <1>1, PartialEntries, Zenon DEF Total

(* An element added at the end adds itself to the total. *)
LEMMA TotalAppend ==
  ASSUME NEW q \in Seq(Int), NEW x \in Int
  PROVE  Total(Append(q, x)) = Total(q) + x
<1>1. Len(Append(q, x)) = Len(q) + 1 /\ Len(q) \in Nat
  OBVIOUS
<1> QED BY <1>1, PartialAppend DEF Total

(* The total is the first element and the total of the others. *)
LEMMA TotalTail ==
  ASSUME NEW q \in Seq(Int), q # <<>>
  PROVE  Total(q) = q[1] + Total(Tail(q))
<1>1. Len(Tail(q)) = Len(q) - 1 /\ Len(q) \in Nat \ {0} /\ q[1] \in Int
  OBVIOUS
<1>2. Partial(Tail(q))[Len(q) - 1] = Partial(q)[(Len(q) - 1) + 1] - q[1]
  BY <1>1, PartialTail
<1>3. Partial(q)[Len(q)] \in Int /\ (Len(q) - 1) + 1 = Len(q)
  BY <1>1, PartialType
<1> QED BY <1>1, <1>2, <1>3 DEF Total

(* The running totals of natural numbers are natural and never decrease. *)
LEMMA PartialNat ==
  ASSUME NEW q \in Seq(Nat)
  PROVE  /\ Partial(q) \in [0..Len(q) -> Nat]
         /\ \A i \in 0..Len(q) : Partial(q)[i] <= Total(q)
<1> DEFINE g == Partial(q)
<1>0. q \in Seq(Int)
  OBVIOUS
<1>1. g[0] = 0 /\ \A i \in 1..Len(q) : g[i] = g[i - 1] + q[i]
  BY <1>0, PartialEntries
<1>2. g = [i \in 0..Len(q) |-> g[i]] /\ Len(q) \in Nat
  BY <1>0, PartialType
<1> HIDE DEF g
<1> DEFINE G == {n \in 0..Len(q) : g[n] \in Nat}
           H == {n \in 0..Len(q) : \A i \in 0..n : g[i] <= g[n]}
<1>3. 0..Len(q) \subseteq G
  <2>1. 0 \in G
    BY <1>1, <1>2
  <2>2. ASSUME NEW n \in 0..(Len(q) - 1), n \in G PROVE n + 1 \in G
    <3>1. g[n + 1] = g[(n + 1) - 1] + q[n + 1] /\ q[n + 1] \in Nat
      BY <1>1
    <3> QED BY <2>2, <3>1
  <2> HIDE DEF G
  <2> QED BY <1>2, <2>1, <2>2, SetInduction, Zenon
<1>4. 0..Len(q) \subseteq H
  <2>1. 0 \in H
    BY <1>1, <1>2
  <2>2. ASSUME NEW n \in 0..(Len(q) - 1), n \in H PROVE n + 1 \in H
    <3>1. g[n + 1] = g[n] + q[n + 1] /\ q[n + 1] \in Nat /\ g[n] \in Nat
      <4>1. g[n + 1] = g[(n + 1) - 1] + q[n + 1] /\ q[n + 1] \in Nat
        BY <1>1
      <4> QED BY <4>1, <1>3
    <3>2. ASSUME NEW i \in 0..(n + 1) PROVE g[i] <= g[n + 1]
      <4>1. CASE i = n + 1
        BY <4>1, <3>1
      <4>2. CASE i \in 0..n
        <5>0. i \in 0..Len(q) /\ i \in G
          BY <4>2, <1>2, <1>3
        <5>1. g[i] <= g[n] /\ g[i] \in Nat
          BY <4>2, <2>2, <5>0
        <5> QED BY <5>1, <3>1
      <4> QED BY <4>1, <4>2
    <3> QED BY <3>2
  <2> HIDE DEF H
  <2> QED BY <1>2, <2>1, <2>2, SetInduction, Zenon
<1>5. g \in [0..Len(q) -> Nat]
  BY <1>2, <1>3
<1>6. \A i \in 0..Len(q) : g[i] <= g[Len(q)]
  BY <1>2, <1>4
<1> QED BY <1>5, <1>6 DEF g, Total

(* The total of natural numbers is one. *)
LEMMA TotalNat ==
  ASSUME NEW q \in Seq(Nat)
  PROVE  Total(q) \in Nat
BY PartialNat DEF Total

(* Changing one element changes the total by the difference. *)
LEMMA TotalChange ==
  ASSUME NEW q \in Seq(Int), NEW r \in Seq(Int), NEW k \in 1..Len(q),
         Len(r) = Len(q), \A i \in 1..Len(q) : i # k => r[i] = q[i]
  PROVE  Total(r) = (Total(q) - q[k]) + r[k]
<1> DEFINE g == Partial(q)
           d == r[k] - q[k]
           f == [i \in 0..Len(q) |-> IF i < k THEN g[i] ELSE g[i] + d]
<1>1. g[0] = 0 /\ \A i \in 1..Len(q) : g[i] = g[i - 1] + q[i]
  BY PartialEntries, Zenon
<1>2. \A i \in 0..Len(q) : g[i] \in Int
  BY PartialType
<1>3. \A i \in 1..Len(q) : q[i] \in Int /\ r[i] \in Int
  OBVIOUS
<1> HIDE DEF g
<1>4. \A i \in 1..Len(r) : f[i] = f[i - 1] + r[i]
  <2> TAKE i \in 1..Len(r)
  <2>1. g[i] = g[i - 1] + q[i] /\ {g[i - 1], q[i], r[i], d} \subseteq Int
    BY <1>1, <1>2, <1>3
  <2>2. CASE i < k
    BY <2>1, <2>2
  <2>3. CASE i = k
    BY <2>1, <2>3
  <2>4. CASE i > k
    BY <2>1, <2>4
  <2> QED BY <2>2, <2>3, <2>4
<1>5. f[0] = 0 /\ f = [i \in 0..Len(r) |-> f[i]]
  BY <1>1
<1>6. f[Len(q)] = g[Len(q)] + d
  OBVIOUS
<1> HIDE DEF f
<1>7. Partial(r) = f
  BY <1>4, <1>5, PartialIs, Zenon
<1>8. Total(r) = g[Len(q)] + d /\ Total(q) = g[Len(q)]
  BY <1>6, <1>7 DEF Total, g
<1>9. {g[Len(q)], q[k], r[k]} \subseteq Int
  BY <1>2, <1>3
<1> QED BY <1>8, <1>9

-----------------------------------------------------------------------------
(* Sums over a finite set. *)
LEMMA EnumerationLists ==
  ASSUME NEW S, Finite(S)
  PROVE  /\ Cardinality(S) \in Nat
         /\ Enumeration(S) \in [1..Cardinality(S) -> S]
         /\ \A i, j \in 1..Cardinality(S) :
               Enumeration(S)[i] = Enumeration(S)[j] => i = j
         /\ \A s \in S : \E i \in 1..Cardinality(S) : Enumeration(S)[i] = s
<1>1. Cardinality(S) \in Nat /\ Enumeration(S) \in Listings(S)
  BY Zenon DEF Finite, Enumeration
<1>2. /\ Enumeration(S) \in [1..Cardinality(S) -> S]
      /\ \A i, j \in DOMAIN Enumeration(S) :
            Enumeration(S)[i] = Enumeration(S)[j] => i = j
      /\ \A s \in S : \E i \in DOMAIN Enumeration(S) : Enumeration(S)[i] = s
  BY <1>1, Zenon DEF Listings
<1>3. DOMAIN Enumeration(S) = 1..Cardinality(S)
  BY <1>2, Zenon
<1> QED BY <1>1, <1>2, <1>3, Zenon

(* A sum of numbers is a number. *)
LEMMA SumOverType ==
  ASSUME NEW S, Finite(S)
  PROVE  /\ \A f \in [S -> Int] : SumOver(f, S) \in Int
         /\ \A f \in [S -> Nat] : SumOver(f, S) \in Nat
<1>1. Cardinality(S) \in Nat /\ Enumeration(S) \in [1..Cardinality(S) -> S]
  BY EnumerationLists
<1>2. ASSUME NEW f \in [S -> Int] PROVE SumOver(f, S) \in Int
  <2>1. [i \in 1..Cardinality(S) |-> f[Enumeration(S)[i]]] \in Seq(Int)
    BY <1>1
  <2> QED BY <2>1, TotalType DEF SumOver
<1>3. ASSUME NEW f \in [S -> Nat] PROVE SumOver(f, S) \in Nat
  <2>1. [i \in 1..Cardinality(S) |-> f[Enumeration(S)[i]]] \in Seq(Nat)
    BY <1>1
  <2> QED BY <2>1, TotalNat DEF SumOver
<1> QED BY <1>2, <1>3

(* A function changed at one element changes its sum by the difference. *)
LEMMA SumOverChange ==
  ASSUME NEW S, Finite(S), NEW f \in [S -> Int], NEW h \in [S -> Int],
         NEW s \in S, \A t \in S : t # s => h[t] = f[t]
  PROVE  SumOver(h, S) = (SumOver(f, S) - f[s]) + h[s]
<1> DEFINE N == Cardinality(S)
           e == Enumeration(S)
           q == [i \in 1..N |-> f[e[i]]]
           r == [i \in 1..N |-> h[e[i]]]
<1>1. /\ N \in Nat /\ e \in [1..N -> S]
      /\ \A i, j \in 1..N : e[i] = e[j] => i = j
      /\ \E i \in 1..N : e[i] = s
  BY EnumerationLists
<1> HIDE DEF N, e
<1>2. PICK k \in 1..N : e[k] = s
  BY <1>1
<1>3. /\ q \in Seq(Int) /\ r \in Seq(Int) /\ Len(q) = N /\ Len(r) = N
      /\ q[k] = f[s] /\ r[k] = h[s]
  BY <1>1, <1>2
<1>4. \A i \in 1..N : i # k => r[i] = q[i]
  BY <1>1, <1>2
<1>5. SumOver(f, S) = Total(q) /\ SumOver(h, S) = Total(r)
  BY DEF SumOver, N, e
<1> HIDE DEF q, r
<1>6. Total(r) = (Total(q) - q[k]) + r[k]
  BY <1>3, <1>4, TotalChange
<1> QED BY <1>3, <1>5, <1>6

(* The running totals of the weights of a queue: when an element is         *)
(* appended, and when the first one is taken.                               *)
LEMMA WeightsTotals ==
  ASSUME NEW F, NEW w \in [F -> Nat], NEW q \in Seq(F)
  PROVE  /\ Total(Weights(w, q)) \in Nat
         /\ Partial(Weights(w, q))[0] = 0
         /\ Partial(Weights(w, q))[Len(q)] = Total(Weights(w, q))
         /\ \A i \in 0..Len(q) : /\ Partial(Weights(w, q))[i] \in Nat
                                 /\ Partial(Weights(w, q))[i] <= Total(Weights(w, q))
         /\ \A i \in 1..Len(q) :
               Partial(Weights(w, q))[i] = Partial(Weights(w, q))[i - 1] + w[q[i]]
<1> DEFINE p == Weights(w, q)
<1>1. /\ p \in Seq(Nat) /\ p \in Seq(Int) /\ Len(p) = Len(q)
      /\ \A i \in 1..Len(q) : p[i] = w[q[i]]
  BY WeightsShape
<1> HIDE DEF p
<1>2. /\ Partial(p)[0] = 0
      /\ \A i \in 1..Len(p) : Partial(p)[i] = Partial(p)[i - 1] + p[i]
  BY <1>1, PartialEntries
<1>3. /\ Partial(p) \in [0..Len(p) -> Nat]
      /\ \A i \in 0..Len(p) : Partial(p)[i] <= Total(p)
  BY <1>1, PartialNat
<1>4. Partial(p)[Len(p)] = Total(p)
  BY DEF Total
<1>5. Total(p) \in Nat
  BY <1>1, TotalNat
<1>6. \A i \in 0..Len(p) : Partial(p)[i] \in Nat
  BY <1>3
<1> QED BY <1>1, <1>2, <1>3, <1>4, <1>5, <1>6 DEF p

(* An element added at the end changes no earlier running total. *)
LEMMA AppendTotals ==
  ASSUME NEW F, NEW w \in [F -> Nat], NEW q \in Seq(F), NEW f \in F
  PROVE  /\ Total(Weights(w, Append(q, f))) = Total(Weights(w, q)) + w[f]
         /\ Partial(Weights(w, Append(q, f)))[Len(q) + 1] = Total(Weights(w, q)) + w[f]
         /\ \A i \in 0..Len(q) : Partial(Weights(w, Append(q, f)))[i]
                                   = Partial(Weights(w, q))[i]
<1> DEFINE p == Weights(w, q)
           r == Append(p, w[f])
<1>1. p \in Seq(Int) /\ Len(p) = Len(q) /\ w[f] \in Int /\ Len(q) \in Nat
  BY WeightsShape
<1> HIDE DEF p
<1>2. /\ Total(r) = Total(p) + w[f]
      /\ Partial(r) = [i \in 0..(Len(p) + 1) |->
             IF i <= Len(p) THEN Partial(p)[i] ELSE Partial(p)[Len(p)] + w[f]]
  BY <1>1, TotalAppend, PartialAppend
<1> HIDE DEF r
<1>3. /\ Partial(r)[Len(q) + 1] = Total(p) + w[f]
      /\ \A i \in 0..Len(q) : Partial(r)[i] = Partial(p)[i]
  BY <1>1, <1>2 DEF Total
<1>4. Weights(w, Append(q, f)) = r
  BY WeightsAppend DEF r, p
<1> QED BY <1>2, <1>3, <1>4, Zenon DEF p

(* Without its first element a sequence's running totals are lower by its   *)
(* weight.                                                                  *)
LEMMA TailTotals ==
  ASSUME NEW F, NEW w \in [F -> Nat], NEW q \in Seq(F), q # <<>>
  PROVE  /\ Total(Weights(w, q)) = w[q[1]] + Total(Weights(w, Tail(q)))
         /\ \A i \in 0..(Len(q) - 1) :
               Partial(Weights(w, q))[i + 1] = w[q[1]] + Partial(Weights(w, Tail(q)))[i]
<1> DEFINE p == Weights(w, q)
           r == Tail(p)
<1>1. /\ p \in Seq(Int) /\ Len(p) = Len(q) /\ Len(q) \in Nat \ {0} /\ q[1] \in F
      /\ p[1] = w[q[1]] /\ w[q[1]] \in Int
  <2>1. Len(q) \in Nat \ {0} /\ q[1] \in F
    OBVIOUS
  <2>2. /\ p \in Seq(Nat) /\ Len(p) = Len(q)
        /\ \A i \in 1..Len(q) : p[i] = w[q[i]]
    BY WeightsShape
  <2> HIDE DEF p
  <2> QED BY <2>1, <2>2
<1> HIDE DEF p
<1>2. p # <<>>
  BY <1>1
<1>3. /\ Total(p) = p[1] + Total(r)
      /\ Partial(r) = [i \in 0..(Len(p) - 1) |-> Partial(p)[i + 1] - p[1]]
  BY <1>1, <1>2, TotalTail, PartialTail
<1>4. Partial(p) \in [0..Len(p) -> Int]
  BY <1>1, PartialType
<1> HIDE DEF r
<1>5. \A i \in 0..(Len(q) - 1) : Partial(p)[i + 1] = w[q[1]] + Partial(r)[i]
  <2> TAKE i \in 0..(Len(q) - 1)
  <2>1. Partial(p)[i + 1] \in Int
    BY <1>1, <1>4
  <2> QED BY <1>1, <1>3, <2>1
<1>6. Weights(w, Tail(q)) = r
  BY WeightsTail DEF r, p
<1> QED BY <1>1, <1>3, <1>5, <1>6 DEF p



(* Zeros add up to 0. *)
LEMMA SumOverZero ==
  ASSUME NEW S, Finite(S)
  PROVE  SumOver([s \in S |-> 0], S) = 0
<1> DEFINE N == Cardinality(S)
           q == [i \in 1..N |-> [s \in S |-> 0][Enumeration(S)[i]]]
           f == [i \in 0..N |-> 0]
<1>1. N \in Nat /\ Enumeration(S) \in [1..N -> S]
  BY EnumerationLists
<1> HIDE DEF N
<1>2. q \in Seq(Int) /\ Len(q) = N /\ \A i \in 1..N : q[i] = 0
  BY <1>1
<1>3. SumOver([s \in S |-> 0], S) = Total(q)
  BY DEF SumOver, N
<1> HIDE DEF q
<1>4. f = Partial(q)
  <2>1. /\ f = [i \in 0..Len(q) |-> f[i]]
        /\ f[0] = 0
        /\ \A i \in 1..Len(q) : f[i] = f[i - 1] + q[i]
    BY <1>1, <1>2
  <2> HIDE DEF f
  <2> QED BY <1>2, <2>1, PartialIs, Zenon
<1>5. Total(q) = f[N]
  BY <1>2, <1>4 DEF Total
<1> QED BY <1>1, <1>3, <1>5


=============================================================================
