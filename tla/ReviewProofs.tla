---------------------------- MODULE ReviewProofs ----------------------------
(***************************************************************************)
(* What a portfolio review draws, proved of any admitted input: a review   *)
(* with any number of sections, positions and groups, a series and a risk  *)
(* set of any length.                                                      *)
(*                                                                         *)
(* The panels pick rows, sort them, fold them into groups and add them up. *)
(* The lemmas on what is picked, sorted and totalled come first: that a    *)
(* total does not depend on the order of what it adds is an induction on   *)
(* the number of its terms.                                                *)
(***************************************************************************)
EXTENDS ReviewPanels, CompositeRenderProofs

-----------------------------------------------------------------------------
(* What is picked and what is sorted *)

\* R puts the members of P before one another, each pair one way.
Orders(R, P) ==
    /\ \A i, j \in P : <<i, j>> \in R => <<j, i>> \notin R
    /\ \A i, j, k \in P : <<i, j>> \in R /\ <<j, k>> \in R => <<i, k>> \in R
    /\ \A i, j \in P : i # j => <<i, j>> \in R \/ <<j, i>> \in R

\* How many are before i.
Rank(R, P, i) == Cardinality({j \in P : <<j, i>> \in R})

\* p is the members of P from first to last.
Lists(p, P, R) ==
    /\ Cardinality(P) \in Nat
    /\ p \in [1..Cardinality(P) -> P]
    /\ \A i \in P : \E k \in 1..Cardinality(P) : p[k] = i
    /\ \A k, l \in 1..Cardinality(P) : k < l => <<p[k], p[l]>> \in R

\* The member before which there are as many as before a place is at that
\* place.
LEMMA RanksList ==
    ASSUME NEW P, IsFiniteSet(P), NEW R, Orders(R, P)
    PROVE  Lists([k \in 1..Cardinality(P) |-> CHOOSE i \in P : Rank(R, P, i) = k - 1], P,
               R)
<1> DEFINE n == Cardinality(P)
           p == [k \in 1..n |-> CHOOSE i \in P : Rank(R, P, i) = k - 1]
           r == [i \in P |-> Rank(R, P, i) + 1]
           Below(i) == {j \in P : <<j, i>> \in R}
<1>1. n \in Nat /\ IsFiniteSet(1..n) /\ Cardinality(1..n) = n
  BY FS_CardinalityType, FS_Interval
<1> HIDE DEF n
<1>2. ASSUME NEW i \in P
      PROVE  IsFiniteSet(Below(i)) /\ Cardinality(Below(i)) \in Nat
               /\ Cardinality(Below(i)) < n /\ Rank(R, P, i) = Cardinality(Below(i))
  <2>1. Below(i) \in SUBSET P /\ i \notin Below(i)
    BY DEF Orders
  <2>2. Rank(R, P, i) = Cardinality(Below(i))
    BY DEF Rank
  <2> HIDE DEF Below
  <2>3. IsFiniteSet(Below(i)) /\ Cardinality(Below(i)) <= Cardinality(P)
          /\ (Cardinality(P) = Cardinality(Below(i)) => P = Below(i))
    BY <2>1, FS_Subset
  <2>4. Cardinality(Below(i)) \in Nat
    BY <2>3, FS_CardinalityType
  <2> QED BY <1>1, <2>1, <2>2, <2>3, <2>4 DEF n
<1>3. ASSUME NEW i \in P, NEW j \in P, <<i, j>> \in R
      PROVE  Rank(R, P, i) < Rank(R, P, j)
  <2>1. Below(i) \in SUBSET Below(j) /\ i \in Below(j) /\ i \notin Below(i)
    BY <1>3 DEF Orders
  <2> HIDE DEF Below
  <2>2. Cardinality(Below(i)) <= Cardinality(Below(j))
          /\ (Cardinality(Below(j)) = Cardinality(Below(i)) => Below(j) = Below(i))
    BY <1>2, <2>1, FS_Subset
  <2> QED BY <1>2, <2>1, <2>2
<1> HIDE DEF Below
<1>4. \A i \in P : Rank(R, P, i) \in 0..(n - 1)
  BY <1>1, <1>2
<1>5. \A i, j \in P : Rank(R, P, i) = Rank(R, P, j) => i = j
  <2> SUFFICES ASSUME NEW i \in P, NEW j \in P, Rank(R, P, i) = Rank(R, P, j), i # j
               PROVE  FALSE
    OBVIOUS
  <2>1. Rank(R, P, i) \in Int /\ ~(Rank(R, P, i) < Rank(R, P, j))
          /\ ~(Rank(R, P, j) < Rank(R, P, i))
    BY <1>1, <1>4
  <2>2. <<i, j>> \in R \/ <<j, i>> \in R
    BY DEF Orders
  <2> QED BY <1>3, <2>1, <2>2
<1>6. r \in Injection(P, 1..n)
  <2>1. r \in [P -> 1..n] /\ \A i, j \in P : r[i] = r[j] => i = j
    BY <1>1, <1>4, <1>5
  <2> QED BY <2>1 DEF Injection, IsInjective
<1>7. r \in Surjection(P, 1..n)
  BY <1>1, <1>6, FS_Injection DEF n
<1>8. \A k \in 1..n : \E i \in P : Rank(R, P, i) = k - 1
  <2>1. \A k \in 1..n : \E i \in P : r[i] = k
    BY <1>7 DEF Surjection
  <2>2. \A i \in P : r[i] = Rank(R, P, i) + 1 /\ Rank(R, P, i) \in Int
    BY <1>1, <1>4
  <2> HIDE DEF r
  <2>3. ASSUME NEW k \in 1..n PROVE \E i \in P : Rank(R, P, i) = k - 1
    <3>1. PICK i \in P : r[i] = k
      BY <2>1
    <3>2. Rank(R, P, i) = k - 1
      BY <1>1, <2>2, <3>1
    <3> QED BY <3>2
  <2> QED BY <2>3
<1>9. \A k \in 1..n : p[k] \in P /\ Rank(R, P, p[k]) = k - 1
  BY <1>8
<1> HIDE DEF p
<1>10. ASSUME NEW i \in P PROVE \E k \in 1..n : p[k] = i
  <2>1. Rank(R, P, i) + 1 \in 1..n
    BY <1>1, <1>4
  <2> DEFINE k == Rank(R, P, i) + 1
  <2>2. p[k] \in P /\ Rank(R, P, p[k]) = Rank(R, P, i)
    BY <1>4, <1>9, <2>1
  <2> QED BY <1>5, <2>1, <2>2
<1>11. ASSUME NEW k \in 1..n, NEW l \in 1..n, k < l PROVE <<p[k], p[l]>> \in R
  <2>1. p[k] \in P /\ p[l] \in P /\ Rank(R, P, p[k]) = k - 1 /\ Rank(R, P, p[l]) = l - 1
    BY <1>9
  <2>2. p[k] # p[l] /\ ~(Rank(R, P, p[l]) < Rank(R, P, p[k]))
    BY <1>11, <2>1
  <2> QED BY <1>3, <2>1, <2>2 DEF Orders
<1>12. p \in [1..n -> P]
  BY <1>9 DEF p
<1> QED BY <1>1, <1>10, <1>11, <1>12 DEF Lists, p, n

\* p is the places in P, in their order, and what is picked is there.
Picks(p, s, P) ==
    /\ Cardinality(P) \in Nat
    /\ p \in [1..Cardinality(P) -> P]
    /\ \A i \in P : \E k \in 1..Cardinality(P) : p[k] = i
    /\ \A k, l \in 1..Cardinality(P) : k < l => p[k] < p[l]
    /\ Picked(s, P) = [k \in 1..Cardinality(P) |-> s[p[k]]]

\* What is picked has an entry for every place, in their order.
LEMMA PickedIs ==
    ASSUME NEW s, NEW P \in SUBSET Int, IsFiniteSet(P)
    PROVE  \E p : Picks(p, s, P)
<1> DEFINE R == {pair \in P \X P : pair[1] < pair[2]}
           p == [k \in 1..Cardinality(P) |-> CHOOSE i \in P : Rank(R, P, i) = k - 1]
<1>1. \A i, j \in P : <<i, j>> \in R <=> i < j
  OBVIOUS
<1> HIDE DEF R
<1>2. Orders(R, P)
  BY <1>1 DEF Orders
<1>3. Lists(p, P, R)
  BY <1>2, RanksList
<1>4. \A i \in P : {j \in P : <<j, i>> \in R} = {j \in P : j < i}
  BY <1>1
<1>5. \A i \in P : Rank(R, P, i) = Cardinality({j \in P : j < i})
  BY <1>4 DEF Rank
<1>6. \A k \in 1..Cardinality(P) :
         p[k] = CHOOSE i \in P : Cardinality({j \in P : j < i}) = k - 1
  BY <1>5
<1> HIDE DEF p
<1>7. Picked(s, P) = [k \in 1..Cardinality(P) |-> s[p[k]]]
  <2> DEFINE At(k) == CHOOSE i \in P : Cardinality({j \in P : j < i}) = k - 1
  <2>1. Picked(s, P) = [k \in 1..Cardinality(P) |-> s[At(k)]]
    BY DEF Picked
  <2>2. \A k \in 1..Cardinality(P) : p[k] = At(k)
    BY <1>6
  <2> HIDE DEF At
  <2> QED BY <2>1, <2>2
<1>8. Picks(p, s, P)
  BY <1>1, <1>3, <1>7 DEF Lists, Picks
<1> QED BY <1>8

\* What is picked of a sequence is a sequence, of the entries picked.
LEMMA PickedRange ==
    ASSUME NEW S, NEW s, NEW P \in SUBSET Int, IsFiniteSet(P), \A i \in P : s[i] \in S
    PROVE  /\ Picked(s, P) \in Seq(S)
           /\ Len(Picked(s, P)) = Cardinality(P) /\ Cardinality(P) \in Nat
           /\ DOMAIN Picked(s, P) = 1..Cardinality(P)
           /\ Range(Picked(s, P)) = {s[i] : i \in P}
<1>1. PICK p : Picks(p, s, P)
  BY PickedIs
<1> DEFINE n == Cardinality(P)
           f == [k \in 1..n |-> s[p[k]]]
<1>2. n \in Nat /\ \A k \in 1..n : p[k] \in P
  BY <1>1 DEF Picks
<1>3. f \in [1..n -> S]
  BY <1>2
<1>4. f \in Seq(S) /\ DOMAIN f = 1..n
  BY <1>2, <1>3, FunctionIsSeq
<1>5. Len(f) = n
  BY <1>2, <1>4, LenProperties
<1>6. Range(f) = {s[i] : i \in P}
  <2>1. \A x : x \in Range(f) <=> \E k \in 1..n : x = s[p[k]]
    BY DEF Range
  <2>2. \A x : x \in {s[i] : i \in P} <=> \E k \in 1..n : x = s[p[k]]
    <3>1. \A i \in P : \E k \in 1..n : p[k] = i
      BY <1>1 DEF Picks
    <3> HIDE DEF n
    <3>2. ASSUME NEW i \in P PROVE \E k \in 1..n : s[i] = s[p[k]]
      <4>1. PICK k \in 1..n : p[k] = i
        BY <3>1
      <4> QED BY <4>1
    <3>3. ASSUME NEW k \in 1..n PROVE \E i \in P : s[p[k]] = s[i]
      BY <1>2
    <3>4. ASSUME NEW x, x \in {s[i] : i \in P} PROVE \E k \in 1..n : x = s[p[k]]
      <4>1. PICK i \in P : x = s[i]
        BY <3>4
      <4>2. PICK k \in 1..n : s[i] = s[p[k]]
        BY <3>2
      <4> QED BY <4>1, <4>2
    <3>5. ASSUME NEW x, NEW k \in 1..n, x = s[p[k]] PROVE x \in {s[i] : i \in P}
      BY <1>2, <3>5
    <3> QED BY <3>4, <3>5, Zenon
  <2> HIDE DEF f
  <2> QED BY <2>1, <2>2
<1>7. Picked(s, P) = f
  BY <1>1 DEF Picks
<1> HIDE DEF f
<1> QED BY <1>2, <1>4, <1>5, <1>6, <1>7

\* p is an arrangement of the places of s, by rising keys.
Sorts(p, s, keys) ==
    /\ p \in [1..Len(s) -> 1..Len(s)]
    /\ \A i \in 1..Len(s) : \E k \in 1..Len(s) : p[k] = i
    /\ \A k, l \in 1..Len(s) : k < l => keys[p[k]] <= keys[p[l]] /\ p[k] # p[l]
    /\ SortedBy(s, keys) = [k \in 1..Len(s) |-> s[p[k]]]

\* What is sorted has every entry once, and they rise.
LEMMA SortedIs ==
    ASSUME NEW S, NEW s \in Seq(S), NEW keys \in [DOMAIN s -> Int]
    PROVE  \E p : Sorts(p, s, keys)
<1> DEFINE P == DOMAIN s
           R == {pair \in P \X P : \/ keys[pair[1]] < keys[pair[2]]
                                   \/ keys[pair[1]] = keys[pair[2]] /\ pair[1] < pair[2]}
           p == [k \in 1..Cardinality(P) |-> CHOOSE i \in P : Rank(R, P, i) = k - 1]
<1>1. \A i, j \in P : <<i, j>> \in R <=> \/ keys[i] < keys[j]
                                         \/ keys[i] = keys[j] /\ i < j
  OBVIOUS
<1>2. Len(s) \in Nat /\ P = 1..Len(s) /\ IsFiniteSet(P) /\ Cardinality(P) = Len(s)
        /\ P \subseteq Int
  <2>1. Len(s) \in Nat /\ P = 1..Len(s)
    BY LenProperties
  <2>2. \A m \in Nat : IsFiniteSet(1..m) /\ Cardinality(1..m) = m
    BY FS_Interval
  <2> QED BY <2>1, <2>2
<1>3. \A i \in P : keys[i] \in Int
  OBVIOUS
<1> HIDE DEF R, P
<1>4. Orders(R, P)
  <2>1. \A i, j \in P : <<i, j>> \in R => <<j, i>> \notin R
    BY <1>1, <1>2, <1>3
  <2>2. \A i, j, k \in P : <<i, j>> \in R /\ <<j, k>> \in R => <<i, k>> \in R
    BY <1>1, <1>2, <1>3
  <2>3. \A i, j \in P : i # j => <<i, j>> \in R \/ <<j, i>> \in R
    BY <1>1, <1>2, <1>3
  <2> QED BY <2>1, <2>2, <2>3 DEF Orders
<1>5. Lists(p, P, R)
  BY <1>2, <1>4, RanksList
<1>6. \A i \in P : {j \in P : <<j, i>> \in R}
                     = {j \in P : keys[j] < keys[i] \/ (keys[j] = keys[i] /\ j < i)}
  BY <1>1
<1>7. \A i \in P : Rank(R, P, i) = Cardinality({j \in P : \/ keys[j] < keys[i]
                                                          \/ (keys[j] = keys[i]
                                                                 /\ j < i)})
  BY <1>6 DEF Rank
<1>8. \A k \in P :
         p[k] = CHOOSE i \in P : Cardinality({j \in P : \/ keys[j] < keys[i]
                                                        \/ (keys[j] = keys[i]
                                                               /\ j < i)}) = k - 1
  BY <1>2, <1>7
<1> HIDE DEF p
<1>9. SortedBy(s, keys) = [k \in 1..Len(s) |-> s[p[k]]]
  <2>1. SortedBy(s, keys) = [k \in P |-> s[CHOOSE i \in P :
            Cardinality({j \in P : \/ keys[j] < keys[i]
                                   \/ (keys[j] = keys[i] /\ j < i)}) = k - 1]]
    BY DEF SortedBy, P
  <2> QED BY <1>2, <1>8, <2>1
<1>10. /\ p \in [1..Len(s) -> 1..Len(s)]
       /\ \A i \in 1..Len(s) : \E k \in 1..Len(s) : p[k] = i
       /\ \A k, l \in 1..Len(s) : k < l => <<p[k], p[l]>> \in R
  BY <1>2, <1>5 DEF Lists
<1>11. ASSUME NEW k \in 1..Len(s), NEW l \in 1..Len(s), k < l
       PROVE  keys[p[k]] <= keys[p[l]] /\ p[k] # p[l]
  <2>1. p[k] \in P /\ p[l] \in P /\ <<p[k], p[l]>> \in R
    BY <1>2, <1>10, <1>11
  <2> DEFINE a == p[k]
             b == p[l]
  <2>2. a \in P /\ b \in P /\ <<a, b>> \in R /\ a \in Int /\ b \in Int
    BY <1>2, <2>1
  <2> HIDE DEF a, b
  <2>3. (keys[a] < keys[b] \/ (keys[a] = keys[b] /\ a < b))
          /\ keys[a] \in Int /\ keys[b] \in Int
    BY <1>1, <1>3, <2>2
  <2>4. keys[a] <= keys[b] /\ a # b
    BY <2>2, <2>3
  <2> QED BY <2>4 DEF a, b
<1>12. Sorts(p, s, keys)
  BY <1>9, <1>10, <1>11 DEF Sorts
<1> QED BY <1>12

-----------------------------------------------------------------------------
(* Totals *)

\* f is what numbers add up to, one after the other.
Adds(f, s) ==
    /\ f \in [0..Len(s) -> Int]
    /\ f[0] = 0
    /\ \A i \in 1..Len(s) : f[i] = f[i - 1] + s[i]

\* Such a function exists.
LEMMA SumsExist ==
    ASSUME NEW s \in Seq(Int)
    PROVE  \E f : Adds(f, s)
<1> DEFINE T == {n \in Nat : n <= Len(s) =>
                   \E f \in [0..n -> Int] : f[0] = 0
                       /\ \A i \in 1..n : f[i] = f[i - 1] + s[i]}
<1>0. Len(s) \in Nat /\ \A i \in 1..Len(s) : s[i] \in Int
  BY LenProperties, ElementOfSeq
<1>1. 0 \in T
  <2> DEFINE f == [i \in 0..0 |-> 0]
  <2>1. f \in [0..0 -> Int] /\ f[0] = 0 /\ \A i \in 1..0 : f[i] = f[i - 1] + s[i]
    OBVIOUS
  <2> HIDE DEF f
  <2> QED BY <2>1
<1>2. ASSUME NEW k \in 0..Len(s), NEW m \in 0..Len(s), k \in T, m = k + 1
      PROVE  m \in T
  <2>1. k \in Nat /\ k <= Len(s) /\ m \in Nat /\ m \in 1..Len(s)
    BY <1>0, <1>2
  <2>2. PICK f \in [0..k -> Int] : f[0] = 0 /\ \A i \in 1..k : f[i] = f[i - 1] + s[i]
    BY <1>2, <2>1
  <2> DEFINE g == [i \in 0..m |-> IF i = m THEN f[k] + s[m] ELSE f[i]]
  <2>3. s[m] \in Int /\ f[k] \in Int
    BY <1>0, <2>1
  <2>4. g \in [0..m -> Int] /\ g[0] = 0
    BY <1>2, <2>1, <2>2, <2>3
  <2> HIDE DEF T
  <2>5. ASSUME NEW i \in 1..m PROVE g[i] = g[i - 1] + s[i]
    <3>1. m = k + 1 /\ i \in Nat /\ i - 1 \in 0..k /\ k \in Nat
      BY <1>2, <2>1
    <3>2. CASE i = m
      BY <3>1, <3>2
    <3>3. CASE i # m
      <4>1. i \in 1..k /\ f[i] = f[i - 1] + s[i]
        BY <2>2, <3>1, <3>3
      <4> QED BY <3>1, <3>3, <4>1
    <3> QED BY <3>2, <3>3
  <2> HIDE DEF g
  <2> QED BY <2>1, <2>4, <2>5 DEF T
<1>3. Len(s) \in T
  <2> HIDE DEF T
  <2> QED BY <1>0, <1>1, <1>2, Climb
<1> QED BY <1>0, <1>3 DEF Adds

\* What adds up numbers adds them up to their total.
LEMMA TotalIs ==
    ASSUME NEW s \in Seq(Int), NEW f, Adds(f, s)
    PROVE  Total(s) = f[Len(s)] /\ Total(s) \in Int
<1> DEFINE Sum == CHOOSE g : g = [n \in 0..Len(s) |-> IF n = 0
               THEN 0 ELSE g[n - 1] + s[n]]
           T == {n \in Nat : n <= Len(s) => Sum[n] = f[n]}
<1>0. Len(s) \in Nat
  BY LenProperties
<1>1. Total(s) = Sum[Len(s)]
  BY DEF Total
<1>2. f = [n \in 0..Len(s) |-> IF n = 0 THEN 0 ELSE f[n - 1] + s[n]]
  BY <1>0 DEF Adds
<1>3. Sum = [n \in 0..Len(s) |-> IF n = 0 THEN 0 ELSE Sum[n - 1] + s[n]]
  BY <1>2
<1> HIDE DEF Sum
<1>4. Sum[0] = 0 /\ \A i \in 1..Len(s) : Sum[i] = Sum[i - 1] + s[i]
  BY <1>0, <1>3
<1>5. 0 \in T
  BY <1>4 DEF Adds
<1>6. ASSUME NEW k \in 0..Len(s), NEW m \in 0..Len(s), k \in T, m = k + 1
      PROVE  m \in T
  <2>1. m \in 1..Len(s) /\ m - 1 = k /\ k \in Nat /\ m \in Nat /\ k <= Len(s)
    BY <1>0, <1>6
  <2>2. Sum[k] = f[k]
    BY <1>6, <2>1
  <2>3. Sum[m] = Sum[k] + s[m] /\ f[m] = f[k] + s[m]
    BY <1>4, <2>1 DEF Adds
  <2> QED BY <2>1, <2>2, <2>3
<1>7. Len(s) \in T
  <2> HIDE DEF T
  <2> QED BY <1>0, <1>5, <1>6, Climb
<1>8. f[Len(s)] \in Int
  BY <1>0 DEF Adds
<1> QED BY <1>0, <1>1, <1>7, <1>8

\* The total of numbers is a number.
LEMMA TotalType == \A s \in Seq(Int) : Total(s) \in Int
BY SumsExist, TotalIs

\* The total of nothing.
LEMMA TotalOfNothing == ASSUME NEW s \in Seq(Int), Len(s) = 0 PROVE Total(s) = 0
<1>1. PICK f : Adds(f, s)
  BY SumsExist
<1> QED BY <1>1, TotalIs DEF Adds

\* The total of one sequence after another is that of both.
LEMMA TotalOfBoth ==
    ASSUME NEW s \in Seq(Int), NEW t \in Seq(Int)
    PROVE  Total(s \o t) = Total(s) + Total(t)
<1>1. PICK f : Adds(f, s)
  BY SumsExist
<1>2. PICK g : Adds(g, t)
  BY SumsExist
<1> DEFINE n == Len(s)
           m == Len(t)
           u == s \o t
           h == [i \in 0..Len(u) |-> IF i <= n THEN f[i] ELSE f[n] + g[i - n]]
<1>3. /\ n \in Nat /\ m \in Nat /\ u \in Seq(Int) /\ Len(u) = n + m
      /\ \A i \in 1..(n + m) : u[i] = IF i <= n THEN s[i] ELSE t[i - n]
  BY LenProperties, ConcatProperties
<1>4. /\ f \in [0..n -> Int] /\ f[0] = 0 /\ \A i \in 1..n : f[i] = f[i - 1] + s[i]
      /\ g \in [0..m -> Int] /\ g[0] = 0 /\ \A i \in 1..m : g[i] = g[i - 1] + t[i]
  BY <1>1, <1>2 DEF Adds
<1>5. Total(s) = f[n] /\ Total(t) = g[m]
  BY <1>1, <1>2, TotalIs
<1> HIDE DEF n, m, u
<1>6. h \in [0..Len(u) -> Int] /\ h[0] = 0
  <2>1. ASSUME NEW i \in 0..Len(u) PROVE h[i] \in Int
    <3>1. CASE i <= n
      BY <1>3, <1>4, <3>1
    <3>2. CASE ~(i <= n)
      <4>1. i - n \in 0..m /\ n \in 0..n
        BY <1>3, <3>2
      <4>2. g[i - n] \in Int /\ f[n] \in Int
        BY <1>4, <4>1
      <4> QED BY <3>2, <4>2
    <3> QED BY <3>1, <3>2
  <2>2. h[0] = 0
    BY <1>3, <1>4
  <2>3. h = [i \in 0..Len(u) |-> h[i]]
    OBVIOUS
  <2> HIDE DEF h
  <2> QED BY <2>1, <2>2, <2>3
<1>7. ASSUME NEW i \in 1..Len(u) PROVE h[i] = h[i - 1] + u[i]
  <2>1. i \in 1..(n + m) /\ i \in 0..Len(u) /\ i - 1 \in 0..Len(u) /\ i \in Int
    BY <1>3
  <2>2. CASE i <= n
    <3>1. i \in 1..n /\ i - 1 <= n
      BY <1>3, <2>1, <2>2
    <3> QED BY <1>3, <1>4, <2>1, <2>2, <3>1
  <2>3. CASE i = n + 1
    <3>1. 1 \in 1..m /\ i - n = 1 /\ i - 1 = n /\ ~(i <= n) /\ n \in 0..n
      BY <1>3, <2>1, <2>3
    <3>2. u[i] = t[1] /\ f[n] \in Int
      BY <1>3, <1>4, <2>1, <3>1
    <3>3. h[i] = f[n] + g[1] /\ h[i - 1] = f[n]
      BY <1>3, <2>1, <3>1
    <3>4. g[1] = g[0] + t[1] /\ g[0] = 0
      <4>1. g[1] = g[1 - 1] + t[1]
        BY <1>4, <3>1
      <4>2. 1 - 1 = 0
        OBVIOUS
      <4> QED BY <1>4, <4>1, <4>2
    <3> HIDE DEF h
    <3>5. t[1] \in Int
      BY <3>1, ElementOfSeq DEF m
    <3>6. g[1] = t[1]
      BY <3>4, <3>5
    <3> QED BY <3>2, <3>3, <3>6
  <2>4. CASE i > n + 1
    <3>1. i - n \in 1..m /\ ~(i <= n) /\ ~(i - 1 <= n) /\ (i - 1) - n = (i - n) - 1
      BY SMTT(30), <1>3, <2>1, <2>4
    <3>2. h[i] = f[n] + g[i - n] /\ h[i - 1] = f[n] + g[(i - n) - 1] /\ u[i] = t[i - n]
      BY <1>3, <2>1, <3>1
    <3>3. g[i - n] = g[(i - n) - 1] + t[i - n] /\ f[n] \in Int /\ t[i - n] \in Int
            /\ g[(i - n) - 1] \in Int
      <4>1. (i - n) - 1 \in 0..m /\ n \in 0..n
        BY SMTT(30), <1>3, <3>1
      <4> QED BY <1>3, <1>4, <3>1, <4>1, ElementOfSeq DEF m
    <3> HIDE DEF h
    <3> QED BY <3>2, <3>3
  <2> QED BY <1>3, <2>1, <2>2, <2>3, <2>4
<1>8. Total(u) = h[Len(u)]
  <2>1. Adds(h, u)
    <3> HIDE DEF h
    <3> QED BY <1>6, <1>7 DEF Adds
  <2> HIDE DEF h
  <2> QED BY <1>3, <2>1, TotalIs
<1>9. h[Len(u)] = f[n] + g[m]
  <2>1. CASE m = 0
    <3>1. Len(u) <= n /\ Len(u) = n /\ n \in 0..n
      BY <1>3, <2>1
    <3>2. h[Len(u)] = f[n] /\ f[n] \in Int
      BY <1>3, <1>4, <3>1
    <3> HIDE DEF h
    <3> QED BY <1>4, <2>1, <3>2
  <2>2. CASE m # 0
    <3>1. ~(Len(u) <= n) /\ Len(u) - n = m /\ Len(u) \in 0..Len(u)
      BY <1>3, <2>2
    <3> QED BY <3>1
  <2> QED BY <2>1, <2>2
<1> HIDE DEF h
<1> QED BY <1>5, <1>8, <1>9 DEF u

\* The total of one number.
LEMMA TotalOfOne == ASSUME NEW x \in Int PROVE Total(<<x>>) = x /\ <<x>> \in Seq(Int)
<1> DEFINE s == <<x>>
           f == [i \in 0..1 |-> IF i = 0 THEN 0 ELSE x]
<1>1. s \in Seq(Int) /\ Len(s) = 1 /\ s[1] = x
  OBVIOUS
<1> HIDE DEF s
<1>2. f \in [0..1 -> Int] /\ f[0] = 0 /\ f[1] = x
  OBVIOUS
<1> HIDE DEF f
<1>3. Adds(f, s)
  <2>1. \A i \in 1..1 : f[i] = f[i - 1] + s[i]
    BY <1>1, <1>2
  <2> QED BY <1>1, <1>2, <2>1 DEF Adds
<1>4. Total(s) = f[1]
  BY <1>1, <1>3, TotalIs
<1> QED BY <1>1, <1>2, <1>4 DEF s

\* The total of numbers from a place on.
LEMMA TotalInTwo ==
    ASSUME NEW s \in Seq(Int), NEW k \in 0..Len(s)
    PROVE  /\ SubSeq(s, 1, k) \in Seq(Int) /\ SubSeq(s, k + 1, Len(s)) \in Seq(Int)
           /\ Total(s) = Total(SubSeq(s, 1, k)) + Total(SubSeq(s, k + 1, Len(s)))
<1> DEFINE a == SubSeq(s, 1, k)
           b == SubSeq(s, k + 1, Len(s))
<1>0. Len(s) \in Nat /\ k \in Nat /\ k <= Len(s) /\ \A i \in 1..Len(s) : s[i] \in Int
  BY LenProperties, ElementOfSeq
<1>1. a \in Seq(Int) /\ Len(a) = k /\ \A i \in 1..k : a[i] = s[i]
  <2>1. \A i \in 1..k : s[i] \in Int
    BY <1>0
  <2>2. /\ SubSeq(s, 1, k) \in Seq(Int)
               /\ Len(SubSeq(s, 1, k)) = IF 1 <= k THEN k - 1 + 1 ELSE 0
        /\ \A i \in 1..(k - 1 + 1) : SubSeq(s, 1, k)[i] = s[1 + i - 1]
    BY <1>0, <2>1, SubSeqProperties
  <2> QED BY <1>0, <2>2
<1>2. b \in Seq(Int) /\ Len(b) = Len(s) - k /\ \A i \in 1..(Len(s) - k) : b[i] = s[k + i]
  <2>1. \A i \in (k + 1)..Len(s) : s[i] \in Int
    BY <1>0
  <2>2. /\ SubSeq(s, k + 1, Len(s)) \in Seq(Int)
        /\ Len(SubSeq(s, k + 1, Len(s)))
             = IF k + 1 <= Len(s) THEN Len(s) - (k + 1) + 1 ELSE 0
        /\ \A i \in 1..(Len(s) - (k + 1) + 1) :
              SubSeq(s, k + 1, Len(s))[i] = s[(k + 1) + i - 1]
    BY <1>0, <2>1, SubSeqProperties
  <2> QED BY <1>0, <2>2
<1> HIDE DEF a, b
<1>3. /\ a \o b \in Seq(Int) /\ Len(a \o b) = Len(s)
      /\ \A i \in 1..Len(s) : (a \o b)[i] = IF i <= k THEN a[i] ELSE b[i - k]
  <2>1. /\ a \o b \in Seq(Int) /\ Len(a \o b) = Len(a) + Len(b)
        /\ \A i \in 1..(Len(a) + Len(b)) :
              (a \o b)[i] = IF i <= Len(a) THEN a[i] ELSE b[i - Len(a)]
    BY <1>1, <1>2, ConcatProperties
  <2>2. Len(a) = k /\ Len(a) + Len(b) = Len(s)
    BY <1>0, <1>1, <1>2
  <2> QED BY <2>1, <2>2
<1>4. \A i \in 1..Len(s) : (a \o b)[i] = s[i]
  BY SMTT(30), <1>0, <1>1, <1>2, <1>3
<1>5. a \o b = s
  BY <1>3, <1>4, SeqEqual
<1>6. Total(a \o b) = Total(a) + Total(b)
  BY <1>1, <1>2, TotalOfBoth
<1> QED BY <1>1, <1>2, <1>5, <1>6 DEF a, b

-----------------------------------------------------------------------------
(* Figures *)

\* Figures that are known.
KnownFigures == {f \in SUBSET Int : IsFigure(f) /\ f # {}}

\* A known figure is its value and nothing else.
LEMMA ValueIs ==
    ASSUME NEW f, IsFigure(f), f # {}
    PROVE  Value(f) \in Int /\ f = {Value(f)} /\ f \in KnownFigures
<1>1. PICK n \in f : TRUE
  OBVIOUS
<1>2. Value(f) \in f
  BY <1>1 DEF Value
<1> QED BY <1>2 DEF IsFigure, KnownFigures

\* The values of known figures are numbers.
LEMMA ValuesAre ==
    ASSUME NEW s \in Seq(KnownFigures)
    PROVE  /\ [i \in DOMAIN s |-> Value(s[i])] \in Seq(Int)
           /\ DOMAIN [i \in DOMAIN s |-> Value(s[i])] = 1..Len(s)
           /\ Len([i \in DOMAIN s |-> Value(s[i])]) = Len(s)
<1> DEFINE f == [i \in DOMAIN s |-> Value(s[i])]
<1>1. DOMAIN s = 1..Len(s) /\ Len(s) \in Nat
  BY LenProperties
<1>2. \A i \in 1..Len(s) : Value(s[i]) \in Int
  BY ElementOfSeq, ValueIs DEF KnownFigures
<1>3. f \in [1..Len(s) -> Int]
  BY <1>1, <1>2
<1> HIDE DEF f
<1>4. f \in Seq(Int) /\ DOMAIN f = 1..Len(s)
  BY <1>1, <1>3, FunctionIsSeq
<1>5. Len(f) = Len(s)
  BY <1>1, <1>4, LenProperties
<1> QED BY <1>4, <1>5 DEF f

\* The least and the greatest of numbers are among them.
LEMMA ExtremesAre ==
    ASSUME NEW s \in Seq(Int), Len(s) # 0
    PROVE  /\ Highest(s) \in Range(s) /\ \A m \in Range(s) : m <= Highest(s)
           /\ Lowest(s) \in Range(s) /\ \A m \in Range(s) : Lowest(s) <= m
           /\ Highest(s) \in Int /\ Lowest(s) \in Int /\ Lowest(s) <= Highest(s)
<1> DEFINE N == Len(s)
           T == {n \in Nat : n + 1 <= N =>
                   /\ \E k \in 1..(n + 1) : \A i \in 1..(n + 1) : s[i] <= s[k]
                   /\ \E k \in 1..(n + 1) : \A i \in 1..(n + 1) : s[k] <= s[i]}
<1>1. N \in Nat /\ N - 1 \in Nat /\ DOMAIN s = 1..N /\ \A i \in 1..N : s[i] \in Int
  BY LenProperties, ElementOfSeq
<1> HIDE DEF N
<1>2. 0 \in T
  BY <1>1
<1>3. ASSUME NEW k \in 0..(N - 1), NEW m \in 0..(N - 1), k \in T, m = k + 1
      PROVE  m \in T
  <2>1. k \in Nat /\ m \in Nat /\ k + 1 <= N /\ m + 1 <= N /\ m + 1 \in 1..N
    BY <1>1, <1>3
  <2>2. PICK a \in 1..(k + 1) : \A i \in 1..(k + 1) : s[i] <= s[a]
    BY <1>3, <2>1
  <2>3. PICK b \in 1..(k + 1) : \A i \in 1..(k + 1) : s[b] <= s[i]
    BY <1>3, <2>1
  <2>4. \A i \in 1..(m + 1) : i \in 1..N /\ (i \in 1..(k + 1) \/ i = m + 1)
    BY <1>1, <1>3, <2>1
  <2>5. s[a] \in Int /\ s[b] \in Int /\ s[m + 1] \in Int
          /\ a \in 1..(m + 1) /\ b \in 1..(m + 1) /\ m + 1 \in 1..(m + 1)
    BY <1>1, <1>3, <2>1
  <2> HIDE DEF T
  <2>6. \E h \in 1..(m + 1) : \A i \in 1..(m + 1) : s[i] <= s[h]
    <3>1. CASE s[m + 1] <= s[a]
      <4>1. \A i \in 1..(m + 1) : s[i] <= s[a]
        BY <2>2, <2>4, <3>1
      <4> QED BY <2>5, <4>1
    <3>2. CASE ~(s[m + 1] <= s[a])
      <4>1. \A i \in 1..(m + 1) : s[i] <= s[m + 1]
        BY <1>1, <2>2, <2>4, <2>5, <3>2, SMTT(30)
      <4> QED BY <2>5, <4>1
    <3> QED BY <3>1, <3>2
  <2>7. \E h \in 1..(m + 1) : \A i \in 1..(m + 1) : s[h] <= s[i]
    <3>1. CASE s[b] <= s[m + 1]
      <4>1. \A i \in 1..(m + 1) : s[b] <= s[i]
        BY <2>3, <2>4, <3>1
      <4> QED BY <2>5, <4>1
    <3>2. CASE ~(s[b] <= s[m + 1])
      <4>1. \A i \in 1..(m + 1) : s[m + 1] <= s[i]
        BY <1>1, <2>3, <2>4, <2>5, <3>2, SMTT(30)
      <4> QED BY <2>5, <4>1
    <3> QED BY <3>1, <3>2
  <2> QED BY <2>1, <2>6, <2>7 DEF T
<1>4. N - 1 \in T
  <2> HIDE DEF T
  <2> QED BY <1>1, <1>2, <1>3, Climb
<1>5. (N - 1) + 1 = N
  BY <1>1
<1>6. PICK a \in 1..N : \A i \in 1..N : s[i] <= s[a]
  BY <1>1, <1>4, <1>5
<1>7. PICK b \in 1..N : \A i \in 1..N : s[b] <= s[i]
  BY <1>1, <1>4, <1>5
<1>8. Range(s) = {s[i] : i \in 1..N}
  BY <1>1 DEF Range
<1>9. s[a] \in Range(s) /\ \A m \in Range(s) : m <= s[a]
  BY <1>6, <1>8
<1>10. s[b] \in Range(s) /\ \A m \in Range(s) : s[b] <= m
  BY <1>7, <1>8
<1>11. Highest(s) \in Range(s) /\ \A m \in Range(s) : m <= Highest(s)
  BY <1>9 DEF Highest
<1>12. Lowest(s) \in Range(s) /\ \A m \in Range(s) : Lowest(s) <= m
  BY <1>10 DEF Lowest
<1>13. Range(s) \subseteq Int
  BY <1>1, <1>8
<1> QED BY <1>11, <1>12, <1>13

-----------------------------------------------------------------------------
(* Risk *)

\* A decomposition that is drawn adds up.
LEMMA DecompositionHolds ==
    ASSUME NEW set, IsRiskSet(set)
    PROVE  DecompositionAddsUp(set)
<1> SUFFICES ASSUME RiskSet(set) = "drawn" PROVE DecompositionAddsUp(set)
  BY DEF DecompositionAddsUp
<1> DEFINE total == Total([i \in DOMAIN set.rows |-> Value(set.rows[i].component)])
<1>1. /\ \A row \in Range(set.rows) : ContributorIsRead(row)
      /\ {} \notin {set.residual, set.total}
      /\ ContributionsReconcile(set)
  <2>1. set.posture = "ready"
    BY DEF RiskSet, IsRiskSet
  <2>2. RiskSet(set) =
            IF set.unit \notin {"decimal_ratio", "unitless"} THEN "no unit"
            ELSE IF \/ set.rows = <<>>
                    \/ \E row \in Range(set.rows) : ~ContributorIsRead(row)
                    \/ {} \in {set.residual, set.total} \/ set.reconciled.is = "none"
                 THEN "unreadable"
            ELSE IF set.reconciled.is = "nan" THEN "raises"
            ELSE IF ContributionsReconcile(set) THEN "drawn" ELSE "does not sum"
    BY <2>1 DEF RiskSet
  <2> QED BY <2>2
<1>2. \A row \in Range(set.rows) : row.component # {} /\ row.percent # {}
  BY <1>1 DEF ContributorIsRead
<1>3. Len(set.rows) \in Nat /\ DOMAIN set.rows = 1..Len(set.rows)
  BY LenProperties DEF IsRiskSet
<1>4. total \in Int
  <2> DEFINE f == [i \in DOMAIN set.rows |-> Value(set.rows[i].component)]
  <2>1. \A i \in 1..Len(set.rows) : Value(set.rows[i].component) \in Int
    BY <1>2, <1>3, ValueIs DEF IsRiskSet, Range
  <2>2. f \in [1..Len(set.rows) -> Int]
    BY <1>3, <2>1
  <2>3. f \in Seq(Int)
    BY <1>3, <2>2, FunctionIsSeq
  <2> QED BY <2>3, TotalType
<1>5. set.reconciled.of \in Int
  BY DEF IsRiskSet, IsReading
<1>6. /\ set.reconciled.is = "number"
      /\ -Len(set.rows) <= total - set.reconciled.of
      /\ total - set.reconciled.of <= Len(set.rows)
  BY <1>1 DEF ContributionsReconcile
<1> HIDE DEF total
<1>7. set.reconciled.of \in (total - Len(set.rows))..(total + Len(set.rows))
  BY <1>3, <1>4, <1>5, <1>6
<1> QED BY <1>1, <1>2, <1>6, <1>7 DEF DecompositionAddsUp, total

-----------------------------------------------------------------------------
(* The bridge and the trend *)

\* The figures a bridge draws are the known ones of its effects and residual.
LEMMA SegmentsAre ==
    ASSUME NEW block, IsBridge(block)
    PROVE  /\ BridgeSegments(block) \in Seq(KnownFigures)
           /\ Len(BridgeSegments(block)) + BridgeDropped(block)
                = Len(block.effects) + Cardinality(block.residual)
<1> DEFINE n == Len(block.effects)
           figures == block.effects \o <<block.residual>>
           P == {i \in DOMAIN figures : figures[i] # {}}
           Q == {i \in DOMAIN block.effects : block.effects[i] # {}}
           D == {i \in DOMAIN block.effects : block.effects[i] = {}}
           S == {f \in SUBSET Int : IsFigure(f)}
<1>1. block.effects \in Seq(S) /\ <<block.residual>> \in Seq(S) /\ block.residual \in S
  <2>1. Range(block.effects) \subseteq S /\ block.residual \in S
    BY DEF IsBridge, IsFigure
  <2>2. block.effects \in Seq(Range(block.effects))
    BY DEF IsBridge
  <2> HIDE DEF S
  <2>3. n \in Nat /\ \A i \in 1..n : block.effects[i] \in S
    BY <2>1, <2>2, LenProperties, ElementOfSeq
  <2>4. block.effects \in [1..n -> S]
    BY <2>2, <2>3, LenProperties
  <2>5. block.effects \in Seq(S)
    BY <2>3, <2>4, FunctionIsSeq
  <2>6. <<block.residual>> \in Seq(S)
    BY <2>1
  <2> QED BY <2>1, <2>5, <2>6
<1> HIDE DEF S
<1>2. /\ n \in Nat /\ DOMAIN block.effects = 1..n
      /\ figures \in Seq(S) /\ Len(figures) = n + 1
      /\ \A i \in 1..n : figures[i] = block.effects[i]
      /\ figures[n + 1] = block.residual
  <2>1. Len(<<block.residual>>) = 1 /\ <<block.residual>>[1] = block.residual
    OBVIOUS
  <2>2. n \in Nat /\ DOMAIN block.effects = 1..n
    BY <1>1, LenProperties
  <2> DEFINE last == <<block.residual>>
  <2> HIDE DEF last
  <2>3. /\ block.effects \o last \in Seq(S) /\ Len(block.effects \o last) = n + Len(last)
        /\ \A i \in 1..(n + Len(last)) : (block.effects \o last)[i] =
              IF i <= n THEN block.effects[i] ELSE last[i - n]
    BY <1>1, ConcatProperties DEF last
  <2>4. Len(last) = 1 /\ last[1] = block.residual
    BY <2>1 DEF last
  <2>5. \A i \in 1..n : i \in 1..(n + 1) /\ i <= n
    BY <2>2
  <2>6. n + 1 \in 1..(n + 1) /\ ~(n + 1 <= n) /\ (n + 1) - n = 1
    BY <2>2
  <2>7. figures = block.effects \o last
    BY DEF last
  <2> HIDE DEF figures, n
  <2> QED BY <2>2, <2>3, <2>4, <2>5, <2>6, <2>7
<1> HIDE DEF figures, n
<1>3. DOMAIN figures = 1..(n + 1) /\ \A i \in 1..(n + 1) : figures[i] \in S
  BY <1>2, LenProperties, ElementOfSeq
<1>4. /\ IsFiniteSet(1..n) /\ Cardinality(1..n) = n
      /\ IsFiniteSet(1..(n + 1))
  BY <1>2, FS_Interval
<1>5. P \in SUBSET (1..(n + 1)) /\ P \in SUBSET Int /\ Q \in SUBSET (1..n)
          /\ D \in SUBSET (1..n)
  BY <1>2, <1>3
<1>6. IsFiniteSet(P) /\ IsFiniteSet(Q) /\ IsFiniteSet(D)
  <2> HIDE DEF P, Q, D
  <2> QED BY <1>4, <1>5, FS_Subset
<1>7. \A i \in P : figures[i] \in KnownFigures
  BY <1>3 DEF S, KnownFigures
<1>8. Cardinality(Q) + Cardinality(D) = n /\ Cardinality(Q) \in Nat
          /\ Cardinality(D) \in Nat
  <2>1. Q \cup D = 1..n /\ Q \cap D = {}
    BY <1>2
  <2> HIDE DEF Q, D
  <2>2. Cardinality(Q \cup D) = Cardinality(Q) + Cardinality(D) - Cardinality(Q \cap D)
    BY <1>6, FS_Union
  <2>3. Cardinality({}) = 0 /\ Cardinality(Q) \in Nat /\ Cardinality(D) \in Nat
    BY <1>6, FS_EmptySet, FS_CardinalityType
  <2>4. Cardinality(Q \cup D) = n /\ Cardinality(Q \cap D) = 0
    BY <1>4, <2>1, <2>3, Zenon
  <2> QED BY <1>2, <2>2, <2>3, <2>4
<1>9. Cardinality(P) = Cardinality(Q) + Cardinality(block.residual)
  <2>1. CASE block.residual = {}
    <3>1. P = Q
      BY <1>2, <1>3, <2>1
    <3> HIDE DEF P, Q
    <3> QED BY <1>8, <2>1, <3>1, FS_EmptySet
  <2>2. CASE block.residual # {}
    <3>1. P = Q \cup {n + 1} /\ n + 1 \notin Q
      BY <1>2, <1>3, <2>2
    <3>2. Cardinality(block.residual) = 1
      <4>1. block.residual = {Value(block.residual)}
        BY <2>2, ValueIs DEF IsBridge
      <4> QED BY <4>1, FS_Singleton
    <3> HIDE DEF P, Q
    <3>3. Cardinality(Q \cup {n + 1}) = Cardinality(Q) + 1
      BY <1>6, <3>1, FS_AddElement
    <3> QED BY <3>1, <3>2, <3>3
  <2> QED BY <2>1, <2>2
<1>10. BridgeSegments(block) = Picked(figures, P) /\ BridgeDropped(block) = Cardinality(D)
  BY DEF BridgeSegments, BridgeDropped, figures
<1> HIDE DEF P, Q, D
<1>11. Picked(figures, P) \in Seq(KnownFigures)
           /\ Len(Picked(figures, P)) = Cardinality(P)
  <2>1. P \in SUBSET Int /\ IsFiniteSet(P) /\ \A i \in P : figures[i] \in KnownFigures
    BY <1>5, <1>6, <1>7
  <2>2. Picked(figures, P) \in Seq(KnownFigures)
    BY <2>1, PickedRange
  <2> QED BY <2>1, <2>2, PickedRange
<1>12. Cardinality(block.residual) \in Nat
  <2>1. IsFiniteSet(block.residual)
    <3>1. block.residual = {} \/ block.residual = {Value(block.residual)}
      BY ValueIs DEF IsBridge
    <3> QED BY <3>1, FS_EmptySet, FS_Singleton
  <2> QED BY <2>1, FS_CardinalityType
<1> QED BY <1>2, <1>8, <1>9, <1>10, <1>11, <1>12 DEF n

\* Segments and total lie on the track.
LEMMA BridgeHolds ==
    ASSUME NEW block, IsBridge(block)
    PROVE  BridgeIsOnTheTrack(block)
<1> SUFFICES ASSUME BridgeIsDrawn(block) PROVE BridgeIsOnTheTrack(block)
  BY DEF BridgeIsOnTheTrack
<1> DEFINE parts == BridgeSegments(block)
           n == Len(parts)
           values == [j \in DOMAIN parts |-> Value(parts[j])]
           upTo(i) == [j \in 1..(i - 1) |-> Value(parts[j])]
           positions == BridgePositions(block)
           total == Value(block.total)
           places == positions \o <<total>>
           high == Highest(places)
           low == Lowest(places)
           track == BridgeTrack(block)
<1>1. /\ parts \in Seq(KnownFigures)
      /\ n + BridgeDropped(block) = Len(block.effects) + Cardinality(block.residual)
  BY SegmentsAre
<1>2. n \in Nat /\ DOMAIN parts = 1..n /\ \A j \in 1..n : Value(parts[j]) \in Int
  <2>1. \A j \in 1..n : parts[j] \in KnownFigures
    BY <1>1, ElementOfSeq
  <2>2. \A f \in KnownFigures : Value(f) \in Int
    BY ValueIs DEF KnownFigures
  <2> QED BY <1>1, <2>1, <2>2, LenProperties
<1>3. total \in Int
  BY ValueIs DEF BridgeIsDrawn, IsBridge
<1>4. \A i \in 1..(n + 1) : upTo(i) \in Seq(Int) /\ Len(upTo(i)) = i - 1
  <2> SUFFICES ASSUME NEW i \in 1..(n + 1)
          PROVE upTo(i) \in Seq(Int) /\ Len(upTo(i)) = i - 1
    OBVIOUS
  <2>1. i - 1 \in Nat /\ \A j \in 1..(i - 1) : j \in 1..n
    BY <1>2
  <2>2. upTo(i) \in [1..(i - 1) -> Int]
    BY <1>2, <2>1
  <2> DEFINE u == upTo(i)
             m == i - 1
  <2> HIDE DEF u, m
  <2>3. u \in Seq(Int) /\ DOMAIN u = 1..m
    BY <2>1, <2>2, FunctionIsSeq DEF u, m
  <2>4. Len(u) = m
    BY <2>1, <2>3, LenProperties DEF m
  <2> QED BY <2>3, <2>4 DEF u, m
<1> HIDE DEF n
<1>5. positions = [i \in 1..(n + 1) |-> Total(upTo(i))]
  BY DEF BridgePositions, n
<1>6. positions[1] = 0 /\ 1 \in 1..(n + 1)
  <2>1. 1 \in 1..(n + 1) /\ 1 - 1 = 0
    BY <1>2
  <2>2. upTo(1) \in Seq(Int) /\ Len(upTo(1)) = 0
    BY <1>4, <2>1
  <2> HIDE DEF upTo, positions
  <2> QED BY <1>5, <2>1, <2>2, TotalOfNothing
<1>7. positions \in [1..(n + 1) -> Int]
  <2> HIDE DEF upTo, positions
  <2>1. \A i \in 1..(n + 1) : Total(upTo(i)) \in Int
    BY <1>4, TotalType
  <2> QED BY <1>5, <2>1
<1> HIDE DEF positions, total, parts
<1>8. positions \in Seq(Int) /\ Len(positions) = n + 1
  <2>1. n + 1 \in Nat
    BY <1>2
  <2>2. positions \in Seq(Int) /\ DOMAIN positions = 1..(n + 1)
    BY <1>7, <2>1, FunctionIsSeq
  <2> QED BY <2>1, <2>2, LenProperties
<1>9. /\ places \in Seq(Int) /\ Len(places) = n + 2
      /\ \A i \in 1..(n + 1) : places[i] = positions[i]
      /\ places[n + 2] = total
  <2> DEFINE last == <<total>>
  <2>1. last \in Seq(Int) /\ Len(last) = 1 /\ last[1] = total
    BY <1>3
  <2> HIDE DEF last
  <2>2. /\ positions \o last \in Seq(Int)
               /\ Len(positions \o last) = Len(positions) + Len(last)
        /\ \A i \in 1..(Len(positions) + Len(last)) :
              (positions \o last)[i] = IF i <= Len(positions) THEN positions[i]
                                       ELSE last[i - Len(positions)]
    BY <1>8, <2>1, ConcatProperties
  <2>3. /\ n + 2 \in 1..(n + 2) /\ ~(n + 2 <= n + 1) /\ (n + 2) - (n + 1) = 1
        /\ Len(positions) + Len(last) = n + 2
        /\ \A i \in 1..(n + 1) : i \in 1..(n + 2) /\ i <= n + 1
    BY <1>2, <1>8, <2>1
  <2>4. places = positions \o last
    BY DEF last
  <2> HIDE DEF places
  <2> QED BY <1>8, <2>1, <2>2, <2>3, <2>4
<1> HIDE DEF places
<1>10. /\ high \in Range(places) /\ \A m \in Range(places) : m <= high
       /\ low \in Range(places) /\ \A m \in Range(places) : low <= m
       /\ high \in Int /\ low \in Int /\ low <= high
  <2>1. Len(places) # 0
    BY <1>2, <1>9
  <2> QED BY <1>9, <2>1, ExtremesAre
<1>11. track = [low |-> low, high |-> IF high = low THEN high + 1 ELSE high]
  BY DEF BridgeTrack, places, positions, total
<1> HIDE DEF high, low, track
<1>12. track.low = low /\ track.low < track.high /\ track.low \in Int
           /\ track.high \in Int
         /\ high <= track.high
  BY <1>10, <1>11
<1>13. \A place \in {0, total} \cup Range(positions) : place \in Range(places)
  <2>1. DOMAIN places = 1..(n + 2) /\ Range(places) = {places[i] : i \in 1..(n + 2)}
    BY <1>9, LenProperties DEF Range
  <2>2. n + 2 \in 1..(n + 2) /\ \A i \in 1..(n + 1) : i \in 1..(n + 2)
    BY <1>2
  <2>3. Range(positions) = {positions[i] : i \in 1..(n + 1)}
    BY <1>7 DEF Range
  <2>4. total \in Range(places) /\ \A i \in 1..(n + 1) : positions[i] \in Range(places)
    BY <1>9, <2>1, <2>2
  <2>5. 0 \in Range(places)
    BY <1>6, <2>4
  <2> QED BY <2>3, <2>4, <2>5
<1>14. \A m \in Range(places) : m \in Int
  BY <1>9, RangeOfSeq
<1>15. \A place \in {0, total} \cup Range(positions) :
          track.low <= place /\ place <= track.high
  <2> SUFFICES ASSUME NEW place \in {0, total} \cup Range(positions)
               PROVE  track.low <= place /\ place <= track.high
    OBVIOUS
  <2>1. place \in Range(places) /\ place \in Int
    BY <1>13, <1>14
  <2>2. low <= place /\ place <= high
    BY <1>10, <2>1
  <2> QED BY <1>10, <1>12, <2>1, <2>2
<1>16. n = Len(BridgeSegments(block)) /\ total = Value(block.total)
         /\ track = BridgeTrack(block) /\ positions = BridgePositions(block)
  BY DEF n, parts, total, track, positions
<1> QED BY <1>1, <1>12, <1>15, <1>16 DEF BridgeIsOnTheTrack

\* What never falls from one place to the next never falls.
LEMMA NeverFalling ==
    ASSUME NEW n \in Nat, NEW f, \A i \in 1..n : f[i] \in Int,
           \A i \in 1..(n - 1) : f[i] <= f[i + 1],
           NEW i \in 1..n, NEW j \in 1..n, i <= j
    PROVE  f[i] <= f[j]
<1> DEFINE T == {d \in Nat : i + d <= n => f[i] <= f[i + d]}
<1>1. 0 \in T
  BY DEF T
<1>2. ASSUME NEW k \in 0..(j - i), NEW m \in 0..(j - i), k \in T, m = k + 1
      PROVE  m \in T
  <2>1. /\ k \in Nat /\ m \in Nat /\ i + k \in 1..(n - 1) /\ (i + k) + 1 = i + m
        /\ i + k <= n /\ i + k \in 1..n /\ i + m \in 1..n
    BY <1>2
  <2>2. f[i] <= f[i + k] /\ f[i + k] <= f[i + m]
    BY <1>2, <2>1
  <2>3. f[i] \in Int /\ f[i + k] \in Int /\ f[i + m] \in Int
    BY <2>1
  <2> QED BY <2>1, <2>2, <2>3
<1>3. j - i \in T
  <2>1. j - i \in Nat
    OBVIOUS
  <2> HIDE DEF T
  <2> QED BY <1>1, <1>2, <2>1, Climb
<1>4. i + (j - i) = j
  OBVIOUS
<1> QED BY <1>3, <1>4

\* A trend that is drawn is drawn of its slots.
LEMMA TrendHolds ==
    ASSUME NEW series, IsTrend(series)
    PROVE  TrendIsStated(series)
<1> SUFFICES ASSUME TrendIsPlaced(series) PROVE TrendIsStated(series)
  BY DEF TrendIsStated
<1> DEFINE N == Len(series)
           places == [i \in DOMAIN series |-> i]
           P == {i \in DOMAIN series : ~SlotIsGap(series[i])}
           order == Picked(places, P)
           n == Cardinality(P)
           heights == [i \in DOMAIN order |-> Value(series[order[i]].value)]
           dots == TrendDots(series)
<1>1. N \in Nat /\ DOMAIN series = 1..N /\ \A i \in 1..N : series[i] \in Range(series)
  <2>1. N \in Nat /\ DOMAIN series = 1..N
    BY LenProperties DEF IsTrend
  <2> QED BY <2>1 DEF Range
<1>2. /\ \A i \in 1..N : SlotIsRead(series[i])
      /\ \A i \in 1..(N - 1) : Value(series[i].date) <= Value(series[i + 1].date)
      /\ n >= 2
  BY <1>1 DEF TrendIsPlaced
<1>3. \A i \in 1..N : /\ IsFigure(series[i].date) /\ IsFigure(series[i].value)
                      /\ series[i].date # {} /\ series[i].unread \in BOOLEAN
  BY <1>1, <1>2 DEF IsTrend, SlotIsRead
<1>4. \A i \in 1..N : i \in P <=> series[i].value # {}
  <2> SUFFICES ASSUME NEW i \in 1..N PROVE i \in P <=> series[i].value # {}
    OBVIOUS
  <2>1. SlotIsRead(series[i])
    BY <1>2
  <2> QED BY <1>1, <2>1 DEF SlotIsRead, SlotIsGap
<1>5. P \in SUBSET (1..N) /\ P \in SUBSET Int /\ IsFiniteSet(P)
  <2>1. P \in SUBSET (1..N) /\ P \in SUBSET Int /\ IsFiniteSet(1..N)
    BY <1>1, FS_Interval
  <2> HIDE DEF P
  <2> QED BY <2>1, FS_Subset
<1>6. PICK p : Picks(p, places, P)
  BY <1>5, PickedIs
<1> HIDE DEF P
<1>7. /\ n \in Nat /\ p \in [1..n -> P]
      /\ \A i \in P : \E k \in 1..n : p[k] = i
      /\ \A k, l \in 1..n : k < l => p[k] < p[l]
      /\ order = [k \in 1..n |-> places[p[k]]]
  BY <1>6 DEF Picks
<1>8. \A k \in 1..n : p[k] \in P /\ p[k] \in 1..N /\ places[p[k]] = p[k] /\ p[k] \in Int
  <2> SUFFICES ASSUME NEW k \in 1..n
               PROVE  p[k] \in P /\ p[k] \in 1..N /\ places[p[k]] = p[k] /\ p[k] \in Int
    OBVIOUS
  <2>1. p[k] \in P
    BY <1>7
  <2> QED BY <1>1, <1>5, <2>1
<1> HIDE DEF places, order, n
<1>9. DOMAIN order = 1..n /\ \A k \in 1..n : order[k] = p[k]
  BY <1>7, <1>8
<1>10. \A k \in 1..n : Value(series[p[k]].value) \in Int
  BY <1>3, <1>4, <1>8, ValueIs
<1>11. heights = [k \in 1..n |-> Value(series[p[k]].value)]
  BY <1>9
<1> HIDE DEF heights
<1>12. heights \in Seq(Int) /\ Len(heights) = n /\ \A k \in 1..n : heights[k] \in Int
  <2>1. heights \in [1..n -> Int]
    BY <1>10, <1>11
  <2>2. heights \in Seq(Int) /\ DOMAIN heights = 1..n
    BY <1>7, <2>1, FunctionIsSeq
  <2> QED BY <1>7, <2>1, <2>2, LenProperties
<1>13. Highest(heights) \in Int
  BY <1>2, <1>7, <1>12, ExtremesAre DEF n
<1>14. dots = [k \in 1..n |-> [at |-> p[k], below |-> Highest(heights) - heights[k]]]
  <2>1. dots = [i \in DOMAIN order |-> [at |-> order[i],
                                        below |-> Highest(heights) - heights[i]]]
    BY DEF TrendDots, heights, order, places, P
  <2> HIDE DEF dots
  <2> QED BY <1>9, <2>1
<1> HIDE DEF dots
<1>15. /\ DOMAIN dots = 1..n
       /\ \A k \in 1..n : /\ dots[k].at = p[k]
                          /\ dots[k].below = Highest(heights) - Value(series[p[k]].value)
  BY <1>11, <1>14
<1>16. Len(dots) >= 2
  <2> DEFINE R == [at : Int, below : Int]
  <2>1. dots \in [1..n -> R]
    BY <1>8, <1>12, <1>13, <1>14
  <2> HIDE DEF R
  <2>2. dots \in Seq(R)
    BY <1>7, <2>1, FunctionIsSeq
  <2>3. Len(dots) = n
    BY <1>7, <1>15, <2>2, LenProperties
  <2> QED BY <1>2, <2>3 DEF n
<1>17. Range(dots) = {dots[k] : k \in 1..n}
  BY <1>15 DEF Range
<1>18. \A i \in DOMAIN series :
          (\E d \in Range(dots) : d.at = i) <=> series[i].value # {}
  <2> SUFFICES ASSUME NEW i \in 1..N
               PROVE  (\E d \in Range(dots) : d.at = i) <=> series[i].value # {}
    BY <1>1
  <2>1. (\E d \in Range(dots) : d.at = i) <=> \E k \in 1..n : p[k] = i
    BY <1>15, <1>17
  <2>2. (\E k \in 1..n : p[k] = i) <=> i \in P
    BY <1>7, <1>8
  <2> QED BY <1>4, <2>1, <2>2
<1>19. ASSUME NEW i \in DOMAIN dots, NEW j \in DOMAIN dots, i < j
       PROVE  /\ dots[i].at < dots[j].at
              /\ Value(series[dots[i].at].date) <= Value(series[dots[j].at].date)
  <2>1. p[i] < p[j] /\ p[i] \in 1..N /\ p[j] \in 1..N
    BY <1>7, <1>8, <1>15, <1>19
  <2> DEFINE f == [k \in 1..N |-> Value(series[k].date)]
  <2>2. \A k \in 1..N : f[k] \in Int
    BY <1>3, ValueIs
  <2>3. \A k \in 1..(N - 1) : f[k] <= f[k + 1]
    <3>1. \A k \in 1..(N - 1) : k \in 1..N /\ k + 1 \in 1..N
      BY <1>1
    <3> QED BY <1>2, <3>1
  <2>4. p[i] <= p[j]
    BY <1>1, <2>1
  <2>5. f[p[i]] <= f[p[j]]
    <3> HIDE DEF f, N
    <3> QED BY <1>1, <2>1, <2>2, <2>3, <2>4, NeverFalling
  <2> QED BY <1>15, <2>1, <2>5
<1>20. ASSUME NEW d \in Range(dots), NEW e \in Range(dots)
       PROVE  Value(series[d.at].value) - Value(series[e.at].value) = e.below - d.below
  <2>1. PICK k \in 1..n : d = dots[k]
    BY <1>17
  <2>2. PICK l \in 1..n : e = dots[l]
    BY <1>17
  <2> DEFINE a == Value(series[p[k]].value)
             b == Value(series[p[l]].value)
  <2>3. a \in Int /\ b \in Int
    BY <1>10
  <2>4. /\ Value(series[d.at].value) = a /\ d.below = Highest(heights) - a
        /\ Value(series[e.at].value) = b /\ e.below = Highest(heights) - b
    BY <1>15, <2>1, <2>2
  <2> HIDE DEF a, b
  <2> QED BY <1>13, <2>3, <2>4
<1> QED BY <1>16, <1>18, <1>19, <1>20 DEF TrendIsStated, dots

-----------------------------------------------------------------------------
(* Drawdowns *)

\* Steps of an axis reach the depth, in four unless all was lost.
LEMMA GridReaches ==
    ASSUME NEW depth \in Nat
    PROVE  /\ depth <= GridlineCount(depth) * AxisStep(depth)
           /\ GridlineCount(depth) * AxisStep(depth) \in Nat
           /\ depth <= 1000 => GridlineCount(depth) <= 4
<1> DEFINE reaching == {i \in DOMAIN AxisSteps : depth <= 4 * AxisSteps[i]}
           least == CHOOSE i \in reaching : \A j \in reaching : i <= j
           step == AxisStep(depth)
           count == (depth + step - 1) \div step
<1>1. /\ DOMAIN AxisSteps = 1..7 /\ AxisSteps[1] = 10 /\ AxisSteps[2] = 20
      /\ AxisSteps[3] = 50 /\ AxisSteps[4] = 100 /\ AxisSteps[5] = 200
      /\ AxisSteps[6] = 500 /\ AxisSteps[7] = 1000 /\ Last(AxisSteps) = 1000
  BY DEF AxisSteps, Last
<1>2. /\ step \in {10, 20, 50, 100, 200, 500, 1000}
      /\ depth <= 1000 => depth <= 4 * step
  <2>1. CASE reaching = {}
    <3>1. step = 1000
      BY <1>1, <2>1 DEF AxisStep
    <3> HIDE DEF step
    <3> QED BY <3>1
  <2>2. CASE reaching # {}
    <3>1. reaching \in SUBSET Nat
      BY <1>1
    <3>2. least \in reaching
      <4> HIDE DEF reaching
      <4>1. \E m \in reaching : \A k \in reaching : m <= k
        BY <2>2, <3>1, LeastNatural
      <4> QED BY <4>1
    <3>3. step = AxisSteps[least]
      BY <2>2 DEF AxisStep
    <3> HIDE DEF step, least
    <3>4. least \in 1..7 /\ depth <= 4 * AxisSteps[least]
      BY <1>1, <3>2
    <3> QED BY <1>1, <3>3, <3>4
  <2> QED BY <2>1, <2>2
<1>3. GridlineCount(depth) = IF count = 0 THEN 1 ELSE count
  BY DEF GridlineCount
<1> HIDE DEF step
<1>4. ASSUME NEW c \in {10, 20, 50, 100, 200, 500, 1000}
      PROVE  LET n == (depth + c - 1) \div c
             IN  n \in Nat /\ depth <= n * c /\ (depth <= 4 * c => n <= 4)
  OBVIOUS
<1>5. count \in Nat /\ depth <= count * step /\ (depth <= 4 * step => count <= 4)
  BY <1>2, <1>4
<1> HIDE DEF count
<1>6. CASE count = 0
  BY <1>2, <1>3, <1>5, <1>6 DEF step
<1>7. CASE count # 0
  BY <1>2, <1>3, <1>5, <1>7 DEF step
<1> QED BY <1>6, <1>7

\* The places of the depths of a sequence of readings.
LEMMA UsablePlaces ==
    ASSUME NEW s, NEW n \in Nat, DOMAIN s = 1..n, \A i \in 1..n : IsReading(s[i])
    PROVE  /\ DepthPlaces(s) \in SUBSET (1..n) /\ DepthPlaces(s) \in SUBSET Int
           /\ IsFiniteSet(DepthPlaces(s))
           /\ \A i \in DepthPlaces(s) : IsReading(s[i]) /\ IsDepth(s[i])
<1>1. DepthPlaces(s) \in SUBSET (1..n) /\ DepthPlaces(s) \in SUBSET Int
  BY DEF DepthPlaces
<1>2. IsFiniteSet(DepthPlaces(s))
  <2>1. IsFiniteSet(1..n)
    BY FS_Interval
  <2> QED BY <1>1, <2>1, FS_Subset
<1>3. \A i \in DepthPlaces(s) : IsReading(s[i]) /\ IsDepth(s[i])
  BY <1>1 DEF DepthPlaces
<1> QED BY <1>1, <1>2, <1>3

\* A chart that is drawn has two points or more, each a number at or below
\* zero and none below the deepest.
LEMMA DrawnPointsAre ==
    ASSUME NEW panel, IsDrawdown(panel),
           UnderwaterChart(DrawdownPoints(panel.points)) = "drawn"
    PROVE  LET points == DrawdownPoints(panel.points)
               depths == [i \in DOMAIN points |-> -points[i].of]
           IN  /\ Highest(depths) \in Nat
               /\ \A p \in Range(points) :
                     p.is = "number" /\ p.of \in Int /\ p.of <= 0 /\ -p.of <= Highest(depths)
<1> DEFINE s == panel.points
           P == DepthPlaces(s)
           Low == {d \in Range(s) : IsReading(d) /\ IsDepth(d)}
           points == DrawdownPoints(s)
           n == Len(points)
           depths == [i \in DOMAIN points |-> -points[i].of]
<1>1. /\ P \in SUBSET Int /\ IsFiniteSet(P) /\ P \in SUBSET DOMAIN s
      /\ \A i \in P : IsReading(s[i]) /\ IsDepth(s[i])
  <2>1. /\ DOMAIN s = 1..Len(s) /\ Len(s) \in Nat
        /\ \A i \in 1..Len(s) : IsReading(s[i])
    BY LenProperties, ElementOfSeq DEF IsDrawdown
  <2> QED BY <2>1, UsablePlaces
<1>2. \A i \in P : s[i] \in Low
  BY <1>1 DEF Range
<1> HIDE DEF Low, P
<1>3. points \in Seq(Low)
  BY <1>1, <1>2, PickedRange DEF DrawdownPoints, P
<1>4. UnderwaterChart(points) = "drawn"
  OBVIOUS
<1> HIDE DEF points
<1>5. n \in Nat /\ DOMAIN points = 1..n /\ \A i \in 1..n : points[i] \in Low
  BY <1>3, LenProperties, ElementOfSeq
<1>6. n >= 2 /\ \A p \in Range(points) : p.is \notin {"nan", "-inf"}
  BY <1>4, <1>5 DEF UnderwaterChart
<1>7. \A p \in Range(points) : p.is = "number" /\ p.of \in Int /\ p.of <= 0
  <2>1. \A p \in Range(points) : p \in Low
    BY <1>5 DEF Range
  <2> QED BY <1>6, <2>1 DEF Low, IsReading, IsDepth
<1> HIDE DEF n
<1>8. \A i \in 1..n : points[i] \in Range(points) /\ -points[i].of \in Nat
  BY <1>5, <1>7 DEF Range
<1>9. depths \in [1..n -> Int] /\ \A i \in 1..n : depths[i] = -points[i].of
  BY <1>5, <1>8
<1> HIDE DEF depths
<1>10. depths \in Seq(Int) /\ DOMAIN depths = 1..n
  BY <1>5, <1>9, FunctionIsSeq
<1>11. Len(depths) = n
  BY <1>5, <1>10, LenProperties
<1>12. Highest(depths) \in Range(depths) /\ \A m \in Range(depths) : m <= Highest(depths)
  BY <1>6, <1>10, <1>11, ExtremesAre
<1>13. Highest(depths) \in Nat
  BY <1>8, <1>9, <1>10, <1>12 DEF Range
<1>14. \A p \in Range(points) : -p.of \in Range(depths)
  <2>1. \A p \in Range(points) : \E i \in 1..n : points[i] = p
    BY <1>5 DEF Range
  <2> QED BY <1>9, <1>10, <2>1 DEF Range
<1> QED BY <1>7, <1>12, <1>13, <1>14 DEF depths, points

\* The episodes in the order of their depths, none of which is nan.
LEMMA EpisodesAre ==
    ASSUME NEW panel, IsDrawdown(panel),
           \A e \in Range(panel.episodes) : e.depth.is # "nan"
    PROVE  LET sorted == SortedEpisodes(panel.episodes)
               n == Len(sorted)
           IN  /\ n \in Nat /\ DOMAIN sorted = 1..n
               /\ sorted \in Seq(Range(panel.episodes))
               /\ \A i, j \in 1..n : i < j => sorted[i].depth.of <= sorted[j].depth.of
               /\ \A e \in Range(panel.episodes) :
                     IsDepth(e.depth) => \E i \in 1..n : sorted[i] = e
<1> DEFINE s == panel.episodes
           R == Range(s)
           d == Depths(s)
           P == DepthPlaces(d)
           Low == {e \in R : IsDepth(e.depth)}
           usable == Picked(s, P)
           keys == [i \in DOMAIN usable |-> usable[i].depth.of]
           n == Len(usable)
           sorted == SortedEpisodes(s)
<1>1. /\ Len(s) \in Nat /\ DOMAIN s = 1..Len(s) /\ \A i \in 1..Len(s) : s[i] \in R
  BY LenProperties, ElementOfSeq DEF IsDrawdown
<1>2. \A e \in R : e.depth.of \in Int
  <2>1. \A e \in R : e.depth \in Range(Depths(s))
    BY <1>1 DEF Depths, Range
  <2> QED BY <2>1 DEF IsDrawdown, IsReading
<1>3. P = {i \in 1..Len(s) : IsDepth(s[i].depth)}
  BY <1>1 DEF DepthPlaces, Depths
<1>4. P \in SUBSET (1..Len(s)) /\ P \in SUBSET Int /\ IsFiniteSet(1..Len(s))
  BY <1>1, <1>3, FS_Interval, SMTT(30)
<1>5. IsFiniteSet(P) /\ \A i \in P : s[i] \in Low
  <2>1. IsFiniteSet(P)
    <3> HIDE DEF P
    <3> QED BY <1>4, FS_Subset
  <2> QED BY <1>1, <1>3, <2>1
<1>6. \A e \in Low : \E i \in P : s[i] = e
  <2>1. \A e \in Low : \E i \in 1..Len(s) : s[i] = e
    BY <1>1 DEF Range
  <2> QED BY <1>3, <2>1
<1>7. \A e \in Low : e.depth.of \in Int /\ e \in R /\ e.depth.is # "nan"
  BY <1>2
<1>8. sorted = IF \E e \in Range(usable) : e.depth.is = "nan" THEN ListSort(usable)
               ELSE SortedBy(usable, keys)
  BY DEF SortedEpisodes
<1> HIDE DEF Low, P, R, sorted
<1>9. usable \in Seq(Low) /\ Range(usable) = {s[i] : i \in P}
  BY SMTT(30), <1>4, <1>5, PickedRange
<1> HIDE DEF usable
<1>10. /\ n \in Nat /\ DOMAIN usable = 1..n /\ \A i \in 1..n : usable[i] \in Low
  BY <1>9, LenProperties, ElementOfSeq
<1>11. keys \in [DOMAIN usable -> Int] /\ \A i \in 1..n : keys[i] = usable[i].depth.of
  BY <1>7, <1>10
<1> HIDE DEF keys
<1>12. sorted = SortedBy(usable, keys)
  <2>1. \A e \in Range(usable) : e \in Low
    BY <1>10 DEF Range
  <2> QED BY <1>7, <1>8, <2>1
<1>13. PICK p : Sorts(p, usable, keys)
  BY <1>9, <1>11, SortedIs
<1>14. /\ p \in [1..n -> 1..n]
       /\ \A i \in 1..n : \E k \in 1..n : p[k] = i
       /\ \A k, l \in 1..n : k < l => keys[p[k]] <= keys[p[l]]
       /\ sorted = [k \in 1..n |-> usable[p[k]]]
  BY <1>12, <1>13 DEF Sorts
<1> HIDE DEF n
<1>15. \A k \in 1..n : p[k] \in 1..n /\ sorted[k] = usable[p[k]] /\ sorted[k] \in Low
  BY <1>10, <1>14
<1>16. sorted \in [1..n -> Low]
  BY <1>14, <1>15
<1>17. sorted \in Seq(Low) /\ DOMAIN sorted = 1..n
  BY <1>10, <1>16, FunctionIsSeq
<1>18. Len(sorted) = n
  BY <1>10, <1>17, LenProperties
<1>19. sorted \in [1..n -> R]
  BY <1>7, <1>15, <1>16
<1>20. sorted \in Seq(R)
  BY <1>10, <1>19, FunctionIsSeq
<1>21. \A k, l \in 1..n : k < l => sorted[k].depth.of <= sorted[l].depth.of
  BY <1>11, <1>14, <1>15
<1>22. ASSUME NEW e \in R, IsDepth(e.depth)
       PROVE  \E k \in 1..n : sorted[k] = e
  <2>1. e \in Low
    BY <1>22 DEF Low
  <2>2. PICK i \in P : s[i] = e
    BY <1>6, <2>1
  <2>3. e \in Range(usable)
    BY <1>9, <2>2
  <2>4. PICK j \in 1..n : usable[j] = e
    BY <1>10, <2>3 DEF Range
  <2>5. PICK k \in 1..n : p[k] = j
    BY <1>14
  <2> QED BY <1>15, <2>4, <2>5
<1> QED BY <1>10, <1>17, <1>18, <1>20, <1>21, <1>22 DEF sorted, R

\* The episodes shown are the deepest, unless a depth is nan, and how many
\* there are is stated when there are more.
LEMMA DeepestHold ==
    ASSUME NEW panel, IsDrawdown(panel),
           \A e \in Range(panel.episodes) : e.depth.is # "nan"
    PROVE  /\ DeepestAreShown(panel)
           /\ PresentedEpisodes(panel.episodes).of = {}
                <=> Len(SortedEpisodes(panel.episodes))
                      = Len(PresentedEpisodes(panel.episodes).shown)
<1> DEFINE presented == PresentedEpisodes(panel.episodes)
           sorted == SortedEpisodes(panel.episodes)
           n == Len(sorted)
           count == IF n > PresentedEpisodeLimit THEN PresentedEpisodeLimit ELSE n
<1>1. /\ n \in Nat /\ DOMAIN sorted = 1..n
      /\ sorted \in Seq(Range(panel.episodes))
      /\ \A i, j \in 1..n : i < j => sorted[i].depth.of <= sorted[j].depth.of
      /\ \A e \in Range(panel.episodes) :
            IsDepth(e.depth) => \E i \in 1..n : sorted[i] = e
  BY EpisodesAre
<1>2. presented = [shown |-> SubSeq(sorted, 1, count),
                   of |-> IF n > PresentedEpisodeLimit THEN {n} ELSE {}]
  BY DEF PresentedEpisodes
<1>3. count \in 0..n /\ (n > 3 => count = 3) /\ (n <= 3 => count = n)
  BY <1>1 DEF PresentedEpisodeLimit
<1> HIDE DEF sorted, presented
<1>4. /\ Len(presented.shown) = count /\ DOMAIN presented.shown = 1..count
      /\ \A i \in 1..count : presented.shown[i] = sorted[i]
      /\ Range(presented.shown) = {sorted[i] : i \in 1..count}
  <2> DEFINE u == SubSeq(sorted, 1, count)
  <2>1. \A i \in 1..count : sorted[i] \in Range(panel.episodes)
    BY <1>1, <1>3, ElementOfSeq
  <2> HIDE DEF n, count
  <2>2. /\ u \in Seq(Range(panel.episodes))
               /\ Len(u) = IF 1 <= count THEN count - 1 + 1 ELSE 0
        /\ \A i \in 1..(count - 1 + 1) : u[i] = sorted[1 + i - 1]
    BY <1>1, <1>3, <2>1, SubSeqProperties
  <2> HIDE DEF u
  <2>3. Len(u) = count /\ \A i \in 1..count : u[i] = sorted[i]
    BY <1>1, <1>3, <2>2
  <2>4. DOMAIN u = 1..count
    BY <2>2, <2>3, LenProperties
  <2>5. Range(u) = {sorted[i] : i \in 1..count}
    BY <2>3, <2>4 DEF Range
  <2>6. u = presented.shown
    BY <1>2 DEF u
  <2> QED BY <2>3, <2>4, <2>5, <2>6
<1>5. ASSUME NEW shown \in Range(presented.shown), NEW e \in Range(panel.episodes),
             IsDepth(e.depth), Less(e.depth, shown.depth)
      PROVE  e \in Range(presented.shown)
  <2>1. PICK i \in 1..count : shown = sorted[i]
    BY <1>4
  <2>2. i \in 1..n
    BY <1>3, <2>1
  <2>3. PICK j \in 1..n : sorted[j] = e
    BY <1>1, <1>5
  <2>4. sorted[j].depth.of < sorted[i].depth.of
    BY <1>5, <2>1, <2>3 DEF Less
  <2>5. \A k \in 1..n : sorted[k].depth.of \in Int
    <3>1. \A k \in 1..n : sorted[k] \in Range(panel.episodes)
      BY <1>1, ElementOfSeq
    <3>2. \A f \in Range(panel.episodes) : f.depth \in Range(Depths(panel.episodes))
      BY DEF Depths, Range
    <3> QED BY <3>1, <3>2 DEF IsDrawdown, IsReading
  <2>6. ~(i < j) /\ i # j
    BY <1>1, <2>2, <2>3, <2>4, <2>5
  <2>7. j \in 1..count
    BY <1>1, <1>3, <2>2, <2>3, <2>6
  <2> QED BY <1>4, <2>3, <2>7
<1>6. presented.of = {} <=> n = Len(presented.shown)
  <2>1. presented.of = IF n > 3 THEN {n} ELSE {}
    BY <1>2 DEF PresentedEpisodeLimit
  <2>2. Len(presented.shown) = count
    BY <1>4
  <2> HIDE DEF n, count
  <2>3. n > 3 \/ n <= 3
    BY <1>1
  <2>4. n > 3 => presented.of = {n} /\ n # count
    BY <1>1, <1>3, <2>1
  <2>5. n <= 3 => presented.of = {} /\ n = count
    BY <1>1, <1>3, <2>1
  <2> QED BY <2>2, <2>3, <2>4, <2>5
<1> QED BY <1>5, <1>6 DEF DeepestAreShown, sorted, presented

\* The points of a chart are on its axis and the episodes shown the deepest.
LEMMA DrawdownHolds ==
    ASSUME NEW panel, IsDrawdown(panel)
    PROVE  DrawdownsAreTheDeepest(panel)
<1> DEFINE points == DrawdownPoints(panel.points)
           deepest == Highest([i \in DOMAIN points |-> -points[i].of])
           axis == GridlineCount(deepest) * AxisStep(deepest)
<1>1. ASSUME UnderwaterChart(points) = "drawn"
      PROVE  /\ \A p \in Range(points) : p.is = "number" /\ p.of \in (-axis)..0
             /\ deepest <= 1000 => GridlineCount(deepest) <= 4
  <2>1. /\ deepest \in Nat
        /\ \A p \in Range(points) :
              p.is = "number" /\ p.of \in Int /\ p.of <= 0 /\ -p.of <= deepest
    BY <1>1, DrawnPointsAre
  <2> HIDE DEF deepest
  <2>2. deepest <= axis /\ axis \in Nat /\ (deepest <= 1000 => GridlineCount(deepest) <= 4)
    BY <2>1, GridReaches
  <2> HIDE DEF axis, points
  <2> QED BY <2>1, <2>2
<1> QED BY <1>1, DeepestHold DEF DrawdownsAreTheDeepest

-----------------------------------------------------------------------------
(* The axis of the chart *)

\* The steps an axis may have.
Steps == {5, 10, 20, 25, 50, 100, 200, 250, 500, 1000}

\* Of a bound below zero and one above, both in whole steps.
LEMMA ZeroIsReached ==
    ASSUME NEW c \in Steps, NEW l \in Int, NEW h \in Int, l <= -1, 1 <= h
    PROVE  LET q == (10 * l) \div c
               last == (2 * (10 * h - q * c) + c) \div (2 * c)
           IN  /\ q \in Int /\ q <= -1 /\ last \in Int /\ -q <= last
               /\ q * c + (((-q) + 1) - 1) * c = 0
BY DEF Steps

\* A chart of a series reaches below zero and above it.
LEMMA BoundsAroundZero ==
    ASSUME NEW series \in Seq(Int)
    PROVE  /\ ChartBounds(series).low \in Int /\ ChartBounds(series).low <= -1
           /\ ChartBounds(series).high \in Int /\ 1 <= ChartBounds(series).high
<1> DEFINE values == <<0>> \o series
           high == Highest(values)
           low == Lowest(values)
           spread == 15 * (high - low)
           padding == IF spread > 800 THEN spread ELSE 800
<1>1. values \in Seq(Int) /\ Len(values) # 0 /\ 0 \in Range(values)
  <2> DEFINE first == <<0>>
  <2>1. first \in Seq(Int) /\ Len(first) = 1 /\ first[1] = 0
    OBVIOUS
  <2> HIDE DEF first
  <2>2. /\ first \o series \in Seq(Int) /\ Len(first \o series) = Len(first) + Len(series)
        /\ \A i \in 1..(Len(first) + Len(series)) : (first \o series)[i] =
              IF i <= Len(first) THEN first[i] ELSE series[i - Len(first)]
    BY <2>1, ConcatProperties
  <2>3. Len(series) \in Nat
    BY LenProperties
  <2>4. values = first \o series
    BY DEF first
  <2> HIDE DEF values
  <2>5. values[1] = 0 /\ 1 \in 1..Len(values)
    BY <2>1, <2>2, <2>3, <2>4
  <2>6. DOMAIN values = 1..Len(values)
    BY <2>2, <2>4, LenProperties
  <2>7. 0 \in Range(values)
    BY <2>5, <2>6 DEF Range
  <2> QED BY <2>2, <2>4, <2>5, <2>7
<1>2. ChartBounds(series) = [low |-> FloorPercent(100 * low - padding),
                             high |-> CeilingPercent(100 * high + padding)]
  BY DEF ChartBounds
<1> HIDE DEF values
<1>3. low \in Int /\ high \in Int /\ low <= 0 /\ 0 <= high
  BY <1>1, ExtremesAre
<1> HIDE DEF low, high
<1>4. padding \in Int /\ padding >= 800
  BY <1>3
<1> HIDE DEF padding
<1>5. 100 * low - padding \in Int /\ 100 * low - padding <= -800
        /\ 100 * high + padding \in Int /\ 100 * high + padding >= 800
  BY <1>3, <1>4
<1>6. \A n \in Int : /\ n <= -800 => n \div 1000 \in Int /\ n \div 1000 <= -1
                     /\ n >= 800 => -((-n) \div 1000) \in Int /\ -((-n) \div 1000) >= 1
  OBVIOUS
<1> QED BY <1>2, <1>5, <1>6 DEF FloorPercent, CeilingPercent

\* The step of a chart is one of the round ones.
LEMMA StepIsRound ==
    ASSUME NEW span \in Int, span <= Last(NiceSteps) * (TickCount - 1)
    PROVE  NiceStep(span) \in Steps
<1>1. /\ DOMAIN NiceSteps = 1..10 /\ Last(NiceSteps) = NiceSteps[10]
      /\ \A i \in 1..10 : NiceSteps[i] \in Steps
  <2>1. DOMAIN NiceSteps = 1..10 /\ Last(NiceSteps) = NiceSteps[10]
    BY DEF NiceSteps, Last
  <2>2. \A i \in 1..10 : NiceSteps[i] \in Steps
    BY DEF NiceSteps, Steps
  <2> QED BY <2>1, <2>2
<1> DEFINE U == {i \in 1..10 : span <= NiceSteps[i] * (TickCount - 1)}
           Right(i) == /\ span <= NiceSteps[i] * (TickCount - 1)
                       /\ \A j \in 1..(i - 1) : span > NiceSteps[j] * (TickCount - 1)
<1>2. U \in SUBSET Nat /\ U # {}
  BY <1>1
<1>3. PICK m \in U : \A k \in U : m <= k
  BY <1>2, LeastNatural
<1>4. m \in 1..10 /\ Right(m)
  <2>1. \A j \in 1..(m - 1) : j \notin U /\ j \in 1..10
    BY <1>3
  <2>2. \A j \in 1..10 : NiceSteps[j] * (TickCount - 1) \in Int
    BY <1>1 DEF Steps, TickCount
  <2> QED BY <1>3, <2>1, <2>2
<1>5. NiceStep(span) = NiceSteps[CHOOSE i \in 1..10 : Right(i)]
  BY <1>1 DEF NiceStep
<1> HIDE DEF Right
<1>6. (CHOOSE i \in 1..10 : Right(i)) \in 1..10
  BY <1>4
<1> QED BY <1>1, <1>5, <1>6

\* An axis has a tick at zero.
LEMMA AxisHolds ==
    ASSUME NEW series, IsSeries(series)
    PROVE  AxisHasZero(series)
<1> DEFINE bounds == ChartBounds(series)
           l == bounds.low
           h == bounds.high
           c == NiceStep(10 * (h - l))
           q == (10 * l) \div c
           last == (2 * (10 * h - q * c) + c) \div (2 * c)
           ticks == [i \in 1..(last + 1) |-> q * c + (i - 1) * c]
<1>1. l \in Int /\ l <= -1 /\ h \in Int /\ 1 <= h
  BY BoundsAroundZero DEF IsSeries
<1>2. c \in Steps
  <2>1. 10 * (h - l) \in Int /\ 10 * (h - l) <= Last(NiceSteps) * (TickCount - 1)
    BY <1>1 DEF IsSeries
  <2> HIDE DEF bounds, l, h
  <2> QED BY <2>1, StepIsRound
<1>3. NiceTicks(bounds) = ticks
  BY DEF NiceTicks
<1> HIDE DEF l, h, c
<1>4. q \in Int /\ q <= -1 /\ last \in Int /\ -q <= last
          /\ q * c + (((-q) + 1) - 1) * c = 0
  BY <1>1, <1>2, ZeroIsReached
<1>5. \A i \in Int : q * c + (i - 1) * c \in Int
  BY <1>2, <1>4 DEF Steps
<1> HIDE DEF q, last, bounds
<1>6. last + 1 \in Nat /\ (-q) + 1 \in 1..(last + 1) /\ last + 1 >= 2
  BY <1>4
<1>7. ticks \in [1..(last + 1) -> Int] /\ ticks[(-q) + 1] = 0
  BY <1>4, <1>5, <1>6
<1> HIDE DEF ticks
<1>8. ticks \in Seq(Int) /\ DOMAIN ticks = 1..(last + 1)
  BY <1>6, <1>7, FunctionIsSeq
<1>9. Len(ticks) = last + 1
  BY <1>6, <1>8, LenProperties
<1>10. ChartAxis(series) = ticks
  <2>1. ~(Len(ticks) < 2)
    BY <1>6, <1>9
  <2> QED BY <1>3, <2>1 DEF ChartAxis, bounds
<1>11. 0 \in Range(ticks)
  BY <1>6, <1>7, <1>8 DEF Range
<1> QED BY <1>10, <1>11 DEF AxisHasZero

-----------------------------------------------------------------------------
(* Totals of what is arranged *)

\* Without one of the numbers the total is less by it.
LEMMA TotalWithout ==
    ASSUME NEW s \in Seq(Int), NEW n \in Nat, Len(s) = n + 1, NEW q \in 1..(n + 1)
    PROVE  LET u == [k \in 1..n |-> IF k < q THEN s[k] ELSE s[k + 1]]
           IN  u \in Seq(Int) /\ Len(u) = n /\ Total(s) = Total(u) + s[q]
<1> DEFINE u == [k \in 1..n |-> IF k < q THEN s[k] ELSE s[k + 1]]
<1>1. PICK f : Adds(f, s)
  BY SumsExist
<1> DEFINE g == [i \in 0..n |-> IF i < q THEN f[i] ELSE f[i + 1] - s[q]]
<1>2. /\ f \in [0..(n + 1) -> Int] /\ f[0] = 0
      /\ \A i \in 1..(n + 1) : f[i] = f[i - 1] + s[i]
      /\ \A i \in 1..(n + 1) : s[i] \in Int
  BY <1>1, ElementOfSeq DEF Adds
<1>3. u \in [1..n -> Int]
  <2>1. ASSUME NEW k \in 1..n PROVE k \in 1..(n + 1) /\ k + 1 \in 1..(n + 1)
    OBVIOUS
  <2>2. \A k \in 1..n : s[k] \in Int /\ s[k + 1] \in Int
    BY <1>2, <2>1
  <2> QED BY <2>2
<1>4. u \in Seq(Int) /\ Len(u) = n /\ \A k \in 1..n :
          u[k] = IF k < q THEN s[k] ELSE s[k + 1]
  <2>1. \A k \in 1..n : u[k] = IF k < q THEN s[k] ELSE s[k + 1]
    OBVIOUS
  <2> HIDE DEF u
  <2>2. u \in Seq(Int) /\ DOMAIN u = 1..n
    BY <1>3, FunctionIsSeq
  <2>3. Len(u) = n
    BY <2>2, LenProperties
  <2> QED BY <2>1, <2>2, <2>3
<1>5. g \in [0..n -> Int] /\ g[0] = 0
  <2>1. ASSUME NEW i \in 0..n PROVE f[i] \in Int /\ f[i + 1] \in Int
    <3>1. i \in 0..(n + 1) /\ i + 1 \in 0..(n + 1)
      OBVIOUS
    <3> QED BY <1>2, <3>1
  <2>2. s[q] \in Int /\ 0 < q
    BY <1>2
  <2>3. \A i \in 0..n : g[i] \in Int
    BY <2>1, <2>2
  <2>4. g[0] = 0 /\ g = [i \in 0..n |-> g[i]]
    BY <1>2, <2>2
  <2> HIDE DEF g
  <2> QED BY <2>3, <2>4
<1>6. ASSUME NEW i \in 1..n PROVE g[i] = g[i - 1] + u[i]
  <2>1. /\ i \in 1..(n + 1) /\ i + 1 \in 1..(n + 1) /\ i - 1 \in 0..(n + 1)
        /\ i \in 0..n /\ i - 1 \in 0..n /\ (i + 1) - 1 = i /\ (i - 1) + 1 = i
        /\ i \in 0..(n + 1) /\ i + 1 \in 0..(n + 1) /\ i \in Int /\ q \in Int
    OBVIOUS
  <2>2. /\ f[i] = f[i - 1] + s[i] /\ f[i + 1] = f[i] + s[i + 1]
        /\ {f[i], f[i - 1], f[i + 1], s[i], s[i + 1], s[q]} \subseteq Int
    <3>1. f[i + 1] = f[(i + 1) - 1] + s[i + 1]
      BY <1>2, <2>1
    <3> QED BY <1>2, <2>1, <3>1
  <2>3. /\ g[i] = IF i < q THEN f[i] ELSE f[i + 1] - s[q]
        /\ g[i - 1] = IF i - 1 < q THEN f[i - 1] ELSE f[(i - 1) + 1] - s[q]
        /\ u[i] = IF i < q THEN s[i] ELSE s[i + 1]
    BY <1>4, <2>1
  <2> HIDE DEF g, u
  <2>4. CASE i < q
    <3>1. i - 1 < q
      BY <2>1, <2>4
    <3> QED BY <2>2, <2>3, <2>4, <3>1
  <2>5. CASE i = q
    <3>1. i - 1 < q /\ ~(i < q)
      BY <2>1, <2>5
    <3> QED BY SMTT(30), <2>2, <2>3, <2>5, <3>1
  <2>6. CASE i > q
    <3>1. ~(i - 1 < q) /\ ~(i < q) /\ f[(i - 1) + 1] = f[i]
      BY <2>1, <2>6
    <3> QED BY <2>2, <2>3, <3>1
  <2> QED BY <2>1, <2>4, <2>5, <2>6
<1>7. Total(u) = g[n]
  <2> HIDE DEF g, u
  <2>1. Adds(g, u)
    BY <1>4, <1>5, <1>6 DEF Adds
  <2> QED BY <1>4, <2>1, TotalIs
<1>8. Total(s) = f[n + 1]
  BY <1>1, TotalIs
<1>9. f[n + 1] = g[n] + s[q]
  <2>1. n + 1 \in 1..(n + 1) /\ (n + 1) - 1 = n /\ n \in 0..n /\ n \in 0..(n + 1)
    OBVIOUS
  <2>2. f[n + 1] = f[n] + s[n + 1]
    <3>1. f[n + 1] = f[(n + 1) - 1] + s[n + 1]
      BY <1>2, <2>1
    <3> QED BY <2>1, <3>1
  <2>3. {f[n], f[n + 1], s[n + 1], s[q]} \subseteq Int
    BY <1>2, <2>1
  <2>4. g[n] = IF n < q THEN f[n] ELSE f[n + 1] - s[q]
    BY <2>1
  <2> HIDE DEF g
  <2>5. CASE n < q
    <3>1. q = n + 1
      BY <2>5
    <3> QED BY <2>2, <2>3, <2>4, <2>5, <3>1
  <2>6. CASE ~(n < q)
    BY <2>3, <2>4, <2>6
  <2> QED BY <2>5, <2>6
<1> HIDE DEF u, g
<1>10. u \in Seq(Int) /\ Len(u) = n /\ Total(s) = Total(u) + s[q]
  BY <1>4, <1>7, <1>8, <1>9
<1> QED BY <1>10 DEF u

\* p puts n places in another order.
Arranges(p, n) ==
    /\ p \in [1..n -> 1..n]
    /\ \A i \in 1..n : \E k \in 1..n : p[k] = i
    /\ \A k, l \in 1..n : k # l => p[k] # p[l]

\* Numbers in another order have the same total.
LEMMA TotalOfArranged ==
    ASSUME NEW s \in Seq(Int), NEW p, Arranges(p, Len(s))
    PROVE  /\ [k \in 1..Len(s) |-> s[p[k]]] \in Seq(Int)
           /\ Total([k \in 1..Len(s) |-> s[p[k]]]) = Total(s)
<1> DEFINE T == {n \in Nat :
                   \A t \in Seq(Int), r \in [1..n -> 1..n] :
                      Len(t) = n /\ Arranges(r, n) =>
                         LET u == [k \in 1..n |-> t[r[k]]]
                         IN  u \in Seq(Int) /\ Total(u) = Total(t)}
<1>0. Len(s) \in Nat
  BY LenProperties
<1>1. 0 \in T
  <2> SUFFICES ASSUME NEW t \in Seq(Int), NEW r \in [1..0 -> 1..0], Len(t) = 0
               PROVE  LET u == [k \in 1..0 |-> t[r[k]]]
                      IN  u \in Seq(Int) /\ Total(u) = Total(t)
    OBVIOUS
  <2> DEFINE u == [k \in 1..0 |-> t[r[k]]]
  <2>1. u \in [1..0 -> Int]
    OBVIOUS
  <2> HIDE DEF u
  <2>2. u \in Seq(Int) /\ DOMAIN u = 1..0
    BY <2>1, FunctionIsSeq
  <2>3. Len(u) = 0
    BY <2>2, LenProperties
  <2>4. Total(u) = 0 /\ Total(t) = 0
    BY <2>2, <2>3, TotalOfNothing
  <2> QED BY <2>2, <2>4 DEF u
<1>2. ASSUME NEW m \in 0..Len(s), NEW n \in 0..Len(s), m \in T, n = m + 1
      PROVE  n \in T
  <2>0. m \in Nat /\ n \in Nat /\ n \in 1..n /\ n = m + 1
    BY <1>0, <1>2
  <2> SUFFICES ASSUME NEW t \in Seq(Int), NEW r \in [1..n -> 1..n],
                      Len(t) = n, Arranges(r, n)
               PROVE  LET u == [k \in 1..n |-> t[r[k]]]
                      IN  u \in Seq(Int) /\ Total(u) = Total(t)
    BY <2>0
  <2> DEFINE u == [k \in 1..n |-> t[r[k]]]
  <2>1. u \in Seq(Int) /\ Len(u) = n /\ \A k \in 1..n : u[k] = t[r[k]]
    <3>1. \A i \in 1..n : t[i] \in Int
      BY ElementOfSeq
    <3>2. u \in [1..n -> Int]
      BY <3>1
    <3>3. \A k \in 1..n : u[k] = t[r[k]]
      OBVIOUS
    <3> HIDE DEF u
    <3>4. u \in Seq(Int) /\ DOMAIN u = 1..n
      BY <2>0, <3>2, FunctionIsSeq
    <3>5. Len(u) = n
      BY <2>0, <3>4, LenProperties
    <3> QED BY <3>3, <3>4, <3>5
  <2>2. PICK q \in 1..n : r[q] = n
    BY <2>0 DEF Arranges
  <2> DEFINE x == [k \in 1..m |-> IF k < q THEN u[k] ELSE u[k + 1]]
             y == [k \in 1..m |-> IF k < n THEN t[k] ELSE t[k + 1]]
             h == [k \in 1..m |-> IF k < q THEN r[k] ELSE r[k + 1]]
             z == [k \in 1..m |-> y[h[k]]]
  <2> HIDE DEF u
  <2>3. x \in Seq(Int) /\ Len(x) = m /\ Total(u) = Total(x) + u[q]
    BY <2>0, <2>1, TotalWithout
  <2>4. y \in Seq(Int) /\ Len(y) = m /\ Total(t) = Total(y) + t[n]
    <3>1. t \in Seq(Int) /\ m \in Nat /\ Len(t) = m + 1 /\ n \in 1..(m + 1)
      BY <2>0
    <3> QED BY <3>1, TotalWithout
  <2>5. ASSUME NEW k \in 1..m PROVE h[k] \in 1..m
    <3>1. k \in 1..n /\ k + 1 \in 1..n /\ k # k + 1
      BY <2>0
    <3>2. ASSUME NEW l \in 1..n, l # q PROVE r[l] \in 1..m
      <4>1. r[l] \in 1..n /\ r[l] # n
        BY <2>2, <3>2 DEF Arranges
      <4> DEFINE other == r[l]
      <4>2. other \in 1..n /\ other # n
        BY <4>1
      <4> HIDE DEF other
      <4>3. other \in Int /\ 1 <= other /\ other <= n
        BY <2>0, <4>2
      <4>4. other <= m
        BY <2>0, <4>2, <4>3
      <4>5. other \in 1..m
        BY <2>0, <4>3, <4>4
      <4> QED BY <4>5 DEF other
    <3>3. (k < q => k # q) /\ (~(k < q) => k + 1 # q)
      BY SMTT(30), <2>0
    <3> QED BY <3>1, <3>2, <3>3
  <2>6. ASSUME NEW i \in 1..m PROVE \E k \in 1..m : h[k] = i
    <3>1. i \in 1..n /\ i # n
      BY <2>0
    <3>2. PICK l \in 1..n : r[l] = i
      BY <3>1 DEF Arranges
    <3>3. l # q
      BY <2>2, <3>1, <3>2
    <3>4. CASE l < q
      <4>1. l \in 1..m
        BY <2>0, <3>4
      <4> QED BY <3>2, <3>4, <4>1
    <3>5. CASE l > q
      <4>1. l - 1 \in 1..m /\ ~(l - 1 < q) /\ (l - 1) + 1 = l
        BY <2>0, <3>5
      <4>2. h[l - 1] = r[(l - 1) + 1]
        BY <4>1
      <4>3. h[l - 1] = i
        BY <3>2, <4>1, <4>2
      <4> HIDE DEF h
      <4> QED BY <4>1, <4>3
    <3> QED BY <3>3, <3>4, <3>5
  <2>7. ASSUME NEW k \in 1..m, NEW l \in 1..m, k # l PROVE h[k] # h[l]
    <3> DEFINE Of(j) == IF j < q THEN j ELSE j + 1
    <3>0. /\ m \in Int /\ k \in Int /\ l \in Int /\ q \in Int
          /\ 1 <= k /\ k <= m /\ 1 <= l /\ l <= m
      BY <2>0
    <3>1. Of(k) \in 1..n /\ Of(l) \in 1..n
      <4>1. k \in 1..n /\ k + 1 \in 1..n /\ l \in 1..n /\ l + 1 \in 1..n
        BY <2>0
      <4> QED BY <4>1
    <3>3. Of(k) # Of(l)
      BY <2>7, <3>0
    <3>2. h[k] = r[Of(k)] /\ h[l] = r[Of(l)]
      OBVIOUS
    <3> HIDE DEF Of, h
    <3> QED BY <3>1, <3>2, <3>3 DEF Arranges
  <2>8. h \in [1..m -> 1..m] /\ Arranges(h, m)
    <3>1. h = [k \in 1..m |-> h[k]]
      OBVIOUS
    <3> HIDE DEF h
    <3>2. h \in [1..m -> 1..m]
      BY <2>5, <3>1
    <3> QED BY <2>6, <2>7, <3>2 DEF Arranges
  <2>9. z \in Seq(Int) /\ Total(z) = Total(y)
    <3> HIDE DEF h, y
    <3>1. m \in T
      BY <1>2
    <3> QED BY <2>4, <2>8, <3>1
  <2>10. x = z
    <3>1. ASSUME NEW k \in 1..m PROVE x[k] = z[k]
      <4>1. k \in 1..n /\ k + 1 \in 1..n
        BY <2>0
      <4>2. z[k] = y[h[k]] /\ h[k] \in 1..m
        BY <2>5
      <4>3. \A i \in 1..m : y[i] = t[i]
        BY <2>0
      <4>4. z[k] = t[h[k]]
        BY <4>2, <4>3
      <4>5. x[k] = IF k < q THEN t[r[k]] ELSE t[r[k + 1]]
        BY <2>1, <4>1
      <4>6. h[k] = IF k < q THEN r[k] ELSE r[k + 1]
        OBVIOUS
      <4> HIDE DEF x, y, z, h
      <4> QED BY <4>4, <4>5, <4>6
    <3>2. x = [k \in 1..m |-> x[k]] /\ z = [k \in 1..m |-> z[k]]
      OBVIOUS
    <3> HIDE DEF x, z
    <3> QED BY <3>1, <3>2
  <2>11. u[q] = t[n]
    BY <2>1, <2>2
  <2> HIDE DEF x, y, z
  <2>12. u \in Seq(Int) /\ Total(u) = Total(t)
    BY <2>1, <2>3, <2>4, <2>9, <2>10, <2>11
  <2> QED BY <2>12 DEF u
<1>3. Len(s) \in T
  <2> HIDE DEF T
  <2> QED BY <1>0, <1>1, <1>2, Climb
<1>4. p \in [1..Len(s) -> 1..Len(s)]
  BY DEF Arranges
<1> QED BY <1>3, <1>4

-----------------------------------------------------------------------------
(* Sums of figures *)

\* What figures are, each that is known.
Amounts(figures) == [i \in DOMAIN figures |-> Value(figures[i])]

\* The sum of known figures is the total of their values.
LEMMA SumOfKnown ==
    ASSUME NEW s \in Seq(KnownFigures)
    PROVE  /\ Amounts(s) \in Seq(Int) /\ Len(Amounts(s)) = Len(s)
           /\ \A i \in 1..Len(s) : Amounts(s)[i] = Value(s[i])
           /\ QualifiedSum(s) = {Total(Amounts(s))}
           /\ QualifiedSum(s) \in KnownFigures
                  /\ Value(QualifiedSum(s)) = Total(Amounts(s))
<1>1. DOMAIN s = 1..Len(s) /\ Len(s) \in Nat
  BY LenProperties
<1>2. Amounts(s) \in Seq(Int) /\ Len(Amounts(s)) = Len(s)
  BY ValuesAre DEF Amounts
<1>3. \A i \in 1..Len(s) : Amounts(s)[i] = Value(s[i])
  BY <1>1 DEF Amounts
<1>4. {} \notin Range(s)
  BY <1>1, ElementOfSeq DEF Range, KnownFigures
<1>5. QualifiedSum(s) = {Total(Amounts(s))}
  BY <1>4 DEF QualifiedSum, Amounts
<1>6. Total(Amounts(s)) \in Int
  BY <1>2, TotalType
<1>7. QualifiedSum(s) \in KnownFigures
  BY <1>5, <1>6 DEF KnownFigures, IsFigure
<1>8. Value(QualifiedSum(s)) \in QualifiedSum(s)
  BY <1>5 DEF Value
<1>9. Value(QualifiedSum(s)) = Total(Amounts(s))
  BY <1>5, <1>8
<1> QED BY <1>2, <1>3, <1>5, <1>7, <1>9

\* A sum is missing when one of its parts is.
LEMMA SumOfTheMissing ==
    ASSUME NEW s \in Seq(KnownFigures \cup {{}})
    PROVE  /\ QualifiedSum(s) \in KnownFigures \cup {{}}
           /\ QualifiedSum(s) = {} <=> {} \in Range(s)
<1>1. CASE {} \in Range(s)
  BY <1>1 DEF QualifiedSum
<1>2. CASE {} \notin Range(s)
  <2>1. DOMAIN s = 1..Len(s) /\ Len(s) \in Nat
    BY LenProperties
  <2>2. \A i \in 1..Len(s) : s[i] \in KnownFigures
    BY <1>2, <2>1, ElementOfSeq DEF Range
  <2>3. s = [i \in 1..Len(s) |-> s[i]]
    BY <2>1
  <2>4. s \in [1..Len(s) -> KnownFigures]
    BY <2>2, <2>3
  <2>5. s \in Seq(KnownFigures)
    BY <2>1, <2>4, FunctionIsSeq
  <2>6. QualifiedSum(s) \in KnownFigures
    BY <2>5, SumOfKnown
  <2>7. {} \notin KnownFigures
    BY DEF KnownFigures
  <2> QED BY <1>2, <2>6, <2>7
<1> QED BY <1>1, <1>2

\* Known figures in another order have the same sum.
LEMMA SumOfArranged ==
    ASSUME NEW s \in Seq(KnownFigures), NEW p, Arranges(p, Len(s)),
           NEW t \in Seq(KnownFigures), Len(t) = Len(s),
           \A k \in 1..Len(s) : t[k] = s[p[k]]
    PROVE  QualifiedSum(t) = QualifiedSum(s)
<1> DEFINE a == Amounts(s)
           b == [k \in 1..Len(a) |-> a[p[k]]]
<1>1. a \in Seq(Int) /\ Len(a) = Len(s) /\ \A i \in 1..Len(s) : a[i] = Value(s[i])
  BY SumOfKnown
<1>2. Amounts(t) \in Seq(Int) /\ Len(Amounts(t)) = Len(s)
        /\ \A i \in 1..Len(s) : Amounts(t)[i] = Value(t[i])
  BY SumOfKnown
<1> HIDE DEF a
<1>3. b \in Seq(Int) /\ Total(b) = Total(a)
  BY <1>1, TotalOfArranged
<1>4. Len(s) \in Nat /\ \A k \in 1..Len(s) : p[k] \in 1..Len(s)
  BY LenProperties DEF Arranges
<1>5. \A k \in 1..Len(s) : b[k] = Amounts(t)[k]
  BY <1>1, <1>2, <1>4
<1>6. Len(b) = Len(s)
  <2>1. DOMAIN b = 1..Len(s)
    BY <1>1
  <2> HIDE DEF b
  <2> QED BY <1>3, <1>4, <2>1, LenProperties
<1> HIDE DEF b
<1>7. b = Amounts(t)
  BY <1>2, <1>3, <1>5, <1>6, SeqEqual
<1> QED BY <1>3, <1>7, SumOfKnown DEF a

\* When the last of known figures are put together the sum is the same.
LEMMA SumOfFolded ==
    ASSUME NEW s \in Seq(KnownFigures), NEW k \in 0..Len(s),
           NEW rest \in Seq(KnownFigures), Len(rest) = Len(s) - k,
           \A i \in 1..(Len(s) - k) : rest[i] = s[k + i],
           NEW t \in Seq(KnownFigures), Len(t) = k + 1,
           \A i \in 1..k : t[i] = s[i], t[k + 1] = QualifiedSum(rest)
    PROVE  QualifiedSum(t) = QualifiedSum(s)
<1> DEFINE a == Amounts(s)
           front == SubSeq(a, 1, k)
           back == SubSeq(a, k + 1, Len(a))
           other == <<Total(back)>>
<1>1. a \in Seq(Int) /\ Len(a) = Len(s) /\ \A i \in 1..Len(s) : a[i] = Value(s[i])
  BY SumOfKnown
<1>2. Amounts(t) \in Seq(Int) /\ Len(Amounts(t)) = k + 1
        /\ \A i \in 1..(k + 1) : Amounts(t)[i] = Value(t[i])
  BY SumOfKnown
<1>3. Amounts(rest) \in Seq(Int) /\ Len(Amounts(rest)) = Len(s) - k
        /\ (\A i \in 1..(Len(s) - k) : Amounts(rest)[i] = Value(rest[i]))
        /\ Value(QualifiedSum(rest)) = Total(Amounts(rest))
  BY SumOfKnown
<1> HIDE DEF a
<1>4. Len(s) \in Nat /\ k \in Nat /\ k <= Len(s)
        /\ \A i \in 1..Len(s) : a[i] \in Int
  BY <1>1, LenProperties, ElementOfSeq
<1>5. /\ front \in Seq(Int) /\ back \in Seq(Int) /\ Total(a) = Total(front) + Total(back)
  BY <1>1, TotalInTwo
<1>6. Len(front) = k /\ \A i \in 1..k : front[i] = a[i]
  <2>1. \A i \in 1..k : a[i] \in Int
    BY <1>4
  <2>2. /\ Len(SubSeq(a, 1, k)) = IF 1 <= k THEN k - 1 + 1 ELSE 0
        /\ \A i \in 1..(k - 1 + 1) : SubSeq(a, 1, k)[i] = a[1 + i - 1]
    BY <1>1, <1>4, <2>1, SubSeqProperties
  <2> QED BY <1>4, <2>2
<1>7. Len(back) = Len(s) - k /\ \A i \in 1..(Len(s) - k) : back[i] = a[k + i]
  <2>1. \A i \in (k + 1)..Len(s) : a[i] \in Int
    BY <1>4
  <2>2. /\ Len(SubSeq(a, k + 1, Len(s)))
             = IF k + 1 <= Len(s) THEN Len(s) - (k + 1) + 1 ELSE 0
        /\ \A i \in 1..(Len(s) - (k + 1) + 1) :
              SubSeq(a, k + 1, Len(s))[i] = a[(k + 1) + i - 1]
    BY <1>1, <1>4, <2>1, SubSeqProperties
  <2> QED BY <1>1, <1>4, <2>2
<1> HIDE DEF front, back
<1>8. back = Amounts(rest)
  <2>1. ASSUME NEW i \in 1..(Len(s) - k) PROVE back[i] = Amounts(rest)[i]
    <3>1. k + i \in 1..Len(s)
      BY <1>4
    <3> QED BY <1>1, <1>3, <1>7, <3>1
  <2> QED BY <1>3, <1>5, <1>7, <2>1, SeqEqual
<1>9. Total(back) \in Int /\ other \in Seq(Int) /\ Len(other) = 1
          /\ other[1] = Total(back)
        /\ Total(other) = Total(back)
  <2>1. Total(back) \in Int
    BY <1>5, TotalType
  <2> QED BY <2>1, TotalOfOne
<1> HIDE DEF other
<1>10. /\ front \o other \in Seq(Int) /\ Len(front \o other) = k + 1
       /\ \A i \in 1..k : (front \o other)[i] = front[i]
       /\ (front \o other)[k + 1] = other[1]
  <2>1. /\ front \o other \in Seq(Int) /\ Len(front \o other) = Len(front) + Len(other)
        /\ \A i \in 1..Len(front) : (front \o other)[i] = front[i]
        /\ \A i \in 1..Len(other) : (front \o other)[Len(front) + i] = other[i]
    <3>1. front \in Seq(Int) /\ other \in Seq(Int)
      BY <1>5, <1>9
    <3> QED BY <3>1, Appended
  <2>2. Len(front) = k /\ Len(other) = 1 /\ 1 \in 1..1
    BY <1>6, <1>9
  <2> QED BY <2>1, <2>2
<1>11. ASSUME NEW i \in 1..(k + 1) PROVE (front \o other)[i] = Amounts(t)[i]
  <2>0. Amounts(t)[i] = Value(t[i])
    BY <1>2
  <2>1. CASE i \in 1..k
    <3>1. i \in 1..Len(s)
      BY <1>4, <2>1
    <3>2. (front \o other)[i] = a[i] /\ t[i] = s[i]
      BY <1>6, <1>10, <2>1
    <3> QED BY <1>1, <2>0, <3>1, <3>2
  <2>2. CASE i = k + 1
    BY <1>3, <1>8, <1>9, <1>10, <2>0, <2>2
  <2>3. i \in 1..k \/ i = k + 1
    BY <1>4
  <2> QED BY <2>1, <2>2, <2>3
<1>12. front \o other = Amounts(t)
  BY <1>2, <1>10, <1>11, SeqEqual, ZenonT(30)
<1>13. Total(front \o other) = Total(front) + Total(other)
  BY <1>5, <1>9, TotalOfBoth
<1>14. Total(Amounts(t)) = Total(a)
  BY <1>5, <1>9, <1>12, <1>13
<1> QED BY <1>14, SumOfKnown DEF a

-----------------------------------------------------------------------------
(* What is picked of a grouping *)

\* Of two sequences, one after the other, the places of the second are it.
LEMMA PickedSecond ==
    ASSUME NEW S, NEW a \in Seq(S), NEW b \in Seq(S)
    PROVE  Picked(a \o b, (Len(a) + 1)..(Len(a) + Len(b))) = b
<1> DEFINE m == Len(a)
           n == Len(b)
           u == a \o b
           P == (m + 1)..(m + n)
           At(k) == CHOOSE i \in P : Cardinality({j \in P : j < i}) = k - 1
<1>1. m \in Nat /\ n \in Nat /\ b = [k \in 1..n |-> b[k]]
  BY LenProperties
<1>2. \A i \in 1..n : u[m + i] = b[i]
  BY Appended
<1> HIDE DEF m, n, u
<1>3. Cardinality(P) = n
  <2>1. m + 1 \in Int /\ m + n \in Int
    BY <1>1
  <2>2. Cardinality((m + 1)..(m + n))
           = IF m + 1 > m + n THEN 0 ELSE (m + n) - (m + 1) + 1
    BY <2>1, FS_Interval
  <2> QED BY <1>1, <2>2
<1>4. ASSUME NEW i \in P PROVE Cardinality({j \in P : j < i}) = i - 1 - m
  <2>1. {j \in P : j < i} = (m + 1)..(i - 1)
    BY <1>1
  <2>2. m + 1 \in Int /\ i - 1 \in Int
    BY <1>1
  <2>3. Cardinality((m + 1)..(i - 1)) = IF m + 1 > i - 1 THEN 0 ELSE (i - 1) - (m + 1) + 1
    BY <2>2, FS_Interval
  <2>4. Cardinality((m + 1)..(i - 1)) = i - 1 - m
    BY <1>1, <2>3
  <2> QED BY <2>1, <2>4, Zenon
<1>5. ASSUME NEW k \in 1..n PROVE At(k) = m + k
  <2>1. m + k \in P /\ (m + k) - 1 - m = k - 1
    BY <1>1
  <2>2. Cardinality({j \in P : j < m + k}) = k - 1
    BY <1>4, <2>1
  <2>3. ASSUME NEW i \in P, Cardinality({j \in P : j < i}) = k - 1 PROVE i = m + k
    <3>1. i - 1 - m = k - 1
      BY <1>4, <2>3
    <3>2. i \in Int /\ k \in Int /\ m \in Int
      BY <1>1
    <3> QED BY <3>1, <3>2
  <2> DEFINE Is(i) == Cardinality({j \in P : j < i}) = k - 1
  <2>4. m + k \in P /\ Is(m + k) /\ \A i \in P : Is(i) => i = m + k
    BY <2>1, <2>2, <2>3
  <2> HIDE DEF Is, P
  <2>5. (CHOOSE i \in P : Is(i)) = m + k
    BY <2>4
  <2> QED BY <2>5 DEF Is
<1>6. Picked(u, P) = [k \in 1..Cardinality(P) |-> u[At(k)]]
  BY DEF Picked
<1> HIDE DEF At, P
<1>7. Picked(u, P) = [k \in 1..n |-> b[k]]
  BY <1>2, <1>3, <1>5, <1>6
<1> QED BY <1>1, <1>7 DEF P, u, m, n

\* The places where something is first.
Firsts(keys) == {i \in DOMAIN keys : \A j \in 1..(i - 1) : keys[j] # keys[i]}

\* What is there once is everything, once.
LEMMA OnceIs ==
    ASSUME NEW S, NEW keys \in Seq(S)
    PROVE  /\ Once(keys) \in Seq(S) /\ Range(Once(keys)) = Range(keys)
           /\ OnlyOnce(Once(keys))
           /\ \E p : Picks(p, keys, Firsts(keys))
<1>1. Len(keys) \in Nat /\ DOMAIN keys = 1..Len(keys)
          /\ Firsts(keys) \in SUBSET (1..Len(keys))
  BY LenProperties DEF Firsts
<1>2. Firsts(keys) \in SUBSET Int /\ IsFiniteSet(Firsts(keys))
  <2>1. IsFiniteSet(1..Len(keys))
    BY <1>1, CountedUp
  <2>2. Firsts(keys) \in SUBSET Int
    BY <1>1
  <2> QED BY <1>1, <2>1, <2>2, FS_Subset
<1>3. \A i \in Firsts(keys) : keys[i] \in S
  BY <1>1, ElementOfSeq
<1>4. Once(keys) = Picked(keys, Firsts(keys))
  BY DEF Once, Firsts
<1>5. PICK p : Picks(p, keys, Firsts(keys))
  BY <1>2, PickedIs
<1>6. /\ Once(keys) \in Seq(S) /\ Range(Once(keys)) = {keys[i] : i \in Firsts(keys)}
      /\ DOMAIN Once(keys) = 1..Cardinality(Firsts(keys))
  BY <1>2, <1>3, <1>4, PickedRange
<1>7. ASSUME NEW x \in Range(keys) PROVE \E i \in Firsts(keys) : keys[i] = x
  <2> DEFINE T == {i \in 1..Len(keys) : keys[i] = x}
  <2>1. T \in SUBSET Nat /\ T # {}
    BY <1>1 DEF Range
  <2>2. PICK m \in T : \A k \in T : m <= k
    <3> HIDE DEF T
    <3> QED BY <2>1, LeastNatural
  <2>3. ASSUME NEW j \in 1..(m - 1) PROVE keys[j] # keys[m]
    <3>1. j \in 1..Len(keys) /\ ~(m <= j)
      BY <1>1
    <3> QED BY <2>2, <3>1
  <2> QED BY <1>1, <2>3 DEF Firsts
<1>8. \A i \in Firsts(keys) : keys[i] \in Range(keys)
  BY <1>1 DEF Range
<1>9. Range(Once(keys)) = Range(keys)
  <2> DEFINE R == {keys[i] : i \in Firsts(keys)}
  <2>1. \A x \in R : x \in Range(keys)
    BY <1>8
  <2>2. \A x \in Range(keys) : x \in R
    BY <1>7
  <2> QED BY <1>6, <2>1, <2>2
<1>10. OnlyOnce(Once(keys))
  <2> DEFINE n == Cardinality(Firsts(keys))
  <2>1. Once(keys) = [k \in 1..n |-> keys[p[k]]]
    BY <1>4, <1>5 DEF Picks
  <2>2. ASSUME NEW k \in 1..n, NEW l \in 1..n, k < l PROVE keys[p[k]] # keys[p[l]]
    <3>1. p[k] \in Firsts(keys) /\ p[l] \in Firsts(keys) /\ p[k] < p[l]
      BY <1>5, <2>2 DEF Picks
    <3>2. p[k] \in 1..(p[l] - 1)
      BY <1>1, <3>1
    <3> QED BY <3>1, <3>2 DEF Firsts
  <2>3. n \in Nat
    BY <1>5 DEF Picks
  <2> HIDE DEF n
  <2>4. ASSUME NEW k \in 1..n, NEW l \in 1..n, Once(keys)[k] = Once(keys)[l] PROVE k = l
    <3>1. keys[p[k]] = keys[p[l]]
      BY <2>1, <2>4
    <3>2. ~(k < l) /\ ~(l < k) /\ k \in Int /\ l \in Int
      BY <2>2, <2>3, <3>1
    <3> QED BY <3>2
  <2>5. DOMAIN Once(keys) = 1..n
    BY <2>1
  <2> QED BY <2>4, <2>5 DEF OnlyOnce
<1> QED BY <1>5, <1>6, <1>9, <1>10

-----------------------------------------------------------------------------
(* Buckets *)

\* Buckets of figures that are in F, of those that are known, and of any.
AreOf(S, F) == \A b \in S : b.weight \in F /\ b.value \in F
AreKnown(S) == AreOf(S, KnownFigures)
AreBuckets(S) == AreOf(S, KnownFigures \cup {{}})

\* The figures of buckets are as many as they.
LEMMA FiguresOf ==
    ASSUME NEW S, NEW F, NEW s \in Seq(S), AreOf(S, F)
    PROVE  /\ Weights(s) \in Seq(F) /\ Len(Weights(s)) = Len(s)
           /\ Values(s) \in Seq(F) /\ Len(Values(s)) = Len(s)
           /\ \A i \in 1..Len(s) : Weights(s)[i] = s[i].weight
                  /\ Values(s)[i] = s[i].value
<1> DEFINE w == Weights(s)
           v == Values(s)
<1>1. DOMAIN s = 1..Len(s) /\ Len(s) \in Nat /\ \A i \in 1..Len(s) : s[i] \in S
  BY LenProperties, ElementOfSeq
<1>2. w = [i \in 1..Len(s) |-> s[i].weight] /\ v = [i \in 1..Len(s) |-> s[i].value]
  BY <1>1 DEF Weights, Values
<1>3. w \in [1..Len(s) -> F] /\ v \in [1..Len(s) -> F]
  BY <1>1, <1>2 DEF AreOf
<1>4. \A i \in 1..Len(s) : w[i] = s[i].weight /\ v[i] = s[i].value
  BY <1>2
<1> HIDE DEF w, v
<1>5. w \in Seq(F) /\ DOMAIN w = 1..Len(s) /\ v \in Seq(F) /\ DOMAIN v = 1..Len(s)
  BY <1>1, <1>3, FunctionIsSeq
<1>6. Len(w) = Len(s)
  BY <1>1, <1>5, LenProperties
<1>7. Len(v) = Len(s)
  BY <1>1, <1>5, LenProperties
<1> QED BY <1>4, <1>5, <1>6, <1>7 DEF w, v

\* The heaviest first: the same buckets, and the same sums.
LEMMA HeaviestIs ==
    ASSUME NEW S, NEW s \in Seq(S), AreKnown(S)
    PROVE  LET h == Heaviest(s)
           IN  /\ h \in Seq(S) /\ Len(h) = Len(s) /\ Range(h) = Range(s)
               /\ \A k, l \in 1..Len(s) : k < l
                      => Value(h[l].weight) <= Value(h[k].weight)
               /\ QualifiedSum(Weights(h)) = QualifiedSum(Weights(s))
               /\ QualifiedSum(Values(h)) = QualifiedSum(Values(s))
<1> DEFINE h == Heaviest(s)
           keys == [i \in DOMAIN s |-> -Value(s[i].weight)]
           n == Len(s)
<1>1. DOMAIN s = 1..n /\ n \in Nat /\ \A i \in 1..n : s[i] \in S
  BY LenProperties, ElementOfSeq
<1>2. \A i \in 1..n : Value(s[i].weight) \in Int
  BY <1>1, ValueIs DEF AreKnown, AreOf, KnownFigures
<1>3. keys \in [DOMAIN s -> Int]
  BY <1>1, <1>2
<1>4. \A i \in 1..n : keys[i] = -Value(s[i].weight)
  BY <1>1
<1>5. h = SortedBy(s, keys)
  BY DEF Heaviest
<1> HIDE DEF keys, h, n
<1>6. PICK p : Sorts(p, s, keys)
  BY <1>3, SortedIs
<1>7. /\ p \in [1..n -> 1..n]
      /\ \A i \in 1..n : \E k \in 1..n : p[k] = i
      /\ \A k, l \in 1..n : k < l => keys[p[k]] <= keys[p[l]] /\ p[k] # p[l]
      /\ h = [k \in 1..n |-> s[p[k]]]
  BY <1>5, <1>6 DEF Sorts, n
<1>8. h \in [1..n -> S]
  BY <1>1, <1>7
<1>9. h \in Seq(S) /\ DOMAIN h = 1..n /\ Len(h) = n
  <2>1. h \in Seq(S) /\ DOMAIN h = 1..n
    BY <1>1, <1>8, FunctionIsSeq
  <2> QED BY <1>1, <2>1, LenProperties
<1>10. Range(h) = Range(s)
  <2>1. ASSUME NEW x \in Range(h) PROVE x \in Range(s)
    <3>1. PICK k \in 1..n : x = h[k]
      BY <1>9 DEF Range
    <3>2. x = s[p[k]] /\ p[k] \in DOMAIN s
      BY <1>1, <1>7, <3>1
    <3> QED BY <3>2 DEF Range
  <2>2. ASSUME NEW x \in Range(s) PROVE x \in Range(h)
    <3>1. PICK i \in 1..n : x = s[i]
      BY <1>1 DEF Range
    <3>2. PICK k \in 1..n : p[k] = i
      BY <1>7
    <3>3. x = h[k] /\ k \in DOMAIN h
      BY <1>7, <1>9, <3>1, <3>2
    <3> QED BY <3>3 DEF Range
  <2> QED BY <2>1, <2>2
<1>11. ASSUME NEW k \in 1..n, NEW l \in 1..n, k < l
       PROVE  Value(h[l].weight) <= Value(h[k].weight)
  <2>1. p[k] \in 1..n /\ p[l] \in 1..n /\ keys[p[k]] <= keys[p[l]]
    BY <1>7, <1>11
  <2>2. keys[p[k]] = -Value(s[p[k]].weight) /\ keys[p[l]] = -Value(s[p[l]].weight)
    BY <1>4, <2>1
  <2>3. Value(s[p[k]].weight) \in Int /\ Value(s[p[l]].weight) \in Int
    BY <1>2, <2>1
  <2>4. h[k] = s[p[k]] /\ h[l] = s[p[l]]
    BY <1>7
  <2>5. Value(s[p[l]].weight) <= Value(s[p[k]].weight)
    BY <2>1, <2>2, <2>3
  <2> QED BY <2>4, <2>5
<1>12. Arranges(p, n)
  <2>1. ASSUME NEW k \in 1..n, NEW l \in 1..n, k # l PROVE p[k] # p[l]
    <3>1. k < l \/ l < k
      BY <1>1, <2>1
    <3> QED BY <1>7, <3>1
  <2> QED BY <1>7, <2>1 DEF Arranges
<1>13. /\ Weights(s) \in Seq(KnownFigures) /\ Len(Weights(s)) = n
       /\ Values(s) \in Seq(KnownFigures) /\ Len(Values(s)) = n
       /\ \A i \in 1..n : Weights(s)[i] = s[i].weight /\ Values(s)[i] = s[i].value
  BY FiguresOf DEF AreKnown, n
<1>14. /\ Weights(h) \in Seq(KnownFigures) /\ Len(Weights(h)) = n
       /\ Values(h) \in Seq(KnownFigures) /\ Len(Values(h)) = n
       /\ \A i \in 1..n : Weights(h)[i] = h[i].weight /\ Values(h)[i] = h[i].value
  BY <1>9, FiguresOf DEF AreKnown
<1>15. ASSUME NEW k \in 1..n
       PROVE  Weights(h)[k] = Weights(s)[p[k]] /\ Values(h)[k] = Values(s)[p[k]]
  <2>1. p[k] \in 1..n /\ h[k] = s[p[k]]
    BY <1>7
  <2>2. Weights(s)[p[k]] = s[p[k]].weight /\ Values(s)[p[k]] = s[p[k]].value
    BY <1>13, <2>1
  <2> QED BY <1>14, <2>1, <2>2
<1>16. QualifiedSum(Weights(h)) = QualifiedSum(Weights(s))
  BY SMTT(30), <1>12, <1>13, <1>14, <1>15, SumOfArranged
<1>17. QualifiedSum(Values(h)) = QualifiedSum(Values(s))
  BY SMTT(30), <1>12, <1>13, <1>14, <1>15, SumOfArranged
<1> QED BY <1>9, <1>10, <1>11, <1>16, <1>17 DEF h, n

\* Buckets of which those after the first k are put together as one.
Together(s, k) == SubSeq(s, 1, k) \o <<OtherOf(SubSeq(s, k + 1, Len(s)))>>

\* When the last of the buckets are one, the sums are the same.
LEMMA FoldIs ==
    ASSUME NEW S, NEW s \in Seq(S), AreKnown(S), NEW k \in 0..Len(s)
    PROVE  /\ \E T : AreKnown(T) /\ Together(s, k) \in Seq(T)
           /\ Len(Together(s, k)) = k + 1 /\ \A i \in 1..k : Together(s, k)[i] = s[i]
           /\ QualifiedSum(Weights(Together(s, k))) = QualifiedSum(Weights(s))
           /\ QualifiedSum(Values(Together(s, k))) = QualifiedSum(Values(s))
<1> DEFINE n == Len(s)
           front == SubSeq(s, 1, k)
           rest == SubSeq(s, k + 1, n)
           other == OtherOf(rest)
           one == <<other>>
           U == S \cup {other}
           t == front \o one
<1>1. n \in Nat /\ k \in Nat /\ k <= n /\ n - k \in Nat /\ \A i \in 1..n : s[i] \in S
  BY LenProperties, ElementOfSeq
<1>2. front \in Seq(S) /\ Len(front) = k /\ \A i \in 1..k : front[i] = s[i]
  <2>1. \A i \in 1..k : s[i] \in S
    BY <1>1
  <2>2. /\ SubSeq(s, 1, k) \in Seq(S)
        /\ Len(SubSeq(s, 1, k)) = IF 1 <= k THEN k - 1 + 1 ELSE 0
        /\ \A i \in 1..(k - 1 + 1) : SubSeq(s, 1, k)[i] = s[1 + i - 1]
    BY <1>1, <2>1, SubSeqProperties
  <2> QED BY <1>1, <2>2
<1>3. rest \in Seq(S) /\ Len(rest) = n - k /\ \A i \in 1..(n - k) : rest[i] = s[k + i]
  <2> HIDE DEF n
  <2>1. \A i \in (k + 1)..n : s[i] \in S
    BY <1>1
  <2>2. /\ SubSeq(s, k + 1, n) \in Seq(S)
        /\ Len(SubSeq(s, k + 1, n)) = IF k + 1 <= n THEN n - (k + 1) + 1 ELSE 0
        /\ \A i \in 1..(n - (k + 1) + 1) : SubSeq(s, k + 1, n)[i] = s[(k + 1) + i - 1]
    BY <1>1, <2>1, SubSeqProperties
  <2> QED BY <1>1, <2>2
<1> HIDE DEF front, rest
<1>4. AreOf(S, KnownFigures)
  BY DEF AreKnown
<1>5. /\ Weights(s) \in Seq(KnownFigures) /\ Len(Weights(s)) = n
      /\ Values(s) \in Seq(KnownFigures) /\ Len(Values(s)) = n
      /\ \A i \in 1..n : Weights(s)[i] = s[i].weight /\ Values(s)[i] = s[i].value
  BY <1>4, FiguresOf
<1>6. /\ Weights(rest) \in Seq(KnownFigures) /\ Len(Weights(rest)) = n - k
      /\ Values(rest) \in Seq(KnownFigures) /\ Len(Values(rest)) = n - k
      /\ \A i \in 1..(n - k) : Weights(rest)[i] = rest[i].weight
                                 /\ Values(rest)[i] = rest[i].value
  <2>1. /\ Weights(rest) \in Seq(KnownFigures) /\ Len(Weights(rest)) = Len(rest)
        /\ Values(rest) \in Seq(KnownFigures) /\ Len(Values(rest)) = Len(rest)
        /\ \A i \in 1..Len(rest) : Weights(rest)[i] = rest[i].weight
                                     /\ Values(rest)[i] = rest[i].value
    BY <1>3, <1>4, FiguresOf
  <2> QED BY <1>3, <2>1
<1>7. /\ other.weight = QualifiedSum(Weights(rest))
             /\ other.value = QualifiedSum(Values(rest))
      /\ other.weight \in KnownFigures /\ other.value \in KnownFigures
  <2>1. other.weight = QualifiedSum(Weights(rest))
            /\ other.value = QualifiedSum(Values(rest))
    BY DEF OtherOf
  <2>2. QualifiedSum(Weights(rest)) \in KnownFigures
    BY <1>6, SumOfKnown
  <2>3. QualifiedSum(Values(rest)) \in KnownFigures
    BY <1>6, SumOfKnown
  <2> QED BY <2>1, <2>2, <2>3
<1> HIDE DEF other
<1>8. one \in Seq(U) /\ Len(one) = 1 /\ one[1] = other /\ other \in U
  OBVIOUS
<1> HIDE DEF one
<1>9. AreOf(U, KnownFigures)
  BY <1>4, <1>7 DEF AreOf
<1>10. front \in Seq(U)
  <2>1. \A i \in 1..k : front[i] \in U
    BY <1>1, <1>2
  <2>2. front = [i \in 1..k |-> front[i]]
    BY <1>1, <1>2, LenProperties
  <2> HIDE DEF U
  <2>3. front \in [1..k -> U]
    BY <2>1, <2>2
  <2> QED BY <1>1, <2>3, FunctionIsSeq
<1> HIDE DEF U, n
<1>11. /\ t \in Seq(U) /\ Len(t) = k + 1 /\ t[k + 1] = other
       /\ \A i \in 1..k : t[i] = s[i]
  <2>1. /\ t \in Seq(U) /\ Len(t) = Len(front) + Len(one)
        /\ \A i \in 1..Len(front) : t[i] = front[i]
        /\ \A i \in 1..Len(one) : t[Len(front) + i] = one[i]
    <3>1. front \in Seq(U) /\ one \in Seq(U)
      BY <1>8, <1>10
    <3> QED BY <3>1, Appended
  <2>2. Len(front) = k /\ Len(one) = 1 /\ 1 \in 1..1 /\ one[1] = other
          /\ \A i \in 1..k : front[i] = s[i]
    BY <1>2, <1>8
  <2> HIDE DEF t
  <2> QED BY <2>1, <2>2
<1> HIDE DEF t
<1>12. /\ Weights(t) \in Seq(KnownFigures) /\ Len(Weights(t)) = k + 1
       /\ Values(t) \in Seq(KnownFigures) /\ Len(Values(t)) = k + 1
       /\ \A i \in 1..(k + 1) : Weights(t)[i] = t[i].weight /\ Values(t)[i] = t[i].value
  <2>1. /\ Weights(t) \in Seq(KnownFigures) /\ Len(Weights(t)) = Len(t)
        /\ Values(t) \in Seq(KnownFigures) /\ Len(Values(t)) = Len(t)
        /\ \A i \in 1..Len(t) : Weights(t)[i] = t[i].weight /\ Values(t)[i] = t[i].value
    BY <1>9, <1>11, FiguresOf
  <2> QED BY <1>11, <2>1
<1>13. \A i \in 1..k : i \in 1..n /\ i \in 1..(k + 1)
  BY <1>1
<1>14. \A i \in 1..(n - k) : k + i \in 1..n
  BY <1>1
<1>15. k + 1 \in 1..(k + 1)
  BY <1>1
<1>16. QualifiedSum(Weights(t)) = QualifiedSum(Weights(s))
  <2> DEFINE a == Weights(s)
             b == Weights(rest)
             c == Weights(t)
  <2>1. /\ a \in Seq(KnownFigures) /\ Len(a) = n /\ b \in Seq(KnownFigures)
        /\ Len(b) = n - k /\ c \in Seq(KnownFigures) /\ Len(c) = k + 1
    BY <1>5, <1>6, <1>12
  <2>2. \A i \in 1..(n - k) : b[i] = a[k + i]
    BY <1>3, <1>5, <1>6, <1>14
  <2>3. \A i \in 1..k : c[i] = a[i]
    BY <1>5, <1>11, <1>12, <1>13
  <2>4. c[k + 1] = QualifiedSum(b)
    BY <1>7, <1>11, <1>12, <1>15
  <2>5. k \in 0..Len(a)
    BY <1>1, <2>1
  <2> HIDE DEF a, b, c
  <2>6. QualifiedSum(c) = QualifiedSum(a)
    BY <2>1, <2>2, <2>3, <2>4, <2>5, SumOfFolded
  <2> QED BY <2>6 DEF a, c
<1>17. QualifiedSum(Values(t)) = QualifiedSum(Values(s))
  <2> DEFINE a == Values(s)
             b == Values(rest)
             c == Values(t)
  <2>1. /\ a \in Seq(KnownFigures) /\ Len(a) = n /\ b \in Seq(KnownFigures)
        /\ Len(b) = n - k /\ c \in Seq(KnownFigures) /\ Len(c) = k + 1
    BY <1>5, <1>6, <1>12
  <2>2. \A i \in 1..(n - k) : b[i] = a[k + i]
    BY <1>3, <1>5, <1>6, <1>14
  <2>3. \A i \in 1..k : c[i] = a[i]
    BY <1>5, <1>11, <1>12, <1>13
  <2>4. c[k + 1] = QualifiedSum(b)
    BY <1>7, <1>11, <1>12, <1>15
  <2>5. k \in 0..Len(a)
    BY <1>1, <2>1
  <2> HIDE DEF a, b, c
  <2>6. QualifiedSum(c) = QualifiedSum(a)
    BY <2>1, <2>2, <2>3, <2>4, <2>5, SumOfFolded
  <2> QED BY <2>6 DEF a, c
<1>18. t = Together(s, k)
  BY DEF Together, t, front, one, other, rest, n
<1> QED BY <1>9, <1>11, <1>16, <1>17, <1>18 DEF AreKnown

\* The buckets that are complete and those that are not are all of them.
LEMMA PartsOf ==
    ASSUME NEW S, NEW s \in Seq(S)
    PROVE  LET known == {b \in S : Complete(b)}
               unknown == {b \in S : ~Complete(b)}
           IN  /\ Known(s) \in Seq(known) /\ Unknown(s) \in Seq(unknown)
               /\ Range(Known(s)) = {b \in Range(s) : Complete(b)}
               /\ Range(Unknown(s)) = {b \in Range(s) : ~Complete(b)}
               /\ Len(Known(s)) + Len(Unknown(s)) = Len(s)
<1> DEFINE n == Len(s)
           A == {b \in S : Complete(b)}
           B == {b \in S : ~Complete(b)}
           P == {i \in 1..n : Complete(s[i])}
           Q == {i \in 1..n : ~Complete(s[i])}
<1>1. n \in Nat /\ DOMAIN s = 1..n /\ \A i \in 1..n : s[i] \in S
  BY LenProperties, ElementOfSeq
<1>2. IsFiniteSet(1..n) /\ Cardinality(1..n) = n
  BY <1>1, CountedUp
<1>3. Known(s) = Picked(s, P) /\ Unknown(s) = Picked(s, Q)
  BY <1>1 DEF Known, Unknown
<1>4. \A i \in P : s[i] \in A
  BY <1>1
<1>5. \A i \in Q : s[i] \in B
  BY <1>1
<1>6. /\ P \in SUBSET (1..n) /\ Q \in SUBSET (1..n) /\ P \in SUBSET Int
             /\ Q \in SUBSET Int
      /\ P \cup Q = 1..n /\ P \cap Q = {}
  BY <1>1
<1>7. Range(s) = {s[i] : i \in 1..n}
  BY <1>1 DEF Range
<1>8. {s[i] : i \in P} = {b \in Range(s) : Complete(b)}
  BY <1>7
<1>9. {s[i] : i \in Q} = {b \in Range(s) : ~Complete(b)}
  BY <1>7
<1> HIDE DEF P, Q, A, B, n
<1>10. IsFiniteSet(P) /\ IsFiniteSet(Q)
  BY <1>2, <1>6, FS_Subset
<1> DEFINE Is(X, T) == /\ Picked(s, X) \in Seq(T) /\ Len(Picked(s, X)) = Cardinality(X)
                       /\ Cardinality(X) \in Nat /\ Range(Picked(s, X)) = {s[i] : i \in X}
<1>picked. ASSUME NEW X \in SUBSET Int, IsFiniteSet(X), NEW T, \A i \in X : s[i] \in T
      PROVE  Is(X, T)
  <2>1. Picked(s, X) \in Seq(T)
    BY <1>picked, PickedRange
  <2> QED BY <1>picked, <2>1, PickedRange
<1>11. /\ Picked(s, P) \in Seq(A) /\ Len(Picked(s, P)) = Cardinality(P)
       /\ Cardinality(P) \in Nat /\ Range(Picked(s, P)) = {s[i] : i \in P}
  <2>1. P \in SUBSET Int /\ IsFiniteSet(P)
    BY <1>6, <1>10
  <2> HIDE DEF Is
  <2>2. Is(P, A)
    BY <1>4, <1>picked, <2>1
  <2> QED BY <2>2 DEF Is
<1>12. /\ Picked(s, Q) \in Seq(B) /\ Len(Picked(s, Q)) = Cardinality(Q)
       /\ Cardinality(Q) \in Nat /\ Range(Picked(s, Q)) = {s[i] : i \in Q}
  <2>1. Q \in SUBSET Int /\ IsFiniteSet(Q)
    BY <1>6, <1>10
  <2> HIDE DEF Is
  <2>2. Is(Q, B)
    BY <1>5, <1>picked, <2>1
  <2> QED BY <2>2 DEF Is
<1>13. Cardinality(P) + Cardinality(Q) = n
  <2>1. Cardinality(P \cup Q) = Cardinality(P) + Cardinality(Q) - Cardinality(P \cap Q)
    BY <1>10, FS_Union
  <2>2. Cardinality(P \cap Q) = 0
    BY <1>6, FS_EmptySet
  <2>3. Cardinality(P \cup Q) = n
    BY <1>2, <1>6, Zenon
  <2> QED BY <1>1, <1>11, <1>12, <2>1, <2>2, <2>3
<1>14. Len(Known(s)) + Len(Unknown(s)) = n
  BY <1>3, <1>11, <1>12, <1>13
<1> QED BY <1>3, <1>8, <1>9, <1>11, <1>12, <1>14 DEF A, B, n

\* Of what is shown the part that is known is the second.
LEMMA KnownSecond ==
    ASSUME NEW S, NEW a \in Seq(S), NEW b \in Seq(S),
           \A i \in 1..Len(a) : ~Complete(a[i]), \A i \in 1..Len(b) : Complete(b[i])
    PROVE  Known(a \o b) = b
<1> DEFINE m == Len(a)
           n == Len(b)
           u == a \o b
<1>1. /\ u \in Seq(S) /\ Len(u) = m + n /\ m \in Nat /\ n \in Nat
      /\ \A i \in 1..m : u[i] = a[i]
      /\ \A i \in 1..n : u[m + i] = b[i]
  BY Appended, LenProperties
<1>2. DOMAIN u = 1..(m + n)
  BY <1>1, LenProperties
<1> HIDE DEF u
<1>3. ASSUME NEW i \in 1..(m + n) PROVE Complete(u[i]) <=> i \in (m + 1)..(m + n)
  <2> HIDE DEF m, n
  <2>1. CASE i <= m
    <3>1. i \in 1..m /\ i \notin (m + 1)..(m + n)
      BY <1>1, <2>1
    <3> QED BY <1>1, <3>1 DEF m
  <2>2. CASE ~(i <= m)
    <3>1. i - m \in 1..n /\ m + (i - m) = i /\ i \in (m + 1)..(m + n)
      BY <1>1, <2>2
    <3>2. u[m + (i - m)] = b[i - m]
      BY <1>1, <3>1
    <3> QED BY <3>1, <3>2 DEF n
  <2> QED BY <2>1, <2>2
<1> HIDE DEF m, n
<1>4. {i \in DOMAIN u : Complete(u[i])} = (m + 1)..(m + n)
  <2>1. \A i \in (m + 1)..(m + n) : i \in 1..(m + n)
    BY <1>1
  <2> QED BY <1>2, <1>3, <2>1
<1>5. Known(u) = Picked(u, (m + 1)..(m + n))
  BY <1>4 DEF Known
<1> QED BY <1>5, PickedSecond DEF u, m, n

\* Every row is in a bucket of its label, and what the row is missing the
\* bucket is missing.
LEMMA BucketsAre ==
    ASSUME NEW rows, IsGrouping(rows)
    PROVE  LET buckets == AllocationBuckets(rows)
           IN  /\ buckets \in Seq(Range(buckets)) /\ AreBuckets(Range(buckets))
               /\ \A row \in Range(rows) : \E b \in Range(buckets) :
                     /\ b.label = row.label
                     /\ row.weight = {} => b.weight = {}
                     /\ row.value = {} => b.value = {}
<1> DEFINE n == Len(rows)
           R == Range(rows)
           F == KnownFigures \cup {{}}
           keys == [i \in DOMAIN rows |-> rows[i].label]
           labels == Once(keys)
           L == {rows[i].label : i \in 1..n}
           P(label) == {i \in DOMAIN rows : rows[i].label = label}
           Of(label) == Picked(rows, P(label))
           buckets == AllocationBuckets(rows)
<1>1. rows \in Seq(R) /\ n \in Nat /\ DOMAIN rows = 1..n /\ \A i \in 1..n : rows[i] \in R
  <2>1. rows \in Seq(R)
    BY DEF IsGrouping
  <2> HIDE DEF R
  <2> QED BY <2>1, LenProperties, ElementOfSeq
<1>2. AreOf(R, F)
  <2>1. ASSUME NEW f, IsFigure(f) PROVE f \in F
    <3>1. f # {} => f \in KnownFigures
      BY <2>1, ValueIs
    <3> QED BY <3>1
  <2> HIDE DEF F
  <2> QED BY <2>1 DEF IsGrouping, AreOf
<1>3. keys \in Seq(L) /\ Range(keys) = L
  <2>1. keys \in [1..n -> L]
    BY <1>1
  <2>2. Range(keys) = L
    BY <1>1 DEF Range
  <2> HIDE DEF keys, L, n
  <2> QED BY <1>1, <2>1, <2>2, FunctionIsSeq
<1>4. labels \in Seq(L) /\ Range(labels) = L
  <2> HIDE DEF keys, L
  <2> QED BY <1>3, OnceIs
<1>5. ASSUME NEW label
      PROVE  /\ Of(label) \in Seq(R) /\ \A i \in P(label) : rows[i] \in Range(Of(label))
             /\ Weights(Of(label)) \in Seq(F) /\ Values(Of(label)) \in Seq(F)
             /\ \A row \in Range(Of(label)) : row.weight \in Range(Weights(Of(label)))
                                               /\ row.value \in Range(Values(Of(label)))
  <2> DEFINE X == P(label)
             s == Of(label)
  <2>1. X \in SUBSET (1..n)
    BY <1>1
  <2>2. IsFiniteSet(1..n)
    BY <1>1, CountedUp
  <2>3. X \in SUBSET Int /\ \A i \in X : rows[i] \in R
    BY <1>1, <2>1
  <2> HIDE DEF X
  <2>4. IsFiniteSet(X)
    BY <2>1, <2>2, FS_Subset
  <2> HIDE DEF R, n
  <2>5. Picked(rows, X) \in Seq(R)
    BY <2>3, <2>4, PickedRange
  <2>6. s \in Seq(R) /\ \A i \in P(label) : rows[i] \in Range(s)
    <3>1. ASSUME NEW i \in X PROVE rows[i] \in Range(Picked(rows, X))
      BY <2>3, <2>4, <2>5, PickedRange
    <3> QED BY <2>5, <3>1 DEF X
  <2> HIDE DEF s, F
  <2>7. /\ Weights(s) \in Seq(F) /\ Len(Weights(s)) = Len(s)
        /\ Values(s) \in Seq(F) /\ Len(Values(s)) = Len(s)
        /\ \A i \in 1..Len(s) : Weights(s)[i] = s[i].weight /\ Values(s)[i] = s[i].value
    BY <1>2, <2>6, FiguresOf
  <2>8. DOMAIN s = 1..Len(s)
    BY <2>6, LenProperties
  <2>9. DOMAIN Weights(s) = 1..Len(s)
    BY <2>7, LenProperties
  <2>10. DOMAIN Values(s) = 1..Len(s)
    BY <2>7, LenProperties
  <2>11. ASSUME NEW row \in Range(s)
         PROVE  row.weight \in Range(Weights(s)) /\ row.value \in Range(Values(s))
    <3>1. PICK i \in 1..Len(s) : row = s[i]
      BY <2>8 DEF Range
    <3>2. Weights(s)[i] = row.weight /\ Values(s)[i] = row.value
      BY <2>7, <3>1
    <3> QED BY <2>9, <2>10, <3>2 DEF Range
  <2> QED BY <2>6, <2>7, <2>11 DEF X, s
<1>6. /\ DOMAIN buckets = DOMAIN labels
      /\ \A k \in DOMAIN labels :
            /\ buckets[k].label = labels[k]
            /\ buckets[k].weight = QualifiedSum(Weights(Of(labels[k])))
            /\ buckets[k].value = QualifiedSum(Values(Of(labels[k])))
  BY DEF AllocationBuckets
<1> HIDE DEF keys, labels, P, Of, buckets
<1>7. DOMAIN labels = 1..Len(labels) /\ Len(labels) \in Nat
  BY <1>4, LenProperties
<1>8. buckets \in Seq(Range(buckets))
  <2> DEFINE B == Range(buckets)
             m == Len(labels)
  <2>1. DOMAIN buckets = 1..m /\ m \in Nat
    BY <1>6, <1>7
  <2>2. buckets = [k \in 1..m |-> buckets[k]]
    BY <2>1 DEF buckets, AllocationBuckets
  <2>3. \A k \in 1..m : buckets[k] \in B
    BY <2>1 DEF Range
  <2> HIDE DEF B, m
  <2>4. buckets \in [1..m -> B]
    BY <2>2, <2>3
  <2>5. buckets \in Seq(B)
    BY <2>1, <2>4, FunctionIsSeq
  <2> QED BY <2>5 DEF B
<1>9. ASSUME NEW k \in DOMAIN labels
      PROVE  buckets[k].weight \in F /\ buckets[k].value \in F
  <2>1. Weights(Of(labels[k])) \in Seq(F) /\ Values(Of(labels[k])) \in Seq(F)
    BY <1>5
  <2>2. QualifiedSum(Weights(Of(labels[k]))) \in F
    BY <2>1, SumOfTheMissing
  <2>3. QualifiedSum(Values(Of(labels[k]))) \in F
    BY <2>1, SumOfTheMissing
  <2> QED BY <1>6, <2>2, <2>3
<1>10. AreBuckets(Range(buckets))
  <2>1. ASSUME NEW b \in Range(buckets) PROVE b.weight \in F /\ b.value \in F
    <3>1. PICK k \in DOMAIN labels : b = buckets[k]
      BY <1>6 DEF Range
    <3> QED BY <1>9, <3>1
  <2> QED BY <2>1 DEF AreBuckets, AreOf
<1>11. ASSUME NEW row \in Range(rows)
       PROVE  \E b \in Range(buckets) :
                 /\ b.label = row.label
                 /\ row.weight = {} => b.weight = {}
                 /\ row.value = {} => b.value = {}
  <2>1. PICK i \in 1..n : row = rows[i]
    BY <1>1 DEF Range
  <2>2. row.label \in L
    BY <2>1
  <2>3. PICK k \in DOMAIN labels : labels[k] = row.label
    BY <1>4, <2>2 DEF Range
  <2> DEFINE s == Of(row.label)
             b == buckets[k]
  <2>4. i \in P(row.label)
    BY <1>1, <2>1 DEF P
  <2>5. row \in Range(s)
    BY <1>5, <2>1, <2>4
  <2>6. /\ Weights(s) \in Seq(F) /\ Values(s) \in Seq(F)
        /\ row.weight \in Range(Weights(s)) /\ row.value \in Range(Values(s))
    BY <1>5, <2>5
  <2>7. /\ b.label = row.label /\ b.weight = QualifiedSum(Weights(s))
        /\ b.value = QualifiedSum(Values(s))
    BY <1>6, <2>3
  <2>8. b \in Range(buckets)
    BY <1>6 DEF Range
  <2> HIDE DEF s, b
  <2>9. row.weight = {} => b.weight = {}
    BY <2>6, <2>7, SumOfTheMissing
  <2>10. row.value = {} => b.value = {}
    BY <2>6, <2>7, SumOfTheMissing
  <2> QED BY <2>7, <2>8, <2>9, <2>10
<1> QED BY <1>8, <1>10, <1>11 DEF buckets

\* A sequence is one of anything wider.
LEMMA Wider ==
    ASSUME NEW S, NEW T, S \subseteq T, NEW s \in Seq(S)
    PROVE  s \in Seq(T)
<1>1. Len(s) \in Nat /\ s = [i \in 1..Len(s) |-> s[i]] /\ \A i \in 1..Len(s) : s[i] \in T
  BY LenProperties, ElementOfSeq
<1>2. s \in [1..Len(s) -> T]
  BY <1>1
<1> QED BY <1>1, <1>2, FunctionIsSeq

\* Of the groups that are known there is what is shown of them, and what is
\* put together.
IsRest(rest, s) ==
    LET known == Heaviest(Known(s))
        fold == FoldedBuckets(s)
    IN  /\ fold.shown = Unknown(s) \o rest
        /\ QualifiedSum(Weights(rest)) = QualifiedSum(Weights(Known(s)))
        /\ QualifiedSum(Values(rest)) = QualifiedSum(Values(Known(s)))
        /\ Len(Unknown(s)) + Len(rest) <= PanelLimits.rows \/ Len(rest) <= 1
        /\ fold.folded > 0 =>
              \E k \in 0..Len(known) : Len(rest) = k + 1
                  /\ \A i \in 1..k : rest[i] = known[i]

\* The buckets that are not drawn on their own: those unknown, and those known
\* that are not among the heaviest.
LEMMA RestIs ==
    ASSUME NEW S, NEW s \in Seq(S), AreBuckets(S)
    PROVE  \E T, rest : AreKnown(T) /\ rest \in Seq(T) /\ IsRest(rest, s)
<1> DEFINE K == {b \in S : Complete(b)}
           unknown == Unknown(s)
           complete == Known(s)
           known == Heaviest(complete)
           u == Len(unknown)
           m == Len(known)
           rows == PanelLimits.rows
           room == rows - u - 1
           kept == IF room > 0 THEN room ELSE 0
           fold == FoldedBuckets(s)
<1>1. AreKnown(K)
  BY DEF AreBuckets, AreKnown, AreOf, Complete
<1>2. complete \in Seq(K) /\ unknown \in Seq({b \in S : ~Complete(b)})
        /\ Len(complete) + Len(unknown) = Len(s)
  BY PartsOf
<1> HIDE DEF complete, K
<1>3. /\ known \in Seq(K) /\ Len(known) = Len(complete)
      /\ QualifiedSum(Weights(known)) = QualifiedSum(Weights(complete))
      /\ QualifiedSum(Values(known)) = QualifiedSum(Values(complete))
  BY <1>1, <1>2, HeaviestIs
<1>4. m \in Nat /\ u \in Nat /\ m + u = Len(s) /\ rows \in Nat \ {0} /\ Len(s) \in Nat
  BY <1>2, <1>3, LenProperties, PanelLimitsAssumption
<1>5. fold = IF Len(s) <= rows THEN [shown |-> unknown \o known, folded |-> 0]
             ELSE IF kept >= m THEN [shown |-> unknown, folded |-> 0]
             ELSE [shown |-> unknown \o SubSeq(known, 1, kept)
                               \o <<OtherOf(SubSeq(known, kept + 1, m))>>,
                   folded |-> m - kept]
  BY <1>4 DEF FoldedBuckets, complete
<1> HIDE DEF known, unknown, fold
<1>6. kept \in Nat /\ (kept # 0 => kept = rows - u - 1)
  BY <1>4
<1> HIDE DEF m, u, kept, rows
<1>7. CASE Len(s) <= rows
  <2>1. fold.shown = unknown \o known /\ fold.folded = 0
    BY <1>5, <1>7
  <2>2. u + m <= rows
    BY <1>4, <1>7
  <2>3. IsRest(known, s)
    BY <1>3, <2>1, <2>2 DEF IsRest, complete, known, unknown, fold, u, m, rows
  <2> QED BY <1>1, <1>3, <2>3
<1>8. CASE ~(Len(s) <= rows) /\ kept >= m
  <2>1. fold.shown = unknown /\ fold.folded = 0
    BY <1>5, <1>8
  <2>2. m = 0
    BY <1>4, <1>6, <1>8
  <2>3. known = <<>>
    BY <1>3, <2>2, EmptySeq, SeqEqual DEF m
  <2>4. unknown \o known = unknown
    BY <1>2, <2>3, ConcatEmptySeq
  <2>5. IsRest(known, s)
    <3>1. Len(known) <= 1
      BY <2>2 DEF m
    <3> QED BY <1>3, <2>1, <2>4, <3>1 DEF IsRest, complete, known, unknown, fold
  <2> QED BY <1>1, <1>3, <2>5
<1>9. CASE ~(Len(s) <= rows) /\ ~(kept >= m)
  <2> DEFINE front == SubSeq(known, 1, kept)
             other == OtherOf(SubSeq(known, kept + 1, m))
             one == <<other>>
             rest == front \o one
  <2>1. kept \in 0..m
    BY <1>4, <1>6, <1>9
  <2>2. /\ \E T : AreKnown(T) /\ rest \in Seq(T)
        /\ Len(rest) = kept + 1 /\ \A i \in 1..kept : rest[i] = known[i]
        /\ QualifiedSum(Weights(rest)) = QualifiedSum(Weights(known))
        /\ QualifiedSum(Values(rest)) = QualifiedSum(Values(known))
    <3>1. rest = Together(known, kept)
      BY DEF Together, m
    <3>2. kept \in 0..Len(known)
      BY <2>1 DEF m
    <3> HIDE DEF rest
    <3> QED BY <1>1, <1>3, <3>1, <3>2, FoldIs
  <2>3. fold.shown = (unknown \o front) \o one /\ fold.folded = m - kept
    BY <1>5, <1>9
  <2>4. front \in Seq(K)
    <3>1. \A i \in 1..kept : known[i] \in K
      <4>1. \A i \in 1..m : known[i] \in K
        BY <1>3, ElementOfSeq DEF m
      <4>2. \A i \in 1..kept : i \in 1..m
        BY <1>4, <2>1
      <4> QED BY <4>1, <4>2
    <3> QED BY <1>6, <3>1, SubSeqProperties
  <2>5. one \in Seq({other})
    OBVIOUS
  <2> HIDE DEF front, one, other
  <2>6. fold.shown = unknown \o rest
    <3> DEFINE W == {b \in S : ~Complete(b)} \cup K \cup {other}
    <3>1. unknown \in Seq(W)
      BY <1>2, Wider
    <3>2. front \in Seq(W)
      BY <2>4, Wider
    <3>3. one \in Seq(W)
      BY <2>5, Wider
    <3> HIDE DEF W
    <3> QED BY <2>3, <3>1, <3>2, <3>3, ConcatAssociative
  <2>7. u + (kept + 1) <= rows \/ kept + 1 <= 1
    BY <1>4, <1>6
  <2>8. kept \in 0..Len(known)
    BY <2>1 DEF m
  <2> HIDE DEF rest
  <2>9. u + Len(rest) <= rows \/ Len(rest) <= 1
    BY <2>2, <2>7
  <2>10. IsRest(rest, s)
    BY <1>3, <2>2, <2>6, <2>8, <2>9 DEF IsRest, complete, known, unknown, fold, u, rows
  <2> QED BY <2>2, <2>10
<1> QED BY <1>7, <1>8, <1>9

\* How many slices are named: all of them, within the colours, or fewer.
LEMMA NameableIs ==
    ASSUME NEW S, NEW s \in Seq(S)
    PROVE  LET named == NameableCount(s)
           IN  /\ named \in 0..Len(s)
               /\ named = Len(s) => named <= PanelLimits.colours
               /\ named # Len(s) => named + 1 <= PanelLimits.colours
<1> DEFINE n == Len(s)
           visible == {i \in DOMAIN s : Value(s[i].weight) >= PanelLimits.nameable}
           named == IF n > PanelLimits.uncrowded THEN Cardinality(visible) ELSE n
           colours == PanelLimits.colours
<1>1. n \in Nat /\ DOMAIN s = 1..n /\ colours \in Nat \ {0}
  BY LenProperties, PanelLimitsAssumption
<1>2. Cardinality(visible) \in 0..n
  <2>1. visible \in SUBSET (1..n) /\ IsFiniteSet(1..n) /\ Cardinality(1..n) = n
    BY <1>1, CountedUp
  <2> HIDE DEF visible, n
  <2>2. IsFiniteSet(visible) /\ Cardinality(visible) <= Cardinality(1..n)
    BY <2>1, FS_Subset
  <2>3. Cardinality(visible) \in Nat
    BY <2>2, FS_CardinalityType
  <2> QED BY <1>1, <2>1, <2>2, <2>3
<1>3. NameableCount(s) = IF named < n \/ named > colours
                         THEN IF named < colours THEN named ELSE colours - 1
                         ELSE named
  BY DEF NameableCount
<1> HIDE DEF visible
<1>4. named \in 0..n
  BY <1>1, <1>2
<1> HIDE DEF named, n, colours
<1> DEFINE x == NameableCount(s)
<1>5. x \in 0..n /\ (x = n => x <= colours) /\ (x # n => x + 1 <= colours)
  BY <1>1, <1>3, <1>4
<1> QED BY <1>5 DEF n, colours

\* The slices of the ring are within the colours, and weigh what its entries do.
LEMMA SlicesAre ==
    ASSUME NEW rows, IsGrouping(rows)
    PROVE  /\ Len(RingSlices(rows)) <= PanelLimits.colours
           /\ QualifiedSum(Weights(RingSlices(rows)))
                  = QualifiedSum(Weights(RingEntries(rows)))
<1> DEFINE buckets == AllocationBuckets(rows)
           B == Range(buckets)
           K == {b \in B : Complete(b)}
           P == {i \in DOMAIN buckets : /\ buckets[i].label # ""
                                        /\ Complete(buckets[i])
                                        /\ Value(buckets[i].weight) > 0}
           entries == RingEntries(rows)
           named == NameableCount(entries)
           slices == RingSlices(rows)
<1>1. buckets \in Seq(B) /\ AreBuckets(B)
  BY BucketsAre
<1>2. AreKnown(K)
  BY <1>1 DEF AreBuckets, AreKnown, AreOf, Complete
<1>3. Picked(buckets, P) \in Seq(K)
  <2>1. Len(buckets) \in Nat /\ DOMAIN buckets = 1..Len(buckets)
    <3> HIDE DEF B, buckets
    <3> QED BY <1>1, LenProperties
  <2>2. P \in SUBSET (1..Len(buckets)) /\ \A i \in P : buckets[i] \in K
    BY <2>1 DEF Range
  <2>3. IsFiniteSet(1..Len(buckets))
    BY <2>1, CountedUp
  <2> HIDE DEF P, K, buckets
  <2>4. P \in SUBSET Int
    BY <2>1, <2>2
  <2>5. IsFiniteSet(P)
    BY <2>2, <2>3, FS_Subset
  <2> QED BY <2>2, <2>4, <2>5, PickedRange
<1>4. entries = Heaviest(Picked(buckets, P))
  BY DEF RingEntries
<1> HIDE DEF K, P, buckets, entries
<1>5. entries \in Seq(K)
  BY <1>2, <1>3, <1>4, HeaviestIs
<1>6. slices = SubSeq(entries, 1, named)
                 \o IF named = Len(entries) THEN <<>>
                    ELSE <<OtherOf(SubSeq(entries, named + 1, Len(entries)))>>
  BY DEF RingSlices, entries
<1>7. /\ named \in 0..Len(entries)
      /\ named = Len(entries) => named <= PanelLimits.colours
      /\ named # Len(entries) => named + 1 <= PanelLimits.colours
  BY <1>5, NameableIs
<1> HIDE DEF named, slices
<1>8. CASE named = Len(entries)
  <2>1. slices = SubSeq(entries, 1, Len(entries)) \o <<>>
    BY <1>6, <1>8
  <2>2. SubSeq(entries, 1, Len(entries)) = entries
    BY <1>5, SubSeqFull
  <2>3. slices = entries
    BY <1>5, <2>1, <2>2, ConcatEmptySeq
  <2> QED BY <1>7, <1>8, <2>3 DEF slices, entries
<1>9. CASE named # Len(entries)
  <2>1. slices = Together(entries, named)
    BY <1>6, <1>9 DEF Together
  <2>2. /\ Len(Together(entries, named)) = named + 1
        /\ QualifiedSum(Weights(Together(entries, named)))
               = QualifiedSum(Weights(entries))
    BY <1>2, <1>5, <1>7, FoldIs
  <2> QED BY <1>7, <1>9, <2>1, <2>2 DEF slices, entries
<1> QED BY <1>8, <1>9

\* Every bucket of a grouping is a slice or is folded into one, and the slices
\* add up to what the rows do (allocation_values.py:34-94,
\* portfolio_charts.py:157-241).
LEMMA AllocationHolds ==
    ASSUME NEW rows, IsGrouping(rows)
    PROVE  AllocationIsWhole(rows)
<1> DEFINE buckets == AllocationBuckets(rows)
           B == Range(buckets)
           fold == FoldedBuckets(buckets)
           shown == fold.shown
           unknown == Unknown(buckets)
           complete == Known(buckets)
           known == Heaviest(complete)
           K == {b \in B : Complete(b)}
           N == {b \in B : ~Complete(b)}
<1>1. /\ buckets \in Seq(B) /\ AreBuckets(B)
      /\ \A row \in Range(rows) : \E b \in B :
            /\ b.label = row.label
            /\ row.weight = {} => b.weight = {}
            /\ row.value = {} => b.value = {}
  BY BucketsAre
<1> HIDE DEF buckets
<1>2. PICK T, rest : AreKnown(T) /\ rest \in Seq(T) /\ IsRest(rest, buckets)
  BY <1>1, RestIs
<1>3. /\ unknown \in Seq(N) /\ complete \in Seq(K)
      /\ Range(unknown) = {b \in B : ~Complete(b)}
  BY <1>1, PartsOf
<1> HIDE DEF unknown, complete, fold
<1>4. /\ shown = unknown \o rest
      /\ QualifiedSum(Weights(rest)) = QualifiedSum(Weights(complete))
      /\ QualifiedSum(Values(rest)) = QualifiedSum(Values(complete))
      /\ Len(unknown) + Len(rest) <= PanelLimits.rows \/ Len(rest) <= 1
      /\ fold.folded > 0 =>
            \E k \in 0..Len(known) : Len(rest) = k + 1
                /\ \A i \in 1..k : rest[i] = known[i]
  BY <1>2 DEF IsRest, unknown, complete, fold
<1> DEFINE W == N \cup T
<1>5. unknown \in Seq(W)
  BY <1>3, Wider
<1>6. rest \in Seq(W)
  BY <1>2, Wider
<1> HIDE DEF W, shown
<1>7. /\ shown \in Seq(W) /\ Len(shown) = Len(unknown) + Len(rest)
      /\ \A i \in 1..Len(unknown) : shown[i] = unknown[i]
      /\ \A i \in 1..Len(rest) : shown[Len(unknown) + i] = rest[i]
  BY <1>4, <1>5, <1>6, Appended
<1>8. /\ Len(unknown) \in Nat /\ Len(rest) \in Nat
      /\ DOMAIN unknown = 1..Len(unknown) /\ DOMAIN rest = 1..Len(rest)
      /\ DOMAIN shown = 1..(Len(unknown) + Len(rest))
  BY <1>5, <1>6, <1>7, LenProperties
<1>9. Known(shown) = rest
  <2>1. \A i \in 1..Len(unknown) : ~Complete(unknown[i])
    BY <1>3, ElementOfSeq
  <2>2. ASSUME NEW i \in 1..Len(rest) PROVE Complete(rest[i])
    <3>1. rest[i] \in T
      BY <1>2, ElementOfSeq
    <3> QED BY <1>2, <3>1 DEF AreKnown, AreOf, Complete, KnownFigures
  <2> QED BY <1>4, <1>5, <1>6, <2>1, <2>2, KnownSecond
<1>10. ASSUME NEW x \in Range(unknown) PROVE x \in Range(shown)
  <2>1. PICK i \in 1..Len(unknown) : x = unknown[i]
    BY <1>8 DEF Range
  <2>2. i \in DOMAIN shown
    BY <1>8
  <2> QED BY <1>7, <2>1, <2>2 DEF Range
<1>11. ASSUME NEW i \in 1..Len(rest) PROVE rest[i] \in Range(shown)
  <2>1. Len(unknown) + i \in DOMAIN shown
    BY <1>8
  <2> QED BY <1>7, <2>1 DEF Range
<1>12. ASSUME NEW row \in Range(rows)
       PROVE  Complete(row) \/ \E b \in Range(shown) : b.label = row.label /\ ~Complete(b)
  <2> SUFFICES ASSUME ~Complete(row)
               PROVE  \E b \in Range(shown) : b.label = row.label /\ ~Complete(b)
    OBVIOUS
  <2>1. PICK b \in B : /\ b.label = row.label
                       /\ row.weight = {} => b.weight = {}
                       /\ row.value = {} => b.value = {}
    BY <1>1
  <2>2. ~Complete(b)
    BY <2>1 DEF Complete
  <2>3. b \in Range(unknown)
    BY <1>3, <2>2
  <2> QED BY <1>10, <2>1, <2>2, <2>3
<1>13. Len(shown) <= PanelLimits.rows \/ Len(Known(shown)) <= 1
  BY <1>4, <1>7, <1>9
<1>14. ASSUME fold.folded > 0, NEW b \in Range(Known(shown)) \ {Last(shown)},
              NEW other \in Range(complete), Value(other.weight) > Value(b.weight)
       PROVE  \E c \in Range(shown) : c.label = other.label
  <2>1. PICK k \in 0..Len(known) : Len(rest) = k + 1 /\ \A i \in 1..k : rest[i] = known[i]
    BY <1>4, <1>14
  <2>2. AreKnown(K)
    BY <1>1 DEF AreBuckets, AreKnown, AreOf, Complete
  <2>3. /\ known \in Seq(K) /\ Len(known) = Len(complete)
               /\ Range(known) = Range(complete)
        /\ \A i, j \in 1..Len(complete) :
              i < j => Value(known[j].weight) <= Value(known[i].weight)
    BY <1>3, <2>2, HeaviestIs
  <2> HIDE DEF known, K
  <2>4. DOMAIN known = 1..Len(known) /\ Len(known) \in Nat
    BY <2>3, LenProperties
  <2>5. Last(shown) = rest[k + 1]
    <3>1. k + 1 \in 1..Len(rest)
      BY <1>8, <2>1
    <3>2. Len(unknown) + (k + 1) = Len(shown)
      BY <1>7, <2>1
    <3> QED BY <1>7, <3>1, <3>2 DEF Last
  <2>6. PICK i \in 1..k : b = known[i]
    <3>1. PICK j \in 1..(k + 1) : b = rest[j]
      BY <1>8, <1>9, <2>1 DEF Range
    <3>2. j \in 1..k
      <4>1. j # k + 1
        BY <1>14, <2>5, <3>1
      <4> QED BY <2>4, <4>1
    <3> QED BY <2>1, <3>1, <3>2
  <2>7. PICK j \in 1..Len(known) : other = known[j]
    BY <1>14, <2>3, <2>4 DEF Range
  <2>8. i \in 1..Len(known) /\ known[i] \in K /\ known[j] \in K
    BY <2>3, <2>4, ElementOfSeq
  <2>9. Value(known[i].weight) \in Int /\ Value(known[j].weight) \in Int
    BY <2>2, <2>8, ValueIs DEF AreKnown, AreOf, KnownFigures
  <2>10. j < i
    <3>1. CASE j = i
      BY <1>14, <2>6, <2>7, <2>9, <3>1
    <3>2. CASE i < j
      <4>1. Value(known[j].weight) <= Value(known[i].weight)
        BY <2>3, <2>8, <3>2
      <4> QED BY <1>14, <2>6, <2>7, <2>9, <4>1
    <3> QED BY <2>4, <3>1, <3>2
  <2>11. j \in 1..k /\ j \in 1..Len(rest)
    BY <1>8, <2>1, <2>4, <2>10
  <2>12. rest[j] = other
    BY <2>1, <2>7, <2>11
  <2> QED BY <1>11, <2>11, <2>12
<1>15. ASSUME CompositionNote(buckets).coverage # {}, NEW row \in Range(rows)
       PROVE  row.weight # {}
  <2> SUFFICES ASSUME row.weight = {} PROVE FALSE
    OBVIOUS
  <2>1. PICK b \in B : b.weight = {}
    BY <1>1
  <2>2. /\ Weights(buckets) \in Seq(KnownFigures \cup {{}})
        /\ Len(Weights(buckets)) = Len(buckets)
        /\ \A i \in 1..Len(buckets) : Weights(buckets)[i] = buckets[i].weight
    BY <1>1, FiguresOf DEF AreBuckets
  <2>3. DOMAIN buckets = 1..Len(buckets)
    BY <1>1, LenProperties
  <2>4. DOMAIN Weights(buckets) = 1..Len(buckets)
    BY <2>2, LenProperties
  <2>5. {} \in Range(Weights(buckets))
    <3>1. PICK i \in 1..Len(buckets) : b = buckets[i]
      BY <2>3 DEF Range
    <3> QED BY <2>1, <2>2, <2>4, <3>1 DEF Range
  <2>6. QualifiedSum(Weights(buckets)) = {}
    BY <2>5 DEF QualifiedSum
  <2> QED BY <1>15, <2>6 DEF CompositionNote
<1>16. /\ Len(RingSlices(rows)) <= PanelLimits.colours
       /\ QualifiedSum(Weights(RingSlices(rows)))
              = QualifiedSum(Weights(RingEntries(rows)))
  BY SlicesAre
<1>17. /\ QualifiedSum(Weights(Known(shown))) = QualifiedSum(Weights(complete))
       /\ QualifiedSum(Values(Known(shown))) = QualifiedSum(Values(complete))
  BY <1>4, <1>9
<1> QED BY <1>12, <1>13, <1>14, <1>15, <1>16, <1>17
        DEF AllocationIsWhole, shown, complete, fold, buckets

-----------------------------------------------------------------------------
(* The scope of a review *)

\* What is not refused for its size is within what was rendered.
LEMMA EnvelopeHolds ==
    ASSUME NEW data, IsReviewData(data), ~EnvelopeRefuses(data)
    PROVE  WasRendered(data)
<1> DEFINE p == PositionRows(data)
           t == data.transactions
<1>1. p \in Nat /\ t \in Nat
  BY DEF IsReviewData, PositionRows
<1>2. CeilingPositions \div 125 = 25 /\ CeilingTransactions \div 125 = 39
  BY DEF CeilingPositions, CeilingTransactions
<1>3. ~(100 * (p * 39 + t * 25) > 85 * 125 * 25 * 39)
  BY <1>2 DEF EnvelopeRefuses, AdmittedPercent
<1> HIDE DEF p, t
<1>4. p <= 3000 /\ t <= 4875 /\ (p <= 1875 \/ t <= 1875)
  BY <1>1, <1>3
<1> QED BY <1>4 DEF WasRendered, p, t

\* The sections drawn are those asked for that can be, once, in their order.
LEMMA SectionsAre ==
    ASSUME NEW A, NEW asked \in Seq(A), NEW data
    PROVE  LET r == Once(Picked(asked, {i \in DOMAIN asked : Drawable(data, asked[i])}))
           IN  /\ Range(r) \subseteq Range(asked)
               /\ \A x \in Range(asked) : Drawable(data, x) => x \in Range(r)
               /\ Cardinality(Range(r)) = Len(r)
               /\ \A i, j \in DOMAIN r : i < j
                      => PlaceIn(asked, r[i]) < PlaceIn(asked, r[j])
<1> DEFINE n == Len(asked)
           D == {i \in DOMAIN asked : Drawable(data, asked[i])}
           s == Picked(asked, D)
           r == Once(s)
           d == Cardinality(D)
           F == Firsts(s)
           f == Cardinality(F)
<1>1. n \in Nat /\ DOMAIN asked = 1..n /\ \A i \in 1..n : asked[i] \in A
  BY LenProperties, ElementOfSeq
<1>2. D \in SUBSET (1..n) /\ \A i \in 1..n : i \in D <=> Drawable(data, asked[i])
  BY <1>1
<1> HIDE DEF D
<1>3. D \in SUBSET Int /\ IsFiniteSet(D) /\ \A i \in D : asked[i] \in A
  <2>1. IsFiniteSet(1..n)
    BY <1>1, CountedUp
  <2>2. IsFiniteSet(D)
    <3> HIDE DEF n
    <3> QED BY <1>2, <2>1, FS_Subset
  <2> QED BY <1>1, <1>2, <2>2
<1>4. s \in Seq(A) /\ Len(s) = d /\ d \in Nat /\ DOMAIN s = 1..d
  <2>1. Picked(asked, D) \in Seq(A)
    BY <1>3, PickedRange
  <2> QED BY <1>3, <2>1, PickedRange
<1>5. PICK p : Picks(p, asked, D)
  BY <1>3, PickedIs
<1>6. /\ \A k \in 1..d : p[k] \in D /\ s[k] = asked[p[k]]
      /\ \A i \in D : \E k \in 1..d : p[k] = i
      /\ \A k, l \in 1..d : k < l => p[k] < p[l]
  BY <1>5 DEF Picks
<1> HIDE DEF s, d
<1>7. /\ r \in Seq(A) /\ Range(r) = Range(s) /\ OnlyOnce(r)
      /\ \E q : Picks(q, s, F)
  BY <1>4, OnceIs
<1>8. PICK q : Picks(q, s, F)
  BY <1>7
<1>9. Once(s) = Picked(s, F)
  BY DEF Once, Firsts
<1>10. /\ f \in Nat /\ r = [k \in 1..f |-> s[q[k]]]
       /\ \A k \in 1..f : q[k] \in F
       /\ \A k, l \in 1..f : k < l => q[k] < q[l]
  BY <1>8, <1>9 DEF Picks
<1> HIDE DEF r, f
<1>11. ASSUME NEW x \in Range(s) PROVE x \in Range(asked)
  <2>1. PICK k \in 1..d : x = s[k]
    BY <1>4 DEF Range
  <2>2. p[k] \in DOMAIN asked /\ x = asked[p[k]]
    BY <1>1, <1>2, <1>6, <2>1
  <2> QED BY <2>2 DEF Range
<1>12. ASSUME NEW x \in Range(asked), Drawable(data, x) PROVE x \in Range(s)
  <2>1. PICK i \in 1..n : x = asked[i]
    BY <1>1 DEF Range
  <2>2. i \in D
    BY <1>2, <1>12, <2>1
  <2>3. PICK k \in 1..d : p[k] = i
    BY <1>6, <2>2
  <2>4. s[k] = x /\ k \in DOMAIN s
    BY <1>4, <1>6, <2>1, <2>3
  <2> QED BY <2>4 DEF Range
<1>13. Cardinality(Range(r)) = Len(r)
  BY <1>7, OnceIsCounted
<1>14. ASSUME NEW i \in 1..f PROVE PlaceIn(asked, r[i]) = p[q[i]] /\ q[i] \in 1..d
  <2> DEFINE x == r[i]
             First(k) == asked[k] = x /\ \A j \in 1..(k - 1) : asked[j] # x
             m == p[q[i]]
  <2>1. q[i] \in F /\ q[i] \in 1..d /\ x = s[q[i]]
    BY <1>4, <1>10 DEF Firsts
  <2>2. m \in D /\ m \in 1..n /\ asked[m] = x
    BY <1>2, <1>6, <2>1
  <2> HIDE DEF m, x
  <2>3. ASSUME NEW j \in 1..(m - 1) PROVE asked[j] # x
    <3> SUFFICES ASSUME asked[j] = x PROVE FALSE
      OBVIOUS
    <3>1. j \in 1..n /\ j < m
      BY <1>1, <2>2
    <3>2. j \in D
      BY <1>2, <2>2, <3>1
    <3>3. PICK l \in 1..d : p[l] = j
      BY <1>6, <3>2
    <3>4. l < q[i]
      <4>1. ~(q[i] < l)
        <5> SUFFICES ASSUME q[i] < l PROVE FALSE
          OBVIOUS
        <5>1. m < j
          BY <1>6, <2>1, <3>3 DEF m
        <5> QED BY <1>1, <2>2, <3>1, <5>1
      <4>2. l # q[i]
        <5> SUFFICES ASSUME l = q[i] PROVE FALSE
          OBVIOUS
        <5>1. j = m
          BY <3>3 DEF m
        <5> QED BY <1>1, <2>2, <3>1, <5>1
      <4> QED BY <1>4, <2>1, <4>1, <4>2
    <3>5. s[l] = s[q[i]]
      BY <1>6, <2>1, <3>3
    <3>6. l \in 1..(q[i] - 1)
      BY <1>4, <2>1, <3>4
    <3> QED BY <2>1, <3>5, <3>6 DEF Firsts
  <2>4. First(m)
    BY <2>2, <2>3
  <2>5. ASSUME NEW k \in 1..n, First(k) PROVE k = m
    <3>1. ~(k < m)
      <4>1. k < m => k \in 1..(m - 1)
        BY <1>1, <2>2
      <4> QED BY <2>3, <2>5, <4>1
    <3>2. ~(m < k)
      <4>1. m < k => m \in 1..(k - 1)
        BY <1>1, <2>2
      <4> QED BY <2>2, <2>5, <4>1
    <3> QED BY <1>1, <2>2, <3>1, <3>2
  <2>6. PlaceIn(asked, x) = CHOOSE k \in 1..n : First(k)
    BY <1>1 DEF PlaceIn
  <2> HIDE DEF First
  <2>7. (CHOOSE k \in 1..n : First(k)) = m
    BY <2>2, <2>4, <2>5
  <2> QED BY <2>1, <2>6, <2>7 DEF x, m
<1>15. DOMAIN r = 1..f
  BY <1>10
<1>16. ASSUME NEW i \in DOMAIN r, NEW j \in DOMAIN r, i < j
       PROVE  PlaceIn(asked, r[i]) < PlaceIn(asked, r[j])
  <2>1. q[i] < q[j] /\ q[i] \in 1..d /\ q[j] \in 1..d
    BY <1>10, <1>14, <1>15, <1>16
  <2>2. p[q[i]] < p[q[j]]
    BY <1>6, <2>1
  <2> QED BY <1>14, <1>15, <2>2
<1>17. Range(r) \subseteq Range(asked) /\ \A x \in Range(asked) : Drawable(data, x)
           => x \in Range(r)
  BY <1>7, <1>11, <1>12
<1> QED BY <1>13, <1>16, <1>17 DEF r, s, D

\* An admitted portfolio review draws each section it was asked for, in the
\* order asked, and no other (section_selection.py:140-199,
\* typst_contexts.py:572-602).
LEMMA ScopeHolds ==
    ASSUME NEW package, IsReview(package)
    PROVE  ScopeIsHonoured(package)
<1> SUFFICES ASSUME package.template = "portfolio-review", Admission(package) = "admitted"
             PROVE  ScopeIsHonoured(package)
  BY DEF ScopeIsHonoured
<1> DEFINE s == package.selection
           data == package.data
           asked == [i \in DOMAIN s.tokens |-> SectionKey(s.tokens[i])]
           drawn == DrawnSections(package)
<1>1. /\ ~EnvelopeRefuses(data)
      /\ s.kind = "none" \/ package.malformed \/ ~SelectionIsRefused(package)
  BY DEF Admission
<1>2. WasRendered(data)
  BY <1>1, EnvelopeHolds DEF IsReview
<1>3. s.kind = "none" => ~SelectionIsRefused(package)
  BY DEF SelectionIsRefused
<1>4. package.malformed \in BOOLEAN
  BY DEF IsReview
<1>5. drawn.failed <=> package.malformed
  BY <1>1, <1>3, <1>4 DEF DrawnSections
<1>6. ~drawn.failed => drawn.sections = SectionKeys(package)
          /\ ~SelectionIsRefused(package)
  BY <1>1, <1>3, <1>4 DEF DrawnSections
<1>7. ASSUME s.kind = "list", ~drawn.failed
      PROVE  /\ Range(drawn.sections) \subseteq Range(asked)
             /\ Range(asked) \ Range(drawn.sections) \subseteq {"appendix"}
             /\ Cardinality(Range(drawn.sections)) = Len(drawn.sections)
             /\ \A i, j \in DOMAIN drawn.sections :
                   i < j => PlaceIn(asked, drawn.sections[i]) < PlaceIn(asked,
                       drawn.sections[j])
  <2> DEFINE A == Range(asked)
             r == Once(Picked(asked, {i \in DOMAIN asked : Drawable(data, asked[i])}))
  <2>1. asked \in Seq(A)
    <3>1. Len(s.tokens) \in Nat /\ DOMAIN s.tokens = 1..Len(s.tokens)
      BY LenProperties DEF IsReview
    <3>2. DOMAIN asked = 1..Len(s.tokens) /\ asked = [i \in 1..Len(s.tokens) |-> asked[i]]
      BY <3>1
    <3>3. \A i \in 1..Len(s.tokens) : asked[i] \in A
      BY <3>2 DEF Range
    <3> HIDE DEF asked, A
    <3>4. asked \in [1..Len(s.tokens) -> A]
      BY <3>2, <3>3
    <3> QED BY <3>1, <3>4, FunctionIsSeq
  <2>2. drawn.sections = r
    BY <1>6, <1>7 DEF SectionKeys
  <2>3. ASSUME NEW x \in Range(asked), x # "appendix" PROVE Drawable(data, x)
    <3>1. PICK i \in DOMAIN s.tokens : x = SectionKey(s.tokens[i])
      BY DEF Range
    <3>2. s.tokens[i] \in Range(s.tokens)
      BY <3>1 DEF Range
    <3>3. ~TokenIsRefused(data, s.tokens[i])
      BY <1>6, <1>7, <3>2 DEF SelectionIsRefused
    <3> QED BY <2>3, <3>1, <3>3 DEF Drawable, TokenIsRefused
  <2> HIDE DEF A, asked
  <2>4. /\ Range(r) \subseteq Range(asked)
        /\ \A x \in Range(asked) : Drawable(data, x) => x \in Range(r)
        /\ Cardinality(Range(r)) = Len(r)
        /\ \A i, j \in DOMAIN r : i < j => PlaceIn(asked, r[i]) < PlaceIn(asked, r[j])
    BY <2>1, SectionsAre
  <2> HIDE DEF r
  <2>5. Range(asked) \ Range(r) \subseteq {"appendix"}
    BY <2>3, <2>4
  <2> QED BY <2>2, <2>4, <2>5
<1>8. ASSUME s.kind = "none", ~drawn.failed
      PROVE  Range(DefaultSections) \ Range(drawn.sections)
               \subseteq {"appendix"} \cup (OptionalSections \ data.included)
  <2> DEFINE r == Once(Picked(DefaultSections,
                         {i \in DOMAIN DefaultSections
                             : Drawable(data, DefaultSections[i])}))
  <2> DEFINE A == Range(DefaultSections)
  <2>1. DefaultSections \in Seq(A)
    <3>1. DOMAIN DefaultSections = 1..11 /\ 11 \in Nat
            /\ DefaultSections = [i \in 1..11 |-> DefaultSections[i]]
      BY DEF DefaultSections
    <3>2. \A i \in 1..11 : DefaultSections[i] \in A
      BY <3>1 DEF Range
    <3> HIDE DEF A
    <3>3. DefaultSections \in [1..11 -> A]
      BY <3>1, <3>2
    <3> QED BY <3>1, <3>3, FunctionIsSeq
  <2>2. drawn.sections = r
    BY <1>6, <1>8 DEF SectionKeys
  <2> HIDE DEF A
  <2>3. /\ Range(r) \subseteq Range(DefaultSections)
        /\ \A x \in Range(DefaultSections) : Drawable(data, x) => x \in Range(r)
        /\ Cardinality(Range(r)) = Len(r)
        /\ \A i, j \in DOMAIN r :
              i < j => PlaceIn(DefaultSections, r[i]) < PlaceIn(DefaultSections, r[j])
    BY <2>1, SectionsAre
  <2> HIDE DEF r
  <2>4. \A x \in Range(DefaultSections) :
           ~Drawable(data, x) => x \in {"appendix"}
               \cup (OptionalSections \ data.included)
    BY DEF Drawable
  <2> QED BY <2>2, <2>3, <2>4
<1> QED BY <1>2, <1>5, <1>7, <1>8 DEF ScopeIsHonoured

\* What the appendix can explain.
Subjects ==
    {"performance", "benchmark", "benchmark.relative", "positions", "transactions"}
      \cup RiskMeasures
      \cup {"allocation", "allocation.currency", "allocation.region", "allocation.sector",
            "allocation.country", "allocation.product_type", "allocation.rating"}

\* Each of them is in a group of the glossary, and nothing else is.
LEMMA GlossaryIs ==
    /\ DOMAIN Glossary = 1..5
    /\ \A g \in 1..5 : \E n \in Nat : DOMAIN Glossary[g] = 1..n
    /\ \A g \in 1..5 : Range(Glossary[g]) \subseteq Subjects
    /\ \A x \in Subjects : \E g \in 1..5 : x \in Range(Glossary[g])
<1> DEFINE a == <<"performance", "benchmark", "benchmark.relative">>
           b == <<"volatility", "beta", "tracking_error", "information_ratio",
                  "value_at_risk">>
           c == <<"allocation", "allocation.currency", "allocation.region",
                  "allocation.sector", "allocation.country", "allocation.product_type",
                  "allocation.rating">>
           d == <<"positions">>
           e == <<"transactions">>
<1>1. /\ DOMAIN Glossary = 1..5 /\ Glossary[1] = a /\ Glossary[2] = b /\ Glossary[3] = c
      /\ Glossary[4] = d /\ Glossary[5] = e
  BY DEF Glossary
<1>2. DOMAIN a = 1..3 /\ Range(a) = {"performance", "benchmark", "benchmark.relative"}
  <2>1. DOMAIN a = {1, 2, 3}
    OBVIOUS
  <2> QED BY <2>1 DEF Range
<1>3. DOMAIN b = 1..5 /\ Range(b) = RiskMeasures
  <2>1. DOMAIN b = {1, 2, 3, 4, 5}
    OBVIOUS
  <2> QED BY <2>1 DEF Range, RiskMeasures
<1>4. DOMAIN c = 1..7
        /\ Range(c) = {"allocation", "allocation.currency", "allocation.region",
                       "allocation.sector", "allocation.country",
                           "allocation.product_type",
                       "allocation.rating"}
  <2>1. DOMAIN c = {1, 2, 3, 4, 5, 6, 7}
    OBVIOUS
  <2> QED BY <2>1 DEF Range
<1>5. DOMAIN d = 1..1 /\ Range(d) = {"positions"}
  BY TupleOfOne
<1>6. DOMAIN e = 1..1 /\ Range(e) = {"transactions"}
  BY TupleOfOne
<1> HIDE DEF a, b, c, d, e
<1>7. \A g \in 1..5 : g = 1 \/ g = 2 \/ g = 3 \/ g = 4 \/ g = 5
  OBVIOUS
<1>8. ASSUME NEW g \in 1..5 PROVE \E n \in Nat : DOMAIN Glossary[g] = 1..n
  BY <1>1, <1>2, <1>3, <1>4, <1>5, <1>6, <1>7
<1>9. ASSUME NEW g \in 1..5 PROVE Range(Glossary[g]) \subseteq Subjects
  BY <1>1, <1>2, <1>3, <1>4, <1>5, <1>6, <1>7 DEF Subjects
<1>10. ASSUME NEW x \in Subjects PROVE \E g \in 1..5 : x \in Range(Glossary[g])
  BY <1>1, <1>2, <1>3, <1>4, <1>5, <1>6 DEF Subjects
<1> QED BY <1>1, <1>8, <1>9, <1>10

\* The chapters explain the subjects that are present, and none is empty.
LEMMA ChaptersAre ==
    ASSUME NEW data
    PROVE  LET chapters == ApplicableGlossary(data)
           IN  /\ <<>> \notin Range(chapters)
               /\ UNION {Range(g) : g \in Range(chapters)}
                      = PresentSubjects(data) \cap Subjects
<1> DEFINE present == PresentSubjects(data)
           Applies(group) == {i \in DOMAIN group : group[i] \in present}
           all == [g \in DOMAIN Glossary |-> Picked(Glossary[g], Applies(Glossary[g]))]
           D == {g \in DOMAIN all : all[g] # <<>>}
           chapters == ApplicableGlossary(data)
           A == Range(all)
<1>1. DOMAIN all = 1..5 /\ D \in SUBSET (1..5)
        /\ \A g \in 1..5 : all[g] = Picked(Glossary[g], Applies(Glossary[g]))
  BY GlossaryIs
<1>2. D \in SUBSET Int /\ IsFiniteSet(D) /\ \A g \in D : all[g] \in A
  <2>1. IsFiniteSet(1..5)
    BY CountedUp
  <2>2. ASSUME NEW g \in D PROVE g \in Int /\ all[g] \in A
    <3> HIDE DEF D, all
    <3>1. g \in 1..5
      BY <1>1
    <3>2. g \in DOMAIN all
      BY <1>1, <3>1
    <3> QED BY <3>1, <3>2 DEF A, Range
  <2> HIDE DEF D, all, A
  <2>3. IsFiniteSet(D)
    BY <1>1, <2>1, FS_Subset
  <2> QED BY <2>2, <2>3
<1>3. chapters = Picked(all, D)
  BY DEF ApplicableGlossary
<1>4. \A g \in 1..5 : g \in D <=> all[g] # <<>>
  BY <1>1
<1> HIDE DEF all, D, chapters, A
<1>5. Range(chapters) = {all[g] : g \in D}
  <2>1. chapters \in Seq(A)
    BY <1>2, <1>3, PickedRange
  <2> QED BY <1>2, <1>3, <2>1, PickedRange
<1>6. <<>> \notin Range(chapters)
  BY <1>1, <1>4, <1>5
<1>7. ASSUME NEW g \in 1..5
      PROVE  \A x : x \in Range(all[g]) <=> x \in Range(Glossary[g]) /\ x \in present
  <2> DEFINE s == Glossary[g]
             P == Applies(s)
             S == Range(s)
  <2>1. PICK n \in Nat : DOMAIN s = 1..n
    BY GlossaryIs
  <2>2. P \in SUBSET (1..n) /\ \A i \in P : s[i] \in S
    BY <2>1 DEF Range
  <2>3. \A x : (\E i \in P : x = s[i]) <=> x \in S /\ x \in present
    BY DEF Range
  <2>4. IsFiniteSet(1..n)
    BY CountedUp
  <2> HIDE DEF P, S, s
  <2>a. IsFiniteSet(P)
    BY <2>2, <2>4, FS_Subset
  <2>b. P \in SUBSET Int
    BY <2>2
  <2>5. IsFiniteSet(P) /\ P \in SUBSET Int
    BY <2>a, <2>b
  <2>6. Picked(s, P) \in Seq(S)
    BY <2>2, <2>5, PickedRange
  <2>7. Range(Picked(s, P)) = {s[i] : i \in P}
    BY <2>2, <2>5, <2>6, PickedRange
  <2>8. all[g] = Picked(s, P)
    BY <1>1 DEF s, P
  <2>9. \A x : x \in Range(all[g]) <=> \E i \in P : x = s[i]
    BY <2>7, <2>8
  <2> QED BY <2>3, <2>9 DEF S, s
<1>8. ASSUME NEW x, x \in UNION {Range(g) : g \in Range(chapters)}
      PROVE  x \in present /\ x \in Subjects
  <2>1. PICK c \in Range(chapters) : x \in Range(c)
    BY <1>8
  <2>2. PICK g \in D : c = all[g]
    BY <1>5, <2>1
  <2>3. g \in 1..5
    BY <1>1
  <2> QED BY <1>7, <2>1, <2>2, <2>3, GlossaryIs
<1>9. ASSUME NEW x \in Subjects, x \in present
      PROVE  x \in UNION {Range(g) : g \in Range(chapters)}
  <2>1. PICK g \in 1..5 : x \in Range(Glossary[g])
    BY GlossaryIs
  <2>2. x \in Range(all[g])
    BY <1>7, <1>9, <2>1
  <2>3. all[g] # <<>>
    <3>1. Range(<<>>) = {}
      BY DEF Range
    <3> QED BY <2>2, <3>1
  <2>4. all[g] \in Range(chapters)
    BY <1>4, <1>5, <2>3
  <2> QED BY <2>2, <2>4
<1> QED BY <1>6, <1>8, <1>9 DEF chapters

\* What is present is what is on the pages, but for the chart's own line, and
\* for positions that are holdings.
LEMMA PresentIsOnThePages ==
    ASSUME NEW data, IsReviewData(data)
    PROVE  /\ (PresentSubjects(data) \cap Subjects) \ {"benchmark"}
                  \subseteq OnThePage(data)
           /\ OnThePage(data) \subseteq Subjects \ {"benchmark"}
           /\ OnThePage(data) \ PresentSubjects(data) \subseteq
                 {s \in {"positions"} : data.holdings = 0}
<1> DEFINE Performs == data.periods \/ data.summary \/ data.annual \/ data.monthly # "none"
           Compares == data.periods /\ data.benchmark # "not_requested"
           Allocations == {AllocationSubject[entry.dimension] :
                             entry \in {e \in Range(data.dimensions) :
                                          e.posture = "ready" /\ e.keyed
                                            /\ e.dimension \in DOMAIN AllocationSubject}}
<1>1. \A x : x \in AllocationSubjects(data) <=> x \in Allocations
  <2> DEFINE dims == data.dimensions
             Selected(entry) == /\ entry.dimension \in DOMAIN AllocationSubject
                            /\ entry.keyed
                            /\ entry.posture \in {"ready", "empty", "unavailable"}
             P == {i \in DOMAIN dims : Selected(dims[i])}
             R == Range(dims)
  <2>1. Len(dims) \in Nat /\ DOMAIN dims = 1..Len(dims)
    BY LenProperties DEF IsReviewData
  <2>2. P \in SUBSET (1..Len(dims)) /\ \A i \in P : dims[i] \in R
    BY <2>1 DEF Range
  <2>3. \A x : (\E i \in P : x = dims[i]) <=> x \in R /\ Selected(x)
    BY DEF Range
  <2>4. PresentedDimensions(data) = Picked(dims, P)
    BY DEF PresentedDimensions
  <2>5. IsFiniteSet(1..Len(dims))
    BY <2>1, CountedUp
  <2> HIDE DEF P, R, dims
  <2>a. IsFiniteSet(P)
    BY <2>2, <2>5, FS_Subset
  <2>b. P \in SUBSET Int
    BY <2>1, <2>2
  <2>6. IsFiniteSet(P) /\ P \in SUBSET Int
    BY <2>a, <2>b
  <2>7. Picked(dims, P) \in Seq(R)
    BY <2>2, <2>6, PickedRange
  <2>8. Range(Picked(dims, P)) = {dims[i] : i \in P}
    BY <2>2, <2>6, <2>7, PickedRange
  <2>9. \A x : x \in Range(PresentedDimensions(data)) <=> x \in R /\ Selected(x)
    BY <2>3, <2>4, <2>8
  <2> QED BY <2>9 DEF AllocationSubjects, R, dims
<1>2. \A x \in Allocations :
         x \in {"allocation", "allocation.currency", "allocation.region",
             "allocation.sector",
                "allocation.country", "allocation.product_type", "allocation.rating"}
  BY DEF AllocationSubject
<1> HIDE DEF Allocations
<1>3. data.positions \in Nat /\ data.holdings \in Nat /\ data.transactions \in Nat
  BY DEF IsReviewData
<1>4. /\ data.holdings # 0 => PositionRows(data) # 0
      /\ PositionRows(data) # 0 => data.holdings # 0 \/ data.holdings = 0
  BY DEF PositionRows
<1>5. BenchmarkColumns(data) <=> data.benchmark # "not_requested"
  BY DEF BenchmarkColumns, BenchmarkPosture
<1>6. \A x : x \in PerformanceSubjects(data) =>
         \/ x = "performance" /\ Performs
         \/ x = "benchmark"
         \/ x = "benchmark.relative" /\ Compares
  BY <1>5 DEF PerformanceSubjects
<1>7. /\ Performs => "performance" \in PerformanceSubjects(data)
      /\ Compares => "benchmark.relative" \in PerformanceSubjects(data)
  BY <1>5 DEF PerformanceSubjects
<1>8. \A x : x \in OnThePage(data) <=>
         \/ x \in data.risk \cap RiskMeasures
         \/ x \in Allocations
         \/ x = "performance" /\ Performs
         \/ x = "benchmark.relative" /\ Compares
         \/ x = "positions" /\ PositionRows(data) # 0
         \/ x = "transactions" /\ data.transactions # 0
  BY DEF OnThePage, Allocations
<1>9. \A x : x \in PresentSubjects(data) <=>
         \/ x \in PerformanceSubjects(data)
         \/ x \in data.risk \cap RiskMeasures
         \/ x \in Allocations
         \/ x = "positions" /\ data.holdings # 0
         \/ x = "transactions" /\ data.transactions # 0
  BY <1>1 DEF PresentSubjects, HoldingSubjects
<1> HIDE DEF Performs, Compares
<1>10. ASSUME NEW x \in PresentSubjects(data), x # "benchmark" PROVE x \in OnThePage(data)
  BY <1>4, <1>6, <1>8, <1>9, <1>10
<1>11. ASSUME NEW x \in OnThePage(data) PROVE x \in Subjects /\ x # "benchmark"
  BY <1>2, <1>8 DEF Subjects, RiskMeasures
<1>12. ASSUME NEW x \in OnThePage(data), x \notin PresentSubjects(data)
       PROVE  x = "positions" /\ data.holdings = 0
  BY <1>7, <1>8, <1>9, <1>12
<1> QED BY <1>10, <1>11, <1>12

\* The glossary explains what is on the pages and nothing else, but for
\* positions of a portfolio that holds none (appendix_glossary.py:121-241).
LEMMA AppendixHolds ==
    ASSUME NEW data, IsReviewData(data)
    PROVE  AppendixExplainsThePages(data)
<1> DEFINE chapters == ApplicableGlossary(data)
           explained == UNION {Range(g) : g \in Range(chapters)}
<1>1. <<>> \notin Range(chapters) /\ explained = PresentSubjects(data) \cap Subjects
  BY ChaptersAre
<1> HIDE DEF explained, chapters
<1>2. /\ (PresentSubjects(data) \cap Subjects) \ {"benchmark"} \subseteq OnThePage(data)
      /\ OnThePage(data) \subseteq Subjects \ {"benchmark"}
      /\ OnThePage(data) \ PresentSubjects(data) \subseteq
            {s \in {"positions"} : data.holdings = 0}
  BY PresentIsOnThePages
<1>3. explained \ {"benchmark"} \subseteq OnThePage(data)
  BY <1>1, <1>2
<1>4. OnThePage(data) \ (explained \ {"benchmark"}) \subseteq
         {s \in {"positions"} : data.holdings = 0}
  BY <1>1, <1>2
<1> QED BY <1>1, <1>3, <1>4 DEF AppendixExplainsThePages, explained, chapters

=============================================================================
