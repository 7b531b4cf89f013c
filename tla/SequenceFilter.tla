--------------------------- MODULE SequenceFilter ---------------------------
(***************************************************************************)
(* Array.prototype.filter, as the stores of the program use it: the        *)
(* elements of a list that are in a set, in their order.  SelectSeq takes  *)
(* an operator and no prover can look inside it; this takes a set, and     *)
(* what it returns is proved here for lists of any length, by induction    *)
(* from the least-number principle (a set of naturals has a least one).    *)
(***************************************************************************)
EXTENDS Naturals, Sequences, WellFoundedInduction, TLAPS

Filter(s, S) ==
  LET kept[i \in 0..Len(s)] ==
        IF i = 0 THEN << >>
        ELSE IF s[i] \in S THEN Append(kept[i - 1], s[i]) ELSE kept[i - 1]
  IN kept[Len(s)]

-----------------------------------------------------------------------------
(* A set of natural numbers that is not empty has a least element.         *)
LEMMA LeastNumber ==
  ASSUME NEW T, T \subseteq Nat, T # {}
  PROVE  \E n \in T : \A m \in T : n <= m
<1> DEFINE R == OpToRel(<, Nat)
<1>1. R = {p \in Nat \X Nat : p[1] < p[2]}
  BY DEF OpToRel
<1>2. \E x \in T : \A y \in T : ~ (<<y, x>> \in R)
  BY NatLessThanWellFounded, WFMin
<1> HIDE DEF R
<1>3. PICK x \in T : \A y \in T : ~ (<<y, x>> \in R)
  BY <1>2
<1>4. ASSUME NEW y \in T PROVE x <= y
  <2>1. <<y, x>> \in Nat \X Nat /\ ~ (<<y, x>> \in R)
    BY <1>3
  <2> QED  BY <1>1, <2>1
<1> QED  BY <1>4

(* Induction, for a set in place of a predicate.                           *)
LEMMA SetInduction ==
  ASSUME NEW T, 0 \in T, \A n \in Nat : n \in T => n + 1 \in T
  PROVE  \A n \in Nat : n \in T
<1> SUFFICES ASSUME Nat \ T # {} PROVE FALSE
  OBVIOUS
<1>1. PICK n \in Nat \ T : \A m \in Nat \ T : n <= m
  BY LeastNumber
<1>2. n # 0 /\ n - 1 \in Nat /\ n - 1 \in T
  BY <1>1
<1>3. (n - 1) + 1 \in T
  BY <1>2
<1> QED  BY <1>1, <1>3

-----------------------------------------------------------------------------
(* One step of the filter, and the function it defines.                    *)
FilterStep(s, S, f, i) ==
  IF i = 0 THEN << >> ELSE IF s[i] \in S THEN Append(f[i - 1], s[i]) ELSE f[i - 1]
Filters(s, S, n, f) == f = [i \in 0..n |-> FilterStep(s, S, f, i)]

(* The recursive definition of Filter has a solution.                      *)
LEMMA FilterExists ==
  ASSUME NEW s, NEW S
  PROVE  \A n \in Nat : \E f : Filters(s, S, n, f)
<1> DEFINE T == {n \in Nat : \E f : Filters(s, S, n, f)}
<1>1. 0 \in T
  <2> DEFINE f == [i \in 0..0 |-> << >>]
  <2>1. f = [i \in 0..0 |-> FilterStep(s, S, f, i)]
    BY DEF FilterStep
  <2> QED  BY <2>1 DEF Filters
<1>2. ASSUME NEW n \in Nat, n \in T PROVE n + 1 \in T
  <2>1. PICK f : Filters(s, S, n, f)
    BY <1>2
  <2> DEFINE g == [i \in 0..(n + 1) |-> IF i \in 0..n THEN f[i] ELSE FilterStep(s, S, f, n + 1)]
  <2>2. \A i \in 0..n : f[i] = FilterStep(s, S, f, i)
    BY <2>1 DEF Filters
  <2>3. \A i \in 0..n : g[i] = f[i]
    OBVIOUS
  <2>4. g[n + 1] = FilterStep(s, S, f, n + 1)
    OBVIOUS
  <2>5. \A i \in 0..(n + 1) : FilterStep(s, S, g, i) = FilterStep(s, S, f, i)
    BY <2>3 DEF FilterStep
  <2>6. \A i \in 0..(n + 1) : g[i] = FilterStep(s, S, g, i)
    BY <2>2, <2>3, <2>4, <2>5
  <2>7. g = [i \in 0..(n + 1) |-> g[i]]
    OBVIOUS
  <2> HIDE DEF g
  <2>8. g = [i \in 0..(n + 1) |-> FilterStep(s, S, g, i)]
    BY <2>6, <2>7
  <2> QED  BY <2>8 DEF Filters
<1> HIDE DEF T
<1>3. \A n \in Nat : n \in T
  BY <1>1, <1>2, SetInduction
<1> QED  BY <1>3 DEF T

(* What Filter returns is the last value of such a function.               *)
LEMMA FilterDef ==
  ASSUME NEW X, NEW s \in Seq(X), NEW S
  PROVE  \E f : Filters(s, S, Len(s), f) /\ Filter(s, S) = f[Len(s)]
<1> DEFINE kept == CHOOSE f : f = [i \in 0..Len(s) |->
        IF i = 0 THEN << >>
        ELSE IF s[i] \in S THEN Append(f[i - 1], s[i]) ELSE f[i - 1]]
<1>1. Len(s) \in Nat
  OBVIOUS
<1>2. \E f : f = [i \in 0..Len(s) |->
        IF i = 0 THEN << >>
        ELSE IF s[i] \in S THEN Append(f[i - 1], s[i]) ELSE f[i - 1]]
  <2>1. PICK f : Filters(s, S, Len(s), f)
    BY <1>1, FilterExists
  <2> QED  BY <2>1 DEF Filters, FilterStep
<1>3. kept = [i \in 0..Len(s) |->
        IF i = 0 THEN << >>
        ELSE IF s[i] \in S THEN Append(kept[i - 1], s[i]) ELSE kept[i - 1]]
  BY <1>2
<1>4. Filter(s, S) = kept[Len(s)]
  BY DEF Filter
<1> HIDE DEF kept
<1> QED  BY <1>3, <1>4 DEF Filters, FilterStep

(* A prefix of the list filters to a list of its elements that are in S,   *)
(* no longer than the prefix and without repetitions if it has none.       *)
FiltersWell(X, s, S, f, n) ==
  /\ f[n] \in Seq(X) /\ Len(f[n]) <= n
  /\ \A k \in 1..Len(f[n]) : \E i \in 1..n : f[n][k] = s[i] /\ s[i] \in S
  /\ \A i \in 1..n : s[i] \in S => \E k \in 1..Len(f[n]) : f[n][k] = s[i]

(* What Filter returns, for every list: a list of the same type, no longer,*)
(* that holds exactly the elements of s that are in S.                     *)
THEOREM FilterKeeps ==
  ASSUME NEW X, NEW s \in Seq(X), NEW S
  PROVE  /\ Filter(s, S) \in Seq(X) /\ Len(Filter(s, S)) <= Len(s)
         /\ \A k \in 1..Len(Filter(s, S)) :
              \E i \in 1..Len(s) : Filter(s, S)[k] = s[i] /\ s[i] \in S
         /\ \A i \in 1..Len(s) :
              s[i] \in S => \E k \in 1..Len(Filter(s, S)) : Filter(s, S)[k] = s[i]
<1>1. PICK f : Filters(s, S, Len(s), f) /\ Filter(s, S) = f[Len(s)]
  BY FilterDef
<1>2. \A i \in 0..Len(s) : f[i] = FilterStep(s, S, f, i)
  BY <1>1 DEF Filters
<1> DEFINE T == {n \in Nat : n <= Len(s) => FiltersWell(X, s, S, f, n)}
<1>3. 0 \in T
  <2>1. f[0] = << >>
    BY <1>2 DEF FilterStep
  <2>2. f[0] \in Seq(X) /\ Len(f[0]) = 0
    BY <2>1
  <2>3. FiltersWell(X, s, S, f, 0)
    BY <2>2 DEF FiltersWell
  <2> QED  BY <2>3
<1>4. ASSUME NEW n \in Nat, n \in T PROVE n + 1 \in T
  <2> SUFFICES ASSUME n + 1 <= Len(s) PROVE FiltersWell(X, s, S, f, n + 1)
    OBVIOUS
  <2> DEFINE g == f[n]
             e == s[n + 1]
  <2>1. FiltersWell(X, s, S, f, n)
    BY <1>4
  <2>2. /\ g \in Seq(X) /\ Len(g) \in Nat /\ Len(g) <= n
        /\ \A k \in 1..Len(g) : \E i \in 1..n : g[k] = s[i] /\ s[i] \in S
        /\ \A i \in 1..n : s[i] \in S => \E k \in 1..Len(g) : g[k] = s[i]
    BY <2>1 DEF FiltersWell
  <2>3. f[n + 1] = IF e \in S THEN Append(g, e) ELSE g
    BY <1>2 DEF FilterStep
  <2>4. e \in X
    OBVIOUS
  <2> HIDE DEF g, e
  <2>5. CASE e \notin S
    <3>1. f[n + 1] = g
      BY <2>3, <2>5
    <3>2. \A k \in 1..Len(g) : \E i \in 1..(n + 1) : g[k] = s[i] /\ s[i] \in S
      <4>1. 1..n \subseteq 1..(n + 1)
        OBVIOUS
      <4> QED  BY <2>2, <4>1
    <3>3. \A i \in 1..(n + 1) : s[i] \in S => \E k \in 1..Len(g) : g[k] = s[i]
      <4>1. \A i \in 1..(n + 1) : i \in 1..n \/ i = n + 1
        OBVIOUS
      <4> QED  BY <2>2, <2>5, <4>1 DEF e
    <3> QED  BY <2>2, <3>1, <3>2, <3>3 DEF FiltersWell
  <2>6. CASE e \in S
    <3> DEFINE h == Append(g, e)
    <3>1. f[n + 1] = h
      BY <2>3, <2>6
    <3>2. /\ h \in Seq(X) /\ Len(h) = Len(g) + 1 /\ h[Len(g) + 1] = e
          /\ \A k \in 1..Len(g) : h[k] = g[k]
      BY <2>2, <2>4
    <3> HIDE DEF h
    <3>3. \A k \in 1..Len(h) : \E i \in 1..(n + 1) : h[k] = s[i] /\ s[i] \in S
      <4> SUFFICES ASSUME NEW k \in 1..Len(h)
                   PROVE  \E i \in 1..(n + 1) : h[k] = s[i] /\ s[i] \in S
        OBVIOUS
      <4>1. CASE k \in 1..Len(g)
        <5>1. PICK i \in 1..n : g[k] = s[i] /\ s[i] \in S
          BY <2>2, <4>1
        <5>2. i \in 1..(n + 1) /\ h[k] = g[k]
          BY <3>2, <4>1
        <5> QED  BY <5>1, <5>2
      <4>2. CASE k = Len(g) + 1
        BY <2>6, <3>2, <4>2 DEF e
      <4> QED  BY <2>2, <3>2, <4>1, <4>2
    <3>4. \A i \in 1..(n + 1) : s[i] \in S => \E k \in 1..Len(h) : h[k] = s[i]
      <4> SUFFICES ASSUME NEW i \in 1..(n + 1), s[i] \in S
                   PROVE  \E k \in 1..Len(h) : h[k] = s[i]
        OBVIOUS
      <4>1. CASE i \in 1..n
        BY <2>2, <3>2, <4>1
      <4>2. CASE i = n + 1
        <5>1. Len(g) + 1 \in 1..Len(h) /\ h[Len(g) + 1] = s[i]
          BY <2>2, <3>2, <4>2 DEF e
        <5> QED  BY <5>1
      <4> QED  BY <4>1, <4>2
    <3> QED  BY <2>2, <3>1, <3>2, <3>3, <3>4 DEF FiltersWell
  <2> QED  BY <2>5, <2>6
<1>5. \A n \in Nat : n \in T
  <2> HIDE DEF T
  <2> QED  BY <1>3, <1>4, SetInduction
<1>6. FiltersWell(X, s, S, f, Len(s))
  BY <1>5
<1> QED  BY <1>1, <1>6 DEF FiltersWell

(* A prefix that has nothing to keep, and after it everything is kept.     *)
FiltersTail(X, s, m, f, n) ==
  /\ f[n] \in Seq(X) /\ Len(f[n]) = (IF n <= m THEN 0 ELSE n - m)
  /\ \A k \in 1..Len(f[n]) : f[n][k] = s[m + k]

(* Where the elements to keep are the last ones, Filter returns that tail. *)
THEOREM FilterTail ==
  ASSUME NEW X, NEW s \in Seq(X), NEW S, NEW m \in 0..Len(s),
         \A i \in 1..m : s[i] \notin S,
         \A i \in 1..Len(s) : i > m => s[i] \in S
  PROVE  /\ Filter(s, S) \in Seq(X) /\ Len(Filter(s, S)) = Len(s) - m
         /\ \A k \in 1..(Len(s) - m) : Filter(s, S)[k] = s[m + k]
<1>1. PICK f : Filters(s, S, Len(s), f) /\ Filter(s, S) = f[Len(s)]
  BY FilterDef
<1>2. \A i \in 0..Len(s) : f[i] = FilterStep(s, S, f, i)
  BY <1>1 DEF Filters
<1> DEFINE T == {n \in Nat : n <= Len(s) => FiltersTail(X, s, m, f, n)}
<1>3. 0 \in T
  <2>1. f[0] = << >>
    BY <1>2 DEF FilterStep
  <2>2. f[0] \in Seq(X) /\ Len(f[0]) = 0
    BY <2>1
  <2>3. FiltersTail(X, s, m, f, 0)
    BY <2>2 DEF FiltersTail
  <2> QED  BY <2>3
<1>4. ASSUME NEW n \in Nat, n \in T PROVE n + 1 \in T
  <2> SUFFICES ASSUME n + 1 <= Len(s) PROVE FiltersTail(X, s, m, f, n + 1)
    OBVIOUS
  <2> DEFINE g == f[n]
             e == s[n + 1]
  <2>1. FiltersTail(X, s, m, f, n)
    BY <1>4
  <2>2. /\ g \in Seq(X) /\ Len(g) \in Nat /\ Len(g) = (IF n <= m THEN 0 ELSE n - m)
        /\ \A k \in 1..Len(g) : g[k] = s[m + k]
    BY <2>1 DEF FiltersTail
  <2>3. f[n + 1] = IF e \in S THEN Append(g, e) ELSE g
    BY <1>2 DEF FilterStep
  <2>4. e \in X /\ (e \in S <=> n + 1 > m)
    OBVIOUS
  <2> HIDE DEF g, e
  <2>5. CASE n + 1 <= m
    <3>1. f[n + 1] = g /\ Len(g) = 0
      BY <2>2, <2>3, <2>4, <2>5
    <3> QED  BY <2>2, <2>5, <3>1 DEF FiltersTail
  <2>6. CASE n + 1 > m
    <3> DEFINE h == Append(g, e)
    <3>1. f[n + 1] = h
      BY <2>3, <2>4, <2>6
    <3>2. Len(g) = n - m
      BY <2>2, <2>6
    <3>3. /\ h \in Seq(X) /\ Len(h) = Len(g) + 1 /\ h[Len(g) + 1] = e
          /\ \A k \in 1..Len(g) : h[k] = g[k]
      BY <2>2, <2>4
    <3> HIDE DEF h
    <3>4. Len(h) = n + 1 - m
      BY <3>2, <3>3, <2>6
    <3>5. ASSUME NEW k \in 1..Len(h) PROVE h[k] = s[m + k]
      <4>1. CASE k \in 1..Len(g)
        BY <2>2, <3>3, <4>1
      <4>2. CASE k = Len(g) + 1
        <5>1. m + k = n + 1
          BY <3>2, <4>2
        <5> QED  BY <3>3, <4>2, <5>1 DEF e
      <4> QED  BY <2>2, <3>3, <4>1, <4>2
    <3> QED  BY <2>6, <3>1, <3>3, <3>4, <3>5 DEF FiltersTail
  <2> QED  BY <2>5, <2>6
<1>5. \A n \in Nat : n \in T
  <2> HIDE DEF T
  <2> QED  BY <1>3, <1>4, SetInduction
<1>6. FiltersTail(X, s, m, f, Len(s))
  BY <1>5
<1>7. Len(f[Len(s)]) = Len(s) - m
  BY <1>6 DEF FiltersTail
<1> QED  BY <1>1, <1>6, <1>7 DEF FiltersTail

(* Where every element is to be kept, Filter changes nothing.              *)
LEMMA FilterAll ==
  ASSUME NEW X, NEW s \in Seq(X), NEW S, \A i \in 1..Len(s) : s[i] \in S
  PROVE  Filter(s, S) = s
<1>1. 0 \in 0..Len(s) /\ \A i \in 1..0 : s[i] \notin S
  OBVIOUS
<1>2. /\ Filter(s, S) \in Seq(X) /\ Len(Filter(s, S)) = Len(s) - 0
      /\ \A k \in 1..(Len(s) - 0) : Filter(s, S)[k] = s[0 + k]
  BY <1>1, FilterTail
<1>3. Len(Filter(s, S)) = Len(s) /\ \A k \in 1..Len(s) : Filter(s, S)[k] = s[k]
  BY <1>2
<1>4. Filter(s, S) = [k \in 1..Len(s) |-> Filter(s, S)[k]] /\ s = [k \in 1..Len(s) |-> s[k]]
  BY <1>2, <1>3
<1> QED  BY <1>3, <1>4

(* No element twice.                                                       *)
Distinct(s) == \A i, j \in 1..Len(s) : s[i] = s[j] => i = j

(* A prefix filters to a list without repetitions of what is in it.        *)
FiltersApart(X, s, f, n) ==
  /\ f[n] \in Seq(X) /\ Distinct(f[n])
  /\ \A k \in 1..Len(f[n]) : \E i \in 1..n : f[n][k] = s[i]

(* A list without repetitions keeps none after Filter.                     *)
LEMMA FilterDistinct ==
  ASSUME NEW X, NEW s \in Seq(X), NEW S, Distinct(s)
  PROVE  Distinct(Filter(s, S))
<1>1. PICK f : Filters(s, S, Len(s), f) /\ Filter(s, S) = f[Len(s)]
  BY FilterDef
<1>2. \A i \in 0..Len(s) : f[i] = FilterStep(s, S, f, i)
  BY <1>1 DEF Filters
<1> DEFINE T == {n \in Nat : n <= Len(s) => FiltersApart(X, s, f, n)}
<1>3. 0 \in T
  <2>1. f[0] = << >>
    BY <1>2 DEF FilterStep
  <2>2. f[0] \in Seq(X) /\ Len(f[0]) = 0
    BY <2>1
  <2>3. FiltersApart(X, s, f, 0)
    BY <2>2 DEF FiltersApart, Distinct
  <2> QED  BY <2>3
<1>4. ASSUME NEW n \in Nat, n \in T PROVE n + 1 \in T
  <2> SUFFICES ASSUME n + 1 <= Len(s) PROVE FiltersApart(X, s, f, n + 1)
    OBVIOUS
  <2> DEFINE g == f[n]
             e == s[n + 1]
  <2>1. FiltersApart(X, s, f, n)
    BY <1>4
  <2>2. g \in Seq(X) /\ Len(g) \in Nat /\ Distinct(g) /\ \A k \in 1..Len(g) : \E i \in 1..n : g[k] = s[i]
    BY <2>1 DEF FiltersApart
  <2>3. f[n + 1] = IF e \in S THEN Append(g, e) ELSE g
    BY <1>2 DEF FilterStep
  <2>4. e \in X /\ \A i \in 1..n : s[i] # e
    BY DEF Distinct
  <2>5. e = s[n + 1] /\ n + 1 \in 1..(n + 1) /\ \A i \in 1..n : i \in 1..(n + 1)
    OBVIOUS
  <2> HIDE DEF g, e
  <2>6. CASE e \notin S
    BY <2>2, <2>3, <2>5, <2>6 DEF FiltersApart
  <2>7. CASE e \in S
    <3> DEFINE h == Append(g, e)
    <3>1. f[n + 1] = h
      BY <2>3, <2>7
    <3>2. h \in Seq(X) /\ Len(h) = Len(g) + 1 /\ h[Len(g) + 1] = e /\ \A k \in 1..Len(g) : h[k] = g[k]
      BY <2>2, <2>4
    <3> HIDE DEF h
    <3>3. \A k \in 1..Len(h) : k \in 1..Len(g) \/ k = Len(g) + 1
      BY <2>2, <3>2
    <3>4. \A k \in 1..Len(g) : h[k] # e
      BY <2>2, <2>4, <3>2
    <3>5. Distinct(h)
      BY <2>2, <3>2, <3>3, <3>4 DEF Distinct
    <3>6. \A k \in 1..Len(h) : \E i \in 1..(n + 1) : h[k] = s[i]
      BY <2>2, <2>5, <3>2, <3>3
    <3> QED  BY <3>1, <3>2, <3>5, <3>6 DEF FiltersApart
  <2> QED  BY <2>6, <2>7
<1>5. \A n \in Nat : n \in T
  <2> HIDE DEF T
  <2> QED  BY <1>3, <1>4, SetInduction
<1> QED  BY <1>1, <1>5 DEF FiltersApart
=============================================================================
