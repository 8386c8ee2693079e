--------------------------- MODULE SeqRetainProofs ---------------------------
(***************************************************************************)
(* What Without, the model's Vec::retain, keeps.  Induction over the       *)
(* length of the sequence goes by the least length at which the claim      *)
(* would fail.                                                             *)
(***************************************************************************)
EXTENDS SeqRetain, TLAPS, FiniteSetTheorems, WellFoundedInduction, SequenceTheorems

(* A non-empty set of naturals has a least element: its initial segments   *)
(* are finite sets, on which strict inclusion is well founded.             *)
LEMMA LeastNat ==
  ASSUME NEW T \in SUBSET Nat, T # {}
  PROVE  \E n \in T : \A m \in T : n <= m
<1> DEFINE Seg == {0..n : n \in T}
           R == StrictSubsetOrdering(Nat)
<1>1. Seg \subseteq FiniteSubsetsOf(Nat)
  <2> SUFFICES ASSUME NEW n \in T PROVE 0..n \in FiniteSubsetsOf(Nat)
    OBVIOUS
  <2>1. IsFiniteSet(0..n)
    BY FS_Interval
  <2>2. 0..n \in SUBSET Nat
    OBVIOUS
  <2> QED  BY <2>1, <2>2 DEF FiniteSubsetsOf
<1>2. Seg # {}
  OBVIOUS
<1>3. IsWellFoundedOn(R, FiniteSubsetsOf(Nat))
  BY FS_StrictSubsetOrderingWellFounded
<1>4. PICK s \in Seg : \A t \in Seg : <<t, s>> \notin R
  <2> HIDE DEF Seg, R
  <2> QED  BY <1>1, <1>2, <1>3, WFMin
<1>5. PICK n \in T : s = 0..n
  OBVIOUS
<1>6. ASSUME NEW m \in T PROVE n <= m
  <2>1. <<0..m, 0..n>> \notin R
    BY <1>4, <1>5
  <2>2. CASE m < n
    <3>1. 0..m \subseteq 0..n /\ 0..m # 0..n
      BY <2>2
    <3>2. 0..m \in SUBSET Nat /\ 0..n \in SUBSET Nat
      OBVIOUS
    <3> QED  BY <2>1, <3>1, <3>2 DEF StrictSubsetOrdering
  <2> QED  BY <2>2
<1> QED  BY <1>6

(* The defining equation of the recursive function in Without.             *)
KeptStep(s, D, f, i) ==
  IF i = 0 THEN <<>>
  ELSE IF s[i] \in D THEN f[i - 1] ELSE Append(f[i - 1], s[i])

(* The recursive function in Without exists: what `retain` has kept after  *)
(* i elements is defined for every i.                                      *)
LEMMA KeptExists ==
  ASSUME NEW V, NEW s \in Seq(V), NEW D
  PROVE  \E f : f = [i \in 0..Len(s) |-> KeptStep(s, D, f, i)]
<1> DEFINE Sol(n) == \E f : f = [i \in 0..n |-> KeptStep(s, D, f, i)]
           Bad == {n \in 0..Len(s) : ~ Sol(n)}
<1>1. Bad = {}
  <2> SUFFICES ASSUME Bad # {} PROVE FALSE
    OBVIOUS
  <2>1. PICK n \in Bad : \A m \in Bad : n <= m
    BY LeastNat, Bad \in SUBSET Nat
  <2>2. CASE n = 0
    <3> DEFINE g == [i \in 0..0 |-> <<>>]
    <3>1. g = [i \in 0..0 |-> KeptStep(s, D, g, i)]
      BY DEF KeptStep
    <3> QED  BY <2>2, <3>1
  <2>3. CASE n # 0
    <3>1. n - 1 \in 0..Len(s) /\ n \in 1..Len(s)
      BY <2>3
    <3>2. Sol(n - 1)
      BY <2>1, <3>1
    <3>3. PICK f : f = [i \in 0..(n - 1) |-> KeptStep(s, D, f, i)]
      BY <3>2
    <3> DEFINE g == [i \in 0..n |-> IF i = n THEN KeptStep(s, D, f, i) ELSE f[i]]
    <3>4. ASSUME NEW i \in 0..n PROVE g[i] = KeptStep(s, D, g, i)
      <4>1. CASE i = 0
        BY <4>1, <3>1, <3>3 DEF KeptStep
      <4>2. CASE i # 0 /\ i # n
        <5>1. g[i] = f[i] /\ g[i - 1] = f[i - 1] /\ i \in 0..(n - 1)
          BY <4>2, <3>1
        <5>2. f[i] = KeptStep(s, D, f, i)
          BY <3>3, <5>1
        <5> QED  BY <5>1, <5>2, <4>2 DEF KeptStep
      <4>3. CASE i = n
        <5>1. g[n] = KeptStep(s, D, f, n) /\ g[n - 1] = f[n - 1]
          BY <3>1
        <5> QED  BY <5>1, <4>3, <3>1 DEF KeptStep
      <4> QED  BY <4>1, <4>2, <4>3
    <3>5. g = [i \in 0..n |-> KeptStep(s, D, g, i)]
      BY <3>4
    <3> QED  BY <3>5
  <2> QED  BY <2>2, <2>3
<1> QED  BY <1>1

(* retain leaves a sequence over the same values, with exactly the elements*)
(* that are not in D.                                                      *)
LEMMA WithoutProperties ==
  ASSUME NEW V, NEW s \in Seq(V), NEW D
  PROVE  /\ Without(s, D) \in Seq(V)
         /\ Elems(Without(s, D)) = Elems(s) \ D
<1> DEFINE N == Len(s)
           kept == CHOOSE f : f = [i \in 0..N |-> KeptStep(s, D, f, i)]
           Good(n) == /\ kept[n] \in Seq(V)
                      /\ Elems(kept[n]) = {s[j] : j \in 1..n} \ D
           Bad == {n \in 0..N : ~ Good(n)}
<1>1. Without(s, D) = kept[N]
  BY DEF Without, KeptStep
<1>2. kept = [i \in 0..N |-> KeptStep(s, D, kept, i)]
  <2> HIDE DEF N
  <2> QED BY KeptExists DEF N
<1> HIDE DEF kept, Good
<1>3. Bad = {}
  <2> SUFFICES ASSUME Bad # {} PROVE FALSE
    OBVIOUS
  <2>1. PICK n \in Bad : \A m \in Bad : n <= m
    BY LeastNat, Bad \in SUBSET Nat
  <2>2. CASE n = 0
    <3>1. kept[0] = <<>>
      BY <1>2 DEF KeptStep
    <3>2. Elems(<<>>) = {}
      BY DEF Elems
    <3>3. Good(0)
      BY <3>1, <3>2 DEF Good
    <3> QED  BY <2>1, <2>2, <3>3
  <2>3. CASE n # 0
    <3>1. n - 1 \in 0..N /\ n \in 1..N /\ n \in 0..N
      BY <2>3
    <3>2. Good(n - 1)
      BY <2>1, <3>1
    <3>3. kept[n] = IF s[n] \in D THEN kept[n - 1] ELSE Append(kept[n - 1], s[n])
      BY <1>2, <3>1, <2>3 DEF KeptStep
    <3>4. s[n] \in V
      BY <3>1
    <3>5. {s[j] : j \in 1..n} = {s[j] : j \in 1..(n - 1)} \cup {s[n]}
      BY <3>1
    <3>6. CASE s[n] \in D
      <4>1. Good(n)
        BY <3>2, <3>3, <3>5, <3>6 DEF Good
      <4> QED  BY <2>1, <4>1
    <3>7. CASE s[n] \notin D
      <4> DEFINE t == kept[n - 1]
      <4> HIDE DEF t
      <4>1. t \in Seq(V)
        BY <3>2 DEF t, Good
      <4>2. Elems(Append(t, s[n])) = Elems(t) \cup {s[n]}
        BY <4>1, <3>4, AppendProperties DEF Elems
      <4>3. Append(t, s[n]) \in Seq(V)
        BY <4>1, <3>4, AppendProperties
      <4>4. Good(n)
        BY <4>2, <4>3, <3>2, <3>3, <3>5, <3>7 DEF t, Good
      <4> QED  BY <2>1, <4>4
    <3> QED  BY <3>6, <3>7
  <2> QED  BY <2>2, <2>3
<1>4. Good(N)
  BY <1>3
<1> QED  BY <1>1, <1>4 DEF Elems, Good

(* The sequence that Without builds up, one element at a time.             *)
LEMMA WithoutBuilt ==
  ASSUME NEW V, NEW s \in Seq(V), NEW D
  PROVE  \E kept : /\ kept = [i \in 0..Len(s) |-> KeptStep(s, D, kept, i)]
                   /\ Without(s, D) = kept[Len(s)]
<1> DEFINE kept == CHOOSE f : f = [i \in 0..Len(s) |-> KeptStep(s, D, f, i)]
<1>1. Without(s, D) = kept[Len(s)]
  BY DEF Without, KeptStep
<1>2. kept = [i \in 0..Len(s) |-> KeptStep(s, D, kept, i)]
  BY KeptExists
<1> HIDE DEF kept
<1> QED  BY <1>1, <1>2

(* What Append adds.                                                       *)
LEMMA AppendElems ==
  ASSUME NEW V, NEW s \in Seq(V), NEW x \in V
  PROVE  Elems(Append(s, x)) = Elems(s) \cup {x}
BY AppendProperties DEF Elems

(* Numbered elements, each with a larger number than those before it.      *)
Increasing(s) == \A i, j \in 1..Len(s) : i < j => s[i][2] < s[j][2]

(* Append keeps the numbers increasing when the last one is the largest.   *)
LEMMA AppendIncreasing ==
  ASSUME NEW V, NEW s \in Seq(V \X Nat), NEW x \in V \X Nat, Increasing(s),
         \A i \in 1..Len(s) : s[i][2] < x[2]
  PROVE  Increasing(Append(s, x))
<1>1. /\ Append(s, x) \in Seq(V \X Nat)
      /\ Len(Append(s, x)) = Len(s) + 1
      /\ \A i \in 1..Len(s) : Append(s, x)[i] = s[i]
      /\ Append(s, x)[Len(s) + 1] = x
  BY AppendProperties
<1>2. Len(s) \in Nat
  OBVIOUS
<1> SUFFICES ASSUME NEW i \in 1..(Len(s) + 1), NEW j \in 1..(Len(s) + 1), i < j
             PROVE  Append(s, x)[i][2] < Append(s, x)[j][2]
  BY <1>1 DEF Increasing
<1>3. i \in 1..Len(s)
  BY <1>2
<1>4. CASE j \in 1..Len(s)
  BY <1>1, <1>3, <1>4 DEF Increasing
<1>5. CASE j = Len(s) + 1
  BY <1>1, <1>3, <1>5
<1> QED  BY <1>2, <1>4, <1>5

(* retain keeps the order of the elements.                                 *)
LEMMA WithoutIncreasing ==
  ASSUME NEW V, NEW s \in Seq(V \X Nat), NEW D, Increasing(s)
  PROVE  Increasing(Without(s, D))
<1> DEFINE N == Len(s)
<1>1. PICK kept : /\ kept = [i \in 0..N |-> KeptStep(s, D, kept, i)]
                  /\ Without(s, D) = kept[N]
  BY WithoutBuilt
<1> DEFINE Good(n) == /\ kept[n] \in Seq(V \X Nat)
                      /\ Elems(kept[n]) \subseteq {s[j] : j \in 1..n}
                      /\ Increasing(kept[n])
           Bad == {n \in 0..N : ~ Good(n)}
<1> HIDE DEF Good
<1>2. Bad = {}
  <2> SUFFICES ASSUME Bad # {} PROVE FALSE
    OBVIOUS
  <2>1. PICK n \in Bad : \A m \in Bad : n <= m
    BY LeastNat, Bad \in SUBSET Nat
  <2>2. CASE n = 0
    <3>1. kept[0] = <<>>
      BY <1>1 DEF KeptStep
    <3>2. Good(0)
      BY <3>1 DEF Good, Elems, Increasing
    <3> QED  BY <2>1, <2>2, <3>2
  <2>3. CASE n # 0
    <3>1. n - 1 \in 0..N /\ n \in 1..N /\ n \in 0..N
      BY <2>3
    <3>2. Good(n - 1)
      BY <2>1, <3>1
    <3>3. kept[n] = IF s[n] \in D THEN kept[n - 1] ELSE Append(kept[n - 1], s[n])
      BY <1>1, <3>1, <2>3 DEF KeptStep
    <3>4. s[n] \in V \X Nat
      BY <3>1
    <3>5. {s[j] : j \in 1..(n - 1)} \subseteq {s[j] : j \in 1..n}
      BY <3>1
    <3>6. CASE s[n] \in D
      <4>1. Good(n)
        BY <3>2, <3>3, <3>5, <3>6 DEF Good
      <4> QED  BY <2>1, <4>1
    <3>7. CASE s[n] \notin D
      <4> DEFINE t == kept[n - 1]
      <4> HIDE DEF t
      <4>1. t \in Seq(V \X Nat) /\ Elems(t) \subseteq {s[j] : j \in 1..(n - 1)} /\ Increasing(t)
        BY <3>2 DEF t, Good
      <4>2. Elems(Append(t, s[n])) = Elems(t) \cup {s[n]}
        BY <4>1, <3>4, AppendElems
      <4>3. Append(t, s[n]) \in Seq(V \X Nat)
        BY <4>1, <3>4, AppendProperties
      <4>4. ASSUME NEW i \in 1..Len(t) PROVE t[i][2] < s[n][2]
        <5>1. t[i] \in Elems(t)
          BY DEF Elems
        <5>2. PICK j \in 1..(n - 1) : t[i] = s[j]
          BY <4>1, <5>1
        <5> QED  BY <5>2, <3>1 DEF Increasing
      <4>5. Increasing(Append(t, s[n]))
        BY <4>1, <4>4, <3>4, AppendIncreasing
      <4>6. Elems(Append(t, s[n])) \subseteq {s[j] : j \in 1..n}
        BY <4>1, <4>2, <3>1, <3>5
      <4>7. Good(n)
        BY <4>3, <4>5, <4>6, <3>3, <3>7 DEF t, Good
      <4> QED  BY <2>1, <4>7
    <3> QED  BY <3>6, <3>7
  <2> QED  BY <2>2, <2>3
<1>3. Good(N)
  BY <1>2
<1> QED  BY <1>1, <1>3 DEF Good

(* Every element once.                                                     *)
Distinct(s) == \A i, j \in 1..Len(s) : s[i] = s[j] => i = j

(* Append keeps the elements distinct when the last one is new.            *)
LEMMA AppendDistinct ==
  ASSUME NEW V, NEW s \in Seq(V), NEW x \in V, Distinct(s), x \notin Elems(s)
  PROVE  Distinct(Append(s, x))
<1>1. /\ Append(s, x) \in Seq(V)
      /\ Len(Append(s, x)) = Len(s) + 1
      /\ \A i \in 1..Len(s) : Append(s, x)[i] = s[i] /\ s[i] # x
      /\ Append(s, x)[Len(s) + 1] = x
  BY AppendProperties DEF Elems
<1>2. \A i \in 1..(Len(s) + 1) : i \in 1..Len(s) \/ i = Len(s) + 1
  OBVIOUS
<1> QED  BY <1>1, <1>2 DEF Distinct

(* retain keeps the elements distinct.                                     *)
LEMMA WithoutDistinct ==
  ASSUME NEW V, NEW s \in Seq(V), NEW D, Distinct(s)
  PROVE  Distinct(Without(s, D))
<1> DEFINE N == Len(s)
<1>1. PICK kept : /\ kept = [i \in 0..N |-> KeptStep(s, D, kept, i)]
                  /\ Without(s, D) = kept[N]
  BY WithoutBuilt
<1> DEFINE Good(n) == /\ kept[n] \in Seq(V)
                      /\ Elems(kept[n]) \subseteq {s[j] : j \in 1..n}
                      /\ Distinct(kept[n])
           Bad == {n \in 0..N : ~ Good(n)}
<1> HIDE DEF Good
<1>2. Bad = {}
  <2> SUFFICES ASSUME Bad # {} PROVE FALSE
    OBVIOUS
  <2>1. PICK n \in Bad : \A m \in Bad : n <= m
    BY LeastNat, Bad \in SUBSET Nat
  <2>2. CASE n = 0
    <3>1. kept[0] = <<>>
      BY <1>1 DEF KeptStep
    <3>2. Good(0)
      BY <3>1 DEF Good, Elems, Distinct
    <3> QED  BY <2>1, <2>2, <3>2
  <2>3. CASE n # 0
    <3>1. n - 1 \in 0..N /\ n \in 1..N /\ n \in 0..N
      BY <2>3
    <3>2. Good(n - 1)
      BY <2>1, <3>1
    <3>3. kept[n] = IF s[n] \in D THEN kept[n - 1] ELSE Append(kept[n - 1], s[n])
      BY <1>1, <3>1, <2>3 DEF KeptStep
    <3>4. s[n] \in V
      BY <3>1
    <3>5. {s[j] : j \in 1..n} = {s[j] : j \in 1..(n - 1)} \cup {s[n]}
      BY <3>1
    <3>6. CASE s[n] \in D
      <4>1. Good(n)
        BY <3>2, <3>3, <3>5, <3>6 DEF Good
      <4> QED  BY <2>1, <4>1
    <3>7. CASE s[n] \notin D
      <4> DEFINE t == kept[n - 1]
      <4> HIDE DEF t
      <4>1. t \in Seq(V) /\ Elems(t) \subseteq {s[j] : j \in 1..(n - 1)} /\ Distinct(t)
        BY <3>2 DEF t, Good
      <4>2. Elems(Append(t, s[n])) = Elems(t) \cup {s[n]}
        BY <4>1, <3>4, AppendElems
      <4>3. Append(t, s[n]) \in Seq(V)
        BY <4>1, <3>4, AppendProperties
      <4>4. s[n] \notin Elems(t)
        <5>1. \A j \in 1..(n - 1) : j \in 1..N /\ j # n
          BY <3>1
        <5> QED  BY <3>1, <4>1, <5>1 DEF Distinct
      <4>5. Distinct(Append(t, s[n]))
        BY <4>1, <4>4, <3>4, AppendDistinct
      <4>6. Good(n)
        BY <4>1, <4>2, <4>3, <4>5, <3>3, <3>5, <3>7 DEF t, Good
      <4> QED  BY <2>1, <4>6
    <3> QED  BY <3>6, <3>7
  <2> QED  BY <2>2, <2>3
<1>3. Good(N)
  BY <1>2
<1> QED  BY <1>1, <1>3 DEF Good

=============================================================================
