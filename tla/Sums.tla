-------------------------------- MODULE Sums --------------------------------
(***************************************************************************)
(* What the proofs need of sums over finite sets: SumFunctionOnSet of the  *)
(* community modules, for functions with integer values.  Induction is by  *)
(* a minimal counterexample: a nonempty set of subsets of a finite set has *)
(* a minimal member, and so has a nonempty set of naturals.                *)
(***************************************************************************)
EXTENDS Integers, FiniteSets, Functions, FiniteSetTheorems, WellFoundedInduction, TLAPS

(* A nonempty set of subsets of a finite set has a minimal member.         *)
LEMMA MinimalSubset ==
    ASSUME NEW S, IsFiniteSet(S), NEW B, B \subseteq SUBSET S, B # {}
    PROVE  \E T \in B : \A U \in SUBSET T : U # T => U \notin B
<1>1. FiniteSubsetsOf(S) = SUBSET S
  BY FS_FiniteSubsetsOfFinite
<1>2. IsWellFoundedOn(StrictSubsetOrdering(S), SUBSET S)
  BY <1>1, FS_StrictSubsetOrderingWellFounded
<1>3. PICK T \in B : \A U \in B : ~(<<U, T>> \in StrictSubsetOrdering(S))
  BY <1>2, WFMin
<1> QED
  BY <1>3 DEF StrictSubsetOrdering

(* A nonempty set of naturals has a least member.                          *)
LEMMA LeastNatural ==
    ASSUME NEW B, B \subseteq Nat, B # {}
    PROVE  \E n \in B : \A m \in B : n <= m
<1> DEFINE R == OpToRel(<, Nat)
<1>1. IsWellFoundedOn(R, Nat)
  BY NatLessThanWellFounded
<1>2. \A m, n \in Nat : m < n => <<m, n>> \in R
  BY DEF OpToRel
<1> HIDE DEF R
<1>3. PICK n \in B : \A m \in B : ~(<<m, n>> \in R)
  BY <1>1, WFMin
<1>4. ASSUME NEW m \in B PROVE n <= m
  <2>1. m \in Nat /\ n \in Nat /\ ~(<<m, n>> \in R)
    BY <1>3
  <2>2. ~(m < n)
    BY <1>2, <2>1
  <2> QED
    BY <2>1, <2>2
<1> QED
  BY <1>3, <1>4

-----------------------------------------------------------------------------
(* The member that a sum takes first, and what it is in terms of the sums  *)
(* g over smaller sets.                                                    *)
Pick(s) == CHOOSE x \in s : TRUE
SumStep(g, f, s) == IF s = {} THEN 0 ELSE f[Pick(s)] + g[s \ {Pick(s)}]

(* The function of the sums of f over the subsets of S.                    *)
Sums(g, f, S) == g = [s \in SUBSET S |-> SumStep(g, f, s)]
SumsOf(f, S) == CHOOSE g : Sums(g, f, S)

(* f has integer values on S.                                              *)
IntOn(f, S) == \A x \in S : f[x] \in Int

(* SumFunctionOnSet is that function's value at S.                         *)
LEMMA SumIsChosen ==
    ASSUME NEW f, NEW S
    PROVE  SumFunctionOnSet(f, S) = SumsOf(f, S)[S]
BY DEF SumFunctionOnSet, FoldFunctionOnSet, MapThenFoldSet, SumsOf, Sums, SumStep, Pick

(* The member that is taken, and the size of what is left.                 *)
LEMMA PickSmaller ==
    ASSUME NEW S, IsFiniteSet(S), NEW s \in SUBSET S, s # {}
    PROVE  /\ Pick(s) \in s
           /\ s \ {Pick(s)} \in SUBSET S
           /\ Cardinality(s) \in Nat \ {0}
           /\ Cardinality(s \ {Pick(s)}) = Cardinality(s) - 1
<1>1. Pick(s) \in s
  BY DEF Pick
<1>2. IsFiniteSet(s)
  BY FS_Subset
<1>3. Cardinality(s \ {Pick(s)}) = Cardinality(s) - 1 /\ IsFiniteSet(s \ {Pick(s)})
  BY <1>1, <1>2, FS_RemoveElement
<1>4. Cardinality(s) \in Nat /\ Cardinality(s \ {Pick(s)}) \in Nat
  BY <1>2, <1>3, FS_CardinalityType
<1> QED
  BY <1>1, <1>3, <1>4

(* There is such a function: it is found for one size after the other.     *)
LEMMA SumsExist ==
    ASSUME NEW S, IsFiniteSet(S), NEW f
    PROVE  Sums(SumsOf(f, S), f, S)
<1> DEFINE Small(n) == {s \in SUBSET S : Cardinality(s) <= n}
           Solves(g, n) == g = [s \in Small(n) |-> SumStep(g, f, s)]
           Bad == {n \in Nat : ~ \E g : Solves(g, n)}
<1>1. \A s \in SUBSET S : Cardinality(s) \in Nat
  BY FS_Subset, FS_CardinalityType
<1>3. ASSUME Bad # {} PROVE FALSE
  <2>1. PICK n \in Bad : \A m \in Bad : n <= m
    <3> HIDE DEF Bad
    <3>1. Bad \subseteq Nat
      BY DEF Bad
    <3> QED
      BY <1>3, <3>1, LeastNatural
  <2>2. n \in Nat /\ ~ \E g : Solves(g, n)
    BY <2>1
  <2>3. CASE n = 0
    <3> DEFINE g == [s \in Small(0) |-> 0]
    <3>1. ASSUME NEW s \in Small(0) PROVE s = {}
      <4> SUFFICES ASSUME s # {} PROVE FALSE
        OBVIOUS
      <4>1. s \in SUBSET S /\ Cardinality(s) <= 0
        OBVIOUS
      <4>2. Cardinality(s) \in Nat \ {0}
        BY <4>1, PickSmaller
      <4> QED
        BY <4>1, <4>2
    <3>2. Solves(g, 0)
      BY <3>1 DEF SumStep
    <3> QED
      BY <2>2, <2>3, <3>2
  <2>4. CASE n # 0
    <3>1. n - 1 \in Nat
      BY <2>2, <2>4
    <3>2. n - 1 \notin Bad
      <4> HIDE DEF Bad
      <4> QED
        BY <2>1, <2>2, <3>1
    <3>3. PICK g : Solves(g, n - 1)
      BY <3>1, <3>2
    <3> DEFINE h == [s \in Small(n) |-> IF s \in Small(n - 1) THEN g[s] ELSE SumStep(g, f, s)]
    <3>4. \A s \in Small(n - 1) : s \in Small(n) /\ g[s] = SumStep(g, f, s)
      BY <1>1, <2>2, <3>3
    <3>5. ASSUME NEW s \in Small(n), s # {} PROVE s \ {Pick(s)} \in Small(n - 1)
      BY <2>2, <3>5, PickSmaller
    <3>6. ASSUME NEW s \in Small(n) PROVE SumStep(h, f, s) = SumStep(g, f, s)
      <4>1. CASE s = {}
        BY <4>1 DEF SumStep
      <4>2. CASE s # {}
        <5>1. s \ {Pick(s)} \in Small(n - 1)
          BY <3>5, <4>2
        <5>2. h[s \ {Pick(s)}] = g[s \ {Pick(s)}]
          <6> HIDE DEF Small
          <6> QED
            BY <3>4, <5>1
        <5> QED
          BY <4>2, <5>2 DEF SumStep
      <4> QED
        BY <4>1, <4>2
    <3>7. Solves(h, n)
      <4>1. \A s \in Small(n) : h[s] = SumStep(h, f, s)
        BY <3>4, <3>6
      <4> HIDE DEF Small
      <4> QED
        BY <4>1
    <3> QED
      BY <2>2, <3>7
  <2> QED
    BY <2>3, <2>4
<1>4. Cardinality(S) \in Nat /\ \A s \in SUBSET S : Cardinality(s) <= Cardinality(S)
  BY FS_Subset, FS_CardinalityType
<1>5. PICK g : Solves(g, Cardinality(S))
  BY <1>3, <1>4
<1>6. Small(Cardinality(S)) = SUBSET S
  BY <1>4
<1>7. Sums(g, f, S)
  BY <1>5, <1>6 DEF Sums
<1> QED
  BY <1>7 DEF SumsOf

(* The sums over the subsets are the sums over each subset.                *)
LEMMA SumsAgree ==
    ASSUME NEW S, IsFiniteSet(S), NEW f, NEW T \in SUBSET S
    PROVE  SumsOf(f, S)[T] = SumFunctionOnSet(f, T)
<1> DEFINE g == SumsOf(f, S)
           h == SumsOf(f, T)
           Bad == {s \in SUBSET T : g[s] # h[s]}
<1>1. IsFiniteSet(T)
  BY FS_Subset
<1>2. Sums(g, f, S) /\ Sums(h, f, T)
  BY <1>1, SumsExist
<1> HIDE DEF g, h
<1>3. ASSUME NEW s \in SUBSET T
      PROVE  g[s] = SumStep(g, f, s) /\ h[s] = SumStep(h, f, s)
  BY <1>2 DEF Sums
<1>4. ASSUME Bad # {} PROVE FALSE
  <2>1. PICK s \in Bad : \A u \in SUBSET s : u # s => u \notin Bad
    <3> HIDE DEF Bad
    <3>1. Bad \subseteq SUBSET T
      BY DEF Bad
    <3> QED
      BY <1>1, <1>4, <3>1, MinimalSubset
  <2>2. s \in SUBSET T /\ g[s] # h[s]
    BY <2>1
  <2>3. CASE s = {}
    BY <1>3, <2>2, <2>3 DEF SumStep
  <2>4. CASE s # {}
    <3>1. Pick(s) \in s
      BY <2>4 DEF Pick
    <3>2. s \ {Pick(s)} \notin Bad
      <4> HIDE DEF Bad
      <4> QED
        BY <2>1, <3>1
    <3>3. g[s \ {Pick(s)}] = h[s \ {Pick(s)}]
      BY <2>2, <3>2
    <3>4. SumStep(g, f, s) = SumStep(h, f, s)
      BY <3>3 DEF SumStep
    <3> QED
      BY <1>3, <2>2, <3>4
  <2> QED
    BY <2>3, <2>4
<1>5. g[T] = h[T]
  BY <1>4
<1> QED
  BY <1>5, SumIsChosen DEF g, h

(* The sum over no member, and over one more than the others.              *)
LEMMA SumEmpty ==
    ASSUME NEW f
    PROVE  SumFunctionOnSet(f, {}) = 0
<1>1. Sums(SumsOf(f, {}), f, {})
  BY FS_EmptySet, SumsExist
<1> QED
  BY <1>1, SumIsChosen DEF Sums, SumStep

LEMMA SumPick ==
    ASSUME NEW S, IsFiniteSet(S), S # {}, NEW f
    PROVE  SumFunctionOnSet(f, S) = f[Pick(S)] + SumFunctionOnSet(f, S \ {Pick(S)})
<1>1. SumFunctionOnSet(f, S) = SumStep(SumsOf(f, S), f, S)
  <2> DEFINE g == SumsOf(f, S)
  <2>1. Sums(g, f, S) /\ SumFunctionOnSet(f, S) = g[S]
    BY SumsExist, SumIsChosen
  <2> HIDE DEF g
  <2>2. g[S] = SumStep(g, f, S)
    BY <2>1 DEF Sums
  <2> QED
    BY <2>1, <2>2 DEF g
<1>2. SumsOf(f, S)[S \ {Pick(S)}] = SumFunctionOnSet(f, S \ {Pick(S)})
  BY SumsAgree
<1> QED
  BY <1>1, <1>2 DEF SumStep

(* A sum of integers is an integer.                                        *)
LEMMA SumType ==
    ASSUME NEW S, IsFiniteSet(S), NEW f, IntOn(f, S)
    PROVE  SumFunctionOnSet(f, S) \in Int
<1> DEFINE Bad == {s \in SUBSET S : SumFunctionOnSet(f, s) \notin Int}
<1>1. ASSUME Bad # {} PROVE FALSE
  <2>1. PICK s \in Bad : \A u \in SUBSET s : u # s => u \notin Bad
    <3> HIDE DEF Bad
    <3>1. Bad \subseteq SUBSET S
      BY DEF Bad
    <3> QED
      BY <1>1, <3>1, MinimalSubset
  <2>2. s \in SUBSET S /\ SumFunctionOnSet(f, s) \notin Int
    BY <2>1
  <2>3. s # {}
    BY <2>2, SumEmpty
  <2>4. Pick(s) \in s /\ IsFiniteSet(s)
    BY <2>2, <2>3, FS_Subset DEF Pick
  <2>5. s \ {Pick(s)} \notin Bad
    <3> HIDE DEF Bad
    <3> QED
      BY <2>1, <2>4
  <2>6. SumFunctionOnSet(f, s \ {Pick(s)}) \in Int
    BY <2>2, <2>5
  <2>7. SumFunctionOnSet(f, s) = f[Pick(s)] + SumFunctionOnSet(f, s \ {Pick(s)})
    BY <2>3, <2>4, SumPick
  <2>8. f[Pick(s)] \in Int
    BY <2>2, <2>4 DEF IntOn
  <2> QED
    BY <2>2, <2>6, <2>7, <2>8
<1> QED
  BY <1>1

(* The order does not matter: any member can be taken out of a sum.        *)
LEMMA SumTakeOut ==
    ASSUME NEW S, IsFiniteSet(S), NEW f, IntOn(f, S), NEW x \in S
    PROVE  SumFunctionOnSet(f, S) = f[x] + SumFunctionOnSet(f, S \ {x})
<1> DEFINE Sum(s) == SumFunctionOnSet(f, s)
           Bad == {s \in SUBSET S : \E y \in s : Sum(s) # f[y] + Sum(s \ {y})}
<1>0. ASSUME NEW s \in SUBSET S PROVE IsFiniteSet(s) /\ Sum(s) \in Int
  BY FS_Subset, SumType DEF IntOn
<1>1. ASSUME Bad # {} PROVE FALSE
  <2>1. PICK s \in Bad : \A u \in SUBSET s : u # s => u \notin Bad
    <3> HIDE DEF Bad
    <3>1. Bad \subseteq SUBSET S
      BY DEF Bad
    <3> QED
      BY <1>1, <3>1, MinimalSubset
  <2>2. PICK y \in s : s \in SUBSET S /\ Sum(s) # f[y] + Sum(s \ {y})
    BY <2>1
  <2> DEFINE z == Pick(s)
  <2>3. z \in s /\ Sum(s) = f[z] + Sum(s \ {z})
    BY <1>0, <2>2, SumPick DEF Pick
  <2>4. z # y
    BY <2>2, <2>3
  <2> HIDE DEF z
  <2>5. s \ {z} \notin Bad /\ s \ {y} \notin Bad
    <3> HIDE DEF Bad
    <3> QED
      BY <2>1, <2>2, <2>3
  <2>6. /\ Sum(s \ {z}) = f[y] + Sum((s \ {z}) \ {y})
        /\ Sum(s \ {y}) = f[z] + Sum((s \ {y}) \ {z})
    <3>1. s \ {z} \in SUBSET S /\ s \ {y} \in SUBSET S /\ y \in s \ {z} /\ z \in s \ {y}
      BY <2>2, <2>3, <2>4
    <3> HIDE DEF Sum
    <3> QED
      BY <2>5, <3>1
  <2>7. (s \ {z}) \ {y} = (s \ {y}) \ {z}
    OBVIOUS
  <2>8. f[y] \in Int /\ f[z] \in Int /\ Sum((s \ {y}) \ {z}) \in Int
    BY <1>0, <2>2, <2>3 DEF IntOn
  <2> DEFINE rest == Sum((s \ {y}) \ {z})
  <2>9. Sum(s) = f[z] + (f[y] + rest) /\ Sum(s \ {y}) = f[z] + rest
    <3> HIDE DEF Sum
    <3> QED
      BY <2>3, <2>6, <2>7
  <2>10. Sum(s) = f[y] + Sum(s \ {y})
    <3> HIDE DEF rest, Sum
    <3>1. rest \in Int
      BY <2>8 DEF rest
    <3> QED
      BY <2>8, <2>9, <3>1
  <2> QED
    BY <2>2, <2>10
<1> QED
  BY <1>1

-----------------------------------------------------------------------------
(* What holds of {} and of a set when it holds of the set without one of   *)
(* its members holds of every finite set.                                  *)
LEMMA SubsetInduction ==
    ASSUME NEW S, IsFiniteSet(S), NEW G, {} \in G,
           \A T \in SUBSET S : \A x \in T : T \ {x} \in G => T \in G
    PROVE  S \in G
<1> DEFINE Bad == {s \in SUBSET S : s \notin G}
<1>1. ASSUME Bad # {} PROVE FALSE
  <2>1. PICK s \in Bad : \A u \in SUBSET s : u # s => u \notin Bad
    <3> HIDE DEF Bad
    <3>1. Bad \subseteq SUBSET S
      BY DEF Bad
    <3> QED
      BY <1>1, <3>1, MinimalSubset
  <2>2. s \in SUBSET S /\ s \notin G
    BY <2>1
  <2>3. PICK x \in s : TRUE
    BY <2>2
  <2>4. s \ {x} \notin Bad
    <3> HIDE DEF Bad
    <3> QED
      BY <2>1, <2>3
  <2>5. s \ {x} \in G
    BY <2>2, <2>4
  <2> QED
    BY <2>2, <2>3, <2>5
<1> QED
  BY <1>1

(* One more member.                                                        *)
LEMMA SumAdd ==
    ASSUME NEW S, IsFiniteSet(S), NEW x, x \notin S, NEW f, IntOn(f, S \cup {x})
    PROVE  SumFunctionOnSet(f, S \cup {x}) = f[x] + SumFunctionOnSet(f, S)
<1>1. IsFiniteSet(S \cup {x})
  BY FS_AddElement
<1>2. (S \cup {x}) \ {x} = S
  OBVIOUS
<1>3. SumFunctionOnSet(f, S \cup {x}) = f[x] + SumFunctionOnSet(f, (S \cup {x}) \ {x})
  BY <1>1, SumTakeOut
<1> QED
  BY <1>2, <1>3

(* A sum depends on the values at the members only, grows with them, and   *)
(* the sum of sums is the sum: one induction for the three.                *)
LEMMA SumPointwise ==
    ASSUME NEW S, IsFiniteSet(S), NEW f, IntOn(f, S), NEW g, IntOn(g, S), NEW h, IntOn(h, S)
    PROVE  /\ (\A x \in S : f[x] = g[x]) => SumFunctionOnSet(f, S) = SumFunctionOnSet(g, S)
           /\ (\A x \in S : f[x] <= g[x]) => SumFunctionOnSet(f, S) <= SumFunctionOnSet(g, S)
           /\ (\A x \in S : h[x] = f[x] + g[x]) =>
                 SumFunctionOnSet(h, S) = SumFunctionOnSet(f, S) + SumFunctionOnSet(g, S)
<1> DEFINE P(T) ==
             /\ (\A x \in T : f[x] = g[x]) => SumFunctionOnSet(f, T) = SumFunctionOnSet(g, T)
             /\ (\A x \in T : f[x] <= g[x]) => SumFunctionOnSet(f, T) <= SumFunctionOnSet(g, T)
             /\ (\A x \in T : h[x] = f[x] + g[x]) =>
                   SumFunctionOnSet(h, T) = SumFunctionOnSet(f, T) + SumFunctionOnSet(g, T)
           G == {T \in SUBSET S : P(T)}
<1>1. {} \in G
  BY SumEmpty
<1>2. ASSUME NEW T \in SUBSET S, NEW x \in T, T \ {x} \in G PROVE T \in G
  <2>1. /\ IsFiniteSet(T) /\ IsFiniteSet(T \ {x})
        /\ IntOn(f, T) /\ IntOn(g, T) /\ IntOn(h, T)
        /\ IntOn(f, T \ {x}) /\ IntOn(g, T \ {x}) /\ IntOn(h, T \ {x})
    BY FS_Subset DEF IntOn
  <2>2. /\ SumFunctionOnSet(f, T) = f[x] + SumFunctionOnSet(f, T \ {x})
        /\ SumFunctionOnSet(g, T) = g[x] + SumFunctionOnSet(g, T \ {x})
        /\ SumFunctionOnSet(h, T) = h[x] + SumFunctionOnSet(h, T \ {x})
    BY <2>1, SumTakeOut
  <2>3. /\ SumFunctionOnSet(f, T \ {x}) \in Int
        /\ SumFunctionOnSet(g, T \ {x}) \in Int
        /\ SumFunctionOnSet(h, T \ {x}) \in Int
    BY <2>1, SumType
  <2>4. f[x] \in Int /\ g[x] \in Int /\ h[x] \in Int
    BY <2>1 DEF IntOn
  <2>5. P(T \ {x})
    BY <1>2
  <2>6. P(T)
    BY <2>2, <2>3, <2>4, <2>5
  <2> QED
    BY <2>6
<1>3. S \in G
  <2> HIDE DEF G
  <2> QED
    BY <1>1, <1>2, SubsetInduction
<1> QED
  BY <1>3

LEMMA SumEqual ==
    ASSUME NEW S, IsFiniteSet(S), NEW f, IntOn(f, S), NEW g, \A x \in S : f[x] = g[x]
    PROVE  SumFunctionOnSet(f, S) = SumFunctionOnSet(g, S)
<1>1. IntOn(g, S)
  BY DEF IntOn
<1> QED
  BY <1>1, SumPointwise

LEMMA SumLeq ==
    ASSUME NEW S, IsFiniteSet(S), NEW f, IntOn(f, S), NEW g, IntOn(g, S),
           \A x \in S : f[x] <= g[x]
    PROVE  SumFunctionOnSet(f, S) <= SumFunctionOnSet(g, S)
BY SumPointwise

LEMMA SumPlus ==
    ASSUME NEW S, IsFiniteSet(S), NEW f, IntOn(f, S), NEW g, IntOn(g, S),
           NEW h, \A x \in S : h[x] = f[x] + g[x]
    PROVE  SumFunctionOnSet(h, S) = SumFunctionOnSet(f, S) + SumFunctionOnSet(g, S)
<1>1. IntOn(h, S)
  BY DEF IntOn
<1> QED
  BY <1>1, SumPointwise

(* One value changes.                                                      *)
LEMMA SumChange ==
    ASSUME NEW S, IsFiniteSet(S), NEW f, IntOn(f, S), NEW g, IntOn(g, S), NEW x \in S,
           \A y \in S \ {x} : f[y] = g[y]
    PROVE  SumFunctionOnSet(g, S) = SumFunctionOnSet(f, S) - f[x] + g[x]
<1>1. IsFiniteSet(S \ {x}) /\ IntOn(f, S \ {x}) /\ IntOn(g, S \ {x})
  BY FS_RemoveElement DEF IntOn
<1>2. SumFunctionOnSet(f, S \ {x}) = SumFunctionOnSet(g, S \ {x})
  BY <1>1, SumEqual
<1>3. /\ SumFunctionOnSet(f, S) = f[x] + SumFunctionOnSet(f, S \ {x})
      /\ SumFunctionOnSet(g, S) = g[x] + SumFunctionOnSet(g, S \ {x})
  BY SumTakeOut
<1>4. SumFunctionOnSet(f, S \ {x}) \in Int /\ f[x] \in Int /\ g[x] \in Int
  BY <1>1, SumType DEF IntOn
<1> QED
  BY <1>2, <1>3, <1>4

(* Values that are not negative have a sum that is not negative.           *)
LEMMA SumNat ==
    ASSUME NEW S, IsFiniteSet(S), NEW f, \A x \in S : f[x] \in Nat
    PROVE  SumFunctionOnSet(f, S) \in Nat
<1> DEFINE G == {T \in SUBSET S : SumFunctionOnSet(f, T) \in Nat}
<1>1. {} \in G
  BY SumEmpty
<1>2. ASSUME NEW T \in SUBSET S, NEW x \in T, T \ {x} \in G PROVE T \in G
  <2>1. IsFiniteSet(T) /\ IntOn(f, T)
    BY FS_Subset DEF IntOn
  <2>2. SumFunctionOnSet(f, T) = f[x] + SumFunctionOnSet(f, T \ {x})
    BY <2>1, SumTakeOut
  <2>3. SumFunctionOnSet(f, T \ {x}) \in Nat /\ f[x] \in Nat
    BY <1>2
  <2> QED
    BY <2>2, <2>3
<1>3. S \in G
  <2> HIDE DEF G
  <2> QED
    BY <1>1, <1>2, SubsetInduction
<1> QED
  BY <1>3

LEMMA SumZero ==
    ASSUME NEW S, IsFiniteSet(S), NEW f, \A x \in S : f[x] = 0
    PROVE  SumFunctionOnSet(f, S) = 0
<1> DEFINE G == {T \in SUBSET S : SumFunctionOnSet(f, T) = 0}
<1>1. {} \in G
  BY SumEmpty
<1>2. ASSUME NEW T \in SUBSET S, NEW x \in T, T \ {x} \in G PROVE T \in G
  <2>1. IsFiniteSet(T) /\ IntOn(f, T)
    BY FS_Subset DEF IntOn
  <2>2. SumFunctionOnSet(f, T) = f[x] + SumFunctionOnSet(f, T \ {x})
    BY <2>1, SumTakeOut
  <2> QED
    BY <1>2, <2>2
<1> HIDE DEF G
<1>3. S \in G
  BY <1>1, <1>2, SubsetInduction
<1> QED
  BY <1>3 DEF G

=============================================================================
