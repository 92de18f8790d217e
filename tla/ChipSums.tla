------------------------------ MODULE ChipSums ------------------------------
(***************************************************************************)
(* Facts about sums of chips over a finite set of wallets.  The sum is     *)
(* SumFunctionOnSet of the community modules, a fold over SUBSET S; its    *)
(* facts are proved here by taking a least counterexample among the        *)
(* subsets of S, which is well founded because S is finite.                *)
(***************************************************************************)
EXTENDS Integers, FiniteSets, Functions, FiniteSetsExt, FiniteSetTheorems,
        WellFoundedInduction, TLAPS

Pick(A) == CHOOSE x \in A : TRUE

(* g is the recursive function that SumFunctionOnSet(f, S) looks up at S. *)
IsSum(g, f, S) ==
  g = [A \in SUBSET S |-> IF A = {} THEN 0
                                    ELSE f[Pick(A)] + g[A \ {Pick(A)}]]

Sum(f, S) == (CHOOSE g : IsSum(g, f, S))[S]

(* The community module's sum is the value of that function at S. *)
LEMMA SumIsFold ==
  ASSUME NEW f, NEW S
  PROVE  SumFunctionOnSet(f, S) = Sum(f, S)
  BY DEF SumFunctionOnSet, FoldFunctionOnSet, MapThenFoldSet, Sum, IsSum, Pick

(* A non-empty set of subsets of a finite set has a minimal member. *)
LEMMA MinimalSubset ==
  ASSUME NEW S, IsFiniteSet(S), NEW T \in SUBSET (SUBSET S), T # {}
  PROVE  \E A \in T : \A B \in T : B \subseteq A => B = A
<1>1. IsWellFoundedOn(StrictSubsetOrdering(S), SUBSET S)
  BY FS_StrictSubsetOrderingWellFounded, FS_FiniteSubsetsOfFinite
<1>2. PICK A \in T : \A B \in T : ~ (<<B, A>> \in StrictSubsetOrdering(S))
  BY <1>1, WFMin
<1>3. QED
  BY <1>2 DEF StrictSubsetOrdering

LEMMA PickIn == ASSUME NEW A, A # {} PROVE Pick(A) \in A
  BY DEF Pick

(* Two such functions agree wherever both are defined. *)
LEMMA IsSumUnique ==
  ASSUME NEW f, NEW S, IsFiniteSet(S), NEW R \in SUBSET S,
         NEW g, IsSum(g, f, S), NEW h, IsSum(h, f, R)
  PROVE  \A A \in SUBSET R : g[A] = h[A]
<1> DEFINE T == {A \in SUBSET R : g[A] # h[A]}
<1>1. SUFFICES ASSUME T # {} PROVE FALSE
  OBVIOUS
<1>2. IsFiniteSet(R)
  BY FS_Subset
<1>3. PICK A \in T : \A B \in T : B \subseteq A => B = A
  <2> HIDE DEF T
  <2>1. T \in SUBSET (SUBSET R)
    BY DEF T
  <2>2. QED
    BY <1>1, <1>2, <2>1, MinimalSubset
<1>4. A \in SUBSET R /\ A \in SUBSET S /\ g[A] # h[A]
  BY <1>3
<1>5. /\ g[A] = IF A = {} THEN 0 ELSE f[Pick(A)] + g[A \ {Pick(A)}]
      /\ h[A] = IF A = {} THEN 0 ELSE f[Pick(A)] + h[A \ {Pick(A)}]
  BY <1>4 DEF IsSum
<1>6. A # {}
  BY <1>4, <1>5
<1>7. Pick(A) \in A
  BY <1>6, PickIn
<1>8. g[A \ {Pick(A)}] = h[A \ {Pick(A)}]
  BY <1>3, <1>4, <1>7
<1>9. QED
  BY <1>4, <1>5, <1>6, <1>8

(* Such a function exists on every finite set. *)
LEMMA IsSumExists ==
  ASSUME NEW f, NEW S, IsFiniteSet(S)
  PROVE  \E g : IsSum(g, f, S)
<1> DEFINE T == {A \in SUBSET S : ~ \E g : IsSum(g, f, A)}
<1>1. SUFFICES ASSUME T # {} PROVE FALSE
  OBVIOUS
<1>2. PICK A \in T : \A B \in T : B \subseteq A => B = A
  <2> HIDE DEF T
  <2>1. T \in SUBSET (SUBSET S)
    BY DEF T
  <2>2. QED
    BY <1>1, <2>1, MinimalSubset
<1>3. /\ A \in SUBSET S
      /\ ~ \E g : IsSum(g, f, A)
  BY <1>2
<1> DEFINE fn(C) == CHOOSE g : IsSum(g, f, C)
           val(C) == fn(C)[C]
           h == [B \in SUBSET A |->
                   IF B = {} THEN 0 ELSE f[Pick(B)] + val(B \ {Pick(B)})]
<1>4. \A C \in SUBSET A : C # A => IsSum(fn(C), f, C)
  BY <1>2, <1>3
<1>5. ASSUME NEW C \in SUBSET A, C # A PROVE val(C) = h[C]
  <2>1. val(C) = IF C = {} THEN 0
                 ELSE f[Pick(C)] + fn(C)[C \ {Pick(C)}]
    <3> HIDE DEF fn
    <3>1. IsSum(fn(C), f, C)
      BY <1>4, <1>5
    <3>2. QED
      BY <3>1 DEF IsSum
  <2>2. CASE C = {}
    BY <2>1, <2>2
  <2>3. CASE C # {}
    <3> DEFINE D == C \ {Pick(C)}
    <3>1. Pick(C) \in C
      BY <2>3, PickIn
    <3>2. D \in SUBSET C /\ D \in SUBSET A /\ D # A
      BY <3>1, <1>5
    <3>3. IsFiniteSet(C)
      BY <1>3, <1>5, FS_Subset
    <3>4. fn(C)[D] = fn(D)[D]
      <4>1. IsSum(fn(C), f, C) /\ IsSum(fn(D), f, D)
        BY <1>4, <1>5, <3>2
      <4> HIDE DEF fn, D
      <4>2. QED
        BY <4>1, <3>2, <3>3, IsSumUnique
    <3>5. QED
      <4>1. val(C) = f[Pick(C)] + val(D)
        BY <2>1, <2>3, <3>4
      <4>2. h[C] = f[Pick(C)] + val(D)
        BY <2>3
      <4>3. QED
        BY <4>1, <4>2
  <2>4. QED
    BY <2>2, <2>3
<1>6. IsSum(h, f, A)
  <2>1. \A B \in SUBSET A : B # {} => val(B \ {Pick(B)}) = h[B \ {Pick(B)}]
    <3>1. TAKE B \in SUBSET A
    <3>2. HAVE B # {}
    <3>3. Pick(B) \in B
      BY <3>2, PickIn
    <3>4. B \ {Pick(B)} \in SUBSET A /\ B \ {Pick(B)} # A
      BY <3>3
    <3> HIDE DEF val, h
    <3>5. QED
      BY <3>4, <1>5
  <2>2. h = [B \in SUBSET A |->
               IF B = {} THEN 0 ELSE f[Pick(B)] + h[B \ {Pick(B)}]]
    <3> HIDE DEF val
    <3>1. QED
      BY <2>1
  <2>3. QED
    BY <2>2 DEF IsSum
<1>7. QED
  BY <1>3, <1>6

(* The sum of no chips is zero; otherwise it is one share and the rest. *)
LEMMA SumUnfold ==
  ASSUME NEW f, NEW S, IsFiniteSet(S)
  PROVE  SumFunctionOnSet(f, S) =
           IF S = {} THEN 0
           ELSE f[Pick(S)] + SumFunctionOnSet(f, S \ {Pick(S)})
<1> DEFINE R == S \ {Pick(S)}
           g == CHOOSE k : IsSum(k, f, S)
           h == CHOOSE k : IsSum(k, f, R)
<1>1. IsFiniteSet(R) /\ R \in SUBSET S
  BY FS_Subset
<1>2. IsSum(g, f, S) /\ IsSum(h, f, R)
  BY <1>1, IsSumExists
<1>3. SumFunctionOnSet(f, S) = g[S] /\ SumFunctionOnSet(f, R) = h[R]
  BY SumIsFold DEF Sum
<1> HIDE DEF R, g, h
<1>4. g[R] = h[R]
  BY <1>1, <1>2, IsSumUnique
<1>5. g[S] = IF S = {} THEN 0 ELSE f[Pick(S)] + g[R]
  BY <1>2 DEF IsSum, R
<1>6. QED
  BY <1>3, <1>4, <1>5 DEF R

LEMMA SumEmpty == ASSUME NEW f PROVE SumFunctionOnSet(f, {}) = 0
  BY SumUnfold, FS_EmptySet

(* Sums of integers are integers, sums of naturals are naturals. *)
LEMMA SumInt ==
  ASSUME NEW S, IsFiniteSet(S), NEW f, \A x \in S : f[x] \in Int
  PROVE  SumFunctionOnSet(f, S) \in Int
<1> DEFINE T == {A \in SUBSET S : SumFunctionOnSet(f, A) \notin Int}
<1>1. SUFFICES ASSUME T # {} PROVE FALSE
  OBVIOUS
<1>2. T \in SUBSET (SUBSET S)
  OBVIOUS
<1>3. PICK A \in T : \A B \in T : B \subseteq A => B = A
  <2> HIDE DEF T
  <2>1. QED
    BY <1>1, <1>2, MinimalSubset
<1>4. A \in SUBSET S /\ IsFiniteSet(A) /\ SumFunctionOnSet(f, A) \notin Int
  BY <1>3, FS_Subset
<1>5. A # {}
  BY <1>4, SumEmpty
<1>6. Pick(A) \in A
  BY <1>5, PickIn
<1>7. SumFunctionOnSet(f, A \ {Pick(A)}) \in Int
  BY <1>3, <1>4, <1>6
<1>8. SumFunctionOnSet(f, A) = f[Pick(A)] + SumFunctionOnSet(f, A \ {Pick(A)})
  BY <1>4, <1>5, SumUnfold
<1>9. QED
  BY <1>4, <1>6, <1>7, <1>8

LEMMA SumNat ==
  ASSUME NEW S, IsFiniteSet(S), NEW f, \A x \in S : f[x] \in Nat
  PROVE  SumFunctionOnSet(f, S) \in Nat
<1> DEFINE T == {A \in SUBSET S : SumFunctionOnSet(f, A) \notin Nat}
<1>1. SUFFICES ASSUME T # {} PROVE FALSE
  OBVIOUS
<1>2. T \in SUBSET (SUBSET S)
  OBVIOUS
<1>3. PICK A \in T : \A B \in T : B \subseteq A => B = A
  <2> HIDE DEF T
  <2>1. QED
    BY <1>1, <1>2, MinimalSubset
<1>4. A \in SUBSET S /\ IsFiniteSet(A) /\ SumFunctionOnSet(f, A) \notin Nat
  BY <1>3, FS_Subset
<1>5. A # {}
  BY <1>4, SumEmpty
<1>6. Pick(A) \in A
  BY <1>5, PickIn
<1>7. SumFunctionOnSet(f, A \ {Pick(A)}) \in Nat
  BY <1>3, <1>4, <1>6
<1>8. SumFunctionOnSet(f, A) = f[Pick(A)] + SumFunctionOnSet(f, A \ {Pick(A)})
  BY <1>4, <1>5, SumUnfold
<1>9. QED
  BY <1>4, <1>6, <1>7, <1>8

(* The sum does not depend on which wallet is counted first. *)
LEMMA SumRemove ==
  ASSUME NEW S, IsFiniteSet(S), NEW f, \A x \in S : f[x] \in Int, NEW x \in S
  PROVE  SumFunctionOnSet(f, S) = f[x] + SumFunctionOnSet(f, S \ {x})
<1> DEFINE Bad(A) == \E y \in A : SumFunctionOnSet(f, A) #
                                  f[y] + SumFunctionOnSet(f, A \ {y})
           T == {A \in SUBSET S : Bad(A)}
<1>1. SUFFICES ASSUME T # {} PROVE FALSE
  OBVIOUS
<1>2. T \in SUBSET (SUBSET S)
  OBVIOUS
<1>3. PICK A \in T : \A B \in T : B \subseteq A => B = A
  <2> HIDE DEF T
  <2>1. QED
    BY <1>1, <1>2, MinimalSubset
<1>4. A \in SUBSET S /\ IsFiniteSet(A)
  BY <1>3, FS_Subset
<1>5. PICK y \in A : SumFunctionOnSet(f, A) #
                        f[y] + SumFunctionOnSet(f, A \ {y})
  BY <1>3
<1> DEFINE c == Pick(A)
           C == A \ {c}
           Y == A \ {y}
           R == A \ {y, c}
<1>6. c \in A
  BY <1>5, PickIn
<1>7. SumFunctionOnSet(f, A) = f[c] + SumFunctionOnSet(f, C)
  BY <1>4, <1>5, SumUnfold
<1>8. c # y
  BY <1>5, <1>7
<1>9. C \notin T /\ Y \notin T /\ C \in SUBSET S /\ Y \in SUBSET S
  BY <1>3, <1>4, <1>5, <1>6
<1>10. SumFunctionOnSet(f, C) = f[y] + SumFunctionOnSet(f, R)
  <2>1. y \in C /\ C \ {y} = R
    BY <1>5, <1>8
  <2>2. QED
    BY <1>9, <2>1
<1>11. SumFunctionOnSet(f, Y) = f[c] + SumFunctionOnSet(f, R)
  <2>1. c \in Y /\ Y \ {c} = R
    BY <1>6, <1>8
  <2>2. QED
    BY <1>9, <2>1
<1>12. SumFunctionOnSet(f, R) \in Int /\ f[c] \in Int /\ f[y] \in Int
  <2>1. IsFiniteSet(R) /\ \A z \in R : f[z] \in Int
    BY <1>4, FS_Subset
  <2> HIDE DEF R
  <2>2. QED
    BY <2>1, <1>4, <1>5, <1>6, SumInt
<1>13. QED
  BY <1>5, <1>7, <1>10, <1>11, <1>12

(* Equal shares make equal sums. *)
LEMMA SumSame ==
  ASSUME NEW S, IsFiniteSet(S), NEW f, NEW g, \A x \in S : f[x] = g[x]
  PROVE  SumFunctionOnSet(f, S) = SumFunctionOnSet(g, S)
<1> DEFINE T == {A \in SUBSET S : SumFunctionOnSet(f, A) #
                                   SumFunctionOnSet(g, A)}
<1>1. SUFFICES ASSUME T # {} PROVE FALSE
  OBVIOUS
<1>2. T \in SUBSET (SUBSET S)
  OBVIOUS
<1>3. PICK A \in T : \A B \in T : B \subseteq A => B = A
  <2> HIDE DEF T
  <2>1. QED
    BY <1>1, <1>2, MinimalSubset
<1>4. /\ A \in SUBSET S /\ IsFiniteSet(A)
      /\ SumFunctionOnSet(f, A) # SumFunctionOnSet(g, A)
  BY <1>3, FS_Subset
<1>5. A # {}
  BY <1>4, SumEmpty
<1>6. Pick(A) \in A
  BY <1>5, PickIn
<1>7. SumFunctionOnSet(f, A \ {Pick(A)}) = SumFunctionOnSet(g, A \ {Pick(A)})
  BY <1>3, <1>4, <1>6
<1>8. /\ SumFunctionOnSet(f, A) =
            f[Pick(A)] + SumFunctionOnSet(f, A \ {Pick(A)})
      /\ SumFunctionOnSet(g, A) =
            g[Pick(A)] + SumFunctionOnSet(g, A \ {Pick(A)})
  BY <1>4, <1>5, SumUnfold
<1>9. f[Pick(A)] = g[Pick(A)]
  BY <1>4, <1>6
<1>10. QED
  BY <1>4, <1>7, <1>8, <1>9

(* Changing one share changes the sum by the difference. *)
LEMMA SumChange ==
  ASSUME NEW S, IsFiniteSet(S), NEW x \in S, NEW f, NEW g,
         \A y \in S : f[y] \in Int /\ g[y] \in Int /\ (y # x => g[y] = f[y])
  PROVE  SumFunctionOnSet(g, S) = SumFunctionOnSet(f, S) - f[x] + g[x]
<1> DEFINE R == S \ {x}
<1>1. SumFunctionOnSet(f, S) = f[x] + SumFunctionOnSet(f, R)
  BY SumRemove
<1>2. SumFunctionOnSet(g, S) = g[x] + SumFunctionOnSet(g, R)
  BY SumRemove
<1>3. IsFiniteSet(R) /\ \A y \in R : f[y] \in Int /\ f[y] = g[y]
  BY FS_Subset
<1> HIDE DEF R
<1>4. SumFunctionOnSet(f, R) = SumFunctionOnSet(g, R)
  BY <1>3, SumSame
<1>5. SumFunctionOnSet(f, R) \in Int
  BY <1>3, SumInt
<1>6. QED
  BY <1>1, <1>2, <1>4, <1>5

(* Sums add up share by share. *)
LEMMA SumPlus ==
  ASSUME NEW S, IsFiniteSet(S), NEW f, NEW g, NEW h,
         \A x \in S : f[x] \in Int /\ g[x] \in Int /\ h[x] = f[x] + g[x]
  PROVE  SumFunctionOnSet(h, S) =
           SumFunctionOnSet(f, S) + SumFunctionOnSet(g, S)
<1> DEFINE T == {A \in SUBSET S :
                   SumFunctionOnSet(h, A) #
                     SumFunctionOnSet(f, A) + SumFunctionOnSet(g, A)}
<1>1. SUFFICES ASSUME T # {} PROVE FALSE
  OBVIOUS
<1>2. T \in SUBSET (SUBSET S)
  OBVIOUS
<1>3. PICK A \in T : \A B \in T : B \subseteq A => B = A
  <2> HIDE DEF T
  <2>1. QED
    BY <1>1, <1>2, MinimalSubset
<1>4. /\ A \in SUBSET S /\ IsFiniteSet(A)
      /\ SumFunctionOnSet(h, A) #
            SumFunctionOnSet(f, A) + SumFunctionOnSet(g, A)
  BY <1>3, FS_Subset
<1>5. A # {}
  BY <1>4, SumEmpty
<1> DEFINE c == Pick(A)
           R == A \ {c}
<1>6. c \in A
  BY <1>5, PickIn
<1>7. SumFunctionOnSet(h, R) = SumFunctionOnSet(f, R) + SumFunctionOnSet(g, R)
  BY <1>3, <1>4, <1>6
<1>8. /\ SumFunctionOnSet(f, A) = f[c] + SumFunctionOnSet(f, R)
      /\ SumFunctionOnSet(g, A) = g[c] + SumFunctionOnSet(g, R)
      /\ SumFunctionOnSet(h, A) = h[c] + SumFunctionOnSet(h, R)
  BY <1>4, <1>5, SumUnfold
<1>9. f[c] \in Int /\ g[c] \in Int /\ h[c] = f[c] + g[c]
  BY <1>4, <1>6
<1>10. SumFunctionOnSet(f, R) \in Int /\ SumFunctionOnSet(g, R) \in Int
  <2>1. IsFiniteSet(R) /\ \A y \in R : f[y] \in Int /\ g[y] \in Int
    BY <1>4, FS_Subset
  <2> HIDE DEF R
  <2>2. QED
    BY <2>1, SumInt
<1>11. QED
  BY <1>4, <1>7, <1>8, <1>9, <1>10

(* No share of a sum of naturals exceeds the sum. *)
LEMMA SumBounds ==
  ASSUME NEW S, IsFiniteSet(S), NEW f, \A x \in S : f[x] \in Nat, NEW x \in S
  PROVE  f[x] <= SumFunctionOnSet(f, S)
<1>1. SumFunctionOnSet(f, S) = f[x] + SumFunctionOnSet(f, S \ {x})
  BY SumRemove
<1>2. SumFunctionOnSet(f, S \ {x}) \in Nat
  BY FS_Subset, SumNat
<1>3. QED
  BY <1>1, <1>2

(* Shares that are all zero add up to zero. *)
LEMMA SumZero ==
  ASSUME NEW S, IsFiniteSet(S), NEW f, \A x \in S : f[x] = 0
  PROVE  SumFunctionOnSet(f, S) = 0
<1>1. SumFunctionOnSet(f, S) \in Int
  BY SumInt
<1>2. SumFunctionOnSet(f, S) =
        SumFunctionOnSet(f, S) + SumFunctionOnSet(f, S)
  BY SumPlus
<1> DEFINE z == SumFunctionOnSet(f, S)
<1>3. z \in Int /\ z = z + z
  BY <1>1, <1>2
<1> HIDE DEF z
<1>4. z = 0
  BY <1>3
<1>5. QED
  BY <1>4 DEF z
-----------------------------------------------------------------------------
(* Images of finite sets are finite; their maxima and minima exist, again on a
   least subset that would have none. *)
LEMMA ImageFinite ==
  ASSUME NEW S, IsFiniteSet(S), NEW f
  PROVE  IsFiniteSet({f[x] : x \in S})
<1> DEFINE g == [x \in S |-> f[x]]
           T == {f[x] : x \in S}
<1>1. g \in Surjection(S, T)
  BY DEF Surjection
<1> HIDE DEF g, T
<1>2. QED
  BY <1>1, FS_Surjection DEF T

HasMax(A) == \E x \in A : \A y \in A : x >= y

(* A set that gains an element keeps having a maximum. *)
LEMMA MaxWithOneMore ==
  ASSUME NEW A, A \subseteq Int, NEW x \in A, A \ {x} = {} \/ HasMax(A \ {x})
  PROVE  HasMax(A)
<1>1. CASE A \ {x} = {}
  <2>1. \A y \in A : x >= y
    BY <1>1
  <2>2. QED
    BY <2>1 DEF HasMax
<1>2. CASE HasMax(A \ {x})
  <2>1. PICK m \in A \ {x} : \A y \in A \ {x} : m >= y
    BY <1>2 DEF HasMax
  <2>2. m \in Int /\ x \in Int
    BY <2>1
  <2>3. CASE m >= x
    BY <2>1, <2>2, <2>3 DEF HasMax
  <2>4. CASE x >= m
    BY <2>1, <2>2, <2>4 DEF HasMax
  <2>5. QED
    BY <2>2, <2>3, <2>4
<1>3. QED
  BY <1>1, <1>2

LEMMA MaxExists ==
  ASSUME NEW S, IsFiniteSet(S), S # {}, \A A \in SUBSET S : A \subseteq Int
  PROVE  HasMax(S)
<1> DEFINE T == {A \in SUBSET S : A # {} /\ ~ HasMax(A)}
<1>1. SUFFICES ASSUME T # {} PROVE FALSE
  OBVIOUS
<1>2. PICK A \in T : \A B \in T : B \subseteq A => B = A
  <2> HIDE DEF T
  <2>1. T \in SUBSET (SUBSET S)
    BY DEF T
  <2>2. QED
    BY <1>1, <2>1, MinimalSubset
<1>3. PICK x \in A : TRUE
  BY <1>2
<1>4. A \ {x} = {} \/ HasMax(A \ {x})
  BY <1>2, <1>3
<1>5. QED
  BY <1>2, <1>3, <1>4, MaxWithOneMore

LEMMA MaxIn ==
  ASSUME NEW S, IsFiniteSet(S), S # {}, S \subseteq Int
  PROVE  Max(S) \in S /\ \A y \in S : Max(S) >= y
<1>1. HasMax(S)
  BY MaxExists
<1>2. QED
  BY <1>1 DEF HasMax, Max

LEMMA MinIn ==
  ASSUME NEW S, IsFiniteSet(S), S # {}, S \subseteq Int
  PROVE  Min(S) \in S /\ \A y \in S : Min(S) <= y
<1> DEFINE f == [x \in S |-> -x]
           N == {f[x] : x \in S}
<1>1. IsFiniteSet(N)
  <2> HIDE DEF f
  <2>1. QED
    BY ImageFinite
<1>2. N # {} /\ N \subseteq Int
  <2>1. \A x \in S : f[x] \in Int
    OBVIOUS
  <2> HIDE DEF f
  <2>2. QED
    BY <2>1
<1>3. Max(N) \in N /\ \A y \in N : Max(N) >= y
  <2> HIDE DEF N
  <2>1. QED
    BY <1>1, <1>2, MaxIn
<1>4. PICK x \in S : Max(N) = -x
  BY <1>3
<1>5. \A y \in S : x <= y
  <2>1. TAKE y \in S
  <2>2. -y \in N
    OBVIOUS
  <2>3. -x >= -y
    BY <1>3, <1>4, <2>2
  <2>4. QED
    BY <2>3
<1>6. QED
  BY <1>5 DEF Min

-----------------------------------------------------------------------------
(* Induction over the subsets of a finite set, stated of a set of subsets: a set
   that holds the empty subset and with each subset one more element holds the
   whole set. *)
LEMMA SubsetInduction ==
  ASSUME NEW S, IsFiniteSet(S), NEW G, {} \in G,
         \A A \in SUBSET S : A \in G => \A x \in S \ A : A \cup {x} \in G
  PROVE  S \in G
<1> DEFINE T == {A \in SUBSET S : A \notin G}
<1>1. SUFFICES ASSUME T # {} PROVE FALSE
  OBVIOUS
<1>2. PICK A \in T : \A B \in T : B \subseteq A => B = A
  <2>1. T \in SUBSET (SUBSET S)
    OBVIOUS
  <2> HIDE DEF T
  <2>2. QED
    BY <1>1, <2>1, MinimalSubset
<1>3. PICK x \in A : TRUE
  BY <1>2
<1>4. A \ {x} \in G /\ A \ {x} \in SUBSET S /\ x \in S \ (A \ {x})
  BY <1>2, <1>3
<1>5. (A \ {x}) \cup {x} = A
  BY <1>3
<1>6. A \in G
  BY <1>4, <1>5
<1>7. QED
  BY <1>2, <1>6

(* The same, adding the elements in the order of their ranks. *)
LEMMA RankedInduction ==
  ASSUME NEW S, IsFiniteSet(S), NEW r, \A x \in S : r[x] \in Int,
         \A x, y \in S : r[x] = r[y] => x = y,
         NEW G, {} \in G,
         \A A \in SUBSET S : A \in G =>
           \A x \in S \ A : (\A y \in A : r[y] < r[x]) => A \cup {x} \in G
  PROVE  S \in G
<1> DEFINE T == {A \in SUBSET S : A \notin G}
<1>1. SUFFICES ASSUME T # {} PROVE FALSE
  OBVIOUS
<1>2. PICK A \in T : \A B \in T : B \subseteq A => B = A
  <2>1. T \in SUBSET (SUBSET S)
    OBVIOUS
  <2> HIDE DEF T
  <2>2. QED
    BY <1>1, <2>1, MinimalSubset
<1> DEFINE R == {r[x] : x \in A}
<1>3. IsFiniteSet(R) /\ R # {} /\ R \subseteq Int
  <2>1. IsFiniteSet(A) /\ A # {} /\ A \subseteq S
    BY <1>2, FS_Subset
  <2>2. IsFiniteSet(R)
    BY <2>1, ImageFinite
  <2>3. QED
    BY <2>1, <2>2
<1>4. PICK x \in A : \A y \in A : r[x] >= r[y]
  <2>1. Max(R) \in R /\ \A y \in R : Max(R) >= y
    <3> HIDE DEF R
    <3>1. QED
      BY <1>3, MaxIn
  <2>2. QED
    BY <2>1
<1>5. \A y \in A \ {x} : r[y] < r[x]
  <2>1. \A y \in A : r[y] \in Int /\ (r[y] = r[x] => y = x)
    BY <1>2
  <2>2. QED
    BY <1>4, <2>1
<1>6. A \ {x} \in G /\ A \ {x} \in SUBSET S /\ x \in S \ (A \ {x})
  BY <1>2, <1>4
<1>7. (A \ {x}) \cup {x} = A
  BY <1>4
<1>8. A \in G
  BY <1>5, <1>6, <1>7
<1>9. QED
  BY <1>2, <1>8

(* The sum of a function over a set and one element more. *)
LEMMA SumAdd ==
  ASSUME NEW A, IsFiniteSet(A), NEW x, x \notin A, NEW f,
         \A y \in A \cup {x} : f[y] \in Int
  PROVE  SumFunctionOnSet(f, A \cup {x}) = f[x] + SumFunctionOnSet(f, A)
<1>1. IsFiniteSet(A \cup {x}) /\ (A \cup {x}) \ {x} = A
  BY FS_AddElement
<1>2. QED
  BY <1>1, SumRemove

(* The same amount for each member of a subset, nothing for the others. *)
LEMMA SumOfMembers ==
  ASSUME NEW S, IsFiniteSet(S), NEW T \in SUBSET S, NEW c \in Int, NEW f,
         \A x \in S : f[x] = IF x \in T THEN c ELSE 0
  PROVE  SumFunctionOnSet(f, S) = c * Cardinality(T)
<1> DEFINE G == {A \in SUBSET S : SumFunctionOnSet(f, A) = c * Cardinality(T \cap A)}
<1>1. {} \in G
  <2>1. T \cap {} = {} /\ Cardinality({}) = 0 /\ c * 0 = 0
    BY FS_EmptySet
  <2>2. QED
    BY <2>1, SumEmpty
<1>2. ASSUME NEW A \in SUBSET S, A \in G, NEW x \in S \ A PROVE A \cup {x} \in G
  <2>1. IsFiniteSet(A) /\ IsFiniteSet(T \cap A) /\ Cardinality(T \cap A) \in Nat
    BY FS_Subset, FS_CardinalityType
  <2>2. \A y \in A \cup {x} : f[y] \in Int
    BY <1>2
  <2>3. SumFunctionOnSet(f, A \cup {x}) = f[x] + c * Cardinality(T \cap A)
    BY <1>2, <2>1, <2>2, SumAdd
  <2>4. CASE x \in T
    <3>1. T \cap (A \cup {x}) = (T \cap A) \cup {x}
      BY <2>4
    <3>2. Cardinality(T \cap (A \cup {x})) = Cardinality(T \cap A) + 1
      BY <1>2, <2>1, <3>1, FS_AddElement
    <3>3. ASSUME NEW k \in Nat PROVE c + c * k = c * (k + 1)
      OBVIOUS
    <3>4. f[x] = c
      BY <1>2, <2>4
    <3>5. SumFunctionOnSet(f, A \cup {x}) = c * Cardinality(T \cap (A \cup {x}))
      BY <2>1, <2>3, <3>2, <3>3, <3>4
    <3>6. QED
      BY <1>2, <3>5
  <2>5. CASE x \notin T
    <3>1. T \cap (A \cup {x}) = T \cap A /\ f[x] = 0
      BY <1>2, <2>5
    <3>2. c * Cardinality(T \cap A) \in Int
      BY <2>1
    <3>3. SumFunctionOnSet(f, A \cup {x}) = c * Cardinality(T \cap A)
      BY <2>3, <3>1, <3>2
    <3>4. SumFunctionOnSet(f, A \cup {x}) = c * Cardinality(T \cap (A \cup {x}))
      BY <3>1, <3>3
    <3>5. QED
      BY <1>2, <3>4
  <2>6. QED
    BY <2>4, <2>5
<1> HIDE DEF G
<1>3. S \in G
  BY <1>1, <1>2, SubsetInduction
<1>4. T \cap S = T
  OBVIOUS
<1>5. QED
  BY <1>3, <1>4 DEF G

(* A multiple of every share is that multiple of the sum. *)
LEMMA SumScale ==
  ASSUME NEW S, IsFiniteSet(S), NEW c \in Int, NEW f, NEW g,
         \A x \in S : f[x] \in Int /\ g[x] = f[x] * c
  PROVE  SumFunctionOnSet(g, S) = SumFunctionOnSet(f, S) * c
<1> DEFINE G == {A \in SUBSET S : SumFunctionOnSet(g, A) = SumFunctionOnSet(f, A) * c}
<1>1. {} \in G
  BY SumEmpty
<1>2. ASSUME NEW A \in SUBSET S, A \in G, NEW x \in S \ A PROVE A \cup {x} \in G
  <2>1. IsFiniteSet(A) /\ \A y \in A \cup {x} : f[y] \in Int
    BY FS_Subset
  <2>2. \A y, z \in Int : y * z \in Int
    OBVIOUS
  <2>3. \A y \in A \cup {x} : g[y] \in Int
    BY <1>2, <2>2
  <2>4. /\ SumFunctionOnSet(f, A \cup {x}) = f[x] + SumFunctionOnSet(f, A)
        /\ SumFunctionOnSet(g, A \cup {x}) = g[x] + SumFunctionOnSet(g, A)
    BY <1>2, <2>1, <2>3, SumAdd
  <2>5. SumFunctionOnSet(f, A) \in Int
    BY <2>1, SumInt
  <2>6. \A y, z \in Int : y * c + z * c = (y + z) * c
    OBVIOUS
  <2>7. SumFunctionOnSet(g, A) = SumFunctionOnSet(f, A) * c /\ g[x] = f[x] * c
        /\ f[x] \in Int
    BY <1>2
  <2>8. f[x] * c + SumFunctionOnSet(f, A) * c = (f[x] + SumFunctionOnSet(f, A)) * c
    BY <2>5, <2>6, <2>7
  <2>9. SumFunctionOnSet(g, A \cup {x}) = SumFunctionOnSet(f, A \cup {x}) * c
    BY <2>4, <2>7, <2>8
  <2>10. QED
    BY <1>2, <2>9
<1> HIDE DEF G
<1>3. S \in G
  BY <1>1, <1>2, SubsetInduction
<1>4. QED
  BY <1>3 DEF G

(* Larger shares make a larger sum. *)
LEMMA SumMonotone ==
  ASSUME NEW S, IsFiniteSet(S), NEW f, NEW g,
         \A x \in S : f[x] \in Int /\ g[x] \in Int /\ f[x] <= g[x]
  PROVE  SumFunctionOnSet(f, S) <= SumFunctionOnSet(g, S)
<1> DEFINE d == [x \in S |-> g[x] - f[x]]
<1>1. \A x \in S : d[x] \in Nat /\ f[x] \in Int /\ d[x] \in Int /\ g[x] = f[x] + d[x]
  OBVIOUS
<1> HIDE DEF d
<1>2. SumFunctionOnSet(g, S) = SumFunctionOnSet(f, S) + SumFunctionOnSet(d, S)
  BY <1>1, SumPlus
<1>3. SumFunctionOnSet(d, S) \in Nat /\ SumFunctionOnSet(f, S) \in Int
  BY <1>1, SumNat, SumInt
<1>4. QED
  BY <1>2, <1>3

(* Shares of nothing need not be counted. *)
LEMMA SumRestrict ==
  ASSUME NEW S, IsFiniteSet(S), NEW T \in SUBSET S, NEW f, \A x \in T : f[x] \in Int,
         \A x \in S \ T : f[x] = 0
  PROVE  SumFunctionOnSet(f, S) = SumFunctionOnSet(f, T)
<1> DEFINE G == {A \in SUBSET S : SumFunctionOnSet(f, A) = SumFunctionOnSet(f, A \cap T)}
<1>1. {} \in G
  <2>1. {} \cap T = {}
    OBVIOUS
  <2>2. QED
    BY <2>1
<1>2. ASSUME NEW A \in SUBSET S, A \in G, NEW x \in S \ A PROVE A \cup {x} \in G
  <2>1. IsFiniteSet(A) /\ IsFiniteSet(A \cap T) /\ \A y \in S : f[y] \in Int
    BY FS_Subset
  <2>2. SumFunctionOnSet(f, A \cup {x}) = f[x] + SumFunctionOnSet(f, A)
    BY <1>2, <2>1, SumAdd
  <2>3. CASE x \in T
    <3>1. (A \cup {x}) \cap T = (A \cap T) \cup {x} /\ x \notin A \cap T
      BY <1>2, <2>3
    <3>2. \A y \in (A \cap T) \cup {x} : f[y] \in Int
      BY <1>2, <2>1
    <3>3. SumFunctionOnSet(f, (A \cap T) \cup {x}) = f[x] + SumFunctionOnSet(f, A \cap T)
      BY <2>1, <3>1, <3>2, SumAdd
    <3>4. QED
      BY <1>2, <2>2, <3>1, <3>3
  <2>4. CASE x \notin T
    <3>1. (A \cup {x}) \cap T = A \cap T /\ f[x] = 0
      BY <1>2, <2>4
    <3>2. SumFunctionOnSet(f, A) \in Int
      <4>1. \A y \in A : f[y] \in Int
        BY <2>1
      <4>2. QED
        BY <2>1, <4>1, SumInt
    <3>3. SumFunctionOnSet(f, A \cup {x}) = SumFunctionOnSet(f, A)
      BY <2>2, <3>1, <3>2
    <3>4. QED
      BY <1>2, <3>1, <3>3
  <2>5. QED
    BY <2>3, <2>4
<1> HIDE DEF G
<1>3. S \in G
  BY <1>1, <1>2, SubsetInduction
<1>4. S \cap T = T
  OBVIOUS
<1>5. QED
  BY <1>3, <1>4 DEF G

(* A table of amounts, by rows (F) and by columns (H), with the sum of each row
   and of each column. *)
IsTableOf(A, B, F, H, row, col) ==
  /\ \A a \in A : \A b \in B : F[a][b] \in Int /\ H[b][a] = F[a][b]
  /\ \A a \in A : row[a] = SumFunctionOnSet(F[a], B)
  /\ \A b \in B : col[b] = SumFunctionOnSet(H[b], A)

(* It adds up to the same by rows and by columns. *)
LEMMA SumSwap ==
  ASSUME NEW A, IsFiniteSet(A), NEW B, IsFiniteSet(B), NEW F, NEW H, NEW row, NEW col,
         IsTableOf(A, B, F, H, row, col)
  PROVE  SumFunctionOnSet(row, A) = SumFunctionOnSet(col, B)
<1> USE DEF IsTableOf
<1> DEFINE below(C) == [b \in B |-> SumFunctionOnSet(H[b], C)]
           G == {C \in SUBSET A : SumFunctionOnSet(row, C) = SumFunctionOnSet(below(C), B)}
<1>1. ASSUME NEW C \in SUBSET A
      PROVE  IsFiniteSet(C) /\ \A b \in B : below(C)[b] \in Int
  <2>1. IsFiniteSet(C)
    BY FS_Subset
  <2>2. ASSUME NEW b \in B PROVE below(C)[b] \in Int
    <3>1. \A a \in C : H[b][a] \in Int
      OBVIOUS
    <3>2. SumFunctionOnSet(H[b], C) \in Int
      BY <2>1, <3>1, SumInt
    <3>3. QED
      BY <3>2
  <2>3. QED
    BY <2>1, <2>2
<1>2. ASSUME NEW a \in A PROVE row[a] \in Int
  <2>1. \A b \in B : F[a][b] \in Int
    OBVIOUS
  <2>2. SumFunctionOnSet(F[a], B) \in Int
    BY <2>1, SumInt
  <2>3. QED
    BY <2>2
<1>3. {} \in G
  <2>1. \A b \in B : below({})[b] = 0
    BY SumEmpty
  <2> HIDE DEF below
  <2>2. SumFunctionOnSet(below({}), B) = 0
    BY <2>1, SumZero
  <2>3. QED
    BY <2>2, SumEmpty
<1>4. ASSUME NEW C \in SUBSET A, C \in G, NEW x \in A \ C PROVE C \cup {x} \in G
  <2> DEFINE D == C \cup {x}
  <2>1. SumFunctionOnSet(row, D) = row[x] + SumFunctionOnSet(row, C)
    BY <1>1, <1>2, <1>4, SumAdd
  <2>2. ASSUME NEW b \in B PROVE below(D)[b] = F[x][b] + below(C)[b]
    <3>1. \A a \in D : H[b][a] \in Int
      BY <1>4
    <3>2. H[b][x] = F[x][b]
      BY <1>4
    <3>3. SumFunctionOnSet(H[b], D) = H[b][x] + SumFunctionOnSet(H[b], C)
      BY <1>1, <1>4, <3>1, SumAdd
    <3>4. QED
      BY <3>2, <3>3
  <2>3. \A b \in B : /\ F[x][b] \in Int /\ below(C)[b] \in Int
                     /\ below(D)[b] = F[x][b] + below(C)[b]
    BY <1>1, <1>4, <2>2
  <2>4. row[x] = SumFunctionOnSet(F[x], B)
    BY <1>4
  <2> DEFINE line == F[x]
             old == below(C)
             new == below(D)
  <2>5. \A b \in B : line[b] \in Int /\ old[b] \in Int /\ new[b] = line[b] + old[b]
    BY <2>3
  <2> HIDE DEF line, old, new
  <2>6. SumFunctionOnSet(new, B) = SumFunctionOnSet(line, B) + SumFunctionOnSet(old, B)
    BY <2>5, SumPlus
  <2> HIDE DEF below
  <2>7. SumFunctionOnSet(row, D) = SumFunctionOnSet(below(D), B)
    BY <1>4, <2>1, <2>4, <2>6 DEF line, old, new
  <2>8. D \in SUBSET A
    BY <1>4
  <2>9. QED
    BY <2>7, <2>8
<1> HIDE DEF G
<1>5. A \in G
  BY <1>3, <1>4, SubsetInduction
<1>6. \A b \in B : below(A)[b] = col[b]
  OBVIOUS
<1> HIDE DEF below
<1>7. SumFunctionOnSet(below(A), B) = SumFunctionOnSet(col, B)
  BY <1>6, SumSame
<1>8. QED
  BY <1>5, <1>7 DEF G
=============
