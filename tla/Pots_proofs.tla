----------------------------- MODULE Pots_proofs -----------------------------
(***************************************************************************)
(* Lemmas about the pots of a hand: every chip that was committed lies in  *)
(* exactly one pot, the rake is a part of the pots, and what is left is    *)
(* paid out to the last chip, for any commitments, folds, all-ins and any  *)
(* proved winners.                                                         *)
(*                                                                         *)
(* The layers are added up in the order of their bounds, the odd chips in  *)
(* the order of the seats; both are inductions over ranked finite sets     *)
(* (RankedInduction).                                                      *)
(***************************************************************************)
EXTENDS Pots, ChipSums

(* A table whose seats are filled and whose commitments are numbers of chips. *)
HasStakes(s) ==
  /\ s.seats \in Seq(Seated(s)) /\ IsFiniteSet(Seated(s))
  /\ \A p \in Seated(s) : s.committed[p] \in Nat

-----------------------------------------------------------------------------
(* Arithmetic of basis points. *)
LEMMA PartOf ==
  ASSUME NEW a \in Nat, NEW b \in Nat, b <= 10000
  PROVE  a * b \in Nat /\ (a * b) \div 10000 \in 0 .. a
<1>1. a * b \in Nat /\ a * (10000 - b) \in Nat
  <2>1. \A x, y \in Nat : x * y \in Nat
    OBVIOUS
  <2>2. QED
    BY <2>1
<1>2. a * (10000 - b) = a * 10000 - a * b
  OBVIOUS
<1>3. a * b <= a * 10000
  BY <1>1, <1>2
<1>4. \A x, y \in Nat : y <= x * 10000 => y \div 10000 \in 0 .. x
  OBVIOUS
<1> DEFINE y == a * b
<1>5. y \in Nat /\ y <= a * 10000
  BY <1>1, <1>3
<1> HIDE DEF y
<1>6. y \div 10000 \in 0 .. a
  BY <1>4, <1>5
<1>7. QED
  BY <1>5, <1>6 DEF y

(* The product that cannot overflow is the product. *)
LEMMA MulBpsIs ==
  ASSUME NEW a \in Nat, NEW b \in Nat PROVE MulBps(a, b) = (a * b) \div 10000
<1> DEFINE q == a \div 10000
           r == a % 10000
<1>1. q \in Nat /\ r \in Nat /\ a = 10000 * q + r
  OBVIOUS
<1> HIDE DEF q, r
<1>2. q * b \in Nat /\ r * b \in Nat
  BY <1>1
<1>3. a * b = 10000 * (q * b) + r * b
  BY <1>1
<1> DEFINE x == q * b
           y == r * b
<1>4. \A u, v \in Nat : (10000 * u + v) \div 10000 = u + v \div 10000
  OBVIOUS
<1>5. QED
  BY <1>2, <1>3, <1>4 DEF MulBps, q, r

LEMMA MulBpsPart ==
  ASSUME NEW a \in Nat, NEW b \in Nat, b <= 10000 PROVE MulBps(a, b) \in 0 .. a
<1>1. MulBps(a, b) = (a * b) \div 10000
  BY MulBpsIs
<1>2. (a * b) \div 10000 \in 0 .. a
  BY PartOf
<1>3. QED
  BY <1>1, <1>2

-----------------------------------------------------------------------------
(* Seats rank the players. *)
LEMMA SeatRanks ==
  ASSUME NEW s, HasStakes(s)
  PROVE  /\ \A p \in Seated(s) : SeatOf(s, p) \in Nat
         /\ \A p, q \in Seated(s) : SeatOf(s, p) = SeatOf(s, q) => p = q
<1>1. ASSUME NEW p \in Seated(s)
      PROVE  SeatOf(s, p) \in DOMAIN s.seats /\ s.seats[SeatOf(s, p)] = p
  <2>1. \E i \in DOMAIN s.seats : s.seats[i] = p
    BY DEF Seated, Range
  <2>2. QED
    BY <2>1 DEF SeatOf
<1>2. DOMAIN s.seats \subseteq Nat
  BY DEF HasStakes
<1>3. QED
  BY <1>1, <1>2

LEMMA FirstSeatIn ==
  ASSUME NEW s, HasStakes(s), NEW ps \in SUBSET Seated(s), ps # {}
  PROVE  FirstSeat(s, ps) \in ps
<1> DEFINE r == [p \in ps |-> SeatOf(s, p)]
           R == {r[p] : p \in ps}
<1>1. IsFiniteSet(R) /\ R # {} /\ R \subseteq Int
  <2>1. IsFiniteSet(ps)
    BY FS_Subset DEF HasStakes
  <2>2. \A p \in ps : r[p] \in Int
    BY SeatRanks
  <2> HIDE DEF r
  <2>3. QED
    BY <2>1, <2>2, ImageFinite
<1>2. PICK p \in ps : \A q \in ps : r[p] <= r[q]
  <2>1. Min(R) \in R /\ \A y \in R : Min(R) <= y
    <3> HIDE DEF R
    <3>1. QED
      BY <1>1, MinIn
  <2>2. QED
    BY <2>1
<1>3. QED
  BY <1>2 DEF FirstSeat

(* Of m places among ranked players, m players get one. *)
LEMMA RankCount ==
  ASSUME NEW S, IsFiniteSet(S), NEW r, \A x \in S : r[x] \in Int,
         \A x, y \in S : r[x] = r[y] => x = y,
         NEW m \in Nat, m <= Cardinality(S)
  PROVE  Cardinality({x \in S : Cardinality({y \in S : r[y] < r[x]}) < m}) = m
<1> DEFINE First(A, k) == {x \in A : Cardinality({y \in A : r[y] < r[x]}) < k}
           G == {A \in SUBSET S :
                   \A k \in Nat : k <= Cardinality(A) => Cardinality(First(A, k)) = k}
<1>1. {} \in G
  <2>1. \A k : First({}, k) = {}
    OBVIOUS
  <2>2. Cardinality({}) = 0
    BY FS_EmptySet
  <2>3. QED
    BY <2>1, <2>2
<1>2. ASSUME NEW A \in SUBSET S, A \in G, NEW x \in S \ A, \A y \in A : r[y] < r[x]
      PROVE  A \cup {x} \in G
  <2> DEFINE B == A \cup {x}
  <2>1. IsFiniteSet(A) /\ Cardinality(A) \in Nat /\ IsFiniteSet(B)
        /\ Cardinality(B) = Cardinality(A) + 1
    BY <1>2, FS_Subset, FS_AddElement, FS_CardinalityType
  <2>2. \A y \in A : {z \in B : r[z] < r[y]} = {z \in A : r[z] < r[y]}
    <3> SUFFICES ASSUME NEW y \in A PROVE ~ (r[x] < r[y])
      OBVIOUS
    <3>1. r[x] \in Int /\ r[y] \in Int /\ r[y] < r[x]
      BY <1>2
    <3>2. QED
      BY <3>1
  <2>3. {z \in B : r[z] < r[x]} = A
    <3>1. ~ (r[x] < r[x])
      BY <1>2
    <3>2. QED
      BY <1>2, <3>1
  <2>4. ASSUME NEW k \in Nat, k <= Cardinality(B) PROVE Cardinality(First(B, k)) = k
    <3>1. CASE k <= Cardinality(A)
      <4>1. First(B, k) = First(A, k)
        <5>1. x \notin First(B, k)
          BY <2>1, <2>3, <3>1
        <5>2. QED
          BY <2>2, <5>1
      <4>2. QED
        BY <1>2, <3>1, <4>1
    <3>2. CASE k = Cardinality(A) + 1
      <4>1. ASSUME NEW y \in A PROVE Cardinality({z \in A : r[z] < r[y]}) < k
        <5>1. {z \in A : r[z] < r[y]} \in SUBSET A
          OBVIOUS
        <5>2. /\ Cardinality({z \in A : r[z] < r[y]}) <= Cardinality(A)
              /\ Cardinality({z \in A : r[z] < r[y]}) \in Nat
          BY <2>1, <5>1, FS_Subset, FS_CardinalityType
        <5>3. QED
          BY <2>1, <3>2, <5>2
      <4>2. First(B, k) = B
        <5>1. \A y \in A : Cardinality({z \in B : r[z] < r[y]}) < k
          BY <2>2, <4>1
        <5>2. Cardinality({z \in B : r[z] < r[x]}) < k
          <6>1. Cardinality(A) < k
            BY <2>1, <3>2
          <6>2. QED
            BY <2>3, <6>1
        <5>3. QED
          BY <5>1, <5>2
      <4>3. QED
        BY <2>1, <3>2, <4>2
    <3>3. QED
      BY <2>1, <2>4, <3>1, <3>2
  <2>5. B \in SUBSET S
    BY <1>2
  <2>6. QED
    BY <2>4, <2>5
<1> HIDE DEF G
<1>3. S \in G
  BY <1>1, <1>2, RankedInduction
<1>4. QED
  BY <1>3 DEF G

-----------------------------------------------------------------------------
(* A pot that is shared is shared to the last chip. *)
LEMMA SharesAddUp ==
  ASSUME NEW s, HasStakes(s), NEW ps \in SUBSET Seated(s), ps # {},
         NEW amount \in Nat, NEW S, IsFiniteSet(S), ps \subseteq S,
         NEW f, \A p \in S : f[p] = EqualShare(s, amount, ps, p)
  PROVE  /\ \A p \in S : f[p] \in Nat
         /\ SumFunctionOnSet(f, S) = amount
<1> DEFINE n == Cardinality(ps)
           d == amount \div n
           m == amount % n
           before(p) == Cardinality({q \in ps : SeatOf(s, q) < SeatOf(s, p)})
           odd == {p \in ps : before(p) < m}
           base == [p \in S |-> IF p \in ps THEN d ELSE 0]
           extra == [p \in S |-> IF p \in odd THEN 1 ELSE 0]
<1>1. IsFiniteSet(ps) /\ n \in Nat /\ n # 0
  BY FS_Subset, FS_CardinalityType, FS_EmptySet DEF HasStakes
<1>2. d \in Nat /\ m \in Nat /\ m < n /\ amount = n * d + m
  <2> HIDE DEF n
  <2>1. QED
    BY <1>1
<1>3. Cardinality(odd) = m
  <2> DEFINE r == [p \in ps |-> SeatOf(s, p)]
  <2>1. /\ \A x \in ps : r[x] \in Int
        /\ \A x, y \in ps : r[x] = r[y] => x = y
    BY SeatRanks
  <2>2. odd = {x \in ps : Cardinality({y \in ps : r[y] < r[x]}) < m}
    <3>1. \A x \in ps : {y \in ps : r[y] < r[x]} =
                           {q \in ps : SeatOf(s, q) < SeatOf(s, x)}
      OBVIOUS
    <3> HIDE DEF r, m
    <3>2. QED
      BY <3>1
  <2> HIDE DEF r, m, odd
  <2>3. m <= Cardinality(ps)
    BY <1>1, <1>2
  <2>4. QED
    BY <1>1, <1>2, <2>1, <2>2, <2>3, RankCount
<1>4. \A p \in S : f[p] = base[p] + extra[p]
  <2> SUFFICES ASSUME NEW p \in S PROVE f[p] = base[p] + extra[p]
    OBVIOUS
  <2>1. f[p] = IF p \in ps THEN d + (IF before(p) < m THEN 1 ELSE 0) ELSE 0
    BY DEF EqualShare
  <2>2. d \in Int
    BY <1>2
  <2> HIDE DEF d, m, before
  <2>3. QED
    BY <2>1, <2>2
<1>5. \A p \in S : base[p] \in Nat /\ extra[p] \in Nat
  <2> HIDE DEF d, odd
  <2>1. QED
    BY <1>2
<1>6. SumFunctionOnSet(base, S) = d * n
  <2>1. d \in Int /\ \A p \in S : base[p] = IF p \in ps THEN d ELSE 0
    BY <1>2
  <2> HIDE DEF base, d, n
  <2>2. QED
    BY <2>1, SumOfMembers DEF n
<1>7. SumFunctionOnSet(extra, S) = m
  <2>1. /\ \A p \in S : extra[p] = IF p \in odd THEN 1 ELSE 0
        /\ odd \in SUBSET S
    OBVIOUS
  <2> HIDE DEF extra, odd, m
  <2>2. SumFunctionOnSet(extra, S) = 1 * Cardinality(odd)
    BY <2>1, SumOfMembers
  <2>3. QED
    BY <1>2, <1>3, <2>2
<1> HIDE DEF base, extra
<1>8. SumFunctionOnSet(f, S) = SumFunctionOnSet(base, S) + SumFunctionOnSet(extra, S)
  BY <1>4, <1>5, SumPlus
<1>9. d * n = n * d
  <2> HIDE DEF d, n
  <2>1. QED
    BY <1>1, <1>2
<1>10. SumFunctionOnSet(f, S) = amount
  <2> HIDE DEF d, n, m
  <2>1. QED
    BY <1>2, <1>6, <1>7, <1>8, <1>9
<1>11. QED
  BY <1>4, <1>5, <1>10

-----------------------------------------------------------------------------
(* Layers. *)
LEMMA MaxTwo ==
  ASSUME NEW a \in Int, NEW b \in Int PROVE Max({a, b}) = IF a >= b THEN a ELSE b
<1> DEFINE m == IF a >= b THEN a ELSE b
<1>1. m \in {a, b} /\ \A y \in {a, b} : m >= y
  OBVIOUS
<1>2. ASSUME NEW x \in {a, b}, \A y \in {a, b} : x >= y PROVE x = m
  BY <1>2
<1>3. QED
  BY <1>1, <1>2 DEF Max

LEMMA MinTwo ==
  ASSUME NEW a \in Int, NEW b \in Int PROVE Min({a, b}) = IF a <= b THEN a ELSE b
<1> DEFINE m == IF a <= b THEN a ELSE b
<1>1. m \in {a, b} /\ \A y \in {a, b} : m <= y
  OBVIOUS
<1>2. ASSUME NEW x \in {a, b}, \A y \in {a, b} : x <= y PROVE x = m
  BY <1>2
<1>3. QED
  BY <1>1, <1>2 DEF Min

(* The highest of some amounts, 0 when there is none. *)
Highest(A) == Max({0} \cup A)

LEMMA HighestIs ==
  ASSUME NEW A, IsFiniteSet(A), A \subseteq Nat
  PROVE  /\ Highest(A) \in {0} \cup A /\ Highest(A) \in Nat
         /\ \A x \in A : x <= Highest(A)
<1> DEFINE S == {0} \cup A
<1>1. IsFiniteSet(S) /\ S # {} /\ S \subseteq Int
  BY FS_AddElement
<1>2. Max(S) \in S /\ \A y \in S : Max(S) >= y
  <2> HIDE DEF S
  <2>1. QED
    BY <1>1, MaxIn
<1>3. Highest(A) = Max(S)
  BY DEF Highest
<1> HIDE DEF S
<1>4. Max(S) \in Nat /\ \A x \in A : Max(S) >= x /\ x \in Nat
  <2>1. S \subseteq Nat /\ A \subseteq S
    BY DEF S
  <2>2. QED
    BY <1>2, <2>1
<1>5. \A x \in A : x <= Max(S)
  <2> DEFINE m == Max(S)
  <2>1. m \in Nat /\ \A x \in A : m >= x /\ x \in Nat
    BY <1>4
  <2> HIDE DEF m
  <2>2. \A x \in A : x <= m
    BY <2>1
  <2>3. QED
    BY <2>2 DEF m
<1>6. QED
  BY <1>2, <1>3, <1>4, <1>5 DEF S

(* The part of c that lies in the layer of A that ends at b. *)
Layer(A, c, b) ==
  LET low == Highest({x \in A : x < b})
      reach == IF c <= b THEN c ELSE b
  IN  IF reach > low THEN reach - low ELSE 0

(* The layers of c add up to as much of c as they cover. *)
LEMMA LayersAddUp ==
  ASSUME NEW A, IsFiniteSet(A), A \subseteq Nat, NEW c \in Nat,
         NEW f, \A b \in A : f[b] = Layer(A, c, b)
  PROVE  SumFunctionOnSet(f, A) = IF c <= Highest(A) THEN c ELSE Highest(A)
<1> DEFINE g(B) == [b \in B |-> Layer(B, c, b)]
           Covered(B) == IF c <= Highest(B) THEN c ELSE Highest(B)
           G == {B \in SUBSET A : SumFunctionOnSet(g(B), B) = Covered(B)}
           r == [x \in A |-> x]
<1>1. \A B \in SUBSET A : IsFiniteSet(B) /\ B \subseteq Nat
  BY FS_Subset
<1>2. \A B \in SUBSET A : \A b \in B : g(B)[b] \in Nat
  <2> SUFFICES ASSUME NEW B \in SUBSET A, NEW b \in B PROVE g(B)[b] \in Nat
    OBVIOUS
  <2> DEFINE L == {x \in B : x < b}
  <2>1. IsFiniteSet(L) /\ L \subseteq Nat
    BY <1>1, FS_Subset
  <2> HIDE DEF L
  <2>2. Highest(L) \in Nat
    BY <2>1, HighestIs
  <2>3. Layer(B, c, b) \in Nat
    BY <1>1, <2>2 DEF Layer, L
  <2>4. QED
    BY <2>3
<1>3. {} \in G
  <2>1. Highest({}) = 0
    BY HighestIs, FS_EmptySet
  <2>2. QED
    BY <2>1, SumEmpty
<1>4. ASSUME NEW B \in SUBSET A, B \in G, NEW x \in A \ B, \A y \in B : r[y] < r[x]
      PROVE  B \cup {x} \in G
  <2> DEFINE D == B \cup {x}
  <2>1. \A y \in B : y < x
    BY <1>4
  <2>2. IsFiniteSet(B) /\ B \subseteq Nat /\ IsFiniteSet(D) /\ D \subseteq Nat
        /\ D \in SUBSET A /\ x \in Nat
    BY <1>1, <1>4
  <2>3. Highest(B) \in Nat /\ Highest(B) \in {0} \cup B
    BY <2>2, HighestIs
  <2>4. Highest(D) = x
    <3>1. /\ Highest(D) \in {0} \cup D /\ Highest(D) \in Nat
          /\ \A y \in D : y <= Highest(D)
      BY <2>2, HighestIs
    <3> HIDE DEF g
    <3>2. x <= Highest(D)
      BY <3>1
    <3>3. Highest(D) # 0 => Highest(D) <= x
      BY <2>1, <2>2, <3>1
    <3>4. QED
      BY <2>2, <3>1, <3>2, <3>3
  <2>5. \A b \in B : g(D)[b] = g(B)[b]
    <3> SUFFICES ASSUME NEW b \in B PROVE Layer(D, c, b) = Layer(B, c, b)
      OBVIOUS
    <3>1. {y \in D : y < b} = {y \in B : y < b}
      BY <2>1, <2>2
    <3>2. QED
      BY <3>1 DEF Layer
  <2>6. g(D)[x] = Layer(D, c, x)
    OBVIOUS
  <2>7. {y \in D : y < x} = B
    <3>1. ~ (x < x)
      BY <2>2
    <3> HIDE DEF g
    <3>2. QED
      BY <2>1, <3>1
  <2>8. Layer(D, c, x) =
          LET reach == IF c <= x THEN c ELSE x
          IN  IF reach > Highest(B) THEN reach - Highest(B) ELSE 0
    BY <2>7 DEF Layer
  <2>9. \A b \in D : g(D)[b] \in Int
    BY <1>2, <2>2
  <2>10. x \notin B
    OBVIOUS
  <2>11. SumFunctionOnSet(g(B), B) = Covered(B)
    BY <1>4
  <2> HIDE DEF g, D, Covered
  <2>12. SumFunctionOnSet(g(D), B) = SumFunctionOnSet(g(B), B)
    BY <2>2, <2>5, SumSame
  <2>13. SumFunctionOnSet(g(D), D) = g(D)[x] + SumFunctionOnSet(g(D), B)
    BY <2>2, <2>9, <2>10, SumAdd DEF D
  <2>14. Highest(B) < x \/ (x = 0 /\ Highest(B) = 0)
    BY <2>1, <2>2, <2>3
  <2>15. SumFunctionOnSet(g(D), D) = Covered(D)
    BY <2>2, <2>3, <2>4, <2>6, <2>8, <2>11, <2>12, <2>13, <2>14 DEF Covered
  <2>16. QED
    BY <2>2, <2>15 DEF D
<1>5. /\ \A x \in A : r[x] \in Int
      /\ \A x, y \in A : r[x] = r[y] => x = y
  OBVIOUS
<1> HIDE DEF G, r
<1>6. A \in G
  BY <1>3, <1>4, <1>5, RankedInduction
<1>7. \A b \in A : f[b] = g(A)[b]
  OBVIOUS
<1> HIDE DEF g
<1>8. SumFunctionOnSet(f, A) = SumFunctionOnSet(g(A), A)
  BY <1>7, SumSame
<1>9. QED
  BY <1>6, <1>8 DEF G

-----------------------------------------------------------------------------
(* The bounds of the pots are commitments of contenders, the highest of them on
   top. *)
LEMMA LevelsAre ==
  ASSUME NEW s, HasStakes(s)
  PROVE  /\ IsFiniteSet(Bounds(s)) /\ Bounds(s) \subseteq Nat \ {0}
         /\ TopLevel(s) \in Nat
         /\ \A p \in Live(s) : s.committed[p] <= TopLevel(s)
         /\ \A b \in Bounds(s) : /\ b <= TopLevel(s)
                                 /\ \E p \in Live(s) : s.committed[p] = b
         /\ TopLevel(s) # 0 => TopLevel(s) \in Bounds(s)
<1> DEFINE C(ps) == {s.committed[p] : p \in ps}
           f == s.committed
<1>1. ASSUME NEW ps \in SUBSET Seated(s)
      PROVE  IsFiniteSet(C(ps)) /\ C(ps) \subseteq Nat
  <2>1. IsFiniteSet(ps) /\ \A p \in ps : f[p] \in Nat
    BY FS_Subset DEF HasStakes
  <2> HIDE DEF f
  <2>2. IsFiniteSet({f[p] : p \in ps}) /\ {f[p] : p \in ps} \subseteq Nat
    BY <2>1, ImageFinite
  <2>3. QED
    BY <2>2 DEF f
<1>2. Live(s) \in SUBSET Seated(s) /\ Live(s) \cap s.allIn \in SUBSET Seated(s)
  BY DEF Live
<1>3. TopLevel(s) = Highest(C(Live(s)))
  BY DEF TopLevel, Highest
<1>4. Bounds(s) = (C(Live(s) \cap s.allIn) \cup {TopLevel(s)}) \ {0}
  BY DEF Bounds
<1>5. C(Live(s) \cap s.allIn) \subseteq C(Live(s))
  OBVIOUS
<1>6. \A p \in Live(s) : s.committed[p] \in C(Live(s))
  OBVIOUS
<1>7. \A x \in C(Live(s)) : \E p \in Live(s) : s.committed[p] = x
  OBVIOUS
<1> HIDE DEF C
<1>8. /\ TopLevel(s) \in {0} \cup C(Live(s)) /\ TopLevel(s) \in Nat
      /\ \A x \in C(Live(s)) : x <= TopLevel(s)
  BY <1>1, <1>2, <1>3, HighestIs
<1>9. IsFiniteSet(Bounds(s))
  <2>1. IsFiniteSet(C(Live(s) \cap s.allIn) \cup {TopLevel(s)})
    BY <1>1, <1>2, FS_AddElement
  <2>2. QED
    BY <1>4, <2>1, FS_Subset
<1>10. \A b \in Bounds(s) : b \in C(Live(s)) /\ b \in Nat \ {0}
  BY <1>1, <1>2, <1>4, <1>5, <1>8
<1>11. TopLevel(s) # 0 => TopLevel(s) \in Bounds(s)
  BY <1>4
<1>12. QED
  BY <1>6, <1>7, <1>8, <1>9, <1>10, <1>11

LEMMA PaidIntoIs ==
  ASSUME NEW s, HasStakes(s), NEW b \in Bounds(s), NEW p \in Seated(s)
  PROVE  /\ PaidInto(s, b, p) \in Nat
         /\ b # TopLevel(s) => PaidInto(s, b, p) = Layer(Bounds(s), s.committed[p], b)
         /\ b = TopLevel(s) =>
              LET low == Highest({x \in Bounds(s) : x < b})
              IN  PaidInto(s, b, p) = IF s.committed[p] > low THEN s.committed[p] - low
                                                              ELSE 0
<1> DEFINE c == s.committed[p]
           low == Highest({x \in Bounds(s) : x < b})
           reach == IF b = TopLevel(s) THEN c ELSE IF c <= b THEN c ELSE b
<1>1. c \in Nat /\ b \in Nat
  BY LevelsAre DEF HasStakes
<1>2. low \in Nat
  <2> DEFINE L == {x \in Bounds(s) : x < b}
  <2>1. IsFiniteSet(L) /\ L \subseteq Nat
    BY LevelsAre, FS_Subset
  <2> HIDE DEF L
  <2>2. Highest(L) \in Nat
    BY <2>1, HighestIs
  <2>3. QED
    BY <2>2 DEF L
<1>3. LowerBound(s, b) = low
  BY DEF LowerBound, Highest
<1> HIDE DEF c, low
<1>4. Min({c, b}) = IF c <= b THEN c ELSE b
  BY <1>1, MinTwo
<1>5. PaidInto(s, b, p) = Max({0, reach - low})
  BY <1>3, <1>4 DEF PaidInto, c
<1>6. reach \in Nat /\ reach - low \in Int
  BY <1>1, <1>2
<1> DEFINE d == reach - low
<1>7. Max({0, d}) = IF 0 >= d THEN 0 ELSE d
  <2>1. d \in Int
    BY <1>6
  <2> HIDE DEF d
  <2>2. QED
    BY <2>1, MaxTwo
<1>8. PaidInto(s, b, p) = IF reach > low THEN reach - low ELSE 0
  <2>1. 0 >= d <=> ~ (reach > low)
    <3> HIDE DEF reach
    <3>1. QED
      BY <1>2, <1>6
  <2> HIDE DEF reach
  <2>2. QED
    BY <1>5, <1>7, <2>1
<1>9. Layer(Bounds(s), c, b) = LET r == IF c <= b THEN c ELSE b
                               IN  IF r > low THEN r - low ELSE 0
  BY DEF Layer, low
<1>10. PaidInto(s, b, p) \in Nat
  <2> HIDE DEF reach
  <2>1. QED
    BY <1>2, <1>6, <1>8
<1>11. b # TopLevel(s) => PaidInto(s, b, p) = Layer(Bounds(s), c, b)
  BY <1>8, <1>9
<1>12. b = TopLevel(s) => PaidInto(s, b, p) = IF c > low THEN c - low ELSE 0
  BY <1>8
<1>13. QED
  BY <1>10, <1>11, <1>12 DEF c, low

(* Every chip a player committed is in some pot, once. *)
LEMMA PaidIntoAddsUp ==
  ASSUME NEW s, HasStakes(s), TopLevel(s) # 0, NEW p \in Seated(s),
         NEW f, \A b \in Bounds(s) : f[b] = PaidInto(s, b, p)
  PROVE  SumFunctionOnSet(f, Bounds(s)) = s.committed[p]
<1> DEFINE c == s.committed[p]
           top == TopLevel(s)
           A == Bounds(s) \ {top}
<1>1. c \in Nat /\ top \in Nat /\ top \in Bounds(s)
  BY LevelsAre DEF HasStakes
<1>2. IsFiniteSet(Bounds(s)) /\ Bounds(s) \subseteq Nat /\ IsFiniteSet(A)
      /\ A \subseteq Nat /\ \A b \in A : b < top
  <2>1. /\ IsFiniteSet(Bounds(s)) /\ Bounds(s) \subseteq Nat /\ IsFiniteSet(A)
        /\ A \subseteq Nat /\ \A b \in A : b <= top /\ b # top
    BY LevelsAre, FS_Subset
  <2> HIDE DEF A, top
  <2>2. QED
    BY <1>1, <2>1
<1>3. {x \in Bounds(s) : x < top} = A
  <2>1. ~ (top < top)
    BY <1>1
  <2> HIDE DEF top
  <2>2. QED
    BY <1>2, <2>1
<1>4. ASSUME NEW b \in A PROVE f[b] = Layer(A, c, b)
  <2>1. f[b] = Layer(Bounds(s), c, b)
    BY PaidIntoIs
  <2>2. ~ (top < b)
    <3> HIDE DEF top, A
    <3>1. QED
      BY <1>1, <1>2
  <2>3. {x \in Bounds(s) : x < b} = {x \in A : x < b}
    BY <2>2
  <2>4. QED
    BY <2>1, <2>3 DEF Layer
<1>5. f[top] = IF c > Highest(A) THEN c - Highest(A) ELSE 0
  BY <1>1, <1>3, PaidIntoIs
<1>6. \A b \in Bounds(s) : f[b] \in Int
  <2>1. \A b \in Bounds(s) : PaidInto(s, b, p) \in Nat
    BY PaidIntoIs
  <2>2. QED
    BY <2>1
<1>7. Bounds(s) = A \cup {top} /\ top \notin A
  BY <1>1
<1> HIDE DEF A, top, c
<1>8. SumFunctionOnSet(f, A) = IF c <= Highest(A) THEN c ELSE Highest(A)
  BY <1>1, <1>2, <1>4, LayersAddUp
<1>9. SumFunctionOnSet(f, Bounds(s)) = f[top] + SumFunctionOnSet(f, A)
  BY <1>2, <1>6, <1>7, SumAdd
<1>10. Highest(A) \in Nat
  BY <1>2, HighestIs
<1>11. SumFunctionOnSet(f, Bounds(s)) = c
  BY <1>1, <1>5, <1>8, <1>9, <1>10
<1>12. QED
  BY <1>11 DEF c

(* The pots up to a level k below the top hold at most k of anybody's chips. *)
LEMMA PaidIntoBelow ==
  ASSUME NEW s, HasStakes(s), NEW k \in Nat, k < TopLevel(s), NEW p \in Seated(s),
         NEW A, A = {b \in Bounds(s) : b <= k},
         NEW f, \A b \in A : f[b] = PaidInto(s, b, p)
  PROVE  /\ SumFunctionOnSet(f, A) <= k
         /\ SumFunctionOnSet(f, A) <= s.committed[p]
<1> DEFINE c == s.committed[p]
<1>1. c \in Nat /\ TopLevel(s) \in Nat
  BY LevelsAre DEF HasStakes
<1>2. IsFiniteSet(A) /\ A \subseteq Nat
  BY LevelsAre, FS_Subset
<1>3. ASSUME NEW b \in A PROVE f[b] = Layer(A, c, b)
  <2>1. b \in Bounds(s) /\ b <= k /\ b \in Nat
    BY <1>2
  <2>2. f[b] = Layer(Bounds(s), c, b)
    <3>1. b # TopLevel(s)
      BY <1>1, <2>1
    <3>2. PaidInto(s, b, p) = Layer(Bounds(s), c, b)
      BY <2>1, <3>1, PaidIntoIs
    <3>3. QED
      BY <3>2
  <2>3. \A x \in Bounds(s) : x \in Nat /\ (x < b => x <= k)
    BY <2>1, LevelsAre
  <2>4. {x \in Bounds(s) : x < b} = {x \in A : x < b}
    BY <2>3
  <2>5. QED
    BY <2>2, <2>4 DEF Layer
<1> HIDE DEF c
<1>4. SumFunctionOnSet(f, A) = IF c <= Highest(A) THEN c ELSE Highest(A)
  BY <1>1, <1>2, <1>3, LayersAddUp
<1>5. Highest(A) \in Nat /\ Highest(A) <= k
  <2>1. \A x \in A : x <= k
    OBVIOUS
  <2>2. Highest(A) \in Nat /\ Highest(A) \in {0} \cup A
    BY <1>2, HighestIs
  <2>3. QED
    BY <2>1, <2>2
<1>6. QED
  BY <1>1, <1>4, <1>5 DEF c

-----------------------------------------------------------------------------
(* What every pot is: some chips, and the contenders who may win them. *)
IsPots(s, pots) ==
  /\ IsFiniteSet(DOMAIN pots)
  /\ \A b \in DOMAIN pots : /\ {"amount", "eligible"} \subseteq DOMAIN pots[b]
                            /\ pots[b].amount \in Nat
                            /\ pots[b].eligible \subseteq Live(s)
                            /\ pots[b].eligible # {}

LEMMA SidePotsAre ==
  ASSUME NEW s, HasStakes(s)
  PROVE  /\ IsPots(s, CalculateSidePots(s))
         /\ DOMAIN CalculateSidePots(s) = Bounds(s)
         /\ \A b \in Bounds(s) :
              /\ CalculateSidePots(s)[b].eligible = {p \in Live(s) : s.committed[p] >= b}
              /\ CalculateSidePots(s)[b].amount =
                   SumFunctionOnSet([p \in Seated(s) |-> PaidInto(s, b, p)], Seated(s))
<1> DEFINE pots == CalculateSidePots(s)
<1>1. /\ DOMAIN pots = Bounds(s)
      /\ \A b \in Bounds(s) :
           /\ DOMAIN pots[b] = {"amount", "eligible"}
           /\ pots[b].eligible = {p \in Live(s) : s.committed[p] >= b}
           /\ pots[b].amount =
                   SumFunctionOnSet([p \in Seated(s) |-> PaidInto(s, b, p)], Seated(s))
  BY DEF CalculateSidePots, SumOver
<1> HIDE DEF pots
<1>2. ASSUME NEW b \in Bounds(s) PROVE pots[b].amount \in Nat
  <2> DEFINE f == [p \in Seated(s) |-> PaidInto(s, b, p)]
  <2>1. \A p \in Seated(s) : PaidInto(s, b, p) \in Nat
    BY PaidIntoIs
  <2>2. IsFiniteSet(Seated(s)) /\ \A p \in Seated(s) : f[p] \in Nat
    BY <2>1 DEF HasStakes
  <2> HIDE DEF f
  <2>3. SumFunctionOnSet(f, Seated(s)) \in Nat
    BY <2>2, SumNat
  <2>4. QED
    BY <1>1, <2>3 DEF f
<1>3. ASSUME NEW b \in Bounds(s) PROVE pots[b].eligible # {}
  <2>1. PICK p \in Live(s) : s.committed[p] = b
    BY LevelsAre
  <2>2. b \in Nat /\ b >= b
    BY LevelsAre
  <2>3. p \in pots[b].eligible
    BY <1>1, <2>1, <2>2
  <2>4. QED
    BY <2>3
<1>4. IsFiniteSet(Bounds(s))
  BY LevelsAre
<1>5. QED
  BY <1>1, <1>2, <1>3, <1>4 DEF IsPots, pots

(* Every committed chip lies in one pot: the pots hold what was committed. *)
LEMMA PotsHoldStakes ==
  ASSUME NEW s, HasStakes(s), TopLevel(s) # 0
  PROVE  PotTotal(CalculateSidePots(s)) = SumFunctionOnSet(s.committed, Seated(s))
<1> DEFINE pots == CalculateSidePots(s)
           F == [b \in Bounds(s) |-> [p \in Seated(s) |-> PaidInto(s, b, p)]]
           H == [p \in Seated(s) |-> [b \in Bounds(s) |-> PaidInto(s, b, p)]]
           row == [b \in Bounds(s) |-> pots[b].amount]
           col == s.committed
<1>1. IsFiniteSet(Bounds(s)) /\ IsFiniteSet(Seated(s)) /\ DOMAIN pots = Bounds(s)
  BY LevelsAre, SidePotsAre DEF HasStakes
<1>2. \A b \in Bounds(s) : \A p \in Seated(s) : PaidInto(s, b, p) \in Int
  <2>1. \A b \in Bounds(s) : \A p \in Seated(s) : PaidInto(s, b, p) \in Nat
    BY PaidIntoIs
  <2>2. QED
    BY <2>1
<1>3. \A b \in Bounds(s) : \A p \in Seated(s) :
         F[b][p] \in Int /\ H[p][b] = F[b][p]
  BY <1>2
<1>4. \A b \in Bounds(s) : row[b] = SumFunctionOnSet(F[b], Seated(s))
  BY SidePotsAre
<1>5. ASSUME NEW p \in Seated(s) PROVE col[p] = SumFunctionOnSet(H[p], Bounds(s))
  <2> DEFINE g == H[p]
  <2>1. \A b \in Bounds(s) : g[b] = PaidInto(s, b, p)
    OBVIOUS
  <2> HIDE DEF g
  <2>2. SumFunctionOnSet(g, Bounds(s)) = s.committed[p]
    BY <2>1, PaidIntoAddsUp
  <2>3. QED
    BY <2>2 DEF g
<1>6. PotTotal(pots) = SumFunctionOnSet(row, Bounds(s))
  BY <1>1 DEF PotTotal, SumOver
<1> HIDE DEF F, H, row, col, pots
<1>7. IsTableOf(Bounds(s), Seated(s), F, H, row, col)
  BY <1>3, <1>4, <1>5 DEF IsTableOf
<1>8. SumFunctionOnSet(row, Bounds(s)) = SumFunctionOnSet(col, Seated(s))
  BY <1>1, <1>7, SumSwap
<1>9. QED
  BY <1>6, <1>8 DEF pots, col

(* The rake comes out of the pots, and is no more than its share of them. *)
LEMMA RakeOutOfPots ==
  ASSUME NEW s, NEW pots, IsPots(s, pots), NEW bps \in Nat, bps <= 10000
  PROVE  /\ IsPots(s, ApplyRake(pots, bps))
         /\ DOMAIN ApplyRake(pots, bps) = DOMAIN pots
         /\ \A b \in DOMAIN pots :
              ApplyRake(pots, bps)[b].eligible = pots[b].eligible
         /\ TotalRake(pots, bps) \in Nat
         /\ PotTotal(pots) \in Nat /\ PotTotal(ApplyRake(pots, bps)) \in Nat
         /\ PotTotal(ApplyRake(pots, bps)) + TotalRake(pots, bps) = PotTotal(pots)
         /\ 10000 * TotalRake(pots, bps) <= PotTotal(pots) * bps
<1> DEFINE net == ApplyRake(pots, bps)
           P == DOMAIN pots
           gross == [b \in P |-> pots[b].amount]
           cut == [b \in P |-> RakeOf(pots[b], bps)]
           left == [b \in P |-> net[b].amount]
<1>1. /\ DOMAIN net = P
      /\ \A b \in P : net[b] = [pots[b] EXCEPT !.amount = @ - RakeOf(pots[b], bps)]
  BY DEF ApplyRake
<1> HIDE DEF net
<1>2. \A b \in P : /\ net[b].amount = pots[b].amount - RakeOf(pots[b], bps)
                   /\ net[b].eligible = pots[b].eligible
                   /\ DOMAIN net[b] = DOMAIN pots[b]
  BY <1>1 DEF IsPots
<1>3. ASSUME NEW b \in P PROVE RakeOf(pots[b], bps) \in 0 .. pots[b].amount
  <2>1. pots[b].amount \in Nat
    BY DEF IsPots
  <2>2. MulBps(pots[b].amount, bps) \in 0 .. pots[b].amount
    BY <2>1, MulBpsPart
  <2>3. QED
    BY <2>2 DEF RakeOf
<1>4. ASSUME NEW b \in P
      PROVE  /\ gross[b] \in Nat /\ cut[b] \in Nat /\ left[b] \in Nat
             /\ gross[b] = left[b] + cut[b]
  <2>1. pots[b].amount \in Nat
    BY DEF IsPots
  <2>2. RakeOf(pots[b], bps) \in 0 .. pots[b].amount
    BY <1>3
  <2>3. net[b].amount = pots[b].amount - RakeOf(pots[b], bps)
    BY <1>2
  <2>4. QED
    BY <2>1, <2>2, <2>3
<1>5. IsFiniteSet(P)
  BY DEF IsPots
<1>6. /\ PotTotal(pots) = SumFunctionOnSet(gross, P)
      /\ PotTotal(net) = SumFunctionOnSet(left, P)
      /\ TotalRake(pots, bps) = SumFunctionOnSet(cut, P)
  BY <1>1 DEF PotTotal, TotalRake, SumOver
<1>7. IsPots(s, net)
  <2>1. \A b \in P : net[b].amount \in Nat
    BY <1>4
  <2>2. QED
    BY <1>1, <1>2, <2>1 DEF IsPots
<1>8. \A b \in P : 10000 * cut[b] <= gross[b] * bps
  <2> SUFFICES ASSUME NEW b \in P PROVE 10000 * cut[b] <= gross[b] * bps
    OBVIOUS
  <2> DEFINE a == pots[b].amount
             y == a * bps
  <2>1. a \in Nat
    BY DEF IsPots
  <2>2. y \in Nat
    BY <2>1, PartOf
  <2>3. cut[b] = y \div 10000
    BY <2>1, MulBpsIs DEF RakeOf
  <2>4. gross[b] * bps = y
    OBVIOUS
  <2> HIDE DEF y, cut, gross
  <2>5. 10000 * (y \div 10000) <= y
    BY <2>2
  <2>6. QED
    BY <2>3, <2>4, <2>5
<1> HIDE DEF gross, cut, left, P
<1>9. /\ SumFunctionOnSet(gross, P) \in Nat /\ SumFunctionOnSet(left, P) \in Nat
      /\ SumFunctionOnSet(cut, P) \in Nat
      /\ SumFunctionOnSet(gross, P) = SumFunctionOnSet(left, P) + SumFunctionOnSet(cut, P)
  <2>1. \A b \in P : left[b] \in Int /\ cut[b] \in Int /\ gross[b] = left[b] + cut[b]
    BY <1>4
  <2>2. \A b \in P : gross[b] \in Nat /\ cut[b] \in Nat /\ left[b] \in Nat
    BY <1>4
  <2>3. /\ SumFunctionOnSet(gross, P) \in Nat /\ SumFunctionOnSet(left, P) \in Nat
        /\ SumFunctionOnSet(cut, P) \in Nat
    BY <1>5, <2>2, SumNat
  <2>4. SumFunctionOnSet(gross, P) = SumFunctionOnSet(left, P) + SumFunctionOnSet(cut, P)
    BY <1>5, <2>1, SumPlus
  <2>5. QED
    BY <2>3, <2>4
<1>10. 10000 * SumFunctionOnSet(cut, P) <= SumFunctionOnSet(gross, P) * bps
  <2> DEFINE u == [b \in P |-> cut[b] * 10000]
             v == [b \in P |-> gross[b] * bps]
  <2>1. \A b \in P : /\ cut[b] \in Int /\ gross[b] \in Int
                     /\ u[b] = cut[b] * 10000 /\ v[b] = gross[b] * bps
    BY <1>4
  <2>2. \A x, y \in Int : x * y \in Int
    OBVIOUS
  <2>3. \A b \in P : u[b] \in Int /\ v[b] \in Int
    BY <2>1, <2>2
  <2>4. \A b \in P : u[b] <= v[b]
    <3> SUFFICES ASSUME NEW b \in P PROVE u[b] <= v[b]
      OBVIOUS
    <3>1. u[b] = cut[b] * 10000 /\ v[b] = gross[b] * bps /\ cut[b] \in Int
      BY <2>1
    <3>2. 10000 * cut[b] <= gross[b] * bps
      BY <1>8
    <3> HIDE DEF u, v
    <3>3. u[b] = 10000 * cut[b]
      BY <3>1
    <3>4. QED
      BY <3>1, <3>2, <3>3
  <2> HIDE DEF u, v
  <2>5. /\ SumFunctionOnSet(u, P) = SumFunctionOnSet(cut, P) * 10000
        /\ SumFunctionOnSet(v, P) = SumFunctionOnSet(gross, P) * bps
    BY <1>5, <2>1, SumScale
  <2>6. SumFunctionOnSet(u, P) <= SumFunctionOnSet(v, P)
    BY <1>5, <2>3, <2>4, SumMonotone
  <2>7. SumFunctionOnSet(u, P) = 10000 * SumFunctionOnSet(cut, P)
    BY <1>9, <2>5
  <2>8. QED
    BY <2>5, <2>6, <2>7
<1>11. \A b \in DOMAIN pots : net[b].eligible = pots[b].eligible
  BY <1>2 DEF P
<1>12. QED
  BY <1>1, <1>6, <1>7, <1>9, <1>10, <1>11 DEF net, P

(* Each pot goes to contenders who may win it. *)
LEMMA RecipientsAre ==
  ASSUME NEW s, HasStakes(s), NEW pots, IsPots(s, pots), NEW b \in DOMAIN pots, NEW best
  PROVE  /\ Recipients(s, pots[b], best) \subseteq pots[b].eligible
         /\ Recipients(s, pots[b], best) # {}
         /\ Recipients(s, pots[b], best) \in SUBSET Seated(s)
<1>1. pots[b].eligible \in SUBSET Seated(s) /\ pots[b].eligible # {}
  BY DEF IsPots, Live
<1>2. FirstSeat(s, pots[b].eligible) \in pots[b].eligible
  BY <1>1, FirstSeatIn
<1>3. QED
  BY <1>1, <1>2 DEF Recipients

(* The pots are paid out to the last chip. *)
LEMMA PayoutsAddUp ==
  ASSUME NEW s, HasStakes(s), NEW pots, IsPots(s, pots), NEW best,
         NEW S, IsFiniteSet(S), Seated(s) \subseteq S,
         NEW f, \A p \in S : f[p] = PayoutTo(s, pots, best, p)
  PROVE  /\ \A p \in S : f[p] \in Nat
         /\ SumFunctionOnSet(f, S) = PotTotal(pots)
<1> DEFINE P == DOMAIN pots
           share(b, p) == EqualShare(s, pots[b].amount, Recipients(s, pots[b], best), p)
           F == [b \in P |-> [p \in S |-> share(b, p)]]
           H == [p \in S |-> [b \in P |-> share(b, p)]]
           row == [b \in P |-> pots[b].amount]
<1>1. IsFiniteSet(P) /\ \A b \in P : row[b] \in Nat
  BY DEF IsPots
<1>2. \A b \in P : \A p \in S : H[p][b] = F[b][p]
  OBVIOUS
<1>3. ASSUME NEW b \in P
      PROVE  (\A p \in S : F[b][p] \in Nat) /\ row[b] = SumFunctionOnSet(F[b], S)
  <2> DEFINE g == F[b]
             ps == Recipients(s, pots[b], best)
             amount == pots[b].amount
  <2>1. \A p \in S : g[p] = EqualShare(s, amount, ps, p)
    OBVIOUS
  <2>2. amount \in Nat /\ row[b] = amount
    BY <1>1
  <2>3. ps \in SUBSET Seated(s) /\ ps # {} /\ ps \subseteq S
    BY RecipientsAre
  <2> HIDE DEF g, ps, amount, row
  <2>4. (\A p \in S : g[p] \in Nat) /\ SumFunctionOnSet(g, S) = amount
    BY <2>1, <2>2, <2>3, SharesAddUp
  <2>5. QED
    BY <2>2, <2>4 DEF g
<1>4. ASSUME NEW p \in S
      PROVE  f[p] = SumFunctionOnSet(H[p], P) /\ f[p] \in Nat
  <2> DEFINE g == H[p]
  <2>1. f[p] = SumFunctionOnSet(g, P)
    BY DEF PayoutTo, SumOver
  <2>2. \A b \in P : g[b] \in Nat
    BY <1>3
  <2> HIDE DEF g
  <2>3. SumFunctionOnSet(g, P) \in Nat
    BY <1>1, <2>2, SumNat
  <2>4. QED
    BY <2>1, <2>3 DEF g
<1>5. PotTotal(pots) = SumFunctionOnSet(row, P)
  BY DEF PotTotal, SumOver
<1>6. \A b \in P : \A p \in S : F[b][p] \in Int /\ H[p][b] = F[b][p]
  <2> HIDE DEF F, H
  <2>1. QED
    BY <1>2, <1>3
<1> HIDE DEF F, H, row, P
<1>7. IsTableOf(P, S, F, H, row, f)
  BY <1>3, <1>4, <1>6 DEF IsTableOf
<1>8. SumFunctionOnSet(row, P) = SumFunctionOnSet(f, S)
  BY <1>1, <1>7, SumSwap
<1>9. QED
  BY <1>4, <1>5, <1>8

(* A share is a part of its pot, and who does not receive gets nothing. *)
LEMMA ShareIsPart ==
  ASSUME NEW s, HasStakes(s), NEW pots, IsPots(s, pots), NEW b \in DOMAIN pots,
         NEW best, NEW p \in Seated(s)
  PROVE  LET share == EqualShare(s, pots[b].amount, Recipients(s, pots[b], best), p)
         IN  /\ share \in Nat /\ share <= pots[b].amount
             /\ p \notin Recipients(s, pots[b], best) => share = 0
<1> DEFINE ps == Recipients(s, pots[b], best)
           amount == pots[b].amount
           S == Seated(s)
           f == [q \in S |-> EqualShare(s, amount, ps, q)]
<1>1. ps \in SUBSET S /\ ps \subseteq S /\ ps # {} /\ amount \in Nat /\ IsFiniteSet(S)
  BY RecipientsAre DEF IsPots, HasStakes
<1>2. \A q \in S : f[q] = EqualShare(s, amount, ps, q)
  OBVIOUS
<1>3. p \notin ps => EqualShare(s, amount, ps, p) = 0
  BY DEF EqualShare
<1> HIDE DEF ps, amount, f
<1>4. (\A q \in S : f[q] \in Nat) /\ SumFunctionOnSet(f, S) = amount
  BY <1>1, <1>2, SharesAddUp
<1>5. f[p] <= SumFunctionOnSet(f, S)
  BY <1>1, <1>4, SumBounds
<1>6. EqualShare(s, amount, ps, p) \in Nat /\ EqualShare(s, amount, ps, p) <= amount
  BY <1>2, <1>4, <1>5
<1>7. QED
  BY <1>3, <1>6 DEF ps, amount

(* A player who may not win a pot gets nothing of it. *)
LEMMA NoPayout ==
  ASSUME NEW s, HasStakes(s), NEW pots, IsPots(s, pots), NEW best, NEW p,
         \A b \in DOMAIN pots : p \notin Recipients(s, pots[b], best)
  PROVE  PayoutTo(s, pots, best, p) = 0
<1> DEFINE f == [b \in DOMAIN pots |->
                   EqualShare(s, pots[b].amount, Recipients(s, pots[b], best), p)]
<1>1. IsFiniteSet(DOMAIN pots)
  BY DEF IsPots
<1>2. \A b \in DOMAIN pots : f[b] = 0
  BY DEF EqualShare
<1>3. PayoutTo(s, pots, best, p) = SumFunctionOnSet(f, DOMAIN pots)
  BY DEF PayoutTo, SumOver
<1> HIDE DEF f
<1>4. QED
  BY <1>1, <1>2, <1>3, SumZero

(* What is left of the pots of a hand after a rake. *)
AreNet(s, net) ==
  /\ IsPots(s, net) /\ DOMAIN net = Bounds(s)
  /\ \A b \in Bounds(s) :
       /\ net[b].eligible = {p \in Live(s) : s.committed[p] >= b}
       /\ net[b].amount <= CalculateSidePots(s)[b].amount

(* A player below the top wins at most what the others put in up to her own
   commitment. *)
LEMMA MatchedOnly ==
  ASSUME NEW s, HasStakes(s), NEW net, AreNet(s, net), NEW best, NEW p \in Seated(s),
         s.committed[p] < TopLevel(s),
         NEW g, \A q \in Seated(s) : g[q] = Min({s.committed[p], s.committed[q]})
  PROVE  PayoutTo(s, net, best, p) <= SumFunctionOnSet(g, Seated(s))
<1> DEFINE k == s.committed[p]
           Q == Seated(s)
           A == {b \in Bounds(s) : b <= k}
           share == [b \in Bounds(s) |->
                       EqualShare(s, net[b].amount, Recipients(s, net[b], best), p)]
           F == [b \in A |-> [q \in Q |-> PaidInto(s, b, q)]]
           H == [q \in Q |-> [b \in A |-> PaidInto(s, b, q)]]
           row == [b \in A |-> CalculateSidePots(s)[b].amount]
           col == [q \in Q |-> SumFunctionOnSet(H[q], A)]
<1>1. /\ k \in Nat /\ IsFiniteSet(Q) /\ IsFiniteSet(Bounds(s)) /\ IsFiniteSet(A)
      /\ A \in SUBSET Bounds(s) /\ \A b \in Bounds(s) : b \in Nat
  BY LevelsAre, FS_Subset DEF HasStakes
<1>2. ASSUME NEW b \in Bounds(s)
      PROVE  /\ share[b] \in Nat /\ share[b] <= CalculateSidePots(s)[b].amount
             /\ CalculateSidePots(s)[b].amount \in Nat
             /\ b \notin A => share[b] = 0
  <2>1. /\ share[b] \in Nat /\ share[b] <= net[b].amount
        /\ p \notin Recipients(s, net[b], best) => share[b] = 0
    BY ShareIsPart DEF AreNet
  <2>2. Recipients(s, net[b], best) \subseteq {q \in Live(s) : s.committed[q] >= b}
    BY RecipientsAre DEF AreNet
  <2>3. b \notin A => ~ (k >= b)
    <3>1. k \in Nat /\ b \in Nat
      BY <1>1
    <3> HIDE DEF k
    <3>2. QED
      BY <3>1
  <2>4. b \notin A => p \notin Recipients(s, net[b], best)
    BY <2>2, <2>3
  <2>5. net[b].amount \in Nat /\ net[b].amount <= CalculateSidePots(s)[b].amount
    BY DEF AreNet, IsPots
  <2>6. CalculateSidePots(s)[b].amount \in Nat
    BY SidePotsAre DEF IsPots
  <2> HIDE DEF share, A
  <2>7. QED
    BY <2>1, <2>4, <2>5, <2>6
<1>3. PayoutTo(s, net, best, p) = SumFunctionOnSet(share, Bounds(s))
  BY DEF PayoutTo, SumOver, AreNet
<1>4. \A b \in A : \A q \in Q : PaidInto(s, b, q) \in Int
  <2>1. \A b \in A : \A q \in Q : PaidInto(s, b, q) \in Nat
    BY PaidIntoIs
  <2>2. QED
    BY <2>1
<1>5. \A b \in A : \A q \in Q : F[b][q] \in Int /\ H[q][b] = F[b][q]
  BY <1>4
<1>6. \A b \in A : row[b] = SumFunctionOnSet(F[b], Q)
  BY SidePotsAre
<1>7. ASSUME NEW q \in Q PROVE col[q] <= g[q] /\ col[q] \in Int /\ g[q] \in Int
  <2> DEFINE f == H[q]
             c == s.committed[q]
  <2>1. \A b \in A : f[b] = PaidInto(s, b, q)
    OBVIOUS
  <2>2. \A b \in A : f[b] \in Int
    BY <1>4
  <2>3. col[q] = SumFunctionOnSet(f, A)
    OBVIOUS
  <2>4. c \in Nat /\ g[q] = Min({k, c})
    BY DEF HasStakes
  <2>5. k < TopLevel(s)
    OBVIOUS
  <2> HIDE DEF f
  <2>6. SumFunctionOnSet(f, A) <= k /\ SumFunctionOnSet(f, A) <= c
    BY <1>1, <2>1, <2>5, PaidIntoBelow
  <2>7. SumFunctionOnSet(f, A) \in Int
    BY <1>1, <2>2, SumInt
  <2> HIDE DEF k, c, col
  <2>8. Min({k, c}) = IF k <= c THEN k ELSE c
    BY <1>1, <2>4, MinTwo
  <2>9. QED
    BY <1>1, <2>3, <2>4, <2>6, <2>7, <2>8
<1>8. \A b \in A : row[b] = CalculateSidePots(s)[b].amount
  OBVIOUS
<1>9. \A q \in Q : col[q] = SumFunctionOnSet(H[q], A)
  OBVIOUS
<1> HIDE DEF F, H, row, col, share, A, Q
<1>10. SumFunctionOnSet(share, Bounds(s)) = SumFunctionOnSet(share, A)
  <2>1. (\A b \in A : share[b] \in Int) /\ \A b \in Bounds(s) \ A : share[b] = 0
    BY <1>1, <1>2
  <2>2. QED
    BY <1>1, <2>1, SumRestrict
<1>11. SumFunctionOnSet(share, A) <= SumFunctionOnSet(row, A)
  <2>1. \A b \in A : share[b] \in Int /\ row[b] \in Int /\ share[b] <= row[b]
    BY <1>1, <1>2, <1>8
  <2>2. QED
    BY <1>1, <2>1, SumMonotone
<1>12. SumFunctionOnSet(row, A) = SumFunctionOnSet(col, Q)
  <2>1. IsTableOf(A, Q, F, H, row, col)
    BY <1>5, <1>6, <1>9 DEF IsTableOf
  <2>2. QED
    BY <1>1, <2>1, SumSwap
<1>13. SumFunctionOnSet(col, Q) <= SumFunctionOnSet(g, Q)
  BY <1>1, <1>7, SumMonotone
<1>14. /\ SumFunctionOnSet(share, A) \in Int /\ SumFunctionOnSet(col, Q) \in Int
       /\ SumFunctionOnSet(g, Q) \in Int
  <2>1. \A b \in A : share[b] \in Int
    BY <1>1, <1>2
  <2>2. QED
    BY <1>1, <1>7, <2>1, SumInt
<1>15. QED
  BY <1>3, <1>10, <1>11, <1>12, <1>13, <1>14 DEF Q

-----------------------------------------------------------------------------
(* What betting leaves: who is not all-in has matched everybody. *)
AllMatched(s) ==
  \A p \in Live(s) \ s.allIn : \A q \in Seated(s) : s.committed[q] <= s.committed[p]

Reaching(s, m) == {p \in Live(s) : s.committed[p] >= m}
LowerEnd(s, b) == Highest({x \in Bounds(s) : x < b})

LEMMA LowerEndIs ==
  ASSUME NEW s, HasStakes(s), NEW b \in Bounds(s)
  PROVE  /\ LowerEnd(s, b) \in Nat /\ LowerEnd(s, b) < b
         /\ LowerEnd(s, b) # 0 => LowerEnd(s, b) \in Bounds(s)
         /\ \A x \in Bounds(s) : x < b => x <= LowerEnd(s, b)
<1> DEFINE L == {x \in Bounds(s) : x < b}
<1>1. IsFiniteSet(L) /\ L \subseteq Nat /\ b \in Nat /\ b # 0
  BY LevelsAre, FS_Subset
<1>2. \A x \in L : x \in Bounds(s) /\ x < b
  OBVIOUS
<1>3. \A x \in Bounds(s) : x < b => x \in L
  OBVIOUS
<1> HIDE DEF L
<1>4. /\ Highest(L) \in {0} \cup L /\ Highest(L) \in Nat
      /\ \A x \in L : x <= Highest(L)
  BY <1>1, HighestIs
<1>5. LowerEnd(s, b) = Highest(L)
  BY DEF LowerEnd, L
<1>6. QED
  BY <1>1, <1>2, <1>3, <1>4, <1>5

(* Then every chip between the two ends of a pot is contested by the same
   contenders, and no other chip is. *)
LEMMA SameContest ==
  ASSUME NEW s, HasStakes(s), AllMatched(s), NEW b \in Bounds(s), NEW m \in Nat, m # 0
  PROVE  Reaching(s, m) = Reaching(s, b) <=> LowerEnd(s, b) < m /\ m <= b
<1> DEFINE low == LowerEnd(s, b)
<1>1. /\ low \in Nat /\ low < b /\ (low # 0 => low \in Bounds(s))
      /\ \A x \in Bounds(s) : x < b => x <= low
  BY LowerEndIs
<1> HIDE DEF low
<1>2. b \in Nat /\ \A p \in Live(s) : s.committed[p] \in Nat
  BY LevelsAre DEF HasStakes, Live
<1>3. ASSUME NEW p \in Live(s), s.committed[p] # 0 PROVE s.committed[p] \in Bounds(s)
  <2>1. CASE p \in s.allIn
    BY <1>3, <2>1 DEF Bounds
  <2>2. CASE p \notin s.allIn
    <3>1. /\ TopLevel(s) \in Nat /\ s.committed[p] <= TopLevel(s)
          /\ TopLevel(s) # 0 => TopLevel(s) \in Bounds(s)
      BY LevelsAre
    <3>2. TopLevel(s) # 0
      BY <1>2, <1>3, <3>1
    <3>3. PICK q \in Live(s) : s.committed[q] = TopLevel(s)
      BY <3>1, <3>2, LevelsAre
    <3>4. s.committed[q] <= s.committed[p]
      BY <2>2, <3>3 DEF AllMatched, Live
    <3>5. s.committed[p] = TopLevel(s)
      BY <1>2, <3>1, <3>3, <3>4
    <3>6. QED
      BY <3>1, <3>2, <3>5
  <2>3. QED
    BY <2>1, <2>2
<1>4. ASSUME low < m, m <= b PROVE Reaching(s, m) = Reaching(s, b)
  <2>1. ASSUME NEW p \in Live(s) PROVE s.committed[p] >= m <=> s.committed[p] >= b
    <3>1. s.committed[p] \in Nat
      BY <1>2
    <3>2. s.committed[p] >= b => s.committed[p] >= m
      BY <1>2, <1>4, <3>1
    <3>3. ASSUME s.committed[p] >= m PROVE s.committed[p] >= b
      <4>1. s.committed[p] \in Bounds(s)
        BY <1>3, <3>1, <3>3
      <4>2. s.committed[p] < b => s.committed[p] <= low
        BY <1>1, <4>1
      <4>3. QED
        BY <1>1, <1>2, <1>4, <3>1, <3>3, <4>2
    <3>4. QED
      BY <3>2, <3>3
  <2>2. QED
    BY <2>1 DEF Reaching
<1>5. ASSUME Reaching(s, m) = Reaching(s, b) PROVE m <= b
  <2>1. PICK p \in Live(s) : s.committed[p] = b
    BY LevelsAre
  <2>2. p \in Reaching(s, b)
    BY <1>2, <2>1 DEF Reaching
  <2>3. QED
    BY <1>5, <2>1, <2>2 DEF Reaching
<1>6. ASSUME Reaching(s, m) = Reaching(s, b) PROVE low < m
  <2>1. SUFFICES ASSUME m <= low PROVE FALSE
    BY <1>1
  <2>2. low \in Bounds(s)
    BY <1>1, <2>1
  <2>3. PICK p \in Live(s) : s.committed[p] = low
    BY <2>2, LevelsAre
  <2>4. p \in Reaching(s, m)
    BY <1>1, <2>1, <2>3 DEF Reaching
  <2>5. low >= b
    BY <1>6, <2>3, <2>4 DEF Reaching
  <2>6. QED
    BY <1>1, <1>2, <2>5
<1>7. QED
  BY <1>4, <1>5, <1>6 DEF low

(* Every group that contests a chip contests one pot. *)
LEMMA ContestHasPot ==
  ASSUME NEW s, HasStakes(s), AllMatched(s), NEW m \in Nat, m # 0, m <= TopLevel(s)
  PROVE  \E b \in Bounds(s) : LowerEnd(s, b) < m /\ m <= b
<1> DEFINE A == {b \in Bounds(s) : m <= b}
<1>1. IsFiniteSet(A) /\ A # {} /\ A \subseteq Int
  BY LevelsAre, FS_Subset
<1>2. \A b \in A : b \in Bounds(s) /\ m <= b
  OBVIOUS
<1>3. \A b \in Bounds(s) : m <= b => b \in A
  OBVIOUS
<1> HIDE DEF A
<1>4. PICK b \in A : \A y \in A : b <= y
  BY <1>1, MinIn
<1>5. b \in Bounds(s) /\ m <= b /\ b \in Nat
  BY <1>2, LevelsAre
<1>6. /\ LowerEnd(s, b) \in Nat /\ LowerEnd(s, b) < b
      /\ LowerEnd(s, b) # 0 => LowerEnd(s, b) \in Bounds(s)
  BY <1>5, LowerEndIs
<1> DEFINE low == LowerEnd(s, b)
<1>7. low \in A => b <= low
  BY <1>4
<1>8. low # 0 /\ m <= low => low \in A
  BY <1>3, <1>6
<1>9. low < m
  <2>1. low \in Nat /\ low < b
    BY <1>6
  <2> HIDE DEF low
  <2>2. QED
    BY <1>5, <1>7, <1>8, <2>1
<1>10. QED
  BY <1>5, <1>9

LEMMA OneContestOnePot ==
  ASSUME NEW s, HasStakes(s), AllMatched(s), NEW b \in Bounds(s), NEW d \in Bounds(s),
         Reaching(s, b) = Reaching(s, d)
  PROVE  b = d
<1>1. b \in Nat \ {0} /\ d \in Nat \ {0}
  BY LevelsAre
<1>2. b <= d /\ d <= b
  BY <1>1, SameContest
<1>3. QED
  BY <1>1, <1>2

(* The chips of a player that are contested by the contenders of a pot are as
   many as the player paid into it. *)
LEMMA ChipsInPot ==
  ASSUME NEW s, HasStakes(s), AllMatched(s), NEW b \in Bounds(s), NEW p \in Seated(s)
  PROVE  Cardinality({j \in 1 .. s.committed[p] :
                        Reaching(s, Min({j, TopLevel(s)})) = Reaching(s, b)})
           = PaidInto(s, b, p)
<1> DEFINE c == s.committed[p]
           top == TopLevel(s)
           low == LowerEnd(s, b)
           reach == IF b = top THEN c ELSE IF c <= b THEN c ELSE b
           chips == {j \in 1 .. c : Reaching(s, Min({j, top})) = Reaching(s, b)}
<1>1. c \in Nat /\ top \in Nat /\ b \in Nat /\ b # 0 /\ b <= top
  BY LevelsAre DEF HasStakes
<1>2. low \in Nat /\ low < b
  BY LowerEndIs
<1>3. PaidInto(s, b, p) = IF reach > low THEN reach - low ELSE 0
  BY PaidIntoIs DEF LowerEnd, Layer
<1> HIDE DEF c, top, low
<1>4. ASSUME NEW j \in 1 .. c
      PROVE  Reaching(s, Min({j, top})) = Reaching(s, b) <=> j \in (low + 1) .. reach
  <2> DEFINE m == Min({j, top})
  <2>1. m = IF j <= top THEN j ELSE top
    BY <1>1, MinTwo
  <2>2. m \in Nat /\ m # 0
    BY <1>1, <2>1
  <2> HIDE DEF m
  <2>3. Reaching(s, m) = Reaching(s, b) <=> low < m /\ m <= b
    BY <2>2, SameContest DEF low
  <2>4. low < m /\ m <= b <=> j \in (low + 1) .. reach
    BY <1>1, <1>2, <2>1
  <2>5. QED
    BY <2>3, <2>4 DEF m
<1>5. chips = (low + 1) .. reach
  <2>1. reach \in Nat /\ reach <= c
    BY <1>1
  <2> HIDE DEF reach
  <2>2. \A j \in (low + 1) .. reach : j \in 1 .. c
    BY <1>1, <1>2, <2>1
  <2>3. QED
    BY <1>4, <2>2
<1>6. low + 1 \in Int /\ reach \in Int
  BY <1>1, <1>2
<1> HIDE DEF reach, chips
<1>7. Cardinality((low + 1) .. reach) =
        IF low + 1 > reach THEN 0 ELSE reach - (low + 1) + 1
  BY <1>6, FS_Interval
<1>8. Cardinality(chips) = PaidInto(s, b, p)
  BY <1>2, <1>3, <1>5, <1>6, <1>7
<1>9. QED
  BY <1>8 DEF chips, c, top

=============================================================================
