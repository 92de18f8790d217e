---------------------------- MODULE MCPots_proofs ----------------------------
(***************************************************************************)
(* The promises of the showdown, for every seating, every commitments, every *)
(* rake and every set of proved winners.                                   *)
(*                                                                         *)
(* The invariant is that a settled hand was paid what PayoutTo says; the   *)
(* rest are facts about the pots of a showdown.                            *)
(***************************************************************************)
EXTENDS MCPots, Pots_proofs

(* What the proofs need of a showdown. *)
Ready(h) ==
  /\ HasStakes(h) /\ Seated(h) = Range(Seating)
  /\ h.committed \in [Range(Seating) -> Commitments]
  /\ TopLevel(h) \in Nat /\ TopLevel(h) # 0
  /\ \A p \in Live(h) \ h.allIn :
       \A q \in Range(Seating) : h.committed[q] <= h.committed[p]

LEMMA ShowdownsReady == ASSUME NEW h \in Showdowns PROVE Ready(h)
<1>1. /\ h.seats = Seating /\ h.committed \in [Range(Seating) -> Commitments]
      /\ TopLevel(h) > 0
      /\ \A p \in Live(h) \ h.allIn :
           \A q \in Range(Seating) : h.committed[q] <= h.committed[p]
  BY DEF Showdowns
<1>2. HasStakes(h) /\ Seated(h) = Range(Seating)
  <2>1. Seated(h) = Range(Seating)
    BY <1>1 DEF Seated
  <2>2. ASSUME NEW p \in Range(Seating) PROVE h.committed[p] \in Nat
    <3> DEFINE c == h.committed
    <3>1. c \in [Range(Seating) -> Commitments] /\ Commitments \subseteq Nat
      BY <1>1, ShowdownAssumption
    <3> HIDE DEF c
    <3>2. c[p] \in Nat
      BY <3>1
    <3>3. QED
      BY <3>2 DEF c
  <2>3. QED
    BY <1>1, <2>1, <2>2, ShowdownAssumption DEF HasStakes
<1>3. TopLevel(h) \in Nat
  BY <1>2, LevelsAre
<1>4. QED
  BY <1>1, <1>2, <1>3 DEF Ready

Net == ApplyRake(CalculateSidePots(hand), RakeBps)

(* The inductive invariant. *)
PaidByPots ==
  /\ Ready(hand)
  /\ best # {} =>
       /\ best \subseteq Range(Seating)
       /\ paid = [p \in Range(Seating) |-> PayoutTo(hand, Net, best, p)]

LEMMA PaidByPotsInit == Init => PaidByPots
  BY ShowdownsReady DEF Init, PaidByPots

LEMMA PaidByPotsStep == PaidByPots /\ [Next]_vars => PaidByPots'
<1> SUFFICES ASSUME PaidByPots, [Next]_vars PROVE PaidByPots'
  OBVIOUS
<1>1. CASE Settle
  BY <1>1 DEF Settle, PaidByPots, Net
<1>2. CASE UNCHANGED vars
  BY <1>2 DEF vars, PaidByPots, Net
<1>3. QED
  BY <1>1, <1>2 DEF Next

LEMMA AlwaysPaidByPots == Spec => []PaidByPots
  BY PaidByPotsInit, PaidByPotsStep, PTL DEF Spec

(* The pots of a showdown and what is left of them after the rake. *)
LEMMA ShowdownPots ==
  ASSUME NEW h, Ready(h)
  PROVE  LET pots == CalculateSidePots(h)
             net == ApplyRake(pots, RakeBps)
         IN  /\ IsPots(h, pots) /\ IsPots(h, net)
             /\ DOMAIN pots = Bounds(h) /\ DOMAIN net = Bounds(h)
             /\ \A b \in Bounds(h) :
                  /\ net[b].eligible = {p \in Live(h) : h.committed[p] >= b}
                  /\ net[b].amount <= pots[b].amount
<1> DEFINE pots == CalculateSidePots(h)
           net == ApplyRake(pots, RakeBps)
<1>1. /\ IsPots(h, pots) /\ DOMAIN pots = Bounds(h)
      /\ \A b \in Bounds(h) : pots[b].eligible = {p \in Live(h) : h.committed[p] >= b}
  BY SidePotsAre DEF Ready
<1> HIDE DEF pots
<1>2. /\ IsPots(h, net) /\ DOMAIN net = DOMAIN pots
      /\ \A b \in DOMAIN pots : net[b].eligible = pots[b].eligible
  <2>1. RakeBps \in Nat /\ RakeBps <= 10000
    BY ShowdownAssumption
  <2>2. IsPots(h, pots)
    BY <1>1
  <2> HIDE DEF net
  <2>3. QED
    BY <2>1, <2>2, RakeOutOfPots DEF net
<1>3. ASSUME NEW b \in Bounds(h) PROVE net[b].amount <= pots[b].amount
  <2>1. net[b] = [pots[b] EXCEPT !.amount = @ - RakeOf(pots[b], RakeBps)]
    BY <1>1 DEF ApplyRake
  <2>2. pots[b].amount \in Nat /\ "amount" \in DOMAIN pots[b]
    BY <1>1 DEF IsPots
  <2>3. RakeOf(pots[b], RakeBps) \in 0 .. pots[b].amount
    <3>1. RakeBps \in Nat /\ RakeBps <= 10000
      BY ShowdownAssumption
    <3> DEFINE a == pots[b].amount
    <3>2. a \in Nat
      BY <2>2
    <3> HIDE DEF a
    <3>3. MulBps(a, RakeBps) \in 0 .. a
      BY <3>1, <3>2, MulBpsPart
    <3>4. QED
      BY <3>3 DEF a, RakeOf
  <2>4. net[b].amount = pots[b].amount - RakeOf(pots[b], RakeBps)
    BY <2>1, <2>2
  <2> HIDE DEF net
  <2>5. QED
    BY <2>2, <2>3, <2>4
<1> HIDE DEF net
<1>4. QED
  BY <1>1, <1>2, <1>3 DEF pots, net

-----------------------------------------------------------------------------
LEMMA PaidInFullHolds == PaidByPots => PaidInFull
<1> SUFFICES ASSUME PaidByPots, best # {}
             PROVE  LET committed == SumOver(hand.committed, Range(Seating))
                        out       == SumOver(paid, Range(Seating))
                        raked     == TotalRake(CalculateSidePots(hand), RakeBps)
                    IN  out + raked = committed /\ 10000 * raked <= committed * RakeBps
  BY DEF PaidInFull
<1> DEFINE pots == CalculateSidePots(hand)
<1>1. /\ HasStakes(hand) /\ Seated(hand) = Range(Seating) /\ TopLevel(hand) # 0
      /\ IsFiniteSet(Range(Seating))
      /\ \A p \in Range(Seating) : paid[p] = PayoutTo(hand, Net, best, p)
  BY ShowdownAssumption DEF PaidByPots, Ready
<1>2. IsPots(hand, pots) /\ IsPots(hand, Net)
  BY ShowdownPots DEF Net, PaidByPots
<1>3. PotTotal(pots) = SumOver(hand.committed, Range(Seating))
  BY <1>1, PotsHoldStakes DEF SumOver
<1>4. SumOver(paid, Range(Seating)) = PotTotal(Net)
  <2>1. Seated(hand) \subseteq Range(Seating)
    BY <1>1
  <2>2. SumFunctionOnSet(paid, Range(Seating)) = PotTotal(Net)
    BY <1>1, <1>2, <2>1, PayoutsAddUp
  <2>3. QED
    BY <2>2 DEF SumOver
<1> HIDE DEF pots
<1>5. /\ PotTotal(Net) + TotalRake(pots, RakeBps) = PotTotal(pots)
      /\ 10000 * TotalRake(pots, RakeBps) <= PotTotal(pots) * RakeBps
  BY <1>2, RakeOutOfPots, ShowdownAssumption DEF Net, pots
<1>6. QED
  BY <1>3, <1>4, <1>5 DEF pots

(* PaidInFull for every showdown: whatever the commitments, the odd chips and the
   rounding of the rake, the winners and the rake together get exactly what was
   committed. *)
THEOREM AlwaysPaidInFull == Spec => []PaidInFull
  BY AlwaysPaidByPots, PaidInFullHolds, PTL

-----------------------------------------------------------------------------
LEMMA DeepWinnerHolds == PaidByPots => DeepWinnerTakesAll
<1> SUFFICES ASSUME PaidByPots, best # {}, NEW p \in Live(hand), best = {p},
                    \A q \in Range(Seating) : hand.committed[q] <= hand.committed[p],
                    NEW q \in Range(Seating) \ {p}
             PROVE  paid[q] = 0
  BY DEF DeepWinnerTakesAll
<1>1. /\ HasStakes(hand) /\ Seated(hand) = Range(Seating) /\ Ready(hand)
      /\ paid[q] = PayoutTo(hand, Net, best, q)
  BY DEF PaidByPots, Ready
<1>2. /\ IsPots(hand, Net) /\ DOMAIN Net = Bounds(hand)
      /\ \A b \in Bounds(hand) :
           Net[b].eligible = {r \in Live(hand) : hand.committed[r] >= b}
  BY <1>1, ShowdownPots DEF Net
<1>3. ASSUME NEW b \in DOMAIN Net PROVE q \notin Recipients(hand, Net[b], best)
  <2>1. PICK r \in Live(hand) : hand.committed[r] = b
    BY <1>1, <1>2, LevelsAre
  <2>2. r \in Range(Seating) /\ p \in Range(Seating)
    BY <1>1, <2>1 DEF Live
  <2>3. hand.committed[p] \in Nat /\ hand.committed[r] \in Nat
    BY <1>1, <2>2 DEF HasStakes
  <2>4. p \in Net[b].eligible
    BY <1>2, <2>1, <2>2, <2>3
  <2>5. Net[b].eligible \cap best \cap Live(hand) = {p}
    BY <2>4
  <2>6. QED
    BY <2>5 DEF Recipients
<1>4. QED
  BY <1>1, <1>2, <1>3, NoPayout

(* DeepWinnerTakesAll for every showdown: nobody else gets a chip of what the
   deepest contender wins alone. *)
THEOREM DeepWinnerAlwaysTakesAll == Spec => []DeepWinnerTakesAll
  BY AlwaysPaidByPots, DeepWinnerHolds, PTL
-----------------------------------------------------------------------------
LEMMA OnlyMatchedHolds == PaidByPots => OnlyMatchedChipsWon
<1> SUFFICES ASSUME PaidByPots, best # {}, NEW p \in Range(Seating)
             PROVE  /\ p \in hand.folded => paid[p] = 0
                    /\ hand.committed[p] < TopLevel(hand) =>
                         paid[p] <= SumOver([q \in Range(Seating) |->
                                       Min({hand.committed[p], hand.committed[q]})],
                                      Range(Seating))
  BY DEF OnlyMatchedChipsWon
<1> DEFINE g == [q \in Range(Seating) |->
                   Min({hand.committed[p], hand.committed[q]})]
<1>1. /\ HasStakes(hand) /\ Seated(hand) = Range(Seating) /\ Ready(hand)
      /\ paid[p] = PayoutTo(hand, Net, best, p)
  BY DEF PaidByPots, Ready
<1>2. AreNet(hand, Net)
  BY <1>1, ShowdownPots DEF Net, AreNet
<1>3. ASSUME p \in hand.folded PROVE paid[p] = 0
  <2>1. p \notin Live(hand)
    BY <1>3 DEF Live
  <2>2. IsPots(hand, Net)
    BY <1>2 DEF AreNet
  <2>3. \A b \in DOMAIN Net : p \notin Recipients(hand, Net[b], best)
    <3>1. \A b \in DOMAIN Net : Recipients(hand, Net[b], best) \subseteq Net[b].eligible
      BY <1>1, <2>2, RecipientsAre
    <3>2. \A b \in DOMAIN Net : Net[b].eligible \subseteq Live(hand)
      BY <2>2 DEF IsPots
    <3>3. QED
      BY <2>1, <3>1, <3>2
  <2>4. QED
    BY <1>1, <2>2, <2>3, NoPayout
<1>4. ASSUME hand.committed[p] < TopLevel(hand)
      PROVE  paid[p] <= SumFunctionOnSet(g, Range(Seating))
  <2>1. \A q \in Seated(hand) : g[q] = Min({hand.committed[p], hand.committed[q]})
    BY <1>1
  <2>2. p \in Seated(hand)
    BY <1>1
  <2> HIDE DEF g
  <2>3. PayoutTo(hand, Net, best, p) <= SumFunctionOnSet(g, Seated(hand))
    BY <1>1, <1>2, <1>4, <2>1, <2>2, MatchedOnly
  <2>4. QED
    BY <1>1, <2>3
<1>5. QED
  BY <1>3, <1>4 DEF SumOver

(* OnlyMatchedChipsWon for every showdown, whatever set of winners was proved:
   a short stack never collects more from anybody than it risked, and a folded
   hand collects nothing. *)
THEOREM OnlyMatchedChipsAreWon == Spec => []OnlyMatchedChipsWon
  BY AlwaysPaidByPots, OnlyMatchedHolds, PTL

-----------------------------------------------------------------------------
LEMMA PotsMatchChipsHolds == PaidByPots => PotsMatchChips
<1> SUFFICES ASSUME PaidByPots
             PROVE  LET pots  == CalculateSidePots(hand)
                        tiers == {Contest(k) : k \in 1 .. Max(Commitments)}
                    IN  /\ \A b \in DOMAIN pots : pots[b].eligible \in tiers
                        /\ \A ps \in tiers :
                             ChipsContestedBy(ps) =
                               SumOver([b \in DOMAIN pots |->
                                  IF pots[b].eligible = ps THEN pots[b].amount ELSE 0],
                                       DOMAIN pots)
  BY DEF PotsMatchChips
<1> DEFINE pots == CalculateSidePots(hand)
           top == TopLevel(hand)
<1>1. /\ HasStakes(hand) /\ Seated(hand) = Range(Seating) /\ AllMatched(hand)
      /\ top \in Nat /\ top # 0 /\ IsFiniteSet(Range(Seating))
      /\ hand.committed \in [Range(Seating) -> Commitments]
  BY ShowdownAssumption DEF PaidByPots, Ready, AllMatched
<1>2. /\ IsPots(hand, pots) /\ DOMAIN pots = Bounds(hand)
      /\ IsFiniteSet(Bounds(hand))
      /\ \A b \in Bounds(hand) :
           /\ pots[b].eligible = Reaching(hand, b)
           /\ pots[b].amount = SumFunctionOnSet(
                [p \in Range(Seating) |-> PaidInto(hand, b, p)], Range(Seating))
  BY <1>1, SidePotsAre, LevelsAre DEF Reaching
<1>3. ASSUME NEW k PROVE Contest(k) = Reaching(hand, Min({k, top}))
  BY DEF Contest, Reaching
<1>4. ASSUME NEW b \in Bounds(hand)
      PROVE  /\ b \in 1 .. Max(Commitments) /\ Contest(b) = Reaching(hand, b)
  <2>1. b \in Nat \ {0} /\ b <= top
    BY <1>1, LevelsAre
  <2>2. PICK p \in Live(hand) : hand.committed[p] = b
    BY <1>1, LevelsAre
  <2>3. p \in Range(Seating)
    BY <1>1 DEF Live
  <2>4. b \in Commitments
    BY <1>1, <2>2, <2>3
  <2>5. Commitments \subseteq Int /\ Commitments \subseteq Nat
        /\ IsFiniteSet(Commitments) /\ Commitments # {}
    BY <2>4, ShowdownAssumption
  <2>6. Max(Commitments) \in Commitments /\ \A y \in Commitments : Max(Commitments) >= y
    BY <2>5, MaxIn
  <2> HIDE DEF top
  <2>7. Min({b, top}) = b
    BY <1>1, <2>1, MinTwo
  <2>8. QED
    BY <1>3, <2>1, <2>4, <2>5, <2>6, <2>7
<1> HIDE DEF pots
<1>5. ASSUME NEW b \in Bounds(hand)
      PROVE  ChipsContestedBy(Reaching(hand, b)) = pots[b].amount
  <2> DEFINE won == [p \in Range(Seating) |->
                       Cardinality({j \in 1 .. hand.committed[p] :
                                      Contest(j) = Reaching(hand, b)})]
             into == [p \in Range(Seating) |-> PaidInto(hand, b, p)]
  <2>1. \A p \in Range(Seating) : won[p] = into[p]
    BY <1>1, <1>3, ChipsInPot
  <2>2. ChipsContestedBy(Reaching(hand, b)) = SumFunctionOnSet(won, Range(Seating))
    BY DEF ChipsContestedBy, SumOver
  <2>3. pots[b].amount = SumFunctionOnSet(into, Range(Seating))
    BY <1>2
  <2> HIDE DEF won, into
  <2>4. QED
    BY <1>1, <2>1, <2>2, <2>3, SumSame
<1>6. ASSUME NEW k \in 1 .. Max(Commitments)
      PROVE  \E b \in Bounds(hand) : Contest(k) = Reaching(hand, b)
  <2>1. k \in Nat /\ k # 0
    OBVIOUS
  <2> DEFINE m == Min({k, top})
  <2> HIDE DEF top
  <2>2. m = IF k <= top THEN k ELSE top
    BY <1>1, <2>1, MinTwo
  <2>3. m \in Nat /\ m # 0 /\ m <= top
    BY <1>1, <2>1, <2>2
  <2> HIDE DEF m
  <2>4. PICK b \in Bounds(hand) : LowerEnd(hand, b) < m /\ m <= b
    BY <1>1, <2>3, ContestHasPot DEF top
  <2>5. Reaching(hand, m) = Reaching(hand, b)
    BY <1>1, <2>3, <2>4, SameContest
  <2>6. QED
    BY <1>3, <2>5 DEF m, top
<1>7. ASSUME NEW d \in Bounds(hand)
      PROVE  ChipsContestedBy(Reaching(hand, d)) =
               SumOver([b \in DOMAIN pots |->
                          IF pots[b].eligible = Reaching(hand, d)
                          THEN pots[b].amount ELSE 0], DOMAIN pots)
  <2> DEFINE f == [b \in Bounds(hand) |-> IF pots[b].eligible = Reaching(hand, d)
                                          THEN pots[b].amount ELSE 0]
  <2>1. f[d] = pots[d].amount /\ f[d] \in Nat
    BY <1>2 DEF IsPots
  <2>2. \A b \in Bounds(hand) \ {d} : f[b] = 0
    BY <1>1, <1>2, OneContestOnePot
  <2>3. SumOver([b \in DOMAIN pots |-> IF pots[b].eligible = Reaching(hand, d)
                          THEN pots[b].amount ELSE 0], DOMAIN pots)
          = SumFunctionOnSet(f, Bounds(hand))
    BY <1>2 DEF SumOver
  <2> HIDE DEF f
  <2>4. {d} \in SUBSET Bounds(hand) /\ \A x \in {d} : f[x] \in Int
    BY <2>1
  <2>5. SumFunctionOnSet(f, Bounds(hand)) = SumFunctionOnSet(f, {d})
    BY <1>2, <2>2, <2>4, SumRestrict
  <2>6. SumFunctionOnSet(f, {d}) = f[d]
    <3>1. IsFiniteSet({d}) /\ {d} \ {d} = {}
      BY FS_Singleton
    <3>2. SumFunctionOnSet(f, {d}) = f[d] + SumFunctionOnSet(f, {})
      BY <2>4, <3>1, SumRemove
    <3>3. QED
      BY <2>1, <3>2, SumEmpty
  <2>7. QED
    BY <1>5, <2>1, <2>3, <2>5, <2>6
<1>8. \A b \in DOMAIN pots : pots[b].eligible \in {Contest(k) : k \in 1 .. Max(Commitments)}
  BY <1>2, <1>4
<1>9. ASSUME NEW ps \in {Contest(k) : k \in 1 .. Max(Commitments)}
      PROVE  ChipsContestedBy(ps) =
               SumOver([b \in DOMAIN pots |->
                          IF pots[b].eligible = ps THEN pots[b].amount ELSE 0],
                       DOMAIN pots)
  <2>1. PICK k \in 1 .. Max(Commitments) : ps = Contest(k)
    BY <1>9
  <2>2. PICK d \in Bounds(hand) : ps = Reaching(hand, d)
    BY <1>6, <2>1
  <2>3. QED
    BY <1>7, <2>2
<1>10. QED
  BY <1>8, <1>9 DEF pots

(* PotsMatchChips for every hand betting can leave: the pots agree chip by chip
   with who matched what, so no chip is orphaned, counted twice or put up for
   the wrong contenders. *)
THEOREM PotsAlwaysMatchChips == Spec => []PotsMatchChips
  BY AlwaysPaidByPots, PotsMatchChipsHolds, PTL

=============================================================================
