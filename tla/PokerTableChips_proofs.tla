----------------------- MODULE PokerTableChips_proofs -----------------------
(***************************************************************************)
(* Proofs about the chips: that the table implements TableEscrow, and what *)
(* follows from that; that a round ends matched and that who folded stays  *)
(* out; and, with the street, the clock and the records beside the table,  *)
(* the types of all of the state.                                          *)
(*                                                                         *)
(* The rules of a hand are first shown to be of one of two kinds: they     *)
(* move chips from a player's stack to her stake (Wagering), or they award *)
(* all the stakes less the rake (Awards).  The actions then follow from    *)
(* the rules, and each is an action of the escrow or a stutter, save at    *)
(* the two gaps named in KnownGaps.                                        *)
(***************************************************************************)
EXTENDS PokerTable_proofs, Pots_proofs

(* Every balance of a table is a number of chips, and who has no seat has none. *)
MoneyFields ==
  {"phase", "seats", "turn", "stack", "bet", "committed", "folded", "allIn", "pot",
   "sidePots", "rake", "jackpot"}
Money(s) ==
  /\ MoneyFields \subseteq DOMAIN s
  /\ s.seats \in Seq(Players)
  /\ s.stack \in Holdings /\ s.bet \in Holdings /\ s.committed \in Holdings
  /\ s.pot \in Nat /\ s.sidePots \in Nat /\ s.rake \in Nat /\ s.jackpot \in Nat
  /\ s.folded \subseteq Players /\ s.allIn \subseteq Players
  /\ \A p \in Players \ Seated(s) :
       s.stack[p] = 0 /\ s.bet[p] = 0 /\ s.committed[p] = 0

(* A rule by which everybody keeps what she has behind and in the hand together,
   and takes nothing back that she has put in. *)
Wagering(s, r) ==
  /\ Money(r)
  /\ r.seats = s.seats /\ r.rake = s.rake /\ r.jackpot = s.jackpot
  /\ \A p \in Players : /\ r.committed[p] >= s.committed[p]
                        /\ r.stack[p] + r.committed[p] = s.stack[p] + s.committed[p]

LEMMA WageringChains ==
  ASSUME NEW s, NEW r, NEW q, Money(s), Wagering(s, r), Wagering(r, q)
  PROVE  Wagering(s, q)
<1>1. ASSUME NEW p \in Players
      PROVE  /\ q.committed[p] >= s.committed[p]
             /\ q.stack[p] + q.committed[p] = s.stack[p] + s.committed[p]
  <2>1. /\ r.committed[p] >= s.committed[p] /\ q.committed[p] >= r.committed[p]
        /\ r.stack[p] + r.committed[p] = s.stack[p] + s.committed[p]
        /\ q.stack[p] + q.committed[p] = r.stack[p] + r.committed[p]
    BY <1>1 DEF Wagering
  <2>2. s.committed[p] \in Nat /\ r.committed[p] \in Nat /\ q.committed[p] \in Nat
    BY <1>1 DEF Wagering, Money, Holdings
  <2>3. QED
    BY <2>1, <2>2
<1>2. QED
  BY <1>1 DEF Wagering

(* Rules that move the turn, the street and the clock but no chips. *)
SameChips(s, r) ==
  /\ DOMAIN r = DOMAIN s
  /\ r.seats = s.seats /\ r.stack = s.stack /\ r.bet = s.bet
  /\ r.committed = s.committed /\ r.folded = s.folded /\ r.allIn = s.allIn
  /\ r.pot = s.pot /\ r.sidePots = s.sidePots /\ r.rake = s.rake
  /\ r.jackpot = s.jackpot

LEMMA SameChipsWagers ==
  ASSUME NEW s, NEW r, Money(s), SameChips(s, r)
  PROVE  Wagering(s, r)
<1>1. Money(r)
  BY DEF Money, SameChips, Seated
<1>2. QED
  BY <1>1 DEF Wagering, SameChips, Money, Holdings

LEMMA PutInWagers ==
  ASSUME NEW s, Money(s), NEW p \in Seated(s), NEW a \in Nat, a <= s.stack[p]
  PROVE  /\ Wagering(s, PutIn(s, p, a)) /\ DOMAIN PutIn(s, p, a) = DOMAIN s
         /\ PutIn(s, p, a).bet = [s.bet EXCEPT ![p] = @ + a]
         /\ PutIn(s, p, a).folded = s.folded /\ PutIn(s, p, a).allIn = s.allIn
<1> DEFINE r == PutIn(s, p, a)
<1>1. p \in Players
  BY SeatedArePlayers DEF Money
<1>2. /\ DOMAIN r = DOMAIN s
      /\ r.stack = [s.stack EXCEPT ![p] = @ - a]
      /\ r.bet = [s.bet EXCEPT ![p] = @ + a]
      /\ r.committed = [s.committed EXCEPT ![p] = @ + a]
      /\ r.pot = s.pot + a /\ r.seats = s.seats /\ r.sidePots = s.sidePots
      /\ r.rake = s.rake /\ r.jackpot = s.jackpot
      /\ r.folded = s.folded /\ r.allIn = s.allIn
  BY DEF Money, MoneyFields, PutIn
<1> HIDE DEF r
<1>3. /\ s.stack \in [Players -> Nat] /\ s.bet \in [Players -> Nat]
      /\ s.committed \in [Players -> Nat] /\ s.pot \in Nat
  BY DEF Money, Holdings
<1>4. /\ r.stack \in [Players -> Nat] /\ r.bet \in [Players -> Nat]
      /\ r.committed \in [Players -> Nat] /\ r.pot \in Nat
  BY <1>1, <1>2, <1>3
<1>5. ASSUME NEW q \in Players \ Seated(s)
      PROVE  r.stack[q] = 0 /\ r.bet[q] = 0 /\ r.committed[q] = 0
  BY <1>2, <1>3, <1>5 DEF Money
<1>6. Money(r)
  BY <1>2, <1>4, <1>5 DEF Money, Holdings, Seated
<1>7. ASSUME NEW q \in Players
      PROVE  /\ r.committed[q] >= s.committed[q]
             /\ r.stack[q] + r.committed[q] = s.stack[q] + s.committed[q]
  BY <1>1, <1>2, <1>3, <1>7
<1>8. QED
  BY <1>2, <1>6, <1>7 DEF Wagering, r

LEMMA MarkedWagers ==
  ASSUME NEW s, NEW w, Wagering(s, w), NEW x, NEW y, NEW p \in Players
  PROVE  /\ Wagering(s, [w EXCEPT !.allIn = @ \cup {p}])
         /\ Wagering(s, [w EXCEPT !.lastRaise = x])
         /\ Wagering(s, [w EXCEPT !.straddler = x])
         /\ Wagering(s, [w EXCEPT !.turn = x])
         /\ Wagering(s, [w EXCEPT !.idle = x, !.deadline = y])
         /\ Wagering(s, [w EXCEPT !.folded = @ \cup {p}])
<1> USE DEF Wagering, Money, MoneyFields, Seated
<1>1. Wagering(s, [w EXCEPT !.allIn = @ \cup {p}])
  OBVIOUS
<1>2. Wagering(s, [w EXCEPT !.lastRaise = x])
  OBVIOUS
<1>3. Wagering(s, [w EXCEPT !.straddler = x])
  OBVIOUS
<1>4. Wagering(s, [w EXCEPT !.turn = x])
  OBVIOUS
<1>5. Wagering(s, [w EXCEPT !.idle = x, !.deadline = y])
  OBVIOUS
<1>6. Wagering(s, [w EXCEPT !.folded = @ \cup {p}])
  OBVIOUS
<1>7. QED
  BY <1>1, <1>2, <1>3, <1>4, <1>5, <1>6
LEMMA AtIsSeated ==
  ASSUME NEW s, s.seats \in Seq(Players), NEW k \in 0 .. SeatCount(s) - 1
  PROVE  At(s, k) \in Seated(s)
<1>1. k + 1 \in DOMAIN s.seats
  BY DEF SeatCount
<1>2. QED
  BY <1>1 DEF At, Seated, Range

(* A bet, a call, a raise: chips of one player, all-in if they were her last. *)
LEMMA WageredWagers ==
  ASSUME NEW s, Money(s), NEW p \in Seated(s), NEW a \in Nat, a <= s.stack[p]
  PROVE  /\ Wagering(s, Wagered(s, p, a))
         /\ Wagered(s, p, a).bet = [s.bet EXCEPT ![p] = @ + a]
         /\ Wagered(s, p, a).folded = s.folded
<1> DEFINE w == PutIn(s, p, a)
<1>1. p \in Players
  BY SeatedArePlayers DEF Money
<1>2. /\ Wagering(s, w) /\ DOMAIN w = DOMAIN s
      /\ w.bet = [s.bet EXCEPT ![p] = @ + a] /\ w.folded = s.folded
  BY PutInWagers
<1>3. Wagered(s, p, a) = w \/ Wagered(s, p, a) = [w EXCEPT !.allIn = @ \cup {p}]
  BY DEF Wagered
<1> HIDE DEF w
<1>4. Wagering(s, [w EXCEPT !.allIn = @ \cup {p}])
  BY <1>1, <1>2, MarkedWagers
<1>5. /\ [w EXCEPT !.allIn = @ \cup {p}].bet = w.bet
      /\ [w EXCEPT !.allIn = @ \cup {p}].folded = w.folded
  BY <1>2 DEF Money, MoneyFields
<1>6. QED
  BY <1>2, <1>3, <1>4, <1>5

LEMMA PostBlindWagers ==
  ASSUME NEW s, Money(s), NEW k \in 0 .. SeatCount(s) - 1, NEW a \in Nat
  PROVE  Wagering(s, PostBlind(s, k, a))
<1> DEFINE p == At(s, k)
           c == s.stack[p]
           w == PutIn(s, p, c)
<1>1. p \in Seated(s) /\ p \in Players
  BY AtIsSeated, SeatedArePlayers DEF Money
<1>2. c \in Nat /\ c <= s.stack[p]
  BY <1>1 DEF Money, Holdings
<1> HIDE DEF p, c
<1>3. \A d \in Nat : d <= s.stack[p] => Wagering(s, PutIn(s, p, d))
  BY <1>1, PutInWagers
<1>4. Wagering(s, w)
  BY <1>2, <1>3
<1> HIDE DEF w
<1>5. Wagering(s, [w EXCEPT !.allIn = @ \cup {p}])
  BY <1>1, <1>4, MarkedWagers
<1>6. ~ (c < a) => Wagering(s, PutIn(s, p, a))
  BY <1>2, <1>3 DEF c
<1>7. QED
  BY <1>5, <1>6 DEF PostBlind, p, c, w

LEMMA PostAntesWagers ==
  ASSUME NEW s, Money(s) PROVE Wagering(s, PostAntes(s))
<1> DEFINE anted(p) == IF p \in Funded(s) THEN Min({Ante, s.stack[p]}) ELSE 0
           antes == [p \in Players |-> anted(p)]
           r == PostAntes(s)
<1>1. /\ s.stack \in [Players -> Nat] /\ s.bet \in [Players -> Nat]
      /\ s.committed \in [Players -> Nat] /\ s.pot \in Nat
  BY DEF Money, Holdings
<1>2. \A p \in Players : antes[p] \in Nat /\ antes[p] <= s.stack[p]
  <2>1. ASSUME NEW p \in Players PROVE anted(p) \in Nat /\ anted(p) <= s.stack[p]
    <3>1. s.stack[p] \in Nat /\ Ante \in Nat
      BY <1>1, BlindsAssumption
    <3>2. Min({Ante, s.stack[p]}) = IF Ante <= s.stack[p] THEN Ante ELSE s.stack[p]
      BY <3>1, MinTwo
    <3>3. QED
      BY <3>1, <3>2
  <2> HIDE DEF anted
  <2>2. QED
    BY <2>1
<1>3. /\ r.stack = [p \in Players |-> s.stack[p] - antes[p]]
      /\ r.committed = [p \in Players |-> s.committed[p] + antes[p]]
      /\ r.pot = s.pot + SumOver(antes, Players)
      /\ r.allIn = s.allIn \cup {p \in Funded(s) : s.stack[p] < Ante}
      /\ r.seats = s.seats /\ r.bet = s.bet /\ r.folded = s.folded
      /\ r.sidePots = s.sidePots /\ r.rake = s.rake /\ r.jackpot = s.jackpot
      /\ DOMAIN r = DOMAIN s
  BY DEF PostAntes, Money, MoneyFields
<1> HIDE DEF r, antes
<1>4. SumOver(antes, Players) \in Nat
  BY <1>2, TableAssumption, SumNat DEF SumOver
<1>5. /\ r.stack \in [Players -> Nat] /\ r.committed \in [Players -> Nat]
      /\ r.pot \in Nat
  BY <1>1, <1>2, <1>3, <1>4
<1>6. ASSUME NEW q \in Players \ Seated(s)
      PROVE  r.stack[q] = 0 /\ r.bet[q] = 0 /\ r.committed[q] = 0
  <2>1. s.stack[q] = 0 /\ s.bet[q] = 0 /\ s.committed[q] = 0
    BY <1>6 DEF Money
  <2>2. antes[q] = 0
    BY <1>2, <2>1
  <2>3. QED
    BY <1>3, <2>1, <2>2
<1>7. r.allIn \subseteq Players
  BY <1>3, SeatedArePlayers DEF Money, Funded
<1>8. Money(r)
  BY <1>1, <1>3, <1>5, <1>6, <1>7 DEF Money, Holdings, Seated
<1>9. ASSUME NEW q \in Players
      PROVE  /\ r.committed[q] >= s.committed[q]
             /\ r.stack[q] + r.committed[q] = s.stack[q] + s.committed[q]
  BY <1>1, <1>2, <1>3, <1>9
<1>10. Wagering(s, r)
  BY <1>3, <1>8, <1>9 DEF Wagering
<1>11. QED
  BY <1>10 DEF r

LEMMA StraddleAmountNat == StraddleAmount \in Nat
<1> DEFINE m == Max({0, Straddle.multiplier - 1})
           raw == IF Straddle.position = "BigBlind" THEN BigBlind * m
                  ELSE BigBlind * Straddle.multiplier
<1>1. m \in Nat
  BY StraddleAssumption, MaxTwo
<1>2. raw \in Nat
  <2> HIDE DEF m
  <2>1. BigBlind \in Nat /\ Straddle.multiplier \in Nat
    BY BlindsAssumption, StraddleAssumption
  <2>2. \A a, b \in Nat : a * b \in Nat
    OBVIOUS
  <2>3. BigBlind * m \in Nat /\ BigBlind * Straddle.multiplier \in Nat
    BY <1>1, <2>1, <2>2
  <2>4. QED
    BY <2>3
<1>3. Min({raw, Straddle.cap}) \in Nat
  <2> HIDE DEF raw
  <2>1. QED
    BY <1>2, StraddleAssumption, MinTwo
<1>4. QED
  BY <1>2, <1>3 DEF StraddleAmount

(* The antes, the blinds and the straddle come from those who post them. *)
LEMMA StartNewHandWagers ==
  ASSUME NEW s, Money(s), Seating(s), NEW v \in Int, v >= NoSeat,
         NEW r, r \in StartNewHand(s, v)
  PROVE  /\ Money(r) /\ r.seats = s.seats /\ r.rake = s.rake /\ r.jackpot = s.jackpot
         /\ \A p \in Players : r.stack[p] + r.committed[p] = s.stack[p]
<1> DEFINE t0 == [s EXCEPT
              !.hand = @ + 1, !.dealer = NextActiveSeat(s, s.dealer),
              !.folded = {}, !.allIn = {}, !.bet = NoChips, !.committed = NoChips,
              !.board = 0, !.rit = "none", !.sidePots = 0,
              !.lastRaise = BigBlind, !.phase = "Dealing",
              !.idle = 0, !.deadline = NoDeadline, !.settledFor = 0]
           t1 == PostAntes(t0)
           n  == SeatCount(t1)
           sb == IF Cardinality(Funded(t1)) = 2 THEN t1.dealer
                 ELSE NextActiveSeat(t1, t1.dealer)
           bb == NextActiveSeat(t1, sb)
           tS == PostBlind(t1, sb, SmallBlind)
           t2 == PostBlind(tS, bb, BigBlind)
           st == StraddleSeat(t1, bb, v)
           tT == PostBlind(t2, st, StraddleAmount)
<1>1. /\ Funded(s) # {}
      /\ ~ (Cardinality(Funded(t1)) < 2) /\ ~ (st >= SeatCount(t1))
      /\ r = IF st = NoSeat THEN [t2 EXCEPT !.straddler = NoSeat]
             ELSE [tT EXCEPT !.straddler = st]
  BY DEF StartNewHand
<1>2. s.seats \in Seq(Players) /\ s.dealer \in Int
  BY DEF Seating, PointsAt
<1>3. NextActiveSeat(s, s.dealer) \in 0 .. SeatCount(s) - 1
  BY <1>1, <1>2, NextActiveIsSeat
<1>4. /\ t0.dealer \in 0 .. SeatCount(s) - 1 /\ t0.pot = s.pot /\ t0.sidePots = 0
      /\ t0.committed = NoChips /\ t0.bet = NoChips /\ t0.stack = s.stack
      /\ t0.folded = {} /\ t0.allIn = {} /\ t0.rake = s.rake
      /\ t0.jackpot = s.jackpot /\ t0.seats = s.seats /\ DOMAIN t0 = DOMAIN s
  BY <1>3 DEF Seating, Money, MoneyFields
<1> HIDE DEF t0
<1>5. Money(t0) /\ Fields \subseteq DOMAIN t0
  <2>1. NoChips \in [Players -> Nat] /\ \A p \in Players : NoChips[p] = 0
    BY DEF NoChips
  <2>2. QED
    BY <1>4, <2>1 DEF Money, Holdings, Seated, Seating, Fields
<1>6. Wagering(t0, t1) /\ Aside(t0, t1)
  BY <1>5, PostAntesWagers, PostAntesAside
<1> HIDE DEF t1
<1>7. /\ Money(t1) /\ t1.seats = s.seats /\ t1.seats \in Seq(Players)
      /\ t1.dealer = t0.dealer /\ Fields \subseteq DOMAIN t1
  BY <1>2, <1>4, <1>5, <1>6 DEF Aside, SameSeats, Wagering
<1>8. n \in Nat \ {0} /\ t1.dealer \in 0 .. n - 1 /\ n = SeatCount(s)
  <2>1. n = SeatCount(s) /\ n \in Nat
    BY <1>7 DEF SeatCount
  <2> HIDE DEF n
  <2>2. QED
    BY <1>4, <1>7, <2>1
<1>9. Funded(t1) # {}
  BY <1>1, FS_EmptySet
<1>10. sb \in 0 .. n - 1
  <2>1. t1.dealer \in Int
    BY <1>8
  <2>2. NextActiveSeat(t1, t1.dealer) \in 0 .. n - 1
    BY <1>7, <1>9, <2>1, NextActiveIsSeat
  <2>3. QED
    BY <1>8, <2>2
<1>11. bb \in 0 .. n - 1
  <2> HIDE DEF sb
  <2>1. QED
    BY <1>7, <1>8, <1>9, <1>10, NextActiveIsSeat
<1> HIDE DEF sb, bb
<1>12. st \in Int /\ st >= NoSeat
  BY <1>8, <1>11, StraddleSeatInt
<1>13. SmallBlind \in Nat /\ BigBlind \in Nat
  BY BlindsAssumption
<1>14. Wagering(t1, tS) /\ Money(tS) /\ tS.seats = t1.seats
  BY <1>7, <1>8, <1>10, <1>13, PostBlindWagers DEF Wagering
<1> HIDE DEF tS
<1>15. Wagering(tS, t2) /\ Money(t2) /\ t2.seats = t1.seats
  <2>1. bb \in 0 .. SeatCount(tS) - 1
    BY <1>11, <1>14 DEF SeatCount
  <2>2. Wagering(tS, t2)
    BY <1>13, <1>14, <2>1, PostBlindWagers
  <2>3. QED
    BY <1>14, <2>2 DEF Wagering
<1> HIDE DEF t2
<1>16. st # NoSeat => Wagering(t2, tT)
  <2>1. SUFFICES ASSUME st # NoSeat PROVE Wagering(t2, tT)
    OBVIOUS
  <2>2. st \in 0 .. n - 1
    <3> HIDE DEF st
    <3>1. n \in Nat /\ ~ (st >= n)
      BY <1>1, <1>8
    <3> HIDE DEF n
    <3>2. QED
      BY <1>12, <2>1, <3>1 DEF NoSeat
  <2>3. st \in 0 .. SeatCount(t2) - 1
    BY <1>15, <2>2 DEF SeatCount
  <2>4. QED
    BY <1>15, <2>3, StraddleAmountNat, PostBlindWagers
<1> HIDE DEF st, tT
<1>17. Wagering(t0, t2)
  <2>1. Wagering(t0, tS)
    BY <1>5, <1>6, <1>14, WageringChains
  <2>2. QED
    BY <1>5, <2>1, <1>15, WageringChains
<1>18. st # NoSeat => Wagering(t0, tT)
  BY <1>5, <1>16, <1>17, WageringChains
<1>19. \A y : Wagering(t0, [t2 EXCEPT !.straddler = y])
  <2>1. CASE Players = {}
    BY <1>8, <1>2, <2>1 DEF SeatCount
  <2>2. QED
    BY <1>17, MarkedWagers, <2>1
<1>20. st # NoSeat => \A y : Wagering(t0, [tT EXCEPT !.straddler = y])
  <2>1. CASE Players = {}
    BY <1>8, <1>2, <2>1 DEF SeatCount
  <2>2. QED
    BY <1>18, MarkedWagers, <2>1
<1>21. Wagering(t0, r)
  BY <1>1, <1>19, <1>20
<1>22. ASSUME NEW p \in Players PROVE r.stack[p] + r.committed[p] = s.stack[p]
  <2>1. r.stack[p] + r.committed[p] = s.stack[p] + 0
    BY <1>4, <1>21, <1>22 DEF Wagering, NoChips
  <2>2. s.stack[p] \in Nat
    BY <1>22 DEF Money, Holdings
  <2>3. QED
    BY <2>1, <2>2
<1>23. QED
  BY <1>4, <1>21, <1>22 DEF Wagering

(* The bet to match. *)
LEMMA CurrentBetIs ==
  ASSUME NEW s, Money(s)
  PROVE  /\ CurrentBet(s) \in Nat
         /\ \A p \in Seated(s) : s.bet[p] <= CurrentBet(s)
         /\ CurrentBet(s) # 0 => \E p \in Seated(s) : CurrentBet(s) = s.bet[p]
<1> DEFINE A == {s.bet[p] : p \in Seated(s)}
<1>1. Seated(s) \subseteq Players /\ IsFiniteSet(Seated(s))
  BY SeatedArePlayers DEF Money
<1>2. IsFiniteSet(A)
  BY <1>1, ImageFinite
<1>3. A \subseteq Nat
  BY <1>1 DEF Money, Holdings
<1>4. CurrentBet(s) = Highest(A)
  BY DEF CurrentBet, Highest
<1>5. /\ Highest(A) \in {0} \cup A /\ Highest(A) \in Nat
      /\ \A x \in A : x <= Highest(A)
  <2> HIDE DEF A
  <2>1. QED
    BY <1>2, <1>3, HighestIs
<1>6. QED
  BY <1>4, <1>5

(* Everybody who may still bet has matched the highest bet. *)
Matched(s) == \A p \in CanAct(s) : s.bet[p] = CurrentBet(s)

(* A step of a hand that goes on: chips are only wagered, nobody who folded is
   back, and a round that is over is matched. *)
Continues(s, r) ==
  /\ Wagering(s, r) /\ s.folded \subseteq r.folded
  /\ s.phase \in BettingPhases /\ r.phase \notin BettingPhases => Matched(r)

LEMMA SameChipsMatched ==
  ASSUME NEW s, NEW r, SameChips(s, r), Matched(s) PROVE Matched(r)
<1>1. CanAct(r) = CanAct(s) /\ CurrentBet(r) = CurrentBet(s)
  BY DEF SameChips, CanAct, Live, Seated, CurrentBet
<1>2. QED
  BY <1>1 DEF SameChips, Matched

(* The end of a contested round moves no chips. *)
LEMMA AdvanceToNextPhaseChips ==
  ASSUME NEW s, Money(s), Cardinality(Live(s)) # 1
  PROVE  SameChips(s, AdvanceToNextPhase(s))
BY DEF AdvanceToNextPhase, SameChips, Money, MoneyFields

LEMMA AdvanceTurnChips ==
  ASSUME NEW s, Money(s), Cardinality(Live(s)) # 1, NEW m
  PROVE  /\ SameChips(s, AdvanceTurn(s, m))
         /\ AdvanceTurn(s, m).phase # s.phase => \A p \in CanAct(s) : s.bet[p] = m
<1> DEFINE ends == \A p \in CanAct(s) : s.bet[p] = m
           u == [s EXCEPT !.turn = Clockwise(s, SeatAfter(s, @), CanAct(s))]
<1>1. AdvanceTurn(s, m) = IF ends THEN AdvanceToNextPhase(s) ELSE u
  BY DEF AdvanceTurn
<1>2. SameChips(s, u) /\ u.phase = s.phase
  BY DEF SameChips, Money, MoneyFields
<1>3. SameChips(s, AdvanceToNextPhase(s))
  BY AdvanceToNextPhaseChips
<1> HIDE DEF u, ends
<1>4. QED
  BY <1>1, <1>2, <1>3 DEF ends

(* What the round has to match after an action is the highest bet. *)
LEMMA ActedBet ==
  ASSUME NEW s, Money(s), NEW w, Money(w), w.seats = s.seats, NEW p \in Seated(s),
         w.bet = [s.bet EXCEPT ![p] = w.bet[p]], w.bet[p] >= s.bet[p]
  PROVE  Max({CurrentBet(s), w.bet[p]}) = CurrentBet(w)
<1> DEFINE C == CurrentBet(s)
           D == CurrentBet(w)
<1>1. Seated(w) = Seated(s) /\ p \in Players /\ Seated(s) \subseteq Players
  BY SeatedArePlayers DEF Seated, Money
<1>2. /\ C \in Nat /\ \A q \in Seated(s) : s.bet[q] <= C
      /\ C # 0 => \E q \in Seated(s) : C = s.bet[q]
  BY CurrentBetIs
<1>3. /\ D \in Nat /\ \A q \in Seated(s) : w.bet[q] <= D
      /\ D # 0 => \E q \in Seated(s) : D = w.bet[q]
  BY <1>1, CurrentBetIs
<1>4. \A q \in Seated(s) : /\ s.bet[q] \in Nat /\ w.bet[q] \in Nat
                           /\ w.bet[q] = IF q = p THEN w.bet[p] ELSE s.bet[q]
  BY <1>1 DEF Money, Holdings
<1> HIDE DEF C, D
<1>5. Max({C, w.bet[p]}) = IF C >= w.bet[p] THEN C ELSE w.bet[p]
  BY <1>2, <1>4, MaxTwo
<1>6. D >= w.bet[p]
  BY <1>3
<1>7. D >= C
  BY <1>2, <1>3, <1>4
<1>8. D = 0 \/ D = w.bet[p] \/ D <= C
  BY <1>2, <1>3, <1>4
<1>9. D = IF C >= w.bet[p] THEN C ELSE w.bet[p]
  BY <1>2, <1>3, <1>4, <1>6, <1>7, <1>8
<1>10. QED
  BY <1>5, <1>9 DEF C, D

LEMMA ActedContinues ==
  ASSUME NEW s, Money(s), s.phase \in BettingPhases, NEW p \in Seated(s),
         NEW w, Seating(w), Contested(w), Wagering(s, w), w.phase = s.phase,
         s.folded \subseteq w.folded,
         w.bet = [s.bet EXCEPT ![p] = w.bet[p]], w.bet[p] >= s.bet[p]
  PROVE  Continues(s, Acted(s, w, p))
<1> DEFINE u == [w EXCEPT !.idle = 0, !.deadline = Timeout]
           m == Max({CurrentBet(s), w.bet[p]})
           r == AdvanceTurn(u, m)
<1>1. Money(w) /\ w.seats = s.seats
  BY DEF Wagering
<1>2. SameChips(w, u) /\ u.phase = w.phase
  BY <1>1 DEF SameChips, Money, MoneyFields
<1> HIDE DEF u
<1>3. Wagering(w, u) /\ Money(u)
  BY <1>1, <1>2, SameChipsWagers DEF Wagering
<1>4. Cardinality(Live(u)) # 1
  <2>1. Live(u) = Live(w)
    BY <1>2 DEF SameChips, Live, Seated
  <2>2. QED
    BY <2>1, ContestedSeats
<1>5. SameChips(u, r) /\ (r.phase # u.phase => \A q \in CanAct(u) : u.bet[q] = m)
  BY <1>3, <1>4, AdvanceTurnChips
<1>6. m = CurrentBet(u)
  <2>1. m = CurrentBet(w)
    BY <1>1, ActedBet
  <2>2. CurrentBet(u) = CurrentBet(w)
    BY <1>2 DEF SameChips, CurrentBet, Seated
  <2>3. QED
    BY <2>1, <2>2
<1> HIDE DEF m, r
<1>7. r.phase # u.phase => Matched(r)
  BY <1>5, <1>6, SameChipsMatched DEF Matched
<1>8. Wagering(s, r)
  <2>1. Wagering(u, r)
    BY <1>3, <1>5, SameChipsWagers
  <2>2. Wagering(s, u)
    BY <1>3, WageringChains
  <2>3. QED
    BY <2>1, <2>2, WageringChains
<1>9. Continues(s, r)
  BY <1>2, <1>5, <1>7, <1>8 DEF Continues, SameChips
<1>10. QED
  BY <1>9 DEF Acted, r, m, u

(* A settlement: nobody loses a chip she has behind, the house and the jackpot
   together get no more than the rake of what was put in, and nothing is lost. *)
Awards(s, r) ==
  /\ Money(r) /\ r.seats = s.seats /\ r.phase = "Settlement"
  /\ \A p \in Players : r.stack[p] >= s.stack[p]
  /\ r.rake >= s.rake
  /\ (r.rake + r.jackpot) - (s.rake + s.jackpot)
       <= (SumOver(s.committed, Players) * RakeBps) \div 10000
  /\ SumOver(r.stack, Players) + r.rake + r.jackpot
       = SumOver(s.stack, Players) + SumOver(s.committed, Players) + s.rake + s.jackpot

(* Nothing of it goes to who has folded, unless the bad-beat pool is paid. *)
NotToFolded(s, r) ==
  \A p \in r.folded : r.stack[p] > s.stack[p] => r.jackpot = 0

LEMMA HoldingsSums ==
  ASSUME NEW s, Money(s)
  PROVE  /\ SumOver(s.stack, Players) \in Nat /\ SumOver(s.committed, Players) \in Nat
BY TableAssumption, SumNat DEF SumOver, Money, Holdings

LEMMA RakeShare ==
  ASSUME NEW a \in Nat
  PROVE  /\ (a * RakeBps) \div 10000 \in Nat /\ (a * RakeBps) \div 10000 <= a
         /\ a = 0 => (a * RakeBps) \div 10000 = 0
<1>1. RakeBps \in Nat /\ RakeBps <= 10000
  BY SharesAssumption
<1>2. (a * RakeBps) \div 10000 \in 0 .. a
  BY <1>1, PartOf
<1> DEFINE x == (a * RakeBps) \div 10000
<1>3. x \in 0 .. a
  BY <1>2
<1> HIDE DEF x
<1>4. x \in Nat /\ x <= a /\ (a = 0 => x = 0)
  BY <1>3
<1>5. QED
  BY <1>4 DEF x

(* The pot of a fold goes to the one who is left, less the rake. *)
LEMMA SettleFoldWinAwards ==
  ASSUME NEW s, Money(s), Cardinality(Live(s)) = 1,
         s.pot = SumOver(s.committed, Players)
  PROVE  /\ Awards(s, SettleFoldWin(s)) /\ NotToFolded(s, SettleFoldWin(s))
         /\ SettleFoldWin(s).jackpot = s.jackpot
         /\ s.pot = 0 => /\ SettleFoldWin(s).stack = s.stack
                         /\ SettleFoldWin(s).rake = s.rake
<1> DEFINE winner == CHOOSE p \in Live(s) : TRUE
           rake   == (s.pot * RakeBps) \div 10000
           prize  == s.pot - rake
           r      == SettleFoldWin(s)
<1>1. winner \in Live(s)
  <2>1. Live(s) # {}
    BY FS_EmptySet
  <2>2. QED
    BY <2>1
<1>2. /\ DOMAIN r = DOMAIN s /\ r.phase = "Settlement" /\ r.pot = 0
      /\ r.stack = [s.stack EXCEPT ![winner] = @ + prize]
      /\ r.rake = s.rake + rake /\ r.jackpot = s.jackpot /\ r.seats = s.seats
      /\ r.bet = s.bet /\ r.committed = s.committed /\ r.folded = s.folded
      /\ r.allIn = s.allIn /\ r.sidePots = s.sidePots
  <2> HIDE DEF winner, rake
  <2>1. r = Settled([Credit(s, winner, prize) EXCEPT !.rake = @ + rake])
    BY DEF SettleFoldWin, winner, rake
  <2> HIDE DEF r, prize
  <2>2. QED
    BY <2>1 DEF Settled, Credit, Money, MoneyFields
<1>3. rake \in Nat /\ rake <= s.pot /\ (s.pot = 0 => rake = 0) /\ s.pot \in Nat
  BY RakeShare DEF Money
<1>4. rake = (SumOver(s.committed, Players) * RakeBps) \div 10000
  OBVIOUS
<1> HIDE DEF winner, rake, r
<1>5. prize \in Nat /\ prize = s.pot - rake /\ (s.pot = 0 => prize = 0)
  BY <1>3
<1> HIDE DEF prize
<1>6. winner \in Players /\ winner \in Seated(s) /\ winner \notin s.folded
  BY <1>1, SeatedArePlayers DEF Money, Live
<1>7. s.stack \in [Players -> Nat] /\ s.rake \in Nat /\ s.jackpot \in Nat
  BY DEF Money, Holdings
<1>8. r.stack \in [Players -> Nat] /\ r.rake \in Nat
  BY <1>2, <1>3, <1>5, <1>6, <1>7
<1>9. Money(r)
  <2>1. \A p \in Players \ Seated(s) : r.stack[p] = s.stack[p]
    BY <1>2, <1>6, <1>7
  <2>2. QED
    BY <1>2, <1>8, <2>1 DEF Money, Holdings, Seated
<1>10. \A p \in Players : /\ s.stack[p] \in Nat /\ r.stack[p] \in Nat
                          /\ r.stack[p] = IF p = winner THEN s.stack[p] + prize
                                          ELSE s.stack[p]
  BY <1>2, <1>7, <1>8
<1>11. SumOver(r.stack, Players) = SumOver(s.stack, Players) + prize
  <2>1. SumOver(r.stack, Players)
          = SumOver(s.stack, Players) - s.stack[winner] + r.stack[winner]
    BY <1>6, <1>10, TableAssumption, SumChange DEF SumOver
  <2>2. SumOver(s.stack, Players) \in Nat
    BY HoldingsSums
  <2>3. QED
    BY <1>5, <1>6, <1>10, <2>1, <2>2
<1>12. Awards(s, r)
  <2> DEFINE S == SumOver(s.stack, Players)
             T == SumOver(r.stack, Players)
             C == SumOver(s.committed, Players)
  <2>1. S \in Nat /\ C \in Nat
    BY HoldingsSums
  <2>2. T = S + prize /\ C = s.pot
    BY <1>11
  <2>3. (r.rake + r.jackpot) - (s.rake + s.jackpot) = rake
    BY <1>2, <1>3, <1>7
  <2> HIDE DEF S, T, C
  <2>4. T + r.rake + r.jackpot = S + C + s.rake + s.jackpot
    BY <1>2, <1>3, <1>5, <1>7, <2>1, <2>2
  <2>5. r.rake >= s.rake
    BY <1>2, <1>3, <1>7
  <2>6. \A p \in Players : r.stack[p] >= s.stack[p]
    BY <1>5, <1>10
  <2>7. rake <= rake
    BY <1>3
  <2>8. QED
    BY <1>2, <1>4, <1>9, <2>3, <2>4, <2>5, <2>6, <2>7 DEF Awards, S, T, C
<1>13. NotToFolded(s, r)
  <2>1. ASSUME NEW p \in r.folded PROVE ~ (r.stack[p] > s.stack[p])
    <3>1. p \in Players /\ p # winner
      BY <1>2, <1>6, <2>1 DEF Money
    <3>2. QED
      BY <1>10, <3>1
  <2>2. QED
    BY <2>1 DEF NotToFolded
<1>14. s.pot = 0 => r.stack = s.stack /\ r.rake = s.rake
  BY <1>2, <1>3, <1>5, <1>7
<1>15. QED
  BY <1>2, <1>12, <1>13, <1>14 DEF r

(* A hand that ends by a fold, or goes on. *)
FoldEnds(s, r) ==
  /\ Awards(s, r) /\ NotToFolded(s, r) /\ r.jackpot = s.jackpot
  /\ s.pot = 0 => r.stack = s.stack /\ r.rake = s.rake
GoesOn(s, r) == HandLive(r) /\ Continues(s, r)

(* One more player folds, and only one is left. *)
LEMMA FoldToOne ==
  ASSUME NEW s, Money(s), PotInStep(s), HandLive(s), NEW p \in Players,
         NEW f, f = [s EXCEPT !.folded = @ \cup {p}], Cardinality(Live(f)) = 1
  PROVE  FoldEnds(s, SettleFoldWin(f))
<1>1. /\ Money(f) /\ f.stack = s.stack /\ f.committed = s.committed /\ f.pot = s.pot
      /\ f.rake = s.rake /\ f.jackpot = s.jackpot /\ f.seats = s.seats
  BY DEF Money, MoneyFields, Seated
<1>2. f.pot = SumOver(f.committed, Players)
  BY <1>1 DEF PotInStep
<1>3. /\ Awards(f, SettleFoldWin(f)) /\ NotToFolded(f, SettleFoldWin(f))
      /\ SettleFoldWin(f).jackpot = f.jackpot
      /\ f.pot = 0 => /\ SettleFoldWin(f).stack = f.stack
                      /\ SettleFoldWin(f).rake = f.rake
  BY <1>1, <1>2, SettleFoldWinAwards
<1> DEFINE r == SettleFoldWin(f)
<1> HIDE DEF r
<1>4. Awards(s, r)
  <2>1. Awards(f, r)
    BY <1>3 DEF r
  <2>2. /\ Money(r) /\ r.seats = f.seats /\ r.phase = "Settlement"
        /\ \A q \in Players : r.stack[q] >= f.stack[q]
        /\ r.rake >= f.rake
    BY <2>1 DEF Awards
  <2>3. /\ (r.rake + r.jackpot) - (f.rake + f.jackpot)
             <= (SumOver(f.committed, Players) * RakeBps) \div 10000
        /\ SumOver(r.stack, Players) + r.rake + r.jackpot
             = SumOver(f.stack, Players) + SumOver(f.committed, Players)
                 + f.rake + f.jackpot
    BY <2>1 DEF Awards
  <2>4. /\ (r.rake + r.jackpot) - (s.rake + s.jackpot)
             <= (SumOver(s.committed, Players) * RakeBps) \div 10000
        /\ SumOver(r.stack, Players) + r.rake + r.jackpot
             = SumOver(s.stack, Players) + SumOver(s.committed, Players)
                 + s.rake + s.jackpot
    <3>1. /\ f.stack = s.stack /\ f.committed = s.committed
          /\ f.rake = s.rake /\ f.jackpot = s.jackpot
      BY <1>1
    <3>2. QED
      BY  <2>3, <3>1
  <2>5. QED
    BY <1>1, <2>2, <2>4 DEF Awards
<1>5. NotToFolded(s, r)
  BY <1>1, <1>3 DEF NotToFolded, r
<1>6. r.jackpot = s.jackpot /\ (s.pot = 0 => r.stack = s.stack /\ r.rake = s.rake)
  BY <1>1, <1>3 DEF r
<1>7. QED
  BY <1>4, <1>5, <1>6 DEF FoldEnds, r

(* Betting actions: no rule takes more from a player than she has behind. *)
LEMMA BettingChips ==
  ASSUME NEW s, Money(s), PotInStep(s), Seating(s), NEW p, MayAct(s, p), NEW a \in Nat,
         NEW r, r \in Fold(s, p) \cup Check(s, p) \cup Call(s, p) \cup AllIn(s, p)
                        \cup Bet(s, p, a) \cup Raise(s, p, a)
  PROVE  FoldEnds(s, r) \/ GoesOn(s, r)
<1>1. /\ s.phase \in BettingPhases /\ HandLive(s) /\ Contested(s)
      /\ p \in Live(s) /\ p \in Seated(s)
  BY DEF MayAct, Live, Seating, HandLive, BettingPhases, BetweenHandsPhases
<1>2. p \in Players
  BY <1>1, SeatedArePlayers DEF Money
<1>3. Fields \subseteq DOMAIN s
  BY DEF Seating, Fields
<1>4. ASSUME NEW w, Seating(w), Contested(w), Wagering(s, w), w.phase = s.phase,
             s.folded \subseteq w.folded,
             w.bet = [s.bet EXCEPT ![p] = w.bet[p]], w.bet[p] >= s.bet[p]
      PROVE  GoesOn(s, Acted(s, w, p))
  <2>1. Continues(s, Acted(s, w, p))
    BY <1>1, <1>4, ActedContinues
  <2>2. w.phase \in BettingPhases /\ w.seats = s.seats
    BY <1>1, <1>4 DEF Wagering
  <2>3. HandLive(Acted(s, w, p))
    BY <1>4, <2>2, ActedSeats
  <2>4. QED
    BY <2>1, <2>3 DEF GoesOn
<1>5. ASSUME NEW w, Aside(s, w), Wagering(s, w), NEW c \in Nat,
             w.bet = [s.bet EXCEPT ![p] = @ + c]
      PROVE  GoesOn(s, Acted(s, w, p))
  <2>1. Seating(w) /\ Contested(w)
    BY <1>1, <1>5, AsideKeeps
  <2>2. w.phase = s.phase /\ w.folded = s.folded
    BY <1>5 DEF Aside
  <2>3. s.bet \in [Players -> Nat]
    BY DEF Money, Holdings
  <2>4. w.bet = [s.bet EXCEPT ![p] = w.bet[p]] /\ w.bet[p] >= s.bet[p]
    BY <1>2, <1>5, <2>3
  <2>5. QED
    BY <1>4, <1>5, <2>1, <2>2, <2>4
<1>6. s.stack[p] \in Nat /\ s.bet[p] \in Nat /\ s.bet \in [Players -> Nat]
  BY <1>2 DEF Money, Holdings
<1>7. ASSUME NEW c \in Nat, c <= s.stack[p]
      PROVE  /\ GoesOn(s, Acted(s, Wagered(s, p, c), p))
             /\ \A y : GoesOn(s, Acted(s, [Wagered(s, p, c) EXCEPT !.lastRaise = y], p))
  <2> DEFINE w == Wagered(s, p, c)
  <2>1. Wagering(s, w) /\ w.bet = [s.bet EXCEPT ![p] = @ + c]
    BY <1>1, <1>7, WageredWagers
  <2>2. Aside(s, w) /\ \A y : Aside(s, [w EXCEPT !.lastRaise = y])
    BY <1>3, WageredAside
  <2> HIDE DEF w
  <2>3. GoesOn(s, Acted(s, w, p))
    BY <1>5, <2>1, <2>2
  <2>4. ASSUME NEW y PROVE GoesOn(s, Acted(s, [w EXCEPT !.lastRaise = y], p))
    <3> DEFINE v == [w EXCEPT !.lastRaise = y]
    <3>1. v.bet = w.bet
      BY <2>1 DEF Wagering, Money, MoneyFields
    <3>2. Wagering(s, v) /\ Aside(s, v)
      BY <1>2, <2>1, <2>2, MarkedWagers
    <3> HIDE DEF v
    <3>3. GoesOn(s, Acted(s, v, p))
      BY <1>5, <2>1, <3>1, <3>2
    <3>4. QED
      BY <3>3 DEF v
  <2>5. QED
    BY <2>3, <2>4 DEF w
<1>8. CASE r \in Fold(s, p)
  <2> DEFINE f == [s EXCEPT !.folded = @ \cup {p}]
  <2>1. CASE Cardinality(Live(f)) = 1
    <3>1. r = SettleFoldWin(f)
      BY <1>8, <2>1 DEF Fold
    <3> HIDE DEF f
    <3>2. FoldEnds(s, SettleFoldWin(f))
      BY <1>1, <1>2, <2>1, FoldToOne DEF f
    <3>3. QED
      BY <3>1, <3>2
  <2>2. CASE Cardinality(Live(f)) # 1
    <3>1. r = Acted(s, f, p)
      BY <1>8, <2>2 DEF Fold
    <3>2. Seating(f) /\ Contested(f)
      BY <1>1, <2>2, FoldedContested
    <3>3. /\ f.phase = s.phase /\ s.folded \subseteq f.folded /\ f.bet = s.bet
          /\ Wagering(s, f)
      <4>1. Wagering(s, s)
        BY SameChipsWagers DEF SameChips
      <4>2. Wagering(s, f)
        BY <1>2, <4>1, MarkedWagers
      <4>3. QED
        BY <4>2 DEF Money, MoneyFields
    <3> HIDE DEF f
    <3>4. f.bet = [s.bet EXCEPT ![p] = f.bet[p]] /\ f.bet[p] >= s.bet[p]
      BY <1>2, <1>6, <3>3
    <3>5. QED
      BY <1>4, <3>1, <3>2, <3>3, <3>4
  <2>3. QED
    BY <2>1, <2>2
<1>9. CASE r \in Check(s, p)
  <2>1. Aside(s, s) /\ Wagering(s, s)
    BY SameChipsWagers DEF SameChips, Aside, SameSeats
  <2>2. s.bet = [s.bet EXCEPT ![p] = @ + 0]
    BY <1>2, <1>6
  <2>3. QED
    BY <1>5, <1>9, <2>1, <2>2 DEF Check
<1> DEFINE toCall == CurrentBet(s) - s.bet[p]
<1>10. toCall \in Nat
  BY <1>1, <1>6, CurrentBetIs
<1>11. CASE r \in Call(s, p)
  <2> DEFINE c == Min({toCall, s.stack[p]})
  <2>1. r = Acted(s, Wagered(s, p, c), p)
    BY <1>11 DEF Call
  <2> HIDE DEF toCall
  <2>2. c = IF toCall <= s.stack[p] THEN toCall ELSE s.stack[p]
    BY <1>6, <1>10, MinTwo
  <2> HIDE DEF c
  <2>3. c \in Nat /\ c <= s.stack[p]
    BY <1>6, <1>10, <2>2
  <2>4. QED
    BY <1>7, <2>1, <2>3
<1>12. CASE r \in AllIn(s, p)
  <2> DEFINE c == s.stack[p]
             u == PutIn(s, p, c)
             w == [u EXCEPT !.allIn = @ \cup {p}]
  <2>1. r = Acted(s, w, p)
    BY <1>12 DEF AllIn
  <2>2. Aside(s, w)
    BY <1>3, WageredAside
  <2>3. c \in Nat /\ c <= s.stack[p]
    BY <1>6
  <2> HIDE DEF c
  <2>4. Wagering(s, u) /\ u.bet = [s.bet EXCEPT ![p] = @ + c]
    BY <1>1, <2>3, PutInWagers
  <2> HIDE DEF u
  <2>5. Wagering(s, w)
    BY <1>2, <2>4, MarkedWagers
  <2>6. w.bet = u.bet
    BY <2>4 DEF Wagering, Money, MoneyFields
  <2> HIDE DEF w
  <2>7. QED
    BY <1>5, <2>1, <2>2, <2>3, <2>4, <2>5, <2>6
<1>13. CASE r \in Bet(s, p, a)
  <2>1. r = Acted(s, [Wagered(s, p, a) EXCEPT !.lastRaise = a], p) /\ a <= s.stack[p]
    BY <1>13 DEF Bet
  <2>2. QED
    BY <1>7, <2>1
<1>14. CASE r \in Raise(s, p, a)
  <2> DEFINE c == toCall + a
  <2>1. r = Acted(s, [Wagered(s, p, c) EXCEPT !.lastRaise = a], p) /\ c <= s.stack[p]
    BY <1>14 DEF Raise
  <2> HIDE DEF toCall
  <2>2. c \in Nat
    BY <1>10
  <2> HIDE DEF c
  <2>3. QED
    BY <1>7, <2>1, <2>2
<1>15. QED
  BY <1>8, <1>9, <1>11, <1>12, <1>13, <1>14

(* Timeouts fold the player to act; her chips stay in the pot. *)
LEMMA FoldStallingChips ==
  ASSUME NEW s, Money(s), PotInStep(s), Seating(s), MayTimeOut(s), NEW d
  PROVE  FoldEnds(s, FoldStalling(s, d)) \/ GoesOn(s, FoldStalling(s, d))
<1> DEFINE p == At(s, s.turn)
           f == [s EXCEPT !.folded = @ \cup {p}]
           open == Live(f) \ f.allIn
           next == SeatAfter(s, s.turn)
           k == IF open = {} THEN next ELSE Clockwise(s, next, open)
           r == [f EXCEPT !.turn = k, !.idle = 0, !.deadline = d]
<1>1. s.phase \in BettingPhases /\ HandLive(s) /\ Contested(s)
  BY DEF MayTimeOut, Seating, HandLive, BettingPhases, BetweenHandsPhases
<1>2. s.turn \in 0 .. SeatCount(s) - 1
  BY <1>1, ContestedSeats
<1>3. p \in Players
  BY <1>2, AtIsPlayer DEF Money
<1>4. FoldStalling(s, d) = IF Cardinality(Live(f)) = 1 THEN SettleFoldWin(f) ELSE r
  BY DEF FoldStalling
<1>5. CASE Cardinality(Live(f)) = 1
  <2>1. FoldStalling(s, d) = SettleFoldWin(f)
    BY <1>4, <1>5
  <2> HIDE DEF p
  <2>2. f = [s EXCEPT !.folded = @ \cup {p}]
    OBVIOUS
  <2> HIDE DEF f
  <2>3. FoldEnds(s, SettleFoldWin(f))
    BY <1>1, <1>3, <1>5, <2>2, FoldToOne
  <2>4. QED
    BY <2>1, <2>3
<1>6. CASE Cardinality(Live(f)) # 1
  <2> HIDE DEF p
  <2>1. /\ Wagering(s, f) /\ f.phase = s.phase /\ s.folded \subseteq f.folded
    <3>1. Wagering(s, s)
      BY SameChipsWagers DEF SameChips
    <3>2. Wagering(s, f)
      BY <1>3, <3>1, MarkedWagers
    <3>3. QED
      BY <3>2 DEF Money, MoneyFields
  <2> HIDE DEF f
  <2>2. SameChips(f, r) /\ r.phase = f.phase
    <3>1. MoneyFields \subseteq DOMAIN f
      BY <2>1 DEF Wagering, Money
    <3> HIDE DEF k
    <3>2. QED
      BY <3>1 DEF SameChips, MoneyFields
  <2> HIDE DEF r
  <2>3. Wagering(s, r) /\ s.folded \subseteq r.folded
    <3>1. Money(f)
      BY <2>1 DEF Wagering
    <3>2. Wagering(f, r)
      BY <2>2, <3>1, SameChipsWagers
    <3>3. QED
      BY <2>1, <2>2, <3>2, WageringChains DEF SameChips
  <2>4. r.phase \in BettingPhases
    BY <1>1, <2>1, <2>2
  <2>5. GoesOn(s, r)
    BY <2>3, <2>4 DEF GoesOn, Continues, HandLive, BettingPhases, BetweenHandsPhases
  <2>6. QED
    BY <1>4, <1>6, <2>5
<1>7. QED
  BY <1>5, <1>6

(* A street is dealt: the bets of the last round are taken off the table, the
   chips stay where they are. *)
LEMMA ResetRoundChips ==
  ASSUME NEW s, Money(s), Seating(s), s.phase \in BettingPhases
  PROVE  Wagering(s, ResetRound(s)) /\ ResetRound(s).folded = s.folded
<1> DEFINE x == IF Structure.kind = "FixedLimit" THEN FixedBet(s) ELSE BigBlind
           fresh == [s EXCEPT !.bet = NoChips, !.lastRaise = x]
           k == Clockwise(s, SeatAfter(s, s.dealer), CanAct(s))
           u == [fresh EXCEPT !.turn = k]
<1>1. ResetRound(s) = IF CanAct(s) = {} THEN AdvanceToNextPhase(fresh) ELSE u
  BY DEF ResetRound
<1> HIDE DEF x, k
<1>2. /\ fresh.bet = NoChips /\ fresh.seats = s.seats /\ fresh.stack = s.stack
      /\ fresh.committed = s.committed /\ fresh.folded = s.folded
      /\ fresh.allIn = s.allIn /\ fresh.pot = s.pot /\ fresh.sidePots = s.sidePots
      /\ fresh.rake = s.rake /\ fresh.jackpot = s.jackpot /\ DOMAIN fresh = DOMAIN s
  BY DEF Money, MoneyFields
<1> HIDE DEF fresh
<1>3. Money(fresh)
  <2>1. NoChips \in [Players -> Nat] /\ \A p \in Players : NoChips[p] = 0
    BY DEF NoChips
  <2>2. QED
    BY <1>2, <2>1 DEF Money, Holdings, Seated
<1>4. Wagering(s, fresh)
  BY <1>2, <1>3 DEF Wagering, Money, Holdings
<1>5. Cardinality(Live(fresh)) # 1
  <2>1. Live(fresh) = Live(s)
    BY <1>2 DEF Live, Seated
  <2>2. Contested(s)
    BY DEF Seating, HandLive, BettingPhases, BetweenHandsPhases
  <2>3. QED
    BY <2>1, <2>2, ContestedSeats
<1>6. SameChips(fresh, AdvanceToNextPhase(fresh)) /\ SameChips(fresh, u)
  BY <1>3, <1>5, AdvanceToNextPhaseChips DEF SameChips, Money, MoneyFields
<1> DEFINE r == ResetRound(s)
<1>7. SameChips(fresh, r)
  BY <1>1, <1>6
<1> HIDE DEF r
<1>8. Wagering(fresh, r)
  BY <1>3, <1>7, SameChipsWagers
<1>9. Wagering(s, r) /\ r.folded = s.folded
  BY <1>2, <1>4, <1>7, <1>8, WageringChains DEF SameChips
<1>10. QED
  BY <1>9 DEF r

(* Showdowns. *)
LEMMA MoneyHasStakes == ASSUME NEW s, Money(s) PROVE HasStakes(s)
<1>1. Seated(s) \subseteq Players /\ IsFiniteSet(Seated(s))
  BY SeatedArePlayers DEF Money
<1>2. s.seats \in Seq(Seated(s))
  <2>1. s.seats \in [1 .. Len(s.seats) -> Players] /\ Len(s.seats) \in Nat
    BY DEF Money
  <2>2. \A i \in 1 .. Len(s.seats) : s.seats[i] \in Seated(s)
    BY <2>1 DEF Seated, Range
  <2>3. s.seats \in [1 .. Len(s.seats) -> Seated(s)]
    BY <2>1, <2>2
  <2>4. QED
    BY <2>1, <2>3, SeqDef
<1>3. QED
  BY <1>1, <1>2 DEF HasStakes, Money, Holdings

(* One amount to one player is that amount in all. *)
LEMMA SumOfOne ==
  ASSUME NEW p \in Players, NEW c \in Nat, NEW f,
         \A q \in Players : f[q] = IF q = p THEN c ELSE 0
  PROVE  SumOver(f, Players) = c
<1>1. \A q \in Players : f[q] = IF q \in {p} THEN c ELSE 0
  OBVIOUS
<1>2. SumOver(f, Players) = c * Cardinality({p})
  BY <1>1, TableAssumption, SumOfMembers DEF SumOver
<1>3. Cardinality({p}) = 1
  BY FS_Singleton
<1>4. QED
  BY <1>2, <1>3

(* The bad-beat pool goes to players, whole, or stays. *)
LEMMA PayBadBeatChips ==
  ASSUME NEW s, Money(s), NEW w \in Seated(s), NEW l \in (Seated(s) \ {w}) \cup {Nobody},
         NEW r, r = PayBadBeat(s, w, l)
  PROVE  /\ Money(r) /\ r.seats = s.seats /\ r.folded = s.folded /\ r.rake = s.rake
         /\ \A p \in Players : r.stack[p] >= s.stack[p]
         /\ SumOver(r.stack, Players) + r.jackpot
              = SumOver(s.stack, Players) + s.jackpot
         /\ r.jackpot <= s.jackpot
         /\ r.stack = s.stack \/ r.jackpot = 0
<1>1. SumOver(s.stack, Players) \in Nat /\ s.jackpot \in Nat
  BY HoldingsSums DEF Money
<1>2. CASE l = Nobody \/ JackpotShareBps = 0 \/ s.jackpot = 0
  <2>1. r = s
    BY <1>2 DEF PayBadBeat
  <2>2. \A p \in Players : s.stack[p] \in Nat
    BY DEF Money, Holdings
  <2>3. QED
    BY <1>1, <2>1, <2>2
<1> DEFINE pool   == s.jackpot
           sixty  == (pool * 6000) \div 10000
           twenty == (pool * 2000) \div 10000
           rest   == pool - sixty - twenty
           others == Live(s) \ {w, l}
           lost   == sixty + (IF others = {} THEN rest ELSE 0)
           f == [p \in Players |-> BadBeatShare(s, w, l, p)]
           a == [p \in Players |-> IF p = w THEN twenty ELSE 0]
           b == [p \in Players |-> IF p = l THEN lost ELSE 0]
           c == [p \in Players |-> EqualShare(s, rest, others, p)]
           ab == [p \in Players |-> a[p] + b[p]]
<1>3. CASE ~ (l = Nobody \/ JackpotShareBps = 0 \/ s.jackpot = 0)
  <2>1. /\ w \in Players /\ l \in Players /\ w # l
        /\ others \subseteq Seated(s) /\ others \in SUBSET Seated(s)
        /\ Seated(s) \subseteq Players
    BY <1>3, SeatedArePlayers DEF Money, Live
  <2>2. /\ sixty \in Nat /\ twenty \in Nat /\ rest \in Nat
        /\ sixty + twenty + rest = pool
    BY <1>1
  <2>3. \A p \in Players : f[p] = a[p] + b[p] + c[p]
    BY DEF BadBeatShare, EqualShare
  <2>4. /\ r.stack = [p \in Players |-> s.stack[p] + f[p]] /\ r.jackpot = 0
        /\ r.seats = s.seats /\ r.folded = s.folded /\ r.rake = s.rake
        /\ r.bet = s.bet /\ r.committed = s.committed /\ r.allIn = s.allIn
        /\ r.pot = s.pot /\ r.sidePots = s.sidePots /\ DOMAIN r = DOMAIN s
    BY <1>3 DEF PayBadBeat, Money, MoneyFields
  <2> HIDE DEF sixty, twenty, rest, others, f
  <2>5. lost \in Nat
    BY <2>2
  <2>6. /\ \A p \in Players : c[p] \in Nat
        /\ SumOver(c, Players) = IF others = {} THEN 0 ELSE rest
    <3>1. CASE others = {}
      <4>1. \A p \in Players : c[p] = 0
        BY <3>1 DEF EqualShare
      <4>2. QED
        BY <3>1, <4>1, TableAssumption, SumZero DEF SumOver
    <3>2. CASE others # {}
      <4>1. \A p \in Players : c[p] = EqualShare(s, rest, others, p)
        OBVIOUS
      <4>2. HasStakes(s)
        BY MoneyHasStakes
      <4> HIDE DEF c
      <4>3. IsFiniteSet(Players) /\ others \subseteq Players
        BY <2>1, TableAssumption
      <4>4. (\A p \in Players : c[p] \in Nat) /\ SumFunctionOnSet(c, Players) = rest
        BY <2>1, <2>2, <3>2, <4>1, <4>2, <4>3, SharesAddUp
      <4>5. QED
        BY <3>2, <4>4 DEF SumOver
    <3>3. QED
      BY <3>1, <3>2
  <2>7. /\ \A p \in Players : a[p] = IF p = w THEN twenty ELSE 0
        /\ \A p \in Players : b[p] = IF p = l THEN lost ELSE 0
        /\ \A p \in Players : ab[p] = a[p] + b[p]
    OBVIOUS
  <2> HIDE DEF a, b, c, ab
  <2>8. SumOver(a, Players) = twenty
    BY <2>1, <2>2, <2>7, SumOfOne
  <2>9. SumOver(b, Players) = lost
    <3> HIDE DEF lost
    <3>1. QED
      BY <2>1, <2>5, <2>7, SumOfOne
  <2>10. \A p \in Players : a[p] \in Nat /\ b[p] \in Nat /\ ab[p] \in Nat /\ f[p] \in Nat
    <3> HIDE DEF lost
    <3>1. QED
      BY <2>2, <2>3, <2>5, <2>6, <2>7
  <2>11. SumOver(ab, Players) = twenty + lost
    <3> HIDE DEF lost
    <3>1. SumOver(ab, Players) = SumOver(a, Players) + SumOver(b, Players)
      BY <2>7, <2>10, TableAssumption, SumPlus DEF SumOver
    <3>2. QED
      BY <2>8, <2>9, <3>1
  <2>12. SumOver(f, Players) = pool
    <3>1. \A p \in Players : f[p] = ab[p] + c[p]
      BY <2>3, <2>7
    <3>2. SumOver(f, Players) = SumOver(ab, Players) + SumOver(c, Players)
      BY <2>6, <2>10, <3>1, TableAssumption, SumPlus DEF SumOver
    <3>3. QED
      BY <2>2, <2>6, <2>11, <3>2
  <2>13. \A p \in Players : s.stack[p] \in Nat
    BY DEF Money, Holdings
  <2>14. \A p \in Players : /\ r.stack[p] = s.stack[p] + f[p] /\ r.stack[p] \in Nat
                            /\ r.stack[p] >= s.stack[p]
    BY <2>4, <2>10, <2>13
  <2>15. SumOver(r.stack, Players) = SumOver(s.stack, Players) + pool
    <3>1. SumOver(r.stack, Players) = SumOver(s.stack, Players) + SumOver(f, Players)
      BY <2>10, <2>13, <2>14, TableAssumption, SumPlus DEF SumOver
    <3>2. QED
      BY <2>12, <3>1
  <2>16. \A p \in Players \ Seated(s) : f[p] = 0
    <3>1. ASSUME NEW p \in Players \ Seated(s) PROVE a[p] = 0 /\ b[p] = 0 /\ c[p] = 0
      <4>1. p # w /\ p # l /\ p \notin others
        BY <1>3, <2>1
      <4>2. QED
        BY <2>7, <4>1 DEF c, EqualShare
    <3>2. QED
      BY <2>3, <3>1
  <2>17. Money(r)
    <3>1. \A p \in Players \ Seated(s) : r.stack[p] = 0
      BY <2>14, <2>16 DEF Money
    <3>2. r.stack \in [Players -> Nat]
      BY <2>4, <2>14
    <3>3. QED
      BY <2>4, <3>1, <3>2 DEF Money, Holdings, Seated
  <2>18. QED
    BY <1>1, <2>4, <2>14, <2>15, <2>17
<1>4. QED
  BY <1>2, <1>3

(* The rake of a showdown is split between the house and the jackpot, and what
   the variance trigger moves stays within the house's part. *)
LEMMA RakeSplit ==
  ASSUME NEW rake \in Nat, NEW trig
  PROVE  LET split == SplitJackpotRake(rake, JackpotShareBps)
             extra == IF trig THEN (split.house * VarianceShareBps) \div 10000 ELSE 0
         IN  /\ split.house \in Nat /\ split.jackpot \in Nat
             /\ split.house + split.jackpot = rake
             /\ extra \in Nat /\ extra <= split.house
<1> DEFINE part == MulBps(rake, JackpotShareBps)
           house == rake - part
           extra == (house * VarianceShareBps) \div 10000
<1>1. /\ JackpotShareBps \in Nat /\ JackpotShareBps <= 10000
      /\ VarianceShareBps \in Nat /\ VarianceShareBps <= 10000
  BY SharesAssumption
<1>2. part \in 0 .. rake
  BY <1>1, MulBpsPart
<1> HIDE DEF part
<1>3. part \in Nat /\ house \in Nat /\ house + part = rake
  BY <1>2
<1> HIDE DEF house
<1>4. extra \in 0 .. house
  BY <1>1, <1>3, PartOf
<1> HIDE DEF extra
<1>5. extra \in Nat /\ extra <= house
  BY <1>3, <1>4
<1>6. /\ SplitJackpotRake(rake, JackpotShareBps).house = house
      /\ SplitJackpotRake(rake, JackpotShareBps).jackpot = part
  BY DEF SplitJackpotRake, house, part
<1>7. QED
  BY <1>3, <1>5, <1>6 DEF extra

(* A table after its pots are raked and distributed, before the bad beat. *)
Distributed(s, best, trig) ==
  LET pots  == CalculateSidePots(s)
      net   == ApplyRake(pots, RakeBps)
      split == SplitJackpotRake(TotalRake(pots, RakeBps), JackpotShareBps)
      extra == IF trig THEN (split.house * VarianceShareBps) \div 10000 ELSE 0
  IN  [s EXCEPT !.sidePots = PotTotal(net),
                !.rake     = @ + split.house - extra,
                !.jackpot  = @ + split.jackpot + extra,
                !.stack    = [p \in Players |-> @[p] + PayoutTo(s, net, best, p)]]

LEMMA DistributedChips ==
  ASSUME NEW s, Money(s), NEW best, NEW trig, NEW r, r = Distributed(s, best, trig)
  PROVE  /\ Money(r) /\ r.seats = s.seats /\ r.folded = s.folded
         /\ r.rake >= s.rake
         /\ \A p \in Players : r.stack[p] >= s.stack[p]
         /\ \A p \in s.folded : r.stack[p] = s.stack[p]
         /\ TopLevel(s) # 0 =>
              /\ (r.rake + r.jackpot) - (s.rake + s.jackpot)
                   <= (SumOver(s.committed, Players) * RakeBps) \div 10000
              /\ SumOver(r.stack, Players) + r.rake + r.jackpot
                   = SumOver(s.stack, Players) + SumOver(s.committed, Players)
                       + s.rake + s.jackpot
<1> DEFINE pots  == CalculateSidePots(s)
           net   == ApplyRake(pots, RakeBps)
           taken == TotalRake(pots, RakeBps)
           split == SplitJackpotRake(taken, JackpotShareBps)
           extra == IF trig THEN (split.house * VarianceShareBps) \div 10000 ELSE 0
           won   == [p \in Players |-> PayoutTo(s, net, best, p)]
           S     == SumOver(s.stack, Players)
           C     == SumOver(s.committed, Players)
<1>1. HasStakes(s) /\ IsPots(s, pots)
  BY MoneyHasStakes, SidePotsAre
<1>2. RakeBps \in Nat /\ RakeBps <= 10000
  BY SharesAssumption
<1>3. r = [s EXCEPT !.sidePots = PotTotal(net),
                    !.rake     = @ + split.house - extra,
                    !.jackpot  = @ + split.jackpot + extra,
                    !.stack    = [p \in Players |->
                                   @[p] + PayoutTo(s, net, best, p)]]
  BY DEF Distributed
<1> HIDE DEF pots
<1>4. /\ IsPots(s, net) /\ taken \in Nat /\ PotTotal(pots) \in Nat
      /\ PotTotal(net) \in Nat /\ PotTotal(net) + taken = PotTotal(pots)
      /\ 10000 * taken <= PotTotal(pots) * RakeBps
  BY <1>1, <1>2, RakeOutOfPots
<1> HIDE DEF taken, net
<1>5. /\ split.house \in Nat /\ split.jackpot \in Nat
      /\ split.house + split.jackpot = taken
      /\ extra \in Nat /\ extra <= split.house
  BY <1>4, RakeSplit
<1> HIDE DEF split, extra
<1>6. /\ \A p \in Players : won[p] \in Nat
      /\ SumOver(won, Players) = PotTotal(net)
  <2>1. Seated(s) \subseteq Players /\ IsFiniteSet(Players)
    BY TableAssumption, SeatedArePlayers DEF Money
  <2>2. \A p \in Players : won[p] = PayoutTo(s, net, best, p)
    OBVIOUS
  <2> HIDE DEF won
  <2>0. HasStakes(s) /\ IsPots(s, net)
    BY <1>1, <1>4
  <2>3. \A p \in Players : PayoutTo(s, net, best, p) \in Nat
    BY <2>0, <2>1, <2>2, PayoutsAddUp
  <2>4. SumFunctionOnSet(won, Players) = PotTotal(net)
    BY <2>0, <2>1, <2>2, PayoutsAddUp
  <2>5. QED
    BY <2>2, <2>3, <2>4 DEF SumOver
<1>7. ASSUME NEW p \in Players, p \notin Live(s) PROVE won[p] = 0
  <2>1. \A b \in DOMAIN net : p \notin Recipients(s, net[b], best)
    <3>1. ASSUME NEW b \in DOMAIN net PROVE p \notin Recipients(s, net[b], best)
      <4>1. Recipients(s, net[b], best) \subseteq net[b].eligible
        BY <1>1, <1>4, RecipientsAre
      <4>2. net[b].eligible \subseteq Live(s)
        BY <1>4 DEF IsPots
      <4>3. QED
        BY <1>7, <4>1, <4>2
    <3>2. QED
      BY <3>1
  <2>2. PayoutTo(s, net, best, p) = 0
    BY <1>1, <1>4, <2>1, NoPayout
  <2>3. QED
    BY <1>7, <2>2
<1>8. /\ r.stack = [p \in Players |-> s.stack[p] + PayoutTo(s, net, best, p)]
      /\ r.rake = s.rake + split.house - extra
      /\ r.jackpot = s.jackpot + split.jackpot + extra
      /\ r.sidePots = PotTotal(net) /\ r.pot = s.pot
      /\ r.seats = s.seats /\ r.folded = s.folded /\ r.allIn = s.allIn
      /\ r.bet = s.bet /\ r.committed = s.committed /\ DOMAIN r = DOMAIN s
  <2> HIDE DEF won
  <2>1. QED
    BY <1>3 DEF Money, MoneyFields
<1>9. \A p \in Players : /\ s.stack[p] \in Nat /\ r.stack[p] \in Nat
                         /\ r.stack[p] = s.stack[p] + won[p]
  <2>1. \A p \in Players : r.stack[p] = s.stack[p] + won[p]
    BY <1>8
  <2> HIDE DEF won
  <2>2. \A p \in Players : s.stack[p] \in Nat
    BY DEF Money, Holdings
  <2>3. QED
    BY <1>6, <2>1, <2>2
<1> HIDE DEF won
<1>10. s.rake \in Nat /\ s.jackpot \in Nat
  BY DEF Money
<1>11. r.rake \in Nat /\ r.jackpot \in Nat /\ r.rake >= s.rake
  BY <1>5, <1>8, <1>10
<1>12. Money(r)
  <2>1. ASSUME NEW p \in Players \ Seated(s) PROVE r.stack[p] = 0
    <3>1. p \notin Live(s)
      BY DEF Live
    <3>2. won[p] = 0 /\ s.stack[p] = 0
      BY <1>7, <3>1 DEF Money
    <3>3. QED
      BY <1>9, <3>2
  <2>2. r.stack \in [Players -> Nat]
    BY <1>8, <1>9
  <2>3. QED
    BY <1>4, <1>8, <1>11, <2>1, <2>2 DEF Money, Holdings, Seated
<1>13. ASSUME NEW p \in s.folded PROVE r.stack[p] = s.stack[p]
  <2>1. p \in Players /\ p \notin Live(s)
    BY DEF Money, Live
  <2>2. QED
    BY <1>7, <1>9, <2>1
<1>14. SumOver(r.stack, Players) = S + SumOver(won, Players)
  BY <1>6, <1>9, TableAssumption, SumPlus DEF SumOver
<1>15. S \in Nat /\ C \in Nat
  BY HoldingsSums
<1>16. ASSUME TopLevel(s) # 0 PROVE C = PotTotal(pots)
  <2>1. PotTotal(pots) = SumFunctionOnSet(s.committed, Seated(s))
    BY <1>1, <1>16, PotsHoldStakes DEF pots
  <2>2. /\ Seated(s) \in SUBSET Players
        /\ \A p \in Seated(s) : s.committed[p] \in Int
        /\ \A p \in Players \ Seated(s) : s.committed[p] = 0
    BY SeatedArePlayers DEF Money, Holdings
  <2>3. SumFunctionOnSet(s.committed, Players) = SumFunctionOnSet(s.committed, Seated(s))
    BY <2>2, TableAssumption, SumRestrict
  <2>4. QED
    BY <2>1, <2>3 DEF SumOver
<1>17. (r.rake + r.jackpot) - (s.rake + s.jackpot) = taken
  BY <1>5, <1>8, <1>10
<1> DEFINE P == PotTotal(pots)
<1>18. taken <= (P * RakeBps) \div 10000
  <2> DEFINE x == P * RakeBps
  <2>1. x \in Nat
    <3>1. \A m, n \in Nat : m * n \in Nat
      OBVIOUS
    <3>2. QED
      BY <1>2, <1>4, <3>1
  <2>2. 10000 * taken <= x /\ taken \in Nat
    BY <1>4
  <2> HIDE DEF x
  <2>3. taken <= x \div 10000
    BY <2>1, <2>2
  <2>4. QED
    BY <2>3 DEF x
<1>19. ASSUME TopLevel(s) # 0
       PROVE  /\ (r.rake + r.jackpot) - (s.rake + s.jackpot) <= (C * RakeBps) \div 10000
              /\ SumOver(r.stack, Players) + r.rake + r.jackpot
                   = S + C + s.rake + s.jackpot
  <2> HIDE DEF S, C, P
  <2>1. C = P
    BY <1>16, <1>19 DEF P
  <2>2. P \in Nat /\ PotTotal(net) + taken = P /\ PotTotal(net) \in Nat
    BY <1>4 DEF P
  <2>3. SumOver(r.stack, Players) = S + PotTotal(net)
    BY <1>6, <1>14
  <2>4. r.rake + r.jackpot = s.rake + s.jackpot + taken
    BY <1>4, <1>10, <1>11, <1>17
  <2>5. SumOver(r.stack, Players) + r.rake + r.jackpot = S + C + s.rake + s.jackpot
    BY <1>4, <1>10, <1>11, <1>15, <2>1, <2>2, <2>3, <2>4
  <2>6. QED
    BY <1>17, <1>18, <2>1, <2>5
<1>20. \A p \in Players : r.stack[p] >= s.stack[p]
  BY <1>6, <1>9
<1>21. r.seats = s.seats /\ r.folded = s.folded /\ r.rake >= s.rake
  BY <1>8, <1>11
<1> HIDE DEF S, C
<1>22. QED
  BY <1>12, <1>13, <1>19, <1>20, <1>21 DEF S, C

(* A settlement closes the books on whatever table it is given. *)
LEMMA SettledChips ==
  ASSUME NEW s, Money(s)
  PROVE  /\ Money(Settled(s)) /\ Settled(s).phase = "Settlement"
         /\ Settled(s).seats = s.seats /\ Settled(s).stack = s.stack
         /\ Settled(s).rake = s.rake /\ Settled(s).jackpot = s.jackpot
         /\ Settled(s).folded = s.folded
<1>1. /\ MoneyFields \subseteq DOMAIN Settled(s)
      /\ Settled(s).phase = "Settlement" /\ Settled(s).pot = 0
      /\ Settled(s).seats = s.seats /\ Settled(s).stack = s.stack
      /\ Settled(s).bet = s.bet /\ Settled(s).committed = s.committed
      /\ Settled(s).rake = s.rake /\ Settled(s).jackpot = s.jackpot
      /\ Settled(s).sidePots = s.sidePots
      /\ Settled(s).folded = s.folded /\ Settled(s).allIn = s.allIn
  BY DEF Settled, Money, MoneyFields
<1> DEFINE r == Settled(s)
<1>2. /\ MoneyFields \subseteq DOMAIN r /\ r.pot = 0
      /\ r.seats = s.seats /\ r.stack = s.stack /\ r.bet = s.bet
      /\ r.committed = s.committed /\ r.rake = s.rake /\ r.jackpot = s.jackpot
      /\ r.sidePots = s.sidePots /\ r.folded = s.folded /\ r.allIn = s.allIn
  BY <1>1
<1> HIDE DEF r
<1>3. Money(r)
  BY <1>2 DEF Money, Seated
<1>4. QED
  BY <1>1, <1>3 DEF r

(* A showdown pays nobody less than she has behind and nobody who has folded; when
   somebody who is still in has staked something, it pays out exactly the stakes. *)
LEMMA SettleShowdownChips ==
  ASSUME NEW s, Money(s), NEW best \in SUBSET Seated(s), best # {},
         NEW loser \in (Seated(s) \ {FirstSeat(s, best)}) \cup {Nobody}, NEW trig,
         NEW r, r \in SettleShowdown(s, best, loser, trig)
  PROVE  /\ Money(r) /\ r.seats = s.seats /\ r.phase = "Settlement"
         /\ NotToFolded(s, r)
         /\ TopLevel(s) # 0 => Awards(s, r)
<1> DEFINE w == FirstSeat(s, best)
           d == Distributed(s, best, trig)
           b == PayBadBeat(d, w, loser)
           C == SumOver(s.committed, Players)
           S == SumOver(s.stack, Players)
           D == SumOver(d.stack, Players)
           B == SumOver(b.stack, Players)
           cap == (C * RakeBps) \div 10000
<1>1. r = Settled(b)
  BY DEF SettleShowdown, Distributed
<1>2. w \in Seated(s)
  BY MoneyHasStakes, FirstSeatIn
<1> HIDE DEF w
<1>3. /\ Money(d) /\ d.seats = s.seats /\ d.folded = s.folded /\ d.rake >= s.rake
      /\ \A p \in Players : d.stack[p] >= s.stack[p]
      /\ \A p \in s.folded : d.stack[p] = s.stack[p]
      /\ TopLevel(s) # 0 => /\ (d.rake + d.jackpot) - (s.rake + s.jackpot) <= cap
                            /\ D + d.rake + d.jackpot = S + C + s.rake + s.jackpot
  BY DistributedChips
<1> HIDE DEF d
<1>4. w \in Seated(d) /\ loser \in (Seated(d) \ {w}) \cup {Nobody}
  BY <1>2, <1>3 DEF Seated, w
<1>5. /\ Money(b) /\ b.seats = d.seats /\ b.folded = d.folded /\ b.rake = d.rake
      /\ \A p \in Players : b.stack[p] >= d.stack[p]
      /\ B + b.jackpot = D + d.jackpot
      /\ b.jackpot <= d.jackpot
      /\ b.stack = d.stack \/ b.jackpot = 0
  BY <1>3, <1>4, PayBadBeatChips
<1> HIDE DEF b
<1>6. /\ Money(r) /\ r.phase = "Settlement" /\ r.seats = s.seats /\ r.stack = b.stack
      /\ r.rake = b.rake /\ r.jackpot = b.jackpot /\ r.folded = s.folded
  BY <1>1, <1>3, <1>5, SettledChips
<1>7. NotToFolded(s, r)
  <2>1. ASSUME NEW p \in s.folded, r.stack[p] > s.stack[p] PROVE r.jackpot = 0
    <3>1. s.stack[p] \in Nat
      BY DEF Money, Holdings
    <3>2. b.stack = d.stack => r.stack[p] = s.stack[p]
      BY <1>3, <1>6
    <3>3. b.stack # d.stack
      BY <2>1, <3>1, <3>2
    <3>4. QED
      BY <1>5, <1>6, <3>3
  <2>2. QED
    BY <1>6, <2>1 DEF NotToFolded
<1>8. ASSUME TopLevel(s) # 0 PROVE Awards(s, r)
  <2>1. \A p \in Players : /\ s.stack[p] \in Nat /\ d.stack[p] \in Nat
                           /\ b.stack[p] \in Nat
    BY <1>3, <1>5 DEF Money, Holdings
  <2>2. \A p \in Players : r.stack[p] >= s.stack[p]
    BY <1>3, <1>5, <1>6, <2>1
  <2>3. /\ s.rake \in Nat /\ s.jackpot \in Nat /\ d.rake \in Nat /\ d.jackpot \in Nat
        /\ b.jackpot \in Nat
    BY <1>3, <1>5 DEF Money
  <2>4. S \in Nat /\ C \in Nat /\ D \in Nat /\ B \in Nat
    BY <1>3, <1>5, HoldingsSums
  <2>5. cap \in Nat
    BY <2>4, RakeShare
  <2>6. SumOver(r.stack, Players) = B
    BY <1>6
  <2> HIDE DEF S, C, D, B, cap
  <2>7. (r.rake + r.jackpot) - (s.rake + s.jackpot) <= cap
    BY <1>3, <1>5, <1>6, <1>8, <2>3, <2>5
  <2>8. SumOver(r.stack, Players) + r.rake + r.jackpot = S + C + s.rake + s.jackpot
    BY <1>3, <1>5, <1>6, <1>8, <2>3, <2>4, <2>6
  <2>9. r.rake >= s.rake
    BY <1>3, <1>5, <1>6
  <2>10. QED
    BY <1>6, <2>2, <2>7, <2>8, <2>9 DEF Awards, S, C, cap
<1>9. QED
  BY <1>6, <1>7, <1>8

-----------------------------------------------------------------------------
(* Refunds, and the seats that are taken and given up. *)
LEMMA RefundedChips ==
  ASSUME NEW s, Money(s)
  PROVE  /\ Money(Refunded(s)) /\ Refunded(s).stack = NoChips
         /\ Money(Cancelled(s)) /\ Cancelled(s).stack = NoChips
         /\ Refunded(s).seats = s.seats /\ Cancelled(s).seats = s.seats
         /\ Refunded(s).rake = s.rake /\ Cancelled(s).rake = s.rake
         /\ Refunded(s).jackpot = s.jackpot /\ Cancelled(s).jackpot = s.jackpot
<1> DEFINE f == Refunded(s)
           c == Cancelled(s)
<1>1. /\ MoneyFields \subseteq DOMAIN f /\ f.pot = 0 /\ f.sidePots = 0
      /\ f.seats = s.seats /\ f.stack = NoChips /\ f.bet = NoChips
      /\ f.committed = NoChips /\ f.rake = s.rake /\ f.jackpot = s.jackpot
      /\ f.folded = Seated(s) /\ f.allIn = s.allIn
  BY DEF Refunded, Settled, Money, MoneyFields
<1>2. /\ MoneyFields \subseteq DOMAIN c /\ c.pot = 0 /\ c.sidePots = 0
      /\ c.seats = s.seats /\ c.stack = NoChips /\ c.bet = NoChips
      /\ c.committed = NoChips /\ c.rake = s.rake /\ c.jackpot = s.jackpot
      /\ c.folded = Seated(s) /\ c.allIn = s.allIn
  <2> HIDE DEF f
  <2>1. c = [f EXCEPT !.lastRaise = 0, !.board = 0, !.rit = "none"]
    BY DEF Cancelled, f
  <2> HIDE DEF c
  <2>2. QED
    BY <1>1, <2>1 DEF MoneyFields
<1> HIDE DEF f, c
<1>3. NoChips \in Holdings /\ \A p \in Players : NoChips[p] = 0
  BY DEF NoChips, Holdings
<1>4. Seated(s) \subseteq Players
  BY SeatedArePlayers DEF Money
<1>5. Money(f)
  BY <1>1, <1>3, <1>4 DEF Money
<1>6. Money(c)
  BY <1>2, <1>3, <1>4 DEF Money
<1>7. QED
  BY <1>1, <1>2, <1>5, <1>6 DEF f, c

LEMMA VacatedChips ==
  ASSUME NEW s, Money(s), Seating(s), ~ HandLive(s), NEW p \in Seated(s)
  PROVE  /\ Money(Vacated(s, p))
         /\ Vacated(s, p).stack = [s.stack EXCEPT ![p] = 0]
         /\ Vacated(s, p).rake = s.rake /\ Vacated(s, p).jackpot = s.jackpot
         /\ Vacated(s, p).phase = s.phase
<1> DEFINE r == Vacated(s, p)
<1>1. /\ Seated(r) = Seated(s) \ {p} /\ r.seats \in Seq(Players)
  BY VacatedSeats DEF Seating
<1>2. /\ DOMAIN r = DOMAIN s /\ r.phase = s.phase
      /\ r.stack = [s.stack EXCEPT ![p] = 0] /\ r.bet = [s.bet EXCEPT ![p] = 0]
      /\ r.committed = [s.committed EXCEPT ![p] = 0]
      /\ r.pot = s.pot /\ r.sidePots = s.sidePots
      /\ r.rake = s.rake /\ r.jackpot = s.jackpot
      /\ r.folded = s.folded \ {p} /\ r.allIn = s.allIn \ {p}
  BY DEF Vacated, Money, MoneyFields
<1> HIDE DEF r
<1>3. p \in Players
  BY SeatedArePlayers DEF Money
<1>4. /\ r.stack \in Holdings /\ r.bet \in Holdings /\ r.committed \in Holdings
  BY <1>2, <1>3 DEF Money, Holdings
<1>5. ASSUME NEW q \in Players \ Seated(r)
      PROVE  r.stack[q] = 0 /\ r.bet[q] = 0 /\ r.committed[q] = 0
  <2>1. CASE q = p
    BY <1>2, <1>3, <2>1 DEF Money, Holdings
  <2>2. CASE q # p
    BY <1>1, <1>2, <2>2 DEF Money, Holdings
  <2>3. QED
    BY <2>1, <2>2
<1>6. Money(r)
  BY <1>1, <1>2, <1>4, <1>5 DEF Money
<1>7. QED
  BY <1>2, <1>6 DEF r

LEMMA SatDownChips ==
  ASSUME NEW s, Money(s), Seating(s), ~ HandLive(s), SeatCount(s) < MaxPlayers,
         NEW p \in Players, p \notin Seated(s), NEW c \in Nat
  PROVE  /\ Money(SatDown(s, p, c))
         /\ SatDown(s, p, c).stack = [s.stack EXCEPT ![p] = c] /\ s.stack[p] = 0
         /\ SatDown(s, p, c).rake = s.rake /\ SatDown(s, p, c).jackpot = s.jackpot
         /\ SatDown(s, p, c).phase = s.phase
<1> DEFINE r == SatDown(s, p, c)
<1>1. /\ Seated(r) = Seated(s) \cup {p} /\ r.seats \in Seq(Players)
  BY SatDownSeats DEF Seating
<1>2. /\ DOMAIN r = DOMAIN s /\ r.phase = s.phase
      /\ r.stack = [s.stack EXCEPT ![p] = c] /\ r.bet = s.bet
      /\ r.committed = s.committed /\ r.pot = s.pot /\ r.sidePots = s.sidePots
      /\ r.rake = s.rake /\ r.jackpot = s.jackpot
      /\ r.folded = s.folded /\ r.allIn = s.allIn
  BY DEF SatDown, Money, MoneyFields
<1> HIDE DEF r
<1>3. r.stack \in Holdings
  BY <1>2 DEF Money, Holdings
<1>4. ASSUME NEW q \in Players \ Seated(r)
      PROVE  r.stack[q] = 0 /\ r.bet[q] = 0 /\ r.committed[q] = 0
  BY <1>1, <1>2 DEF Money, Holdings
<1>5. Money(r)
  BY <1>1, <1>2, <1>3, <1>4 DEF Money
<1>6. QED
  BY <1>2, <1>5 DEF r, Money

LEMMA CreditChips ==
  ASSUME NEW s, Money(s), NEW p \in Seated(s), NEW a \in Nat
  PROVE  /\ Money(Credit(s, p, a))
         /\ Credit(s, p, a).stack = [s.stack EXCEPT ![p] = @ + a]
         /\ Credit(s, p, a).seats = s.seats /\ Credit(s, p, a).phase = s.phase
         /\ Credit(s, p, a).rake = s.rake /\ Credit(s, p, a).jackpot = s.jackpot
         /\ Credit(s, p, a).folded = s.folded
         /\ DOMAIN Credit(s, p, a) = DOMAIN s
         /\ Credit(s, p, a).committed = s.committed
<1> DEFINE r == Credit(s, p, a)
<1>1. /\ DOMAIN r = DOMAIN s /\ r.phase = s.phase /\ r.seats = s.seats
      /\ r.stack = [s.stack EXCEPT ![p] = @ + a] /\ r.bet = s.bet
      /\ r.committed = s.committed /\ r.pot = s.pot /\ r.sidePots = s.sidePots
      /\ r.rake = s.rake /\ r.jackpot = s.jackpot
      /\ r.folded = s.folded /\ r.allIn = s.allIn
  BY DEF Credit, Money, MoneyFields
<1> HIDE DEF r
<1>2. r.stack \in Holdings /\ Seated(r) = Seated(s)
  <2>1. p \in Players /\ s.stack \in [Players -> Nat]
    BY SeatedArePlayers DEF Money, Holdings
  <2>2. QED
    BY <1>1, <2>1 DEF Holdings, Seated
<1>3. ASSUME NEW q \in Players \ Seated(r)
      PROVE  r.stack[q] = 0 /\ r.bet[q] = 0 /\ r.committed[q] = 0
  BY <1>1, <1>2 DEF Money, Holdings
<1>4. Money(r)
  BY <1>1, <1>2, <1>3 DEF Money
<1>5. QED
  BY <1>1, <1>4 DEF r

-----------------------------------------------------------------------------
(* The escrowed buy-ins of the waiting list. *)
PaidFor(q) ==
  q \in Seq(Entries) /\ WaitsOnce(q) /\ \A i \in DOMAIN q : q[i].buyIn \in Nat \ {0}

LEMMA EntriesOf ==
  ASSUME NEW q, PaidFor(q) PROVE \A i \in DOMAIN q : q[i].player \in Players
<1>1. q \in Seq(Entries)
  BY DEF PaidFor
<1>2. \A i \in DOMAIN q : q[i] \in Entries
  BY <1>1
<1>3. QED
  BY <1>2 DEF Entries

(* Each who waits has her buy-in there, everybody else nothing. *)
LEMMA QueuedChipsAre ==
  ASSUME NEW q, PaidFor(q)
  PROVE  /\ QueuedChips(q) \in Holdings
         /\ \A i \in DOMAIN q : QueuedChips(q)[q[i].player] = q[i].buyIn
         /\ \A p \in Players : (\A i \in DOMAIN q : q[i].player # p)
                                 => QueuedChips(q)[p] = 0
<1> DEFINE f == QueuedChips(q)
<1>1. \A i \in DOMAIN q : q[i].player \in Players
  BY EntriesOf
<1>2. ASSUME NEW i \in DOMAIN q PROVE f[q[i].player] = q[i].buyIn
  <2>1. QueuePosition(q, q[i].player) \in DOMAIN q
        /\ q[QueuePosition(q, q[i].player)].player = q[i].player
    BY DEF QueuePosition
  <2>2. QueuePosition(q, q[i].player) = i
    BY <2>1 DEF PaidFor, WaitsOnce
  <2>3. QED
    BY <1>1, <2>2 DEF QueuedChips
<1>3. ASSUME NEW p \in Players, \A i \in DOMAIN q : q[i].player # p PROVE f[p] = 0
  BY <1>3 DEF QueuedChips
<1>4. f = [p \in Players |-> f[p]]
  BY DEF QueuedChips
<1> HIDE DEF f
<1>5. ASSUME NEW p \in Players PROVE f[p] \in Nat
  <2>1. CASE \E i \in DOMAIN q : q[i].player = p
    BY <1>2, <2>1 DEF PaidFor
  <2>2. CASE \A i \in DOMAIN q : q[i].player # p
    BY <1>3, <2>2
  <2>3. QED
    BY <2>1, <2>2
<1>6. f \in Holdings
  BY <1>4, <1>5 DEF Holdings
<1>7. QED
  BY <1>2, <1>3, <1>6 DEF f

(* A queue without one of its entries. *)
Without(q, k, r) ==
  /\ \A i \in DOMAIN r : \E j \in DOMAIN q : r[i] = q[j] /\ j # k
  /\ \A j \in DOMAIN q \ {k} : \E i \in DOMAIN r : r[i] = q[j]

LEMMA WithoutChips ==
  ASSUME NEW q, PaidFor(q), NEW k \in DOMAIN q, NEW r, r \in Seq(Entries),
         WaitsOnce(r), Without(q, k, r)
  PROVE  /\ PaidFor(r)
         /\ QueuedChips(r) = [QueuedChips(q) EXCEPT ![q[k].player] = 0]
         /\ QueuedChips(q)[q[k].player] = q[k].buyIn
         /\ q[k].player \in Players /\ q[k].buyIn \in Nat \ {0}
<1> DEFINE f == QueuedChips(q)
           g == QueuedChips(r)
<1>1. PaidFor(r)
  BY DEF PaidFor, Without
<1>2. /\ f \in Holdings
      /\ \A i \in DOMAIN q : f[q[i].player] = q[i].buyIn
      /\ \A p \in Players : (\A i \in DOMAIN q : q[i].player # p) => f[p] = 0
  BY QueuedChipsAre
<1>3. /\ g \in Holdings
      /\ \A i \in DOMAIN r : g[r[i].player] = r[i].buyIn
      /\ \A p \in Players : (\A i \in DOMAIN r : r[i].player # p) => g[p] = 0
  BY <1>1, QueuedChipsAre
<1> HIDE DEF f, g
<1>4. q[k].player \in Players /\ q[k].buyIn \in Nat \ {0}
  BY EntriesOf DEF PaidFor
<1>5. ASSUME NEW p \in Players PROVE g[p] = IF p = q[k].player THEN 0 ELSE f[p]
  <2>1. CASE p = q[k].player
    <3>1. \A i \in DOMAIN r : r[i].player # p
      BY <2>1 DEF Without, PaidFor, WaitsOnce
    <3>2. QED
      BY <1>3, <2>1, <3>1
  <2>2. CASE p # q[k].player
    <3>1. CASE \E j \in DOMAIN q : q[j].player = p
      <4>1. PICK j \in DOMAIN q : q[j].player = p
        BY <3>1
      <4>2. PICK i \in DOMAIN r : r[i] = q[j]
        BY <2>2, <4>1 DEF Without
      <4>3. QED
        BY <1>2, <1>3, <2>2, <4>1, <4>2
    <3>2. CASE \A j \in DOMAIN q : q[j].player # p
      <4>1. \A i \in DOMAIN r : r[i].player # p
        BY <3>2 DEF Without
      <4>2. QED
        BY <1>2, <1>3, <2>2, <3>2, <4>1
    <3>3. QED
      BY <3>1, <3>2
  <2>3. QED
    BY <2>1, <2>2
<1>6. g = [f EXCEPT ![q[k].player] = 0]
  BY <1>2, <1>3, <1>5 DEF Holdings
<1>7. QED
  BY <1>1, <1>2, <1>4, <1>6 DEF f, g

LEMMA RemoveAtWithout ==
  ASSUME NEW q, PaidFor(q), NEW k \in 1 .. Len(q)
  PROVE  /\ RemoveAt(q, k) \in Seq(Entries) /\ WaitsOnce(RemoveAt(q, k))
         /\ Without(q, k, RemoveAt(q, k))
<1> DEFINE r == RemoveAt(q, k)
<1>1. /\ q \in Seq(Entries) /\ WaitsOnce(q)
      /\ Len(q) \in Nat /\ DOMAIN q = 1 .. Len(q)
  BY DEF PaidFor
<1>2. /\ r \in Seq(Entries) /\ Len(r) = Len(q) - 1
      /\ \A j \in 1 .. Len(q) - 1 : r[j] = IF j < k THEN q[j] ELSE q[j + 1]
  BY <1>1, RemoveAtElements
<1>3. /\ WaitsOnce(r)
      /\ \A i \in DOMAIN r : \E j \in DOMAIN q : r[i] = q[j] /\ j # k
  BY <1>1, ShorterQueue
<1> HIDE DEF r
<1>4. DOMAIN r = 1 .. Len(q) - 1
  BY <1>2
<1>5. ASSUME NEW j \in DOMAIN q, j # k PROVE \E i \in DOMAIN r : r[i] = q[j]
  <2>1. CASE j < k
    <3>1. j \in 1 .. Len(q) - 1
      BY <1>1, <2>1
    <3>2. QED
      BY <1>2, <1>4, <2>1, <3>1
  <2>2. CASE j > k
    <3>1. j - 1 \in 1 .. Len(q) - 1 /\ ~ (j - 1 < k) /\ (j - 1) + 1 = j
      BY <1>1, <2>2
    <3>2. r[j - 1] = q[j]
      BY <1>2, <3>1
    <3>3. QED
      BY <1>4, <3>1, <3>2
  <2>3. QED
    BY <1>1, <1>5, <2>1, <2>2
<1>6. QED
  BY <1>2, <1>3, <1>5 DEF Without, r

LEMMA TailWithout ==
  ASSUME NEW q, PaidFor(q), q # <<>>
  PROVE  /\ Tail(q) \in Seq(Entries) /\ WaitsOnce(Tail(q)) /\ Without(q, 1, Tail(q))
         /\ 1 \in DOMAIN q /\ Head(q) = q[1]
<1>1. /\ q \in Seq(Entries) /\ WaitsOnce(q)
      /\ Len(q) \in Nat /\ DOMAIN q = 1 .. Len(q)
  BY DEF PaidFor
<1>2. /\ Tail(q) \in Seq(Entries) /\ Len(Tail(q)) = Len(q) - 1 /\ Len(q) >= 1
      /\ Head(q) = q[1] /\ \A j \in 1 .. Len(q) - 1 : Tail(q)[j] = q[j + 1]
  BY <1>1
<1>3. /\ WaitsOnce(Tail(q))
      /\ \A i \in DOMAIN Tail(q) : \E j \in DOMAIN q : Tail(q)[i] = q[j] /\ j # 1
  BY <1>1, TailOfQueue
<1> DEFINE r == Tail(q)
<1>4. DOMAIN r = 1 .. Len(q) - 1
  BY <1>2
<1>5. \A j \in 1 .. Len(q) - 1 : r[j] = q[j + 1]
  BY <1>2
<1> HIDE DEF r
<1>6. ASSUME NEW j \in DOMAIN q, j # 1 PROVE \E i \in DOMAIN r : r[i] = q[j]
  <2>1. j - 1 \in 1 .. Len(q) - 1 /\ (j - 1) + 1 = j
    BY <1>1, <1>6
  <2>2. QED
    BY <1>4, <1>5, <2>1
<1>7. QED
  BY <1>1, <1>2, <1>3, <1>6 DEF Without, r

(* A queue with one more at its end. *)
LEMMA AppendedChips ==
  ASSUME NEW q, PaidFor(q), NEW p \in Players, \A i \in DOMAIN q : q[i].player # p,
         NEW c \in Nat \ {0}, NEW r, r = Append(q, [player |-> p, buyIn |-> c])
  PROVE  /\ PaidFor(r) /\ QueuedChips(q)[p] = 0
         /\ QueuedChips(r) = [QueuedChips(q) EXCEPT ![p] = c]
<1> DEFINE e == [player |-> p, buyIn |-> c]
           f == QueuedChips(q)
           g == QueuedChips(r)
<1>1. /\ q \in Seq(Entries) /\ WaitsOnce(q)
      /\ Len(q) \in Nat /\ DOMAIN q = 1 .. Len(q)
  BY DEF PaidFor
<1>2. e \in Entries /\ e.player = p /\ e.buyIn = c
  BY DEF Entries
<1>0. r = Append(q, e)
  OBVIOUS
<1> HIDE DEF e
<1>3. /\ r \in Seq(Entries) /\ Len(r) = Len(q) + 1
      /\ \A i \in 1 .. Len(q) : r[i] = q[i]
      /\ r[Len(q) + 1] = e
  BY <1>1, <1>2, <1>0, AppendProperties
<1>4. DOMAIN r = 1 .. Len(q) + 1
  BY <1>3
<1>5. \A i \in DOMAIN r : IF i = Len(q) + 1 THEN r[i] = e
                          ELSE i \in DOMAIN q /\ r[i] = q[i]
  BY <1>1, <1>3, <1>4
<1>6. WaitsOnce(r)
  BY <1>1, <1>2, <1>5 DEF WaitsOnce
<1>7. \A i \in DOMAIN r : r[i].buyIn \in Nat \ {0}
  BY <1>2, <1>5 DEF PaidFor
<1>8. PaidFor(r)
  BY <1>3, <1>6, <1>7 DEF PaidFor
<1>9. /\ f \in Holdings
      /\ \A i \in DOMAIN q : f[q[i].player] = q[i].buyIn
      /\ \A x \in Players : (\A i \in DOMAIN q : q[i].player # x) => f[x] = 0
  BY QueuedChipsAre
<1>10. /\ g \in Holdings
       /\ \A i \in DOMAIN r : g[r[i].player] = r[i].buyIn
       /\ \A x \in Players : (\A i \in DOMAIN r : r[i].player # x) => g[x] = 0
  BY <1>8, QueuedChipsAre
<1> HIDE DEF f, g
<1>11. Len(q) + 1 \in DOMAIN r
  BY <1>1, <1>4
<1>12. g[p] = c
  BY <1>2, <1>3, <1>10, <1>11
<1>13. ASSUME NEW x \in Players, x # p PROVE g[x] = f[x]
  <2>1. CASE \E i \in DOMAIN q : q[i].player = x
    <3>1. PICK i \in DOMAIN q : q[i].player = x
      BY <2>1
    <3>2. i \in DOMAIN r /\ r[i] = q[i]
      BY <1>1, <1>3, <1>4
    <3>3. QED
      BY <1>9, <1>10, <3>1, <3>2
  <2>2. CASE \A i \in DOMAIN q : q[i].player # x
    <3>1. \A i \in DOMAIN r : r[i].player # x
      BY <1>2, <1>5, <1>13, <2>2
    <3>2. QED
      BY <1>9, <1>10, <2>2, <3>1
  <2>3. QED
    BY <2>1, <2>2
<1>14. g = [f EXCEPT ![p] = c]
  BY <1>9, <1>10, <1>12, <1>13 DEF Holdings
<1>15. QED
  BY <1>8, <1>9, <1>14 DEF f, g

-----------------------------------------------------------------------------
(* The table implements the escrow, kind of step by kind of step. *)
EscrowStep == [Escrow!Next]_(Escrow!vars)

(* What the players of a table have staked on the hand in progress. *)
StakedIn(s) == [p \in Players |-> IF HandLive(s) THEN s.committed[p] ELSE 0]

LEMMA StakedIs == Staked = StakedIn(t) /\ Staked' = StakedIn(t')
  BY DEF Staked, StakedIn, HandLive

LEMMA StakedInIs ==
  ASSUME NEW s, Money(s)
  PROVE  /\ StakedIn(s) \in Holdings
         /\ HandLive(s) => StakedIn(s) = s.committed
         /\ ~ HandLive(s) => StakedIn(s) = NoChips
<1>1. s.committed \in [Players -> Nat]
  BY DEF Money, Holdings
<1>2. StakedIn(s) \in Holdings
  BY <1>1 DEF StakedIn, Holdings
<1>3. QED
  BY <1>1, <1>2 DEF StakedIn, NoChips

LEMMA EscrowTotal ==
  ASSUME NEW f PROVE Escrow!Total(f) = SumOver(f, Players)
  BY DEF Escrow!Total, Escrow!SumFunctionOnSet, SumFunctionOnSet,
         Escrow!FoldFunctionOnSet, FoldFunctionOnSet, MapThenFoldSet,
         Escrow!MapThenFoldSet, SumOver

LEMMA NoChipsSum == SumOver(NoChips, Players) = 0 /\ NoChips \in Holdings
<1>1. \A p \in Players : NoChips[p] = 0
  BY DEF NoChips
<1>2. SumFunctionOnSet(NoChips, Players) = 0
  BY <1>1, TableAssumption, SumZero
<1>3. QED
  BY <1>2 DEF SumOver, NoChips, Holdings

(* Accounts outside the table are left alone. *)
Inside == UNCHANGED <<wallet, escrow, queue, paidOut>>

LEMMA StutterIsEscrow ==
  ASSUME Inside, Staked' = Staked, t'.stack = t.stack, t'.rake = t.rake,
         t'.jackpot = t.jackpot
  PROVE  EscrowStep
  BY DEF EscrowStep, Escrow!vars, Inside

(* Chips that only go from a player's stack to her stake are a wager. *)
LEMMA WagerIsEscrow ==
  ASSUME Money(t), Money(t'), Inside, t'.rake = t.rake, t'.jackpot = t.jackpot,
         \A p \in Players :
           /\ StakedIn(t')[p] >= StakedIn(t)[p]
           /\ t'.stack[p] + StakedIn(t')[p] = t.stack[p] + StakedIn(t)[p]
  PROVE  EscrowStep
<1>1. t'.stack \in Holdings /\ StakedIn(t') \in Holdings
  BY StakedInIs DEF Money
<1>2. Escrow!Wager
  BY <1>1, StakedIs DEF Escrow!Wager, Escrow!Chips, Holdings, Inside
<1>3. QED
  BY <1>2 DEF EscrowStep, Escrow!Next

(* A settlement with something at stake. *)
LEMMA SettleIsEscrow ==
  ASSUME Money(t), HandLive(t), Awards(t, t'), Inside, t.committed # NoChips
  PROVE  EscrowStep
<1>1. Staked = t.committed /\ Money(t')
  BY StakedIs, StakedInIs DEF Awards
<1>2. Staked' = NoChips
  BY <1>1, StakedIs, StakedInIs DEF Awards, HandLive, BetweenHandsPhases
<1>3. ~ Escrow!BetweenHands /\ Escrow!Nothing = NoChips
  BY <1>1 DEF Escrow!BetweenHands, Escrow!Nothing, NoChips
<1>4. /\ Escrow!Total(Staked) = SumOver(t.committed, Players)
      /\ Escrow!Total(t.stack) = SumOver(t.stack, Players)
      /\ Escrow!Total(t'.stack) = SumOver(t'.stack, Players)
  BY <1>1, EscrowTotal
<1>5. /\ t'.stack \in [Players -> Nat] /\ t'.rake \in Nat /\ t'.jackpot \in Nat
  BY <1>1 DEF Money, Holdings
<1>6. /\ \A p \in Players : t'.stack[p] >= t.stack[p]
      /\ t'.rake >= t.rake
      /\ (t'.rake + t'.jackpot) - (t.rake + t.jackpot)
           <= (Escrow!Total(Staked) * RakeBps) \div 10000
      /\ Escrow!Total(t'.stack) + t'.rake + t'.jackpot
           = Escrow!Total(t.stack) + Escrow!Total(Staked) + t.rake + t.jackpot
  <2>1. /\ \A p \in Players : t'.stack[p] >= t.stack[p]
        /\ t'.rake >= t.rake
        /\ (t'.rake + t'.jackpot) - (t.rake + t.jackpot)
             <= (SumOver(t.committed, Players) * RakeBps) \div 10000
        /\ SumOver(t'.stack, Players) + t'.rake + t'.jackpot
             = SumOver(t.stack, Players) + SumOver(t.committed, Players)
                 + t.rake + t.jackpot
    BY DEF Awards
  <2>2. QED
    BY <1>4, <2>1
<1>7. /\ wallet' = wallet /\ escrow' = escrow /\ paidOut' = paidOut
      /\ QueuedChips(queue)' = QueuedChips(queue)
  BY DEF Inside
<1>8. Escrow!Settle
  BY <1>2, <1>3, <1>5, <1>6, <1>7 DEF Escrow!Settle, Escrow!Chips
<1>9. QED
  BY <1>8 DEF EscrowStep, Escrow!Next

(* A hand that goes on, or ends by a fold. *)
LEMMA HandIsEscrow ==
  ASSUME Money(t), PotInStep(t), HandLive(t), Inside, FoldEnds(t, t') \/ GoesOn(t, t')
  PROVE  Money(t') /\ EscrowStep
<1>1. CASE GoesOn(t, t')
  <2>1. Wagering(t, t') /\ Money(t') /\ HandLive(t')
    BY <1>1 DEF GoesOn, Continues, Wagering
  <2>2. StakedIn(t) = t.committed /\ StakedIn(t') = t'.committed
    BY <2>1, StakedInIs
  <2>3. QED
    BY <2>1, <2>2, WagerIsEscrow DEF Wagering
<1>2. CASE FoldEnds(t, t')
  <2>1. Awards(t, t') /\ Money(t') /\ t'.phase = "Settlement"
    BY <1>2 DEF FoldEnds, Awards
  <2>2. CASE t.committed # NoChips
    BY <2>1, <2>2, SettleIsEscrow
  <2>3. CASE t.committed = NoChips
    <3>1. t.pot = 0
      BY <2>3, NoChipsSum DEF PotInStep
    <3>2. t'.stack = t.stack /\ t'.rake = t.rake /\ t'.jackpot = t.jackpot
      BY <1>2, <3>1 DEF FoldEnds
    <3>3. ~ HandLive(t')
      BY <2>1 DEF HandLive, BetweenHandsPhases
    <3>4. Staked' = Staked
      BY <2>1, <2>3, <3>3, StakedIs, StakedInIs
    <3>5. QED
      BY <2>1, <3>2, <3>4, StutterIsEscrow
  <2>4. QED
    BY <2>2, <2>3
<1>3. QED
  BY <1>1, <1>2

(* Between hands nothing is staked, before the step or after it. *)
LEMMA NothingStaked ==
  ASSUME Money(t), ~ HandLive(t) PROVE Staked = NoChips /\ Escrow!BetweenHands
  BY StakedIs, StakedInIs DEF Escrow!BetweenHands, Escrow!Nothing, NoChips

(* The invariant of the accounts. *)
ChipInv == Money(t) /\ PaidFor(queue) /\ wallet \in Holdings /\ paidOut \in Nat

LEMMA NoWalletsInside ==
  ASSUME ChipInv, Inside, Money(t') PROVE ChipInv'
  BY DEF ChipInv, Inside

TableInv == PotInv /\ SeatsInv /\ ChipInv

(* The steps inside a hand: it goes on, or a fold ends it. *)
HandMoves == HandLive(t) /\ Inside /\ (FoldEnds(t, t') \/ GoesOn(t, t'))

LEMMA MovesAreEscrow ==
  ASSUME TableInv, HandMoves PROVE ChipInv' /\ EscrowStep
<1>1. Money(t) /\ PotInStep(t)
  BY DEF TableInv, ChipInv, PotInv, Sound
<1>2. Money(t') /\ EscrowStep
  BY <1>1, HandIsEscrow DEF HandMoves
<1>3. QED
  BY <1>2, NoWalletsInside DEF TableInv, HandMoves

LEMMA FrameInside == ASSUME HandFrame PROVE Inside
  BY DEF HandFrame, Inside, moneyVars, seatVars

LEMMA BettingMoves == ASSUME TableInv, BettingNext PROVE HandMoves
<1>0. Money(t) /\ PotInStep(t) /\ Seating(t)
  BY DEF TableInv, ChipInv, PotInv, SeatsInv, Sound
<1>1. PICK p \in Players :
         \/ PlayerFolds(p) \/ PlayerChecks(p) \/ PlayerCalls(p)
         \/ PlayerBets(p) \/ PlayerRaises(p) \/ PlayerAllIn(p)
  BY DEF BettingNext
<1>2. PICK a \in Nat :
         /\ MayAct(t, p) /\ HandFrame
         /\ t' \in Fold(t, p) \cup Check(t, p) \cup Call(t, p) \cup AllIn(t, p)
                     \cup Bet(t, p, a) \cup Raise(t, p, a)
  <2>1. CASE PlayerFolds(p) \/ PlayerChecks(p) \/ PlayerCalls(p) \/ PlayerAllIn(p)
    <3>1. /\ MayAct(t, p) /\ HandFrame
          /\ t' \in Fold(t, p) \cup Check(t, p) \cup Call(t, p) \cup AllIn(t, p)
      BY <2>1 DEF PlayerFolds, PlayerChecks, PlayerCalls, PlayerAllIn, PlayerAction,
                  Outcome
    <3>2. 0 \in Nat
      OBVIOUS
    <3>3. QED
      BY <3>1, <3>2
  <2>2. CASE PlayerBets(p)
    <3>1. PICK a \in BetSizes : PlayerAction(p, Bet(t, p, a))
      BY <2>2 DEF PlayerBets
    <3>2. a \in Nat
      BY TableAssumption
    <3>3. QED
      BY <3>1, <3>2 DEF PlayerAction, Outcome
  <2>3. CASE PlayerRaises(p)
    <3>1. PICK a \in BetSizes : PlayerAction(p, Raise(t, p, a))
      BY <2>3 DEF PlayerRaises
    <3>2. a \in Nat
      BY TableAssumption
    <3>3. QED
      BY <3>1, <3>2 DEF PlayerAction, Outcome
  <2>4. QED
    BY <1>1, <2>1, <2>2, <2>3
<1>3. FoldEnds(t, t') \/ GoesOn(t, t')
  BY <1>0, <1>2, BettingChips
<1>4. HandLive(t)
  BY <1>2 DEF MayAct, HandLive, BettingPhases, BetweenHandsPhases
<1>5. QED
  BY <1>2, <1>3, <1>4, FrameInside DEF HandMoves

LEMMA TimeoutMoves == ASSUME TableInv, TimeoutNext PROVE HandMoves
<1>0. Money(t) /\ PotInStep(t) /\ Seating(t)
  BY DEF TableInv, ChipInv, PotInv, SeatsInv, Sound
<1>1. PICK d : HandFrame /\ MayTimeOut(t) /\ t' = FoldStalling(t, d)
  BY DEF TimeoutNext, ClaimTimeout, ForceFoldBy, Outcome, ProcessTimeout, ForceFold
<1>2. FoldEnds(t, t') \/ GoesOn(t, t')
  BY <1>0, <1>1, FoldStallingChips
<1>3. HandLive(t)
  BY <1>1 DEF MayTimeOut, HandLive, BettingPhases, BetweenHandsPhases
<1>4. QED
  BY <1>1, <1>2, <1>3, FrameInside DEF HandMoves

(* A live hand whose clock, turn or street moves, but none of whose chips, and
   that leaves no betting round, goes on. *)
LEMMA SameChipsMoves ==
  ASSUME Money(t), HandLive(t), HandLive(t'), Inside, SameChips(t, t'),
         t'.phase = t.phase \/ t.phase \notin BettingPhases
  PROVE  HandMoves
<1>1. Wagering(t, t') /\ t'.folded = t.folded
  BY SameChipsWagers DEF SameChips
<1>2. QED
  BY <1>1 DEF HandMoves, GoesOn, Continues

LEMMA StreetMoves ==
  ASSUME TableInv, CommitDeal \/ RevealBoard \/ RunItTwiceNext PROVE HandMoves
<1>0. Money(t) /\ Seating(t) /\ MoneyFields \subseteq DOMAIN t
  BY DEF TableInv, ChipInv, SeatsInv, Money
<1>1. CASE CommitDeal
  <2>1. /\ SameChips(t, t') /\ t.phase = "Dealing" /\ t'.phase = "Preflop"
        /\ HandFrame
    BY <1>0, <1>1 DEF CommitDeal, SameChips, MoneyFields
  <2>2. HandLive(t) /\ HandLive(t') /\ t.phase \notin BettingPhases
    BY <2>1 DEF HandLive, BetweenHandsPhases, BettingPhases
  <2>3. QED
    BY <1>0, <2>1, <2>2, FrameInside, SameChipsMoves
<1>2. CASE RevealBoard
  <2> DEFINE r == [t EXCEPT !.board = @ + CardsDealt(t), !.phase = Street[@], !.idle = 0]
  <2>1. t' = ResetRound(r) /\ t.phase \in DealingPhases /\ HandFrame
    BY <1>2 DEF RevealBoard
  <2>2. /\ SameChips(t, r) /\ SameSeats(t, r) /\ r.phase = Street[t.phase]
    BY <1>0 DEF SameChips, SameSeats, MoneyFields, Seating
  <2> HIDE DEF r
  <2>3. HandLive(t) /\ t.phase \notin BettingPhases
    BY <2>1 DEF HandLive, DealingPhases, BetweenHandsPhases, BettingPhases
  <2>4. Seating(r) /\ r.phase \in BettingPhases
    BY <1>0, <2>1, <2>2, <2>3, SameSeatsKeep
    DEF Street, DealingPhases, BettingPhases, SameChips
  <2>5. Wagering(t, r) /\ Money(r) /\ r.folded = t.folded
    BY <1>0, <2>2, SameChipsWagers DEF SameChips, Wagering
  <2>6. Wagering(r, t') /\ t'.folded = r.folded /\ HandLive(t')
    BY <2>1, <2>4, <2>5, ResetRoundChips, ResetRoundSeats
  <2>7. Wagering(t, t')
    BY <1>0, <2>5, <2>6, WageringChains
  <2>8. QED
    BY <2>1, <2>3, <2>5, <2>6, <2>7, FrameInside DEF HandMoves, GoesOn, Continues
<1>3. ASSUME NEW p \in Players, DeclineRunItTwice(p) PROVE HandMoves
  <2>1. /\ SameChips(t, t') /\ t'.phase = ResumedPhase(t.board)
        /\ t.phase = "AwaitingRunItTwice" /\ HandFrame
    BY <1>0, <1>3 DEF DeclineRunItTwice, MayDecideRunItTwice, SameChips, MoneyFields
  <2>2. HandLive(t) /\ HandLive(t') /\ t.phase \notin BettingPhases
    BY <2>1 DEF ResumedPhase, HandLive, BetweenHandsPhases, BettingPhases
  <2>3. QED
    BY <1>0, <2>1, <2>2, FrameInside, SameChipsMoves
<1>4. ASSUME NEW p \in Players, OptInRunItTwice(p) PROVE HandMoves
  <2>1. /\ SameChips(t, t') /\ t'.phase = t.phase
        /\ t.phase = "AwaitingRunItTwice" /\ HandFrame
    BY <1>0, <1>4 DEF OptInRunItTwice, MayDecideRunItTwice, SameChips, MoneyFields
  <2>2. HandLive(t) /\ HandLive(t')
    BY <2>1 DEF HandLive, BetweenHandsPhases
  <2>3. QED
    BY <1>0, <2>1, <2>2, FrameInside, SameChipsMoves
<1>5. QED
  BY <1>1, <1>2, <1>3, <1>4 DEF RunItTwiceNext

(* The steps that touch neither the chips nor the rest of the hand. *)
LEMMA IdleSteps ==
  ASSUME TableInv, StraddleNext \/ GuardNext \/ ProposeClosure \/ Tick \/ UNCHANGED vars
  PROVE  /\ Inside /\ SameChips(t, t') /\ t'.phase = t.phase
         /\ HandLive(t) => HandMoves
<1>0. Money(t) /\ MoneyFields \subseteq DOMAIN t
  BY DEF TableInv, ChipInv, Money
<1>1. Inside /\ SameChips(t, t') /\ t'.phase = t.phase
  <2>1. ASSUME UNCHANGED t, Inside
        PROVE  Inside /\ SameChips(t, t') /\ t'.phase = t.phase
    BY <2>1 DEF SameChips
  <2>2. CASE StraddleNext
    BY <2>1, <2>2
    DEF StraddleNext, PostStraddle, CancelStraddle, Inside, moneyVars, seatVars
  <2>3. CASE GuardNext
    BY <2>1, <2>3
    DEF GuardNext, Pause, Unpause, Ban, Unban, handVars, Inside, moneyVars, seatVars
  <2>4. CASE ProposeClosure
    BY <2>1, <2>4 DEF ProposeClosure, handVars, Inside, moneyVars, seatVars
  <2>5. CASE UNCHANGED vars
    BY <2>1, <2>5 DEF vars, handVars, Inside, moneyVars, seatVars
  <2>6. CASE Tick
    <3>1. SameChips(t, t') /\ t'.phase = t.phase
      BY <1>0, <2>6 DEF Tick, SameChips, MoneyFields
    <3>2. Inside
      BY <2>6 DEF Tick, Inside, moneyVars, seatVars
    <3>3. QED
      BY <3>1, <3>2
  <2>7. QED
    BY <2>2, <2>3, <2>4, <2>5, <2>6
<1>2. ASSUME HandLive(t) PROVE HandMoves
  BY <1>0, <1>1, <1>2, SameChipsMoves DEF HandLive
<1>3. QED
  BY <1>1, <1>2

LEMMA IdleIsEscrow ==
  ASSUME TableInv, StraddleNext \/ GuardNext \/ ProposeClosure \/ Tick \/ UNCHANGED vars
  PROVE  ChipInv' /\ EscrowStep
<1>1. Inside /\ SameChips(t, t') /\ t'.phase = t.phase /\ Money(t)
  BY IdleSteps DEF TableInv, ChipInv
<1>2. Money(t')
  BY <1>1, SameChipsWagers DEF Wagering
<1>3. Staked' = Staked
  BY <1>1, StakedIs DEF StakedIn, SameChips, HandLive
<1>4. QED
  BY <1>1, <1>2, <1>3, StutterIsEscrow, NoWalletsInside DEF TableInv, SameChips

(* A showdown where somebody who is still in has staked something. *)
LEMMA ShowdownStep ==
  ASSUME TableInv, SubmitShowdown
  PROVE  /\ ChipInv' /\ HandLive(t) /\ ~ HandLive(t') /\ Inside /\ NotToFolded(t, t')
         /\ TopLevel(t) # 0 => EscrowStep
<1>0. Money(t)
  BY DEF TableInv, ChipInv
<1>1. PICK best \in (SUBSET Seated(t)) \ {{}}, triggered \in BOOLEAN :
        \E loser \in (Seated(t) \ {FirstSeat(t, best)}) \cup {Nobody} :
          Outcome(SettleShowdown(t, best, loser, triggered))
  BY DEF SubmitShowdown
<1>2. PICK loser \in (Seated(t) \ {FirstSeat(t, best)}) \cup {Nobody} :
        t' \in SettleShowdown(t, best, loser, triggered)
  BY <1>1 DEF Outcome
<1>3. best \in SUBSET Seated(t) /\ best # {}
  BY <1>1
<1>4. /\ Money(t') /\ t'.phase = "Settlement" /\ NotToFolded(t, t')
      /\ TopLevel(t) # 0 => Awards(t, t')
  <2>1. ASSUME NEW r, r \in SettleShowdown(t, best, loser, triggered)
        PROVE  /\ Money(r) /\ r.phase = "Settlement" /\ NotToFolded(t, r)
               /\ TopLevel(t) # 0 => Awards(t, r)
    <3>1. loser \in (Seated(t) \ {FirstSeat(t, best)}) \cup {Nobody}
      BY <1>2
    <3> QED
      BY <1>0, <1>3, <2>1, <3>1, SettleShowdownChips
  <2>2. QED
    BY <1>2, <2>1
<1>5. HandLive(t) /\ ~ HandLive(t') /\ Inside
  BY <1>4, FrameInside DEF SubmitShowdown, HandLive, BetweenHandsPhases
<1>6. ASSUME TopLevel(t) # 0 PROVE t.committed # NoChips
  <2>1. SUFFICES ASSUME t.committed = NoChips PROVE TopLevel(t) = 0
    BY <1>6
  <2>2. Live(t) \subseteq Players
    BY <1>0, SeatedArePlayers DEF Live, Money
  <2>3. {0} \cup {t.committed[p] : p \in Live(t)} = {0}
    BY <2>1, <2>2 DEF NoChips
  <2>4. IsFiniteSet({0})
    BY FS_Singleton
  <2>5. Max({0}) \in {0}
    BY <2>4, MaxIn
  <2>6. QED
    BY <2>3, <2>5 DEF TopLevel
<1>7. ASSUME TopLevel(t) # 0 PROVE EscrowStep
  BY <1>0, <1>4, <1>5, <1>6, <1>7, SettleIsEscrow
<1>8. ChipInv'
  BY <1>4, <1>5, NoWalletsInside DEF TableInv
<1>9. QED
  BY <1>4, <1>5, <1>7, <1>8

LEMMA StartStep == ASSUME TableInv, StartHand PROVE ChipInv' /\ EscrowStep
<1>0. Money(t) /\ Seating(t)
  BY DEF TableInv, ChipInv, SeatsInv
<1>1. pending.seat \in Int /\ pending.seat >= NoSeat
  BY DEF TableInv, PotInv
<1>2. ~ HandLive(t) /\ t' \in StartNewHand(t, pending.seat) /\ Inside
  BY DEF StartHand, Inside, moneyVars, seatVars
<1>3. /\ Money(t') /\ t'.rake = t.rake /\ t'.jackpot = t.jackpot
      /\ \A p \in Players : t'.stack[p] + t'.committed[p] = t.stack[p]
  BY <1>0, <1>1, <1>2, StartNewHandWagers
<1>4. HandLive(t')
  BY <1>0, <1>1, <1>2, StartNewHandSeats
<1>5. StakedIn(t) = NoChips /\ StakedIn(t') = t'.committed
  BY <1>0, <1>2, <1>3, <1>4, StakedInIs
<1>6. \A p \in Players : /\ NoChips[p] = 0 /\ t.stack[p] \in Nat
                         /\ t'.committed[p] \in Nat
  BY <1>0, <1>3 DEF NoChips, Money, Holdings
<1>7. \A p \in Players :
        /\ StakedIn(t')[p] >= StakedIn(t)[p]
        /\ t'.stack[p] + StakedIn(t')[p] = t.stack[p] + StakedIn(t)[p]
  BY <1>3, <1>5, <1>6
<1>8. EscrowStep
  BY <1>0, <1>2, <1>3, <1>7, WagerIsEscrow
<1>9. QED
  BY <1>2, <1>3, <1>8, NoWalletsInside DEF TableInv

-----------------------------------------------------------------------------
(* Seats. *)
LEMMA DepositIsEscrow ==
  ASSUME TableInv, Money(t'), ~ HandLive(t), ~ HandLive(t'),
         NEW p \in Players, NEW c \in Nat \ {0}, Charge(p, c),
         t'.stack = [t.stack EXCEPT ![p] = @ + c],
         t'.rake = t.rake, t'.jackpot = t.jackpot, UNCHANGED <<queue, paidOut>>
  PROVE  ChipInv' /\ EscrowStep
<1>1. /\ t.stack \in [Players -> Nat] /\ t'.stack \in [Players -> Nat]
      /\ wallet \in [Players -> Nat] /\ PaidFor(queue) /\ paidOut \in Nat /\ Money(t)
  BY DEF TableInv, ChipInv, Money, Holdings
<1>2. /\ wallet[p] \in Nat /\ t.stack[p] \in Nat /\ t'.stack[p] = t.stack[p] + c
  BY <1>1
<1>3. Staked = NoChips /\ Staked' = NoChips /\ Escrow!BetweenHands
  BY <1>1, NothingStaked, StakedIs, StakedInIs
<1>4. t'.stack[p] - t.stack[p] = c /\ t'.stack[p] > t.stack[p]
  BY <1>2
<1>5. t'.stack = [t.stack EXCEPT ![p] = t'.stack[p]]
  BY <1>1, <1>2
<1>6. /\ wallet[p] >= c /\ wallet' = [wallet EXCEPT ![p] = @ - c]
      /\ escrow' = escrow + c
  BY DEF Charge
<1>7. wallet' \in Holdings
  BY <1>1, <1>2, <1>6 DEF Holdings
<1>8. QueuedChips(queue)' = QueuedChips(queue)
  OBVIOUS
<1>9. Escrow!Deposit(p)
  BY <1>1, <1>3, <1>4, <1>5, <1>6, <1>8 DEF Escrow!Deposit, Escrow!Chips
<1>10. EscrowStep
  BY <1>9 DEF EscrowStep, Escrow!Next
<1>11. QED
  BY <1>1, <1>7, <1>10 DEF ChipInv

LEMMA JoinStep ==
  ASSUME TableInv, NEW p \in Players, NEW c \in BuyIns, JoinTable(p, c)
  PROVE  ChipInv' /\ EscrowStep
<1>0. Money(t) /\ Seating(t) /\ c \in Nat \ {0}
  BY TableAssumption DEF TableInv, ChipInv, SeatsInv
<1>1. /\ p \notin Seated(t) /\ ~ HandLive(t) /\ SeatCount(t) < MaxPlayers
      /\ t' = SatDown(t, p, c) /\ Charge(p, c) /\ UNCHANGED <<queue, paidOut>>
  BY DEF JoinTable, MayJoin, HandLive, BetweenHandsPhases
<1>2. /\ Money(t') /\ t'.stack = [t.stack EXCEPT ![p] = c] /\ t.stack[p] = 0
      /\ t'.rake = t.rake /\ t'.jackpot = t.jackpot /\ t'.phase = t.phase
  BY <1>0, <1>1, SatDownChips
<1>3. t'.stack = [t.stack EXCEPT ![p] = @ + c]
  BY <1>0, <1>2
<1>4. ~ HandLive(t')
  BY <1>1, <1>2 DEF HandLive
<1>5. QED
  BY <1>0, <1>1, <1>2, <1>3, <1>4, DepositIsEscrow

LEMMA RebuyStep ==
  ASSUME TableInv, NEW p \in Players, NEW c \in BuyIns, Rebuy(p, c)
  PROVE  ChipInv' /\ EscrowStep
<1>0. Money(t) /\ c \in Nat \ {0}
  BY TableAssumption DEF TableInv, ChipInv
<1>1. /\ p \in Seated(t) /\ ~ HandLive(t)
      /\ t' = Credit(t, p, c) /\ Charge(p, c) /\ UNCHANGED <<queue, paidOut>>
  BY DEF Rebuy
<1>2. /\ Money(t') /\ t'.stack = [t.stack EXCEPT ![p] = @ + c]
      /\ t'.rake = t.rake /\ t'.jackpot = t.jackpot /\ t'.phase = t.phase
  BY <1>0, <1>1, CreditChips
<1>3. ~ HandLive(t')
  BY <1>1, <1>2 DEF HandLive
<1>4. QED
  BY <1>0, <1>1, <1>2, <1>3, DepositIsEscrow

LEMMA QueueStep ==
  ASSUME TableInv, NEW p \in Players, NEW c \in BuyIns, JoinQueue(p, c)
  PROVE  ChipInv' /\ EscrowStep
<1>0. /\ Money(t) /\ c \in Nat \ {0} /\ PaidFor(queue) /\ wallet \in [Players -> Nat]
      /\ paidOut \in Nat
  BY TableAssumption DEF TableInv, ChipInv, Holdings
<1>1. /\ p \notin Queued /\ ~ HandLive(t) /\ Charge(p, c)
      /\ queue' = Append(queue, [player |-> p, buyIn |-> c])
      /\ t' = t /\ paidOut' = paidOut
  BY DEF JoinQueue, MayJoin, HandLive, BetweenHandsPhases, handVars
<1>2. \A i \in DOMAIN queue : queue[i].player # p
  BY <1>1 DEF Queued
<1>3. /\ PaidFor(queue') /\ QueuedChips(queue)[p] = 0
      /\ QueuedChips(queue') = [QueuedChips(queue) EXCEPT ![p] = c]
  BY <1>0, <1>1, <1>2, AppendedChips
<1>4. QueuedChips(queue) \in [Players -> Nat] /\ QueuedChips(queue') \in [Players -> Nat]
  BY <1>0, <1>3, QueuedChipsAre DEF Holdings
<1>5. QueuedChips(queue)' = QueuedChips(queue')
  OBVIOUS
<1> DEFINE f == QueuedChips(queue)
           g == QueuedChips(queue')
<1>6. /\ f \in [Players -> Nat] /\ g \in [Players -> Nat] /\ f[p] = 0
      /\ g = [f EXCEPT ![p] = c]
  BY <1>3, <1>4
<1> HIDE DEF f, g
<1>7. g[p] = c /\ c > 0 /\ g = [f EXCEPT ![p] = g[p]]
  BY <1>0, <1>6
<1>8. /\ wallet[p] >= c /\ wallet' = [wallet EXCEPT ![p] = @ - c]
      /\ escrow' = escrow + c
  BY <1>1 DEF Charge
<1>9. wallet' \in Holdings
  BY <1>0, <1>8 DEF Holdings
<1>10. Staked' = Staked /\ Escrow!BetweenHands
  BY <1>0, <1>1, NothingStaked, StakedIs
<1>11. Escrow!Enqueue(p)
  <2>1. QueuedChips(queue) = f /\ QueuedChips(queue)' = g
    BY DEF f, g
  <2>2. QED
    BY <1>1, <1>6, <1>7, <1>8, <1>10, <2>1 DEF Escrow!Enqueue, Escrow!Chips
<1>12. EscrowStep
  BY <1>11 DEF EscrowStep, Escrow!Next
<1>13. QED
  BY <1>0, <1>1, <1>3, <1>9, <1>12 DEF ChipInv

LEMMA LeaveQueueStep ==
  ASSUME TableInv, NEW p \in Players, LeaveQueue(p)
  PROVE  ChipInv' /\ EscrowStep
<1> DEFINE k == QueuePosition(queue, p)
           f == QueuedChips(queue)
           g == QueuedChips(queue')
<1>0. /\ Money(t) /\ PaidFor(queue) /\ wallet \in [Players -> Nat] /\ paidOut \in Nat
  BY DEF TableInv, ChipInv, Holdings
<1>1. /\ p \in Queued /\ Pay(p, f[p]) /\ queue' = RemoveAt(queue, k)
      /\ t' = t /\ paidOut' = paidOut
  BY DEF LeaveQueue, handVars
<1>2. k \in DOMAIN queue /\ queue[k].player = p
  BY <1>1 DEF QueuePosition, Queued
<1> HIDE DEF k
<1>3. k \in 1 .. Len(queue)
  BY <1>0, <1>2 DEF PaidFor
<1>4. /\ queue' \in Seq(Entries) /\ WaitsOnce(queue') /\ Without(queue, k, queue')
  BY <1>0, <1>1, <1>3, RemoveAtWithout
<1>5. /\ PaidFor(queue') /\ g = [f EXCEPT ![p] = 0]
      /\ f[p] = queue[k].buyIn /\ queue[k].buyIn \in Nat \ {0}
  BY <1>0, <1>2, <1>4, WithoutChips
<1>6. QueuedChips(queue)' = g /\ QueuedChips(queue) = f
  OBVIOUS
<1> HIDE DEF f, g
<1>7. wallet' = [wallet EXCEPT ![p] = @ + f[p]] /\ escrow' = escrow - f[p] /\ f[p] > 0
  BY <1>1, <1>5 DEF Pay
<1>8. wallet' \in Holdings
  BY <1>0, <1>5, <1>7 DEF Holdings
<1>9. Staked' = Staked
  BY <1>1, StakedIs
<1>10. Escrow!Dequeue(p)
  BY <1>1, <1>5, <1>6, <1>7, <1>9 DEF Escrow!Dequeue
<1>11. EscrowStep
  BY <1>10 DEF EscrowStep, Escrow!Next
<1>12. QED
  BY <1>0, <1>1, <1>5, <1>8, <1>11 DEF ChipInv

(* Who leaves takes her stack; the chips of whoever is seated for her were in the
   queue. *)
LEMMA LeaveStep ==
  ASSUME TableInv, NEW p \in Players, LeaveTable(p)
  PROVE  ChipInv' /\ EscrowStep
<1> DEFINE left == Vacated(t, p)
           next == Head(queue)
           f == QueuedChips(queue)
           g == QueuedChips(queue')
<1>0. /\ Money(t) /\ Seating(t) /\ PaidFor(queue) /\ wallet \in [Players -> Nat]
      /\ paidOut \in Nat /\ Queued \cap Seated(t) = {}
      /\ SeatCount(t) \in Nat
  BY DEF TableInv, ChipInv, SeatsInv, Seating, SeatCount, Holdings
<1>1. /\ p \in Seated(t) /\ ~ HandLive(t) /\ Pay(p, t.stack[p]) /\ paidOut' = paidOut
      /\ SeatNextFromQueue(left, [rebuys EXCEPT ![p] = 0])
  BY DEF LeaveTable
<1>2. /\ Money(left) /\ left.stack = [t.stack EXCEPT ![p] = 0]
      /\ left.rake = t.rake /\ left.jackpot = t.jackpot /\ left.phase = t.phase
  BY <1>0, <1>1, VacatedChips
<1>3. /\ Seating(left) /\ SeatCount(left) = SeatCount(t) - 1
      /\ Seated(left) = Seated(t) \ {p} /\ ~ HandLive(left)
  BY <1>0, <1>1, VacatedSeats
<1>4. SeatCount(left) < MaxPlayers
  BY <1>0, <1>3, TableAssumption DEF Seating
<1> HIDE DEF left
<1>5. /\ t.stack \in [Players -> Nat] /\ t.stack[p] \in Nat
      /\ wallet' = [wallet EXCEPT ![p] = @ + t.stack[p]]
      /\ escrow' = escrow - t.stack[p]
  BY <1>0, <1>1 DEF Money, Pay, Holdings
<1>6. wallet' \in Holdings
  BY <1>0, <1>5 DEF Holdings
<1>7. QueuedChips(queue)' = g /\ QueuedChips(queue) = f
  OBVIOUS
<1>8. SUFFICES ASSUME ~ HandLive(t') /\ Money(t') /\ PaidFor(queue')
                        /\ t'.rake = t.rake /\ t'.jackpot = t.jackpot
                        /\ \/ t'.stack = [t.stack EXCEPT ![p] = 0] /\ queue' = queue
                           \/ \E q \in Players \ {p} :
                                /\ f[q] > 0
                                /\ t'.stack = [t.stack EXCEPT ![p] = 0,
                                                              ![q] = @ + f[q]]
                                /\ g = [f EXCEPT ![q] = 0]
               PROVE  ChipInv' /\ EscrowStep
  <2>1. CASE queue = <<>>
    <3>1. t' = left /\ queue' = queue
      BY <1>1, <2>1 DEF SeatNextFromQueue
    <3>2. QED
      BY <1>0, <1>2, <1>3, <1>8, <3>1
  <2>2. CASE queue # <<>>
    <3>1. ~ (queue = <<>> \/ SeatCount(left) >= MaxPlayers)
      BY <1>0, <1>3, <1>4, <2>2, TableAssumption
    <3>2. t' = SatDown(left, next.player, next.buyIn) /\ queue' = Tail(queue)
      BY <1>1, <3>1 DEF SeatNextFromQueue
    <3>3. /\ queue' \in Seq(Entries) /\ WaitsOnce(queue') /\ Without(queue, 1, queue')
          /\ 1 \in DOMAIN queue /\ next = queue[1]
      BY <1>0, <2>2, <3>2, TailWithout
    <3> HIDE DEF next
    <3>4. /\ PaidFor(queue') /\ g = [f EXCEPT ![next.player] = 0]
          /\ f[next.player] = next.buyIn
          /\ next.player \in Players /\ next.buyIn \in Nat \ {0}
      BY <1>0, <3>3, WithoutChips
    <3> HIDE DEF f, g
    <3>5. next.player \in Queued
      BY <3>3 DEF Queued
    <3>6. next.player \notin Seated(left) /\ next.player # p
      BY <1>0, <1>1, <1>3, <3>5
    <3>7. /\ Money(t') /\ t'.stack = [left.stack EXCEPT ![next.player] = next.buyIn]
          /\ left.stack[next.player] = 0
          /\ t'.rake = left.rake /\ t'.jackpot = left.jackpot /\ t'.phase = left.phase
      <4> DEFINE x == next.player
                 c == next.buyIn
      <4>1. x \in Players /\ c \in Nat /\ x \notin Seated(left)
        BY <3>4, <3>6
      <4>2. t' = SatDown(left, x, c)
        BY <3>2
      <4> HIDE DEF x, c
      <4>3. /\ Money(t') /\ t'.stack = [left.stack EXCEPT ![x] = c]
            /\ left.stack[x] = 0
            /\ t'.rake = left.rake /\ t'.jackpot = left.jackpot
            /\ t'.phase = left.phase
        <5>1. /\ Money(left) /\ Seating(left) /\ ~ HandLive(left)
              /\ SeatCount(left) < MaxPlayers
          BY <1>2, <1>3, <1>4
        <5> DEFINE r == SatDown(left, x, c)
        <5>2. /\ Money(r) /\ r.stack = [left.stack EXCEPT ![x] = c]
              /\ left.stack[x] = 0
              /\ r.rake = left.rake /\ r.jackpot = left.jackpot
              /\ r.phase = left.phase
          BY <5>1, <4>1, SatDownChips
        <5>3. t' = r
          BY <4>2
        <5> HIDE DEF r
        <5>4. QED
          BY <5>2, <5>3
      <4>4. QED
        BY <4>3 DEF x, c
    <3>8. ~ HandLive(t')
      BY <1>3, <3>7 DEF HandLive
    <3>9. t'.stack = [t.stack EXCEPT ![p] = 0, ![next.player] = @ + f[next.player]]
      <4> DEFINE x == next.player
                 e == [t.stack EXCEPT ![p] = 0, ![x] = @ + f[x]]
                 u == t'.stack
      <4>1. /\ x \in Players /\ x # p /\ f[x] \in Nat
            /\ u = [left.stack EXCEPT ![x] = f[x]]
            /\ left.stack[x] = 0
        BY <3>4, <3>6, <3>7
      <4> HIDE DEF x, u
      <4>2. e = [left.stack EXCEPT ![x] = @ + f[x]]
        BY <1>2
      <4>3. left.stack[x] + f[x] = f[x]
        BY <4>1
      <4>4. u = e
        BY <4>1, <4>2, <4>3
      <4>5. QED
        BY <4>4 DEF x, u
    <3>10. f[next.player] > 0 /\ next.player \in Players \ {p}
      BY <3>4, <3>6
    <3>11. /\ ~ HandLive(t') /\ Money(t') /\ PaidFor(queue')
           /\ t'.rake = t.rake /\ t'.jackpot = t.jackpot
      BY <1>2, <3>4, <3>7, <3>8
    <3>12. QED
      BY <1>8, <3>4, <3>9, <3>10, <3>11
  <2>3. QED
    BY <2>1, <2>2
<1>9. queue' = queue => g = f
  OBVIOUS
<1> HIDE DEF f, g
<1>10. Staked' = Staked /\ Escrow!BetweenHands
  BY <1>0, <1>1, <1>8, NothingStaked, StakedIs, StakedInIs
<1>11. Escrow!CashOut(p)
  BY <1>1, <1>5, <1>7, <1>8, <1>9, <1>10 DEF Escrow!CashOut
<1>12. EscrowStep
  BY <1>11 DEF EscrowStep, Escrow!Next
<1>13. QED
  BY <1>0, <1>1, <1>6, <1>8, <1>12 DEF ChipInv

LEMMA SeatChips == ASSUME TableInv, SeatNext PROVE ChipInv' /\ EscrowStep
  BY JoinStep, QueueStep, RebuyStep, LeaveStep, LeaveQueueStep DEF SeatNext

-----------------------------------------------------------------------------
(* Money back, and the end of a table. *)
LEMMA RefundingStep ==
  ASSUME TableInv, Refunding
  PROVE  ChipInv' /\ EscrowStep /\ t'.stack = NoChips /\ ~ HandLive(t')
<1> DEFINE u == [p \in Players |-> RefundTo(t, p)]
           k == StakedIn(t)
<1>0. /\ Money(t) /\ PaidFor(queue) /\ wallet \in [Players -> Nat] /\ paidOut \in Nat
      /\ t.stack \in [Players -> Nat] /\ Seating(t)
  BY DEF TableInv, ChipInv, Holdings, Money, SeatsInv
<1>1. PICK r \in {Refunded(t), Cancelled(t)} : RefundEverybody(r)
  BY DEF Refunding
<1>2. /\ Money(r) /\ r.stack = NoChips /\ r.rake = t.rake /\ r.jackpot = t.jackpot
      /\ ~ HandLive(r)
  BY <1>0, <1>1, RefundedChips, RefundedSeats
<1>3. k \in [Players -> Nat]
  BY <1>0, StakedInIs DEF Holdings
<1>4. \A p \in Players : u[p] = t.stack[p] + k[p]
  BY DEF RefundTo, StakedIn
<1>5. /\ t' = r /\ wallet' = [p \in Players |-> wallet[p] + u[p]]
      /\ escrow' = escrow - SumOver(u, Players)
      /\ paidOut' = paidOut /\ queue' = queue
  BY <1>1 DEF RefundEverybody, seatVars
<1> HIDE DEF u
<1>6. Staked = k /\ Staked' = NoChips
  BY <1>2, <1>5, StakedIs, StakedInIs
<1> HIDE DEF k
<1>7. SumOver(u, Players) = SumOver(t.stack, Players) + SumOver(k, Players)
  <2>1. \A p \in Players : /\ t.stack[p] \in Int /\ k[p] \in Int
                           /\ u[p] = t.stack[p] + k[p]
    BY <1>0, <1>3, <1>4
  <2>2. SumFunctionOnSet(u, Players)
          = SumFunctionOnSet(t.stack, Players) + SumFunctionOnSet(k, Players)
    BY <2>1, TableAssumption, SumPlus
  <2>3. QED
    BY <2>2 DEF SumOver
<1>8. wallet' = [p \in Players |-> wallet[p] + t.stack[p] + k[p]]
  <2>1. \A p \in Players : wallet[p] + u[p] = wallet[p] + t.stack[p] + k[p]
    BY <1>0, <1>3, <1>4
  <2>2. QED
    BY <1>5, <2>1
<1>9. escrow' = escrow - (Escrow!Total(t.stack) + Escrow!Total(k))
  BY <1>5, <1>7, EscrowTotal
<1>10. Escrow!Refund
  BY <1>2, <1>5, <1>6, <1>8, <1>9 DEF Escrow!Refund, Escrow!Nothing, NoChips
<1>11. EscrowStep
  BY <1>10 DEF EscrowStep, Escrow!Next
<1>12. wallet' \in Holdings
  BY <1>0, <1>3, <1>8 DEF Holdings
<1>13. QED
  BY <1>0, <1>2, <1>5, <1>11, <1>12 DEF ChipInv

(* An emergency withdrawal, a cancelled hand, a closure: a refund, or one more
   approval of it. *)
LEMMA RecoveryStep ==
  ASSUME TableInv, RecoveryNext \/ ExecuteClosure
  PROVE  Refunding \/ (t' = t /\ Inside)
<1>1. ASSUME NEW p \in Players, ApproveEmergency(p)
      PROVE  Refunding \/ (t' = t /\ Inside)
  <2>1. CASE 2 * Cardinality(approvals \cup {p}) > SeatCount(t)
    BY <1>1, <2>1 DEF ApproveEmergency, Refunding
  <2>2. CASE ~ (2 * Cardinality(approvals \cup {p}) > SeatCount(t))
    BY <1>1, <2>2 DEF ApproveEmergency, handVars, moneyVars, seatVars, Inside
  <2>3. QED
    BY <2>1, <2>2
<1>2. QED
  BY <1>1 DEF RecoveryNext, CancelHand, AdminEmergency, ExecuteClosure, Refunding

LEMMA RecoveryChips ==
  ASSUME TableInv, RecoveryNext \/ ExecuteClosure PROVE ChipInv' /\ EscrowStep
<1>1. CASE Refunding
  BY <1>1, RefundingStep
<1>2. CASE t' = t /\ Inside
  <2>1. Money(t') /\ Staked' = Staked
    BY <1>2, StakedIs DEF TableInv, ChipInv
  <2>2. QED
    BY <1>2, <2>1, StutterIsEscrow, NoWalletsInside DEF TableInv
<1>3. QED
  BY <1>1, <1>2, RecoveryStep

LEMMA ClaimStep ==
  ASSUME TableInv, NEW p \in Players, ClaimJackpot(p)
  PROVE  /\ ChipInv' /\ EscrowStep /\ Inside
         /\ t'.jackpot = 0 /\ t'.phase = t.phase /\ t'.folded = t.folded
<1> DEFINE c == Credit(t, p, t.jackpot)
<1>0. Money(t) /\ p \in Seated(t) /\ p \in Players /\ t.jackpot \in Nat
  BY DEF TableInv, ChipInv, Money, ClaimJackpot
<1>1. t' = [c EXCEPT !.jackpot = 0] /\ Inside
  BY DEF ClaimJackpot, Inside, moneyVars, seatVars
<1>2. /\ Money(c) /\ c.stack = [t.stack EXCEPT ![p] = @ + t.jackpot]
      /\ c.seats = t.seats /\ c.phase = t.phase /\ c.rake = t.rake
      /\ c.folded = t.folded /\ DOMAIN c = DOMAIN t /\ c.committed = t.committed
  BY <1>0, CreditChips
<1> HIDE DEF c
<1>3. /\ t'.jackpot = 0 /\ t'.stack = c.stack /\ t'.seats = c.seats
      /\ t'.phase = c.phase /\ t'.rake = c.rake /\ t'.folded = c.folded
      /\ t'.bet = c.bet /\ t'.committed = c.committed /\ t'.pot = c.pot
      /\ t'.sidePots = c.sidePots /\ t'.allIn = c.allIn
      /\ DOMAIN t' = DOMAIN c
  BY <1>1, <1>2 DEF Money, MoneyFields
<1>4. Money(t')
  BY <1>2, <1>3 DEF Money, Seated
<1>5. Staked' = Staked
  BY <1>2, <1>3, StakedIs DEF StakedIn, HandLive
<1>6. Escrow!ClaimJackpot(p)
  BY <1>1, <1>2, <1>3, <1>5 DEF Escrow!ClaimJackpot, Inside
<1>7. EscrowStep
  BY <1>6 DEF EscrowStep, Escrow!Next
<1>8. QED
  BY <1>1, <1>2, <1>3, <1>4, <1>7, NoWalletsInside DEF TableInv

LEMMA RakeStep ==
  ASSUME TableInv, WithdrawRake
  PROVE  /\ ChipInv' /\ EscrowStep
         /\ SameChips(t, [t' EXCEPT !.rake = t.rake]) /\ t'.phase = t.phase
         /\ UNCHANGED <<wallet, queue>>
<1>0. /\ Money(t) /\ PaidFor(queue) /\ wallet \in Holdings /\ paidOut \in Nat
      /\ t.rake \in Nat
  BY DEF TableInv, ChipInv, Money
<1>1. /\ t' = [t EXCEPT !.rake = 0] /\ escrow' = escrow - t.rake
      /\ paidOut' = paidOut + t.rake /\ UNCHANGED <<wallet, queue>>
  BY DEF WithdrawRake, seatVars
<1>2. /\ DOMAIN t' = DOMAIN t /\ t'.rake = 0 /\ t'.phase = t.phase
      /\ t'.seats = t.seats /\ t'.stack = t.stack /\ t'.bet = t.bet
      /\ t'.committed = t.committed /\ t'.folded = t.folded /\ t'.allIn = t.allIn
      /\ t'.pot = t.pot /\ t'.sidePots = t.sidePots /\ t'.jackpot = t.jackpot
  BY <1>0, <1>1 DEF Money, MoneyFields
<1>3. Money(t')
  BY <1>0, <1>2 DEF Money, Seated
<1>4. Staked' = Staked
  BY <1>2, StakedIs DEF StakedIn, HandLive
<1>5. Escrow!WithdrawRake
  BY <1>1, <1>2, <1>4 DEF Escrow!WithdrawRake
<1>6. EscrowStep
  BY <1>5 DEF EscrowStep, Escrow!Next
<1>7. paidOut' \in Nat
  BY <1>0, <1>1
<1>8. SameChips(t, [t' EXCEPT !.rake = t.rake])
  <2>1. "rake" \in DOMAIN t'
    BY <1>0, <1>2 DEF Money, MoneyFields
  <2>2. QED
    BY <1>2, <2>1 DEF SameChips
<1>9. QED
  BY <1>0, <1>1, <1>2, <1>3, <1>6, <1>7, <1>8 DEF ChipInv

(* A sweep takes the stacks; of the pots it takes what they are recorded to hold,
   which is nothing unless the last hand was paid out at a showdown. *)
LEMMA SweepStep ==
  ASSUME TableInv, SweepDeadChips
  PROVE  ChipInv' /\ ~ HandLive(t) /\ (t.sidePots = 0 => EscrowStep)
<1> DEFINE total == SumOver(t.stack, Players) + t.pot + t.sidePots
<1>0. /\ Money(t) /\ PaidFor(queue) /\ wallet \in Holdings /\ paidOut \in Nat
      /\ PotInStep(t) /\ t.pot \in Nat /\ t.sidePots \in Nat
  BY DEF TableInv, ChipInv, Money, PotInv, Sound
<1>1. /\ t' = [t EXCEPT !.stack = NoChips, !.pot = 0, !.sidePots = 0]
      /\ escrow' = escrow - total /\ paidOut' = paidOut + total
      /\ UNCHANGED <<wallet, queue>> /\ ~ HandLive(t)
  BY DEF SweepDeadChips, seatVars, HandLive, BetweenHandsPhases
<1>2. /\ DOMAIN t' = DOMAIN t /\ t'.rake = t.rake /\ t'.phase = t.phase
      /\ t'.seats = t.seats /\ t'.stack = NoChips /\ t'.bet = t.bet
      /\ t'.committed = t.committed /\ t'.folded = t.folded /\ t'.allIn = t.allIn
      /\ t'.pot = 0 /\ t'.sidePots = 0 /\ t'.jackpot = t.jackpot
  BY <1>0, <1>1 DEF Money, MoneyFields
<1>3. Money(t')
  <2>1. NoChips \in Holdings /\ \A p \in Players : NoChips[p] = 0
    BY DEF NoChips, Holdings
  <2>2. QED
    BY <1>0, <1>2, <2>1 DEF Money, Seated
<1>4. SumOver(t.stack, Players) \in Nat
  BY <1>0, HoldingsSums
<1>5. total \in Nat
  BY <1>0, <1>4
<1>6. ASSUME t.sidePots = 0 PROVE EscrowStep
  <2>1. t.pot = 0
    BY <1>0, <1>1 DEF PotInStep
  <2>2. total = Escrow!Total(t.stack)
    BY <1>4, <1>6, <2>1, EscrowTotal
  <2>3. Staked' = Staked /\ Escrow!BetweenHands
    BY <1>0, <1>1, <1>2, NothingStaked, StakedIs DEF StakedIn, HandLive
  <2> HIDE DEF total
  <2>4. Escrow!Sweep
    BY <1>1, <1>2, <2>2, <2>3 DEF Escrow!Sweep, Escrow!Nothing, NoChips
  <2>5. QED
    BY <2>4 DEF EscrowStep, Escrow!Next
<1>7. paidOut' \in Nat
  BY <1>0, <1>1, <1>5
<1>8. QED
  BY <1>0, <1>1, <1>3, <1>6, <1>7 DEF ChipInv

LEMMA SunsetChips ==
  ASSUME TableInv, FinalizeSunset
  PROVE  /\ ChipInv' /\ EscrowStep /\ ~ HandLive(t) /\ ~ HandLive(t')
         /\ t'.stack = NoChips /\ t'.seats = <<>> /\ queue' = <<>>
         /\ t'.rake = 0 /\ t'.jackpot = 0
<1> DEFINE f == QueuedChips(queue)
           g == QueuedChips(queue')
<1>0. /\ Money(t) /\ PaidFor(queue) /\ wallet \in [Players -> Nat] /\ paidOut \in Nat
      /\ t.rake \in Nat /\ t.jackpot \in Nat /\ t.stack \in [Players -> Nat]
      /\ t.pot \in Nat
  BY DEF TableInv, ChipInv, Money, Holdings
<1>1. /\ ~ HandLive(t) /\ Funded(t) = {}
      /\ wallet' = [p \in Players |-> wallet[p] + f[p]]
      /\ escrow' = escrow - (SumOver(f, Players) + t.rake + t.jackpot)
      /\ paidOut' = paidOut + t.rake + t.jackpot
      /\ queue' = <<>>
      /\ t' = [t EXCEPT !.seats = <<>>, !.sidePots = 0, !.rake = 0, !.jackpot = 0,
                        !.dealer = 0, !.turn = 0, !.bet = NoChips,
                        !.committed = NoChips, !.folded = {}, !.allIn = {}]
  BY DEF FinalizeSunset, MaySunset
<1>2. /\ DOMAIN t' = DOMAIN t /\ t'.rake = 0 /\ t'.phase = t.phase
      /\ t'.seats = <<>> /\ t'.stack = t.stack /\ t'.bet = NoChips
      /\ t'.committed = NoChips /\ t'.folded = {} /\ t'.allIn = {}
      /\ t'.pot = t.pot /\ t'.sidePots = 0 /\ t'.jackpot = 0
  BY <1>0, <1>1 DEF Money, MoneyFields
<1>3. t.stack = NoChips
  <2>1. ASSUME NEW p \in Players PROVE t.stack[p] = 0
    <3>1. p \in Seated(t) => ~ (t.stack[p] > 0)
      BY <1>1 DEF Funded
    <3>2. p \notin Seated(t) => t.stack[p] = 0
      BY <1>0 DEF Money
    <3>3. QED
      BY <1>0, <3>1, <3>2
  <2>2. QED
    BY <1>0, <2>1 DEF NoChips
<1>4. Money(t')
  <2>1. NoChips \in Holdings /\ \A p \in Players : NoChips[p] = 0
    BY DEF NoChips, Holdings
  <2>2. <<>> \in Seq(Players)
    OBVIOUS
  <2>3. QED
    BY <1>0, <1>2, <1>3, <2>1, <2>2 DEF Money
<1>5. f \in [Players -> Nat]
  BY <1>0, QueuedChipsAre DEF Holdings
<1>6. PaidFor(queue') /\ g = NoChips
  BY <1>1 DEF PaidFor, WaitsOnce, QueuedChips, NoChips
<1>7. QueuedChips(queue)' = g /\ QueuedChips(queue) = f
  OBVIOUS
<1> HIDE DEF f, g
<1>8. Staked' = Staked /\ Escrow!BetweenHands
  <2>1. ~ HandLive(t')
    BY <1>1, <1>2 DEF HandLive
  <2>2. QED
    BY <1>0, <1>1, <1>4, <2>1, NothingStaked, StakedIs, StakedInIs
<1>9. Escrow!Total(f) = SumOver(f, Players)
  BY EscrowTotal
<1>10. Escrow!Sunset
  BY <1>1, <1>2, <1>3, <1>6, <1>7, <1>8, <1>9 DEF Escrow!Sunset, Escrow!Nothing, NoChips
<1>11. EscrowStep
  BY <1>10 DEF EscrowStep, Escrow!Next
<1>12. wallet' \in Holdings /\ paidOut' \in Nat
  BY <1>0, <1>1, <1>5 DEF Holdings
<1>13. QED
  BY <1>1, <1>2, <1>3, <1>4, <1>6, <1>11, <1>12 DEF ChipInv, HandLive

-----------------------------------------------------------------------------
(* The invariant. *)
LEMMA ChipInvInit == Init => ChipInv
<1> SUFFICES ASSUME Init PROVE ChipInv
  OBVIOUS
<1>1. NoChips \in Holdings /\ \A p \in Players : NoChips[p] = 0
  BY DEF NoChips, Holdings
<1>2. <<>> \in Seq(Players) /\ <<>> \in Seq(Entries)
  OBVIOUS
<1>3. Money(t)
  BY <1>1, <1>2 DEF Init, EmptyTable, Money, MoneyFields
<1>4. PaidFor(queue)
  BY <1>2 DEF Init, PaidFor, WaitsOnce
<1>5. wallet \in Holdings /\ paidOut \in Nat
  BY TableAssumption DEF Init, Holdings
<1>6. QED
  BY <1>3, <1>4, <1>5 DEF ChipInv

(* The two steps at which chips get lost or are paid twice (README: the findings):
   a sweep after a showdown, which counts the pots again, and a showdown among
   contenders none of whom has staked a chip. *)
KnownGaps ==
  \/ SweepDeadChips /\ t.sidePots # 0
  \/ SubmitShowdown /\ TopLevel(t) = 0

LEMMA ChipInvStep ==
  TableInv /\ [Next]_vars => ChipInv' /\ (~ KnownGaps => EscrowStep)
<1> SUFFICES ASSUME TableInv, [Next]_vars
             PROVE  ChipInv' /\ (~ KnownGaps => EscrowStep)
  OBVIOUS
<1>1. CASE SeatNext
  BY <1>1, SeatChips
<1>2. CASE StartHand
  BY <1>2, StartStep
<1>3. CASE BettingNext
  BY <1>3, BettingMoves, MovesAreEscrow
<1>4. CASE CommitDeal \/ RevealBoard \/ RunItTwiceNext
  BY <1>4, StreetMoves, MovesAreEscrow
<1>5. CASE SubmitShowdown
  BY <1>5, ShowdownStep DEF KnownGaps
<1>6. CASE TimeoutNext
  BY <1>6, TimeoutMoves, MovesAreEscrow
<1>7. CASE RecoveryNext \/ ExecuteClosure
  BY <1>7, RecoveryChips
<1>8. CASE SweepDeadChips
  BY <1>8, SweepStep DEF KnownGaps
<1>9. CASE FinalizeSunset
  BY <1>9, SunsetChips
<1>10. CASE StraddleNext \/ GuardNext \/ ProposeClosure \/ Tick \/ UNCHANGED vars
  BY <1>10, IdleIsEscrow
<1>11. CASE RakeNext
  BY <1>11, ClaimStep, RakeStep DEF RakeNext
<1>12. QED
  BY <1>1, <1>2, <1>3, <1>4, <1>5, <1>6, <1>7, <1>8, <1>9, <1>10, <1>11
  DEF Next, CommitteeNext, ClosingNext

LEMMA TableInvAlways == Spec => []TableInv
<1>1. Init => TableInv
  BY PotInvInit, SeatsInvInit, ChipInvInit DEF TableInv
<1>2. TableInv /\ [Next]_vars => TableInv'
  BY PotInvStep, SeatsInvStep, ChipInvStep DEF TableInv
<1>3. QED
  BY <1>1, <1>2, PTL DEF Spec

-----------------------------------------------------------------------------
(* What a step of a live hand can be. *)
LEMMA HandKinds ==
  ASSUME TableInv, HandLive(t), [Next]_vars
  PROVE  \/ HandMoves \/ SubmitShowdown \/ Refunding
         \/ t'.phase = t.phase /\ t'.folded = t.folded
<1>1. CASE SeatNext
  BY <1>1 DEF SeatNext, JoinTable, JoinQueue, MayJoin, Rebuy, LeaveTable, LeaveQueue,
              HandLive, BetweenHandsPhases, handVars
<1>2. CASE StartHand \/ SweepDeadChips \/ FinalizeSunset
  BY <1>2, SweepStep DEF StartHand, FinalizeSunset, MaySunset
<1>3. CASE BettingNext \/ TimeoutNext \/ CommitDeal \/ RevealBoard \/ RunItTwiceNext
  BY <1>3, BettingMoves, TimeoutMoves, StreetMoves
<1>4. CASE RecoveryNext \/ ExecuteClosure
  BY <1>4, RecoveryStep
<1>5. CASE StraddleNext \/ GuardNext \/ ProposeClosure \/ Tick \/ UNCHANGED vars
  BY <1>5, IdleSteps
<1>6. CASE RakeNext
  <2>1. CASE WithdrawRake
    BY <2>1, RakeStep DEF SameChips, WithdrawRake, TableInv, ChipInv, Money, MoneyFields
  <2>2. QED
    BY <1>6, <2>1, ClaimStep DEF RakeNext
<1>7. QED
  BY <1>1, <1>2, <1>3, <1>4, <1>5, <1>6 DEF Next, CommitteeNext, ClosingNext

(* RoundsEndMatched for every table: no order of calls for less, all-ins, raises,
   straddles, folds and timeouts closes a round on a player who still has chips to
   bet and has not matched. *)
EndsMatched ==
  (t.phase \in BettingPhases /\ t'.phase \notin BettingPhases /\ HandLive(t'))
    => \A p \in CanAct(t') : t'.bet[p] = CurrentBet(t')

LEMMA EndsMatchedStep == TableInv /\ [Next]_vars => [EndsMatched]_vars
<1> SUFFICES ASSUME TableInv, [Next]_vars,
                    t.phase \in BettingPhases, t'.phase \notin BettingPhases,
                    HandLive(t')
             PROVE  \A p \in CanAct(t') : t'.bet[p] = CurrentBet(t')
  BY DEF EndsMatched
<1>1. HandLive(t)
  BY DEF HandLive, BettingPhases, BetweenHandsPhases
<1>2. ~ SubmitShowdown
  BY ShowdownStep
<1>3. ~ Refunding
  BY RefundingStep
<1>4. HandMoves
  BY <1>1, <1>2, <1>3, HandKinds
<1>5. ~ FoldEnds(t, t')
  BY DEF FoldEnds, Awards, HandLive, BetweenHandsPhases
<1>6. Matched(t')
  BY <1>4, <1>5 DEF HandMoves, GoesOn, Continues
<1>7. QED
  BY <1>6 DEF Matched

THEOREM RoundsAlwaysEndMatched == Spec => RoundsEndMatched
<1>1. TableInv /\ [Next]_vars => [EndsMatched]_vars
  BY EndsMatchedStep
<1>2. QED
  BY <1>1, TableInvAlways, PTL DEF Spec, RoundsEndMatched, EndsMatched

(* FoldedStayOut for every table: nobody who folded, by her own action or by a
   timeout, is ever back in the hand or paid from its pots, whatever best hands a
   showdown declares. *)
StaysFolded ==
  HandLive(t) =>
    /\ HandLive(t') => t.folded \subseteq t'.folded
    /\ (~ HandLive(t') /\ escrow' = escrow) =>
         \A p \in t'.folded : t'.stack[p] > t.stack[p] => t'.jackpot = 0

LEMMA StaysFoldedStep == TableInv /\ [Next]_vars => [StaysFolded]_vars
<1> SUFFICES ASSUME TableInv, [Next]_vars, HandLive(t)
             PROVE  /\ HandLive(t') => t.folded \subseteq t'.folded
                    /\ ~ HandLive(t') =>
                         \A p \in t'.folded : t'.stack[p] > t.stack[p] => t'.jackpot = 0
  BY DEF StaysFolded
<1>1. CASE HandMoves
  BY <1>1 DEF HandMoves, FoldEnds, GoesOn, Continues, NotToFolded, Awards, HandLive,
              BetweenHandsPhases
<1>2. CASE SubmitShowdown
  BY <1>2, ShowdownStep DEF NotToFolded
<1>3. CASE Refunding
  <2>1. t'.stack = NoChips /\ ~ HandLive(t') /\ Money(t')
    BY <1>3, RefundingStep DEF ChipInv
  <2>2. t.stack \in [Players -> Nat] /\ t'.folded \subseteq Players
    BY <2>1 DEF TableInv, ChipInv, Money, Holdings
  <2>3. \A p \in t'.folded : t'.stack[p] = 0 /\ t.stack[p] \in Nat
    BY <2>1, <2>2 DEF NoChips
  <2>4. \A p \in t'.folded : ~ (t'.stack[p] > t.stack[p])
    BY <2>3
  <2>5. QED
    BY <2>1, <2>4
<1>4. CASE t'.phase = t.phase /\ t'.folded = t.folded
  BY <1>4 DEF HandLive
<1>5. QED
  BY <1>1, <1>2, <1>3, <1>4, HandKinds

THEOREM FoldedAlwaysStayOut == Spec => FoldedStayOut
<1>1. TableInv /\ [Next]_vars => [StaysFolded]_vars
  BY StaysFoldedStep
<1>2. QED
  BY <1>1, TableInvAlways, PTL DEF Spec, FoldedStayOut, StaysFolded

-----------------------------------------------------------------------------
(* Whatever happens at a table is a step of the escrow, or one of the two gaps. *)
THEOREM EscrowOrGap == Spec => [][EscrowStep \/ KnownGaps]_vars
<1>1. TableInv /\ [Next]_vars => [EscrowStep \/ KnownGaps]_vars
  BY ChipInvStep
<1>2. QED
  BY <1>1, TableInvAlways, PTL DEF Spec

(* ImplementsEscrow for every table that meets neither of the two gaps: whatever
   joins, leaves, wagers, folds, times out, settles, is refunded or closes, and in
   whatever order, chips move only as TableEscrow says. *)
THEOREM EscrowImplemented == Spec /\ [][~ KnownGaps]_vars => ImplementsEscrow
<1>1. Init => Escrow!Init
  <2> SUFFICES ASSUME Init PROVE Escrow!Init
    OBVIOUS
  <2>1. /\ wallet = InitialWallet /\ escrow = 0 /\ paidOut = 0 /\ queue = <<>>
        /\ t.stack = NoChips /\ t.rake = 0 /\ t.jackpot = 0 /\ ~ HandLive(t)
    BY DEF Init, EmptyTable, HandLive, BetweenHandsPhases
  <2>2. Staked = NoChips
    BY <2>1 DEF Staked, NoChips
  <2>3. QueuedChips(queue) = NoChips
    BY <2>1 DEF QueuedChips, NoChips
  <2>4. Escrow!Nothing = NoChips
    BY DEF Escrow!Nothing, NoChips
  <2>5. QED
    BY <2>1, <2>2, <2>3, <2>4 DEF Escrow!Init
<1>2. TableInv /\ [Next]_vars /\ [~ KnownGaps]_vars => EscrowStep
  <2> SUFFICES ASSUME TableInv, [Next]_vars, [~ KnownGaps]_vars PROVE EscrowStep
    OBVIOUS
  <2>1. CASE ~ KnownGaps
    BY <2>1, ChipInvStep
  <2>2. CASE UNCHANGED vars
    BY <2>2, IdleIsEscrow
  <2>3. QED
    BY <2>1, <2>2
<1>3. QED
  BY <1>1, <1>2, TableInvAlways, PTL DEF Spec, ImplementsEscrow, Escrow!Spec, EscrowStep

(* What is proved of the abstract escrow then holds of the table. *)
Accounts == INSTANCE TableEscrow_proofs WITH
  Amounts <- Nat, MaxRakeBps <- RakeBps,
  stack <- t.stack, staked <- Staked, queued <- QueuedChips(queue),
  rake <- t.rake, jackpot <- t.jackpot

LEMMA AccountsTotal ==
  ASSUME NEW f PROVE Accounts!Total(f) = SumOver(f, Players)
  BY DEF Accounts!Total, Accounts!SumFunctionOnSet, SumFunctionOnSet,
         Accounts!FoldFunctionOnSet, FoldFunctionOnSet, MapThenFoldSet,
         Accounts!MapThenFoldSet, SumOver

LEMMA SameAccounts == Escrow!Spec => Accounts!Spec
<1>1. Escrow!Init => Accounts!Init
  BY DEF Escrow!Init, Accounts!Init, Escrow!Nothing, Accounts!Nothing
<1>2. ASSUME NEW f PROVE Escrow!Total(f) = Accounts!Total(f)
  BY EscrowTotal, AccountsTotal
<1>3. Escrow!Nothing = Accounts!Nothing /\ Escrow!Chips = Accounts!Chips
  BY DEF Escrow!Nothing, Accounts!Nothing, Escrow!Chips, Accounts!Chips
<1>4. Escrow!BetweenHands <=> Accounts!BetweenHands
  BY <1>3 DEF Escrow!BetweenHands, Accounts!BetweenHands
<1>5. ASSUME NEW p \in Players
      PROVE  /\ Escrow!Deposit(p) => Accounts!Deposit(p)
             /\ Escrow!Enqueue(p) => Accounts!Enqueue(p)
             /\ Escrow!Dequeue(p) => Accounts!Dequeue(p)
             /\ Escrow!CashOut(p) => Accounts!CashOut(p)
             /\ Escrow!ClaimJackpot(p) => Accounts!ClaimJackpot(p)
  <2>1. Escrow!Deposit(p) => Accounts!Deposit(p)
    BY <1>3, <1>4 DEF Escrow!Deposit, Accounts!Deposit
  <2>2. Escrow!Enqueue(p) => Accounts!Enqueue(p)
    BY <1>3, <1>4 DEF Escrow!Enqueue, Accounts!Enqueue
  <2>3. Escrow!Dequeue(p) => Accounts!Dequeue(p)
    BY DEF Escrow!Dequeue, Accounts!Dequeue
  <2>4. Escrow!CashOut(p) => Accounts!CashOut(p)
    BY <1>4 DEF Escrow!CashOut, Accounts!CashOut
  <2>5. Escrow!ClaimJackpot(p) => Accounts!ClaimJackpot(p)
    BY DEF Escrow!ClaimJackpot, Accounts!ClaimJackpot
  <2>6. QED
    BY <2>1, <2>2, <2>3, <2>4, <2>5
<1>6. Escrow!Wager => Accounts!Wager
  BY <1>3 DEF Escrow!Wager, Accounts!Wager
<1>7. Escrow!Settle => Accounts!Settle
  BY <1>2, <1>3, <1>4 DEF Escrow!Settle, Accounts!Settle
<1>8. Escrow!Refund => Accounts!Refund
  BY <1>2, <1>3 DEF Escrow!Refund, Accounts!Refund
<1>9. Escrow!WithdrawRake => Accounts!WithdrawRake
  BY DEF Escrow!WithdrawRake, Accounts!WithdrawRake
<1>10. Escrow!Sweep => Accounts!Sweep
  BY <1>2, <1>3, <1>4 DEF Escrow!Sweep, Accounts!Sweep
<1>11. Escrow!Sunset => Accounts!Sunset
  BY <1>2, <1>3, <1>4 DEF Escrow!Sunset, Accounts!Sunset
<1>12. [Escrow!Next]_(Escrow!vars) => [Accounts!Next]_(Accounts!vars)
  <2>1. Escrow!Next => Accounts!Next
    BY <1>5, <1>6, <1>7, <1>8, <1>9, <1>10, <1>11 DEF Escrow!Next, Accounts!Next
  <2>2. UNCHANGED Escrow!vars => UNCHANGED Accounts!vars
    BY DEF Escrow!vars, Accounts!vars
  <2>3. QED
    BY <2>1, <2>2
<1>13. QED
  BY <1>1, <1>12, PTL DEF Escrow!Spec, Accounts!Spec

LEMMA AccountsKept ==
  Accounts!Spec => [](Accounts!Solvent /\ Accounts!SupplyConserved)
<1>1. Accounts!IsFiniteSet(Players)
  BY TableAssumption DEF Accounts!IsFiniteSet, IsFiniteSet
<1>2. Nat \subseteq Nat /\ 0 \in Nat
  OBVIOUS
<1>3. InitialWallet \in [Players -> Nat]
  BY TableAssumption
<1>4. RakeBps \in 0 .. 10000
  BY SharesAssumption
<1>5. Accounts!Init => Accounts!TypeOK
  BY <1>1, <1>2, <1>3, <1>4, Accounts!TypeInit
<1>6. Accounts!Init => Accounts!Solvent
  BY <1>1, <1>2, <1>3, <1>4, Accounts!SolventInit
<1>7. Accounts!TypeOK /\ [Accounts!Next]_(Accounts!vars) => Accounts!TypeOK'
  BY <1>1, <1>2, <1>3, <1>4, Accounts!TypeStep
<1>8. Accounts!TypeOK /\ Accounts!TypeOK' /\ Accounts!Solvent
        /\ [Accounts!Next]_(Accounts!vars) => Accounts!Solvent'
  BY <1>1, <1>2, <1>3, <1>4, Accounts!SolventStep
<1>9. Accounts!Init => Accounts!SupplyConserved
  BY <1>1, <1>2, <1>3, <1>4, Accounts!SupplyInit
<1>10. Accounts!TypeOK /\ Accounts!TypeOK' /\ Accounts!SupplyConserved
         /\ [Accounts!Next]_(Accounts!vars) => Accounts!SupplyConserved'
  BY <1>1, <1>2, <1>3, <1>4, Accounts!SupplyStep
<1>11. QED
  BY <1>5, <1>6, <1>7, <1>8, <1>9, <1>10, PTL DEF Accounts!Spec

(* Solvent for every table that meets neither gap: the contract holds, to the
   token, what it owes. *)
THEOREM SolventUnlessGap == Spec /\ [][~ KnownGaps]_vars => []Solvent
<1>1. Accounts!Spec => []Accounts!Solvent
  BY AccountsKept, PTL
<1>2. TableInv /\ Accounts!Solvent => Solvent
  <2> SUFFICES ASSUME TableInv, Accounts!Solvent PROVE Solvent
    OBVIOUS
  <2>1. Money(t) /\ PotInStep(t)
    BY DEF TableInv, ChipInv, PotInv, Sound
  <2>2. SumOver(Staked, Players) = t.pot
    <3>1. CASE HandLive(t)
      BY <2>1, <3>1, StakedIs, StakedInIs DEF PotInStep
    <3>2. CASE ~ HandLive(t)
      BY <2>1, <3>2, StakedIs, StakedInIs, NoChipsSum DEF PotInStep
    <3>3. QED
      BY <3>1, <3>2
  <2> DEFINE f == QueuedChips(queue)
             A == SumOver(t.stack, Players)
             B == SumOver(f, Players)
  <2>3. f \in Holdings
    BY QueuedChipsAre DEF TableInv, ChipInv
  <2>4. A \in Nat
    BY <2>1, HoldingsSums
  <2>5. B \in Nat
    <3>1. \A p \in Players : f[p] \in Nat
      BY <2>3 DEF Holdings
    <3> HIDE DEF f
    <3>2. SumFunctionOnSet(f, Players) \in Nat
      BY <3>1, TableAssumption, SumNat
    <3>3. QED
      BY <3>2 DEF SumOver
  <2>6. escrow = A + t.pot + B + t.rake + t.jackpot
    BY <2>2, AccountsTotal DEF Accounts!Solvent
  <2>7. QED
    BY <2>6 DEF Solvent, Owed
<1>3. QED
  BY <1>1, <1>2, EscrowImplemented, SameAccounts, TableInvAlways, PTL
  DEF ImplementsEscrow

(* No token appears or disappears at a table that meets neither gap: the wallets,
   the contract and what was paid out add up to what the wallets started with. *)
THEOREM TokensConserved ==
  Spec /\ [][~ KnownGaps]_vars =>
    [](SumOver(wallet, Players) + escrow + paidOut = SumOver(InitialWallet, Players))
<1>1. Accounts!SupplyConserved =>
        SumOver(wallet, Players) + escrow + paidOut = SumOver(InitialWallet, Players)
  BY AccountsTotal DEF Accounts!SupplyConserved
<1>2. QED
  BY <1>1, AccountsKept, EscrowImplemented, SameAccounts, PTL DEF ImplementsEscrow

(* A frozen table: nobody sits or waits, nothing is owed. *)
Frozen ==
  sunset => /\ t.seats = <<>> /\ queue = <<>> /\ ~ HandLive(t)
            /\ t.stack = NoChips /\ t.rake = 0 /\ t.jackpot = 0

LEMMA FrozenStep == TableInv /\ Frozen /\ [Next]_vars => Frozen'
<1> SUFFICES ASSUME TableInv, Frozen, [Next]_vars, sunset' PROVE Frozen'
  BY DEF Frozen
<1>1. CASE FinalizeSunset
  BY <1>1, SunsetChips DEF Frozen, HandLive
<1>2. CASE ~ FinalizeSunset
  <2>1. sunset
    BY <1>2 DEF Next, vars, adminVars, HandFrame, SeatNext, JoinTable, JoinQueue, Rebuy,
           LeaveTable, LeaveQueue, StartHand, StraddleNext, PostStraddle,
           CancelStraddle, BettingNext, PlayerFolds, PlayerChecks, PlayerCalls,
           PlayerBets, PlayerRaises, PlayerAllIn, PlayerAction, RunItTwiceNext,
           DeclineRunItTwice, OptInRunItTwice, CommitteeNext, CommitDeal, RevealBoard,
           SubmitShowdown, TimeoutNext, ClaimTimeout, ForceFoldBy, RecoveryNext,
           CancelHand, AdminEmergency, ApproveEmergency, ClosingNext, ProposeClosure,
           ExecuteClosure, SweepDeadChips, GuardNext, Pause, Unpause, Ban, Unban,
           RakeNext, WithdrawRake, ClaimJackpot, Tick
  <2>2. /\ t.seats = <<>> /\ queue = <<>> /\ ~ HandLive(t) /\ Seated(t) = {}
        /\ Queued = {} /\ t.stack = NoChips /\ t.rake = 0 /\ t.jackpot = 0
    <3>1. /\ t.seats = <<>> /\ queue = <<>> /\ ~ HandLive(t)
          /\ t.stack = NoChips /\ t.rake = 0 /\ t.jackpot = 0
      BY <2>1 DEF Frozen
    <3>2. DOMAIN t.seats = {} /\ DOMAIN queue = {}
      BY <3>1
    <3>3. QED
      BY <3>1, <3>2 DEF Seated, Queued, Range
  <2>3. ~ SeatNext /\ ~ StartHand
    BY <2>1, <2>2 DEF SeatNext, JoinTable, JoinQueue, MayJoin, Rebuy, LeaveTable,
                      LeaveQueue, StartHand
  <2>4. /\ ~ BettingNext /\ ~ TimeoutNext /\ ~ CommitDeal /\ ~ RevealBoard
        /\ ~ RunItTwiceNext /\ ~ SubmitShowdown
    BY <2>2, BettingMoves, TimeoutMoves, StreetMoves, ShowdownStep DEF HandMoves
  <2>5. CASE RecoveryNext \/ ExecuteClosure
    <3>1. CASE Refunding
      <4>1. /\ t'.stack = NoChips /\ ~ HandLive(t') /\ queue' = queue
        BY <3>1, RefundingStep DEF Refunding, RefundEverybody, seatVars
      <4>2. t'.seats = t.seats /\ t'.rake = t.rake /\ t'.jackpot = t.jackpot
        BY <3>1, RefundedChips DEF Refunding, RefundEverybody, TableInv, ChipInv
      <4>3. QED
        BY <2>2, <4>1, <4>2 DEF Frozen, HandLive
    <3>2. CASE t' = t /\ Inside
      BY <2>2, <3>2 DEF Frozen, Inside, HandLive
    <3>3. QED
      BY <2>5, <3>1, <3>2, RecoveryStep
  <2>6. CASE SweepDeadChips
    <3>1. /\ t'.stack = NoChips /\ t'.seats = t.seats /\ t'.phase = t.phase
          /\ t'.rake = t.rake /\ t'.jackpot = t.jackpot /\ queue' = queue
      BY <2>6 DEF SweepDeadChips, seatVars, TableInv, ChipInv, Money, MoneyFields
    <3>2. QED
      BY <2>2, <3>1 DEF Frozen, HandLive
  <2>7. CASE StraddleNext \/ GuardNext \/ ProposeClosure \/ Tick \/ UNCHANGED vars
    <3>1. Inside /\ SameChips(t, t') /\ t'.phase = t.phase
      BY <2>7, IdleSteps
    <3>2. QED
      BY <2>2, <3>1 DEF Frozen, Inside, SameChips, HandLive
  <2>8. CASE RakeNext
    <3>1. ASSUME NEW p \in Players, ClaimJackpot(p) PROVE FALSE
      BY <2>2, <3>1 DEF ClaimJackpot
    <3>2. WithdrawRake
      BY <2>8, <3>1 DEF RakeNext
    <3>3. t.rake > 0
      BY <3>2 DEF WithdrawRake
    <3>4. QED
      BY <2>2, <3>3
  <2>9. QED
    BY <1>2, <2>3, <2>4, <2>5, <2>6, <2>7, <2>8 DEF Next, CommitteeNext, ClosingNext
<1>3. QED
  BY <1>1, <1>2

(* SunsetFinal for every table that meets neither gap: a frozen table holds
   nothing, owes nothing, and no late closure, refund or claim finds anything. *)
THEOREM SunsetIsFinal == Spec /\ [][~ KnownGaps]_vars => []SunsetFinal
<1>1. Init => Frozen
  BY DEF Init, Frozen
<1>2. TableInv /\ Frozen /\ [Next]_vars => Frozen'
  BY FrozenStep
<1>3. TableInv /\ Frozen /\ Solvent => SunsetFinal
  <2> SUFFICES ASSUME TableInv, Frozen, Solvent, sunset
               PROVE  escrow = 0 /\ Owed = 0 /\ t.seats = <<>> /\ queue = <<>>
    BY DEF SunsetFinal
  <2>1. /\ t.seats = <<>> /\ queue = <<>> /\ ~ HandLive(t)
        /\ t.stack = NoChips /\ t.rake = 0 /\ t.jackpot = 0
    BY DEF Frozen
  <2>2. t.pot = 0
    BY <2>1 DEF TableInv, PotInv, Sound, PotInStep
  <2>3. QueuedChips(queue) = NoChips
    BY <2>1 DEF QueuedChips, NoChips
  <2>4. Owed = 0
    BY <2>1, <2>2, <2>3, NoChipsSum DEF Owed
  <2>5. QED
    BY <2>1, <2>4 DEF Solvent
<1>4. QED
  BY <1>1, <1>2, <1>3, TableInvAlways, SolventUnlessGap, PTL DEF Spec

-----------------------------------------------------------------------------
(* The types.  Money, seats and queue have theirs from TableInv; what is left is
   the street, the clock, and the records of rebuys, volunteers and closures. *)
BookFields ==
  {"phase", "board", "rit", "lastRaise", "hand", "idle", "deadline", "settledFor",
   "straddler"}

Typed(s) ==
  /\ BookFields \subseteq DOMAIN s
  /\ s.phase \in Phases /\ s.board \in 0 .. 5 /\ s.rit \in {"none", "waiting"}
  /\ s.lastRaise \in Nat /\ s.hand \in 0 .. MaxHands
  /\ s.idle \in 0 .. 2 * Timeout /\ s.deadline \in NoDeadline .. Timeout
  /\ s.settledFor \in 0 .. DeadChipTimeout /\ s.straddler \in NoSeat .. 5

SameBook(s, r) ==
  /\ BookFields \subseteq DOMAIN r
  /\ r.phase = s.phase /\ r.board = s.board /\ r.rit = s.rit
  /\ r.lastRaise = s.lastRaise /\ r.hand = s.hand /\ r.idle = s.idle
  /\ r.deadline = s.deadline /\ r.settledFor = s.settledFor
  /\ r.straddler = s.straddler

LEMMA SameBookKeeps ==
  ASSUME NEW s, NEW r, Typed(s), SameBook(s, r) PROVE Typed(r)
  BY DEF Typed, SameBook

LEMMA SameBookChains ==
  ASSUME NEW s, NEW r, NEW q, SameBook(s, r), SameBook(r, q) PROVE SameBook(s, q)
  BY DEF SameBook

LEMMA PutInBook ==
  ASSUME NEW s, Typed(s), NEW p, NEW a PROVE SameBook(s, PutIn(s, p, a))
  BY DEF PutIn, SameBook, Typed, BookFields

LEMMA CreditBook ==
  ASSUME NEW s, Typed(s), NEW p, NEW a PROVE SameBook(s, Credit(s, p, a))
  BY DEF Credit, SameBook, Typed, BookFields

LEMMA PostAntesBook ==
  ASSUME NEW s, Typed(s) PROVE SameBook(s, PostAntes(s))
  BY DEF PostAntes, SameBook, Typed, BookFields

LEMMA AllInBook ==
  ASSUME NEW s, Typed(s), NEW x PROVE SameBook(s, [s EXCEPT !.allIn = x])
  BY DEF SameBook, Typed, BookFields

LEMMA PostBlindBook ==
  ASSUME NEW s, Typed(s), NEW k, NEW a PROVE SameBook(s, PostBlind(s, k, a))
<1> DEFINE w == PutIn(s, At(s, k), s.stack[At(s, k)])
<1>1. SameBook(s, PutIn(s, At(s, k), a)) /\ SameBook(s, w) /\ Typed(w)
  BY PutInBook, SameBookKeeps
<1>2. SameBook(s, [w EXCEPT !.allIn = @ \cup {At(s, k)}])
  BY <1>1, AllInBook, SameBookChains
<1>3. QED
  BY <1>1, <1>2 DEF PostBlind

LEMMA WageredBook ==
  ASSUME NEW s, Typed(s), NEW p, NEW a PROVE SameBook(s, Wagered(s, p, a))
<1> DEFINE w == PutIn(s, p, a)
<1>1. SameBook(s, w) /\ Typed(w)
  BY PutInBook, SameBookKeeps
<1>2. SameBook(s, [w EXCEPT !.allIn = @ \cup {p}])
  BY <1>1, AllInBook, SameBookChains
<1>3. QED
  BY <1>1, <1>2 DEF Wagered

LEMMA PayBadBeatBook ==
  ASSUME NEW s, Typed(s), NEW w, NEW l PROVE SameBook(s, PayBadBeat(s, w, l))
  BY DEF PayBadBeat, SameBook, Typed, BookFields

LEMMA VacatedBook ==
  ASSUME NEW s, Typed(s), NEW p PROVE SameBook(s, Vacated(s, p))
  BY DEF Vacated, SameBook, Typed, BookFields

LEMMA SatDownBook ==
  ASSUME NEW s, Typed(s), NEW p, NEW c PROVE SameBook(s, SatDown(s, p, c))
  BY DEF SatDown, SameBook, Typed, BookFields

LEMMA ClockTypes ==
  /\ 0 \in 0 .. 2 * Timeout /\ 0 \in 0 .. DeadChipTimeout
  /\ NoDeadline \in NoDeadline .. Timeout /\ Timeout \in NoDeadline .. Timeout
  BY BlindsAssumption, TableAssumption DEF NoDeadline

LEMMA SettledTyped ==
  ASSUME NEW s, Typed(s) PROVE Typed(Settled(s))
<1> DEFINE r == Settled(s)
<1>1. /\ BookFields \subseteq DOMAIN r
      /\ r.phase = "Settlement" /\ r.board = s.board /\ r.rit = s.rit
      /\ r.lastRaise = s.lastRaise /\ r.hand = s.hand /\ r.idle = 0
      /\ r.deadline = s.deadline /\ r.settledFor = 0 /\ r.straddler = s.straddler
  BY DEF Settled, Typed, BookFields
<1> HIDE DEF r
<1>2. "Settlement" \in Phases
  BY DEF Phases, BetweenHandsPhases
<1>3. Typed(r)
  BY <1>1, <1>2, ClockTypes DEF Typed
<1>4. QED
  BY <1>3 DEF r

LEMMA SettleFoldWinTyped ==
  ASSUME NEW s, Typed(s) PROVE Typed(SettleFoldWin(s))
<1> DEFINE winner == CHOOSE p \in Live(s) : TRUE
           rake   == (s.pot * RakeBps) \div 10000
           c      == Credit(s, winner, s.pot - rake)
<1>1. Typed(c)
  BY CreditBook, SameBookKeeps
<1>2. SameBook(c, [c EXCEPT !.rake = @ + rake])
  <2> HIDE DEF c
  <2>1. QED
    BY <1>1 DEF SameBook, Typed, BookFields
<1>3. Typed(Settled([c EXCEPT !.rake = @ + rake]))
  BY <1>1, <1>2, SameBookKeeps, SettledTyped
<1>4. QED
  BY <1>3 DEF SettleFoldWin

LEMMA RefundedTyped ==
  ASSUME NEW s, Typed(s) PROVE Typed(Refunded(s)) /\ Typed(Cancelled(s))
<1>1. Typed(Refunded(s))
  <2> DEFINE d == Settled(s)
  <2>1. Typed(d)
    BY SettledTyped
  <2> HIDE DEF d
  <2>2. SameBook(d, [d EXCEPT !.stack = NoChips, !.bet = NoChips, !.committed = NoChips,
                              !.folded = Seated(s), !.sidePots = 0])
    BY <2>1 DEF SameBook, Typed, BookFields
  <2>3. QED
    BY <2>1, <2>2, SameBookKeeps DEF Refunded, d
<1>2. Typed(Cancelled(s))
  <2> DEFINE f == Refunded(s)
             c == [f EXCEPT !.lastRaise = 0, !.board = 0, !.rit = "none"]
  <2> HIDE DEF f
  <2>1. Typed(f)
    BY <1>1 DEF f
  <2>2. /\ BookFields \subseteq DOMAIN c
        /\ c.phase = f.phase /\ c.board = 0 /\ c.rit = "none"
        /\ c.lastRaise = 0 /\ c.hand = f.hand /\ c.idle = f.idle
        /\ c.deadline = f.deadline /\ c.settledFor = f.settledFor
        /\ c.straddler = f.straddler
    BY <2>1 DEF Typed, BookFields
  <2> HIDE DEF c
  <2>3. Typed(c)
    BY <2>1, <2>2 DEF Typed
  <2>4. QED
    BY <2>3 DEF Cancelled, c, f
<1>3. QED
  BY <1>1, <1>2

LEMMA AdvanceToNextPhaseTyped ==
  ASSUME NEW s, Typed(s), s.phase \in BettingPhases
  PROVE  Typed(AdvanceToNextPhase(s))
<1>1. CASE Cardinality(Live(s)) = 1
  BY <1>1, SettleFoldWinTyped DEF AdvanceToNextPhase
<1>2. CASE Cardinality(Live(s)) # 1
  <2> DEFINE r == AdvanceToNextPhase(s)
  <2>1. /\ BookFields \subseteq DOMAIN r /\ r.board = s.board /\ r.rit = s.rit
        /\ r.lastRaise = s.lastRaise /\ r.hand = s.hand /\ r.idle = 0
        /\ r.deadline = NoDeadline /\ r.settledFor = s.settledFor
        /\ r.straddler = s.straddler
        /\ r.phase = IF RunItTwiceOffered(s) THEN "AwaitingRunItTwice"
                     ELSE NextPhase[s.phase]
    BY <1>2 DEF AdvanceToNextPhase, Typed, BookFields
  <2> HIDE DEF r
  <2>2. r.phase \in Phases
    BY <2>1 DEF BettingPhases, NextPhase, Phases, DealingPhases
  <2>3. Typed(r)
    BY <2>1, <2>2, ClockTypes DEF Typed
  <2>4. QED
    BY <2>3 DEF r
<1>3. QED
  BY <1>1, <1>2

LEMMA AdvanceTurnTyped ==
  ASSUME NEW s, Typed(s), s.phase \in BettingPhases, NEW m
  PROVE  Typed(AdvanceTurn(s, m))
<1> DEFINE turned == [s EXCEPT !.turn = Clockwise(s, SeatAfter(s, @), CanAct(s))]
<1>1. SameBook(s, turned)
  BY DEF SameBook, Typed, BookFields
<1>2. Typed(turned)
  BY <1>1, SameBookKeeps
<1>3. QED
  BY <1>2, AdvanceToNextPhaseTyped DEF AdvanceTurn

LEMMA ActedTyped ==
  ASSUME NEW s, NEW acted, NEW p, Typed(acted), acted.phase \in BettingPhases
  PROVE  Typed(Acted(s, acted, p))
<1> DEFINE a == [acted EXCEPT !.idle = 0, !.deadline = Timeout]
<1>1. /\ BookFields \subseteq DOMAIN a
      /\ a.phase = acted.phase /\ a.board = acted.board /\ a.rit = acted.rit
      /\ a.lastRaise = acted.lastRaise /\ a.hand = acted.hand /\ a.idle = 0
      /\ a.deadline = Timeout /\ a.settledFor = acted.settledFor
      /\ a.straddler = acted.straddler
  BY DEF Typed, BookFields
<1> HIDE DEF a
<1>2. Typed(a) /\ a.phase \in BettingPhases
  BY <1>1, ClockTypes DEF Typed
<1>3. QED
  BY <1>2, AdvanceTurnTyped DEF Acted, a

LEMMA ResetRoundTyped ==
  ASSUME NEW s, Typed(s), s.phase \in BettingPhases PROVE Typed(ResetRound(s))
<1> DEFINE lr    == IF Structure.kind = "FixedLimit" THEN FixedBet(s) ELSE BigBlind
           fresh == [s EXCEPT !.bet = NoChips, !.lastRaise = lr]
           turned == [fresh EXCEPT !.turn =
                        Clockwise(s, SeatAfter(s, s.dealer), CanAct(s))]
<1>1. lr \in Nat
  BY BlindsAssumption, StructureAssumption DEF FixedBet
<1> HIDE DEF lr
<1>2. /\ BookFields \subseteq DOMAIN fresh
      /\ fresh.phase = s.phase /\ fresh.board = s.board /\ fresh.rit = s.rit
      /\ fresh.lastRaise = lr /\ fresh.hand = s.hand /\ fresh.idle = s.idle
      /\ fresh.deadline = s.deadline /\ fresh.settledFor = s.settledFor
      /\ fresh.straddler = s.straddler
  BY DEF Typed, BookFields
<1> HIDE DEF fresh
<1>3. Typed(fresh) /\ fresh.phase \in BettingPhases
  BY <1>1, <1>2 DEF Typed
<1>4. SameBook(fresh, turned)
  BY <1>2 DEF SameBook, BookFields
<1>5. Typed(turned)
  BY <1>3, <1>4, SameBookKeeps
<1>6. QED
  BY <1>3, <1>5, AdvanceToNextPhaseTyped DEF ResetRound, fresh, lr

LEMMA BettingTyped ==
  ASSUME NEW s, Typed(s), NEW p, MayAct(s, p), NEW a \in Nat, NEW r,
         r \in Fold(s, p) \cup Check(s, p) \cup Call(s, p) \cup AllIn(s, p)
                 \cup Bet(s, p, a) \cup Raise(s, p, a)
  PROVE  Typed(r)
<1>1. s.phase \in BettingPhases
  BY DEF MayAct
<1>2. ASSUME NEW acted, SameBook(s, acted)
      PROVE  /\ Typed(Acted(s, acted, p))
             /\ Typed(Acted(s, [acted EXCEPT !.lastRaise = a], p))
  <2> DEFINE raised == [acted EXCEPT !.lastRaise = a]
  <2>1. Typed(acted) /\ acted.phase \in BettingPhases
    BY <1>1, <1>2, SameBookKeeps DEF SameBook
  <2>2. /\ BookFields \subseteq DOMAIN raised
        /\ raised.phase = acted.phase /\ raised.board = acted.board
        /\ raised.rit = acted.rit /\ raised.lastRaise = a
        /\ raised.hand = acted.hand /\ raised.idle = acted.idle
        /\ raised.deadline = acted.deadline /\ raised.settledFor = acted.settledFor
        /\ raised.straddler = acted.straddler
    BY <2>1 DEF Typed, BookFields
  <2> HIDE DEF raised
  <2>3. Typed(raised) /\ raised.phase \in BettingPhases
    BY <2>1, <2>2 DEF Typed
  <2>4. QED
    BY <2>1, <2>3, ActedTyped DEF raised
<1>3. \A x : /\ Typed(Acted(s, Wagered(s, p, x), p))
             /\ Typed(Acted(s, [Wagered(s, p, x) EXCEPT !.lastRaise = a], p))
  BY <1>2, WageredBook
<1>4. CASE r \in Fold(s, p)
  <2> DEFINE f == [s EXCEPT !.folded = @ \cup {p}]
  <2>1. SameBook(s, f)
    BY DEF SameBook, Typed, BookFields
  <2>2. Typed(SettleFoldWin(f))
    BY <2>1, SameBookKeeps, SettleFoldWinTyped
  <2>3. QED
    BY <1>2, <1>4, <2>1, <2>2 DEF Fold
<1>5. CASE r \in Check(s, p)
  <2>1. SameBook(s, s)
    BY DEF SameBook, Typed
  <2>2. QED
    BY <1>2, <1>5, <2>1 DEF Check
<1>6. CASE r \in Call(s, p)
  BY <1>3, <1>6 DEF Call
<1>7. CASE r \in AllIn(s, p)
  <2> DEFINE w == PutIn(s, p, s.stack[p])
  <2>1. SameBook(s, w) /\ Typed(w)
    BY PutInBook, SameBookKeeps
  <2>2. SameBook(s, [w EXCEPT !.allIn = @ \cup {p}])
    BY <2>1, AllInBook, SameBookChains
  <2>3. QED
    BY <1>2, <1>7, <2>2 DEF AllIn
<1>8. CASE r \in Bet(s, p, a)
  BY <1>3, <1>8 DEF Bet
<1>9. CASE r \in Raise(s, p, a)
  BY <1>3, <1>9 DEF Raise
<1>10. QED
  BY <1>4, <1>5, <1>6, <1>7, <1>8, <1>9

LEMMA FoldStallingTyped ==
  ASSUME NEW s, Typed(s), NEW d \in NoDeadline .. Timeout
  PROVE  Typed(FoldStalling(s, d))
<1> DEFINE f    == [s EXCEPT !.folded = @ \cup {At(s, s.turn)}]
           open == Live(f) \ f.allIn
           next == SeatAfter(s, s.turn)
           g    == [f EXCEPT !.turn = IF open = {} THEN next
                                      ELSE Clockwise(s, next, open),
                             !.idle = 0, !.deadline = d]
<1>1. SameBook(s, f)
  BY DEF SameBook, Typed, BookFields
<1>2. Typed(f) /\ Typed(SettleFoldWin(f))
  BY <1>1, SameBookKeeps, SettleFoldWinTyped
<1> HIDE DEF f, open, next
<1>3. /\ BookFields \subseteq DOMAIN g
      /\ g.phase = f.phase /\ g.board = f.board /\ g.rit = f.rit
      /\ g.lastRaise = f.lastRaise /\ g.hand = f.hand /\ g.idle = 0
      /\ g.deadline = d /\ g.settledFor = f.settledFor /\ g.straddler = f.straddler
  BY <1>2 DEF Typed, BookFields
<1> HIDE DEF g
<1>4. Typed(g)
  BY <1>2, <1>3, ClockTypes DEF Typed
<1>5. QED
  BY <1>2, <1>4 DEF FoldStalling, f, open, next, g

LEMMA StartNewHandTyped ==
  ASSUME NEW s, Typed(s), Seating(s), s.hand < MaxHands, NEW v \in Int, v >= NoSeat,
         NEW r, r \in StartNewHand(s, v)
  PROVE  Typed(r)
<1> DEFINE t0 == [s EXCEPT
              !.hand = @ + 1, !.dealer = NextActiveSeat(s, s.dealer),
              !.folded = {}, !.allIn = {}, !.bet = NoChips, !.committed = NoChips,
              !.board = 0, !.rit = "none", !.sidePots = 0,
              !.lastRaise = BigBlind, !.phase = "Dealing",
              !.idle = 0, !.deadline = NoDeadline, !.settledFor = 0]
           t1 == PostAntes(t0)
           sb == IF Cardinality(Funded(t1)) = 2 THEN t1.dealer
                 ELSE NextActiveSeat(t1, t1.dealer)
           bb == NextActiveSeat(t1, sb)
           tS == PostBlind(t1, sb, SmallBlind)
           t2 == PostBlind(tS, bb, BigBlind)
           st == StraddleSeat(t1, bb, v)
           tT == PostBlind(t2, st, StraddleAmount)
<1>1. /\ BookFields \subseteq DOMAIN t0
      /\ t0.phase = "Dealing" /\ t0.board = 0 /\ t0.rit = "none"
      /\ t0.lastRaise = BigBlind /\ t0.hand = s.hand + 1 /\ t0.idle = 0
      /\ t0.deadline = NoDeadline /\ t0.settledFor = 0 /\ t0.straddler = s.straddler
  BY DEF Typed, BookFields
<1>2. r = IF st = NoSeat THEN [t2 EXCEPT !.straddler = NoSeat]
          ELSE [tT EXCEPT !.straddler = st]
  BY DEF StartNewHand
<1> HIDE DEF t0
<1>3. Typed(t0)
  <2>1. "Dealing" \in Phases
    BY DEF Phases
  <2>2. t0.hand \in 0 .. MaxHands
    BY <1>1, TableAssumption DEF Typed
  <2>3. QED
    BY <1>1, <2>1, <2>2, ClockTypes, BlindsAssumption DEF Typed
<1>4. Typed(t1)
  BY <1>3, PostAntesBook, SameBookKeeps
<1> HIDE DEF t1, sb, bb
<1>5. Typed(tS)
  BY <1>4, PostBlindBook, SameBookKeeps
<1> HIDE DEF tS
<1>6. Typed(t2)
  BY <1>5, PostBlindBook, SameBookKeeps
<1> HIDE DEF t2
<1>7. Typed(tT)
  BY <1>6, PostBlindBook, SameBookKeeps
<1> HIDE DEF tT, st
<1>8. r.straddler \in NoSeat .. 5
  <2>1. r.straddler # NoSeat => r.straddler \in 0 .. SeatCount(s) - 1
    BY StartNewHandSeats
  <2>2. SeatCount(s) \in Nat /\ SeatCount(s) <= 6
    BY TableAssumption DEF Seating, SeatCount
  <2>3. QED
    BY <2>1, <2>2 DEF NoSeat
<1>9. ASSUME NEW w, Typed(w), NEW k, r = [w EXCEPT !.straddler = k] PROVE Typed(r)
  <2>1. /\ BookFields \subseteq DOMAIN r
        /\ r.phase = w.phase /\ r.board = w.board /\ r.rit = w.rit
        /\ r.lastRaise = w.lastRaise /\ r.hand = w.hand /\ r.idle = w.idle
        /\ r.deadline = w.deadline /\ r.settledFor = w.settledFor
    BY <1>9 DEF Typed, BookFields
  <2>2. QED
    BY <1>8, <1>9, <2>1 DEF Typed
<1>10. QED
  BY <1>2, <1>6, <1>7, <1>9

LEMMA SettleShowdownTyped ==
  ASSUME NEW s, Typed(s), NEW best, NEW loser, NEW trig, NEW r,
         r \in SettleShowdown(s, best, loser, trig)
  PROVE  Typed(r)
<1> DEFINE pots  == CalculateSidePots(s)
           net   == ApplyRake(pots, RakeBps)
           split == SplitJackpotRake(TotalRake(pots, RakeBps), JackpotShareBps)
           extra == IF trig THEN (split.house * VarianceShareBps) \div 10000 ELSE 0
           paid  == [s EXCEPT
                  !.sidePots = PotTotal(net),
                  !.rake     = @ + split.house - extra,
                  !.jackpot  = @ + split.jackpot + extra,
                  !.stack    = [p \in Players |-> @[p] + PayoutTo(s, net, best, p)]]
<1>1. SameBook(s, paid)
  <2> HIDE DEF pots, net, split, extra
  <2>1. QED
    BY DEF SameBook, Typed, BookFields
<1>2. Typed(paid)
  BY <1>1, SameBookKeeps
<1>3. Typed(PayBadBeat(paid, FirstSeat(s, best), loser))
  BY <1>2, PayBadBeatBook, SameBookKeeps
<1>4. Typed(Settled(PayBadBeat(paid, FirstSeat(s, best), loser)))
  BY <1>3, SettledTyped
<1>5. QED
  BY <1>4 DEF SettleShowdown

-----------------------------------------------------------------------------
(* The inductive invariant of TypeOK: the money, the seats and the streets keep
   each other typed, and the records beside the table have their types. *)
Records ==
  /\ rebuys \in Holdings /\ escrow \in Int
  /\ pending.player \in Players \cup {Nobody} /\ pending.seat \in NoSeat .. 5
  /\ closure \in NoClosure .. ClosureNotice

TypesInv == TableInv /\ HandInStep /\ Typed(t) /\ Records

LEMMA SeatNextTyped == ASSUME Typed(t), SeatNext PROVE Typed(t')
<1>1. ASSUME NEW p \in Players, NEW c, JoinTable(p, c) PROVE Typed(t')
  BY <1>1, SatDownBook, SameBookKeeps DEF JoinTable
<1>2. ASSUME NEW p \in Players, NEW c, JoinQueue(p, c) PROVE Typed(t')
  BY <1>2 DEF JoinQueue, handVars
<1>3. ASSUME NEW p \in Players, NEW c, Rebuy(p, c) PROVE Typed(t')
  BY <1>3, CreditBook, SameBookKeeps DEF Rebuy
<1>4. ASSUME NEW p \in Players, LeaveTable(p) PROVE Typed(t')
  <2> DEFINE left == Vacated(t, p)
  <2>1. Typed(left)
    BY VacatedBook, SameBookKeeps
  <2>2. Typed(SatDown(left, Head(queue).player, Head(queue).buyIn))
    BY <2>1, SatDownBook, SameBookKeeps
  <2>3. QED
    BY <1>4, <2>1, <2>2 DEF LeaveTable, SeatNextFromQueue
<1>5. ASSUME NEW p \in Players, LeaveQueue(p) PROVE Typed(t')
  BY <1>5 DEF LeaveQueue, handVars
<1>6. QED
  BY <1>1, <1>2, <1>3, <1>4, <1>5 DEF SeatNext

LEMMA BettingNextTyped == ASSUME Typed(t), BettingNext PROVE Typed(t')
<1>1. PICK p \in Players :
         \/ PlayerFolds(p) \/ PlayerChecks(p) \/ PlayerCalls(p)
         \/ PlayerBets(p) \/ PlayerRaises(p) \/ PlayerAllIn(p)
  BY DEF BettingNext
<1>2. \E a \in Nat :
        /\ MayAct(t, p)
        /\ t' \in Fold(t, p) \cup Check(t, p) \cup Call(t, p) \cup AllIn(t, p)
                    \cup Bet(t, p, a) \cup Raise(t, p, a)
  BY <1>1, TableAssumption
     DEF PlayerFolds, PlayerChecks, PlayerCalls, PlayerBets, PlayerRaises,
         PlayerAllIn, PlayerAction, Outcome
<1>3. QED
  BY <1>2, BettingTyped

LEMMA CommitteeNextTyped ==
  ASSUME Typed(t), InStep(t), CommitteeNext \/ RunItTwiceNext PROVE Typed(t')
<1>1. CASE CommitDeal
  <2>1. /\ BookFields \subseteq DOMAIN t'
        /\ t'.phase = "Preflop" /\ t'.board = t.board /\ t'.rit = t.rit
        /\ t'.lastRaise = t.lastRaise /\ t'.hand = t.hand /\ t'.idle = 0
        /\ t'.deadline = Timeout /\ t'.settledFor = t.settledFor
        /\ t'.straddler = t.straddler
    BY <1>1 DEF CommitDeal, Typed, BookFields
  <2>2. "Preflop" \in Phases
    BY DEF Phases, BettingPhases
  <2>3. QED
    BY <2>1, <2>2, ClockTypes DEF Typed
<1>2. CASE RevealBoard
  <2> DEFINE r == [t EXCEPT !.board = @ + CardsDealt(t), !.phase = Street[@],
                            !.idle = 0]
  <2>1. /\ BookFields \subseteq DOMAIN r
        /\ r.phase = Street[t.phase] /\ r.board = t.board + CardsDealt(t)
        /\ r.rit = t.rit /\ r.lastRaise = t.lastRaise /\ r.hand = t.hand /\ r.idle = 0
        /\ r.deadline = t.deadline /\ r.settledFor = t.settledFor
        /\ r.straddler = t.straddler
    BY <1>2 DEF RevealBoard, Typed, BookFields
  <2>2. t.phase \in DealingPhases /\ t' = ResetRound(r)
    BY <1>2 DEF RevealBoard
  <2> HIDE DEF r
  <2>3. r.phase \in BettingPhases /\ r.phase \in Phases /\ r.board \in 0 .. 5
    <3>1. /\ t.phase = "DealingFlop" => r.phase = "Flop" /\ r.board = 3
          /\ t.phase = "DealingTurn" => r.phase = "Turn" /\ r.board = 4
          /\ t.phase = "DealingRiver" => r.phase = "River" /\ r.board = 5
      BY <2>1, <2>2 DEF Street, CardsDealt, InStep, BoardInStep
    <3>2. QED
      BY <2>2, <3>1 DEF DealingPhases, BettingPhases, Phases
  <2>4. Typed(r)
    BY <2>1, <2>3, ClockTypes DEF Typed
  <2>5. QED
    BY <2>2, <2>3, <2>4, ResetRoundTyped
<1>3. CASE SubmitShowdown
  BY <1>3, SettleShowdownTyped DEF SubmitShowdown, Outcome
<1>4. ASSUME NEW p \in Players, DeclineRunItTwice(p) PROVE Typed(t')
  <2>1. /\ BookFields \subseteq DOMAIN t'
        /\ t'.phase = ResumedPhase(t.board) /\ t'.board = t.board /\ t'.rit = t.rit
        /\ t'.lastRaise = t.lastRaise /\ t'.hand = t.hand /\ t'.idle = 0
        /\ t'.deadline = NoDeadline /\ t'.settledFor = t.settledFor
        /\ t'.straddler = t.straddler
    BY <1>4 DEF DeclineRunItTwice, Typed, BookFields
  <2>2. ResumedPhase(t.board) \in Phases
    BY DEF ResumedPhase, Phases, DealingPhases
  <2>3. QED
    BY <2>1, <2>2, ClockTypes DEF Typed
<1>5. ASSUME NEW p \in Players, OptInRunItTwice(p) PROVE Typed(t')
  <2>1. /\ BookFields \subseteq DOMAIN t'
        /\ t'.phase = t.phase /\ t'.board = t.board /\ t'.rit = "waiting"
        /\ t'.lastRaise = t.lastRaise /\ t'.hand = t.hand /\ t'.idle = t.idle
        /\ t'.deadline = t.deadline /\ t'.settledFor = t.settledFor
        /\ t'.straddler = t.straddler
    BY <1>5 DEF OptInRunItTwice, Typed, BookFields
  <2>2. QED
    BY <2>1 DEF Typed
<1>6. QED
  BY <1>1, <1>2, <1>3, <1>4, <1>5 DEF CommitteeNext, RunItTwiceNext

LEMMA TimeoutNextTyped == ASSUME Typed(t), TimeoutNext PROVE Typed(t')
<1>1. CASE ClaimTimeout
  <2>1. t.deadline \in NoDeadline .. Timeout
    BY DEF Typed
  <2>2. QED
    BY <1>1, <2>1, FoldStallingTyped DEF ClaimTimeout, Outcome, ProcessTimeout
<1>2. ASSUME NEW p \in Players, ForceFoldBy(p) PROVE Typed(t')
  BY <1>2, FoldStallingTyped, ClockTypes DEF ForceFoldBy, Outcome, ForceFold
<1>3. QED
  BY <1>1, <1>2 DEF TimeoutNext

LEMMA RefundsTyped ==
  ASSUME Typed(t), RecoveryNext \/ ExecuteClosure PROVE Typed(t')
<1>1. CASE CancelHand
  BY <1>1, RefundedTyped DEF CancelHand, RefundEverybody
<1>2. CASE AdminEmergency
  BY <1>2, RefundedTyped DEF AdminEmergency, RefundEverybody
<1>3. ASSUME NEW p \in Players, ApproveEmergency(p) PROVE Typed(t')
  BY <1>3, RefundedTyped DEF ApproveEmergency, RefundEverybody, handVars
<1>4. CASE ExecuteClosure
  BY <1>4, RefundedTyped DEF ExecuteClosure, RefundEverybody
<1>5. QED
  BY <1>1, <1>2, <1>3, <1>4 DEF RecoveryNext

LEMMA TickTyped == ASSUME Typed(t), Tick PROVE Typed(t')
<1>1. /\ BookFields \subseteq DOMAIN t'
      /\ t'.phase = t.phase /\ t'.board = t.board /\ t'.rit = t.rit
      /\ t'.lastRaise = t.lastRaise /\ t'.hand = t.hand
      /\ t'.idle = Elapse(t.idle, 2 * Timeout)
      /\ t'.deadline = CountDown(t.deadline)
      /\ t'.settledFor = IF t.phase = "Settlement"
                         THEN Elapse(t.settledFor, DeadChipTimeout) ELSE t.settledFor
      /\ t'.straddler = t.straddler
  BY DEF Tick, Typed, BookFields
<1>2. ASSUME NEW n \in Nat, NEW k \in 0 .. n PROVE Elapse(k, n) \in 0 .. n
  BY DEF Elapse
<1>3. 2 * Timeout \in Nat /\ DeadChipTimeout \in Nat
  BY BlindsAssumption, TableAssumption
<1>4. t'.idle \in 0 .. 2 * Timeout /\ t'.settledFor \in 0 .. DeadChipTimeout
  BY <1>1, <1>2, <1>3 DEF Typed
<1>5. t'.deadline \in NoDeadline .. Timeout
  BY <1>1, BlindsAssumption DEF Typed, CountDown, NoDeadline
<1>6. QED
  BY <1>1, <1>4, <1>5 DEF Typed

LEMMA BooksTyped ==
  ASSUME Typed(t), RakeNext \/ SweepDeadChips \/ FinalizeSunset PROVE Typed(t')
<1>1. CASE WithdrawRake
  <2>1. SameBook(t, t')
    BY <1>1 DEF WithdrawRake, SameBook, Typed, BookFields
  <2>2. QED
    BY <2>1, SameBookKeeps
<1>2. ASSUME NEW p \in Players, ClaimJackpot(p) PROVE Typed(t')
  <2> DEFINE c == Credit(t, p, t.jackpot)
  <2>1. SameBook(t, c) /\ Typed(c)
    BY CreditBook, SameBookKeeps
  <2> HIDE DEF c
  <2>2. SameBook(c, [c EXCEPT !.jackpot = 0])
    BY <2>1 DEF SameBook, Typed, BookFields
  <2>3. t' = [c EXCEPT !.jackpot = 0]
    BY <1>2 DEF ClaimJackpot, c
  <2>4. QED
    BY <2>1, <2>2, <2>3, SameBookKeeps
<1>3. CASE SweepDeadChips
  <2>1. SameBook(t, t')
    BY <1>3 DEF SweepDeadChips, SameBook, Typed, BookFields
  <2>2. QED
    BY <2>1, SameBookKeeps
<1>4. CASE FinalizeSunset
  <2>1. SameBook(t, t')
    BY <1>4 DEF FinalizeSunset, SameBook, Typed, BookFields
  <2>2. QED
    BY <2>1, SameBookKeeps
<1>5. QED
  BY <1>1, <1>2, <1>3, <1>4 DEF RakeNext

LEMMA TypedStep ==
  ASSUME TypesInv, [Next]_vars PROVE Typed(t')
<1>0. Typed(t) /\ InStep(t) /\ Seating(t) /\ pending.seat \in Int /\ pending.seat >= NoSeat
  BY DEF TypesInv, TableInv, HandInStep, SeatsInv, PotInv
<1>1. CASE SeatNext
  BY <1>0, <1>1, SeatNextTyped
<1>2. CASE StartHand
  BY <1>0, <1>2, StartNewHandTyped DEF StartHand
<1>3. CASE StraddleNext
  BY <1>0, <1>3 DEF StraddleNext, PostStraddle, CancelStraddle
<1>4. CASE BettingNext
  BY <1>0, <1>4, BettingNextTyped
<1>5. CASE CommitteeNext \/ RunItTwiceNext
  BY <1>0, <1>5, CommitteeNextTyped
<1>6. CASE TimeoutNext
  BY <1>0, <1>6, TimeoutNextTyped
<1>7. CASE RecoveryNext
  BY <1>0, <1>7, RefundsTyped
<1>8. CASE ClosingNext
  BY <1>0, <1>8, RefundsTyped, BooksTyped DEF ClosingNext, ProposeClosure, handVars
<1>9. CASE GuardNext
  BY <1>0, <1>9 DEF GuardNext, Pause, Unpause, Ban, Unban, handVars
<1>10. CASE RakeNext
  BY <1>0, <1>10, BooksTyped
<1>11. CASE Tick
  BY <1>0, <1>11, TickTyped
<1>12. CASE UNCHANGED vars
  BY <1>0, <1>12 DEF vars, handVars
<1>13. QED
  BY <1>1, <1>2, <1>3, <1>4, <1>5, <1>6, <1>7, <1>8, <1>9, <1>10, <1>11, <1>12 DEF Next

(* What the contract holds stays a whole number, overdrawn or not. *)
LEMMA EscrowInt == ASSUME TypesInv, [Next]_vars PROVE escrow' \in Int
<1>0. /\ escrow \in Int /\ Money(t) /\ PaidFor(queue)
      /\ t.stack \in [Players -> Nat] /\ t.committed \in [Players -> Nat]
  BY DEF TypesInv, Records, TableInv, ChipInv, Money, Holdings
<1>1. ASSUME NEW x \in Int, escrow' = escrow + x \/ escrow' = escrow - x
      PROVE  escrow' \in Int
  BY <1>0, <1>1
<1>2. ASSUME RefundEverybody(Refunded(t)) \/ RefundEverybody(Cancelled(t))
      PROVE  escrow' \in Int
  <2> DEFINE refund == [p \in Players |-> RefundTo(t, p)]
  <2>1. refund \in [Players -> Nat]
    BY <1>0 DEF RefundTo
  <2>2. escrow' = escrow - SumOver(refund, Players)
    BY <1>2 DEF RefundEverybody
  <2> HIDE DEF refund
  <2>3. SumOver(refund, Players) \in Int
    BY <2>1, TableAssumption, SumNat DEF SumOver
  <2>4. QED
    BY <1>0, <2>2, <2>3
<1>3. CASE SeatNext
  <2>1. ASSUME NEW p \in Players, NEW c \in BuyIns,
               JoinTable(p, c) \/ JoinQueue(p, c) \/ Rebuy(p, c)
        PROVE  escrow' \in Int
    BY <1>1, <2>1, TableAssumption DEF JoinTable, JoinQueue, Rebuy, Charge
  <2>2. ASSUME NEW p \in Players, LeaveTable(p) PROVE escrow' \in Int
    BY <1>0, <1>1, <2>2 DEF LeaveTable, Pay
  <2>3. ASSUME NEW p \in Players, LeaveQueue(p) PROVE escrow' \in Int
    <3>1. QueuedChips(queue)[p] \in Int
      BY <1>0, QueuedChipsAre DEF Holdings
    <3>2. QED
      BY <1>1, <2>3, <3>1 DEF LeaveQueue, Pay
  <2>4. QED
    BY <1>3, <2>1, <2>2, <2>3 DEF SeatNext
<1>4. CASE RecoveryNext \/ ExecuteClosure
  BY <1>0, <1>2, <1>4 DEF RecoveryNext, CancelHand, AdminEmergency, ApproveEmergency,
                          ExecuteClosure, moneyVars
<1>5. CASE SweepDeadChips
  <2>1. SumOver(t.stack, Players) \in Nat /\ t.pot \in Nat /\ t.sidePots \in Nat
    BY <1>0, HoldingsSums DEF Money
  <2>2. SumOver(t.stack, Players) + t.pot + t.sidePots \in Int
    BY <2>1
  <2>3. QED
    BY <1>1, <1>5, <2>2 DEF SweepDeadChips
<1>6. CASE FinalizeSunset
  <2>1. QueuedChips(queue) \in [Players -> Nat]
    BY <1>0, QueuedChipsAre DEF Holdings
  <2>2. SumOver(QueuedChips(queue), Players) \in Nat
    BY <2>1, TableAssumption, SumNat DEF SumOver
  <2>3. SumOver(QueuedChips(queue), Players) + t.rake + t.jackpot \in Int
    BY <1>0, <2>2 DEF Money
  <2>4. QED
    BY <1>1, <1>6, <2>3 DEF FinalizeSunset
<1>7. CASE RakeNext
  <2>1. CASE WithdrawRake
    BY <1>0, <1>1, <2>1 DEF WithdrawRake, Money
  <2>2. QED
    BY <1>0, <1>7, <2>1 DEF RakeNext, ClaimJackpot, moneyVars
<1>8. CASE UNCHANGED escrow
  BY <1>0, <1>8
<1>9. QED
  BY <1>3, <1>4, <1>5, <1>6, <1>7, <1>8
  DEF Next, vars, moneyVars, HandFrame, StartHand, StraddleNext, PostStraddle,
      CancelStraddle, BettingNext, PlayerFolds, PlayerChecks, PlayerCalls, PlayerBets,
      PlayerRaises, PlayerAllIn, PlayerAction, RunItTwiceNext, DeclineRunItTwice,
      OptInRunItTwice, CommitteeNext, CommitDeal, RevealBoard, SubmitShowdown,
      TimeoutNext, ClaimTimeout, ForceFoldBy, ClosingNext, ProposeClosure,
      GuardNext, Pause, Unpause, Ban, Unban, Tick

(* The calls that neither seat anybody nor wind up the table. *)
LEMMA RecordsStep == ASSUME TypesInv, [Next]_vars PROVE Records'
<1>0. /\ rebuys \in Holdings /\ closure \in NoClosure .. ClosureNotice
      /\ pending.player \in Players \cup {Nobody} /\ pending.seat \in NoSeat .. 5
      /\ t.seats \in Seq(Players) /\ SeatCount(t) <= MaxPlayers
  BY DEF TypesInv, Records, TableInv, SeatsInv, Seating
<1>1. rebuys' \in Holdings
  <2>1. NoChips \in Holdings
    BY DEF NoChips, Holdings
  <2>2. ASSUME NEW f \in Holdings, NEW x PROVE [f EXCEPT ![x] = 0] \in Holdings
    BY DEF Holdings
  <2>3. CASE SeatNext
    <3>1. ASSUME NEW p \in Players, NEW c, JoinTable(p, c) PROVE rebuys' \in Holdings
      BY <1>0, <2>2, <3>1 DEF JoinTable
    <3>2. ASSUME NEW p \in Players, NEW c, JoinQueue(p, c) PROVE rebuys' \in Holdings
      BY <1>0, <3>2 DEF JoinQueue
    <3>3. ASSUME NEW p \in Players, NEW c, Rebuy(p, c) PROVE rebuys' \in Holdings
      BY <1>0, <3>3 DEF Rebuy, Holdings
    <3>4. ASSUME NEW p \in Players, LeaveTable(p) PROVE rebuys' \in Holdings
      <4> DEFINE left == [rebuys EXCEPT ![p] = 0]
      <4>1. left \in Holdings /\ \A x : [left EXCEPT ![x] = 0] \in Holdings
        BY <1>0, <2>2
      <4> HIDE DEF left
      <4>2. SeatNextFromQueue(Vacated(t, p), left)
        BY <3>4 DEF LeaveTable, left
      <4>3. QED
        BY <4>1, <4>2 DEF SeatNextFromQueue
    <3>5. ASSUME NEW p \in Players, LeaveQueue(p) PROVE rebuys' \in Holdings
      BY <1>0, <3>5 DEF LeaveQueue
    <3>6. QED
      BY <2>3, <3>1, <3>2, <3>3, <3>4, <3>5 DEF SeatNext
  <2>4. CASE FinalizeSunset
    BY <2>1, <2>4 DEF FinalizeSunset
  <2>5. CASE UNCHANGED rebuys
    BY <1>0, <2>5
  <2>6. CASE RecoveryNext \/ ExecuteClosure
    BY <1>0, <2>6 DEF RecoveryNext, CancelHand, AdminEmergency, ApproveEmergency,
                      ExecuteClosure, RefundEverybody, seatVars
  <2>7. QED
    BY <2>3, <2>4, <2>5, <2>6
    DEF Next, vars, seatVars, HandFrame, StartHand, StraddleNext, PostStraddle,
        CancelStraddle, BettingNext, PlayerFolds, PlayerChecks, PlayerCalls, PlayerBets,
        PlayerRaises, PlayerAllIn, PlayerAction, RunItTwiceNext, DeclineRunItTwice,
        OptInRunItTwice, CommitteeNext, CommitDeal, RevealBoard, SubmitShowdown,
        TimeoutNext, ClaimTimeout, ForceFoldBy, ClosingNext, ProposeClosure,
        SweepDeadChips, GuardNext, Pause, Unpause, Ban, Unban, RakeNext, WithdrawRake,
        ClaimJackpot, Tick
<1>2. pending'.player \in Players \cup {Nobody} /\ pending'.seat \in NoSeat .. 5
  <2>1. CASE pending' = NoVolunteer
    BY <2>1 DEF NoVolunteer, NoSeat
  <2>2. CASE pending' = pending
    BY <1>0, <2>2
  <2>3. ASSUME NEW p \in Players, PostStraddle(p)
        PROVE  pending'.player \in Players \cup {Nobody} /\ pending'.seat \in NoSeat .. 5
    <3>1. SeatOf(t, p) \in 1 .. Len(t.seats)
      BY <1>0, <2>3, SeatOfInRange DEF PostStraddle
    <3>2. Len(t.seats) \in Nat /\ Len(t.seats) <= 6
      BY <1>0, TableAssumption DEF SeatCount
    <3>3. pending'.player = p /\ pending'.seat = SeatOf(t, p) - 1
      BY <2>3 DEF PostStraddle
    <3>4. QED
      BY <3>1, <3>2, <3>3 DEF NoSeat
  <2>4. pending' = NoVolunteer \/ pending' = pending \/ \E p \in Players : PostStraddle(p)
    <3>1. CASE SeatNext
      BY <3>1 DEF SeatNext, JoinTable, JoinQueue, Rebuy, LeaveTable, LeaveQueue, handVars
    <3>2. CASE RecoveryNext \/ ClosingNext
      BY <3>2 DEF RecoveryNext, CancelHand, AdminEmergency, ApproveEmergency, ClosingNext,
                  ExecuteClosure, ProposeClosure, SweepDeadChips, FinalizeSunset,
                  RefundEverybody, handVars
    <3>3. QED
      BY <3>1, <3>2
      DEF Next, vars, handVars, HandFrame, StartHand, StraddleNext,
          CancelStraddle, BettingNext, PlayerFolds, PlayerChecks, PlayerCalls,
          PlayerBets, PlayerRaises, PlayerAllIn, PlayerAction, RunItTwiceNext,
          DeclineRunItTwice, OptInRunItTwice, CommitteeNext, CommitDeal, RevealBoard,
          SubmitShowdown, TimeoutNext, ClaimTimeout, ForceFoldBy, GuardNext, Pause,
          Unpause, Ban, Unban, RakeNext, WithdrawRake, ClaimJackpot, Tick
  <2>5. QED
    BY <2>1, <2>2, <2>3, <2>4
<1>3. closure' \in NoClosure .. ClosureNotice
  <2>1. ClosureNotice \in Nat
    BY TableAssumption
  <2>2. CASE closure' \in {closure, NoClosure, ClosureNotice, CountDown(closure)}
    BY <1>0, <2>1, <2>2 DEF CountDown, NoClosure
  <2>3. CASE RecoveryNext \/ ClosingNext
    BY <2>2, <2>3 DEF RecoveryNext, CancelHand, AdminEmergency, ApproveEmergency,
                      ClosingNext, ExecuteClosure, ProposeClosure, SweepDeadChips,
                      FinalizeSunset, adminVars
  <2>4. CASE SeatNext
    BY <2>2, <2>4 DEF SeatNext, JoinTable, JoinQueue, Rebuy, LeaveTable, LeaveQueue,
                      adminVars
  <2>5. QED
    BY <2>2, <2>3, <2>4
    DEF Next, vars, adminVars, HandFrame, StartHand, StraddleNext, PostStraddle,
        CancelStraddle, BettingNext, PlayerFolds, PlayerChecks, PlayerCalls,
        PlayerBets, PlayerRaises, PlayerAllIn, PlayerAction, RunItTwiceNext,
        DeclineRunItTwice, OptInRunItTwice, CommitteeNext, CommitDeal, RevealBoard,
        SubmitShowdown, TimeoutNext, ClaimTimeout, ForceFoldBy, GuardNext, Pause,
        Unpause, Ban, Unban, RakeNext, WithdrawRake, ClaimJackpot, Tick
<1>4. escrow' \in Int
  BY EscrowInt
<1>5. QED
  BY <1>1, <1>2, <1>3, <1>4 DEF Records

LEMMA TypesInvInit == Init => TypesInv
<1> SUFFICES ASSUME Init PROVE TypesInv
  OBVIOUS
<1>1. TableInv /\ HandInStep
  BY PotInvInit, SeatsInvInit, ChipInvInit, InStepInit DEF TableInv
<1>2. t = EmptyTable
  BY DEF Init
<1>3. /\ BookFields \subseteq DOMAIN t
      /\ t.phase = "Waiting" /\ t.board = 0 /\ t.rit = "none" /\ t.lastRaise = BigBlind
      /\ t.hand = 0 /\ t.idle = 0 /\ t.deadline = NoDeadline /\ t.settledFor = 0
      /\ t.straddler = NoSeat
  BY <1>2 DEF EmptyTable, BookFields
<1>4. "Waiting" \in Phases
  BY DEF Phases, BetweenHandsPhases
<1>5. Typed(t)
  BY <1>3, <1>4, ClockTypes, BlindsAssumption, TableAssumption DEF Typed, NoSeat
<1>6. Records
  BY TableAssumption DEF Init, Records, NoChips, Holdings, NoVolunteer, NoSeat, NoClosure
<1>7. QED
  BY <1>1, <1>5, <1>6 DEF TypesInv

LEMMA TypesAlwaysInv == Spec => []TypesInv
<1>1. TypesInv /\ [Next]_vars => TypesInv'
  <2> SUFFICES ASSUME TypesInv, [Next]_vars PROVE TypesInv'
    OBVIOUS
  <2>1. TableInv' /\ HandInStep'
    BY PotInvStep, SeatsInvStep, ChipInvStep, InStepStep DEF TypesInv, TableInv
  <2>2. Typed(t)' /\ Records'
    BY TypedStep, RecordsStep
  <2>3. QED
    BY <2>1, <2>2 DEF TypesInv
<1>2. QED
  BY <1>1, TypesInvInit, PTL DEF Spec

(* TypeOK for every table: no sequence of calls makes a balance negative, points the
   button, the turn or a straddle beyond the sixth seat, counts more than five cards
   or lets a clock run over. *)
THEOREM TypesAlwaysOK == Spec => []TypeOK
<1>1. TypesInv => TypeOK
  <2> SUFFICES ASSUME TypesInv PROVE TypeOK
    OBVIOUS
  <2>1. /\ Money(t) /\ PaidFor(queue) /\ Seating(t) /\ Typed(t) /\ Records
        /\ wallet \in Holdings /\ paidOut \in Nat
    BY DEF TypesInv, TableInv, ChipInv, SeatsInv
  <2>2. t.seats \in Seq(Players) /\ Len(t.seats) \in 0 .. MaxPlayers /\ MaxPlayers <= 6
        /\ MaxPlayers \in Nat
    BY <2>1, TableAssumption DEF Seating, SeatCount
  <2>3. t.seats \in BoundedSeq(Players, MaxPlayers)
    <3>1. t.seats \in [1 .. Len(t.seats) -> Players]
      BY <2>2
    <3>2. QED
      BY <2>2, <3>1 DEF BoundedSeq, SeqOf
  <2>4. t.turn \in 0 .. 5 /\ t.dealer \in 0 .. 5
    <3>1. Max({1, SeatCount(t)}) <= 6 /\ Max({1, SeatCount(t)}) \in Nat
      BY <2>2, MaxWithOne DEF SeatCount
    <3>2. QED
      BY <2>1, <3>1 DEF Seating, PointsAt
  <2>5. \A i \in DOMAIN queue : queue[i] \in [player : Players, buyIn : Nat]
    <3>1. ASSUME NEW i \in DOMAIN queue
          PROVE  queue[i] \in [player : Players, buyIn : Nat]
      <4>1. queue \in Seq(Entries) /\ queue[i].buyIn \in Nat
        BY <2>1 DEF PaidFor
      <4>2. queue[i] \in Entries
        BY <4>1
      <4>3. QED
        BY <4>1, <4>2 DEF Entries
    <3>2. QED
      BY <3>1
  <2>6. QED
    BY <2>1, <2>3, <2>4, <2>5 DEF TypeOK, Money, Typed, Records
<1>2. QED
  BY <1>1, TypesAlwaysInv, PTL

=============================================================================
