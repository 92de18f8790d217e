------------------------- MODULE PokerTable_proofs -------------------------
(***************************************************************************)
(* Proofs about PokerTable for every value of its constants.               *)
(*                                                                         *)
(* First the phase, the board and the deadline: whatever sequence of bets, *)
(* folds, timeouts, reveals, Run-It-Twice answers, refunds and showdowns a *)
(* hand goes through, the phase and the cards on the board agree and a     *)
(* deadline runs only in a betting round.                                  *)
(*                                                                         *)
(* Then the pot: it is what the players have committed, for every number   *)
(* of players, every blind, ante, straddle and betting structure.  That    *)
(* invariant says nothing without the types of the amounts, so it is       *)
(* strengthened with them (IsLedger): a payout is an integer because a pot *)
(* is, a blind is posted by a player because the seat search stays inside  *)
(* the table, and a volunteer straddler's seat is never negative.          *)
(***************************************************************************)
EXTENDS PokerTable, ChipSums, SequenceTheorems

(* What the proofs know of the shape of a table record. *)
IsTable(s) == {"phase", "board", "deadline"} \subseteq DOMAIN s

(* BoardMatchesPhase and DeadlineOnlyInBetting, of any table record. *)
BoardInStep(s) ==
  /\ s.phase \in {"Dealing", "Preflop", "DealingFlop"} => s.board = 0
  /\ s.phase \in {"Flop", "DealingTurn"} => s.board = 3
  /\ s.phase \in {"Turn", "DealingRiver"} => s.board = 4
  /\ s.phase \in {"River", "Showdown"} => s.board = 5
  /\ s.phase = "AwaitingRunItTwice" => s.board \in {0, 3, 4}

ClockInStep(s) ==
  s.deadline # NoDeadline => s.phase \in BettingPhases \cup {"Settlement"}

InStep(s) == IsTable(s) /\ BoardInStep(s) /\ ClockInStep(s)

(* Rules that move chips, seats or marks but neither phase, board nor clock. *)
SameStep(s, r) ==
  IsTable(r) /\ r.phase = s.phase /\ r.board = s.board /\ r.deadline = s.deadline

LEMMA SameStepKeeps ==
  ASSUME NEW s, NEW r, InStep(s), SameStep(s, r) PROVE InStep(r)
  BY DEF InStep, BoardInStep, ClockInStep, SameStep

LEMMA SameStepChains ==
  ASSUME NEW s, NEW r, NEW q, SameStep(s, r), SameStep(r, q) PROVE SameStep(s, q)
  BY DEF SameStep

-----------------------------------------------------------------------------
(* The rules that keep phase, board and deadline. *)
LEMMA PutInSame ==
  ASSUME NEW s, IsTable(s), NEW p, NEW a PROVE SameStep(s, PutIn(s, p, a))
  BY DEF PutIn, SameStep, IsTable

LEMMA CreditSameStep ==
  ASSUME NEW s, IsTable(s), NEW p, NEW a PROVE SameStep(s, Credit(s, p, a))
  BY DEF Credit, SameStep, IsTable

LEMMA PostAntesSame ==
  ASSUME NEW s, IsTable(s) PROVE SameStep(s, PostAntes(s))
  BY DEF PostAntes, SameStep, IsTable

LEMMA PostBlindSame ==
  ASSUME NEW s, IsTable(s), NEW k, NEW a PROVE SameStep(s, PostBlind(s, k, a))
<1> DEFINE w == PutIn(s, At(s, k), s.stack[At(s, k)])
<1>1. SameStep(s, PutIn(s, At(s, k), a)) /\ SameStep(s, w)
  BY PutInSame
<1>2. SameStep(w, [w EXCEPT !.allIn = @ \cup {At(s, k)}])
  BY <1>1 DEF SameStep, IsTable
<1>3. SameStep(s, [w EXCEPT !.allIn = @ \cup {At(s, k)}])
  BY <1>1, <1>2, SameStepChains
<1>4. QED
  BY <1>1, <1>3 DEF PostBlind

LEMMA WageredSame ==
  ASSUME NEW s, IsTable(s), NEW p, NEW a PROVE SameStep(s, Wagered(s, p, a))
<1> DEFINE w == PutIn(s, p, a)
<1>1. SameStep(s, w)
  BY PutInSame
<1>2. SameStep(w, [w EXCEPT !.allIn = @ \cup {p}])
  BY <1>1 DEF SameStep, IsTable
<1>3. SameStep(s, [w EXCEPT !.allIn = @ \cup {p}])
  BY <1>1, <1>2, SameStepChains
<1>4. QED
  BY <1>1, <1>3 DEF Wagered

LEMMA PayBadBeatSame ==
  ASSUME NEW s, IsTable(s), NEW w, NEW l PROVE SameStep(s, PayBadBeat(s, w, l))
  BY DEF PayBadBeat, SameStep, IsTable

LEMMA VacatedSame ==
  ASSUME NEW s, IsTable(s), NEW p PROVE SameStep(s, Vacated(s, p))
  BY DEF Vacated, SameStep, IsTable

LEMMA SatDownSame ==
  ASSUME NEW s, IsTable(s), NEW p, NEW c PROVE SameStep(s, SatDown(s, p, c))
  BY DEF SatDown, SameStep, IsTable

-----------------------------------------------------------------------------
(* The rules that move the phase. *)
LEMMA SettledInStep ==
  ASSUME NEW s, IsTable(s) PROVE InStep(Settled(s))
  BY DEF Settled, InStep, BoardInStep, ClockInStep, IsTable, BettingPhases

LEMMA SettleFoldWinInStep ==
  ASSUME NEW s, IsTable(s) PROVE InStep(SettleFoldWin(s))
<1> DEFINE winner == CHOOSE p \in Live(s) : TRUE
           rake   == (s.pot * RakeBps) \div 10000
           c      == Credit(s, winner, s.pot - rake)
<1>1. IsTable(c)
  BY CreditSameStep DEF SameStep
<1>2. IsTable([c EXCEPT !.rake = @ + rake])
  BY <1>1 DEF IsTable
<1>3. InStep(Settled([c EXCEPT !.rake = @ + rake]))
  BY <1>2, SettledInStep
<1>4. QED
  BY <1>3 DEF SettleFoldWin

LEMMA RefundedInStep ==
  ASSUME NEW s, IsTable(s) PROVE InStep(Refunded(s))
  BY DEF Refunded, Settled, InStep, BoardInStep, ClockInStep, IsTable, BettingPhases

LEMMA CancelledInStep ==
  ASSUME NEW s, IsTable(s) PROVE InStep(Cancelled(s))
  BY DEF Cancelled, Refunded, Settled, InStep, BoardInStep, ClockInStep, IsTable,
         BettingPhases

(* A betting round that ends moves to the street after it, to Run-It-Twice with
   the board as it is, or to the settlement; the deadline goes. *)
LEMMA AdvanceToNextPhaseInStep ==
  ASSUME NEW s, IsTable(s), BoardInStep(s), s.phase \in BettingPhases
  PROVE  InStep(AdvanceToNextPhase(s))
<1>1. CASE Cardinality(Live(s)) = 1
  BY <1>1, SettleFoldWinInStep DEF AdvanceToNextPhase
<1>2. CASE Cardinality(Live(s)) # 1
  <2> DEFINE r == AdvanceToNextPhase(s)
  <2>1. /\ IsTable(r) /\ r.board = s.board /\ r.deadline = NoDeadline
        /\ r.phase = IF RunItTwiceOffered(s) THEN "AwaitingRunItTwice"
                     ELSE NextPhase[s.phase]
    BY <1>2 DEF AdvanceToNextPhase, IsTable
  <2>2. RunItTwiceOffered(s) => s.phase # "River"
    BY DEF RunItTwiceOffered
  <2>3. BoardInStep(r)
    BY <2>1, <2>2 DEF BoardInStep, BettingPhases, NextPhase
  <2>4. QED
    BY <2>1, <2>3 DEF InStep, ClockInStep
<1>3. QED
  BY <1>1, <1>2

LEMMA AdvanceTurnInStep ==
  ASSUME NEW s, IsTable(s), BoardInStep(s), s.phase \in BettingPhases, NEW m
  PROVE  InStep(AdvanceTurn(s, m))
<1> DEFINE turned == [s EXCEPT !.turn = Clockwise(s, SeatAfter(s, @), CanAct(s))]
<1>1. SameStep(s, turned)
  BY DEF SameStep, IsTable
<1>2. InStep(turned)
  BY <1>1 DEF InStep, BoardInStep, ClockInStep, SameStep
<1>3. QED
  BY <1>2, AdvanceToNextPhaseInStep DEF AdvanceTurn

LEMMA ActedInStep ==
  ASSUME NEW s, NEW acted, NEW p, BoardInStep(s), SameStep(s, acted),
         s.phase \in BettingPhases
  PROVE  InStep(Acted(s, acted, p))
<1> DEFINE a == [acted EXCEPT !.idle = 0, !.deadline = Timeout]
<1>1. IsTable(a) /\ a.phase = s.phase /\ a.board = s.board
  BY DEF SameStep, IsTable
<1>2. BoardInStep(a) /\ a.phase \in BettingPhases
  BY <1>1 DEF BoardInStep
<1>3. QED
  BY <1>1, <1>2, AdvanceTurnInStep DEF Acted

LEMMA ResetRoundInStep ==
  ASSUME NEW s, IsTable(s), BoardInStep(s), s.phase \in BettingPhases
  PROVE  InStep(ResetRound(s))
<1> DEFINE fresh == [s EXCEPT !.bet = NoChips,
                              !.lastRaise = IF Structure.kind = "FixedLimit"
                                            THEN FixedBet(s) ELSE BigBlind]
           turned == [fresh EXCEPT !.turn =
                        Clockwise(s, SeatAfter(s, s.dealer), CanAct(s))]
<1>1. SameStep(s, fresh) /\ SameStep(s, turned)
  BY DEF SameStep, IsTable
<1>2. /\ IsTable(fresh) /\ BoardInStep(fresh) /\ fresh.phase \in BettingPhases
      /\ InStep(turned)
  BY <1>1 DEF InStep, BoardInStep, ClockInStep, SameStep
<1>3. QED
  BY <1>2, AdvanceToNextPhaseInStep DEF ResetRound
-----------------------------------------------------------------------------
(* Betting actions and timeouts: every table a rule may return is in step. *)
LEMMA BettingInStep ==
  ASSUME NEW s, InStep(s), NEW p, MayAct(s, p), NEW a, NEW r,
         r \in Fold(s, p) \cup Check(s, p) \cup Call(s, p) \cup AllIn(s, p)
                 \cup Bet(s, p, a) \cup Raise(s, p, a)
  PROVE  InStep(r)
<1> USE DEF InStep
<1>1. s.phase \in BettingPhases
  BY DEF MayAct
<1>2. ASSUME NEW acted, SameStep(s, acted) PROVE InStep(Acted(s, acted, p))
  BY <1>1, <1>2, ActedInStep
<1>3. ASSUME NEW x, NEW y
      PROVE  /\ InStep(Acted(s, Wagered(s, p, x), p))
             /\ InStep(Acted(s, [Wagered(s, p, x) EXCEPT !.lastRaise = y], p))
  <2>1. SameStep(s, Wagered(s, p, x))
    BY WageredSame
  <2>2. SameStep(s, [Wagered(s, p, x) EXCEPT !.lastRaise = y])
    BY <2>1 DEF SameStep, IsTable
  <2>3. QED
    BY <1>2, <2>1, <2>2
<1>4. CASE r \in Fold(s, p)
  <2> DEFINE f == [s EXCEPT !.folded = @ \cup {p}]
  <2>1. SameStep(s, f)
    BY DEF SameStep, IsTable
  <2>2. InStep(SettleFoldWin(f))
    BY <2>1, SettleFoldWinInStep DEF SameStep
  <2>3. QED
    BY <1>2, <1>4, <2>1, <2>2 DEF Fold
<1>5. CASE r \in Check(s, p)
  <2>1. SameStep(s, s)
    BY DEF SameStep
  <2>2. QED
    BY <1>2, <1>5, <2>1 DEF Check
<1>6. CASE r \in Call(s, p)
  BY <1>3, <1>6 DEF Call
<1>7. CASE r \in AllIn(s, p)
  <2> DEFINE w == PutIn(s, p, s.stack[p])
  <2>1. SameStep(s, w)
    BY PutInSame
  <2>2. SameStep(s, [w EXCEPT !.allIn = @ \cup {p}])
    BY <2>1 DEF SameStep, IsTable
  <2>3. QED
    BY <1>2, <1>7, <2>2 DEF AllIn
<1>8. CASE r \in Bet(s, p, a)
  BY <1>3, <1>8 DEF Bet
<1>9. CASE r \in Raise(s, p, a)
  BY <1>3, <1>9 DEF Raise
<1>10. QED
  BY <1>4, <1>5, <1>6, <1>7, <1>8, <1>9

LEMMA FoldStallingInStep ==
  ASSUME NEW s, InStep(s), s.phase \in BettingPhases, NEW d
  PROVE  InStep(FoldStalling(s, d))
<1> DEFINE f    == [s EXCEPT !.folded = @ \cup {At(s, s.turn)}]
           open == Live(f) \ f.allIn
           next == SeatAfter(s, s.turn)
           g    == [f EXCEPT !.turn = IF open = {} THEN next
                                      ELSE Clockwise(s, next, open),
                             !.idle = 0, !.deadline = d]
<1>1. SameStep(s, f)
  BY DEF SameStep, InStep, IsTable
<1>2. InStep(SettleFoldWin(f))
  BY <1>1, SettleFoldWinInStep DEF SameStep
<1>3. IsTable(g) /\ g.phase = s.phase /\ g.board = s.board
  BY <1>1 DEF SameStep, IsTable
<1>4. InStep(g)
  BY <1>3 DEF InStep, BoardInStep, ClockInStep
<1>5. QED
  BY <1>2, <1>4 DEF FoldStalling

LEMMA StartNewHandInStep ==
  ASSUME NEW s, InStep(s), NEW v, NEW r, r \in StartNewHand(s, v)
  PROVE  InStep(r)
<1> DEFINE t0 == [s EXCEPT
              !.hand = @ + 1, !.dealer = NextActiveSeat(s, s.dealer),
              !.folded = {}, !.allIn = {}, !.bet = NoChips, !.committed = NoChips,
              !.board = 0, !.rit = "none", !.sidePots = 0,
              !.lastRaise = BigBlind, !.phase = "Dealing",
              !.idle = 0, !.deadline = NoDeadline, !.settledFor = 0]
           t1 == PostAntes(t0)
           sb == IF Cardinality(Funded(t1)) = 2 THEN t1.dealer
                 ELSE NextActiveSeat(t1, t1.dealer)
           bb == NextActiveSeat(t1, sb)
           tS == PostBlind(t1, sb, SmallBlind)
           t2 == PostBlind(tS, bb, BigBlind)
           st == StraddleSeat(t1, bb, v)
           tT == PostBlind(t2, st, StraddleAmount)
<1>1. InStep(t0)
  BY DEF InStep, BoardInStep, ClockInStep, IsTable, BettingPhases
<1>2. InStep(t1)
  BY <1>1, PostAntesSame, SameStepKeeps DEF InStep
<1>3. InStep(tS)
  BY <1>2, PostBlindSame, SameStepKeeps DEF InStep
<1>4. InStep(t2)
  BY <1>3, PostBlindSame, SameStepKeeps DEF InStep
<1>5. InStep(tT)
  BY <1>4, PostBlindSame, SameStepKeeps DEF InStep
<1>6. ASSUME NEW q, InStep(q), NEW x PROVE InStep([q EXCEPT !.straddler = x])
  BY <1>6 DEF InStep, BoardInStep, ClockInStep, IsTable
<1>7. r \in {[t2 EXCEPT !.straddler = NoSeat], [tT EXCEPT !.straddler = st]}
  BY DEF StartNewHand
<1> HIDE DEF t2, tT, st
<1>8. QED
  BY <1>4, <1>5, <1>6, <1>7

LEMMA SettleShowdownInStep ==
  ASSUME NEW s, InStep(s), NEW best, NEW loser, NEW trig, NEW r,
         r \in SettleShowdown(s, best, loser, trig)
  PROVE  InStep(r)
<1> DEFINE pots  == CalculateSidePots(s)
           net   == ApplyRake(pots, RakeBps)
           split == SplitJackpotRake(TotalRake(pots, RakeBps), JackpotShareBps)
           extra == IF trig THEN (split.house * VarianceShareBps) \div 10000 ELSE 0
           paid  == [s EXCEPT
                  !.sidePots = PotTotal(net),
                  !.rake     = @ + split.house - extra,
                  !.jackpot  = @ + split.jackpot + extra,
                  !.stack    = [p \in Players |-> @[p] + PayoutTo(s, net, best, p)]]
<1>1. IsTable(paid)
  BY DEF InStep, IsTable
<1>2. IsTable(PayBadBeat(paid, FirstSeat(s, best), loser))
  BY <1>1, PayBadBeatSame DEF SameStep
<1>3. InStep(Settled(PayBadBeat(paid, FirstSeat(s, best), loser)))
  BY <1>2, SettledInStep
<1>4. QED
  BY <1>3 DEF SettleShowdown

-----------------------------------------------------------------------------
(* The actions. *)
(* The inductive invariant. *)
HandInStep == InStep(t)

LEMMA InStepInit == Init => HandInStep
  BY DEF HandInStep, Init, EmptyTable, InStep, BoardInStep, ClockInStep, IsTable

LEMMA SeatNextInStep == ASSUME InStep(t), SeatNext PROVE InStep(t')
<1> USE DEF InStep
<1>1. ASSUME NEW p \in Players, NEW c, JoinTable(p, c) PROVE InStep(t')
  BY <1>1, SatDownSame, SameStepKeeps DEF JoinTable
<1>2. ASSUME NEW p \in Players, NEW c, JoinQueue(p, c) PROVE InStep(t')
  BY <1>2 DEF JoinQueue, handVars
<1>3. ASSUME NEW p \in Players, NEW c, Rebuy(p, c) PROVE InStep(t')
  BY <1>3, CreditSameStep, SameStepKeeps DEF Rebuy
<1>4. ASSUME NEW p \in Players, LeaveTable(p) PROVE InStep(t')
  <2> DEFINE left == Vacated(t, p)
  <2>1. InStep(left)
    BY VacatedSame, SameStepKeeps
  <2>2. InStep(SatDown(left, Head(queue).player, Head(queue).buyIn))
    BY <2>1, SatDownSame, SameStepKeeps
  <2>3. QED
    BY <1>4, <2>1, <2>2 DEF LeaveTable, SeatNextFromQueue
<1>5. ASSUME NEW p \in Players, LeaveQueue(p) PROVE InStep(t')
  BY <1>5 DEF LeaveQueue, handVars
<1>6. QED
  BY <1>1, <1>2, <1>3, <1>4, <1>5 DEF SeatNext

LEMMA BettingNextInStep == ASSUME InStep(t), BettingNext PROVE InStep(t')
<1>1. PICK p \in Players :
         \/ PlayerFolds(p) \/ PlayerChecks(p) \/ PlayerCalls(p)
         \/ PlayerBets(p) \/ PlayerRaises(p) \/ PlayerAllIn(p)
  BY DEF BettingNext
<1>2. \E a : /\ MayAct(t, p)
             /\ t' \in Fold(t, p) \cup Check(t, p) \cup Call(t, p) \cup AllIn(t, p)
                         \cup Bet(t, p, a) \cup Raise(t, p, a)
  BY <1>1 DEF PlayerFolds, PlayerChecks, PlayerCalls, PlayerBets, PlayerRaises,
              PlayerAllIn, PlayerAction, Outcome
<1>3. QED
  BY <1>2, BettingInStep

LEMMA CommitteeNextInStep ==
  ASSUME InStep(t), CommitteeNext \/ RunItTwiceNext PROVE InStep(t')
<1>1. CASE CommitDeal
  <2>1. /\ IsTable(t') /\ t'.phase = "Preflop" /\ t'.board = t.board
        /\ t.phase = "Dealing"
    BY <1>1 DEF CommitDeal, InStep, IsTable
  <2>2. QED
    BY <2>1 DEF InStep, BoardInStep, ClockInStep, BettingPhases
<1>2. CASE RevealBoard
  <2> DEFINE r == [t EXCEPT !.board = @ + CardsDealt(t), !.phase = Street[@],
                            !.idle = 0]
  <2>1. /\ IsTable(r) /\ r.board = t.board + CardsDealt(t)
        /\ r.phase = Street[t.phase] /\ t.phase \in DealingPhases
    BY <1>2 DEF RevealBoard, InStep, IsTable
  <2>2. /\ t.phase = "DealingFlop" => r.phase = "Flop" /\ r.board = 3
        /\ t.phase = "DealingTurn" => r.phase = "Turn" /\ r.board = 4
        /\ t.phase = "DealingRiver" => r.phase = "River" /\ r.board = 5
    BY <2>1 DEF Street, CardsDealt, InStep, BoardInStep
  <2>3. BoardInStep(r) /\ r.phase \in BettingPhases
    BY <2>1, <2>2 DEF DealingPhases, BoardInStep, BettingPhases
  <2>4. QED
    BY <1>2, <2>1, <2>3, ResetRoundInStep DEF RevealBoard
<1>3. CASE SubmitShowdown
  BY <1>3, SettleShowdownInStep DEF SubmitShowdown, Outcome
<1>4. ASSUME NEW p \in Players, DeclineRunItTwice(p) PROVE InStep(t')
  <2>1. /\ IsTable(t') /\ t'.phase = ResumedPhase(t.board) /\ t'.board = t.board
        /\ t'.deadline = NoDeadline /\ t.board \in {0, 3, 4}
    BY <1>4 DEF DeclineRunItTwice, MayDecideRunItTwice, InStep, BoardInStep, IsTable
  <2>2. QED
    BY <2>1 DEF ResumedPhase, InStep, BoardInStep, ClockInStep
<1>5. ASSUME NEW p \in Players, OptInRunItTwice(p) PROVE InStep(t')
  BY <1>5 DEF OptInRunItTwice, InStep, BoardInStep, ClockInStep, IsTable
<1>6. QED
  BY <1>1, <1>2, <1>3, <1>4, <1>5 DEF CommitteeNext, RunItTwiceNext

LEMMA TimeoutNextInStep == ASSUME InStep(t), TimeoutNext PROVE InStep(t')
<1>1. CASE ClaimTimeout
  BY <1>1, FoldStallingInStep
     DEF ClaimTimeout, Outcome, ProcessTimeout, MayTimeOut
<1>2. ASSUME NEW p \in Players, ForceFoldBy(p) PROVE InStep(t')
  BY <1>2, FoldStallingInStep DEF ForceFoldBy, Outcome, ForceFold, MayTimeOut
<1>3. QED
  BY <1>1, <1>2 DEF TimeoutNext

LEMMA RefundsInStep ==
  ASSUME InStep(t), RecoveryNext \/ ExecuteClosure PROVE InStep(t')
<1> USE DEF InStep
<1>1. CASE CancelHand
  BY <1>1, CancelledInStep DEF CancelHand, RefundEverybody
<1>2. CASE AdminEmergency
  BY <1>2, RefundedInStep DEF AdminEmergency, RefundEverybody
<1>3. ASSUME NEW p \in Players, ApproveEmergency(p) PROVE InStep(t')
  BY <1>3, RefundedInStep DEF ApproveEmergency, RefundEverybody, handVars
<1>4. CASE ExecuteClosure
  BY <1>4, RefundedInStep DEF ExecuteClosure, RefundEverybody
<1>5. QED
  BY <1>1, <1>2, <1>3, <1>4 DEF RecoveryNext

(* Moving money in or out, or the clock alone, leaves the hand where it is. *)
LEMMA BooksInStep ==
  ASSUME InStep(t), RakeNext \/ SweepDeadChips \/ FinalizeSunset \/ Tick
  PROVE  InStep(t')
<1>1. CASE WithdrawRake
  <2>1. SameStep(t, t')
    BY <1>1 DEF WithdrawRake, SameStep, InStep, IsTable
  <2>2. QED
    BY <2>1, SameStepKeeps
<1>2. ASSUME NEW p \in Players, ClaimJackpot(p) PROVE InStep(t')
  <2>1. SameStep(t, Credit(t, p, t.jackpot))
    BY CreditSameStep DEF InStep
  <2>2. SameStep(t, t')
    BY <1>2, <2>1 DEF ClaimJackpot, SameStep, IsTable
  <2>3. QED
    BY <2>2, SameStepKeeps
<1>3. CASE SweepDeadChips
  <2>1. SameStep(t, t')
    BY <1>3 DEF SweepDeadChips, SameStep, InStep, IsTable
  <2>2. QED
    BY <2>1, SameStepKeeps
<1>4. CASE FinalizeSunset
  <2>1. SameStep(t, t')
    BY <1>4 DEF FinalizeSunset, SameStep, InStep, IsTable
  <2>2. QED
    BY <2>1, SameStepKeeps
<1>5. CASE Tick
  <2>1. /\ IsTable(t') /\ t'.phase = t.phase /\ t'.board = t.board
        /\ t'.deadline = CountDown(t.deadline)
    BY <1>5 DEF Tick, InStep, IsTable
  <2>2. t'.deadline # NoDeadline => t.deadline # NoDeadline
    BY <2>1 DEF CountDown, NoDeadline
  <2>3. QED
    BY <2>1, <2>2 DEF InStep, BoardInStep, ClockInStep
<1>6. QED
  BY <1>1, <1>2, <1>3, <1>4, <1>5 DEF RakeNext

LEMMA InStepStep == HandInStep /\ [Next]_vars => HandInStep'
<1> SUFFICES ASSUME InStep(t), [Next]_vars PROVE InStep(t')
  BY DEF HandInStep
<1>1. CASE SeatNext
  BY <1>1, SeatNextInStep
<1>2. CASE StartHand
  BY <1>2, StartNewHandInStep DEF StartHand
<1>3. CASE StraddleNext
  BY <1>3 DEF StraddleNext, PostStraddle, CancelStraddle
<1>4. CASE BettingNext
  BY <1>4, BettingNextInStep
<1>5. CASE CommitteeNext \/ RunItTwiceNext
  BY <1>5, CommitteeNextInStep
<1>6. CASE TimeoutNext
  BY <1>6, TimeoutNextInStep
<1>7. CASE RecoveryNext
  BY <1>7, RefundsInStep
<1>8. CASE ClosingNext
  BY <1>8, RefundsInStep, BooksInStep DEF ClosingNext, ProposeClosure, handVars
<1>9. CASE GuardNext
  BY <1>9 DEF GuardNext, Pause, Unpause, Ban, Unban, handVars
<1>10. CASE RakeNext \/ Tick
  BY <1>10, BooksInStep
<1>11. CASE UNCHANGED vars
  BY <1>11 DEF vars, handVars
<1>12. QED
  BY <1>1, <1>2, <1>3, <1>4, <1>5, <1>6, <1>7, <1>8, <1>9, <1>10, <1>11 DEF Next

(* BoardMatchesPhase for every table: no detour a hand can take, through all-in
   rounds, Run-It-Twice, timeouts or a cancelled hand, reveals a street twice or
   skips one. *)
THEOREM BoardAlwaysMatches == Spec => []BoardMatchesPhase
<1>1. HandInStep => BoardMatchesPhase
  BY DEF HandInStep, InStep, BoardInStep, BoardMatchesPhase
<1>2. QED
  BY <1>1, InStepInit, InStepStep, PTL DEF Spec

(* DeadlineOnlyInBetting for every table: the timeout branches of the committee's
   phases and of Run-It-Twice are dead code. *)
THEOREM DeadlineAlwaysInBetting == Spec => []DeadlineOnlyInBetting
<1>1. HandInStep => DeadlineOnlyInBetting
  BY DEF HandInStep, InStep, ClockInStep, DeadlineOnlyInBetting
<1>2. QED
  BY <1>1, InStepInit, InStepStep, PTL DEF Spec

-----------------------------------------------------------------------------
(* The fields the proof looks at, and their types. *)
IsLedger(s) ==
  /\ {"phase", "seats", "dealer", "stack", "bet", "committed", "pot", "jackpot"}
       \subseteq DOMAIN s
  /\ s.stack \in [Players -> Int] /\ s.bet \in [Players -> Int]
  /\ s.committed \in [Players -> Int]
  /\ s.pot \in Int /\ s.jackpot \in Int /\ s.dealer \in Int
  /\ s.seats \in Seq(Players)

(* PotIsCommitted, of any table record. *)
PotInStep(s) == s.pot = IF HandLive(s) THEN SumOver(s.committed, Players) ELSE 0

Sound(s) == IsLedger(s) /\ PotInStep(s)

(* A rule that moves chips into the pot and onto `committed` alike. *)
Balanced(s, r) ==
  /\ IsLedger(r)
  /\ r.phase = s.phase /\ r.seats = s.seats /\ r.dealer = s.dealer
  /\ r.pot - s.pot = SumOver(r.committed, Players) - SumOver(s.committed, Players)

LEMMA CommittedInt ==
  ASSUME NEW s, IsLedger(s) PROVE SumOver(s.committed, Players) \in Int
  BY TableAssumption, SumInt DEF IsLedger, SumOver

LEMMA BalancedChains ==
  ASSUME NEW s, NEW r, NEW q, IsLedger(s), Balanced(s, r), Balanced(r, q)
  PROVE  Balanced(s, q)
<1>1. /\ SumOver(s.committed, Players) \in Int
      /\ SumOver(r.committed, Players) \in Int
      /\ SumOver(q.committed, Players) \in Int
  BY CommittedInt DEF Balanced
<1>2. s.pot \in Int /\ r.pot \in Int /\ q.pot \in Int
  BY DEF Balanced, IsLedger
<1>3. q.pot - s.pot = SumOver(q.committed, Players) - SumOver(s.committed, Players)
  BY <1>1, <1>2 DEF Balanced
<1>4. QED
  BY <1>3 DEF Balanced

LEMMA BalancedKeeps ==
  ASSUME NEW s, NEW r, Sound(s), HandLive(s), Balanced(s, r) PROVE Sound(r)
<1>1. /\ SumOver(s.committed, Players) \in Int
      /\ SumOver(r.committed, Players) \in Int
  BY CommittedInt DEF Balanced, Sound
<1>2. s.pot \in Int /\ r.pot \in Int
  BY DEF Balanced, IsLedger, Sound
<1>3. r.pot = SumOver(r.committed, Players)
  BY <1>1, <1>2 DEF Balanced, Sound, PotInStep
<1>4. QED
  BY <1>3 DEF Balanced, Sound, PotInStep, HandLive

(* A rule that changes none of what PotInStep reads. *)
SamePot(s, r) ==
  IsLedger(r) /\ r.phase = s.phase /\ r.committed = s.committed /\ r.pot = s.pot

LEMMA SamePotKeeps ==
  ASSUME NEW s, NEW r, Sound(s), SamePot(s, r) PROVE Sound(r)
  BY DEF Sound, SamePot, PotInStep, HandLive

LEMMA MinOfTwo == ASSUME NEW a \in Int, NEW b \in Int PROVE Min({a, b}) \in Int
  BY DEF Min

LEMMA MaxOfTwo == ASSUME NEW a \in Int, NEW b \in Int PROVE Max({a, b}) \in Int
  BY DEF Max

-----------------------------------------------------------------------------
(* Wagers. *)
LEMMA PutInBalanced ==
  ASSUME NEW s, IsLedger(s), NEW p \in Players, NEW a \in Int
  PROVE  Balanced(s, PutIn(s, p, a))
<1> DEFINE r == PutIn(s, p, a)
<1>1. /\ r.committed = [s.committed EXCEPT ![p] = @ + a]
      /\ r.stack = [s.stack EXCEPT ![p] = @ - a]
      /\ r.bet = [s.bet EXCEPT ![p] = @ + a]
      /\ r.pot = s.pot + a
      /\ r.phase = s.phase /\ r.seats = s.seats /\ r.dealer = s.dealer
      /\ r.jackpot = s.jackpot
      /\ DOMAIN r = DOMAIN s
  BY DEF PutIn, IsLedger
<1> HIDE DEF r
<1>2. IsLedger(r)
  BY <1>1 DEF IsLedger
<1>3. \A q \in Players : /\ s.committed[q] \in Int /\ r.committed[q] \in Int
                         /\ q # p => r.committed[q] = s.committed[q]
  BY <1>1 DEF IsLedger
<1>4. SumFunctionOnSet(r.committed, Players) =
        SumFunctionOnSet(s.committed, Players) - s.committed[p] + r.committed[p]
  BY <1>3, TableAssumption, SumChange
<1>5. r.committed[p] = s.committed[p] + a /\ s.committed[p] \in Int
  BY <1>1 DEF IsLedger
<1>6. SumFunctionOnSet(s.committed, Players) \in Int
  BY CommittedInt DEF SumOver
<1>7. s.pot \in Int
  BY DEF IsLedger
<1>8. r.pot - s.pot = SumFunctionOnSet(r.committed, Players) -
                        SumFunctionOnSet(s.committed, Players)
  BY <1>1, <1>4, <1>5, <1>6, <1>7
<1>9. Balanced(s, r)
  BY <1>1, <1>2, <1>8 DEF Balanced, SumOver
<1>10. QED
  BY <1>9 DEF r

(* Marks and clocks may be set on the way. *)
LEMMA MarkedBalanced ==
  ASSUME NEW s, NEW w, Balanced(s, w), NEW x, NEW y
  PROVE  /\ Balanced(s, [w EXCEPT !.allIn = x])
         /\ Balanced(s, [w EXCEPT !.lastRaise = y])
         /\ Balanced(s, [w EXCEPT !.straddler = y])
         /\ Balanced(s, [w EXCEPT !.folded = x])
         /\ Balanced(s, [w EXCEPT !.turn = y])
         /\ Balanced(s, [w EXCEPT !.idle = x, !.deadline = y])
  BY DEF Balanced, IsLedger

LEMMA BalancedItself == ASSUME NEW s, IsLedger(s) PROVE Balanced(s, s)
<1>1. s.pot \in Int /\ SumOver(s.committed, Players) \in Int
  BY CommittedInt DEF IsLedger
<1>2. s.pot - s.pot = SumOver(s.committed, Players) - SumOver(s.committed, Players)
  BY <1>1
<1>3. QED
  BY <1>2 DEF Balanced

LEMMA WageredBalanced ==
  ASSUME NEW s, IsLedger(s), NEW p \in Players, NEW a \in Int
  PROVE  Balanced(s, Wagered(s, p, a))
<1> DEFINE w == PutIn(s, p, a)
<1>1. Balanced(s, w)
  BY PutInBalanced
<1>2. Balanced(s, [w EXCEPT !.allIn = @ \cup {p}])
  BY <1>1, MarkedBalanced
<1>3. QED
  BY <1>1, <1>2 DEF Wagered

-----------------------------------------------------------------------------
(* Seats. *)
LEMMA AtIsPlayer ==
  ASSUME NEW s, s.seats \in Seq(Players), NEW k \in 0 .. SeatCount(s) - 1
  PROVE  At(s, k) \in Players
<1>1. k + 1 \in 1 .. Len(s.seats)
  BY DEF SeatCount
<1>2. QED
  BY <1>1 DEF At

LEMMA SeatedArePlayers ==
  ASSUME NEW s, s.seats \in Seq(Players)
  PROVE  Seated(s) \subseteq Players /\ IsFiniteSet(Seated(s))
<1>1. Seated(s) \subseteq Players
  BY DEF Seated, Range
<1>2. QED
  BY <1>1, TableAssumption, FS_Subset

(* Going round the table from k, every seat comes up. *)
LEMMA RoundTheTable ==
  ASSUME NEW n \in Nat \ {0}, NEW k \in 0 .. n - 1, NEW j \in 0 .. n - 1
  PROVE  \E i \in 0 .. n - 1 : (k + i) % n = j
<1>1. CASE k <= j
  <2>1. j - k \in 0 .. n - 1 /\ (k + (j - k)) = j /\ j % n = j
    BY <1>1
  <2>2. QED
    BY <2>1
<1>2. CASE k > j
  <2>1. j + n - k \in 0 .. n - 1 /\ k + (j + n - k) = j + n /\ (j + n) % n = j
    BY <1>2
  <2>2. QED
    BY <2>1
<1>3. QED
  BY <1>1, <1>2

LEMMA ClockwiseIsSeat ==
  ASSUME NEW s, s.seats \in Seq(Players), NEW k \in 0 .. SeatCount(s) - 1,
         NEW ps, NEW p \in Seated(s) \cap ps
  PROVE  Clockwise(s, k, ps) \in 0 .. SeatCount(s) - 1
<1> DEFINE n == SeatCount(s)
           I == {i \in 0 .. n - 1 : At(s, (k + i) % n) \in ps}
<1>1. n \in Nat \ {0} /\ k \in 0 .. n - 1
  BY DEF SeatCount
<1>2. PICK j \in 0 .. n - 1 : At(s, j) \in ps
  <2>1. PICK m \in 1 .. Len(s.seats) : s.seats[m] = p
    BY DEF Seated, Range
  <2>2. m - 1 \in 0 .. n - 1 /\ (m - 1) + 1 = m
    BY <2>1 DEF SeatCount
  <2>3. At(s, m - 1) = p
    BY <2>1, <2>2 DEF At
  <2>4. QED
    BY <2>2, <2>3
<1>3. PICK i \in 0 .. n - 1 : (k + i) % n = j
  <2> HIDE DEF n
  <2>1. QED
    BY <1>1, RoundTheTable
<1>4. I # {}
  BY <1>2, <1>3
<1>5. IsFiniteSet(I) /\ I \subseteq Int
  <2>1. IsFiniteSet(0 .. n - 1)
    BY <1>1, FS_Interval
  <2>2. I \subseteq 0 .. n - 1 /\ I \subseteq Int
    BY <1>1
  <2> HIDE DEF I, n
  <2>3. QED
    BY <2>1, <2>2, FS_Subset
<1>6. Min(I) \in Int
  <2> HIDE DEF I
  <2>1. QED
    BY <1>4, <1>5, MinIn
<1>7. (k + Min(I)) % n \in 0 .. n - 1
  <2> HIDE DEF I, n
  <2>1. QED
    BY <1>1, <1>6
<1>8. QED
  BY <1>7 DEF Clockwise

LEMMA NextActiveIsSeat ==
  ASSUME NEW s, s.seats \in Seq(Players), NEW k \in Int, Funded(s) # {}
  PROVE  NextActiveSeat(s, k) \in 0 .. SeatCount(s) - 1
<1>1. PICK p \in Seated(s) \cap Funded(s) : TRUE
  BY DEF Funded
<1>2. SeatCount(s) \in Nat /\ SeatCount(s) # 0
  BY <1>1 DEF SeatCount, Seated, Range
<1>3. SeatAfter(s, k) \in 0 .. SeatCount(s) - 1
  BY <1>2 DEF SeatAfter
<1>4. QED
  BY <1>1, <1>3, ClockwiseIsSeat DEF NextActiveSeat

-----------------------------------------------------------------------------
(* Antes, blinds and straddle. *)
LEMMA PostBlindBalanced ==
  ASSUME NEW s, IsLedger(s), NEW k \in 0 .. SeatCount(s) - 1, NEW a \in Int
  PROVE  Balanced(s, PostBlind(s, k, a))
<1> DEFINE p == At(s, k)
           w == PutIn(s, p, s.stack[p])
<1>1. p \in Players
  BY AtIsPlayer DEF IsLedger
<1>2. s.stack[p] \in Int
  BY <1>1 DEF IsLedger
<1>3. Balanced(s, PutIn(s, p, a)) /\ Balanced(s, w)
  BY <1>1, <1>2, PutInBalanced
<1>4. Balanced(s, [w EXCEPT !.allIn = @ \cup {p}])
  BY <1>3, MarkedBalanced
<1>5. QED
  BY <1>3, <1>4 DEF PostBlind

LEMMA PostAntesBalanced ==
  ASSUME NEW s, IsLedger(s) PROVE Balanced(s, PostAntes(s))
<1> DEFINE anted(p) == IF p \in Funded(s) THEN Min({Ante, s.stack[p]}) ELSE 0
           antes == [p \in Players |-> anted(p)]
           r == PostAntes(s)
<1>1. antes \in [Players -> Int]
  <2>1. ASSUME NEW p \in Players PROVE anted(p) \in Int
    <3>1. s.stack[p] \in Int /\ Ante \in Int
      BY BlindsAssumption DEF IsLedger
    <3>2. Min({Ante, s.stack[p]}) \in Int
      BY <3>1, MinOfTwo
    <3>3. QED
      BY <3>2
  <2> HIDE DEF anted
  <2>2. QED
    BY <2>1
<1>2. /\ r.stack = [p \in Players |-> s.stack[p] - antes[p]]
      /\ r.committed = [p \in Players |-> s.committed[p] + antes[p]]
      /\ r.pot = s.pot + SumOver(antes, Players)
      /\ r.phase = s.phase /\ r.seats = s.seats /\ r.dealer = s.dealer
      /\ r.jackpot = s.jackpot /\ r.bet = s.bet
      /\ DOMAIN r = DOMAIN s
  BY DEF PostAntes, IsLedger
<1> HIDE DEF r, antes
<1>3. SumOver(antes, Players) \in Int
  BY <1>1, TableAssumption, SumInt DEF SumOver
<1>4. IsLedger(r)
  BY <1>1, <1>2, <1>3 DEF IsLedger
<1>5. \A p \in Players : /\ s.committed[p] \in Int /\ antes[p] \in Int
                         /\ r.committed[p] = s.committed[p] + antes[p]
  BY <1>1, <1>2 DEF IsLedger
<1>6. SumOver(r.committed, Players) =
        SumOver(s.committed, Players) + SumOver(antes, Players)
  BY <1>5, TableAssumption, SumPlus DEF SumOver
<1>7. s.pot \in Int /\ SumOver(s.committed, Players) \in Int
  BY CommittedInt DEF IsLedger
<1>8. r.pot - s.pot = SumOver(r.committed, Players) - SumOver(s.committed, Players)
  BY <1>2, <1>3, <1>6, <1>7
<1>9. Balanced(s, r)
  BY <1>2, <1>4, <1>8 DEF Balanced
<1>10. QED
  BY <1>9 DEF r

LEMMA StraddleAmountInt == StraddleAmount \in Int
<1> DEFINE m == Max({0, Straddle.multiplier - 1})
           raw == IF Straddle.position = "BigBlind" THEN BigBlind * m
                  ELSE BigBlind * Straddle.multiplier
<1>1. m \in Int
  BY StraddleAssumption, MaxOfTwo
<1>2. raw \in Int
  <2> HIDE DEF m
  <2>1. BigBlind \in Int /\ Straddle.multiplier \in Int
    BY BlindsAssumption, StraddleAssumption
  <2>2. QED
    BY <1>1, <2>1
<1>3. Min({raw, Straddle.cap}) \in Int
  <2> HIDE DEF raw
  <2>1. QED
    BY <1>2, StraddleAssumption, MinOfTwo
<1>4. QED
  BY <1>2, <1>3 DEF StraddleAmount

LEMMA StraddleSeatInt ==
  ASSUME NEW s, SeatCount(s) \in Nat \ {0}, s.dealer \in 0 .. SeatCount(s) - 1,
         NEW b \in 0 .. SeatCount(s) - 1, NEW v \in Int, v >= NoSeat
  PROVE  /\ StraddleSeat(s, b, v) \in Int
         /\ StraddleSeat(s, b, v) >= NoSeat
<1>1. (s.dealer + 3) % SeatCount(s) \in 0 .. SeatCount(s) - 1
  OBVIOUS
<1>2. Straddle.position \in {"BigBlind", "Utg", "Button", "Mississippi", "Custom"}
  BY StraddleAssumption
<1>3. Straddle.seat \in Nat
  BY StraddleAssumption
<1>4. QED
  BY <1>1, <1>2, <1>3 DEF StraddleSeat, NoSeat

(* Starting a hand leaves the antes, the blinds and the straddle in the pot, each
   against the player who posted it. *)
LEMMA StartNewHandSound ==
  ASSUME NEW s, Sound(s), ~ HandLive(s), NEW v \in Int, v >= NoSeat,
         NEW r, r \in StartNewHand(s, v)
  PROVE  Sound(r)
<1> DEFINE t0 == [s EXCEPT
              !.hand = @ + 1, !.dealer = NextActiveSeat(s, s.dealer),
              !.folded = {}, !.allIn = {}, !.bet = NoChips, !.committed = NoChips,
              !.board = 0, !.rit = "none", !.sidePots = 0,
              !.lastRaise = BigBlind, !.phase = "Dealing",
              !.idle = 0, !.deadline = NoDeadline, !.settledFor = 0]
           t1 == PostAntes(t0)
           n  == SeatCount(t1)
           sb == IF Cardinality(Funded(t1)) = 2 THEN t1.dealer
                 ELSE NextActiveSeat(t1, t1.dealer)
           bb == NextActiveSeat(t1, sb)
           tS == PostBlind(t1, sb, SmallBlind)
           t2 == PostBlind(tS, bb, BigBlind)
           st == StraddleSeat(t1, bb, v)
           tT == PostBlind(t2, st, StraddleAmount)
<1>1. /\ Funded(s) # {}
      /\ ~ (Cardinality(Funded(t1)) < 2) /\ ~ (st >= SeatCount(t1))
      /\ r = IF st = NoSeat THEN [t2 EXCEPT !.straddler = NoSeat]
             ELSE [tT EXCEPT !.straddler = st]
  BY DEF StartNewHand
<1>2. IsLedger(s) /\ s.pot = 0
  BY DEF Sound, PotInStep
<1>3. NextActiveSeat(s, s.dealer) \in 0 .. SeatCount(s) - 1
  BY <1>1, <1>2, NextActiveIsSeat DEF IsLedger
<1>4. /\ t0.dealer \in 0 .. SeatCount(t0) - 1 /\ t0.pot = 0 /\ t0.phase = "Dealing"
      /\ t0.committed = NoChips /\ t0.bet = NoChips /\ t0.stack = s.stack
      /\ t0.jackpot = s.jackpot /\ t0.seats = s.seats /\ DOMAIN t0 = DOMAIN s
  BY <1>2, <1>3 DEF IsLedger, SeatCount
<1> HIDE DEF t0
<1>5. Sound(t0) /\ HandLive(t0)
  <2>1. NoChips \in [Players -> Int] /\ \A p \in Players : NoChips[p] = 0
    BY DEF NoChips
  <2>2. SumOver(NoChips, Players) = 0
    BY <2>1, TableAssumption, SumZero DEF SumOver
  <2>3. t0.dealer \in Int
    BY <1>4
  <2>4. IsLedger(t0)
    BY <1>2, <1>4, <2>1, <2>3 DEF IsLedger
  <2>5. HandLive(t0)
    BY <1>4 DEF HandLive, BetweenHandsPhases
  <2>6. QED
    BY <1>4, <2>2, <2>4, <2>5 DEF Sound, PotInStep
<1>6. Balanced(t0, t1)
  BY <1>5, PostAntesBalanced DEF Sound
<1> HIDE DEF t1
<1>7. /\ IsLedger(t1) /\ t1.seats \in Seq(Players)
      /\ t1.dealer \in 0 .. n - 1 /\ n \in Nat \ {0}
  <2>1. IsLedger(t1) /\ t1.seats = t0.seats /\ t1.dealer = t0.dealer
    BY <1>6 DEF Balanced
  <2>2. t1.seats \in Seq(Players) /\ t1.dealer \in 0 .. n - 1
    BY <1>4, <2>1 DEF IsLedger, SeatCount
  <2>3. n \in Nat
    BY <2>2 DEF SeatCount
  <2> HIDE DEF n
  <2>4. QED
    BY <2>1, <2>2, <2>3
<1>8. Funded(t1) # {}
  BY <1>1, FS_EmptySet
<1>9. sb \in 0 .. n - 1
  <2>1. t1.dealer \in Int
    BY <1>7 DEF IsLedger
  <2>2. NextActiveSeat(t1, t1.dealer) \in 0 .. n - 1
    BY <1>7, <1>8, <2>1, NextActiveIsSeat
  <2>3. QED
    BY <1>7, <2>2
<1>10. bb \in 0 .. n - 1
  <2> HIDE DEF sb
  <2>1. sb \in Int
    BY <1>7, <1>9
  <2>2. QED
    BY <1>7, <1>8, <2>1, NextActiveIsSeat
<1> HIDE DEF sb, bb
<1>11. Balanced(t1, tS)
  BY <1>7, <1>9, BlindsAssumption, PostBlindBalanced
<1>12. IsLedger(tS) /\ SeatCount(tS) = n
  BY <1>11 DEF Balanced, SeatCount
<1> HIDE DEF tS
<1>13. Balanced(tS, t2)
  BY <1>10, <1>12, BlindsAssumption, PostBlindBalanced
<1>14. Balanced(t0, t2)
  <2>1. Balanced(t0, tS)
    BY <1>5, <1>6, <1>11, BalancedChains DEF Sound
  <2>2. QED
    BY <1>5, <1>13, <2>1, BalancedChains DEF Sound
<1>15. IsLedger(t2) /\ SeatCount(t2) = n
  BY <1>12, <1>13 DEF Balanced, SeatCount
<1> HIDE DEF t2
<1>16. CASE st = NoSeat
  <2>1. Balanced(t0, [t2 EXCEPT !.straddler = NoSeat])
    BY <1>14, MarkedBalanced
  <2>2. QED
    BY <1>1, <1>5, <1>16, <2>1, BalancedKeeps
<1>17. CASE st # NoSeat
  <2>1. st \in Int /\ st >= NoSeat
    <3> HIDE DEF st
    <3>1. QED
      BY <1>7, <1>10, StraddleSeatInt DEF st
  <2>2. st \in 0 .. n - 1
    <3> HIDE DEF st
    <3>1. QED
      BY <1>1, <1>7, <1>17, <2>1 DEF NoSeat
  <2> HIDE DEF st
  <2>3. Balanced(t2, tT)
    BY <1>15, <2>2, StraddleAmountInt, PostBlindBalanced
  <2>4. Balanced(t0, tT)
    BY <1>5, <1>14, <2>3, BalancedChains DEF Sound
  <2> HIDE DEF tT
  <2>5. Balanced(t0, [tT EXCEPT !.straddler = st])
    BY <2>4, MarkedBalanced
  <2>6. QED
    BY <1>1, <1>5, <1>17, <2>5, BalancedKeeps
<1>18. QED
  BY <1>16, <1>17

-----------------------------------------------------------------------------
(* Pots and payouts are integers. *)
LEMMA MulBpsInt == ASSUME NEW a \in Int, NEW b \in Int PROVE MulBps(a, b) \in Int
<1>1. a \div 10000 \in Int /\ a % 10000 \in Int
  OBVIOUS
<1>2. (a \div 10000) * b \in Int /\ (a % 10000) * b \in Int
  BY <1>1
<1>3. ((a % 10000) * b) \div 10000 \in Int
  BY <1>2
<1>4. QED
  BY <1>2, <1>3 DEF MulBps

LEMMA LiveFinite ==
  ASSUME NEW s, IsLedger(s)
  PROVE  Live(s) \subseteq Players /\ IsFiniteSet(Live(s))
<1>1. Live(s) \subseteq Players
  BY SeatedArePlayers DEF Live, IsLedger
<1>2. QED
  BY <1>1, TableAssumption, FS_Subset

LEMMA MaxWithZero ==
  ASSUME NEW S, IsFiniteSet(S), S \subseteq Int PROVE Max({0} \cup S) \in Int
<1>1. IsFiniteSet({0} \cup S)
  BY FS_Singleton, FS_Union
<1>2. {0} \cup S \subseteq Int /\ {0} \cup S # {}
  OBVIOUS
<1>3. Max({0} \cup S) \in {0} \cup S
  BY <1>1, <1>2, MaxIn
<1>4. QED
  BY <1>2, <1>3

LEMMA BoundsFinite ==
  ASSUME NEW s, IsLedger(s)
  PROVE  /\ IsFiniteSet(Bounds(s)) /\ Bounds(s) \subseteq Int
         /\ TopLevel(s) \in Int
<1> DEFINE C(ps) == {s.committed[p] : p \in ps}
<1>1. ASSUME NEW ps \in SUBSET Live(s)
      PROVE  IsFiniteSet(C(ps)) /\ C(ps) \subseteq Int
  <2>1. IsFiniteSet(ps)
    BY LiveFinite, FS_Subset
  <2>2. IsFiniteSet(C(ps))
    BY <2>1, ImageFinite
  <2>3. QED
    BY <2>2, LiveFinite DEF IsLedger
<1>2. TopLevel(s) \in Int
  <2>1. IsFiniteSet(C(Live(s))) /\ C(Live(s)) \subseteq Int
    BY <1>1
  <2>2. Max({0} \cup C(Live(s))) \in Int
    <3> HIDE DEF C
    <3>1. QED
      BY <2>1, MaxWithZero
  <2>3. QED
    BY <2>2 DEF TopLevel
<1>3. IsFiniteSet(C(Live(s) \cap s.allIn)) /\ C(Live(s) \cap s.allIn) \subseteq Int
  BY <1>1
<1>4. IsFiniteSet(C(Live(s) \cap s.allIn) \cup {TopLevel(s)})
  <2> HIDE DEF C
  <2>1. QED
    BY <1>3, FS_Singleton, FS_Union
<1>5. Bounds(s) = (C(Live(s) \cap s.allIn) \cup {TopLevel(s)}) \ {0}
  BY DEF Bounds
<1> HIDE DEF C
<1>6. IsFiniteSet(Bounds(s))
  BY <1>4, <1>5, FS_Subset
<1>7. QED
  BY <1>2, <1>3, <1>5, <1>6

LEMMA PaidIntoInt ==
  ASSUME NEW s, IsLedger(s), NEW b \in Bounds(s), NEW p \in Players
  PROVE  PaidInto(s, b, p) \in Int
<1> DEFINE below == {x \in Bounds(s) : x < b}
           reach == IF b = TopLevel(s) THEN s.committed[p]
                    ELSE Min({s.committed[p], b})
<1>1. b \in Int /\ s.committed[p] \in Int
  BY BoundsFinite DEF IsLedger
<1>2. reach \in Int
  BY <1>1, MinOfTwo
<1>3. LowerBound(s, b) \in Int
  <2>1. IsFiniteSet(below) /\ below \subseteq Int
    BY BoundsFinite, FS_Subset
  <2>2. Max({0} \cup below) \in Int
    <3> HIDE DEF below
    <3>1. QED
      BY <2>1, MaxWithZero
  <2>3. QED
    BY <2>2 DEF LowerBound
<1>4. Max({0, reach - LowerBound(s, b)}) \in Int
  <2> HIDE DEF reach
  <2>1. QED
    BY <1>2, <1>3, MaxOfTwo
<1>5. QED
  BY <1>4 DEF PaidInto

(* A family of pots: finitely many, each of a whole number of chips. *)
ArePots(pots) ==
  /\ IsFiniteSet(DOMAIN pots)
  /\ \A b \in DOMAIN pots : pots[b].amount \in Int /\ "amount" \in DOMAIN pots[b]

LEMMA SidePotsArePots ==
  ASSUME NEW s, IsLedger(s) PROVE ArePots(CalculateSidePots(s))
<1> DEFINE pots == CalculateSidePots(s)
           paid(b) == [p \in Seated(s) |-> PaidInto(s, b, p)]
<1>1. DOMAIN pots = Bounds(s)
  BY DEF CalculateSidePots
<1>2. ASSUME NEW b \in Bounds(s)
      PROVE  pots[b].amount = SumOver(paid(b), Seated(s)) /\ "amount" \in DOMAIN pots[b]
  BY DEF CalculateSidePots
<1>3. ASSUME NEW b \in Bounds(s) PROVE SumOver(paid(b), Seated(s)) \in Int
  <2>1. \A p \in Seated(s) : paid(b)[p] \in Int
    BY PaidIntoInt, SeatedArePlayers DEF IsLedger
  <2>2. IsFiniteSet(Seated(s))
    BY SeatedArePlayers DEF IsLedger
  <2> HIDE DEF paid
  <2>3. QED
    BY <2>1, <2>2, SumInt DEF SumOver
<1> HIDE DEF pots, paid
<1>4. QED
  BY <1>1, <1>2, <1>3, BoundsFinite DEF ArePots, pots

LEMMA RakedArePots ==
  ASSUME NEW pots, ArePots(pots), NEW bps \in Int
  PROVE  ArePots(ApplyRake(pots, bps)) /\ TotalRake(pots, bps) \in Int
<1>1. ASSUME NEW b \in DOMAIN pots PROVE RakeOf(pots[b], bps) \in Int
  BY MulBpsInt DEF RakeOf, ArePots
<1>2. ArePots(ApplyRake(pots, bps))
  BY <1>1 DEF ArePots, ApplyRake
<1>3. TotalRake(pots, bps) \in Int
  <2> DEFINE f == [b \in DOMAIN pots |-> RakeOf(pots[b], bps)]
  <2>1. \A b \in DOMAIN pots : f[b] \in Int
    BY <1>1
  <2> HIDE DEF f
  <2>2. SumOver(f, DOMAIN pots) \in Int
    BY <2>1, SumInt DEF ArePots, SumOver
  <2>3. QED
    BY <2>2 DEF TotalRake, f
<1>4. QED
  BY <1>2, <1>3

LEMMA EqualShareInt ==
  ASSUME NEW s, NEW amount \in Int, NEW ps, IsFiniteSet(ps), NEW p
  PROVE  EqualShare(s, amount, ps, p) \in Int
<1>1. CASE p \notin ps
  BY <1>1 DEF EqualShare
<1>2. CASE p \in ps
  <2>1. Cardinality(ps) \in Nat /\ Cardinality(ps) # 0
    BY <1>2, FS_CardinalityType, FS_EmptySet
  <2>2. amount \div Cardinality(ps) \in Int
    BY <2>1
  <2>3. \E odd \in {0, 1} :
          EqualShare(s, amount, ps, p) = amount \div Cardinality(ps) + odd
    BY <1>2 DEF EqualShare
  <2>4. QED
    BY <2>2, <2>3
<1>3. QED
  BY <1>1, <1>2

LEMMA PayoutInt ==
  ASSUME NEW s, IsLedger(s), NEW pots, ArePots(pots), NEW best, NEW p
  PROVE  PayoutTo(s, pots, best, p) \in Int
<1> DEFINE share(b) == EqualShare(s, pots[b].amount, Recipients(s, pots[b], best), p)
           f == [b \in DOMAIN pots |-> share(b)]
<1>1. ASSUME NEW b \in DOMAIN pots PROVE share(b) \in Int
  <2>1. IsFiniteSet(Recipients(s, pots[b], best))
    <3> DEFINE tied == pots[b].eligible \cap best \cap Live(s)
    <3>1. IsFiniteSet(tied)
      BY LiveFinite, FS_Subset
    <3>2. IsFiniteSet({FirstSeat(s, pots[b].eligible)})
      BY FS_Singleton
    <3>3. QED
      BY <3>1, <3>2 DEF Recipients
  <2>2. QED
    BY <2>1, EqualShareInt DEF ArePots
<1>2. \A b \in DOMAIN pots : f[b] \in Int
  BY <1>1
<1> HIDE DEF f
<1>3. SumOver(f, DOMAIN pots) \in Int
  BY <1>2, SumInt DEF ArePots, SumOver
<1>4. QED
  BY <1>3 DEF PayoutTo, f

-----------------------------------------------------------------------------
(* Settling empties the pot. *)
LEMMA SettledSound == ASSUME NEW s, IsLedger(s) PROVE Sound(Settled(s))
<1> DEFINE r == Settled(s)
<1>1. r.pot = 0 /\ r.phase = "Settlement" /\ IsLedger(r)
  BY DEF Settled, IsLedger
<1>2. QED
  BY <1>1 DEF Sound, PotInStep, HandLive, BetweenHandsPhases

LEMMA CreditSame ==
  ASSUME NEW s, IsLedger(s), NEW p \in Players, NEW a \in Int
  PROVE  SamePot(s, Credit(s, p, a))
  BY DEF Credit, SamePot, IsLedger

(* A player who is no player has no stack: the credit of a CHOOSE that finds
   nobody changes no balance. *)
LEMMA CreditLedger ==
  ASSUME NEW s, IsLedger(s), NEW p, NEW a \in Int
  PROVE  IsLedger(Credit(s, p, a))
<1>1. CASE p \in Players
  BY <1>1, CreditSame DEF SamePot
<1>2. CASE p \notin Players
  <2>1. [s.stack EXCEPT ![p] = @ + a] = s.stack
    BY <1>2 DEF IsLedger
  <2>2. QED
    BY <2>1 DEF Credit, IsLedger
<1>3. QED
  BY <1>1, <1>2

LEMMA SettleFoldWinSound ==
  ASSUME NEW s, IsLedger(s) PROVE Sound(SettleFoldWin(s))
<1> DEFINE winner == CHOOSE p \in Live(s) : TRUE
           rake   == (s.pot * RakeBps) \div 10000
           c      == Credit(s, winner, s.pot - rake)
           d      == [c EXCEPT !.rake = @ + rake]
<1>1. s.pot - rake \in Int
  <2>1. s.pot * RakeBps \in Int
    BY SharesAssumption DEF IsLedger
  <2>2. rake \in Int
    BY <2>1
  <2> HIDE DEF rake
  <2>3. QED
    BY <2>2 DEF IsLedger
<1>2. IsLedger(c)
  <2> HIDE DEF winner, rake
  <2>1. QED
    BY <1>1, CreditLedger
<1> HIDE DEF c, rake
<1>3. IsLedger(d)
  BY <1>2 DEF IsLedger
<1> HIDE DEF d
<1>4. Sound(Settled(d))
  BY <1>3, SettledSound
<1>5. QED
  BY <1>4 DEF SettleFoldWin, d, c, rake

LEMMA PayBadBeatLedger ==
  ASSUME NEW s, IsLedger(s), NEW w, NEW l PROVE IsLedger(PayBadBeat(s, w, l))
<1> DEFINE r == [s EXCEPT !.stack = [p \in Players |->
                                       @[p] + BadBeatShare(s, w, l, p)],
                          !.jackpot = 0]
<1>1. ASSUME NEW p \in Players PROVE BadBeatShare(s, w, l, p) \in Int
  <2> DEFINE sixty  == (s.jackpot * 6000) \div 10000
             twenty == (s.jackpot * 2000) \div 10000
             rest   == s.jackpot - sixty - twenty
             others == Live(s) \ {w, l}
  <2>1. sixty \in Int /\ twenty \in Int /\ rest \in Int
    <3>1. \A n \in Int : (n * 6000) \div 10000 \in Int /\ (n * 2000) \div 10000 \in Int
      OBVIOUS
    <3>2. s.jackpot \in Int
      BY DEF IsLedger
    <3>3. sixty \in Int /\ twenty \in Int
      BY <3>1, <3>2
    <3> HIDE DEF sixty, twenty
    <3>4. QED
      BY <3>2, <3>3
  <2>2. IsFiniteSet(others)
    BY LiveFinite, FS_Subset
  <2> HIDE DEF sixty, twenty, rest, others
  <2>3. EqualShare(s, rest, others, p) \in Int
    BY <2>1, <2>2, EqualShareInt
  <2>4. BadBeatShare(s, w, l, p) =
          (IF p = w THEN twenty ELSE 0)
            + (IF p = l THEN sixty + (IF others = {} THEN rest ELSE 0) ELSE 0)
            + (IF p \in others THEN EqualShare(s, rest, others, p) ELSE 0)
    BY DEF BadBeatShare, sixty, twenty, rest, others
  <2>5. QED
    BY <2>1, <2>3, <2>4
<1>2. IsLedger(r)
  BY <1>1 DEF IsLedger
<1>3. QED
  BY <1>2 DEF PayBadBeat

LEMMA SettleShowdownSound ==
  ASSUME NEW s, IsLedger(s), NEW best, NEW loser, NEW trig,
         NEW r, r \in SettleShowdown(s, best, loser, trig)
  PROVE  Sound(r)
<1> DEFINE pots  == CalculateSidePots(s)
           net   == ApplyRake(pots, RakeBps)
           split == SplitJackpotRake(TotalRake(pots, RakeBps), JackpotShareBps)
           extra == IF trig THEN (split.house * VarianceShareBps) \div 10000 ELSE 0
           paid  == [s EXCEPT
                  !.sidePots = PotTotal(net),
                  !.rake     = @ + split.house - extra,
                  !.jackpot  = @ + split.jackpot + extra,
                  !.stack    = [p \in Players |-> @[p] + PayoutTo(s, net, best, p)]]
<1>1. RakeBps \in Int /\ JackpotShareBps \in Int /\ VarianceShareBps \in Int
  BY SharesAssumption
<1>2. ArePots(net) /\ TotalRake(pots, RakeBps) \in Int
  BY <1>1, SidePotsArePots, RakedArePots
<1>3. split.house \in Int /\ split.jackpot \in Int
  <2> DEFINE rake == TotalRake(pots, RakeBps)
  <2>1. rake \in Int
    BY <1>2
  <2> HIDE DEF rake
  <2>2. MulBps(rake, JackpotShareBps) \in Int
    BY <1>1, <2>1, MulBpsInt
  <2>3. /\ SplitJackpotRake(rake, JackpotShareBps).house \in Int
        /\ SplitJackpotRake(rake, JackpotShareBps).jackpot \in Int
    BY <2>1, <2>2 DEF SplitJackpotRake
  <2>4. QED
    BY <2>3 DEF rake
<1> HIDE DEF split
<1>4. extra \in Int
  <2>1. split.house * VarianceShareBps \in Int
    BY <1>1, <1>3
  <2>2. QED
    BY <2>1
<1> HIDE DEF extra
<1>5. \A p \in Players : PayoutTo(s, net, best, p) \in Int
  <2> HIDE DEF net
  <2>1. QED
    BY <1>2, PayoutInt
<1> HIDE DEF net
<1>6. IsLedger(paid)
  BY <1>3, <1>4, <1>5 DEF IsLedger
<1> HIDE DEF paid
<1>7. IsLedger(PayBadBeat(paid, FirstSeat(s, best), loser))
  BY <1>6, PayBadBeatLedger
<1>8. Sound(Settled(PayBadBeat(paid, FirstSeat(s, best), loser)))
  BY <1>7, SettledSound
<1>9. QED
  BY <1>8 DEF SettleShowdown, paid, net, split, extra

LEMMA RefundedSound ==
  ASSUME NEW s, IsLedger(s) PROVE Sound(Refunded(s)) /\ Sound(Cancelled(s))
<1> DEFINE r == Refunded(s)
           c == Cancelled(s)
<1>1. NoChips \in [Players -> Int]
  BY DEF NoChips
<1>2. r.pot = 0 /\ r.phase = "Settlement" /\ IsLedger(r)
  BY <1>1 DEF Refunded, Settled, IsLedger
<1>3. c.pot = 0 /\ c.phase = "Settlement" /\ IsLedger(c)
  <2> HIDE DEF r
  <2>1. QED
    BY <1>2 DEF Cancelled, IsLedger, r
<1>4. QED
  BY <1>2, <1>3 DEF Sound, PotInStep, HandLive, BetweenHandsPhases

-----------------------------------------------------------------------------
(* The end of a round, and the actions that lead to it. *)
LEMMA AdvanceToNextPhaseSound ==
  ASSUME NEW s, Sound(s), s.phase \in BettingPhases
  PROVE  Sound(AdvanceToNextPhase(s))
<1>1. CASE Cardinality(Live(s)) = 1
  BY <1>1, SettleFoldWinSound DEF AdvanceToNextPhase, Sound
<1>2. CASE Cardinality(Live(s)) # 1
  <2> DEFINE r == AdvanceToNextPhase(s)
  <2>1. /\ IsLedger(r) /\ r.pot = s.pot /\ r.committed = s.committed
        /\ r.phase = IF RunItTwiceOffered(s) THEN "AwaitingRunItTwice"
                     ELSE NextPhase[s.phase]
    BY <1>2 DEF AdvanceToNextPhase, Sound, IsLedger
  <2>2. HandLive(r) /\ HandLive(s)
    BY <2>1 DEF HandLive, NextPhase, BettingPhases, BetweenHandsPhases
  <2>3. QED
    BY <2>1, <2>2 DEF Sound, PotInStep
<1>3. QED
  BY <1>1, <1>2

LEMMA AdvanceTurnSound ==
  ASSUME NEW s, Sound(s), s.phase \in BettingPhases, NEW m
  PROVE  Sound(AdvanceTurn(s, m))
<1> DEFINE turned == [s EXCEPT !.turn = Clockwise(s, SeatAfter(s, @), CanAct(s))]
<1>1. SamePot(s, turned)
  BY DEF SamePot, Sound, IsLedger
<1>2. Sound(turned)
  BY <1>1, SamePotKeeps
<1>3. QED
  BY <1>2, AdvanceToNextPhaseSound DEF AdvanceTurn

LEMMA ActedSound ==
  ASSUME NEW s, Sound(s), s.phase \in BettingPhases, NEW acted, Balanced(s, acted),
         NEW p
  PROVE  Sound(Acted(s, acted, p))
<1> DEFINE a == [acted EXCEPT !.idle = 0, !.deadline = Timeout]
<1>1. HandLive(s)
  BY DEF HandLive, BettingPhases, BetweenHandsPhases
<1>2. Balanced(s, a)
  BY MarkedBalanced
<1>3. Sound(a) /\ a.phase \in BettingPhases
  BY <1>1, <1>2, BalancedKeeps DEF Balanced
<1>4. QED
  BY <1>3, AdvanceTurnSound DEF Acted

LEMMA CurrentBetInt ==
  ASSUME NEW s, IsLedger(s) PROVE CurrentBet(s) \in Int
<1> DEFINE B == {s.bet[p] : p \in Seated(s)}
<1>1. Seated(s) \subseteq Players /\ IsFiniteSet(Seated(s))
  BY SeatedArePlayers DEF IsLedger
<1>2. IsFiniteSet(B) /\ B \subseteq Int
  BY <1>1, ImageFinite DEF IsLedger
<1> HIDE DEF B
<1>3. Max({0} \cup B) \in Int
  BY <1>2, MaxWithZero
<1>4. QED
  BY <1>3 DEF CurrentBet, B

LEMMA BettingSound ==
  ASSUME NEW s, Sound(s), NEW p \in Players, MayAct(s, p), NEW a \in Int, NEW r,
         r \in Fold(s, p) \cup Check(s, p) \cup Call(s, p) \cup AllIn(s, p)
                 \cup Bet(s, p, a) \cup Raise(s, p, a)
  PROVE  Sound(r)
<1> DEFINE toCall == CurrentBet(s) - s.bet[p]
<1>1. s.phase \in BettingPhases /\ IsLedger(s)
  BY DEF MayAct, Sound
<1>2. s.stack[p] \in Int /\ toCall \in Int
  <2>1. CurrentBet(s) \in Int
    BY <1>1, CurrentBetInt
  <2>2. s.stack[p] \in Int /\ s.bet[p] \in Int
    BY <1>1 DEF IsLedger
  <2>3. QED
    BY <2>1, <2>2
<1>3. ASSUME NEW acted, Balanced(s, acted) PROVE Sound(Acted(s, acted, p))
  BY <1>1, <1>3, ActedSound
<1>4. ASSUME NEW x \in Int, NEW y
      PROVE  /\ Sound(Acted(s, Wagered(s, p, x), p))
             /\ Sound(Acted(s, [Wagered(s, p, x) EXCEPT !.lastRaise = y], p))
  <2>1. Balanced(s, Wagered(s, p, x))
    BY <1>1, WageredBalanced
  <2>2. Balanced(s, [Wagered(s, p, x) EXCEPT !.lastRaise = y])
    BY <2>1, MarkedBalanced
  <2>3. QED
    BY <1>3, <2>1, <2>2
<1>5. CASE r \in Fold(s, p)
  <2> DEFINE f == [s EXCEPT !.folded = @ \cup {p}]
  <2>1. Balanced(s, f)
    BY <1>1, BalancedItself, MarkedBalanced
  <2>2. Sound(SettleFoldWin(f))
    BY <2>1, SettleFoldWinSound DEF Balanced
  <2>3. QED
    BY <1>3, <1>5, <2>1, <2>2 DEF Fold
<1>6. CASE r \in Check(s, p)
  BY <1>1, <1>3, <1>6, BalancedItself DEF Check
<1>7. CASE r \in Call(s, p)
  <2> HIDE DEF toCall
  <2>1. Min({toCall, s.stack[p]}) \in Int
    BY <1>2, MinOfTwo
  <2>2. r = Acted(s, Wagered(s, p, Min({toCall, s.stack[p]})), p)
    BY <1>7 DEF Call, toCall
  <2>3. QED
    BY <1>4, <2>1, <2>2
<1>8. CASE r \in AllIn(s, p)
  <2> DEFINE w == PutIn(s, p, s.stack[p])
  <2>1. Balanced(s, w)
    BY <1>1, <1>2, PutInBalanced
  <2>2. Balanced(s, [w EXCEPT !.allIn = @ \cup {p}])
    BY <2>1, MarkedBalanced
  <2>3. QED
    BY <1>3, <1>8, <2>2 DEF AllIn
<1>9. CASE r \in Bet(s, p, a)
  BY <1>4, <1>9 DEF Bet
<1>10. CASE r \in Raise(s, p, a)
  <2>1. toCall + a \in Int
    BY <1>2
  <2>2. r = Acted(s, [Wagered(s, p, toCall + a) EXCEPT !.lastRaise = a], p)
    BY <1>10 DEF Raise
  <2> HIDE DEF toCall
  <2>3. QED
    BY <1>4, <2>1, <2>2
<1>11. QED
  BY <1>5, <1>6, <1>7, <1>8, <1>9, <1>10

LEMMA FoldStallingSound ==
  ASSUME NEW s, Sound(s), s.phase \in BettingPhases, NEW d
  PROVE  Sound(FoldStalling(s, d))
<1> DEFINE f    == [s EXCEPT !.folded = @ \cup {At(s, s.turn)}]
           open == Live(f) \ f.allIn
           next == SeatAfter(s, s.turn)
           turn == IF open = {} THEN next ELSE Clockwise(s, next, open)
           g    == [f EXCEPT !.turn = turn, !.idle = 0, !.deadline = d]
<1>1. SamePot(s, f)
  BY DEF SamePot, Sound, IsLedger
<1>2. Sound(SettleFoldWin(f))
  BY <1>1, SettleFoldWinSound DEF SamePot
<1>3. SamePot(s, g)
  <2> HIDE DEF f, turn
  <2>1. QED
    BY <1>1 DEF SamePot, IsLedger
<1>4. Sound(g)
  BY <1>3, SamePotKeeps
<1>5. QED
  BY <1>2, <1>4 DEF FoldStalling

LEMMA ResetRoundSound ==
  ASSUME NEW s, Sound(s), s.phase \in BettingPhases PROVE Sound(ResetRound(s))
<1> DEFINE raise == IF Structure.kind = "FixedLimit" THEN FixedBet(s) ELSE BigBlind
           turn  == Clockwise(s, SeatAfter(s, s.dealer), CanAct(s))
           fresh == [s EXCEPT !.bet = NoChips, !.lastRaise = raise]
           turned == [fresh EXCEPT !.turn = turn]
<1>1. NoChips \in [Players -> Int]
  BY DEF NoChips
<1> HIDE DEF raise, turn
<1>2. SamePot(s, fresh)
  BY <1>1 DEF SamePot, Sound, IsLedger
<1>3. SamePot(s, turned)
  <2> HIDE DEF fresh
  <2>1. QED
    BY <1>2 DEF SamePot, IsLedger
<1>4. Sound(fresh) /\ fresh.phase \in BettingPhases /\ Sound(turned)
  BY <1>2, <1>3, SamePotKeeps DEF SamePot
<1>5. QED
  BY <1>4, AdvanceToNextPhaseSound DEF ResetRound, raise, turn

-----------------------------------------------------------------------------
(* Seats and the queue change hands. *)
LEMMA RemoveAtSeq ==
  ASSUME NEW S, NEW q \in Seq(S), NEW i \in 1 .. Len(q)
  PROVE  RemoveAt(q, i) \in Seq(S)
<1>1. SubSeq(q, 1, i - 1) \in Seq(S) /\ SubSeq(q, i + 1, Len(q)) \in Seq(S)
  BY SubSeqProperties
<1>2. QED
  BY <1>1, ConcatProperties DEF RemoveAt

LEMMA SeatOfInRange ==
  ASSUME NEW s, s.seats \in Seq(Players), NEW p \in Seated(s)
  PROVE  SeatOf(s, p) \in 1 .. Len(s.seats)
<1>1. DOMAIN s.seats = 1 .. Len(s.seats)
  OBVIOUS
<1>2. \E i \in DOMAIN s.seats : s.seats[i] = p
  BY DEF Seated, Range
<1>3. QED
  BY <1>1, <1>2 DEF SeatOf

LEMMA ClearedInt ==
  ASSUME NEW f \in [Players -> Int], NEW p \in Players
  PROVE  [f EXCEPT ![p] = 0] \in [Players -> Int]
  OBVIOUS

LEMMA VacatedSound ==
  ASSUME NEW s, Sound(s), ~ HandLive(s), NEW p \in Seated(s)
  PROVE  Sound(Vacated(s, p))
<1> DEFINE r == Vacated(s, p)
           n == SeatCount(s) - 1
           seats == RemoveAt(s.seats, SeatOf(s, p))
           dealer == IF n = 0 THEN 0 ELSE s.dealer % n
           turn == IF n = 0 THEN 0 ELSE s.turn % n
<1>1. s.seats \in Seq(Players) /\ s.dealer \in Int
  BY DEF Sound, IsLedger
<1>2. SeatOf(s, p) \in 1 .. Len(s.seats)
  BY <1>1, SeatOfInRange
<1>3. seats \in Seq(Players)
  BY <1>1, <1>2, RemoveAtSeq
<1>4. dealer \in Int
  <2>1. Len(s.seats) \in Nat /\ Len(s.seats) >= 1
    BY <1>1, <1>2
  <2>2. n \in Nat
    BY <2>1 DEF SeatCount
  <2> HIDE DEF n
  <2>3. QED
    BY <1>1, <2>2
<1>5. p \in Players
  BY <1>1, SeatedArePlayers
<1>6. /\ r.seats = seats /\ r.dealer = dealer
      /\ r.stack = [s.stack EXCEPT ![p] = 0] /\ r.bet = [s.bet EXCEPT ![p] = 0]
      /\ r.committed = [s.committed EXCEPT ![p] = 0]
      /\ r.pot = s.pot /\ r.jackpot = s.jackpot /\ r.phase = s.phase
      /\ DOMAIN r = DOMAIN s
  BY DEF Vacated, Sound, IsLedger
<1> HIDE DEF r, seats, dealer
<1>7. IsLedger(r)
  <2>1. IsLedger(s)
    BY DEF Sound
  <2>2. /\ r.stack \in [Players -> Int] /\ r.bet \in [Players -> Int]
        /\ r.committed \in [Players -> Int]
    <3>1. /\ s.stack \in [Players -> Int] /\ s.bet \in [Players -> Int]
          /\ s.committed \in [Players -> Int]
      BY <2>1 DEF IsLedger
    <3>2. QED
      BY <1>5, <1>6, <3>1, ClearedInt
  <2>3. r.pot \in Int /\ r.jackpot \in Int /\ r.dealer \in Int
    BY <1>4, <1>6, <2>1 DEF IsLedger
  <2>4. r.seats \in Seq(Players)
    BY <1>3, <1>6
  <2>5. {"phase", "seats", "dealer", "stack", "bet", "committed", "pot", "jackpot"}
          \subseteq DOMAIN r
    BY <1>6, <2>1 DEF IsLedger
  <2>6. QED
    BY <2>2, <2>3, <2>4, <2>5 DEF IsLedger
<1>8. r.pot = 0 /\ ~ HandLive(r)
  BY <1>6 DEF Sound, PotInStep, HandLive
<1>9. QED
  BY <1>7, <1>8 DEF Sound, PotInStep, r

LEMMA SatDownSound ==
  ASSUME NEW s, Sound(s), NEW p \in Players, NEW c \in Int
  PROVE  Sound(SatDown(s, p, c))
<1> DEFINE r == SatDown(s, p, c)
<1>1. Append(s.seats, p) \in Seq(Players)
  BY DEF Sound, IsLedger
<1>2. /\ r.seats = Append(s.seats, p) /\ r.stack = [s.stack EXCEPT ![p] = c]
      /\ r.committed = s.committed /\ r.pot = s.pot /\ r.phase = s.phase
      /\ r.bet = s.bet /\ r.jackpot = s.jackpot /\ r.dealer = s.dealer
      /\ DOMAIN r = DOMAIN s
  BY DEF SatDown, Sound, IsLedger
<1> HIDE DEF r
<1>3. SamePot(s, r)
  BY <1>1, <1>2 DEF SamePot, Sound, IsLedger
<1>4. QED
  BY <1>3, SamePotKeeps DEF r

-----------------------------------------------------------------------------
(* The inductive invariant: the pot, and that whoever waits or volunteers can be
   seated and charged. *)
Entries == [player : Players, buyIn : Int]

PotInv ==
  /\ Sound(t)
  /\ queue \in Seq(Entries)
  /\ pending.seat \in Int /\ pending.seat >= NoSeat

LEMMA PotInvInit == Init => PotInv
<1> SUFFICES ASSUME Init PROVE PotInv
  OBVIOUS
<1>1. NoChips \in [Players -> Int]
  BY DEF NoChips
<1>2. t.pot = 0 /\ t.phase = "Waiting" /\ IsLedger(t)
  BY <1>1 DEF Init, EmptyTable, IsLedger
<1>3. Sound(t)
  BY <1>2 DEF Sound, PotInStep, HandLive, BetweenHandsPhases
<1>4. QED
  BY <1>3 DEF Init, PotInv, NoVolunteer, NoSeat

LEMMA SeatStep == ASSUME PotInv, SeatNext PROVE PotInv'
<1>0. Sound(t) /\ IsLedger(t) /\ queue \in Seq(Entries)
  BY DEF PotInv, Sound
<1>1. ASSUME NEW p \in Players, NEW c \in BuyIns, JoinTable(p, c) PROVE PotInv'
  <2>1. c \in Int
    BY TableAssumption
  <2>2. Sound(t')
    BY <1>0, <1>1, <2>1, SatDownSound DEF JoinTable
  <2>3. QED
    BY <1>1, <2>2 DEF JoinTable, PotInv
<1>2. ASSUME NEW p \in Players, NEW c \in BuyIns, JoinQueue(p, c) PROVE PotInv'
  <2>1. [player |-> p, buyIn |-> c] \in Entries
    BY TableAssumption DEF Entries
  <2>2. queue' \in Seq(Entries)
    BY <1>0, <1>2, <2>1 DEF JoinQueue
  <2>3. QED
    BY <1>2, <2>2 DEF JoinQueue, PotInv, handVars
<1>3. ASSUME NEW p \in Players, NEW c \in BuyIns, Rebuy(p, c) PROVE PotInv'
  <2>1. c \in Int
    BY TableAssumption
  <2>2. Sound(t')
    BY <1>0, <1>3, <2>1, CreditSame, SamePotKeeps DEF Rebuy
  <2>3. QED
    BY <1>3, <2>2 DEF Rebuy, PotInv
<1>4. ASSUME NEW p \in Players, LeaveTable(p) PROVE PotInv'
  <2> DEFINE left == Vacated(t, p)
             next == Head(queue)
  <2>1. Sound(left)
    BY <1>0, <1>4, VacatedSound DEF LeaveTable
  <2> HIDE DEF left
  <2>2. pending' = pending
    BY <1>4 DEF LeaveTable
  <2>3. CASE t' = left /\ queue' = queue
    BY <2>1, <2>2, <2>3 DEF PotInv
  <2>4. CASE queue # <<>> /\ t' = SatDown(left, next.player, next.buyIn)
               /\ queue' = Tail(queue)
    <3>1. next \in Entries /\ Tail(queue) \in Seq(Entries)
      BY <1>0, <2>4
    <3>2. next.player \in Players /\ next.buyIn \in Int
      BY <3>1 DEF Entries
    <3>3. Sound(t')
      BY <2>1, <2>4, <3>2, SatDownSound
    <3>4. QED
      BY <2>2, <2>4, <3>1, <3>3 DEF PotInv
  <2>5. QED
    BY <1>4, <2>3, <2>4 DEF LeaveTable, SeatNextFromQueue, left
<1>5. ASSUME NEW p \in Players, LeaveQueue(p) PROVE PotInv'
  <2>1. QueuePosition(queue, p) \in 1 .. Len(queue)
    <3>1. DOMAIN queue = 1 .. Len(queue)
      BY <1>0
    <3>2. \E i \in DOMAIN queue : queue[i].player = p
      BY <1>5 DEF LeaveQueue, Queued
    <3>3. QED
      BY <3>1, <3>2 DEF QueuePosition
  <2>2. queue' \in Seq(Entries)
    BY <1>0, <1>5, <2>1, RemoveAtSeq DEF LeaveQueue
  <2>3. QED
    BY <1>5, <2>2 DEF LeaveQueue, PotInv, handVars
<1>6. QED
  BY <1>1, <1>2, <1>3, <1>4, <1>5 DEF SeatNext

LEMMA HandStep == ASSUME PotInv, StartHand PROVE PotInv'
<1>1. Sound(t')
  BY StartNewHandSound DEF StartHand, PotInv
<1>2. queue' = queue /\ pending' \in {pending, NoVolunteer}
  BY DEF StartHand, seatVars
<1>3. QED
  BY <1>1, <1>2 DEF PotInv, NoVolunteer, NoSeat

LEMMA StraddleStep == ASSUME PotInv, StraddleNext PROVE PotInv'
<1>1. ASSUME NEW p \in Players, PostStraddle(p) PROVE PotInv'
  <2>1. SeatOf(t, p) \in 1 .. Len(t.seats) /\ Len(t.seats) \in Nat
    BY <1>1, SeatOfInRange DEF PostStraddle, PotInv, Sound, IsLedger
  <2>2. pending'.seat = SeatOf(t, p) - 1
    BY <1>1 DEF PostStraddle
  <2>3. pending'.seat \in Int /\ pending'.seat >= NoSeat
    BY <2>1, <2>2 DEF NoSeat
  <2>4. QED
    BY <1>1, <2>3 DEF PostStraddle, PotInv, seatVars
<1>2. ASSUME NEW p \in Players, CancelStraddle(p) PROVE PotInv'
  BY <1>2 DEF CancelStraddle, PotInv, NoVolunteer, NoSeat, seatVars
<1>3. QED
  BY <1>1, <1>2 DEF StraddleNext

LEMMA BettingStep == ASSUME PotInv, BettingNext PROVE PotInv'
<1>1. PICK p \in Players :
         \/ PlayerFolds(p) \/ PlayerChecks(p) \/ PlayerCalls(p)
         \/ PlayerBets(p) \/ PlayerRaises(p) \/ PlayerAllIn(p)
  BY DEF BettingNext
<1>2. BetSizes \subseteq Int
  BY TableAssumption
<1>3. \E a \in Int :
         /\ MayAct(t, p)
         /\ t' \in Fold(t, p) \cup Check(t, p) \cup Call(t, p) \cup AllIn(t, p)
                     \cup Bet(t, p, a) \cup Raise(t, p, a)
  <2>1. CASE PlayerBets(p) \/ PlayerRaises(p)
    <3>1. \E a \in BetSizes : /\ MayAct(t, p)
                              /\ t' \in Bet(t, p, a) \cup Raise(t, p, a)
      BY <2>1 DEF PlayerBets, PlayerRaises, PlayerAction, Outcome
    <3>2. QED
      BY <1>2, <3>1
  <2>2. CASE PlayerFolds(p) \/ PlayerChecks(p) \/ PlayerCalls(p) \/ PlayerAllIn(p)
    <3>1. /\ MayAct(t, p)
          /\ t' \in Fold(t, p) \cup Check(t, p) \cup Call(t, p) \cup AllIn(t, p)
      BY <2>2 DEF PlayerFolds, PlayerChecks, PlayerCalls, PlayerAllIn, PlayerAction,
                  Outcome
    <3>2. 0 \in Int
      OBVIOUS
    <3>3. QED
      BY <3>1, <3>2
  <2>3. QED
    BY <1>1, <2>1, <2>2
<1>4. Sound(t')
  BY <1>3, BettingSound DEF PotInv
<1>5. queue' = queue /\ pending' = pending
  BY <1>1 DEF PlayerFolds, PlayerChecks, PlayerCalls, PlayerBets, PlayerRaises,
              PlayerAllIn, PlayerAction, HandFrame, seatVars
<1>6. QED
  BY <1>4, <1>5 DEF PotInv

LEMMA CommitteeStep ==
  ASSUME PotInv, CommitteeNext \/ RunItTwiceNext PROVE PotInv'
<1>0. Sound(t) /\ IsLedger(t)
  BY DEF PotInv, Sound
<1>1. CASE CommitDeal
  <2>1. /\ IsLedger(t') /\ t'.pot = t.pot /\ t'.committed = t.committed
        /\ t.phase = "Dealing" /\ t'.phase = "Preflop"
    BY <1>0, <1>1 DEF CommitDeal, IsLedger
  <2>2. Sound(t')
    BY <1>0, <2>1 DEF Sound, PotInStep, HandLive, BetweenHandsPhases
  <2>3. QED
    BY <1>1, <2>2 DEF CommitDeal, HandFrame, seatVars, PotInv
<1>2. CASE RevealBoard
  <2> DEFINE r == [t EXCEPT !.board = @ + CardsDealt(t), !.phase = Street[@],
                            !.idle = 0]
  <2>1. /\ IsLedger(r) /\ r.pot = t.pot /\ r.committed = t.committed
        /\ r.phase = Street[t.phase] /\ t.phase \in DealingPhases
    BY <1>0, <1>2 DEF RevealBoard, IsLedger
  <2>2. r.phase \in BettingPhases
    BY <2>1 DEF Street, DealingPhases, BettingPhases
  <2>3. Sound(r)
    BY <1>0, <2>1, <2>2 DEF Sound, PotInStep, HandLive, BetweenHandsPhases,
                            DealingPhases, BettingPhases
  <2>4. Sound(t')
    BY <1>2, <2>2, <2>3, ResetRoundSound DEF RevealBoard
  <2>5. QED
    BY <1>2, <2>4 DEF RevealBoard, HandFrame, seatVars, PotInv
<1>3. CASE SubmitShowdown
  <2>1. Sound(t')
    BY <1>0, <1>3, SettleShowdownSound DEF SubmitShowdown, Outcome
  <2>2. QED
    BY <1>3, <2>1 DEF SubmitShowdown, HandFrame, seatVars, PotInv
<1>4. ASSUME NEW p \in Players, DeclineRunItTwice(p) PROVE PotInv'
  <2>1. /\ IsLedger(t') /\ t'.pot = t.pot /\ t'.committed = t.committed
        /\ t'.phase = ResumedPhase(t.board) /\ t.phase = "AwaitingRunItTwice"
    BY <1>0, <1>4 DEF DeclineRunItTwice, MayDecideRunItTwice, IsLedger
  <2>2. HandLive(t') /\ HandLive(t)
    BY <2>1 DEF ResumedPhase, HandLive, BetweenHandsPhases
  <2>3. Sound(t')
    BY <1>0, <2>1, <2>2 DEF Sound, PotInStep
  <2>4. QED
    BY <1>4, <2>3 DEF DeclineRunItTwice, HandFrame, seatVars, PotInv
<1>5. ASSUME NEW p \in Players, OptInRunItTwice(p) PROVE PotInv'
  <2>1. SamePot(t, t')
    BY <1>0, <1>5 DEF OptInRunItTwice, SamePot, IsLedger
  <2>2. QED
    BY <1>0, <1>5, <2>1, SamePotKeeps DEF OptInRunItTwice, HandFrame, seatVars, PotInv
<1>6. QED
  BY <1>1, <1>2, <1>3, <1>4, <1>5 DEF CommitteeNext, RunItTwiceNext

LEMMA TimeoutStep == ASSUME PotInv, TimeoutNext PROVE PotInv'
<1>1. CASE ClaimTimeout
  BY <1>1, FoldStallingSound
     DEF ClaimTimeout, Outcome, ProcessTimeout, MayTimeOut, HandFrame, seatVars, PotInv
<1>2. ASSUME NEW p \in Players, ForceFoldBy(p) PROVE PotInv'
  BY <1>2, FoldStallingSound
     DEF ForceFoldBy, Outcome, ForceFold, MayTimeOut, HandFrame, seatVars, PotInv
<1>3. QED
  BY <1>1, <1>2 DEF TimeoutNext

LEMMA RefundStep ==
  ASSUME PotInv, RecoveryNext \/ ExecuteClosure PROVE PotInv'
<1>0. Sound(t) /\ IsLedger(t)
  BY DEF PotInv, Sound
<1>1. ASSUME NEW r, Sound(r), RefundEverybody(r) PROVE PotInv'
  BY <1>1 DEF RefundEverybody, seatVars, PotInv
<1>2. CASE CancelHand
  BY <1>0, <1>1, <1>2, RefundedSound DEF CancelHand
<1>3. CASE AdminEmergency
  BY <1>0, <1>1, <1>3, RefundedSound DEF AdminEmergency
<1>4. ASSUME NEW p \in Players, ApproveEmergency(p) PROVE PotInv'
  <2>1. RefundEverybody(Refunded(t)) \/ UNCHANGED <<handVars, seatVars>>
    BY <1>4 DEF ApproveEmergency
  <2>2. QED
    BY <1>0, <1>1, <2>1, RefundedSound DEF handVars, seatVars, PotInv
<1>5. CASE ExecuteClosure
  BY <1>0, <1>1, <1>5, RefundedSound DEF ExecuteClosure
<1>6. QED
  BY <1>2, <1>3, <1>4, <1>5 DEF RecoveryNext

LEMMA MoneyStep ==
  ASSUME PotInv, RakeNext \/ SweepDeadChips \/ FinalizeSunset \/ Tick PROVE PotInv'
<1>0. Sound(t) /\ IsLedger(t)
  BY DEF PotInv, Sound
<1>1. NoChips \in [Players -> Int]
  BY DEF NoChips
<1>2. CASE WithdrawRake
  <2>1. SamePot(t, t')
    BY <1>0, <1>2 DEF WithdrawRake, SamePot, IsLedger
  <2>2. QED
    BY <1>0, <1>2, <2>1, SamePotKeeps DEF WithdrawRake, seatVars, PotInv
<1>3. ASSUME NEW p \in Players, ClaimJackpot(p) PROVE PotInv'
  <2> DEFINE c == Credit(t, p, t.jackpot)
  <2>1. SamePot(t, c)
    BY <1>0, CreditSame DEF IsLedger
  <2> HIDE DEF c
  <2>2. SamePot(t, [c EXCEPT !.jackpot = 0])
    BY <2>1 DEF SamePot, IsLedger
  <2>3. Sound(t')
    BY <1>0, <1>3, <2>2, SamePotKeeps DEF ClaimJackpot, c
  <2>4. QED
    BY <1>3, <2>3 DEF ClaimJackpot, seatVars, PotInv
<1>4. CASE SweepDeadChips
  <2>1. IsLedger(t') /\ t'.pot = 0 /\ t'.phase = "Settlement"
    BY <1>0, <1>1, <1>4 DEF SweepDeadChips, IsLedger
  <2>2. Sound(t')
    BY <2>1 DEF Sound, PotInStep, HandLive, BetweenHandsPhases
  <2>3. QED
    BY <1>4, <2>2 DEF SweepDeadChips, seatVars, PotInv
<1>5. CASE FinalizeSunset
  <2>1. <<>> \in Seq(Players) /\ <<>> \in Seq(Entries)
    OBVIOUS
  <2>2. /\ IsLedger(t') /\ t'.pot = t.pot /\ t'.phase = t.phase /\ ~ HandLive(t)
        /\ t.pot = 0
    BY <1>0, <1>1, <1>5, <2>1 DEF FinalizeSunset, MaySunset, IsLedger
  <2>3. Sound(t')
    BY <2>2 DEF Sound, PotInStep, HandLive
  <2>4. QED
    BY <1>5, <2>1, <2>3 DEF FinalizeSunset, PotInv
<1>6. CASE Tick
  <2>1. SamePot(t, t')
    BY <1>0, <1>6 DEF Tick, SamePot, IsLedger
  <2>2. QED
    BY <1>0, <1>6, <2>1, SamePotKeeps DEF Tick, seatVars, PotInv
<1>7. QED
  BY <1>2, <1>3, <1>4, <1>5, <1>6 DEF RakeNext

LEMMA PotInvStep == PotInv /\ [Next]_vars => PotInv'
<1> SUFFICES ASSUME PotInv, [Next]_vars PROVE PotInv'
  OBVIOUS
<1>1. CASE SeatNext
  BY <1>1, SeatStep
<1>2. CASE StartHand
  BY <1>2, HandStep
<1>3. CASE StraddleNext
  BY <1>3, StraddleStep
<1>4. CASE BettingNext
  BY <1>4, BettingStep
<1>5. CASE CommitteeNext \/ RunItTwiceNext
  BY <1>5, CommitteeStep
<1>6. CASE TimeoutNext
  BY <1>6, TimeoutStep
<1>7. CASE RecoveryNext
  BY <1>7, RefundStep
<1>8. CASE ClosingNext
  <2>1. CASE ProposeClosure
    BY <2>1 DEF ProposeClosure, handVars, seatVars, PotInv
  <2>2. QED
    BY <1>8, <2>1, RefundStep, MoneyStep DEF ClosingNext
<1>9. CASE GuardNext
  <2>1. UNCHANGED <<handVars, seatVars>>
    BY <1>9 DEF GuardNext, Pause, Unpause, Ban, Unban
  <2>2. QED
    BY <2>1 DEF handVars, seatVars, PotInv
<1>10. CASE RakeNext \/ Tick
  BY <1>10, MoneyStep
<1>11. CASE UNCHANGED vars
  BY <1>11 DEF vars, handVars, seatVars, PotInv
<1>12. QED
  BY <1>1, <1>2, <1>3, <1>4, <1>5, <1>6, <1>7, <1>8, <1>9, <1>10, <1>11 DEF Next

(* PotIsCommitted for every table: however antes, short blinds, straddles, calls
   for less, all-ins, folds and timeouts interleave, a refund of what everybody has
   committed is exactly the pot. *)
THEOREM PotAlwaysCommitted == Spec => []PotIsCommitted
<1>1. PotInv => PotIsCommitted
  BY DEF PotInv, Sound, PotInStep, PotIsCommitted
<1>2. QED
  BY <1>1, PotInvInit, PotInvStep, PTL DEF Spec
-----------------------------------------------------------------------------
(***************************************************************************)
(* Proofs about who sits where: that seats, waiting list and wallet index  *)
(* agree, that a live hand has two contenders, and what follows from that  *)
(* for a paused settlement and for refunds.                                *)
(*                                                                         *)
(* SeatsConsistent is not inductive.  A player who joins a table with a    *)
(* free seat is on no waiting list only because nobody waits while a seat  *)
(* is free; the turn stays inside the table only because seats are frozen  *)
(* while a hand is live and the turn moves to somebody who can act.        *)
(***************************************************************************)

(* The button and the turn point at a seat, or at 0 when there is none. *)
PointsAt(s, k) == k \in Nat /\ k < Max({1, SeatCount(s)})

Contested(s) == \E p, q \in Live(s) : p # q

Seating(s) ==
  /\ {"phase", "seats", "dealer", "turn", "straddler", "folded", "stack", "allIn"}
       \subseteq DOMAIN s
  /\ s.seats \in Seq(Players) /\ IsInjective(s.seats)
  /\ SeatCount(s) <= MaxPlayers
  /\ PointsAt(s, s.dealer) /\ PointsAt(s, s.turn) /\ s.straddler \in Int
  /\ HandLive(s) => Contested(s)

LEMMA MaxWithOne ==
  ASSUME NEW n \in Nat PROVE Max({1, n}) = IF n >= 1 THEN n ELSE 1
<1> DEFINE m == IF n >= 1 THEN n ELSE 1
<1>1. m \in {1, n} /\ \A y \in {1, n} : m >= y
  OBVIOUS
<1>2. ASSUME NEW x \in {1, n}, \A y \in {1, n} : x >= y PROVE x = m
  BY <1>2
<1>3. QED
  BY <1>1, <1>2 DEF Max

(* A seat number is one. *)
LEMMA SeatPoints ==
  ASSUME NEW s, s.seats \in Seq(Players), NEW k
  PROVE  /\ k \in 0 .. SeatCount(s) - 1 => PointsAt(s, k)
         /\ PointsAt(s, k) /\ SeatCount(s) > 0 => k \in 0 .. SeatCount(s) - 1
         /\ PointsAt(s, 0)
<1>1. SeatCount(s) \in Nat
  BY DEF SeatCount
<1>2. QED
  BY <1>1, MaxWithOne DEF PointsAt

(* A rule that moves only chips, marks and clocks. *)
SameSeats(s, r) ==
  /\ DOMAIN r = DOMAIN s
  /\ r.seats = s.seats /\ r.dealer = s.dealer /\ r.straddler = s.straddler
  /\ r.turn = s.turn

LEMMA SameSeatsKeep ==
  ASSUME NEW s, NEW r, Seating(s), SameSeats(s, r),
         HandLive(r) => HandLive(s) /\ r.folded = s.folded
  PROVE  Seating(r)
<1>1. SeatCount(r) = SeatCount(s) /\ Seated(r) = Seated(s)
  BY DEF SameSeats, SeatCount, Seated
<1>2. HandLive(r) => Contested(r)
  BY <1>1 DEF Seating, Contested, Live
<1>3. QED
  BY <1>1, <1>2 DEF Seating, SameSeats, PointsAt

(* The turn may move to any seat. *)
LEMMA TurnedKeeps ==
  ASSUME NEW s, Seating(s), NEW k \in 0 .. SeatCount(s) - 1
  PROVE  Seating([s EXCEPT !.turn = k])
<1> DEFINE r == [s EXCEPT !.turn = k]
<1>1. /\ DOMAIN r = DOMAIN s /\ r.seats = s.seats /\ r.dealer = s.dealer
      /\ r.straddler = s.straddler /\ r.phase = s.phase /\ r.folded = s.folded
      /\ r.turn = k
  BY DEF Seating
<1> HIDE DEF r
<1>2. SeatCount(r) = SeatCount(s) /\ Seated(r) = Seated(s)
  BY <1>1 DEF SeatCount, Seated
<1>3. PointsAt(r, k) /\ PointsAt(r, s.dealer)
  BY <1>2, SeatPoints DEF Seating, PointsAt
<1>4. HandLive(r) => Contested(r)
  BY <1>1, <1>2 DEF Seating, HandLive, Contested, Live
<1>5. Seating(r)
  BY <1>1, <1>2, <1>3, <1>4 DEF Seating
<1>6. QED
  BY <1>5 DEF r

(* In a live hand there are seats to go round. *)
LEMMA ContestedSeats ==
  ASSUME NEW s, Seating(s), Contested(s)
  PROVE  /\ SeatCount(s) \in Nat /\ SeatCount(s) >= 2
         /\ s.turn \in 0 .. SeatCount(s) - 1 /\ s.dealer \in 0 .. SeatCount(s) - 1
         /\ Cardinality(Live(s)) # 1
<1>1. SeatCount(s) \in Nat
  BY DEF Seating, SeatCount
<1>2. PICK p \in Live(s), q \in Live(s) : p # q
  BY DEF Contested
<1>3. PICK i \in 1 .. SeatCount(s), j \in 1 .. SeatCount(s) :
         s.seats[i] = p /\ s.seats[j] = q
  <2>1. DOMAIN s.seats = 1 .. SeatCount(s)
    BY DEF Seating, SeatCount
  <2>2. QED
    BY <2>1 DEF Live, Seated, Range
<1>4. i # j
  BY <1>2, <1>3
<1>5. SeatCount(s) >= 2
  BY <1>1, <1>4
<1>6. s.turn \in 0 .. SeatCount(s) - 1 /\ s.dealer \in 0 .. SeatCount(s) - 1
  BY <1>1, <1>5, SeatPoints DEF Seating
<1>7. Cardinality(Live(s)) # 1
  <2>1. IsFiniteSet(Live(s))
    BY SeatedArePlayers, FS_Subset DEF Seating, Live
  <2>2. ASSUME Cardinality(Live(s)) = 1 PROVE FALSE
    <3>1. PICK x : Live(s) = {x}
      BY <2>1, <2>2, FS_Singleton
    <3>2. QED
      BY <1>2, <3>1
  <2>3. QED
    BY <2>2
<1>8. QED
  BY <1>1, <1>5, <1>6, <1>7

LEMMA SeatAfterIsSeat ==
  ASSUME NEW s, SeatCount(s) \in Nat, SeatCount(s) > 0, NEW k \in Int
  PROVE  SeatAfter(s, k) \in 0 .. SeatCount(s) - 1
  BY DEF SeatAfter

-----------------------------------------------------------------------------
(* Wagers, antes and blinds leave the seats, the street and the folds alone. *)
Aside(s, r) == SameSeats(s, r) /\ r.phase = s.phase /\ r.folded = s.folded

Fields ==
  {"phase", "seats", "dealer", "turn", "straddler", "folded", "stack", "allIn"}

LEMMA AsideChains ==
  ASSUME NEW s, NEW r, NEW q, Aside(s, r), Aside(r, q) PROVE Aside(s, q)
  BY DEF Aside, SameSeats

LEMMA AsideKeeps ==
  ASSUME NEW s, NEW r, Seating(s), Aside(s, r)
  PROVE  /\ Seating(r) /\ (HandLive(r) <=> HandLive(s)) /\ Fields \subseteq DOMAIN r
         /\ (Contested(r) <=> Contested(s))
<1>1. HandLive(r) <=> HandLive(s)
  BY DEF Aside, HandLive
<1>2. Seating(r)
  BY <1>1, SameSeatsKeep DEF Aside
<1>3. Contested(r) <=> Contested(s)
  BY DEF Aside, SameSeats, Contested, Live, Seated
<1>4. QED
  BY <1>1, <1>2, <1>3 DEF Seating, Fields

LEMMA MarkedAside ==
  ASSUME NEW s, Fields \subseteq DOMAIN s, NEW x, NEW y
  PROVE  /\ Aside(s, [s EXCEPT !.allIn = x])
         /\ Aside(s, [s EXCEPT !.lastRaise = y])
         /\ Aside(s, [s EXCEPT !.idle = x, !.deadline = y])
         /\ Aside(s, [s EXCEPT !.rake = x])
  BY DEF Aside, SameSeats, Fields

LEMMA PutInAside ==
  ASSUME NEW s, Fields \subseteq DOMAIN s, NEW p, NEW a
  PROVE  Aside(s, PutIn(s, p, a))
  BY DEF PutIn, Aside, SameSeats, Fields

LEMMA WageredAside ==
  ASSUME NEW s, Fields \subseteq DOMAIN s, NEW p, NEW a, NEW y
  PROVE  /\ Aside(s, Wagered(s, p, a))
         /\ Aside(s, [Wagered(s, p, a) EXCEPT !.lastRaise = y])
         /\ Aside(s, [PutIn(s, p, a) EXCEPT !.allIn = @ \cup {p}])
<1> DEFINE w == PutIn(s, p, a)
<1>1. Aside(s, w)
  BY PutInAside
<1>2. Fields \subseteq DOMAIN w
  BY <1>1 DEF Aside, SameSeats
<1> HIDE DEF w
<1>3. Aside(s, [w EXCEPT !.allIn = @ \cup {p}])
  BY <1>1, <1>2, MarkedAside, AsideChains
<1>4. Aside(s, Wagered(s, p, a))
  BY <1>1, <1>3 DEF Wagered, w
<1> DEFINE v == Wagered(s, p, a)
<1>5. Fields \subseteq DOMAIN v
  BY <1>4 DEF Aside, SameSeats
<1>6. Aside(s, [v EXCEPT !.lastRaise = y])
  <2> HIDE DEF v
  <2>1. Aside(s, v)
    BY <1>4 DEF v
  <2>2. QED
    BY <1>5, <2>1, MarkedAside, AsideChains
<1>7. QED
  BY <1>3, <1>4, <1>6 DEF w

LEMMA PostBlindAside ==
  ASSUME NEW s, Fields \subseteq DOMAIN s, NEW k, NEW a
  PROVE  Aside(s, PostBlind(s, k, a))
  BY PutInAside, WageredAside DEF PostBlind

LEMMA PostAntesAside ==
  ASSUME NEW s, Fields \subseteq DOMAIN s PROVE Aside(s, PostAntes(s))
  BY DEF PostAntes, Aside, SameSeats, Fields

(* A hand starts among at least two players with chips, the button and a straddle
   on a seat. *)
LEMMA StartNewHandSeats ==
  ASSUME NEW s, Seating(s), NEW v \in Int, v >= NoSeat, NEW r, r \in StartNewHand(s, v)
  PROVE  /\ Seating(r) /\ r.seats = s.seats /\ HandLive(r)
         /\ r.straddler # NoSeat => r.straddler \in 0 .. SeatCount(s) - 1
<1> DEFINE t0 == [s EXCEPT
              !.hand = @ + 1, !.dealer = NextActiveSeat(s, s.dealer),
              !.folded = {}, !.allIn = {}, !.bet = NoChips, !.committed = NoChips,
              !.board = 0, !.rit = "none", !.sidePots = 0,
              !.lastRaise = BigBlind, !.phase = "Dealing",
              !.idle = 0, !.deadline = NoDeadline, !.settledFor = 0]
           t1 == PostAntes(t0)
           sb == IF Cardinality(Funded(t1)) = 2 THEN t1.dealer
                 ELSE NextActiveSeat(t1, t1.dealer)
           bb == NextActiveSeat(t1, sb)
           tS == PostBlind(t1, sb, SmallBlind)
           t2 == PostBlind(tS, bb, BigBlind)
           st == StraddleSeat(t1, bb, v)
           tT == PostBlind(t2, st, StraddleAmount)
<1>1. /\ Funded(s) # {}
      /\ ~ (Cardinality(Funded(t1)) < 2) /\ ~ (st >= SeatCount(t1))
      /\ r = IF st = NoSeat THEN [t2 EXCEPT !.straddler = NoSeat]
             ELSE [tT EXCEPT !.straddler = st]
  BY DEF StartNewHand
<1>2. s.dealer \in Int /\ s.turn \in Nat /\ s.seats \in Seq(Players)
  BY DEF Seating, PointsAt
<1>3. NextActiveSeat(s, s.dealer) \in 0 .. SeatCount(s) - 1
  BY <1>1, <1>2, NextActiveIsSeat
<1>4. /\ t0.dealer \in 0 .. SeatCount(s) - 1 /\ t0.phase = "Dealing"
      /\ t0.folded = {} /\ t0.turn = s.turn /\ t0.seats = s.seats
      /\ t0.straddler = s.straddler /\ DOMAIN t0 = DOMAIN s
  BY <1>3 DEF Seating
<1> HIDE DEF t0
<1>5. Fields \subseteq DOMAIN t0
  BY <1>4 DEF Seating, Fields
<1>6. Aside(t0, t1)
  BY <1>5, PostAntesAside
<1> HIDE DEF t1
<1>7. Fields \subseteq DOMAIN t1
  BY <1>5, <1>6 DEF Aside, SameSeats
<1>8. Contested(t0)
  <2>1. Funded(t1) \subseteq Seated(t1) /\ Seated(t1) = Seated(t0)
    BY <1>6 DEF Funded, Aside, SameSeats, Seated
  <2>2. Live(t0) = Seated(t0)
    BY <1>4 DEF Live
  <2>3. ASSUME \A p, q \in Funded(t1) : p = q PROVE FALSE
    <3>1. CASE Funded(t1) = {}
      BY <1>1, <3>1, FS_EmptySet
    <3>2. CASE Funded(t1) # {}
      <4>1. PICK x : Funded(t1) = {x}
        BY <2>3, <3>2
      <4>2. Cardinality(Funded(t1)) = 1
        BY <4>1, FS_Singleton
      <4>3. QED
        BY <1>1, <4>2
    <3>3. QED
      BY <3>1, <3>2
  <2>4. QED
    BY <2>1, <2>2, <2>3 DEF Contested
<1>9. HandLive(t0)
  BY <1>4 DEF HandLive, BetweenHandsPhases
<1>10. Seating(t0)
  <2>1. SeatCount(t0) = SeatCount(s)
    BY <1>4 DEF SeatCount
  <2>2. PointsAt(t0, t0.dealer)
    BY <1>2, <1>4, <2>1, SeatPoints
  <2>3. PointsAt(t0, t0.turn)
    BY <1>4, <2>1 DEF Seating, PointsAt
  <2>4. QED
    BY <1>4, <1>8, <2>1, <2>2, <2>3 DEF Seating
<1> HIDE DEF sb, bb
<1>11. Aside(t1, tS)
  BY <1>7, PostBlindAside
<1>12. Fields \subseteq DOMAIN tS
  BY <1>7, <1>11 DEF Aside, SameSeats
<1> HIDE DEF tS
<1>13. Aside(tS, t2)
  BY <1>12, PostBlindAside
<1>14. Fields \subseteq DOMAIN t2
  BY <1>12, <1>13 DEF Aside, SameSeats
<1> HIDE DEF t2
<1>15. Aside(t0, t2)
  BY <1>6, <1>11, <1>13, AsideChains
<1>16. Aside(t2, tT)
  BY <1>14, PostBlindAside
<1>17. Aside(t0, tT)
  BY <1>15, <1>16, AsideChains
<1> HIDE DEF tT
<1>18. ASSUME NEW w, Aside(t0, w), NEW k \in Int, r = [w EXCEPT !.straddler = k]
       PROVE  Seating(r) /\ r.seats = s.seats /\ HandLive(r) /\ r.straddler = k
  <2>1. Seating(w) /\ HandLive(w) /\ Contested(w)
    BY <1>8, <1>9, <1>10, <1>18, AsideKeeps
  <2>2. /\ DOMAIN r = DOMAIN w /\ r.seats = w.seats /\ r.dealer = w.dealer
        /\ r.straddler = k /\ r.phase = w.phase /\ r.folded = w.folded
        /\ r.turn = w.turn
    BY <1>18, <2>1 DEF Seating
  <2>3. SeatCount(r) = SeatCount(w) /\ Live(r) = Live(w)
    BY <2>2 DEF SeatCount, Live, Seated
  <2>4. PointsAt(r, r.turn) /\ PointsAt(r, r.dealer)
    BY <2>1, <2>2, <2>3 DEF Seating, PointsAt
  <2>5. Seating(r)
    BY <2>1, <2>2, <2>3, <2>4 DEF Seating, Contested
  <2>6. HandLive(r) /\ r.seats = s.seats
    BY <1>4, <1>18, <2>1, <2>2 DEF HandLive, Aside, SameSeats
  <2>7. QED
    BY <2>2, <2>5, <2>6
<1>19. CASE st = NoSeat
  BY <1>1, <1>15, <1>18, <1>19 DEF NoSeat
<1>20. CASE st # NoSeat
  <2>1. st \in 0 .. SeatCount(s) - 1
    <3>1. SeatCount(t1) = SeatCount(s) /\ t1.dealer = t0.dealer /\ t1.seats = s.seats
      BY <1>4, <1>6 DEF Aside, SameSeats, SeatCount
    <3>2. SeatCount(t1) \in Nat \ {0} /\ t1.dealer \in 0 .. SeatCount(t1) - 1
      <4>1. SeatCount(s) \in Nat
        BY <1>2 DEF SeatCount
      <4>2. QED
        BY <1>4, <3>1, <4>1
    <3>3. Funded(t1) # {}
      BY <1>1, FS_EmptySet
    <3>4. sb \in 0 .. SeatCount(t1) - 1
      <4>1. t1.dealer \in Int /\ t1.seats \in Seq(Players)
        BY <1>2, <3>1, <3>2
      <4>2. NextActiveSeat(t1, t1.dealer) \in 0 .. SeatCount(t1) - 1
        BY <3>3, <4>1, NextActiveIsSeat
      <4>3. QED
        BY <3>2, <4>2 DEF sb
    <3>5. bb \in 0 .. SeatCount(t1) - 1
      <4>1. sb \in Int
        BY <3>2, <3>4
      <4>2. QED
        BY <1>2, <3>1, <3>3, <4>1, NextActiveIsSeat DEF bb
    <3> HIDE DEF st
    <3>6. st \in Int /\ st >= NoSeat
      BY <3>2, <3>5, StraddleSeatInt DEF st
    <3>7. QED
      BY <1>1, <1>20, <3>1, <3>2, <3>6 DEF NoSeat
  <2>2. QED
    BY <1>1, <1>17, <1>18, <1>20, <2>1
<1>21. QED
  BY <1>19, <1>20

-----------------------------------------------------------------------------
(* Settling and refunding leave everybody in her seat. *)
LEMMA SettledSeats ==
  ASSUME NEW s, Seating(s), NEW r, SameSeats(s, r)
  PROVE  Seating(Settled(r)) /\ SameSeats(s, Settled(r)) /\ Settled(r).phase = "Settlement"
<1> DEFINE q == Settled(r)
<1>1. /\ DOMAIN q = DOMAIN r /\ q.seats = r.seats /\ q.dealer = r.dealer
      /\ q.straddler = r.straddler /\ q.turn = r.turn /\ q.phase = "Settlement"
  BY DEF Settled, SameSeats, Seating
<1> HIDE DEF q
<1>2. SameSeats(s, q) /\ ~ HandLive(q)
  BY <1>1 DEF SameSeats, HandLive, BetweenHandsPhases
<1>3. QED
  BY <1>1, <1>2, SameSeatsKeep DEF q

LEMMA SettleFoldWinSeats ==
  ASSUME NEW s, Seating(s)
  PROVE  /\ Seating(SettleFoldWin(s)) /\ SameSeats(s, SettleFoldWin(s))
         /\ SettleFoldWin(s).phase = "Settlement"
<1> DEFINE winner == CHOOSE p \in Live(s) : TRUE
           rake   == (s.pot * RakeBps) \div 10000
           d      == [Credit(s, winner, s.pot - rake) EXCEPT !.rake = @ + rake]
<1>1. SameSeats(s, d)
  BY DEF Credit, SameSeats, Seating
<1> HIDE DEF d
<1>2. QED
  BY <1>1, SettledSeats DEF SettleFoldWin, d

LEMMA SettleShowdownSeats ==
  ASSUME NEW s, Seating(s), NEW best, NEW loser, NEW trig,
         NEW r, r \in SettleShowdown(s, best, loser, trig)
  PROVE  Seating(r) /\ SameSeats(s, r) /\ r.phase = "Settlement"
<1> DEFINE pots  == CalculateSidePots(s)
           net   == ApplyRake(pots, RakeBps)
           split == SplitJackpotRake(TotalRake(pots, RakeBps), JackpotShareBps)
           extra == IF trig THEN (split.house * VarianceShareBps) \div 10000 ELSE 0
           paid  == [s EXCEPT
                  !.sidePots = PotTotal(net),
                  !.rake     = @ + split.house - extra,
                  !.jackpot  = @ + split.jackpot + extra,
                  !.stack    = [p \in Players |-> @[p] + PayoutTo(s, net, best, p)]]
           rich  == PayBadBeat(paid, FirstSeat(s, best), loser)
<1>1. SameSeats(s, paid)
  BY DEF SameSeats, Seating
<1> HIDE DEF paid
<1>2. SameSeats(s, rich)
  BY <1>1 DEF PayBadBeat, SameSeats, Seating
<1>3. r = Settled(rich)
  BY DEF SettleShowdown, paid
<1> HIDE DEF rich
<1>4. QED
  BY <1>2, <1>3, SettledSeats

LEMMA RefundedSeats ==
  ASSUME NEW s, Seating(s)
  PROVE  /\ Seating(Refunded(s)) /\ SameSeats(s, Refunded(s)) /\ ~ HandLive(Refunded(s))
         /\ Seating(Cancelled(s)) /\ SameSeats(s, Cancelled(s))
         /\ ~ HandLive(Cancelled(s))
<1> DEFINE r == Refunded(s)
           c == Cancelled(s)
<1>1. SameSeats(s, r) /\ r.phase = "Settlement"
  BY DEF Refunded, Settled, SameSeats, Seating
<1>2. SameSeats(s, c) /\ c.phase = "Settlement"
  <2> HIDE DEF r
  <2>1. QED
    BY <1>1 DEF Cancelled, SameSeats, Seating, r
<1>3. ~ HandLive(r) /\ ~ HandLive(c)
  BY <1>1, <1>2 DEF HandLive, BetweenHandsPhases
<1>4. QED
  BY <1>1, <1>2, <1>3, SameSeatsKeep

-----------------------------------------------------------------------------
(* The end of a round never settles a contested hand. *)
LEMMA AdvanceToNextPhaseSeats ==
  ASSUME NEW s, Seating(s), s.phase \in BettingPhases
  PROVE  /\ Seating(AdvanceToNextPhase(s)) /\ SameSeats(s, AdvanceToNextPhase(s))
         /\ HandLive(AdvanceToNextPhase(s))
<1> DEFINE r == AdvanceToNextPhase(s)
<1>1. HandLive(s) /\ Contested(s)
  BY DEF Seating, HandLive, BettingPhases, BetweenHandsPhases
<1>2. r = [s EXCEPT !.idle = 0, !.deadline = NoDeadline,
                    !.phase = IF RunItTwiceOffered(s) THEN "AwaitingRunItTwice"
                              ELSE NextPhase[@]]
  BY <1>1, ContestedSeats DEF AdvanceToNextPhase
<1>3. /\ SameSeats(s, r) /\ r.folded = s.folded
      /\ r.phase = IF RunItTwiceOffered(s) THEN "AwaitingRunItTwice"
                   ELSE NextPhase[s.phase]
  BY <1>2 DEF SameSeats, Seating
<1>4. HandLive(r)
  BY <1>3 DEF HandLive, NextPhase, BettingPhases, BetweenHandsPhases
<1>5. QED
  BY <1>1, <1>3, <1>4, SameSeatsKeep

LEMMA AdvanceTurnSeats ==
  ASSUME NEW s, Seating(s), s.phase \in BettingPhases, NEW m
  PROVE  /\ Seating(AdvanceTurn(s, m)) /\ HandLive(AdvanceTurn(s, m))
         /\ AdvanceTurn(s, m).seats = s.seats
<1>1. HandLive(s) /\ Contested(s)
  BY DEF Seating, HandLive, BettingPhases, BetweenHandsPhases
<1>2. CASE \A p \in CanAct(s) : s.bet[p] = m
  BY <1>2, AdvanceToNextPhaseSeats DEF AdvanceTurn, SameSeats
<1>3. CASE ~ \A p \in CanAct(s) : s.bet[p] = m
  <2> DEFINE k == Clockwise(s, SeatAfter(s, s.turn), CanAct(s))
             r == [s EXCEPT !.turn = k]
  <2>1. PICK p \in CanAct(s) : TRUE
    BY <1>3
  <2>2. p \in Seated(s) \cap CanAct(s)
    BY DEF CanAct, Live
  <2>3. SeatAfter(s, s.turn) \in 0 .. SeatCount(s) - 1
    BY <1>1, ContestedSeats, SeatAfterIsSeat
  <2>4. k \in 0 .. SeatCount(s) - 1
    BY <2>2, <2>3, ClockwiseIsSeat DEF Seating
  <2> HIDE DEF k
  <2>5. Seating(r) /\ r.seats = s.seats /\ r.phase = s.phase
    BY <2>4, TurnedKeeps DEF Seating
  <2>6. AdvanceTurn(s, m) = r
    BY <1>3 DEF AdvanceTurn, k, Seating
  <2>7. QED
    BY <1>1, <2>5, <2>6 DEF HandLive
<1>4. QED
  BY <1>2, <1>3

LEMMA ActedSeats ==
  ASSUME NEW s, NEW acted, Seating(acted), acted.phase \in BettingPhases,
         acted.seats = s.seats, NEW p
  PROVE  /\ Seating(Acted(s, acted, p)) /\ HandLive(Acted(s, acted, p))
         /\ Acted(s, acted, p).seats = s.seats
<1> DEFINE a == [acted EXCEPT !.idle = 0, !.deadline = Timeout]
<1>1. Aside(acted, a)
  BY MarkedAside DEF Seating, Fields
<1>2. Seating(a) /\ a.phase \in BettingPhases /\ a.seats = s.seats
  BY <1>1, AsideKeeps DEF Aside, SameSeats
<1> HIDE DEF a
<1>3. QED
  BY <1>2, AdvanceTurnSeats DEF Acted, a

(* Whoever folds leaves a contender behind; with two of them the hand goes on. *)
LEMMA FoldedContested ==
  ASSUME NEW s, Seating(s), Contested(s), NEW p \in Live(s),
         NEW f, f = [s EXCEPT !.folded = @ \cup {p}], Cardinality(Live(f)) # 1
  PROVE  Seating(f) /\ Contested(f)
<1>1. /\ SameSeats(s, f) /\ f.phase = s.phase /\ f.folded = s.folded \cup {p}
  BY DEF SameSeats, Seating
<1>2. Live(f) = Live(s) \ {p}
  BY <1>1 DEF SameSeats, Live, Seated
<1>3. PICK q \in Live(f) : TRUE
  BY <1>2 DEF Contested
<1>4. \E x \in Live(f) : x # q
  <2>1. ASSUME Live(f) = {q} PROVE FALSE
    BY <2>1, FS_Singleton
  <2>2. QED
    BY <2>1
<1>5. Contested(f)
  BY <1>4 DEF Contested
<1>6. SeatCount(f) = SeatCount(s)
  BY <1>1 DEF SameSeats, SeatCount
<1>7. QED
  BY <1>1, <1>5, <1>6 DEF Seating, SameSeats, PointsAt

LEMMA BettingSeats ==
  ASSUME NEW s, Seating(s), NEW p, MayAct(s, p), NEW a, NEW r,
         r \in Fold(s, p) \cup Check(s, p) \cup Call(s, p) \cup AllIn(s, p)
                 \cup Bet(s, p, a) \cup Raise(s, p, a)
  PROVE  /\ Seating(r) /\ r.seats = s.seats
         /\ HandLive(r) \/ r.phase = "Settlement"
<1>1. s.phase \in BettingPhases /\ HandLive(s) /\ Contested(s) /\ p \in Live(s)
  BY DEF MayAct, Live, Seating, HandLive, BettingPhases, BetweenHandsPhases
<1>2. ASSUME NEW w, Aside(s, w)
      PROVE  /\ Seating(Acted(s, w, p)) /\ HandLive(Acted(s, w, p))
             /\ Acted(s, w, p).seats = s.seats
  <2>1. Seating(w) /\ w.phase \in BettingPhases /\ w.seats = s.seats
    BY <1>1, <1>2, AsideKeeps DEF Aside, SameSeats
  <2>2. QED
    BY <2>1, ActedSeats
<1>3. Fields \subseteq DOMAIN s
  BY DEF Seating, Fields
<1>4. CASE r \in Fold(s, p)
  <2> DEFINE f == [s EXCEPT !.folded = @ \cup {p}]
  <2>1. SameSeats(s, f) /\ f.phase = s.phase /\ f.seats = s.seats
    BY DEF SameSeats, Seating
  <2>2. CASE Cardinality(Live(f)) = 1
    <3> DEFINE winner == CHOOSE q \in Live(f) : TRUE
               rake == (f.pot * RakeBps) \div 10000
               d == [Credit(f, winner, f.pot - rake) EXCEPT !.rake = @ + rake]
    <3>1. r = Settled(d)
      BY <1>4, <2>2 DEF Fold, SettleFoldWin
    <3> HIDE DEF f
    <3>2. SameSeats(s, d)
      BY <2>1 DEF Credit, SameSeats, Seating
    <3> HIDE DEF d
    <3>3. QED
      BY <3>1, <3>2, SettledSeats DEF SameSeats
  <2>3. CASE Cardinality(Live(f)) # 1
    <3>1. r = Acted(s, f, p)
      BY <1>4, <2>3 DEF Fold
    <3>2. Seating(f)
      BY <1>1, <2>3, FoldedContested
    <3> HIDE DEF f
    <3>3. QED
      BY <1>1, <2>1, <3>1, <3>2, ActedSeats
  <2>4. QED
    BY <2>2, <2>3
<1>5. CASE r \in Check(s, p)
  <2>1. Aside(s, s)
    BY DEF Aside, SameSeats
  <2>2. QED
    BY <1>2, <1>5, <2>1 DEF Check
<1> DEFINE toCall == CurrentBet(s) - s.bet[p]
<1>6. CASE r \in Call(s, p)
  <2> DEFINE w == Wagered(s, p, Min({toCall, s.stack[p]}))
  <2>1. r = Acted(s, w, p)
    BY <1>6 DEF Call
  <2>2. Aside(s, w)
    BY <1>3, WageredAside
  <2> HIDE DEF w
  <2>3. QED
    BY <1>2, <2>1, <2>2
<1>7. CASE r \in AllIn(s, p)
  <2> DEFINE w == [PutIn(s, p, s.stack[p]) EXCEPT !.allIn = @ \cup {p}]
  <2>1. r = Acted(s, w, p)
    BY <1>7 DEF AllIn
  <2>2. Aside(s, w)
    BY <1>3, WageredAside
  <2> HIDE DEF w
  <2>3. QED
    BY <1>2, <2>1, <2>2
<1>8. CASE r \in Bet(s, p, a)
  <2> DEFINE w == [Wagered(s, p, a) EXCEPT !.lastRaise = a]
  <2>1. r = Acted(s, w, p)
    BY <1>8 DEF Bet
  <2>2. Aside(s, w)
    BY <1>3, WageredAside
  <2> HIDE DEF w
  <2>3. QED
    BY <1>2, <2>1, <2>2
<1>9. CASE r \in Raise(s, p, a)
  <2> DEFINE w == [Wagered(s, p, toCall + a) EXCEPT !.lastRaise = a]
  <2>1. r = Acted(s, w, p)
    BY <1>9 DEF Raise
  <2>2. Aside(s, w)
    BY <1>3, WageredAside
  <2> HIDE DEF w
  <2>3. QED
    BY <1>2, <2>1, <2>2
<1>10. QED
  BY <1>4, <1>5, <1>6, <1>7, <1>8, <1>9

LEMMA FoldStallingSeats ==
  ASSUME NEW s, Seating(s), MayTimeOut(s), NEW d
  PROVE  /\ Seating(FoldStalling(s, d)) /\ FoldStalling(s, d).seats = s.seats
         /\ HandLive(FoldStalling(s, d)) \/ FoldStalling(s, d).phase = "Settlement"
<1> DEFINE p == At(s, s.turn)
           f == [s EXCEPT !.folded = @ \cup {p}]
           open == Live(f) \ f.allIn
           next == SeatAfter(s, s.turn)
           k == IF open = {} THEN next ELSE Clockwise(s, next, open)
           r == [f EXCEPT !.turn = k, !.idle = 0, !.deadline = d]
<1>1. HandLive(s) /\ Contested(s)
  BY DEF MayTimeOut, Seating, HandLive, BettingPhases, BetweenHandsPhases
<1>2. SeatCount(s) \in Nat /\ SeatCount(s) >= 2 /\ s.turn \in 0 .. SeatCount(s) - 1
  BY <1>1, ContestedSeats
<1>3. p \in Live(s)
  <2>1. s.turn + 1 \in DOMAIN s.seats
    BY <1>2 DEF SeatCount, Seating
  <2>2. p \in Seated(s)
    BY <2>1 DEF At, Seated, Range
  <2>3. QED
    BY <2>2 DEF MayTimeOut, Live
<1>4. SameSeats(s, f) /\ f.seats = s.seats /\ f.phase = s.phase
  BY DEF SameSeats, Seating
<1>5. CASE Cardinality(Live(f)) = 1
  <2>1. FoldStalling(s, d) = SettleFoldWin(f)
    BY <1>5 DEF FoldStalling
  <2> DEFINE winner == CHOOSE q \in Live(f) : TRUE
             rake == (f.pot * RakeBps) \div 10000
             c == [Credit(f, winner, f.pot - rake) EXCEPT !.rake = @ + rake]
  <2>2. SettleFoldWin(f) = Settled(c)
    BY DEF SettleFoldWin
  <2> HIDE DEF f
  <2>3. SameSeats(s, c)
    BY <1>4 DEF Credit, SameSeats, Seating
  <2> HIDE DEF c
  <2>4. QED
    BY <2>1, <2>2, <2>3, SettledSeats DEF SameSeats
<1>6. CASE Cardinality(Live(f)) # 1
  <2>1. Seating(f)
    BY <1>1, <1>3, <1>6, FoldedContested
  <2>2. FoldStalling(s, d) = r
    BY <1>6 DEF FoldStalling
  <2>3. next \in 0 .. SeatCount(s) - 1
    BY <1>2, SeatAfterIsSeat
  <2>4. open \subseteq Seated(s)
    BY <1>4 DEF Live, Seated
  <2> HIDE DEF f, next, open
  <2>5. k \in 0 .. SeatCount(s) - 1
    <3>1. CASE open = {}
      BY <2>3, <3>1
    <3>2. CASE open # {}
      <4>1. PICK q \in open : TRUE
        BY <3>2
      <4>2. q \in Seated(s) \cap open
        BY <2>4
      <4>3. QED
        BY <2>3, <3>2, <4>2, ClockwiseIsSeat DEF Seating
    <3>3. QED
      BY <3>1, <3>2
  <2> HIDE DEF k
  <2> DEFINE g == [f EXCEPT !.turn = k]
  <2>6. Seating(g)
    BY <1>4, <2>1, <2>5, TurnedKeeps DEF SeatCount
  <2>7. r = [g EXCEPT !.idle = 0, !.deadline = d] /\ g.seats = s.seats
    BY <1>4, <2>1 DEF Seating
  <2> HIDE DEF g, r
  <2>8. Aside(g, [g EXCEPT !.idle = 0, !.deadline = d])
    BY <2>6, MarkedAside DEF Seating, Fields
  <2>9. Seating(r) /\ r.seats = g.seats /\ HandLive(r)
    <3>1. g.phase = s.phase
      BY <1>4, <2>1 DEF g, Seating
    <3>2. HandLive(g)
      BY <1>1, <3>1 DEF HandLive
    <3>3. QED
      BY <2>6, <2>7, <2>8, <3>2, AsideKeeps DEF Aside, SameSeats
  <2>10. QED
    BY <2>2, <2>7, <2>9
<1>7. QED
  BY <1>5, <1>6

LEMMA ResetRoundSeats ==
  ASSUME NEW s, Seating(s), s.phase \in BettingPhases
  PROVE  /\ Seating(ResetRound(s)) /\ HandLive(ResetRound(s))
         /\ ResetRound(s).seats = s.seats
<1> DEFINE b == IF Structure.kind = "FixedLimit" THEN FixedBet(s) ELSE BigBlind
           fresh == [s EXCEPT !.bet = NoChips, !.lastRaise = b]
           k == Clockwise(s, SeatAfter(s, s.dealer), CanAct(s))
<1>1. HandLive(s) /\ Contested(s)
  BY DEF Seating, HandLive, BettingPhases, BetweenHandsPhases
<1>2. Aside(s, fresh)
  BY DEF Aside, SameSeats, Seating
<1>3. ResetRound(s) = IF CanAct(s) = {} THEN AdvanceToNextPhase(fresh)
                      ELSE [fresh EXCEPT !.turn = k]
  BY DEF ResetRound
<1> HIDE DEF fresh
<1>4. /\ Seating(fresh) /\ HandLive(fresh) /\ fresh.phase \in BettingPhases
      /\ fresh.seats = s.seats
  BY <1>1, <1>2, AsideKeeps DEF Aside, SameSeats
<1>5. CASE CanAct(s) = {}
  BY <1>3, <1>4, <1>5, AdvanceToNextPhaseSeats DEF SameSeats
<1>6. CASE CanAct(s) # {}
  <2>1. PICK p \in CanAct(s) : TRUE
    BY <1>6
  <2>2. p \in Seated(s) \cap CanAct(s)
    BY DEF CanAct, Live
  <2>3. SeatAfter(s, s.dealer) \in 0 .. SeatCount(s) - 1
    BY <1>1, ContestedSeats, SeatAfterIsSeat
  <2>4. k \in 0 .. SeatCount(s) - 1
    BY <2>2, <2>3, ClockwiseIsSeat DEF Seating
  <2> HIDE DEF k
  <2>5. Seating([fresh EXCEPT !.turn = k])
    BY <1>4, <2>4, TurnedKeeps DEF SeatCount
  <2>6. HandLive([fresh EXCEPT !.turn = k]) /\ [fresh EXCEPT !.turn = k].seats = s.seats
    BY <1>4 DEF HandLive, Seating
  <2>7. QED
    BY <1>3, <1>6, <2>5, <2>6
<1>7. QED
  BY <1>5, <1>6

-----------------------------------------------------------------------------
(* Sitting down and leaving. *)

(* What is left of a sequence when its i-th element is taken out. *)
LEMMA RemoveAtElements ==
  ASSUME NEW S, NEW q \in Seq(S), NEW i \in 1 .. Len(q)
  PROVE  /\ RemoveAt(q, i) \in Seq(S) /\ Len(RemoveAt(q, i)) = Len(q) - 1
         /\ \A j \in 1 .. Len(q) - 1 :
              RemoveAt(q, i)[j] = IF j < i THEN q[j] ELSE q[j + 1]
<1> DEFINE a == SubSeq(q, 1, i - 1)
           b == SubSeq(q, i + 1, Len(q))
<1>1. Len(q) \in Nat
  OBVIOUS
<1>2. /\ a \in Seq(S) /\ Len(a) = i - 1 /\ \A j \in 1 .. i - 1 : a[j] = q[j]
  <2>1. \A j \in 1 .. i - 1 : q[j] \in S
    OBVIOUS
  <2>2. /\ a \in Seq(S) /\ Len(a) = (IF 1 <= i - 1 THEN (i - 1) - 1 + 1 ELSE 0)
        /\ \A j \in 1 .. (i - 1) - 1 + 1 : a[j] = q[1 + j - 1]
    BY <2>1, SubSeqProperties
  <2> HIDE DEF a
  <2>3. QED
    BY <1>1, <2>2
<1>3. /\ b \in Seq(S) /\ Len(b) = Len(q) - i
      /\ \A j \in 1 .. Len(q) - i : b[j] = q[i + j]
  <2>1. \A j \in i + 1 .. Len(q) : q[j] \in S
    OBVIOUS
  <2>2. /\ b \in Seq(S)
        /\ Len(b) = (IF i + 1 <= Len(q) THEN Len(q) - (i + 1) + 1 ELSE 0)
        /\ \A j \in 1 .. Len(q) - (i + 1) + 1 : b[j] = q[(i + 1) + j - 1]
    BY <1>1, <2>1, SubSeqProperties
  <2> HIDE DEF b
  <2>3. QED
    BY <1>1, <2>2
<1>4. RemoveAt(q, i) = a \o b
  BY DEF RemoveAt
<1> HIDE DEF a, b
<1>5. /\ a \o b \in Seq(S) /\ Len(a \o b) = Len(a) + Len(b)
      /\ \A j \in 1 .. Len(a) + Len(b) :
           (a \o b)[j] = IF j <= Len(a) THEN a[j] ELSE b[j - Len(a)]
  BY <1>2, <1>3, ConcatProperties
<1>6. Len(a) + Len(b) = Len(q) - 1
  BY <1>1, <1>2, <1>3
<1>7. ASSUME NEW j \in 1 .. Len(q) - 1
      PROVE  (a \o b)[j] = IF j < i THEN q[j] ELSE q[j + 1]
  <2>1. (a \o b)[j] = IF j <= i - 1 THEN a[j] ELSE b[j - (i - 1)]
    BY <1>2, <1>5, <1>6
  <2>2. CASE j < i
    BY <1>2, <2>1, <2>2
  <2>3. CASE ~ (j < i)
    <3>1. j - (i - 1) \in 1 .. Len(q) - i
      BY <1>1, <2>3
    <3>2. b[j - (i - 1)] = q[i + (j - (i - 1))]
      BY <1>3, <3>1
    <3>3. i + (j - (i - 1)) = j + 1
      OBVIOUS
    <3>4. QED
      BY <2>1, <2>3, <3>2, <3>3
  <2>4. QED
    BY <2>2, <2>3
<1>8. QED
  BY <1>4, <1>5, <1>6, <1>7

LEMMA VacatedSeats ==
  ASSUME NEW s, Seating(s), ~ HandLive(s), NEW p \in Seated(s)
  PROVE  /\ Seating(Vacated(s, p)) /\ SeatCount(Vacated(s, p)) = SeatCount(s) - 1
         /\ Seated(Vacated(s, p)) = Seated(s) \ {p} /\ ~ HandLive(Vacated(s, p))
<1> DEFINE r == Vacated(s, p)
           n == SeatCount(s) - 1
           i == SeatOf(s, p)
           seats == RemoveAt(s.seats, i)
           dealer == IF n = 0 THEN 0 ELSE s.dealer % n
           turn == IF n = 0 THEN 0 ELSE s.turn % n
<1>1. s.seats \in Seq(Players) /\ s.dealer \in Nat /\ s.turn \in Nat
      /\ SeatCount(s) = Len(s.seats) /\ Len(s.seats) \in Nat
  BY DEF Seating, PointsAt, SeatCount
<1>2. i \in 1 .. Len(s.seats) /\ s.seats[i] = p
  <2>1. \E j \in DOMAIN s.seats : s.seats[j] = p
    BY DEF Seated, Range
  <2>2. QED
    BY <1>1, <2>1, SeatOfInRange DEF SeatOf
<1>3. /\ r.seats = seats /\ r.dealer = dealer /\ r.turn = turn
      /\ r.straddler = s.straddler /\ r.phase = s.phase /\ DOMAIN r = DOMAIN s
  BY DEF Vacated, Seating
<1> HIDE DEF r, dealer, turn, i
<1>4. /\ seats \in Seq(Players) /\ Len(seats) = n
      /\ \A j \in 1 .. n : seats[j] = IF j < i THEN s.seats[j] ELSE s.seats[j + 1]
  BY <1>1, <1>2, RemoveAtElements
<1> HIDE DEF seats
<1>5. DOMAIN seats = 1 .. n /\ n \in Nat /\ DOMAIN s.seats = 1 .. n + 1
  BY <1>1, <1>2, <1>4
<1>6. \A j, k \in 1 .. n + 1 : s.seats[j] = s.seats[k] => j = k
  BY <1>5 DEF Seating, IsInjective
<1> DEFINE was(j) == IF j < i THEN j ELSE j + 1
<1>6a. i \in 1 .. n + 1
  BY <1>1, <1>2
<1> HIDE DEF n
<1>6b. ASSUME NEW j \in 1 .. n
      PROVE  was(j) \in 1 .. n + 1 /\ was(j) # i /\ seats[j] = s.seats[was(j)]
  BY <1>4, <1>5, <1>6a
<1>7. IsInjective(seats)
  <2>1. ASSUME NEW j \in 1 .. n, NEW k \in 1 .. n, seats[j] = seats[k] PROVE j = k
    <3>1. was(j) = was(k)
      BY <1>6b, <1>6, <2>1
    <3>2. QED
      BY <1>5, <1>6a, <3>1
  <2>2. QED
    BY <1>5, <2>1 DEF IsInjective
<1>8. Seated(r) = Seated(s) \ {p}
  <2>1. ASSUME NEW x \in Seated(r) PROVE x \in Seated(s) \ {p}
    <3>1. PICK j \in 1 .. n : seats[j] = x
      BY <1>3, <1>5 DEF Seated, Range
    <3>2. PICK k \in 1 .. n + 1 : s.seats[k] = x /\ k # i
      BY <1>6b, <3>1
    <3>3. x # p
      BY <1>2, <1>6a, <1>6, <3>2
    <3>4. QED
      BY <1>5, <3>2, <3>3 DEF Seated, Range
  <2>2. ASSUME NEW x \in Seated(s) \ {p} PROVE x \in Seated(r)
    <3>1. PICK k \in 1 .. n + 1 : s.seats[k] = x
      BY <1>5 DEF Seated, Range
    <3>2. k # i
      BY <1>2, <3>1
    <3>3. \E j \in 1 .. n : seats[j] = x
      <4>1. CASE k < i
        <5>1. k \in 1 .. n
          BY <1>1, <1>2, <1>5, <4>1 DEF n
        <5>2. QED
          BY <1>4, <3>1, <4>1, <5>1
      <4>2. CASE k > i
        <5>1. k - 1 \in 1 .. n /\ ~ (k - 1 < i) /\ (k - 1) + 1 = k
          BY <1>2, <1>5, <4>2
        <5>2. QED
          BY <1>4, <3>1, <5>1
      <4>3. QED
        BY <1>2, <1>5, <3>2, <4>1, <4>2
    <3>4. QED
      BY <1>3, <1>5, <3>3 DEF Seated, Range
  <2>3. QED
    BY <2>1, <2>2
<1>9. SeatCount(r) = n
  BY <1>3, <1>4 DEF SeatCount
<1>10. dealer \in Nat /\ turn \in Nat /\ PointsAt(r, dealer) /\ PointsAt(r, turn)
  <2>1. CASE n = 0
    BY <1>3, <1>4, <2>1, SeatPoints DEF dealer, turn
  <2>2. CASE n > 0
    <3>1. s.dealer % n \in 0 .. n - 1 /\ s.turn % n \in 0 .. n - 1
      BY <1>1, <1>5, <2>2
    <3>2. dealer \in 0 .. n - 1 /\ turn \in 0 .. n - 1
      BY <2>2, <3>1 DEF dealer, turn
    <3>3. QED
      BY <1>3, <1>4, <1>5, <1>9, <3>2, SeatPoints
  <2>3. QED
    BY <1>5, <2>1, <2>2
<1>11. SeatCount(r) <= MaxPlayers
  BY <1>1, <1>5, <1>9, TableAssumption DEF Seating, n
<1>12. ~ HandLive(r)
  BY <1>3 DEF HandLive
<1>13. Seating(r)
  BY <1>3, <1>4, <1>7, <1>10, <1>11, <1>12 DEF Seating
<1>14. QED
  BY <1>8, <1>9, <1>12, <1>13 DEF r, n

LEMMA SatDownSeats ==
  ASSUME NEW s, Seating(s), ~ HandLive(s), SeatCount(s) < MaxPlayers,
         NEW p \in Players, p \notin Seated(s), NEW c
  PROVE  /\ Seating(SatDown(s, p, c)) /\ SeatCount(SatDown(s, p, c)) = SeatCount(s) + 1
         /\ Seated(SatDown(s, p, c)) = Seated(s) \cup {p} /\ ~ HandLive(SatDown(s, p, c))
<1> DEFINE r == SatDown(s, p, c)
           n == SeatCount(s)
           seats == Append(s.seats, p)
<1>1. s.seats \in Seq(Players) /\ n \in Nat /\ n = Len(s.seats)
      /\ DOMAIN s.seats = 1 .. n
  BY DEF Seating, SeatCount
<1>2. /\ r.seats = seats /\ r.dealer = s.dealer /\ r.turn = s.turn
      /\ r.straddler = s.straddler /\ r.phase = s.phase /\ DOMAIN r = DOMAIN s
  BY DEF SatDown, Seating
<1>3. /\ seats \in Seq(Players) /\ Len(seats) = n + 1
      /\ \A j \in 1 .. n : seats[j] = s.seats[j]
      /\ seats[n + 1] = p
  BY <1>1, AppendProperties
<1> HIDE DEF r, seats, n
<1>4. DOMAIN seats = 1 .. n + 1
  BY <1>3
<1>5. \A j \in 1 .. n : s.seats[j] # p
  BY <1>1 DEF Seated, Range
<1>6. IsInjective(seats)
  <2>1. \A j, k \in 1 .. n : s.seats[j] = s.seats[k] => j = k
    BY <1>1 DEF Seating, IsInjective
  <2>2. ASSUME NEW j \in 1 .. n + 1, NEW k \in 1 .. n + 1, seats[j] = seats[k]
        PROVE  j = k
    BY <1>1, <1>3, <1>5, <2>1, <2>2
  <2>3. QED
    BY <1>4, <2>2 DEF IsInjective
<1>7. Seated(r) = Seated(s) \cup {p}
  <2>1. ASSUME NEW x \in Seated(r) PROVE x \in Seated(s) \cup {p}
    BY <1>1, <1>2, <1>3, <1>4, <2>1 DEF Seated, Range
  <2>2. ASSUME NEW x \in Seated(s) \cup {p} PROVE x \in Seated(r)
    <3>1. \E j \in 1 .. n + 1 : seats[j] = x
      <4>1. CASE x = p
        BY <1>1, <1>3, <4>1
      <4>2. CASE x \in Seated(s)
        <5>1. PICK j \in 1 .. n : s.seats[j] = x
          BY <1>1, <4>2 DEF Seated, Range
        <5>2. QED
          BY <1>1, <1>3, <5>1
      <4>3. QED
        BY <2>2, <4>1, <4>2
    <3>2. QED
      BY <1>2, <1>4, <3>1 DEF Seated, Range
  <2>3. QED
    BY <2>1, <2>2
<1>8. SeatCount(r) = n + 1
  BY <1>2, <1>3 DEF SeatCount
<1>9. PointsAt(r, r.dealer) /\ PointsAt(r, r.turn)
  <2>1. ASSUME NEW k, PointsAt(s, k) PROVE PointsAt(r, k)
    <3>1. k \in Nat /\ k < Max({1, n})
      BY <2>1 DEF PointsAt, n
    <3>2. Max({1, n}) = (IF n >= 1 THEN n ELSE 1) /\ Max({1, n + 1}) = n + 1
      BY <1>1, MaxWithOne
    <3>3. QED
      BY <1>1, <1>8, <3>1, <3>2 DEF PointsAt
  <2>2. QED
    BY <1>2, <2>1 DEF Seating
<1>10. SeatCount(r) <= MaxPlayers
  BY <1>1, <1>8, TableAssumption DEF n
<1>11. ~ HandLive(r)
  BY <1>2 DEF HandLive
<1>12. Seating(r)
  BY <1>2, <1>3, <1>6, <1>9, <1>10, <1>11 DEF Seating
<1>13. QED
  BY <1>7, <1>8, <1>11, <1>12 DEF r, n

-----------------------------------------------------------------------------
(* The inductive invariant. *)
WaitsOnce(q) == \A i, j \in DOMAIN q : q[i].player = q[j].player => i = j

SeatsInv ==
  /\ Seating(t)
  /\ WaitsOnce(queue) /\ Queued \cap Seated(t) = {}
  /\ queue # <<>> => SeatCount(t) = MaxPlayers
  /\ index \subseteq Seated(t)
  /\ wallet \in [Players -> Int]

LEMMA SeatsInvInit == Init => SeatsInv
<1> SUFFICES ASSUME Init PROVE SeatsInv
  OBVIOUS
<1>1. /\ t.seats = <<>> /\ t.dealer = 0 /\ t.turn = 0 /\ t.straddler = NoSeat
      /\ t.phase = "Waiting" /\ Fields \subseteq DOMAIN t
  BY DEF Init, EmptyTable, Fields
<1>2. t.seats \in Seq(Players) /\ SeatCount(t) = 0 /\ IsInjective(t.seats)
  BY <1>1 DEF SeatCount, IsInjective
<1>3. PointsAt(t, 0)
  BY <1>2, SeatPoints
<1>4. ~ HandLive(t)
  BY <1>1 DEF HandLive, BetweenHandsPhases
<1>5. Seating(t)
  BY <1>1, <1>2, <1>3, <1>4, TableAssumption DEF Seating, Fields, NoSeat
<1>6. queue = <<>> /\ Queued = {} /\ WaitsOnce(queue)
  BY DEF Init, Queued, WaitsOnce
<1>7. wallet \in [Players -> Int]
  BY TableAssumption DEF Init
<1>8. QED
  BY <1>5, <1>6, <1>7 DEF Init, SeatsInv

(* What waits in a queue that lost an entry waited before. *)
LEMMA ShorterQueue ==
  ASSUME NEW q \in Seq(Entries), WaitsOnce(q), NEW k \in 1 .. Len(q),
         NEW r, r = RemoveAt(q, k)
  PROVE  /\ WaitsOnce(r) /\ r \in Seq(Entries)
         /\ \A i \in DOMAIN r : \E j \in DOMAIN q : r[i] = q[j] /\ j # k
<1> DEFINE was(i) == IF i < k THEN i ELSE i + 1
<1>1. /\ r \in Seq(Entries) /\ Len(r) = Len(q) - 1
      /\ \A i \in 1 .. Len(q) - 1 : r[i] = q[was(i)]
  BY RemoveAtElements
<1>2. DOMAIN r = 1 .. Len(q) - 1 /\ DOMAIN q = 1 .. Len(q) /\ Len(q) \in Nat
  BY <1>1
<1>3. \A i \in DOMAIN r : was(i) \in DOMAIN q /\ was(i) # k
  BY <1>2
<1>4. ASSUME NEW i \in DOMAIN r, NEW j \in DOMAIN r, r[i].player = r[j].player
      PROVE  i = j
  <2>1. was(i) = was(j)
    BY <1>1, <1>2, <1>3, <1>4 DEF WaitsOnce
  <2>2. QED
    BY <1>2, <2>1
<1>5. QED
  BY <1>1, <1>2, <1>3, <1>4 DEF WaitsOnce

(* The tail is what is left when the first leaves. *)
LEMMA TailOfQueue ==
  ASSUME NEW q \in Seq(Entries), WaitsOnce(q), q # <<>>
  PROVE  /\ WaitsOnce(Tail(q))
         /\ \A i \in DOMAIN Tail(q) : \E j \in DOMAIN q : Tail(q)[i] = q[j] /\ j # 1
<1>1. /\ Tail(q) \in Seq(Entries) /\ Len(Tail(q)) = Len(q) - 1
      /\ \A i \in 1 .. Len(Tail(q)) : Tail(q)[i] = q[i + 1]
  BY HeadTailProperties
<1>2. /\ DOMAIN Tail(q) = 1 .. Len(q) - 1 /\ DOMAIN q = 1 .. Len(q)
      /\ Len(q) \in Nat
  BY <1>1
<1>3. \A i \in DOMAIN Tail(q) : i + 1 \in DOMAIN q /\ i + 1 # 1
  BY <1>2
<1>4. ASSUME NEW i \in DOMAIN Tail(q), NEW j \in DOMAIN Tail(q),
             Tail(q)[i].player = Tail(q)[j].player
      PROVE  i = j
  <2>1. i + 1 = j + 1
    BY <1>1, <1>2, <1>3, <1>4 DEF WaitsOnce
  <2>2. QED
    BY <1>2, <2>1
<1>5. QED
  BY <1>1, <1>2, <1>3, <1>4 DEF WaitsOnce

(* Steps that move nobody. *)
NobodyMoves ==
  Seating(t)' /\ t'.seats = t.seats /\ UNCHANGED <<queue, index>>
    /\ wallet' \in [Players -> Int]

LEMMA NobodyMovesKeeps == ASSUME SeatsInv, NobodyMoves PROVE SeatsInv'
<1>1. Seated(t)' = Seated(t) /\ SeatCount(t)' = SeatCount(t)
  BY DEF NobodyMoves, Seated, SeatCount
<1>2. QED
  BY <1>1 DEF NobodyMoves, SeatsInv, Queued

LEMMA QueuedChipsInt ==
  ASSUME NEW q \in Seq(Entries), NEW p \in Players PROVE QueuedChips(q)[p] \in Int
<1>1. CASE \E i \in DOMAIN q : q[i].player = p
  <2>1. QueuePosition(q, p) \in DOMAIN q
    BY <1>1 DEF QueuePosition
  <2>2. q[QueuePosition(q, p)] \in Entries
    BY <2>1
  <2>3. QED
    BY <1>1, <2>2 DEF QueuedChips, Entries
<1>2. CASE ~ \E i \in DOMAIN q : q[i].player = p
  BY <1>2 DEF QueuedChips
<1>3. QED
  BY <1>1, <1>2

(* Nobody is served before her turn. *)
ServedInOrder ==
  \A i \in DOMAIN queue :
    queue[i].player \in Seated(t') =>
      \A j \in 1 .. i - 1 : ~ \E k \in DOMAIN queue' :
                                queue'[k].player = queue[j].player

LEMMA SeatingStep ==
  ASSUME PotInv, SeatsInv, SeatNext
  PROVE  SeatsInv' /\ ServedInOrder /\ (HandLive(t) => HandLive(t)')
<1>0. /\ Seating(t) /\ queue \in Seq(Entries) /\ wallet \in [Players -> Int]
      /\ t.stack \in [Players -> Int] /\ DOMAIN queue = 1 .. Len(queue)
      /\ Len(queue) \in Nat /\ BuyIns \subseteq Int
      /\ Queued \cap Seated(t) = {} /\ SeatCount(t) \in Nat
  BY TableAssumption DEF SeatsInv, PotInv, Sound, IsLedger, Seating, SeatCount
<1>1. ASSUME Seated(t') \subseteq Seated(t) PROVE ServedInOrder
  BY <1>0, <1>1 DEF ServedInOrder, Queued
<1>2. ASSUME NEW p \in Players, NEW c \in BuyIns, JoinTable(p, c)
      PROVE  SeatsInv' /\ ServedInOrder /\ ~ HandLive(t)
  <2>1. /\ p \notin Seated(t) /\ ~ HandLive(t) /\ SeatCount(t) < MaxPlayers
        /\ t' = SatDown(t, p, c) /\ index' = index \cup {p} /\ queue' = queue
        /\ wallet' = [wallet EXCEPT ![p] = @ - c]
    BY <1>2 DEF JoinTable, MayJoin, HandLive, BetweenHandsPhases, Charge
  <2>2. Seating(t)' /\ Seated(t)' = Seated(t) \cup {p}
    BY <1>0, <2>1, SatDownSeats
  <2>3. queue = <<>>
    BY <2>1, TableAssumption DEF SeatsInv
  <2>4. Queued' = {} /\ DOMAIN queue = {}
    BY <2>1, <2>3 DEF Queued
  <2>5. wallet' \in [Players -> Int]
    BY <1>0, <2>1
  <2>6. SeatsInv'
    BY <2>1, <2>2, <2>3, <2>4, <2>5 DEF SeatsInv
  <2>7. QED
    BY <2>1, <2>4, <2>6 DEF ServedInOrder
<1>3. ASSUME NEW p \in Players, NEW c \in BuyIns, JoinQueue(p, c)
      PROVE  SeatsInv' /\ ServedInOrder /\ ~ HandLive(t)
  <2> DEFINE e == [player |-> p, buyIn |-> c]
  <2>1. /\ p \notin Seated(t) /\ p \notin Queued /\ t' = t /\ index' = index
        /\ SeatCount(t) >= MaxPlayers /\ queue' = Append(queue, e)
        /\ wallet' = [wallet EXCEPT ![p] = @ - c] /\ ~ HandLive(t)
    BY <1>3 DEF JoinQueue, MayJoin, Charge, handVars, HandLive, BetweenHandsPhases
  <2>2. e \in Entries /\ e.player = p
    BY <1>0 DEF Entries
  <2> HIDE DEF e
  <2>3. /\ queue' \in Seq(Entries) /\ Len(queue') = Len(queue) + 1
        /\ \A i \in 1 .. Len(queue) : queue'[i] = queue[i]
        /\ queue'[Len(queue) + 1] = e
    BY <1>0, <2>1, <2>2, AppendProperties
  <2>4. DOMAIN queue' = 1 .. Len(queue) + 1
    BY <2>3
  <2>5. \A i \in 1 .. Len(queue) : queue[i].player # p
    BY <1>0, <2>1 DEF Queued
  <2>6. \A i \in DOMAIN queue' : IF i = Len(queue) + 1 THEN queue'[i].player = p
                                 ELSE i \in DOMAIN queue /\ queue'[i] = queue[i]
    BY <1>0, <2>2, <2>3, <2>4
  <2>7. WaitsOnce(queue')
    BY <1>0, <2>5, <2>6 DEF SeatsInv, WaitsOnce
  <2>8. Queued' \subseteq Queued \cup {p}
    BY <2>6 DEF Queued
  <2>9. SeatCount(t) = MaxPlayers
    BY <1>0, <2>1, TableAssumption DEF Seating
  <2>10. wallet' \in [Players -> Int]
    BY <1>0, <2>1
  <2>11. SeatsInv'
    BY <1>0, <2>1, <2>7, <2>8, <2>9, <2>10 DEF SeatsInv
  <2>12. QED
    BY <1>1, <2>1, <2>11
<1>4. ASSUME NEW p \in Players, NEW c \in BuyIns, Rebuy(p, c)
      PROVE  SeatsInv' /\ ServedInOrder /\ ~ HandLive(t)
  <2>1. /\ t' = Credit(t, p, c) /\ queue' = queue /\ index' = index /\ ~ HandLive(t)
        /\ wallet' = [wallet EXCEPT ![p] = @ - c]
    BY <1>4 DEF Rebuy, Charge
  <2>2. Aside(t, t')
    BY <1>0, <2>1 DEF Credit, Aside, SameSeats, Seating
  <2>3. NobodyMoves
    <3>1. Seating(t') /\ t'.seats = t.seats
      BY <1>0, <2>2, AsideKeeps DEF Aside, SameSeats
    <3>2. wallet' \in [Players -> Int]
      BY <1>0, <2>1
    <3>3. QED
      BY <2>1, <3>1, <3>2 DEF NobodyMoves
  <2>4. QED
    BY <1>1, <2>1, <2>3, NobodyMovesKeeps DEF NobodyMoves, Seated
<1>5. ASSUME NEW p \in Players, LeaveTable(p)
      PROVE  SeatsInv' /\ ServedInOrder /\ ~ HandLive(t)
  <2> DEFINE left == Vacated(t, p)
             next == Head(queue)
  <2>1. /\ ~ HandLive(t) /\ p \in Seated(t) /\ index' = index \ {p}
        /\ wallet' = [wallet EXCEPT ![p] = @ + t.stack[p]]
    BY <1>5 DEF LeaveTable, Pay
  <2>2. wallet' \in [Players -> Int]
    BY <1>0, <2>1
  <2>3. /\ Seating(left) /\ SeatCount(left) = SeatCount(t) - 1
        /\ Seated(left) = Seated(t) \ {p} /\ ~ HandLive(left)
    BY <1>0, <2>1, VacatedSeats
  <2>4. SeatCount(left) < MaxPlayers
    BY <1>0, <2>3, TableAssumption DEF Seating
  <2>5. CASE queue = <<>>
    <3>1. t' = left /\ queue' = queue
      BY <1>5, <2>5 DEF LeaveTable, SeatNextFromQueue
    <3> HIDE DEF left
    <3>2. SeatsInv'
      BY <2>1, <2>2, <2>3, <2>5, <3>1 DEF SeatsInv, Queued
    <3>3. QED
      BY <1>1, <2>1, <2>3, <3>1, <3>2
  <2>6. CASE queue # <<>>
    <3> HIDE DEF left
    <3>0. ~ (queue = <<>> \/ SeatCount(left) >= MaxPlayers)
      BY <1>0, <2>3, <2>4, <2>6, TableAssumption
    <3>1. t' = SatDown(left, next.player, next.buyIn) /\ queue' = Tail(queue)
      BY <1>5, <3>0 DEF LeaveTable, SeatNextFromQueue, left
    <3>2. next = queue[1] /\ 1 \in DOMAIN queue /\ next \in Entries
      BY <1>0, <2>6
    <3>3. next.player \in Players /\ next.player \in Queued
      BY <3>2 DEF Entries, Queued
    <3>4. next.player \notin Seated(left)
      BY <1>0, <2>3, <3>3
    <3>5. /\ Seating(t)' /\ Seated(t)' = Seated(left) \cup {next.player}
          /\ SeatCount(t)' = SeatCount(left) + 1
      BY <2>3, <2>4, <3>1, <3>3, <3>4, SatDownSeats
    <3>6. /\ WaitsOnce(queue')
          /\ \A i \in DOMAIN queue' : \E j \in DOMAIN queue :
                                         queue'[i] = queue[j] /\ j # 1
      BY <1>0, <2>6, <3>1, TailOfQueue DEF SeatsInv
    <3>7. Queued' \subseteq Queued \ {next.player}
      BY <3>2, <3>6 DEF Queued, SeatsInv, WaitsOnce
    <3>8. SeatCount(t)' = MaxPlayers
      BY <1>0, <2>3, <2>6, <3>5 DEF SeatsInv
    <3>9. Queued' \cap Seated(t)' = {} /\ index' \subseteq Seated(t)'
      BY <1>0, <2>1, <2>3, <3>5, <3>7 DEF SeatsInv
    <3>10. SeatsInv'
      BY <2>2, <3>5, <3>6, <3>8, <3>9 DEF SeatsInv
    <3>11. ASSUME NEW i \in DOMAIN queue, queue[i].player \in Seated(t') PROVE i = 1
      <4>1. queue[i].player \in Queued
        BY DEF Queued
      <4>2. queue[i].player = queue[1].player
        BY <1>0, <2>3, <3>2, <3>5, <3>11, <4>1
      <4>3. QED
        BY <3>2, <4>2 DEF SeatsInv, WaitsOnce
    <3>12. ServedInOrder
      BY <3>11 DEF ServedInOrder
    <3>13. QED
      BY <2>1, <3>10, <3>12
  <2>7. QED
    BY <2>5, <2>6
<1>6. ASSUME NEW p \in Players, LeaveQueue(p)
      PROVE  SeatsInv' /\ ServedInOrder /\ t' = t
  <2> DEFINE k == QueuePosition(queue, p)
  <2>1. /\ queue' = RemoveAt(queue, k) /\ t' = t /\ index' = index /\ p \in Queued
        /\ wallet' = [wallet EXCEPT ![p] = @ + QueuedChips(queue)[p]]
    BY <1>6 DEF LeaveQueue, Pay, handVars
  <2>2. k \in 1 .. Len(queue)
    BY <1>0, <2>1 DEF QueuePosition, Queued
  <2> HIDE DEF k
  <2>3. /\ WaitsOnce(queue')
        /\ \A i \in DOMAIN queue' : \E j \in DOMAIN queue :
                                       queue'[i] = queue[j] /\ j # k
    <3>1. WaitsOnce(queue)
      BY DEF SeatsInv
    <3>2. queue \in Seq(Entries)
      BY <1>0
    <3>3. queue' = RemoveAt(queue, k)
      BY <2>1
    <3>4. QED
      BY <2>2, <3>1, <3>2, <3>3, ShorterQueue
  <2>4. Queued' \subseteq Queued
    BY <2>3 DEF Queued
  <2>5. wallet' \in [Players -> Int]
    BY <1>0, <2>1, QueuedChipsInt
  <2>6. queue # <<>>
    BY <2>1 DEF Queued
  <2>7. SeatsInv'
    BY <2>1, <2>3, <2>4, <2>5, <2>6 DEF SeatsInv
  <2>8. QED
    BY <1>1, <2>1, <2>7
<1>7. QED
  BY <1>2, <1>3, <1>4, <1>5, <1>6 DEF SeatNext

-----------------------------------------------------------------------------
(* The hand, the clock and the admin move nobody; and while settlement is paused
   they end no hand. *)
Quiet ==
  /\ NobodyMoves /\ wallet' = wallet
  /\ HandLive(t) /\ ~ HandLive(t)' => "settlement" \notin pauses

LEMMA QuietIf ==
  ASSUME SeatsInv, Seating(t)', t'.seats = t.seats, UNCHANGED <<queue, index, wallet>>,
         HandLive(t) /\ ~ HandLive(t)' => "settlement" \notin pauses
  PROVE  Quiet
  BY DEF Quiet, NobodyMoves, SeatsInv

LEMMA StartIsQuiet == ASSUME PotInv, SeatsInv, StartHand PROVE Quiet
<1>1. t' \in StartNewHand(t, pending.seat) /\ UNCHANGED <<queue, index, wallet>>
  BY DEF StartHand, moneyVars, seatVars
<1>2. Seating(t)' /\ t'.seats = t.seats /\ HandLive(t)'
  BY <1>1, StartNewHandSeats DEF PotInv, SeatsInv
<1>3. QED
  BY <1>1, <1>2, QuietIf

LEMMA OutcomeIsQuiet ==
  ASSUME SeatsInv, NEW rs, Outcome(rs), Seating(t)', t'.seats = t.seats, HandFrame,
         HandLive(t)' \/ t'.phase = "Settlement"
  PROVE  Quiet
<1>1. UNCHANGED <<queue, index, wallet>>
  BY DEF HandFrame, moneyVars, seatVars
<1>2. HandLive(t) /\ ~ HandLive(t)' => "settlement" \notin pauses
  BY DEF Outcome
<1>3. QED
  BY <1>1, <1>2, QuietIf

LEMMA BettingIsQuiet == ASSUME SeatsInv, BettingNext PROVE Quiet
<1>1. PICK p \in Players :
         \/ PlayerFolds(p) \/ PlayerChecks(p) \/ PlayerCalls(p)
         \/ PlayerBets(p) \/ PlayerRaises(p) \/ PlayerAllIn(p)
  BY DEF BettingNext
<1>2. PICK a, rs : /\ MayAct(t, p) /\ Outcome(rs) /\ HandFrame
                   /\ t' \in Fold(t, p) \cup Check(t, p) \cup Call(t, p) \cup AllIn(t, p)
                               \cup Bet(t, p, a) \cup Raise(t, p, a)
  <2>1. CASE PlayerFolds(p) \/ PlayerChecks(p) \/ PlayerCalls(p) \/ PlayerAllIn(p)
    BY <2>1 DEF PlayerFolds, PlayerChecks, PlayerCalls, PlayerAllIn, PlayerAction, Outcome
  <2>2. CASE PlayerBets(p)
    <3>1. PICK a \in BetSizes : PlayerAction(p, Bet(t, p, a))
      BY <2>2 DEF PlayerBets
    <3>2. QED
      BY <3>1 DEF PlayerAction, Outcome
  <2>3. CASE PlayerRaises(p)
    <3>1. PICK a \in BetSizes : PlayerAction(p, Raise(t, p, a))
      BY <2>3 DEF PlayerRaises
    <3>2. QED
      BY <3>1 DEF PlayerAction, Outcome
  <2>4. QED
    BY <1>1, <2>1, <2>2, <2>3
<1>3. Seating(t)' /\ t'.seats = t.seats /\ (HandLive(t)' \/ t'.phase = "Settlement")
  BY <1>2, BettingSeats DEF SeatsInv
<1>4. QED
  BY <1>2, <1>3, OutcomeIsQuiet

LEMMA CommitteeIsQuiet ==
  ASSUME PotInv, SeatsInv, CommitteeNext \/ RunItTwiceNext PROVE Quiet
<1>0. Seating(t)
  BY DEF SeatsInv
<1>1. CASE CommitDeal
  <2> DEFINE k == IF t.straddler # NoSeat THEN SeatAfter(t, t.straddler)
                  ELSE (t.dealer + 3) % SeatCount(t)
             r == [t EXCEPT !.phase = "Preflop", !.idle = 0, !.deadline = Timeout]
  <2>1. t' = [t EXCEPT !.phase = "Preflop", !.idle = 0, !.deadline = Timeout, !.turn = k]
        /\ t.phase = "Dealing" /\ UNCHANGED <<queue, index, wallet>>
    BY <1>1 DEF CommitDeal, HandFrame, moneyVars, seatVars
  <2>2. HandLive(t) /\ Contested(t)
    BY <1>0, <2>1 DEF HandLive, BetweenHandsPhases, Seating
  <2>3. k \in 0 .. SeatCount(t) - 1
    <3>1. /\ SeatCount(t) \in Nat /\ SeatCount(t) >= 2 /\ t.dealer \in Int
          /\ t.straddler \in Int
      BY <1>0, <2>2, ContestedSeats DEF Seating
    <3>2. QED
      BY <3>1, SeatAfterIsSeat
  <2> HIDE DEF k
  <2>4. SameSeats(t, r) /\ r.folded = t.folded /\ r.phase = "Preflop"
    BY <1>0 DEF SameSeats, Seating
  <2>5. Seating(r) /\ r.seats = t.seats
    BY <1>0, <2>2, <2>4, SameSeatsKeep DEF SameSeats
  <2>6. t' = [r EXCEPT !.turn = k]
    BY <2>1
  <2> HIDE DEF r
  <2>7. Seating(t)' /\ t'.seats = t.seats /\ t'.phase = "Preflop"
    <3>1. Seating([r EXCEPT !.turn = k])
      BY <2>3, <2>5, TurnedKeeps DEF SeatCount
    <3>2. QED
      BY <2>4, <2>5, <2>6, <3>1 DEF Seating
  <2>8. QED
    BY <2>1, <2>7, QuietIf DEF HandLive, BetweenHandsPhases
<1>2. CASE RevealBoard
  <2> DEFINE r == [t EXCEPT !.board = @ + CardsDealt(t), !.phase = Street[@], !.idle = 0]
  <2>1. /\ t' = ResetRound(r) /\ t.phase \in DealingPhases
        /\ UNCHANGED <<queue, index, wallet>>
    BY <1>2 DEF RevealBoard, HandFrame, moneyVars, seatVars
  <2>2. /\ SameSeats(t, r) /\ r.folded = t.folded /\ r.phase = Street[t.phase]
        /\ r.seats = t.seats
    BY <1>0 DEF SameSeats, Seating
  <2> HIDE DEF r
  <2>3. HandLive(t)
    BY <2>1 DEF HandLive, DealingPhases, BetweenHandsPhases
  <2>4. Seating(r) /\ r.phase \in BettingPhases
    BY <1>0, <2>1, <2>2, <2>3, SameSeatsKeep DEF Street, DealingPhases, BettingPhases
  <2>5. Seating(t)' /\ HandLive(t)' /\ t'.seats = t.seats
    BY <2>1, <2>2, <2>4, ResetRoundSeats
  <2>6. QED
    BY <2>1, <2>5, QuietIf
<1>3. CASE SubmitShowdown
  <2>1. PICK best, loser, triggered :
           Outcome(SettleShowdown(t, best, loser, triggered)) /\ HandFrame
    BY <1>3 DEF SubmitShowdown
  <2>2. t' \in SettleShowdown(t, best, loser, triggered)
    BY <2>1 DEF Outcome
  <2>3. Seating(t)' /\ t'.seats = t.seats /\ t'.phase = "Settlement"
    BY <1>0, <2>2, SettleShowdownSeats DEF SameSeats
  <2>4. QED
    BY <2>1, <2>3, OutcomeIsQuiet
<1>4. ASSUME NEW p \in Players, DeclineRunItTwice(p) PROVE Quiet
  <2>1. /\ SameSeats(t, t') /\ t'.folded = t.folded /\ t'.phase = ResumedPhase(t.board)
        /\ t.phase = "AwaitingRunItTwice" /\ UNCHANGED <<queue, index, wallet>>
    BY <1>0, <1>4 DEF DeclineRunItTwice, MayDecideRunItTwice, SameSeats, Seating,
                      HandFrame, moneyVars, seatVars
  <2>2. HandLive(t) /\ HandLive(t)'
    BY <2>1 DEF ResumedPhase, HandLive, BetweenHandsPhases
  <2>3. Seating(t)' /\ t'.seats = t.seats
    BY <1>0, <2>1, <2>2, SameSeatsKeep DEF SameSeats
  <2>4. QED
    BY <2>1, <2>2, <2>3, QuietIf
<1>5. ASSUME NEW p \in Players, OptInRunItTwice(p) PROVE Quiet
  <2>1. Aside(t, t') /\ UNCHANGED <<queue, index, wallet>>
    BY <1>0, <1>5 DEF OptInRunItTwice, Aside, SameSeats, Seating,
                      HandFrame, moneyVars, seatVars
  <2>2. QED
    BY <1>0, <2>1, AsideKeeps, QuietIf DEF Aside, SameSeats
<1>6. QED
  BY <1>1, <1>2, <1>3, <1>4, <1>5 DEF CommitteeNext, RunItTwiceNext

LEMMA TimeoutIsQuiet == ASSUME SeatsInv, TimeoutNext PROVE Quiet
<1>1. PICK rs, d : /\ Outcome(rs) /\ HandFrame /\ MayTimeOut(t)
                   /\ t' = FoldStalling(t, d)
  BY DEF TimeoutNext, ClaimTimeout, ForceFoldBy, Outcome, ProcessTimeout, ForceFold
<1>2. /\ Seating(t)' /\ t'.seats = t.seats
      /\ HandLive(t)' \/ t'.phase = "Settlement"
  BY <1>1, FoldStallingSeats DEF SeatsInv
<1>3. QED
  BY <1>1, <1>2, OutcomeIsQuiet

LEMMA OthersAreQuiet ==
  ASSUME PotInv, SeatsInv,
         \/ StraddleNext \/ RakeNext \/ GuardNext \/ ProposeClosure
         \/ SweepDeadChips \/ Tick \/ UNCHANGED vars
  PROVE  Quiet
<1>0. Seating(t) /\ Fields \subseteq DOMAIN t
  BY DEF SeatsInv, Seating, Fields
<1>1. ASSUME Aside(t, t'), UNCHANGED <<queue, index, wallet>> PROVE Quiet
  BY <1>0, <1>1, AsideKeeps, QuietIf DEF Aside, SameSeats
<1>2. ASSUME UNCHANGED <<t, queue, index, wallet>> PROVE Quiet
  BY <1>1, <1>2 DEF Aside, SameSeats
<1>3. CASE StraddleNext
  BY <1>2, <1>3 DEF StraddleNext, PostStraddle, CancelStraddle, moneyVars, seatVars
<1>4. CASE GuardNext
  BY <1>2, <1>4 DEF GuardNext, Pause, Unpause, Ban, Unban, handVars, moneyVars, seatVars
<1>5. CASE ProposeClosure
  BY <1>2, <1>5 DEF ProposeClosure, handVars, moneyVars, seatVars
<1>6. CASE UNCHANGED vars
  BY <1>2, <1>6 DEF vars, handVars, moneyVars, seatVars
<1>7. CASE WithdrawRake
  <2>1. Aside(t, t')
    BY <1>0, <1>7 DEF WithdrawRake, Aside, SameSeats, Fields
  <2>2. QED
    BY <1>1, <1>7, <2>1 DEF WithdrawRake, seatVars
<1>8. ASSUME NEW p \in Players, ClaimJackpot(p) PROVE Quiet
  <2>1. Aside(t, t')
    BY <1>0, <1>8 DEF ClaimJackpot, Credit, Aside, SameSeats, Fields
  <2>2. QED
    BY <1>1, <1>8, <2>1 DEF ClaimJackpot, moneyVars, seatVars
<1>9. CASE SweepDeadChips
  <2>1. Aside(t, t')
    BY <1>0, <1>9 DEF SweepDeadChips, Aside, SameSeats, Fields
  <2>2. QED
    BY <1>1, <1>9, <2>1 DEF SweepDeadChips, seatVars
<1>10. CASE Tick
  <2>1. Aside(t, t')
    BY <1>0, <1>10 DEF Tick, Aside, SameSeats, Fields
  <2>2. QED
    BY <1>1, <1>10, <2>1 DEF Tick, moneyVars, seatVars
<1>11. QED
  BY <1>3, <1>4, <1>5, <1>6, <1>7, <1>8, <1>9, <1>10 DEF RakeNext

-----------------------------------------------------------------------------
(* Refunds, and the end of the table. *)
Refunding == RefundEverybody(Refunded(t)) \/ RefundEverybody(Cancelled(t))

LEMMA RefundingMovesNobody ==
  ASSUME PotInv, SeatsInv, Refunding PROVE NobodyMoves
<1>1. Seating(t) /\ wallet \in [Players -> Int]
  BY DEF SeatsInv
<1>2. Seating(t)' /\ t'.seats = t.seats
  BY <1>1, RefundedSeats DEF Refunding, RefundEverybody, SameSeats
<1>3. \A p \in Players : RefundTo(t, p) \in Int
  BY DEF PotInv, Sound, IsLedger, RefundTo
<1>4. wallet' \in [Players -> Int]
  BY <1>1, <1>3 DEF Refunding, RefundEverybody
<1>5. QED
  BY <1>2, <1>4 DEF NobodyMoves, Refunding, RefundEverybody, seatVars

LEMMA RecoveryRefunds ==
  ASSUME PotInv, SeatsInv, RecoveryNext \/ ExecuteClosure PROVE Quiet \/ Refunding
<1>1. ASSUME NEW p \in Players, ApproveEmergency(p) PROVE Quiet \/ Refunding
  <2>1. CASE 2 * Cardinality(approvals \cup {p}) > SeatCount(t)
    BY <1>1, <2>1 DEF ApproveEmergency, Refunding
  <2>2. CASE ~ (2 * Cardinality(approvals \cup {p}) > SeatCount(t))
    <3>1. UNCHANGED <<t, queue, index, wallet>>
      BY <1>1, <2>2 DEF ApproveEmergency, handVars, moneyVars, seatVars
    <3>2. Seating(t)' /\ (HandLive(t)' <=> HandLive(t))
      BY <3>1 DEF SeatsInv
    <3>3. QED
      BY <3>1, <3>2, QuietIf
  <2>3. QED
    BY <2>1, <2>2
<1>2. QED
  BY <1>1 DEF RecoveryNext, CancelHand, AdminEmergency, ExecuteClosure, Refunding

LEMMA SunsetStep ==
  ASSUME PotInv, SeatsInv, FinalizeSunset
  PROVE  SeatsInv' /\ ServedInOrder /\ ~ HandLive(t)
<1>1. /\ t'.seats = <<>> /\ t'.dealer = 0 /\ t'.turn = 0 /\ t'.phase = t.phase
      /\ t'.straddler = t.straddler /\ DOMAIN t' = DOMAIN t /\ ~ HandLive(t)
      /\ queue' = <<>> /\ index' = index \ Seated(t)
  BY DEF FinalizeSunset, MaySunset, SeatsInv, Seating
<1>2. t'.seats \in Seq(Players) /\ SeatCount(t') = 0 /\ IsInjective(t'.seats)
  BY <1>1 DEF SeatCount, IsInjective
<1>3. PointsAt(t', 0)
  BY <1>2, SeatPoints
<1>4. Seating(t)'
  BY <1>1, <1>2, <1>3, TableAssumption DEF Seating, SeatsInv, HandLive
<1>5. Queued' = {} /\ WaitsOnce(queue') /\ index' = {}
  BY <1>1 DEF Queued, WaitsOnce, SeatsInv
<1>6. wallet' \in [Players -> Int]
  <2>1. \A p \in Players : QueuedChips(queue)[p] \in Int /\ wallet[p] \in Int
    BY QueuedChipsInt DEF PotInv, SeatsInv
  <2>2. wallet' = [p \in Players |-> wallet[p] + QueuedChips(queue)[p]]
    BY DEF FinalizeSunset
  <2>3. QED
    BY <2>1, <2>2
<1>7. SeatsInv'
  BY <1>1, <1>4, <1>5, <1>6 DEF SeatsInv
<1>8. Seated(t') = {}
  BY <1>1 DEF Seated, Range
<1>9. QED
  BY <1>1, <1>7, <1>8 DEF ServedInOrder

-----------------------------------------------------------------------------
(* Every step is one of these. *)
LEMMA StepKinds ==
  ASSUME PotInv, SeatsInv, [Next]_vars
  PROVE  SeatNext \/ FinalizeSunset \/ Refunding \/ Quiet
<1>1. CASE SeatNext
  BY <1>1
<1>2. CASE StartHand
  BY <1>2, StartIsQuiet
<1>3. CASE BettingNext
  BY <1>3, BettingIsQuiet
<1>4. CASE CommitteeNext \/ RunItTwiceNext
  BY <1>4, CommitteeIsQuiet
<1>5. CASE TimeoutNext
  BY <1>5, TimeoutIsQuiet
<1>6. CASE RecoveryNext
  BY <1>6, RecoveryRefunds
<1>7. CASE ClosingNext
  BY <1>7, RecoveryRefunds, OthersAreQuiet DEF ClosingNext
<1>8. CASE StraddleNext \/ RakeNext \/ GuardNext \/ Tick \/ UNCHANGED vars
  BY <1>8, OthersAreQuiet
<1>9. QED
  BY <1>1, <1>2, <1>3, <1>4, <1>5, <1>6, <1>7, <1>8 DEF Next

LEMMA SeatsInvStep == PotInv /\ SeatsInv /\ [Next]_vars => SeatsInv' /\ ServedInOrder
<1> SUFFICES ASSUME PotInv, SeatsInv, [Next]_vars PROVE SeatsInv' /\ ServedInOrder
  OBVIOUS
<1>1. ASSUME NobodyMoves PROVE SeatsInv' /\ ServedInOrder
  <2>1. SeatsInv'
    BY <1>1, NobodyMovesKeeps
  <2>2. Seated(t') = Seated(t)
    BY <1>1 DEF NobodyMoves, Seated
  <2>3. ServedInOrder
    BY <2>2 DEF ServedInOrder, SeatsInv, Queued
  <2>4. QED
    BY <2>1, <2>3
<1>2. CASE SeatNext
  BY <1>2, SeatingStep
<1>3. CASE FinalizeSunset
  BY <1>3, SunsetStep
<1>4. CASE Refunding
  BY <1>1, <1>4, RefundingMovesNobody
<1>5. CASE Quiet
  BY <1>1, <1>5 DEF Quiet
<1>6. QED
  BY <1>2, <1>3, <1>4, <1>5, StepKinds

LEMMA SeatsAlwaysInv == Spec => [](PotInv /\ SeatsInv)
<1>1. PotInv /\ SeatsInv /\ [Next]_vars => (PotInv /\ SeatsInv)'
  BY PotInvStep, SeatsInvStep
<1>2. QED
  BY <1>1, PotInvInit, SeatsInvInit, PTL DEF Spec

(* SeatsConsistent for every table: however joins, queueing, leaving, the freeing
   of seats and the renumbering that follows interleave with hands, nobody holds
   two places and the button and the turn stay inside the table. *)
THEOREM SeatsAlwaysConsistent == Spec => []SeatsConsistent
<1>1. SeatsInv => SeatsConsistent
  BY DEF SeatsInv, Seating, PointsAt, WaitsOnce, SeatsConsistent
<1>2. QED
  BY <1>1, SeatsAlwaysInv, PTL

(* QueueServed for every table: a free seat never goes unfilled while somebody
   waits, and whoever is seated was first in line. *)
THEOREM QueueAlwaysServed == Spec => QueueServed
<1>1. SeatsInv => (queue # <<>> => SeatCount(t) = MaxPlayers)
  BY DEF SeatsInv
<1>2. PotInv /\ SeatsInv /\ [Next]_vars => [ServedInOrder]_vars
  BY SeatsInvStep
<1>3. Spec => [][ServedInOrder]_vars
  BY <1>2, SeatsAlwaysInv, PTL DEF Spec
<1>4. QED
  BY <1>1, <1>3, SeatsAlwaysInv, PTL DEF QueueServed, ServedInOrder

-----------------------------------------------------------------------------
(* While settlement is paused a hand ends only by a refund: a settlement is an
   error then, and the one rule that settles without asking, the next street dealt
   to players who cannot bet, never meets a hand with a single contender. *)
PaysBack ==
  (HandLive(t) /\ ~ HandLive(t') /\ "settlement" \in pauses)
    => \A p \in Players : wallet'[p] = wallet[p] + t.stack[p] + t.committed[p]

LEMMA PausedStep == PotInv /\ SeatsInv /\ [Next]_vars => [PaysBack]_vars
<1> SUFFICES ASSUME PotInv, SeatsInv, [Next]_vars PROVE PaysBack
  OBVIOUS
<1>1. CASE SeatNext
  BY <1>1, SeatingStep DEF PaysBack, HandLive
<1>2. CASE FinalizeSunset
  BY <1>2, SunsetStep DEF PaysBack
<1>3. CASE Quiet
  BY <1>3 DEF Quiet, PaysBack, HandLive
<1>4. CASE Refunding
  <2>1. ASSUME HandLive(t), NEW p \in Players
        PROVE  wallet'[p] = wallet[p] + t.stack[p] + t.committed[p]
    <3>1. wallet'[p] = wallet[p] + (t.stack[p] + t.committed[p])
      BY <1>4, <2>1 DEF Refunding, RefundEverybody, RefundTo
    <3>2. wallet[p] \in Int /\ t.stack[p] \in Int /\ t.committed[p] \in Int
      BY DEF SeatsInv, PotInv, Sound, IsLedger
    <3>3. QED
      BY <3>1, <3>2
  <2>2. QED
    BY <2>1 DEF PaysBack
<1>5. QED
  BY <1>1, <1>2, <1>3, <1>4, StepKinds

(* PausedPotStays for every table. *)
THEOREM PausedPotAlwaysStays == Spec => PausedPotStays
<1>1. Spec => [][PaysBack]_vars
  BY PausedStep, SeatsAlwaysInv, PTL DEF Spec
<1>2. QED
  BY <1>1, PTL DEF PausedPotStays, PaysBack

(* A player at the table is paid during a hand only by a refund, and a refund
   leaves nothing behind that could be paid again. *)
LeavesNothing ==
  (\E p \in Players : wallet'[p] > wallet[p] /\ HandLive(t) /\ p \in Seated(t))
    => SumOver(t'.stack, Players) + t'.pot = 0 /\ ~ HandLive(t')

LEMMA RefundedOnceStep == PotInv /\ SeatsInv /\ [Next]_vars => [LeavesNothing]_vars
<1> SUFFICES ASSUME PotInv, SeatsInv, [Next]_vars PROVE LeavesNothing
  OBVIOUS
<1>0. wallet \in [Players -> Int]
  BY DEF SeatsInv
<1>1. ASSUME \A p \in Players : HandLive(t) /\ p \in Seated(t) => wallet'[p] = wallet[p]
      PROVE  LeavesNothing
  BY <1>0, <1>1 DEF LeavesNothing
<1>2. CASE SeatNext
  <2>1. CASE \E p \in Players : LeaveQueue(p)
    <3>1. PICK p \in Players : LeaveQueue(p)
      BY <2>1
    <3>2. p \notin Seated(t) /\ wallet' = [wallet EXCEPT ![p] = @ + QueuedChips(queue)[p]]
      BY <3>1 DEF LeaveQueue, Pay, SeatsInv
    <3>3. QED
      BY <1>0, <1>1, <3>2
  <2>2. CASE ~ \E p \in Players : LeaveQueue(p)
    <3>1. ~ HandLive(t)
      BY <1>2, <2>2 DEF SeatNext, JoinTable, JoinQueue, MayJoin, Rebuy, LeaveTable,
                        HandLive, BetweenHandsPhases
    <3>2. QED
      BY <1>1, <3>1
  <2>3. QED
    BY <2>1, <2>2
<1>3. CASE FinalizeSunset
  BY <1>1, <1>3, SunsetStep
<1>4. CASE Quiet
  BY <1>1, <1>4 DEF Quiet
<1>5. CASE Refunding
  <2>1. t'.stack = NoChips /\ t'.pot = 0 /\ t'.phase = "Settlement"
    <3>1. /\ Refunded(t).stack = NoChips /\ Refunded(t).pot = 0
          /\ Refunded(t).phase = "Settlement"
      BY DEF Refunded, Settled, PotInv, Sound, IsLedger
    <3>2. /\ Cancelled(t).stack = NoChips /\ Cancelled(t).pot = 0
          /\ Cancelled(t).phase = "Settlement"
      BY <3>1 DEF Cancelled
    <3>3. QED
      BY <1>5, <3>1, <3>2 DEF Refunding, RefundEverybody
  <2>2. SumOver(NoChips, Players) = 0
    <3>1. \A p \in Players : NoChips[p] = 0
      BY DEF NoChips
    <3>2. QED
      BY <3>1, TableAssumption, SumZero DEF SumOver
  <2>3. QED
    BY <2>1, <2>2 DEF LeavesNothing, HandLive, BetweenHandsPhases
<1>6. QED
  BY <1>2, <1>3, <1>4, <1>5, StepKinds

(* RefundedOnce for every table. *)
THEOREM RefundedOnlyOnce == Spec => RefundedOnce
<1>1. Spec => [][LeavesNothing]_vars
  BY RefundedOnceStep, SeatsAlwaysInv, PTL DEF Spec
<1>2. QED
  BY <1>1, PTL DEF RefundedOnce, LeavesNothing
=============================================================================
