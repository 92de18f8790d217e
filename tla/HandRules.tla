------------------------------ MODULE HandRules ------------------------------
(***************************************************************************)
(* The rules of one hand (game.rs, betting.rs, timeout.rs).                *)
(*                                                                         *)
(* A rule takes the table record t of the contract and returns the set of  *)
(* tables it may leave behind: {} when the code returns an error (the      *)
(* transaction is then rolled back), one table otherwise.                  *)
(*                                                                         *)
(* Seats are numbered from 0 as in the code: t.seats[k + 1] sits at seat k.*)
(* t.stack, t.bet and t.committed are defined for every player and are 0   *)
(* for those who have no seat.  The ledger clock is relative: t.idle counts*)
(* the ledgers since last_action_ledger and t.deadline those left until    *)
(* action_deadline.                                                        *)
(***************************************************************************)
EXTENDS Pots, SequencesExt

CONSTANTS
  Players,          \* every wallet that may sit down
  SmallBlind, BigBlind, Ante,
  Structure,        \* [kind |-> "NoLimit" | "PotLimit" | "FixedLimit",
                    \*  smallBet, bigBet |-> Nat]
  Straddle,         \* [multiplier, cap, seat |-> Nat, reraise |-> BOOLEAN,
                    \*  position |-> "BigBlind" | "Utg" | "Button"
                    \*               | "Mississippi" | "Custom"]
  RakeBps,          \* rake in basis points
  JackpotShareBps,  \* share of the rake that feeds the jackpot
  VarianceShareBps, \* share of the house rake that a variance trigger moves
  Timeout           \* ledgers a player has to act

ASSUME BlindsAssumption ==
  /\ SmallBlind \in Nat \ {0} /\ BigBlind \in Nat /\ BigBlind > SmallBlind
  /\ Ante \in Nat /\ Timeout \in Nat \ {0}
ASSUME StraddleAssumption ==
  /\ Straddle.multiplier \in Nat /\ Straddle.cap \in Nat /\ Straddle.seat \in Nat
  /\ Straddle.position \in {"BigBlind", "Utg", "Button", "Mississippi", "Custom"}
(* The contract does not check the bets of a fixed limit; a sensible table has no
   negative ones. *)
ASSUME StructureAssumption ==
  Structure.smallBet \in Nat /\ Structure.bigBet \in Nat
ASSUME SharesAssumption ==
  /\ RakeBps \in 0 .. 500
  /\ JackpotShareBps \in 0 .. 10000 /\ VarianceShareBps \in 0 .. 10000

NoDeadline == -1
NoSeat == -1
Nobody == "nobody"

BettingPhases == {"Preflop", "Flop", "Turn", "River"}
DealingPhases == {"DealingFlop", "DealingTurn", "DealingRiver"}
BetweenHandsPhases == {"Waiting", "Settlement"}
Phases == BettingPhases \cup DealingPhases \cup BetweenHandsPhases
            \cup {"Dealing", "AwaitingRunItTwice", "Showdown"}

HandLive(t) == t.phase \notin BetweenHandsPhases

NoChips == [p \in Players |-> 0]

-----------------------------------------------------------------------------
(* Seats. *)
SeatCount(t) == Len(t.seats)
At(t, k) == t.seats[k + 1]

(* The first seat at or after k, clockwise, that holds one of ps. *)
Clockwise(t, k, ps) ==
  (k + Min({i \in 0 .. SeatCount(t) - 1 :
              At(t, (k + i) % SeatCount(t)) \in ps})) % SeatCount(t)

SeatAfter(t, k) == (k + 1) % SeatCount(t)

Funded(t) == {p \in Seated(t) : t.stack[p] > 0}
NextActiveSeat(t, k) == Clockwise(t, SeatAfter(t, k), Funded(t))

(* Players who may still act in this betting round. *)
CanAct(t) == {p \in Live(t) \ t.allIn : t.stack[p] > 0}

CurrentBet(t) == Max({0} \cup {t.bet[p] : p \in Seated(t)})

PutIn(t, p, amount) ==
  [t EXCEPT !.stack[p] = @ - amount, !.bet[p] = @ + amount,
            !.committed[p] = @ + amount, !.pot = @ + amount]

-----------------------------------------------------------------------------
(* The start of a hand. *)

(* Mutant: the antes are not counted as committed. *)
PostAntes_Dead(t) ==
  LET anted(p) == IF p \in Funded(t) THEN Min({Ante, t.stack[p]}) ELSE 0
  IN  [t EXCEPT !.stack = [p \in Players |-> @[p] - anted(p)],
                !.pot   = @ + SumOver([p \in Players |-> anted(p)], Players),
                !.allIn = @ \cup {p \in Funded(t) : t.stack[p] < Ante}]

(* Every seated player with chips antes; only one who cannot afford the ante
   is marked all-in. *)
PostAntes(t) ==
  LET anted(p) == IF p \in Funded(t) THEN Min({Ante, t.stack[p]}) ELSE 0
  IN  [t EXCEPT !.stack     = [p \in Players |-> @[p] - anted(p)],
                !.committed = [p \in Players |-> @[p] + anted(p)],
                !.pot       = @ + SumOver([p \in Players |-> anted(p)], Players),
                !.allIn     = @ \cup {p \in Funded(t) : t.stack[p] < Ante}]

PostBlind(t, k, amount) ==
  LET p == At(t, k)
  IN  IF t.stack[p] < amount
      THEN [PutIn(t, p, t.stack[p]) EXCEPT !.allIn = @ \cup {p}]
      ELSE PutIn(t, p, amount)

(* StraddleConfig::effective_amount. *)
StraddleAmount ==
  LET raw == IF Straddle.position = "BigBlind"
             THEN BigBlind * Max({0, Straddle.multiplier - 1})
             ELSE BigBlind * Straddle.multiplier
  IN  IF Straddle.cap > 0 THEN Min({raw, Straddle.cap}) ELSE raw

(* The seat that straddles, or NoSeat; pending is the volunteer's seat or
   NoSeat. *)
StraddleSeat(t, bbSeat, pending) ==
  IF StraddleAmount = 0 THEN NoSeat
  ELSE CASE Straddle.position = "BigBlind"    -> bbSeat
         [] Straddle.position = "Utg"         -> (t.dealer + 3) % SeatCount(t)
         [] Straddle.position = "Button"      -> t.dealer
         [] Straddle.position = "Mississippi" -> IF pending = NoSeat THEN t.dealer
                                                 ELSE pending
         [] Straddle.position = "Custom"      ->
              IF Straddle.seat < SeatCount(t) THEN Straddle.seat ELSE NoSeat

StartNewHand(t0, pending) ==
  IF Funded(t0) = {} THEN {}
  ELSE
  LET t1 == PostAntes([t0 EXCEPT
              !.hand = @ + 1, !.dealer = NextActiveSeat(t0, t0.dealer),
              !.folded = {}, !.allIn = {}, !.bet = NoChips, !.committed = NoChips,
              !.board = 0, !.rit = "none", !.sidePots = 0,
              !.lastRaise = BigBlind, !.phase = "Dealing",
              !.idle = 0, !.deadline = NoDeadline, !.settledFor = 0])
      sb == IF Cardinality(Funded(t1)) = 2 THEN t1.dealer
            ELSE NextActiveSeat(t1, t1.dealer)
      bb == NextActiveSeat(t1, sb)
      t2 == PostBlind(PostBlind(t1, sb, SmallBlind), bb, BigBlind)
      st == StraddleSeat(t1, bb, pending)
  IN  IF Cardinality(Funded(t1)) < 2 \/ st >= SeatCount(t1) THEN {}
      ELSE IF st = NoSeat THEN {[t2 EXCEPT !.straddler = NoSeat]}
      ELSE {[PostBlind(t2, st, StraddleAmount) EXCEPT !.straddler = st]}

-----------------------------------------------------------------------------
(* Settlement. *)
Settled(t) ==
  [t EXCEPT !.pot = 0, !.phase = "Settlement", !.settledFor = 0, !.idle = 0]

Credit(t, p, amount) == [t EXCEPT !.stack[p] = @ + amount]

(* Mutant: the winner is paid the pot before the rake. *)
SettleFoldWin_Gross(t) ==
  LET winner == CHOOSE p \in Live(t) : TRUE
  IN  Settled([Credit(t, winner, t.pot) EXCEPT
                 !.rake = @ + (t.pot * RakeBps) \div 10000])

(* The last player who has not folded takes the pot less the rake. *)
SettleFoldWin(t) ==
  LET winner == CHOOSE p \in Live(t) : TRUE
      rake   == (t.pot * RakeBps) \div 10000
  IN  Settled([Credit(t, winner, t.pot - rake) EXCEPT !.rake = @ + rake])

(* process_bad_beat_jackpot: the pool goes 60 : 20 : 20 to the loser, the winner
   and the other contenders. *)
BadBeatShare(t, winner, loser, p) ==
  LET pool   == t.jackpot
      sixty  == (pool * 6000) \div 10000
      twenty == (pool * 2000) \div 10000
      rest   == pool - sixty - twenty
      others == Live(t) \ {winner, loser}
  IN  (IF p = winner THEN twenty ELSE 0)
        + (IF p = loser THEN sixty + (IF others = {} THEN rest ELSE 0) ELSE 0)
        + (IF p \in others THEN EqualShare(t, rest, others, p) ELSE 0)

PayBadBeat(t, winner, loser) ==
  IF loser = Nobody \/ JackpotShareBps = 0 \/ t.jackpot = 0 THEN t
  ELSE [t EXCEPT !.stack   = [p \in Players |->
                                @[p] + BadBeatShare(t, winner, loser, p)],
                 !.jackpot = 0]

(* best: the seats the showdown proof declares best, the winner being the first
   of them.  loser: the bad-beat hand the committee reports, or Nobody.
   triggered: whether the outcome statistics exceed their threshold. *)
SettleShowdown(t, best, loser, triggered) ==
  LET pots  == CalculateSidePots(t)
      net   == ApplyRake(pots, RakeBps)
      split == SplitJackpotRake(TotalRake(pots, RakeBps), JackpotShareBps)
      extra == IF triggered THEN (split.house * VarianceShareBps) \div 10000 ELSE 0
      paid  == [t EXCEPT
                  !.sidePots = PotTotal(net),
                  !.rake     = @ + split.house - extra,
                  !.jackpot  = @ + split.jackpot + extra,
                  !.stack    = [p \in Players |-> @[p] + PayoutTo(t, net, best, p)]]
  IN  IF best \cap Live(t) = {} THEN {}
      ELSE {Settled(PayBadBeat(paid, FirstSeat(t, best), loser))}

-----------------------------------------------------------------------------
(* The end of a betting round. *)
NextPhase ==
  [Preflop |-> "DealingFlop", Flop |-> "DealingTurn", Turn |-> "DealingRiver",
   River |-> "Showdown"]

(* Run-It-Twice is offered when the two contenders left are both all-in. *)
RunItTwiceOffered(t) ==
  /\ t.rit = "none"
  /\ Cardinality(Live(t)) = 2
  /\ Live(t) \subseteq t.allIn
  /\ t.phase # "River"

(* Mutant: the deadline of the last actor stays. *)
AdvanceToNextPhase_KeepsClock(t) ==
  IF Cardinality(Live(t)) = 1 THEN SettleFoldWin(t)
  ELSE [t EXCEPT !.idle = 0,
                 !.phase = IF RunItTwiceOffered(t) THEN "AwaitingRunItTwice"
                           ELSE NextPhase[@]]

AdvanceToNextPhase(t) ==
  IF Cardinality(Live(t)) = 1 THEN SettleFoldWin(t)
  ELSE [t EXCEPT !.idle = 0, !.deadline = NoDeadline,
                 !.phase = IF RunItTwiceOffered(t) THEN "AwaitingRunItTwice"
                           ELSE NextPhase[@]]

(* The round is over as soon as everybody who can act has matched roundMax. *)
AdvanceTurn(t, roundMax) ==
  IF \A p \in CanAct(t) : t.bet[p] = roundMax
  THEN AdvanceToNextPhase(t)
  ELSE [t EXCEPT !.turn = Clockwise(t, SeatAfter(t, @), CanAct(t))]

FixedBet(t) ==
  IF t.phase \in {"Preflop", "Flop"} THEN Structure.smallBet ELSE Structure.bigBet

(* A new round: bets are cleared, the first player after the button who can act
   is to act; with nobody able to act the next street is dealt. *)
ResetRound(t) ==
  LET fresh == [t EXCEPT !.bet = NoChips,
                         !.lastRaise = IF Structure.kind = "FixedLimit"
                                       THEN FixedBet(t) ELSE BigBlind]
  IN  IF CanAct(t) = {} THEN AdvanceToNextPhase(fresh)
      ELSE [fresh EXCEPT !.turn = Clockwise(t, SeatAfter(t, t.dealer), CanAct(t))]

-----------------------------------------------------------------------------
(* Betting actions (process_action).  MayAct is what every action requires. *)
MayAct(t, p) ==
  /\ t.phase \in BettingPhases
  /\ p \in Seated(t)
  /\ SeatOf(t, p) - 1 = t.turn
  /\ p \notin t.folded
  /\ p \notin t.allIn

(* Mutant: the bet to match is the one before the action. *)
Acted_StaleBet(t, acted, p) ==
  AdvanceTurn([acted EXCEPT !.idle = 0, !.deadline = Timeout], CurrentBet(t))

(* What follows an accepted action of p: the clock restarts, the turn moves. *)
Acted(t, acted, p) ==
  AdvanceTurn([acted EXCEPT !.idle = 0, !.deadline = Timeout],
              Max({CurrentBet(t), acted.bet[p]}))

Wagered(t, p, amount) ==
  LET w == PutIn(t, p, amount)
  IN  IF w.stack[p] = 0 THEN [w EXCEPT !.allIn = @ \cup {p}] ELSE w

WithinLimit(t, amount, potLimit) ==
  CASE Structure.kind = "NoLimit"    -> TRUE
    [] Structure.kind = "PotLimit"   -> amount <= potLimit
    [] Structure.kind = "FixedLimit" -> amount = FixedBet(t)

Fold(t, p) ==
  LET f == [t EXCEPT !.folded = @ \cup {p}]
  IN  IF Cardinality(Live(f)) = 1 THEN {SettleFoldWin(f)} ELSE {Acted(t, f, p)}

Check(t, p) ==
  IF t.bet[p] = CurrentBet(t) THEN {Acted(t, t, p)} ELSE {}

(* Mutant: a call beyond the stack. *)
Call_Uncapped(t, p) ==
  LET toCall == CurrentBet(t) - t.bet[p]
  IN  IF toCall > 0 THEN {Acted(t, Wagered(t, p, toCall), p)} ELSE {}

Call(t, p) ==
  LET toCall == CurrentBet(t) - t.bet[p]
  IN  IF toCall > 0
      THEN {Acted(t, Wagered(t, p, Min({toCall, t.stack[p]})), p)} ELSE {}

Bet(t, p, amount) ==
  IF /\ CurrentBet(t) = 0
     /\ amount >= BigBlind
     /\ amount <= t.stack[p]
     /\ WithinLimit(t, amount, t.pot)
  THEN {Acted(t, [Wagered(t, p, amount) EXCEPT !.lastRaise = amount], p)} ELSE {}

Raise(t, p, amount) ==
  LET toCall == CurrentBet(t) - t.bet[p]
  IN  IF /\ ~ (t.straddler = t.turn /\ ~ Straddle.reraise /\ t.phase = "Preflop")
         /\ amount >= Max({t.lastRaise, BigBlind})
         /\ toCall + amount <= t.stack[p]
         /\ WithinLimit(t, amount, t.pot + toCall)
      THEN {Acted(t, [Wagered(t, p, toCall + amount) EXCEPT !.lastRaise = amount], p)}
      ELSE {}

AllIn(t, p) ==
  {Acted(t, [PutIn(t, p, t.stack[p]) EXCEPT !.allIn = @ \cup {p}], p)}

-----------------------------------------------------------------------------
(* Timeouts.  Both folds pass the turn to the next seat that is neither folded
   nor all-in, whatever it has left to bet, and do not end the round. *)
FoldStalling(t, deadline) ==
  LET f    == [t EXCEPT !.folded = @ \cup {At(t, t.turn)}]
      open == Live(f) \ f.allIn
      next == SeatAfter(t, t.turn)
  IN  IF Cardinality(Live(f)) = 1 THEN SettleFoldWin(f)
      ELSE [f EXCEPT !.turn = IF open = {} THEN next ELSE Clockwise(t, next, open),
                     !.idle = 0, !.deadline = deadline]

MayTimeOut(t) ==
  /\ t.phase \in BettingPhases
  /\ t.deadline = 0
  /\ At(t, t.turn) \notin t.folded \cup t.allIn

(* process_timeout leaves the expired deadline in place, force_fold renews it. *)
ProcessTimeout(t) == IF MayTimeOut(t) THEN {FoldStalling(t, t.deadline)} ELSE {}
ForceFold(t, caller) ==
  IF MayTimeOut(t) /\ caller \in Seated(t) \ {At(t, t.turn)}
  THEN {FoldStalling(t, Timeout)} ELSE {}

-----------------------------------------------------------------------------
(* Mutant: what was committed to a settled hand is refunded too. *)
RefundTo_Stale(t, p) == t.stack[p] + t.committed[p]

(* Money back (refund_table_players, execute_emergency_withdrawal). *)
RefundTo(t, p) == t.stack[p] + (IF HandLive(t) THEN t.committed[p] ELSE 0)

(* Mutant: the stacks stay. *)
Refunded_KeepsStacks(t) ==
  [Settled(t) EXCEPT !.bet = NoChips, !.committed = NoChips,
                     !.folded = Seated(t), !.sidePots = 0]

Refunded(t) ==
  [Settled(t) EXCEPT !.stack = NoChips, !.bet = NoChips, !.committed = NoChips,
                     !.folded = Seated(t), !.sidePots = 0]

Cancelled(t) == [Refunded(t) EXCEPT !.lastRaise = 0, !.board = 0, !.rit = "none"]

(* Mutant: the button keeps its number. *)
Vacated_StaleButton(t, p) ==
  [t EXCEPT !.seats  = RemoveAt(@, SeatOf(t, p)),
            !.stack[p] = 0, !.bet[p] = 0, !.committed[p] = 0,
            !.folded = @ \ {p}, !.allIn = @ \ {p}]

(* leave_table: the seats close up and the button and the turn stay inside. *)
Vacated(t, p) ==
  LET n == SeatCount(t) - 1
  IN  [t EXCEPT !.seats  = RemoveAt(@, SeatOf(t, p)),
                !.dealer = IF n = 0 THEN 0 ELSE @ % n,
                !.turn   = IF n = 0 THEN 0 ELSE @ % n,
                !.stack[p] = 0, !.bet[p] = 0, !.committed[p] = 0,
                !.folded = @ \ {p}, !.allIn = @ \ {p}]

SatDown(t, p, chips) ==
  [t EXCEPT !.seats = Append(@, p), !.stack[p] = chips]
=============================================================================
