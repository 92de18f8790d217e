----------------------------- MODULE PracticeGame -----------------------------
(***************************************************************************)
(* The practice table of the web client, a hold'em engine of its own: the  *)
(* human is seat 1, the others are bots.  advance runs until the human has *)
(* a decision or the hand is over; here each pass of its loop is a step,   *)
(* and the human acts when it has come to a stop.  Bots may do whatever    *)
(* decideBotAction can return; hands compare as `Ranks` says.              *)
(***************************************************************************)
EXTENDS Integers, FiniteSets, FiniteSetsExt

CONSTANTS
  Seats,            \* 1 .. n
  StartingStack, SmallBlind, BigBlind,
  Ranks,            \* what the hands of a showdown may be worth: functions on Seats
  MaxHands          \* bound on the hands of a session

VARIABLE game

Human  == 1
Nobody == 0
Streets == <<"preflop", "flop", "turn", "river">>

FreshSeat(stack) ==
  [stack |-> stack, bet |-> 0, committed |-> 0, folded |-> FALSE, allIn |-> FALSE, acted |-> FALSE]

Init ==
  game = [seat |-> [i \in Seats |-> FreshSeat(StartingStack)], phase |-> "waiting", board |-> 0,
          pot |-> 0, currentBet |-> 0, minRaise |-> BigBlind, toAct |-> Nobody, dealer |-> 1,
          hands |-> 0]

Live(g)        == {i \in Seats : ~g.seat[i].folded}
Actionable(g)  == {i \in Live(g) : ~g.seat[i].allIn /\ g.seat[i].stack > 0}
Over(g)        == g.phase \in {"waiting", "settlement"}

(* The next of `among` clockwise from a seat, the seat itself last. *)
NextOf(among, from) ==
  LET n == Cardinality(Seats)
      at(step) == ((from - 1 + step) % n) + 1
      steps == {s \in 1 .. n : at(s) \in among}
  IN  IF steps = {} THEN Nobody ELSE at(Min(steps))

PostChips(s, amount) ==
  LET paid == Max({0, Min({amount, s.stack})})
  IN  [s EXCEPT !.stack = @ - paid, !.bet = @ + paid, !.committed = @ + paid, !.allIn = s.stack <= paid]

-----------------------------------------------------------------------------
(* startHand: whoever has no chips sits out, as if folded. *)
Dealt ==
  LET funded == {i \in Seats : game.seat[i].stack > 0}
  IN  [game EXCEPT !.seat = [i \in Seats |->
                               [FreshSeat(@[i].stack) EXCEPT !.folded = i \notin funded]],
                   !.phase = "preflop", !.board = 0, !.pot = 0, !.dealer = NextOf(funded, @),
                   !.hands = @ + 1]

PostBlinds(g) ==
  LET funded == {i \in Seats : g.seat[i].stack > 0}
      small  == IF Cardinality(Live(g)) = 2 THEN g.dealer ELSE NextOf(funded, g.dealer)
      big    == NextOf(funded, small)
      posted == [g EXCEPT !.seat[small] = PostChips(@, SmallBlind), !.seat[big] = PostChips(@, BigBlind)]
  IN  [posted EXCEPT !.currentBet = Max({posted.seat[i].bet : i \in Seats}), !.minRaise = BigBlind,
                     !.toAct = NextOf(Actionable(posted), big)]

(* The page offers to deal when no hand is being played. *)
StartHand ==
  /\ Over(game) /\ game.hands < MaxHands
  /\ game.seat[Human].stack > 0
  /\ Cardinality({i \in Seats : game.seat[i].stack > 0}) > 1
  /\ game' = PostBlinds(Dealt)

(* changeConfig rebuilds the table at any time, in the middle of a hand too. *)
Reconfigure ==
  game' = [game EXCEPT !.seat = [i \in Seats |-> FreshSeat(StartingStack)], !.phase = "waiting",
                       !.board = 0, !.pot = 0, !.currentBet = 0, !.minRaise = BigBlind,
                       !.toAct = Nobody, !.dealer = 1]

-----------------------------------------------------------------------------
CallAmount(g, i) == Max({0, Min({g.currentBet - g.seat[i].bet, g.seat[i].stack})})
MaxRaiseTo(g, i) == g.seat[i].bet + g.seat[i].stack
MinRaiseTo(g, i) == Min({g.currentBet + g.minRaise, MaxRaiseTo(g, i)})

(* raiseTo: only a full raise asks the others again. *)
RaiseTo(g, i, target) ==
  LET moved == PostChips(g.seat[i], target - g.seat[i].bet)
      size  == moved.bet - g.currentBet
      full  == size >= g.minRaise
  IN  [g EXCEPT
        !.seat = [j \in Seats |-> IF j = i THEN [moved EXCEPT !.acted = TRUE]
                                  ELSE IF full /\ j \in Live(g) /\ ~@[j].allIn
                                  THEN [@[j] EXCEPT !.acted = FALSE] ELSE @[j]],
        !.currentBet = Max({@, moved.bet}),
        !.minRaise   = IF full THEN Max({@, size}) ELSE @]

(* applyActionInternal; what is not legal becomes the nearest that is. *)
Outcomes(g, i, action) ==
  CASE action = "fold"  -> {[g EXCEPT !.seat[i].folded = TRUE, !.seat[i].acted = TRUE]}
    [] action = "call"  -> {[g EXCEPT !.seat[i] = [PostChips(@, CallAmount(g, i)) EXCEPT !.acted = TRUE]]}
    [] action = "check" -> IF CallAmount(g, i) = 0 THEN {[g EXCEPT !.seat[i].acted = TRUE]}
                           ELSE {[g EXCEPT !.seat[i] = [PostChips(@, CallAmount(g, i)) EXCEPT !.acted = TRUE]]}
    [] action = "raise" -> {RaiseTo(g, i, t) : t \in MinRaiseTo(g, i) .. MaxRaiseTo(g, i)}
    [] action = "allin" -> {RaiseTo(g, i, MaxRaiseTo(g, i))}

TakesTurn(i, action) ==
  \E g \in Outcomes(game, i, action) : game' = [g EXCEPT !.toAct = NextOf(Actionable(g), i)]

-----------------------------------------------------------------------------
IsRoundComplete(g) ==
  \A i \in Actionable(g) : g.seat[i].acted /\ g.seat[i].bet >= g.currentBet

CollectBets(g) ==
  [g EXCEPT !.pot = @ + MapThenSumSet(LAMBDA i : g.seat[i].bet, Seats),
            !.seat = [i \in Seats |-> [@[i] EXCEPT !.bet = 0, !.acted = FALSE]],
            !.currentBet = 0, !.minRaise = BigBlind]

(* Mutant: every layer starts at nothing, so that low layers are won again. *)
Winnings_Overlapping(g, rank) ==
  LET levels == {g.seat[i].committed : i \in Seats} \ {0}
      layer(l) == MapThenSumSet(LAMBDA i : Min({g.seat[i].committed, l}), Seats)
      winners(l) == LET reached == {i \in Live(g) : g.seat[i].committed >= l}
                    IN  {i \in reached : \A j \in reached : rank[i] >= rank[j]}
      won(i, l) == layer(l) \div Cardinality(winners(l))
  IN  [i \in Seats |-> MapThenSumSet(LAMBDA l : won(i, l), {l \in levels : i \in winners(l)})]

(* What a seat wins at a showdown: layer by layer, odd chips from seat 1 on; a
   layer that nobody live has reached goes to nobody. *)
Winnings(g, rank) ==
  LET levels == {g.seat[i].committed : i \in Seats} \ {0}
      below(l) == Max({k \in levels \union {0} : k < l})
      layer(l) == MapThenSumSet(LAMBDA i : Max({0, Min({g.seat[i].committed, l}) - below(l)}), Seats)
      winners(l) == LET reached == {i \in Live(g) : g.seat[i].committed >= l}
                    IN  {i \in reached : \A j \in reached : rank[i] >= rank[j]}
      won(i, l) == LET n == Cardinality(winners(l))
                   IN  (layer(l) \div n) +
                         IF Cardinality({j \in winners(l) : j < i}) < (layer(l) % n) THEN 1 ELSE 0
  IN  [i \in Seats |-> MapThenSumSet(LAMBDA l : won(i, l), {l \in levels : i \in winners(l)})]

Settle(g) ==
  LET swept == CollectBets(g)
      paid(w) == [swept EXCEPT !.seat = [i \in Seats |-> [@[i] EXCEPT !.stack = @ + w[i]]],
                               !.phase = "settlement", !.toAct = Nobody, !.pot = 0]
  IN  IF Cardinality(Live(swept)) = 1
      THEN {paid([i \in Seats |-> IF i \in Live(swept) THEN swept.pot ELSE 0])}
      ELSE {paid(Winnings(swept, rank)) : rank \in Ranks}

(* advanceStreet, once more for every street on which nobody can act. *)
AdvanceStreet(g) ==
  LET street == CHOOSE k \in DOMAIN Streets : Streets[k] = g.phase
      runOut == [g EXCEPT !.phase = "river", !.board = 5]
      next   == [g EXCEPT !.phase = Streets[street + 1], !.board = IF street = 1 THEN 3 ELSE @ + 1]
  IN  IF g.phase = "river" THEN Settle(g)
      ELSE IF Actionable(g) = {} THEN Settle(runOut)
      ELSE {[next EXCEPT !.toAct = NextOf(Actionable(g), g.dealer)]}

(* The loop has come to the human, who may act. *)
HumanTurn ==
  /\ ~Over(game) /\ Cardinality(Live(game)) > 1 /\ ~IsRoundComplete(game)
  /\ game.toAct = Human /\ Human \in Actionable(game)

HumanActs ==
  /\ HumanTurn
  /\ \E action \in {"fold", "check", "call", "raise", "allin"} : TakesTurn(Human, action)

(* decideBotAction: no bot folds or calls where it may check. *)
BotActs ==
  LET owes == CallAmount(game, game.toAct) > 0 IN
  /\ ~Over(game) /\ Cardinality(Live(game)) > 1 /\ ~IsRoundComplete(game)
  /\ game.toAct \in Actionable(game) \ {Human}
  /\ \E action \in IF owes THEN {"fold", "call", "raise", "allin"} ELSE {"check", "raise", "allin"} :
       TakesTurn(game.toAct, action)

PassTurn ==
  /\ ~Over(game) /\ Cardinality(Live(game)) > 1 /\ ~IsRoundComplete(game)
  /\ game.toAct \notin Actionable(game)
  /\ game' = [game EXCEPT !.toAct = NextOf(Actionable(game), @)]

EndRound ==
  /\ ~Over(game)
  /\ IF Cardinality(Live(game)) <= 1 THEN game' \in Settle(game)
     ELSE IsRoundComplete(game) /\ game' \in AdvanceStreet(CollectBets(game))

Next == StartHand \/ Reconfigure \/ HumanActs \/ BotActs \/ PassTurn \/ EndRound

Spec == Init /\ [][Next]_game
-----------------------------------------------------------------------------
Chips(g) == g.pot + MapThenSumSet(LAMBDA i : g.seat[i].stack + g.seat[i].bet, Seats)

(* Chips that only players who have folded put in, above everybody live. *)
Unreached(g) ==
  LET top == Max({g.seat[i].committed : i \in Live(g)})
  IN  MapThenSumSet(LAMBDA i : Max({0, g.seat[i].committed - top}), Seats)

(* A hand neither makes nor loses chips, but for those that no live player has
   matched when two or more are left; and a street ends with everybody who can
   still act having put in the same. *)
HandsAddUp ==
  game'.hands >= game.hands /\ game'.phase # "waiting" =>
    /\ Chips(game') = Chips(game) -
         IF game'.phase = "settlement" /\ game.phase # "settlement" /\ Cardinality(Live(game)) > 1
         THEN Unreached(game) ELSE 0
    /\ game.phase # game'.phase /\ game.phase \in {Streets[k] : k \in 1 .. 4} =>
         \A i, j \in Actionable(game) :
           Cardinality(Live(game)) > 1 => game.seat[i].bet = game.seat[j].bet

(* What the engine's tests say of the hands they play. *)
ChipsConserved == Chips(game) = StartingStack * Cardinality(Seats)
=============================================================================
