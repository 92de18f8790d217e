------------------------------ MODULE MCTable ------------------------------
(***************************************************************************)
(* The poker table, looked at from several sides: one hand played in every *)
(* way, the seats and the waiting list from hand to hand, the ways the     *)
(* money comes back, and small tables that refute what comments say.  Each *)
(* run takes one initial state and one selection of the actions.           *)
(***************************************************************************)
EXTENDS PokerTable

CONSTANTS ann, bob, cat, dan

NoLimit == [kind |-> "NoLimit", smallBet |-> 0, bigBet |-> 0]
NoStraddle == [multiplier |-> 0, cap |-> 0, seat |-> 0, reraise |-> TRUE,
               position |-> "BigBlind"]
Volunteers == [multiplier |-> 2, cap |-> 0, seat |-> 0, reraise |-> FALSE,
               position |-> "Mississippi"]

Two   == {ann, bob}
Three == {ann, bob, cat}
Four  == {ann, bob, cat, dan}
WalletOf80  == [p \in Players |-> 80]
WalletOf100 == [p \in Players |-> 100]
MCSymmetry  == Permutations(Players)

Folding == \E p \in Players : PlayerFolds(p)

(* Players already seated, with these stacks, and nothing under way. *)
SeatedWith(seats, dealer, stacks, waiting, wallets, total) ==
  /\ t = [EmptyTable EXCEPT !.seats = seats, !.dealer = dealer, !.stack = stacks]
  /\ rebuys = NoChips /\ queue = waiting /\ index = Range(seats)
  /\ wallet = wallets /\ escrow = total /\ paidOut = 0
  /\ pending = NoVolunteer /\ claimed = FALSE
  /\ approvals = {} /\ pauses = {} /\ banned = {}
  /\ closure = NoClosure /\ swept = FALSE /\ sunset = FALSE

-----------------------------------------------------------------------------
(* One hand of three players with different stacks, played, timed out, cancelled
   or abandoned in every way. *)
HandStacks == ann :> 40 @@ bob :> 80 @@ cat :> 100

HandInit ==
  SeatedWith(<<ann, bob, cat>>, 1, HandStacks, <<>>,
             [p \in Players |-> InitialWallet[p] - HandStacks[p]], 220)

HandNext ==
  \/ StartHand \/ BettingNext \/ RunItTwiceNext \/ CommitteeNext
  \/ TimeoutNext \/ RecoveryNext \/ RakeNext \/ Tick

HandSpec == HandInit /\ [][HandNext]_vars /\ Fairness

-----------------------------------------------------------------------------
(* The seats of a two-seat table with a waiting list, while hands are started,
   folded, timed out or cancelled and players are banned, one at a time. *)
Bans ==
  \E p \in Players : \/ banned = {} /\ Ban(p)
                     \/ Unban(p)

SeatsNext ==
  \/ SeatNext \/ StartHand \/ StraddleNext \/ CommitDeal \/ Folding
  \/ TimeoutNext \/ CancelHand \/ Bans \/ Tick

SeatsSpec == Init /\ [][SeatsNext]_vars

-----------------------------------------------------------------------------
(* Money back: a two-seat table with one player waiting, whose hands are folded,
   timed out, cancelled, rescued by its players or by the admin, closed, swept
   and frozen, while settlement is paused and resumed. *)
RescueInit ==
  SeatedWith(<<ann, bob>>, EmptyTable.dealer, [WalletOf80 EXCEPT ![cat] = 0],
             <<[player |-> cat, buyIn |-> 80]>>, NoChips, 240)

Leaving == \E p \in Players : LeaveTable(p) \/ LeaveQueue(p)

RescueNext ==
  \/ Leaving \/ StartHand \/ CommitDeal \/ Folding \/ TimeoutNext
  \/ RecoveryNext \/ ClosingNext \/ WithdrawRake \/ Tick
  \/ Pause("settlement") \/ Unpause("settlement")

RescueSpec == RescueInit /\ [][RescueNext]_vars
-----------------------------------------------------------------------------
(* Small tables on which the contract does not do what its comments say: two even
   stacks, a stack that is exactly the blind, two busted players still seated. *)
Even      == [p \in Players |-> 40]
BlindOnly == [Even EXCEPT ![bob] = 10]
TwoBusted == [Even EXCEPT ![cat] = 0, ![dan] = 0]

FindingInit(seats, stacks) ==
  SeatedWith(seats, EmptyTable.dealer, stacks, <<>>,
             [p \in Players |-> InitialWallet[p] - stacks[p]], SumOver(stacks, Players))

FindingNext ==
  \/ StartHand \/ BettingNext \/ CommitteeNext \/ RunItTwiceNext
  \/ SweepDeadChips \/ Tick

PairSpec   == FindingInit(<<ann, bob>>, Even) /\ [][FindingNext]_vars
BlindSpec  == FindingInit(<<ann, bob>>, BlindOnly) /\ [][FindingNext]_vars
BustedSpec == FindingInit(<<ann, bob, cat, dan>>, TwoBusted) /\ [][FindingNext]_vars
=============================================================================
