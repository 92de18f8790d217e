----------------------------- MODULE Tournaments -----------------------------
(***************************************************************************)
(* Tournaments, seen from two sides.                                       *)
(*                                                                         *)
(* The contract of the prize pool: deposits of all tournaments lie in one  *)
(* account.  A tournament collects buy-in, rake and bounty per player,     *)
(* sends the rake out when it starts, a bounty with every elimination, and *)
(* the prizes once.  Who receives a prize is left out: it changes nothing  *)
(* here.  The tournament's admin, who may do all but register, is free.    *)
(*                                                                         *)
(* A sit-and-go tournament as the coordinator keeps it in memory: players  *)
(* register, hand results are posted as they settle, eliminations get a    *)
(* place, and the last player with chips ends it.  Tables are left out:    *)
(* table_contracts is never filled, so balancing never moves anybody.      *)
(***************************************************************************)
EXTENDS Integers, Sequences, FiniteSets, SequencesExt, FiniteSetsExt

CONSTANTS
  BuyIn, MinPlayers, MaxPlayers

CONSTANTS
  Tournaments, Entrants,
  RakeFee, Bounty,  \* of each tournament; only the buy-in is checked to be positive
  Mode,             \* PayoutMode of each tournament
  Splits,           \* top_n_bps, basis points per place, summing to 10000
  Stacks, Tiers,    \* chip counts and prize tiers, or custom payouts, of either sign,
                    \* that a distribution may be called with
  MaxEliminations   \* bound on the eliminations recorded per tournament

CONSTANTS
  Players,          \* of the coordinator's tournament
  Shares,           \* per cent of the pool, first place first
  LevelHands        \* hands per blind level

VARIABLES prize, tour

-----------------------------------------------------------------------------
(* The prize pool *)
NotCreated == [status |-> "none", registered |-> {}, late |-> FALSE,
               eliminations |-> 0,              \* those by another player
               prizes |-> <<>>,
               negative |-> FALSE]  \* history: the distribution was given a number below 0

Init ==
  prize = [at   |-> [t \in Tournaments |-> NotCreated],
           rake |-> [t \in Tournaments |-> 0],    \* tokens the treasury received
           held |-> 0]

TotalOf(s)  == SumFunctionOnSet(s, DOMAIN s)
Positive(x) == IF x > 0 THEN x ELSE 0

(* What is sent out for a list of amounts: those that are not positive are skipped. *)
PaidOut(s)  == TotalOf([i \in DOMAIN s |-> Positive(s[i])])

Deposit(t) == BuyIn + RakeFee[t] + Bounty[t]
NetPool(t) == BuyIn * Cardinality(prize.at[t].registered)

CreateTournament(t) ==
  /\ prize.at[t].status = "none"
  /\ prize' = [prize EXCEPT !.at[t].status = "Registration"]

(* The start time passes. *)
CloseRegistration(t) ==
  /\ prize.at[t].status = "Registration"
  /\ prize' = [prize EXCEPT !.at[t].late = TRUE]

(* The token refuses to move less than nothing, so nobody enters for less. *)
RegisterPlayer(t, p) ==
  /\ Deposit(t) >= 0
  /\ prize.at[t].status = "Registration" /\ ~prize.at[t].late
  /\ Cardinality(prize.at[t].registered) < MaxPlayers /\ p \notin prize.at[t].registered
  /\ prize' = [prize EXCEPT !.at[t].registered = @ \union {p}, !.held = @ + Deposit(t)]

UnregisterPlayer(t, p) ==
  /\ prize.at[t].status = "Registration" /\ p \in prize.at[t].registered
  /\ prize.held >= Deposit(t)
  /\ prize' = [prize EXCEPT !.at[t].registered = @ \ {p}, !.held = @ - Deposit(t)]

StartTournament(t) ==
  LET rake == Positive(RakeFee[t] * Cardinality(prize.at[t].registered)) IN
  /\ prize.at[t].status = "Registration"
  /\ Cardinality(prize.at[t].registered) >= MinPlayers
  /\ prize.held >= rake
  /\ prize' = [prize EXCEPT !.at[t].status = "Running", !.rake[t] = rake, !.held = @ - rake]

(* record_elimination: whoever is named, as often as she is named; a bounty
   goes out unless the player eliminated herself. *)
RecordElimination(t, byHerself) ==
  LET bounty == IF byHerself THEN 0 ELSE Positive(Bounty[t]) IN
  /\ prize.at[t].status = "Running" /\ prize.at[t].eliminations < MaxEliminations
  /\ prize.held >= bounty
  /\ prize' = [prize EXCEPT !.at[t].eliminations = @ + IF byHerself THEN 0 ELSE 1,
                            !.held = @ - bounty]

-----------------------------------------------------------------------------
(* Mutant: every place gets its rounded share. *)
LastTakesRest_Rounded(shares, net) == shares

(* The last of a list of payouts takes what is left after those before it were sent. *)
LastTakesRest(shares, net) ==
  LET n == Len(shares) IN
  [shares EXCEPT ![n] = net - PaidOut(SubSeq(shares, 1, n - 1))]

TopN(splits, net) ==
  LastTakesRest([i \in DOMAIN splits |-> (net * splits[i]) \div 10000], net)

(* Division of i128: towards zero. *)
Quotient(a, b) ==
  LET size(x) == IF x < 0 THEN -x ELSE x
      q == size(a) \div size(b)
  IN  IF (a < 0) = (b < 0) THEN q ELSE -q

(* calculate_icm_allocations: with several tiers, the mean of the proportional
   share and of a share of every tier divided by the number of tiers. *)
IcmShare(stacks, tiers, i) ==
  LET chips == TotalOf(stacks)
      proportional == Quotient(TotalOf(tiers) * stacks[i], chips)
      bps == Quotient(stacks[i] * 10000, chips)
      weight == 10000 \div Len(tiers)
      equity == TotalOf([k \in DOMAIN tiers |-> Quotient(tiers[k] * bps * weight, 100000000)])
  IN  IF Len(tiers) <= 1 THEN proportional ELSE Quotient(equity + proportional, 2)

Icm(stacks, tiers, net) ==
  LastTakesRest([i \in DOMAIN stacks |-> IcmShare(stacks, tiers, i)], net)

SomeNegative(s) == \E i \in DOMAIN s : s[i] < 0

(* distribute_*_payouts.  Only the top-N distribution looks at the mode the
   tournament was created with. *)
Distribute(t, prizes, negative) ==
  /\ prize.at[t].status = "Running" /\ prize.held >= PaidOut(prizes)
  /\ prize' = [prize EXCEPT !.at[t].status = "Completed", !.at[t].prizes = prizes,
                            !.at[t].negative = negative, !.held = @ - PaidOut(prizes)]

DistributeTopN(t) ==
  \/ Mode[t] = "TopN" /\ Distribute(t, TopN(Splits, NetPool(t)), FALSE)
  \/ Mode[t] = "WinnerTakeAll" /\ Distribute(t, TopN(<<10000>>, NetPool(t)), FALSE)

(* Without chips there is no list of shares to pay from, and the call fails. *)
DistributeIcm(t, stacks, tiers) ==
  /\ TotalOf(tiers) = NetPool(t) /\ TotalOf(stacks) # 0
  /\ Distribute(t, Icm(stacks, tiers, NetPool(t)), SomeNegative(stacks) \/ SomeNegative(tiers))

(* The sum of all payouts has to be the net pool; the positive ones are sent. *)
DistributeCustom(t, payouts) ==
  TotalOf(payouts) = NetPool(t) /\ Distribute(t, payouts, SomeNegative(payouts))

(* cancel_tournament: full refunds, also of a tournament that has already sent
   out its rake and its bounties; the money of the others fills the gap. *)
CancelTournament(t) ==
  LET refund == Deposit(t) * Cardinality(prize.at[t].registered) IN
  /\ prize.at[t].status \in {"Registration", "Running"} /\ prize.held >= refund
  /\ prize' = [prize EXCEPT !.at[t].status = "Cancelled", !.held = @ - refund]

Next ==
  \E t \in Tournaments :
    \/ CreateTournament(t) \/ CloseRegistration(t) \/ StartTournament(t)
    \/ DistributeTopN(t) \/ CancelTournament(t)
    \/ \E p \in Entrants : RegisterPlayer(t, p) \/ UnregisterPlayer(t, p)
    \/ \E byHerself \in BOOLEAN : RecordElimination(t, byHerself)
    \/ \E s \in Stacks, tiers \in Tiers : DistributeIcm(t, s, tiers)
    \/ \E payouts \in Tiers : DistributeCustom(t, payouts)

Spec == Init /\ [][Next]_prize

-----------------------------------------------------------------------------
(* What the tournament still holds of its deposits, negative when it has spent
   money of another. *)
Balance(t) ==
  LET at == prize.at[t]
      spent == prize.rake[t] + Positive(Bounty[t]) * at.eliminations + PaidOut(at.prizes)
  IN  IF at.status = "Cancelled" THEN -spent ELSE Deposit(t) * Cardinality(at.registered) - spent

(* The common account holds the balances of the tournaments and nothing else; a
   distribution pays at least the net pool, and exactly that, nobody less than
   nothing, if it is given no number below 0; and the only ways to spend another
   tournament's money are to cancel after the start, to record more eliminations than
   there are players, to charge a negative fee, and to distribute by negative
   numbers. *)
PrizesFromOwnPool ==
  /\ prize.held >= 0
  /\ prize.held = SumFunctionOnSet([t \in Tournaments |-> Balance(t)], Tournaments)
  /\ \A t \in Tournaments :
       LET at == prize.at[t] IN
       /\ at.status = "Completed" => PaidOut(at.prizes) >= NetPool(t)
       /\ at.status = "Completed" /\ ~at.negative =>
            PaidOut(at.prizes) = NetPool(t) /\ ~SomeNegative(at.prizes)
       /\ Balance(t) < 0 => \/ at.status = "Cancelled"
                            \/ at.eliminations > Cardinality(at.registered)
                            \/ RakeFee[t] < 0 \/ Bounty[t] < 0
                            \/ at.negative

-----------------------------------------------------------------------------
(* The coordinator's tournament *)
No == -1            \* a place or a payout that is not there yet

DirectorInit ==
  tour = [status |-> "Registration", players |-> {}, stack |-> [p \in Players |-> 0],
          place |-> [p \in Players |-> No], payout |-> [p \in Players |-> No],
          eliminations |-> <<>>, pool |-> 0, level |-> 1, hands |-> 0]

Register(p) ==
  /\ tour.status = "Registration"
  /\ Cardinality(tour.players) < MaxPlayers
  /\ p \notin tour.players
  /\ tour' = [tour EXCEPT !.players = @ \union {p}, !.stack[p] = BuyIn, !.pool = @ + BuyIn]

Start ==
  /\ tour.status = "Registration" /\ Cardinality(tour.players) >= MinPlayers
  /\ tour' = [tour EXCEPT !.status = "Running"]

Cancel ==
  /\ tour.status = "Registration"
  /\ tour' = [tour EXCEPT !.status = "Cancelled"]

-----------------------------------------------------------------------------
(* PayoutSchedule::compute: the last paid place takes the remainder. *)
Prize(i, pool) ==
  LET share(k) == (pool * Shares[k]) \div 100 IN
  IF i < Len(Shares) THEN share(i) ELSE pool - FoldSeq(+, 0, [k \in 1 .. i - 1 |-> share(k)])

Payouts(players, place, pool) ==
  [p \in Players |-> IF p \notin players \/ place[p] = No THEN No
                     ELSE IF place[p] \in DOMAIN Shares THEN Prize(place[p], pool) ELSE 0]

ActivePlayers(t) == {p \in t.players : t.stack[p] > 0 /\ t.place[p] = No}

(* BlindState::record_hand. *)
RecordHand(t) ==
  IF t.hands + 1 >= LevelHands[t.level] /\ t.level < Len(LevelHands)
  THEN [t EXCEPT !.level = @ + 1, !.hands = 0]
  ELSE [t EXCEPT !.hands = IF t.level < Len(LevelHands) THEN @ + 1 ELSE 0]

(* The places count down from the players left and those already out, in the
   order in which the map happens to be walked. *)
Eliminated(t, order) ==
  LET first == Cardinality(ActivePlayers(t)) + Len(t.eliminations) + 1
      at(p) == CHOOSE i \in DOMAIN order : order[i] = p IN
  [t EXCEPT !.eliminations = @ \o order,
            !.place = [p \in Players |-> IF p \in ToSet(order) THEN first + 1 - at(p) ELSE @[p]]]

Finalized(t) ==
  IF Cardinality(ActivePlayers(t)) # 1 THEN t
  ELSE LET place == [p \in Players |-> IF p \in ActivePlayers(t) THEN 1 ELSE t.place[p]] IN
       [t EXCEPT !.status = "Finalizing", !.place = place,
                 !.payout = Payouts(t.players, place, t.pool)]

(* A place below 0 does not fit a u32.  Overflow checks are on and a panic
   aborts, so the process ends, and the tournament, kept in memory, with it. *)
Overflows(t, n) == Cardinality(ActivePlayers(t)) + Len(t.eliminations) + 1 < n

(* record_hand_result with the stacks after a hand of `seated`. *)
RecordHandResult(seated, stacks) ==
  /\ tour.status = "Running"
  /\ LET played == RecordHand([tour EXCEPT !.stack =
                     [p \in Players |-> IF p \in seated THEN stacks[p] ELSE @[p]]])
         busted == {p \in played.players : played.stack[p] = 0 /\ played.place[p] = No} IN
     IF Overflows(played, Cardinality(busted))
     THEN tour' = [tour EXCEPT !.status = "Lost"]
     ELSE \E order \in SetToSeqs(busted) : tour' = Finalized(Eliminated(played, order))

(* A hand moves chips between the players of a table who have any. *)
HandResults(seated) ==
  LET chips == MapThenSumSet(LAMBDA p : tour.stack[p], seated) IN
  {s \in [seated -> 0 .. chips] : MapThenSumSet(LAMBDA p : s[p], seated) = chips}

DirectorNext ==
  \/ \E p \in Players : Register(p)
  \/ Start \/ Cancel
  \/ \E seated \in SUBSET ActivePlayers(tour) :
       /\ Cardinality(seated) > 1
       /\ \E stacks \in HandResults(seated) : RecordHandResult(seated, stacks)

-----------------------------------------------------------------------------
TypeOK ==
  /\ tour.players \subseteq Players
  /\ tour.status \in {"Registration", "Running", "Finalizing", "Cancelled", "Lost"}
  /\ tour.stack \in [Players -> Nat]

(* Everybody without chips has been eliminated, once; a tournament is over when
   one player has all the chips, and she has the first prize. *)
EachOutOnce ==
  LET out == ToSet(tour.eliminations)
      started == tour.status \in {"Running", "Finalizing"} IN
  /\ IsInjective(tour.eliminations)
  /\ started =>
       /\ out = {p \in tour.players : tour.stack[p] = 0}
       /\ (tour.status = "Finalizing") = (Cardinality(tour.players \ out) = 1)
  /\ tour.status = "Finalizing" =>
       \A p \in tour.players \ out :
         tour.place[p] = 1 /\ tour.stack[p] = tour.pool /\ tour.payout[p] = Prize(1, tour.pool)

(* Every place of the payout schedule is paid, to one player. *)
PlacesPaidOut ==
  tour.status = "Finalizing" =>
    \A i \in DOMAIN Shares :
      i <= Cardinality(tour.players) => Cardinality({p \in tour.players : tour.place[p] = i}) = 1
=============================================================================
