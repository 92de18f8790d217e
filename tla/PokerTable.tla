----------------------------- MODULE PokerTable -----------------------------
(***************************************************************************)
(* The poker-table contract: one action per entry point that changes state *)
(* (lib.rs), over the rules of HandRules.  A transaction that returns an   *)
(* error is rolled back, so it is no step at all.                          *)
(*                                                                         *)
(* Calls to the proof verifier, the token and the game hub are external:   *)
(* proofs verify, the token moves what it is asked to move or fails, the   *)
(* hub changes nothing here.  What a proof says (which hands are best) is  *)
(* chosen freely.                                                          *)
(***************************************************************************)
EXTENDS HandRules

CONSTANTS
  InitialWallet,    \* tokens each wallet starts with
  MinPlayers, MaxPlayers, MaxQueue,
  BuyIns,           \* buy-ins and rebuys tried, within [min_buy_in, max_buy_in]
  MinBuyIn, MaxBuyIn,
  MaxRebuys,        \* rebuys per seat, 0 for unlimited
  BetSizes,         \* bets and raises tried
  HasTreasury,      \* is there a treasury for dead chips
  DeadChipTimeout,  \* ledgers until dead chips may be swept
  ClosureNotice,    \* ledgers between proposing and executing a closure
  MaxHands          \* bound on the number of hands

ASSUME TableAssumption ==
  /\ IsFiniteSet(Players)
  /\ InitialWallet \in [Players -> Nat]
  /\ MinPlayers \in Nat /\ MaxPlayers \in Nat /\ MaxQueue \in Nat
  /\ 2 <= MinPlayers /\ MinPlayers <= MaxPlayers /\ MaxPlayers <= 6
  /\ MinBuyIn \in Nat /\ MaxBuyIn \in Nat /\ MinBuyIn > 0
  /\ BuyIns \subseteq MinBuyIn .. MaxBuyIn
  /\ BetSizes \subseteq Nat \ {0}
  /\ MaxRebuys \in Nat /\ MaxHands \in Nat
  /\ HasTreasury \in BOOLEAN
  /\ DeadChipTimeout \in Nat /\ ClosureNotice \in Nat

VARIABLES
  t,          \* the table record: see HandRules
  rebuys,     \* rebuys each seated player has used
  queue,      \* waiting list: sequence of [player, buyIn]
  wallet,     \* tokens in each player's account
  escrow,     \* tokens of this table in the contract account
  paidOut,    \* tokens the table admin and the treasury have received
  index,      \* players whose wallet-to-table index lists this table
  pending,    \* volunteer straddle: [player, seat] or NoVolunteer
  claimed,    \* has the jackpot been claimed for the current hand number
  approvals,  \* players recorded as approving an emergency withdrawal
  pauses,     \* subset of {"table", "betting", "settlement"}
  banned,     \* players on the ban list
  closure,    \* ledgers until a proposed closure may run, or NoClosure
  swept,      \* have dead chips been swept
  sunset      \* is the table frozen

handVars  == <<t, claimed, pending>>
moneyVars == <<wallet, escrow, paidOut>>
seatVars  == <<rebuys, queue, index>>
adminVars == <<approvals, pauses, banned, closure, swept, sunset>>
vars == <<handVars, moneyVars, seatVars, adminVars>>

NoClosure == -1
NoVolunteer == [player |-> Nobody, seat |-> NoSeat]

EmptyTable ==
  [phase |-> "Waiting", seats |-> <<>>,
   stack |-> NoChips, bet |-> NoChips, committed |-> NoChips,
   folded |-> {}, allIn |-> {}, pot |-> 0, sidePots |-> 0,
   dealer |-> 0, turn |-> 0, straddler |-> NoSeat, lastRaise |-> BigBlind,
   board |-> 0, rit |-> "none", hand |-> 0, rake |-> 0, jackpot |-> 0,
   idle |-> 0, deadline |-> NoDeadline, settledFor |-> 0]

(* create_table. *)
Init ==
  /\ t = EmptyTable
  /\ rebuys = NoChips /\ queue = <<>> /\ index = {}
  /\ wallet = InitialWallet /\ escrow = 0 /\ paidOut = 0
  /\ pending = NoVolunteer /\ claimed = FALSE
  /\ approvals = {} /\ pauses = {} /\ banned = {}
  /\ closure = NoClosure /\ swept = FALSE /\ sunset = FALSE

NotPaused == "table" \notin pauses

(* Mutant: the settlement pause is not looked at. *)
Outcome_Unpaused(tables) == t' \in tables

(* A rule's outcome becomes the table; settling is an error while settlement is
   paused. *)
Outcome(tables) ==
  /\ t' \in tables
  /\ (t'.phase = "Settlement" /\ HandLive(t)) => "settlement" \notin pauses

Pay(p, amount) ==
  /\ wallet' = [wallet EXCEPT ![p] = @ + amount]
  /\ escrow' = escrow - amount

Charge(p, amount) ==
  /\ wallet[p] >= amount
  /\ wallet' = [wallet EXCEPT ![p] = @ - amount]
  /\ escrow' = escrow + amount

Queued == {queue[i].player : i \in DOMAIN queue}
QueuePosition(q, p) == CHOOSE i \in DOMAIN q : q[i].player = p
QueuedChips(q) ==
  [p \in Players |-> IF \E i \in DOMAIN q : q[i].player = p
                     THEN q[QueuePosition(q, p)].buyIn ELSE 0]

-----------------------------------------------------------------------------
(* Seats. *)
MayJoin(p, buyIn) ==
  /\ NotPaused /\ ~ sunset
  /\ p \notin banned
  /\ t.phase = "Waiting"
  /\ buyIn \in MinBuyIn .. MaxBuyIn
  /\ p \notin Seated(t)

JoinTable(p, buyIn) ==
  /\ MayJoin(p, buyIn)
  /\ SeatCount(t) < MaxPlayers
  /\ Charge(p, buyIn)
  /\ t' = SatDown(t, p, buyIn)
  /\ rebuys' = [rebuys EXCEPT ![p] = 0]
  /\ index' = index \cup {p}
  /\ UNCHANGED <<queue, paidOut, pending, claimed, adminVars>>

(* join_table at a full table: the buy-in is escrowed and the player waits. *)
JoinQueue(p, buyIn) ==
  /\ MayJoin(p, buyIn)
  /\ SeatCount(t) >= MaxPlayers
  /\ Len(queue) < MaxQueue
  /\ p \notin Queued
  /\ Charge(p, buyIn)
  /\ queue' = Append(queue, [player |-> p, buyIn |-> buyIn])
  /\ UNCHANGED <<handVars, paidOut, rebuys, index, adminVars>>

Rebuy(p, amount) ==
  /\ NotPaused /\ ~ sunset
  /\ ~ HandLive(t)
  /\ p \in Seated(t)
  /\ MaxRebuys > 0 => rebuys[p] < MaxRebuys
  /\ amount \in 1 .. MaxBuyIn
  /\ t.stack[p] + amount \in MinBuyIn .. MaxBuyIn
  /\ Charge(p, amount)
  /\ t' = Credit(t, p, amount)
  /\ rebuys' = [rebuys EXCEPT ![p] = @ + 1]
  /\ UNCHANGED <<queue, index, paidOut, pending, claimed, adminVars>>

(* Mutant: the free seat stays free. *)
SeatNextFromQueue_Never(left, rebuysLeft) ==
  t' = left /\ rebuys' = rebuysLeft /\ UNCHANGED queue

(* A free seat goes to the front of the queue, whoever that is; the newcomer is not
   put on the wallet index. *)
SeatNextFromQueue(left, rebuysLeft) ==
  IF queue = <<>> \/ SeatCount(left) >= MaxPlayers
  THEN t' = left /\ rebuys' = rebuysLeft /\ UNCHANGED queue
  ELSE /\ t' = SatDown(left, Head(queue).player, Head(queue).buyIn)
       /\ rebuys' = [rebuysLeft EXCEPT ![Head(queue).player] = 0]
       /\ queue' = Tail(queue)

LeaveTable(p) ==
  /\ NotPaused
  /\ ~ HandLive(t)
  /\ p \in Seated(t)
  /\ Pay(p, t.stack[p])
  /\ index' = index \ {p}
  /\ SeatNextFromQueue(Vacated(t, p), [rebuys EXCEPT ![p] = 0])
  /\ UNCHANGED <<paidOut, pending, claimed, adminVars>>

(* Mutant: the entry stays in the queue. *)
LeaveQueue_KeepsEntry(p) ==
  /\ p \in Queued
  /\ Pay(p, QueuedChips(queue)[p])
  /\ UNCHANGED <<queue, handVars, paidOut, rebuys, index, adminVars>>

(* The code filters the queue; no wallet waits twice (SeatsConsistent), so that
   takes out one entry. *)
LeaveQueue(p) ==
  /\ p \in Queued
  /\ Pay(p, QueuedChips(queue)[p])
  /\ queue' = RemoveAt(queue, QueuePosition(queue, p))
  /\ UNCHANGED <<handVars, paidOut, rebuys, index, adminVars>>

-----------------------------------------------------------------------------
(* The hand. *)
StartHand ==
  /\ NotPaused /\ ~ sunset
  /\ ~ HandLive(t)
  /\ SeatCount(t) >= MinPlayers
  /\ t.hand < MaxHands
  /\ t' \in StartNewHand(t, pending.seat)
  /\ claimed' = FALSE
  /\ pending' = IF t'.straddler = NoSeat THEN pending ELSE NoVolunteer
  /\ UNCHANGED <<moneyVars, seatVars, adminVars>>

(* A volunteer for the next hand's straddle.  Nothing ties the noted seat to the
   player if seats are renumbered before the hand starts. *)
PostStraddle(p) ==
  /\ NotPaused
  /\ ~ HandLive(t)
  /\ Straddle.position = "Mississippi"
  /\ pending = NoVolunteer
  /\ p \in Seated(t)
  /\ pending' = [player |-> p, seat |-> SeatOf(t, p) - 1]
  /\ UNCHANGED <<t, claimed, moneyVars, seatVars, adminVars>>

CancelStraddle(p) ==
  /\ pending.player = p
  /\ pending' = NoVolunteer
  /\ UNCHANGED <<t, claimed, moneyVars, seatVars, adminVars>>

HandFrame == UNCHANGED <<pending, claimed, moneyVars, seatVars, adminVars>>

(* The committee proves the deal.  The first to act is the seat after the
   straddler, or the third after the button, whether or not it can act. *)
CommitDeal ==
  /\ NotPaused
  /\ t.phase = "Dealing"
  /\ t' = [t EXCEPT !.phase = "Preflop", !.idle = 0, !.deadline = Timeout,
                    !.turn = IF t.straddler # NoSeat THEN SeatAfter(t, t.straddler)
                             ELSE (t.dealer + 3) % SeatCount(t)]
  /\ HandFrame

PlayerAction(p, tables) ==
  /\ NotPaused
  /\ "betting" \notin pauses
  /\ MayAct(t, p)
  /\ Outcome(tables)
  /\ HandFrame

PlayerFolds(p)  == PlayerAction(p, Fold(t, p))
PlayerChecks(p) == PlayerAction(p, Check(t, p))
PlayerCalls(p)  == PlayerAction(p, Call(t, p))
PlayerBets(p)   == \E a \in BetSizes : PlayerAction(p, Bet(t, p, a))
PlayerRaises(p) == \E a \in BetSizes : PlayerAction(p, Raise(t, p, a))
PlayerAllIn(p)  == PlayerAction(p, AllIn(t, p))

MayDecideRunItTwice(p) ==
  /\ NotPaused
  /\ t.phase = "AwaitingRunItTwice"
  /\ t.rit = "none"
  /\ p \in Live(t) \cap t.allIn

(* Mutant: the turn card is dealt again. *)
ResumedPhase_WrongStreet(board) ==
  IF board = 0 THEN "DealingFlop" ELSE "DealingTurn"

(* Where a declined Run-It-Twice resumes. *)
ResumedPhase(board) ==
  CASE board = 0 -> "DealingFlop"
    [] board = 3 -> "DealingTurn"
    [] board = 4 -> "DealingRiver"
    [] OTHER     -> "Showdown"

DeclineRunItTwice(p) ==
  /\ MayDecideRunItTwice(p)
  /\ t' = [t EXCEPT !.idle = 0, !.deadline = NoDeadline,
                    !.phase = ResumedPhase(t.board)]
  /\ HandFrame

(* The first opt-in records a state with one player in it; the other player's
   call is then refused, so no opt-in ever completes. *)
OptInRunItTwice(p) ==
  /\ MayDecideRunItTwice(p)
  /\ t' = [t EXCEPT !.rit = "waiting"]
  /\ HandFrame

Street ==
  [DealingFlop |-> "Flop", DealingTurn |-> "Turn", DealingRiver |-> "River"]
CardsDealt(table) == IF table.phase = "DealingFlop" THEN 3 ELSE 1

RevealBoard ==
  /\ NotPaused
  /\ t.phase \in DealingPhases
  /\ t' = ResetRound([t EXCEPT !.board = @ + CardsDealt(t), !.phase = Street[@],
                               !.idle = 0])
  /\ HandFrame

SubmitShowdown ==
  /\ NotPaused
  /\ t.phase = "Showdown"
  /\ \E best \in (SUBSET Seated(t)) \ {{}}, triggered \in BOOLEAN :
       \E loser \in (Seated(t) \ {FirstSeat(t, best)}) \cup {Nobody} :
         Outcome(SettleShowdown(t, best, loser, triggered))
  /\ HandFrame

(* The jackpot pool is paid to a seated player on a claim, once for each hand
   number; whether the claimed hand qualifies is taken from the call. *)
ClaimJackpot(p) ==
  /\ NotPaused
  /\ t.jackpot > 0
  /\ ~ claimed
  /\ p \in Seated(t)
  /\ t' = [Credit(t, p, t.jackpot) EXCEPT !.jackpot = 0]
  /\ claimed' = TRUE
  /\ UNCHANGED <<pending, moneyVars, seatVars, adminVars>>

-----------------------------------------------------------------------------
(* The clock, and those who act when it runs out. *)
Elapse(n, limit) == IF n < limit THEN n + 1 ELSE n
CountDown(n) == IF n > 0 THEN n - 1 ELSE n

Tick ==
  /\ t' = [t EXCEPT !.idle = Elapse(@, 2 * Timeout),
                    !.deadline = CountDown(@),
                    !.settledFor = IF t.phase = "Settlement"
                                   THEN Elapse(@, DeadChipTimeout) ELSE @]
  /\ closure' = CountDown(closure)
  /\ <<t, closure>>' # <<t, closure>>
  /\ UNCHANGED <<pending, claimed, moneyVars, seatVars,
                 approvals, pauses, banned, swept, sunset>>

ClaimTimeout == NotPaused /\ Outcome(ProcessTimeout(t)) /\ HandFrame

ForceFoldBy(p) == NotPaused /\ Outcome(ForceFold(t, p)) /\ HandFrame

-----------------------------------------------------------------------------
(* Money back. *)
RefundEverybody(refunded) ==
  LET refund == [p \in Players |-> RefundTo(t, p)]
  IN  /\ t' = refunded
      /\ wallet' = [p \in Players |-> wallet[p] + refund[p]]
      /\ escrow' = escrow - SumOver(refund, Players)
      /\ UNCHANGED <<paidOut, pending, claimed, seatVars>>

CancelHand ==
  /\ NotPaused
  /\ HandLive(t)
  /\ RefundEverybody(Cancelled(t))
  /\ UNCHANGED adminVars

(* Mutant: the emergency withdrawal only helps a stuck betting round. *)
EmergencyUnlocked_BettingOnly ==
  t.phase \in BettingPhases /\ t.idle >= 2 * Timeout

EmergencyUnlocked == HandLive(t) /\ t.idle >= 2 * Timeout

(* The hand is refunded once more than half of the seats have approved; the
   approvals are only cleared by that. *)
ApproveEmergency(p) ==
  /\ EmergencyUnlocked
  /\ p \in Seated(t) \ approvals
  /\ IF 2 * Cardinality(approvals \cup {p}) > SeatCount(t)
     THEN /\ RefundEverybody(Refunded(t))
          /\ approvals' = {}
     ELSE /\ approvals' = approvals \cup {p}
          /\ UNCHANGED <<handVars, moneyVars, seatVars>>
  /\ UNCHANGED <<pauses, banned, closure, swept, sunset>>

AdminEmergency ==
  /\ EmergencyUnlocked
  /\ RefundEverybody(Refunded(t))
  /\ approvals' = {}
  /\ UNCHANGED <<pauses, banned, closure, swept, sunset>>

ProposeClosure ==
  /\ closure = NoClosure
  /\ closure' = ClosureNotice
  /\ UNCHANGED <<handVars, moneyVars, seatVars,
                 approvals, pauses, banned, swept, sunset>>

ExecuteClosure ==
  /\ closure = 0
  /\ RefundEverybody(Refunded(t))
  /\ closure' = NoClosure
  /\ UNCHANGED <<approvals, pauses, banned, swept, sunset>>

-----------------------------------------------------------------------------
(* The admin. *)
Pause(what) ==
  /\ what \notin pauses
  /\ pauses' = pauses \cup {what}
  /\ UNCHANGED <<handVars, moneyVars, seatVars,
                 approvals, banned, closure, swept, sunset>>

Unpause(what) ==
  /\ what \in pauses
  /\ pauses' = pauses \ {what}
  /\ UNCHANGED <<handVars, moneyVars, seatVars,
                 approvals, banned, closure, swept, sunset>>

Ban(p) ==
  /\ p \notin banned
  /\ banned' = banned \cup {p}
  /\ UNCHANGED <<handVars, moneyVars, seatVars,
                 approvals, pauses, closure, swept, sunset>>

Unban(p) ==
  /\ p \in banned
  /\ banned' = banned \ {p}
  /\ UNCHANGED <<handVars, moneyVars, seatVars,
                 approvals, pauses, closure, swept, sunset>>

WithdrawRake ==
  /\ t.rake > 0
  /\ t' = [t EXCEPT !.rake = 0]
  /\ escrow' = escrow - t.rake
  /\ paidOut' = paidOut + t.rake
  /\ UNCHANGED <<wallet, pending, claimed, seatVars, adminVars>>

(* Stacks nobody collected go to the treasury, with whatever the pot and the
   recorded side pots say is left. *)
SweepDeadChips ==
  /\ HasTreasury /\ DeadChipTimeout > 0
  /\ t.phase = "Settlement"
  /\ t.settledFor >= DeadChipTimeout
  /\ ~ swept
  /\ LET total == SumOver(t.stack, Players) + t.pot + t.sidePots
     IN  /\ escrow' = escrow - total
         /\ paidOut' = paidOut + total
  /\ t' = [t EXCEPT !.stack = NoChips, !.pot = 0, !.sidePots = 0]
  /\ swept' = TRUE
  /\ UNCHANGED <<wallet, pending, claimed, seatVars,
                 approvals, pauses, banned, closure, sunset>>

(* Mutant: the stacks are not looked at. *)
MaySunset_WithChips == ~ sunset /\ ~ HandLive(t) /\ t.pot = 0

(* A table may be frozen between hands once no seat has chips. *)
MaySunset == ~ sunset /\ ~ HandLive(t) /\ t.pot = 0 /\ Funded(t) = {}

FinalizeSunset ==
  /\ MaySunset
  /\ LET waiting == QueuedChips(queue)
     IN  /\ wallet' = [p \in Players |-> wallet[p] + waiting[p]]
         /\ escrow' = escrow - (SumOver(waiting, Players) + t.rake + t.jackpot)
  /\ paidOut' = paidOut + t.rake + t.jackpot
  /\ queue' = <<>>
  /\ index' = index \ Seated(t)
  /\ t' = [t EXCEPT !.seats = <<>>, !.sidePots = 0, !.rake = 0, !.jackpot = 0,
                    !.dealer = 0, !.turn = 0, !.bet = NoChips,
                    !.committed = NoChips, !.folded = {}, !.allIn = {}]
  /\ rebuys' = NoChips
  /\ closure' = NoClosure
  /\ sunset' = TRUE
  /\ UNCHANGED <<pending, claimed, approvals, pauses, banned, swept>>

-----------------------------------------------------------------------------
SeatNext ==
  \E p \in Players :
    \/ \E chips \in BuyIns : JoinTable(p, chips) \/ JoinQueue(p, chips)
                               \/ Rebuy(p, chips)
    \/ LeaveTable(p) \/ LeaveQueue(p)

BettingNext ==
  \E p \in Players : \/ PlayerFolds(p) \/ PlayerChecks(p) \/ PlayerCalls(p)
                     \/ PlayerBets(p) \/ PlayerRaises(p) \/ PlayerAllIn(p)

RunItTwiceNext ==
  \E p \in Players : DeclineRunItTwice(p) \/ OptInRunItTwice(p)

StraddleNext ==
  \E p \in Players : PostStraddle(p) \/ CancelStraddle(p)

CommitteeNext == CommitDeal \/ RevealBoard \/ SubmitShowdown

TimeoutNext == ClaimTimeout \/ (\E p \in Players : ForceFoldBy(p))

RecoveryNext ==
  \/ CancelHand \/ AdminEmergency
  \/ \E p \in Players : ApproveEmergency(p)

ClosingNext == ProposeClosure \/ ExecuteClosure \/ SweepDeadChips \/ FinalizeSunset

GuardNext ==
  \/ \E what \in {"table", "betting", "settlement"} : Pause(what) \/ Unpause(what)
  \/ \E p \in Players : Ban(p) \/ Unban(p)

RakeNext == WithdrawRake \/ \E p \in Players : ClaimJackpot(p)

Next ==
  \/ SeatNext \/ StartHand \/ StraddleNext \/ BettingNext \/ RunItTwiceNext
  \/ CommitteeNext \/ TimeoutNext \/ RecoveryNext \/ ClosingNext \/ GuardNext
  \/ RakeNext \/ Tick

Spec == Init /\ [][Next]_vars

(* Ledgers keep closing, and each seated player would rather have her chips back
   than leave a hand stuck for good: she approves an emergency withdrawal as
   long as the contract lets her.  The committee, the admin and the players'
   betting owe the table nothing. *)
Fairness == WF_vars(Tick) /\ \A p \in Players : WF_vars(ApproveEmergency(p))

-----------------------------------------------------------------------------
Staked == [p \in Players |-> IF HandLive(t) THEN t.committed[p] ELSE 0]

Owed ==
  SumOver(t.stack, Players) + t.pot + SumOver(QueuedChips(queue), Players)
    + t.rake + t.jackpot

(* The table implements the escrow it promises. *)
Escrow == INSTANCE TableEscrow WITH
  Amounts <- Nat, MaxRakeBps <- RakeBps,
  stack <- t.stack, staked <- Staked, queued <- QueuedChips(queue),
  rake <- t.rake, jackpot <- t.jackpot

Holdings == [Players -> Nat]

TypeOK ==
  /\ t.phase \in Phases
  /\ t.seats \in BoundedSeq(Players, MaxPlayers)
  /\ t.stack \in Holdings /\ t.bet \in Holdings /\ t.committed \in Holdings
  /\ t.folded \subseteq Players /\ t.allIn \subseteq Players
  /\ t.pot \in Nat /\ t.sidePots \in Nat /\ t.rake \in Nat /\ t.jackpot \in Nat
  /\ t.turn \in 0 .. 5 /\ t.dealer \in 0 .. 5 /\ t.straddler \in NoSeat .. 5
  /\ t.board \in 0 .. 5 /\ t.rit \in {"none", "waiting"} /\ t.lastRaise \in Nat
  /\ t.hand \in 0 .. MaxHands
  /\ t.idle \in 0 .. 2 * Timeout /\ t.deadline \in NoDeadline .. Timeout
  /\ t.settledFor \in 0 .. DeadChipTimeout
  /\ wallet \in Holdings /\ rebuys \in Holdings /\ escrow \in Int /\ paidOut \in Nat
  /\ \A i \in DOMAIN queue : queue[i] \in [player : Players, buyIn : Nat]
  /\ pending.player \in Players \cup {Nobody} /\ pending.seat \in NoSeat .. 5
  /\ closure \in NoClosure .. ClosureNotice

(* Every deposit, payout and refund of the contract is one the escrow allows:
   whatever the interleaving of seats, betting, timeouts, refunds and
   settlements, chips move only as TableEscrow says.  EscrowSteps is the same of a
   table that is already seated. *)
ImplementsEscrow == Escrow!Spec
EscrowSteps == [][Escrow!Next]_(Escrow!vars)

(* The contract holds what it owes: stacks, pot, waiting list, rake and jackpot
   (pot.rs:113 promises that no chip of the pot is lost on the way). *)
Solvent == escrow = Owed

(* While a hand is live the pot is what the players have committed to it, which
   is what a refund pays back; afterwards `committed` is stale and the pot is
   empty (lib.rs:129-132). *)
PotIsCommitted ==
  t.pot = IF HandLive(t) THEN SumOver(t.committed, Players) ELSE 0

(* The board has the cards of the street the phase names, also after a detour
   through Run-It-Twice, which recomputes the phase from the board. *)
BoardMatchesPhase ==
  /\ t.phase \in {"Dealing", "Preflop", "DealingFlop"} => t.board = 0
  /\ t.phase \in {"Flop", "DealingTurn"} => t.board = 3
  /\ t.phase \in {"Turn", "DealingRiver"} => t.board = 4
  /\ t.phase \in {"River", "Showdown"} => t.board = 5
  /\ t.phase = "AwaitingRunItTwice" => t.board \in {0, 3, 4}

(* A deadline runs only in a betting round (or is left over after it settled), so
   the branches of process_timeout for the committee's phases and for
   Run-It-Twice are never reached (timeout.rs:72-105). *)
DeadlineOnlyInBetting ==
  t.deadline # NoDeadline => t.phase \in BettingPhases \cup {"Settlement"}

(* A betting round that ends with several contenders ends with everybody who
   still has chips to bet having matched the highest bet. *)
RoundsEndMatched ==
  [][ (t.phase \in BettingPhases /\ t'.phase \notin BettingPhases /\ HandLive(t'))
        => \A p \in CanAct(t') : t'.bet[p] = CurrentBet(t') ]_vars

(* A player who folded, or was folded, stays out of the hand and gets nothing of
   its pot: at a settlement her stack grows only if a bad-beat claim empties the
   jackpot pool. *)
FoldedStayOut ==
  [][ HandLive(t) =>
        /\ HandLive(t') => t.folded \subseteq t'.folded
        /\ (~ HandLive(t') /\ escrow' = escrow) =>
             \A p \in t'.folded : t'.stack[p] > t.stack[p] => t'.jackpot = 0 ]_vars

(* A hand in progress ends, even if the committee, the admin and the player to
   act all disappear. *)
HandEnds == HandLive(t) ~> ~ HandLive(t)

(* No wallet holds two places at the table, seated or waiting; the wallet index
   lists only seated players (lib.rs:843-844); the button and the turn point at
   a seat although seats are renumbered (lib.rs:1028-1036). *)
SeatsConsistent ==
  /\ IsInjective(t.seats)
  /\ \A i, j \in DOMAIN queue : queue[i].player = queue[j].player => i = j
  /\ Queued \cap Seated(t) = {}
  /\ index \subseteq Seated(t)
  /\ t.dealer < Max({1, SeatCount(t)}) /\ t.turn < Max({1, SeatCount(t)})

(* Nobody waits while a seat is free, and nobody is overtaken: whoever gets a
   seat was waiting behind nobody (lib.rs:575-577). *)
QueueServed ==
  /\ [] (queue # <<>> => SeatCount(t) = MaxPlayers)
  /\ [][ \A i \in DOMAIN queue :
           queue[i].player \in Seated(t') =>
             \A j \in 1 .. i - 1 : ~ \E k \in DOMAIN queue' :
                                       queue'[k].player = queue[j].player ]_vars

(* A sunset is final: the frozen table owes nothing to anybody, holds nothing,
   and stays so (lib.rs:2204-2217). *)
SunsetFinal ==
  sunset => escrow = 0 /\ Owed = 0 /\ t.seats = <<>> /\ queue = <<>>

(* While settlement is paused a hand can only end by giving everybody her own
   chips back; no pot is awarded. *)
PausedPotStays ==
  [][ (HandLive(t) /\ ~ HandLive(t') /\ "settlement" \in pauses)
        => \A p \in Players : wallet'[p] = wallet[p] + t.stack[p] + t.committed[p] ]_vars

(* An emergency withdrawal or a cancelled hand leaves no way to be paid again for
   the same chips: after the refund no seat has chips until somebody brings new
   ones. *)
RefundedOnce ==
  [][ (\E p \in Players : wallet'[p] > wallet[p] /\ HandLive(t) /\ p \in Seated(t))
        => SumOver(t'.stack, Players) + t'.pot = 0 /\ ~ HandLive(t') ]_vars
-----------------------------------------------------------------------------
(* What comments of the contract say of it, and it does not do. *)

(* "Sweep dead chips (uncollected player stacks and pot) to the treasury"
   (lib.rs:2896): a sweep takes what the table still owes its players, so the
   rake, the jackpot and the waiting list stay covered.  The code adds the side
   pots a showdown has already paid out. *)
SweptWithinMeans ==
  swept => escrow >= SumOver(QueuedChips(queue), Players) + t.rake + t.jackpot

(* "A player can only win the chips they have matched" and side pots are required
   for every all-in amount (pot.rs:99-106): whoever has not folded at the
   showdown can win back what she staked.  The code does not mark a player all-in
   whose stack is exactly the blind. *)
ContendersCanWin ==
  t.phase = "Showdown" =>
    LET pots == CalculateSidePots(t)
    IN  \A p \in Live(t) : t.committed[p] > 0 =>
          \E b \in DOMAIN pots : p \in pots[b].eligible

(* "Anyone can call this if enough ledgers have passed since the last action"
   (timeout.rs:10): a player who stalls a betting round can be timed out.  After
   a board card the first player to act has no deadline, and without one the
   claim is refused however long she waits. *)
StalledCanBeFolded ==
  (/\ t.phase \in BettingPhases
   /\ At(t, t.turn) \notin t.folded \cup t.allIn
   /\ t.idle >= Timeout) => ProcessTimeout(t) # {}
=============================================================================
