----------------------------- MODULE TableEscrow -----------------------------
(***************************************************************************)
(* What the poker-table contract promises about money, and nothing else.   *)
(* The contract account holds one escrow of tokens.  Every token in it is  *)
(* owed to somebody: to a seated player (her stack and what she has staked *)
(* on the hand in progress), to a player on the waiting list (her buy-in), *)
(* to the house (rake) or to the jackpot pool.  There is no pot here: the  *)
(* pot of a hand is what the players have staked on it.                    *)
(*                                                                         *)
(* PokerTable is the detailed machine that implements this one.            *)
(***************************************************************************)
EXTENDS Integers, FiniteSets, Functions

CONSTANTS
  Players,        \* wallets that may sit at the table or wait for a seat
  Amounts,        \* amounts of chips (Nat, or a finite part of it for TLC)
  InitialWallet,  \* tokens each wallet starts with
  MaxRakeBps      \* pot.rs: the cap on the rake, in basis points of the pot

ASSUME PlayersAssumption == IsFiniteSet(Players)
ASSUME AmountsAssumption == Amounts \subseteq Nat /\ 0 \in Amounts
ASSUME WalletAssumption == InitialWallet \in [Players -> Amounts]
ASSUME RakeAssumption == MaxRakeBps \in 0 .. 10000

VARIABLES
  wallet,   \* tokens in each player's own account
  escrow,   \* tokens the contract account holds for this table
  stack,    \* chips each seated player has behind
  staked,   \* chips each player has put into the hand in progress
  queued,   \* escrowed buy-in of each player on the waiting list
  rake,     \* house rake collected and not withdrawn
  jackpot,  \* jackpot pool
  paidOut   \* tokens the house and the treasury have received

vars == <<wallet, escrow, stack, staked, queued, rake, jackpot, paidOut>>

Chips == [Players -> Amounts]
Total(f) == SumFunctionOnSet(f, Players)
Nothing == [p \in Players |-> 0]

(* No hand is in progress when nobody has staked anything. *)
BetweenHands == staked = Nothing

Init ==
  /\ wallet = InitialWallet
  /\ escrow = 0
  /\ stack = Nothing
  /\ staked = Nothing
  /\ queued = Nothing
  /\ rake = 0
  /\ jackpot = 0
  /\ paidOut = 0

-----------------------------------------------------------------------------
(* Mutant: the buy-in is not checked against the wallet. *)
Deposit_OnCredit(p) ==
  /\ BetweenHands
  /\ stack' \in Chips
  /\ stack'[p] > stack[p]
  /\ stack' = [stack EXCEPT ![p] = stack'[p]]
  /\ wallet' = [wallet EXCEPT ![p] = @ - (stack'[p] - stack[p])]
  /\ escrow' = escrow + (stack'[p] - stack[p])
  /\ UNCHANGED <<staked, queued, rake, jackpot, paidOut>>

(* Chips enter the table: a buy-in at a free seat, or a rebuy. *)
Deposit(p) ==
  /\ BetweenHands
  /\ stack' \in Chips
  /\ stack'[p] > stack[p]
  /\ stack' = [stack EXCEPT ![p] = stack'[p]]
  /\ wallet[p] >= stack'[p] - stack[p]
  /\ wallet' = [wallet EXCEPT ![p] = @ - (stack'[p] - stack[p])]
  /\ escrow' = escrow + (stack'[p] - stack[p])
  /\ UNCHANGED <<staked, queued, rake, jackpot, paidOut>>

(* A buy-in for a full table waits in the queue. *)
Enqueue(p) ==
  /\ BetweenHands
  /\ queued[p] = 0
  /\ queued' \in Chips
  /\ queued'[p] > 0
  /\ queued' = [queued EXCEPT ![p] = queued'[p]]
  /\ wallet[p] >= queued'[p]
  /\ wallet' = [wallet EXCEPT ![p] = @ - queued'[p]]
  /\ escrow' = escrow + queued'[p]
  /\ UNCHANGED <<stack, staked, rake, jackpot, paidOut>>

(* Mutant: the entry stays in the queue. *)
Dequeue_KeepsEntry(p) ==
  /\ queued[p] > 0
  /\ wallet' = [wallet EXCEPT ![p] = @ + queued[p]]
  /\ escrow' = escrow - queued[p]
  /\ UNCHANGED <<stack, staked, queued, rake, jackpot, paidOut>>

(* A waiting player takes her escrowed buy-in back. *)
Dequeue(p) ==
  /\ queued[p] > 0
  /\ queued' = [queued EXCEPT ![p] = 0]
  /\ wallet' = [wallet EXCEPT ![p] = @ + queued[p]]
  /\ escrow' = escrow - queued[p]
  /\ UNCHANGED <<stack, staked, rake, jackpot, paidOut>>

(* A player leaves with her whole stack; the seat may go to a waiting
   player, whose buy-in then becomes her stack. *)
CashOut(p) ==
  /\ BetweenHands
  /\ wallet' = [wallet EXCEPT ![p] = @ + stack[p]]
  /\ escrow' = escrow - stack[p]
  /\ \/ /\ stack' = [stack EXCEPT ![p] = 0]
        /\ UNCHANGED queued
     \/ \E q \in Players \ {p} :
          /\ queued[q] > 0
          /\ stack' = [stack EXCEPT ![p] = 0, ![q] = @ + queued[q]]
          /\ queued' = [queued EXCEPT ![q] = 0]
  /\ UNCHANGED <<staked, rake, jackpot, paidOut>>

(* Blinds, antes, straddles, calls, bets and raises move chips from a stack to
   the same player's stake. *)
Wager ==
  /\ stack' \in Chips
  /\ staked' \in Chips
  /\ \A p \in Players : /\ staked'[p] >= staked[p]
                        /\ stack'[p] + staked'[p] = stack[p] + staked[p]
  /\ UNCHANGED <<wallet, escrow, queued, rake, jackpot, paidOut>>

(* The end of a hand: the stakes are paid out to the players, less a rake that
   goes to the house and the jackpot pool, which may itself pay players. *)
Settle ==
  /\ ~ BetweenHands
  /\ staked' = Nothing
  /\ stack' \in Chips
  /\ rake' \in Amounts
  /\ jackpot' \in Amounts
  /\ \A p \in Players : stack'[p] >= stack[p]
  /\ rake' >= rake
  /\ (rake' + jackpot') - (rake + jackpot)
       <= (Total(staked) * MaxRakeBps) \div 10000
  /\ Total(stack') + rake' + jackpot'
       = Total(stack) + Total(staked) + rake + jackpot
  /\ UNCHANGED <<wallet, escrow, queued, paidOut>>

(* Mutant: the stakes are paid without being counted. *)
Refund_StacksOnly ==
  /\ wallet' = [p \in Players |-> wallet[p] + stack[p] + staked[p]]
  /\ escrow' = escrow - Total(stack)
  /\ stack' = Nothing
  /\ staked' = Nothing
  /\ UNCHANGED <<queued, rake, jackpot, paidOut>>

(* A hand that cannot end, or a table that closes: everybody is paid back the
   chips behind and the chips staked. *)
Refund ==
  /\ wallet' = [p \in Players |-> wallet[p] + stack[p] + staked[p]]
  /\ escrow' = escrow - (Total(stack) + Total(staked))
  /\ stack' = Nothing
  /\ staked' = Nothing
  /\ UNCHANGED <<queued, rake, jackpot, paidOut>>

ClaimJackpot(p) ==
  /\ stack' = [stack EXCEPT ![p] = @ + jackpot]
  /\ jackpot' = 0
  /\ UNCHANGED <<wallet, escrow, staked, queued, rake, paidOut>>

WithdrawRake ==
  /\ escrow' = escrow - rake
  /\ paidOut' = paidOut + rake
  /\ rake' = 0
  /\ UNCHANGED <<wallet, stack, staked, queued, jackpot>>

(* Stacks nobody collected go to the treasury. *)
Sweep ==
  /\ BetweenHands
  /\ escrow' = escrow - Total(stack)
  /\ paidOut' = paidOut + Total(stack)
  /\ stack' = Nothing
  /\ UNCHANGED <<wallet, staked, queued, rake, jackpot>>

(* The end of a table: the queue is refunded, the house takes the rest. *)
Sunset ==
  /\ BetweenHands
  /\ stack = Nothing
  /\ wallet' = [p \in Players |-> wallet[p] + queued[p]]
  /\ escrow' = escrow - (Total(queued) + rake + jackpot)
  /\ paidOut' = paidOut + rake + jackpot
  /\ queued' = Nothing
  /\ rake' = 0
  /\ jackpot' = 0
  /\ UNCHANGED <<stack, staked>>

Next ==
  \/ \E p \in Players :
       Deposit(p) \/ Enqueue(p) \/ Dequeue(p) \/ CashOut(p) \/ ClaimJackpot(p)
  \/ Wager \/ Settle \/ Refund
  \/ WithdrawRake \/ Sweep \/ Sunset

Spec == Init /\ [][Next]_vars

-----------------------------------------------------------------------------
(* Every balance is a number of chips. *)
TypeOK ==
  /\ wallet \in [Players -> Nat]
  /\ stack \in [Players -> Nat]
  /\ staked \in [Players -> Nat]
  /\ queued \in [Players -> Nat]
  /\ escrow \in Int
  /\ rake \in Nat
  /\ jackpot \in Nat
  /\ paidOut \in Nat

(* What the contract holds is exactly what it owes: to the seated players, to
   the waiting list, to the house and to the jackpot.  Every transfer out of
   the contract (leave_table, leave_queue, the refunds, withdraw_rake, the
   sunset) relies on this. *)
Solvent ==
  escrow = Total(stack) + Total(staked) + Total(queued) + rake + jackpot

(* No operation creates or destroys tokens. *)
SupplyConserved ==
  Total(wallet) + escrow + paidOut = Total(InitialWallet)
=============================================================================
