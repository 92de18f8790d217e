------------------------- MODULE TableEscrow_proofs -------------------------
(***************************************************************************)
(* Proofs about TableEscrow for every set of players, every amount and     *)
(* every cap on the rake: balances never go negative, the escrow is        *)
(* exactly what the contract owes, and tokens are neither created nor lost.*)
(***************************************************************************)
EXTENDS TableEscrow, ChipSums

LEMMA TotalNat == ASSUME NEW f \in [Players -> Nat] PROVE Total(f) \in Nat
  BY PlayersAssumption, SumNat DEF Total

(* A change at one player only changes the total by the difference. *)
LEMMA TotalChange ==
  ASSUME NEW f \in [Players -> Nat], NEW g \in [Players -> Nat],
         NEW p \in Players, \A q \in Players \ {p} : g[q] = f[q]
  PROVE  Total(g) = Total(f) - f[p] + g[p]
<1>1. \A q \in Players : /\ f[q] \in Int
                         /\ g[q] \in Int
                         /\ q # p => g[q] = f[q]
  OBVIOUS
<1>2. SumFunctionOnSet(g, Players) =
        SumFunctionOnSet(f, Players) - f[p] + g[p]
  BY <1>1, PlayersAssumption, SumChange
<1>3. QED
  BY <1>2 DEF Total

LEMMA TotalPlus ==
  ASSUME NEW f \in [Players -> Nat], NEW g \in [Players -> Nat], NEW h,
         \A p \in Players : h[p] = f[p] + g[p]
  PROVE  Total(h) = Total(f) + Total(g)
<1>1. \A p \in Players : f[p] \in Int /\ g[p] \in Int /\ h[p] = f[p] + g[p]
  OBVIOUS
<1>2. QED
  BY <1>1, PlayersAssumption, SumPlus DEF Total

LEMMA TotalNothing == Total(Nothing) = 0
  BY PlayersAssumption, SumZero DEF Total, Nothing

LEMMA NothingIsChips == Nothing \in [Players -> Nat]
  BY DEF Nothing

LEMMA ChipsAreNat == ASSUME NEW f \in Chips PROVE f \in [Players -> Nat]
  BY AmountsAssumption DEF Chips

-----------------------------------------------------------------------------
LEMMA TypeInit == Init => TypeOK
<1>1. InitialWallet \in [Players -> Nat]
  BY WalletAssumption, AmountsAssumption
<1>2. QED
  BY <1>1, NothingIsChips DEF Init, TypeOK

LEMMA TypeStep == TypeOK /\ [Next]_vars => TypeOK'
<1> SUFFICES ASSUME TypeOK, [Next]_vars PROVE TypeOK'
  OBVIOUS
<1> USE DEF TypeOK
<1>1. ASSUME NEW p \in Players, Deposit(p) PROVE TypeOK'
  <2>1. stack' \in [Players -> Nat]
    BY <1>1, ChipsAreNat DEF Deposit
  <2>2. wallet[p] - (stack'[p] - stack[p]) \in Nat
    BY <1>1, <2>1 DEF Deposit
  <2>3. QED
    BY <1>1, <2>1, <2>2 DEF Deposit
<1>2. ASSUME NEW p \in Players, Enqueue(p) PROVE TypeOK'
  <2>1. queued' \in [Players -> Nat]
    BY <1>2, ChipsAreNat DEF Enqueue
  <2>2. wallet[p] - queued'[p] \in Nat
    BY <1>2, <2>1 DEF Enqueue
  <2>3. QED
    BY <1>2, <2>1, <2>2 DEF Enqueue
<1>3. ASSUME NEW p \in Players, Dequeue(p) PROVE TypeOK'
  BY <1>3 DEF Dequeue
<1>4. ASSUME NEW p \in Players, CashOut(p) PROVE TypeOK'
  BY <1>4 DEF CashOut
<1>5. ASSUME NEW p \in Players, ClaimJackpot(p) PROVE TypeOK'
  BY <1>5 DEF ClaimJackpot
<1>6. ASSUME Wager PROVE TypeOK'
  <2>1. stack' \in [Players -> Nat] /\ staked' \in [Players -> Nat]
    BY <1>6, ChipsAreNat DEF Wager
  <2>2. QED
    BY <1>6, <2>1 DEF Wager
<1>7. ASSUME Settle PROVE TypeOK'
  <2>1. stack' \in [Players -> Nat] /\ rake' \in Nat /\ jackpot' \in Nat
    BY <1>7, ChipsAreNat, AmountsAssumption DEF Settle
  <2>2. QED
    BY <1>7, <2>1, NothingIsChips DEF Settle
<1>8. ASSUME Refund PROVE TypeOK'
  <2>1. Total(stack) + Total(staked) \in Int
    BY TotalNat
  <2>2. wallet' \in [Players -> Nat]
    BY <1>8 DEF Refund
  <2>3. QED
    BY <1>8, <2>1, <2>2, NothingIsChips DEF Refund
<1>9. ASSUME WithdrawRake PROVE TypeOK'
  BY <1>9 DEF WithdrawRake
<1>10. ASSUME Sweep PROVE TypeOK'
  <2>1. Total(stack) \in Nat
    BY TotalNat
  <2>2. QED
    BY <1>10, <2>1, NothingIsChips DEF Sweep
<1>11. ASSUME Sunset PROVE TypeOK'
  <2>1. Total(queued) \in Nat
    BY TotalNat
  <2>2. wallet' \in [Players -> Nat]
    BY <1>11 DEF Sunset
  <2>3. QED
    BY <1>11, <2>1, <2>2, NothingIsChips DEF Sunset
<1>12. CASE UNCHANGED vars
  BY <1>12 DEF vars
<1>13. QED
  BY <1>1, <1>2, <1>3, <1>4, <1>5, <1>6, <1>7, <1>8, <1>9, <1>10, <1>11,
     <1>12 DEF Next

(* TypeOK holds for every instance: no operation overdraws a wallet or a
   stack, and the rake, the jackpot and every refund are non-negative. *)
THEOREM TypeCorrect == Spec => []TypeOK
  BY TypeInit, TypeStep, PTL DEF Spec
-----------------------------------------------------------------------------
LEMMA SolventInit == Init => Solvent
  BY TotalNothing DEF Init, Solvent

LEMMA SolventStep == TypeOK /\ TypeOK' /\ Solvent /\ [Next]_vars => Solvent'
<1> SUFFICES ASSUME TypeOK, TypeOK', Solvent, [Next]_vars PROVE Solvent'
  OBVIOUS
<1> USE DEF Solvent
<1>0. /\ \A f \in [Players -> Nat] : Total(f) \in Nat
      /\ wallet \in [Players -> Nat] /\ wallet' \in [Players -> Nat]
      /\ stack \in [Players -> Nat] /\ stack' \in [Players -> Nat]
      /\ staked \in [Players -> Nat] /\ staked' \in [Players -> Nat]
      /\ queued \in [Players -> Nat] /\ queued' \in [Players -> Nat]
      /\ escrow \in Int /\ rake \in Nat /\ jackpot \in Nat /\ paidOut \in Nat
      /\ rake' \in Nat /\ jackpot' \in Nat
  BY TotalNat DEF TypeOK
<1>1. ASSUME NEW p \in Players, Deposit(p) PROVE Solvent'
  <2>1. \A q \in Players \ {p} : stack'[q] = stack[q]
    BY <1>0, <1>1 DEF Deposit
  <2>2. Total(stack') = Total(stack) - stack[p] + stack'[p]
    BY <1>0, <2>1, TotalChange
  <2>3. QED
    BY <1>0, <1>1, <2>2 DEF Deposit
<1>2. ASSUME NEW p \in Players, Enqueue(p) PROVE Solvent'
  <2>1. \A q \in Players \ {p} : queued'[q] = queued[q]
    BY <1>0, <1>2 DEF Enqueue
  <2>2. Total(queued') = Total(queued) - queued[p] + queued'[p]
    BY <1>0, <2>1, TotalChange
  <2>3. QED
    BY <1>0, <1>2, <2>2 DEF Enqueue
<1>3. ASSUME NEW p \in Players, Dequeue(p) PROVE Solvent'
  <2>1. queued'[p] = 0 /\ \A q \in Players \ {p} : queued'[q] = queued[q]
    BY <1>0, <1>3 DEF Dequeue
  <2>2. Total(queued') = Total(queued) - queued[p] + queued'[p]
    BY <1>0, <2>1, TotalChange
  <2>3. QED
    BY <1>0, <1>3, <2>1, <2>2 DEF Dequeue
<1>4. ASSUME NEW p \in Players, CashOut(p) PROVE Solvent'
  <2>1. CASE stack' = [stack EXCEPT ![p] = 0] /\ queued' = queued
    <3>1. stack'[p] = 0 /\ \A q \in Players \ {p} : stack'[q] = stack[q]
      BY <1>0, <2>1
    <3>2. Total(stack') = Total(stack) - stack[p] + stack'[p]
      BY <1>0, <3>1, TotalChange
    <3>3. QED
      BY <1>0, <1>4, <2>1, <3>1, <3>2 DEF CashOut
  <2>2. ASSUME NEW q \in Players \ {p},
               stack' = [stack EXCEPT ![p] = 0, ![q] = @ + queued[q]],
               queued' = [queued EXCEPT ![q] = 0]
        PROVE  Solvent'
    <3> DEFINE s == [stack EXCEPT ![p] = 0]
    <3>1. /\ s \in [Players -> Nat] /\ s[p] = 0 /\ s[q] = stack[q]
          /\ \A r \in Players \ {p} : s[r] = stack[r]
          /\ \A r \in Players \ {q} : stack'[r] = s[r]
          /\ stack'[q] = stack[q] + queued[q]
          /\ queued'[q] = 0
          /\ \A r \in Players \ {q} : queued'[r] = queued[r]
      BY <1>0, <2>2
    <3> HIDE DEF s
    <3>2. Total(s) = Total(stack) - stack[p] + s[p]
      BY <1>0, <3>1, TotalChange
    <3>3. Total(stack') = Total(s) - s[q] + stack'[q]
      BY <1>0, <3>1, TotalChange
    <3>4. Total(queued') = Total(queued) - queued[q] + queued'[q]
      BY <1>0, <3>1, TotalChange
    <3>5. QED
      BY <1>0, <1>4, <3>1, <3>2, <3>3, <3>4 DEF CashOut
  <2>3. QED
    BY <1>4, <2>1, <2>2 DEF CashOut
<1>5. ASSUME NEW p \in Players, ClaimJackpot(p) PROVE Solvent'
  <2>1. /\ stack'[p] = stack[p] + jackpot
        /\ \A q \in Players \ {p} : stack'[q] = stack[q]
    BY <1>0, <1>5 DEF ClaimJackpot
  <2>2. Total(stack') = Total(stack) - stack[p] + stack'[p]
    BY <1>0, <2>1, TotalChange
  <2>3. QED
    BY <1>0, <1>5, <2>1, <2>2 DEF ClaimJackpot
<1>6. ASSUME Wager PROVE Solvent'
  <2> DEFINE both == [p \in Players |-> stack[p] + staked[p]]
  <2>1. Total(both) = Total(stack) + Total(staked)
    BY <1>0, TotalPlus
  <2>2. Total(both) = Total(stack') + Total(staked')
    <3>1. \A p \in Players : both[p] = stack'[p] + staked'[p]
      BY <1>6 DEF Wager
    <3> HIDE DEF both
    <3>2. QED
      BY <1>0, <3>1, TotalPlus
  <2>3. QED
    BY <1>0, <1>6, <2>1, <2>2 DEF Wager
<1>7. ASSUME Settle PROVE Solvent'
  <2>1. /\ Total(stack') + rake' + jackpot'
              = Total(stack) + Total(staked) + rake + jackpot
        /\ Total(staked') = 0 /\ Total(queued') = Total(queued)
        /\ escrow' = escrow
    BY <1>7, TotalNothing DEF Settle
  <2>2. /\ Total(stack') \in Nat /\ Total(stack) \in Nat
        /\ Total(staked) \in Nat /\ Total(queued) \in Nat
    BY <1>0
  <2>3. escrow = Total(stack) + Total(staked) + Total(queued) + rake + jackpot
    OBVIOUS
  <2>4. escrow' = Total(stack') + Total(staked') + Total(queued') + rake' + jackpot'
    BY <1>0, <2>1, <2>2, <2>3
  <2>5. QED
    BY <2>4
<1>8. ASSUME Refund PROVE Solvent'
  BY <1>0, <1>8, TotalNothing DEF Refund
<1>9. ASSUME WithdrawRake PROVE Solvent'
  BY <1>0, <1>9 DEF WithdrawRake
<1>10. ASSUME Sweep PROVE Solvent'
  BY <1>0, <1>10, TotalNothing DEF Sweep
<1>11. ASSUME Sunset PROVE Solvent'
  BY <1>0, <1>11, TotalNothing DEF Sunset
<1>12. CASE UNCHANGED vars
  BY <1>12 DEF vars
<1>13. QED
  BY <1>1, <1>2, <1>3, <1>4, <1>5, <1>6, <1>7, <1>8, <1>9, <1>10, <1>11,
     <1>12 DEF Next

(* The escrow is exactly what the contract owes, whatever the players, the
   committee and the admin do and in whatever order. *)
THEOREM AlwaysSolvent == Spec => []Solvent
<1>1. Init => TypeOK /\ Solvent
  BY TypeInit, SolventInit
<1>2. TypeOK /\ Solvent /\ [Next]_vars => (TypeOK /\ Solvent)'
  BY TypeStep, SolventStep
<1>3. QED
  BY <1>1, <1>2, PTL DEF Spec
-----------------------------------------------------------------------------
LEMMA SupplyInit == Init => SupplyConserved
<1>1. Total(InitialWallet) \in Nat
  BY TotalNat, WalletAssumption, AmountsAssumption
<1>2. QED
  BY <1>1 DEF Init, SupplyConserved

LEMMA SupplyStep ==
  TypeOK /\ TypeOK' /\ SupplyConserved /\ [Next]_vars => SupplyConserved'
<1> SUFFICES ASSUME TypeOK, TypeOK', SupplyConserved, [Next]_vars
             PROVE  SupplyConserved'
  OBVIOUS
<1> DEFINE supply == Total(InitialWallet)
<1>0. /\ \A f \in [Players -> Nat] : Total(f) \in Nat
      /\ wallet \in [Players -> Nat] /\ wallet' \in [Players -> Nat]
      /\ stack \in [Players -> Nat] /\ staked \in [Players -> Nat]
      /\ stack' \in [Players -> Nat] /\ queued' \in [Players -> Nat]
      /\ queued \in [Players -> Nat]
      /\ escrow \in Int /\ rake \in Nat /\ jackpot \in Nat /\ paidOut \in Nat
  BY TotalNat DEF TypeOK
<1>s. Total(wallet) + escrow + paidOut = supply
  BY DEF SupplyConserved
<1> SUFFICES Total(wallet') + escrow' + paidOut' = supply
  BY DEF SupplyConserved
<1> HIDE DEF supply
<1>1. ASSUME NEW p \in Players, NEW d \in Int,
             wallet'[p] = wallet[p] + d,
             \A q \in Players \ {p} : wallet'[q] = wallet[q],
             escrow' = escrow - d, paidOut' = paidOut
      PROVE  Total(wallet') + escrow' + paidOut' = supply
  <2>1. Total(wallet') = Total(wallet) - wallet[p] + wallet'[p]
    BY <1>0, <1>1, TotalChange
  <2>2. QED
    BY <1>0, <1>s, <1>1, <2>1
<1>2. ASSUME NEW p \in Players, Deposit(p)
      PROVE  Total(wallet') + escrow' + paidOut' = supply
  <2> DEFINE d == stack[p] - stack'[p]
  <2>1. /\ d \in Int /\ wallet'[p] = wallet[p] + d
        /\ \A q \in Players \ {p} : wallet'[q] = wallet[q]
        /\ escrow' = escrow - d /\ paidOut' = paidOut
    BY <1>0, <1>2 DEF Deposit
  <2> HIDE DEF d
  <2>2. QED
    BY <1>1, <2>1
<1>3. ASSUME NEW p \in Players, Enqueue(p)
      PROVE  Total(wallet') + escrow' + paidOut' = supply
  <2> DEFINE d == 0 - queued'[p]
  <2>1. /\ d \in Int /\ wallet'[p] = wallet[p] + d
        /\ \A q \in Players \ {p} : wallet'[q] = wallet[q]
        /\ escrow' = escrow - d /\ paidOut' = paidOut
    BY <1>0, <1>3 DEF Enqueue
  <2> HIDE DEF d
  <2>2. QED
    BY <1>1, <2>1
<1>4. ASSUME NEW p \in Players, Dequeue(p)
      PROVE  Total(wallet') + escrow' + paidOut' = supply
  <2> DEFINE d == queued[p]
  <2>1. /\ d \in Int /\ wallet'[p] = wallet[p] + d
        /\ \A q \in Players \ {p} : wallet'[q] = wallet[q]
        /\ escrow' = escrow - d /\ paidOut' = paidOut
    BY <1>0, <1>4 DEF Dequeue
  <2> HIDE DEF d
  <2>2. QED
    BY <1>1, <2>1
<1>5. ASSUME NEW p \in Players, CashOut(p)
      PROVE  Total(wallet') + escrow' + paidOut' = supply
  <2> DEFINE d == stack[p]
  <2>1. /\ d \in Int /\ wallet'[p] = wallet[p] + d
        /\ \A q \in Players \ {p} : wallet'[q] = wallet[q]
        /\ escrow' = escrow - d /\ paidOut' = paidOut
    BY <1>0, <1>5 DEF CashOut
  <2> HIDE DEF d
  <2>2. QED
    BY <1>1, <2>1
<1>6. ASSUME \/ \E p \in Players : ClaimJackpot(p)
             \/ Wager \/ Settle \/ UNCHANGED vars
      PROVE  Total(wallet') + escrow' + paidOut' = supply
  <2>1. UNCHANGED <<wallet, escrow, paidOut>>
    BY <1>6 DEF ClaimJackpot, Wager, Settle, vars
  <2>2. QED
    BY <1>s, <2>1
<1>7. ASSUME Refund PROVE Total(wallet') + escrow' + paidOut' = supply
  <2> DEFINE both == [p \in Players |-> stack[p] + staked[p]]
  <2>1. both \in [Players -> Nat] /\ Total(both) = Total(stack) + Total(staked)
    BY <1>0, TotalPlus
  <2>2. \A p \in Players : wallet'[p] = wallet[p] + both[p]
    <3>1. \A p \in Players : wallet'[p] = wallet[p] + stack[p] + staked[p]
      BY <1>7 DEF Refund
    <3>2. QED
      BY <1>0, <3>1
  <2> HIDE DEF both
  <2>3. Total(wallet') = Total(wallet) + Total(both)
    BY <1>0, <2>1, <2>2, TotalPlus
  <2>4. /\ escrow' = escrow - (Total(stack) + Total(staked))
        /\ paidOut' = paidOut
    BY <1>7 DEF Refund
  <2>5. QED
    BY <1>0, <1>s, <2>1, <2>3, <2>4
<1>8. ASSUME WithdrawRake PROVE Total(wallet') + escrow' + paidOut' = supply
  BY <1>0, <1>s, <1>8 DEF WithdrawRake
<1>9. ASSUME Sweep PROVE Total(wallet') + escrow' + paidOut' = supply
  BY <1>0, <1>s, <1>9 DEF Sweep
<1>10. ASSUME Sunset PROVE Total(wallet') + escrow' + paidOut' = supply
  <2>1. Total(wallet') = Total(wallet) + Total(queued)
    <3>1. \A p \in Players : wallet'[p] = wallet[p] + queued[p]
      BY <1>10 DEF Sunset
    <3>2. QED
      BY <1>0, <3>1, TotalPlus
  <2>2. /\ escrow' = escrow - (Total(queued) + rake + jackpot)
        /\ paidOut' = paidOut + rake + jackpot
    BY <1>10 DEF Sunset
  <2>3. QED
    BY <1>0, <1>s, <2>1, <2>2
<1>11. QED
  BY <1>2, <1>3, <1>4, <1>5, <1>6, <1>7, <1>8, <1>9, <1>10 DEF Next

(* No token is created or destroyed: the wallets, the contract's escrow and
   what the house and the treasury received add up to the initial supply. *)
THEOREM AlwaysConserved == Spec => []SupplyConserved
<1>1. Init => TypeOK /\ SupplyConserved
  BY TypeInit, SupplyInit
<1>2. TypeOK /\ SupplyConserved /\ [Next]_vars => (TypeOK /\ SupplyConserved)'
  BY TypeStep, SupplyStep
<1>3. QED
  BY <1>1, <1>2, PTL DEF Spec
=============================================================================
