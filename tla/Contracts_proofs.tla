-------------------------- MODULE Contracts_proofs ---------------------------
(***************************************************************************)
(* Theorems about the contracts around the poker table, for all values of  *)
(* their constants: MCPlatform checks the same properties on instances.    *)
(* Each section instantiates one contract, says what its constants must    *)
(* satisfy, gives the inductive invariant and shows that every step keeps  *)
(* it.                                                                     *)
(***************************************************************************)
EXTENDS ChipSums, Sequences, SequenceTheorems

CONSTANTS
  Players, Tables, Callers, Admin, Amounts, Rakes, MaxShort, Supply, Timeout, MaxTotal, Accounts,
  MaxFunds, Fees, Tokens, Decimals, Minimums, MaxApproved, Deals, Claims, Recorders, Spendings,
  Configs, Thresholds, Funds, MaxPoints, MaxRent, MaxBalance, Nodes, Delegators, Returning,
  Region, Operators, MinStake, FeeRateBps, MinWithdrawal, AffectedCounts, Cooldown,
  PhaseTimeout, Scale, MaxPerStake, Voters, Groups, Values, Threshold, QuorumBps, ApprovalBps,
  VotingDelay, VotingPeriod, Timelock, Members, MaxProposals, MaxLedger, Circuits, CircuitIds,
  VerifyingKeys, MaxVersion, Signers, Wasms, MaxCount, MaxAge, Roles, Permissions, Contracts,
  InitialThreshold, Delays, MinDelay, Window, MaxPlayers, Banks, Sizes, SeqSpace, Stacks,
  Games, MaxHands

VARIABLES pool, books, nft, reg, gov, council, zk, auth, upg, desk

-----------------------------------------------------------------------------
(* The liquidity pool. *)
Pool == INSTANCE LiquidityPool

(* Players and tables are finitely many, and no amount is negative: validate_amount refuses
   it, and settle_table_hand skips such an entry.  A rake has either sign. *)
PoolConstants ==
  IsFiniteSet(Players) /\ IsFiniteSet(Tables) /\ Amounts \subseteq Nat /\ Rakes \subseteq Int

PoolFields == {"deposited", "available", "locked", "allocation", "tables", "players", "kept", "held"}

(* PoolBalanced of any record, but for the tokens held, with the types it needs. *)
PoolBooks(s) ==
  /\ PoolFields \subseteq DOMAIN s
  /\ s.deposited \in [Players -> Int] /\ s.available \in [Players -> Nat]
  /\ s.locked \in [Players -> Nat] /\ s.allocation \in [Players -> [Tables -> Nat]]
  /\ s.tables \in [Players -> SUBSET Tables] /\ s.players \in [Tables -> SUBSET Players]
  /\ s.held \in Int /\ s.kept \in Int
  /\ \A p \in Players :
       /\ s.deposited[p] = s.available[p] + s.locked[p]
       /\ s.locked[p] = SumFunctionOnSet(s.allocation[p], Tables)
       /\ s.tables[p] = {t \in Tables : s.allocation[p][t] > 0}
  /\ \A t \in Tables : s.players[t] = {p \in Players : s.allocation[p][t] > 0}

PoolDeposits(s) == SumFunctionOnSet(s.deposited, Players)

(* The tokens held are the deposits and the rakes that stayed. *)
PoolBacked(s) == s.held >= 0 /\ s.held = PoolDeposits(s) + s.kept

PoolInv == PoolBooks(pool) /\ PoolBacked(pool)

(* A player's available balance changes by a, and her allocation to a table by d; the
   indexes follow. *)
PoolMoved(s, u, p, t, a, d) ==
  /\ PoolFields \subseteq DOMAIN u
  /\ u.available = [s.available EXCEPT ![p] = @ + a]
  /\ u.locked = [s.locked EXCEPT ![p] = @ + d]
  /\ u.deposited = [s.deposited EXCEPT ![p] = @ + (a + d)]
  /\ u.allocation = [s.allocation EXCEPT ![p][t] = @ + d]
  /\ u.tables = s.tables /\ u.players = s.players /\ u.kept = s.kept /\ u.held = s.held

PoolMove(s, u, p, t, a, d, r) ==
  /\ PoolConstants /\ PoolBooks(s) /\ p \in Players /\ t \in Tables /\ a \in Int /\ d \in Int
  /\ s.available[p] + a >= 0 /\ s.allocation[p][t] + d >= 0
  /\ PoolMoved(s, u, p, t, a, d) /\ r = Pool!Indexed(u, {p}, t)

(* A move within the bounds keeps the books. *)
LEMMA PoolMoveKeepsBooks ==
  ASSUME NEW s, NEW u, NEW p, NEW t, NEW a, NEW d, NEW r, PoolMove(s, u, p, t, a, d, r)
  PROVE  /\ PoolBooks(r) /\ DOMAIN r = DOMAIN u /\ r.held = s.held /\ r.kept = s.kept
         /\ PoolDeposits(r) = PoolDeposits(s) + a + d
         /\ r.allocation = u.allocation
<1> USE DEF PoolFields
<1>b. /\ PoolConstants /\ PoolBooks(s) /\ PoolMoved(s, u, p, t, a, d) /\ r = Pool!Indexed(u, {p}, t)
      /\ p \in Players /\ t \in Tables /\ a \in Int /\ d \in Int
      /\ s.available[p] + a >= 0 /\ s.allocation[p][t] + d >= 0
  BY DEF PoolMove
<1> USE <1>b
<1>1. /\ DOMAIN r = DOMAIN u /\ r.held = s.held /\ r.kept = s.kept
      /\ r.available = u.available /\ r.locked = u.locked /\ r.deposited = u.deposited
      /\ r.allocation = u.allocation
      /\ r.tables = [q \in Players |-> IF q # p THEN s.tables[q]
                                       ELSE IF u.allocation[p][t] = 0 THEN s.tables[p] \ {t}
                                       ELSE s.tables[p] \union {t}]
      /\ r.players = [s.players EXCEPT ![t] = IF u.allocation[p][t] = 0 THEN @ \ {p}
                                              ELSE @ \union {p}]
  <2> DEFINE out == {q \in {p} : u.allocation[q][t] = 0}
  <2>1. /\ \A q \in Players : q \in {p} <=> q = p
        /\ out = IF u.allocation[p][t] = 0 THEN {p} ELSE {}
        /\ {p} \ out = IF u.allocation[p][t] = 0 THEN {} ELSE {p}
    OBVIOUS
  <2>2. r = [u EXCEPT !.tables = [q \in Players |-> IF q \in out THEN @[q] \ {t}
                                         ELSE IF q \in {p} THEN @[q] \union {t} ELSE @[q]],
                      !.players[t] = (@ \ out) \union ({p} \ out)]
    BY DEF Pool!Indexed
  <2> HIDE DEF out
  <2>3. /\ DOMAIN r = DOMAIN u /\ r.held = u.held /\ r.kept = u.kept
        /\ r.available = u.available /\ r.locked = u.locked /\ r.deposited = u.deposited
        /\ r.allocation = u.allocation
        /\ r.tables = [q \in Players |-> IF q \in out THEN u.tables[q] \ {t}
                                         ELSE IF q \in {p} THEN u.tables[q] \union {t}
                                         ELSE u.tables[q]]
        /\ r.players = [u.players EXCEPT ![t] = (@ \ out) \union ({p} \ out)]
    BY <2>2 DEF PoolMoved
  <2>4. /\ u.held = s.held /\ u.kept = s.kept /\ u.tables = s.tables /\ u.players = s.players
    BY DEF PoolMoved
  <2>5. CASE u.allocation[p][t] = 0
    BY <2>1, <2>3, <2>4, <2>5
  <2>6. CASE u.allocation[p][t] # 0
    BY <2>1, <2>3, <2>4, <2>6
  <2>7. QED BY <2>5, <2>6
<1>0. /\ u.allocation[p] = [s.allocation[p] EXCEPT ![t] = @ + d]
      /\ \A q \in Players \ {p} : u.allocation[q] = s.allocation[q]
      /\ u.locked[p] = s.locked[p] + d
      /\ \A q \in Players \ {p} : u.locked[q] = s.locked[q]
      /\ u.allocation[p][t] = s.allocation[p][t] + d
  <2>1. s.allocation \in [Players -> [Tables -> Nat]] /\ s.locked \in [Players -> Nat]
    BY DEF PoolBooks
  <2>2. u.allocation[p] = [s.allocation[p] EXCEPT ![t] = @ + d]
    BY <2>1 DEF PoolMoved
  <2>3. \A q \in Players \ {p} : u.allocation[q] = s.allocation[q]
    BY <2>1 DEF PoolMoved
  <2>4. u.allocation[p][t] = s.allocation[p][t] + d
    BY <2>1, <2>2
  <2>5. QED BY <2>1, <2>2, <2>3, <2>4 DEF PoolMoved
<1>2. /\ r.available \in [Players -> Nat] /\ r.deposited \in [Players -> Int]
      /\ r.allocation \in [Players -> [Tables -> Nat]]
  <2>1. /\ s.available \in [Players -> Nat] /\ s.deposited \in [Players -> Int]
        /\ s.allocation \in [Players -> [Tables -> Nat]]
    BY DEF PoolBooks
  <2>2. /\ r.available = [s.available EXCEPT ![p] = @ + a]
        /\ r.deposited = [s.deposited EXCEPT ![p] = @ + (a + d)]
        /\ r.allocation = [s.allocation EXCEPT ![p][t] = @ + d]
    BY <1>1 DEF PoolMoved
  <2>3. s.available[p] + a \in Nat /\ s.deposited[p] + (a + d) \in Int /\ s.allocation[p][t] + d \in Nat
    BY <2>1
  <2>4. r.available \in [Players -> Nat]
    BY <2>1, <2>2, <2>3
  <2>5. r.deposited \in [Players -> Int]
    BY <2>1, <2>2, <2>3
  <2>6. r.allocation \in [Players -> [Tables -> Nat]]
    <3>1. s.allocation[p] \in [Tables -> Nat]
      BY <2>1
    <3>2. [s.allocation[p] EXCEPT ![t] = @ + d] \in [Tables -> Nat]
      BY <2>3, <3>1
    <3>3. r.allocation = [s.allocation EXCEPT ![p] = [s.allocation[p] EXCEPT ![t] = @ + d]]
      BY <2>2
    <3>4. QED BY <2>1, <3>2, <3>3
  <2>7. QED BY <2>4, <2>5, <2>6
<1>3. ASSUME NEW q \in Players
      PROVE  r.locked[q] = SumFunctionOnSet(r.allocation[q], Tables)
  <2>1. CASE q = p
    <3>1. SumFunctionOnSet(r.allocation[p], Tables) =
            SumFunctionOnSet(s.allocation[p], Tables) - s.allocation[p][t] + r.allocation[p][t]
      <4> DEFINE f == s.allocation[p]
                 g == r.allocation[p]
      <4>1. f \in [Tables -> Nat] /\ g = [f EXCEPT ![t] = @ + d] /\ g[t] \in Nat
        BY <1>0, <1>1, <1>2 DEF PoolBooks
      <4>2. IsFiniteSet(Tables) BY DEF PoolConstants
      <4> HIDE DEF f, g
      <4>3. \A v \in Tables : f[v] \in Int /\ g[v] \in Int /\ (v # t => g[v] = f[v])
        BY <4>1
      <4>4. SumFunctionOnSet(g, Tables) = SumFunctionOnSet(f, Tables) - f[t] + g[t]
        BY <4>2, <4>3, SumChange
      <4>5. QED BY <4>4 DEF f, g
    <3>2. r.allocation[p][t] = s.allocation[p][t] + d /\ r.locked[p] = s.locked[p] + d
      BY <1>0, <1>1
    <3>3. s.locked[p] = SumFunctionOnSet(s.allocation[p], Tables) /\ s.locked[p] \in Nat /\ s.allocation[p][t] \in Nat
      BY DEF PoolBooks
    <3>4. QED BY <2>1, <3>1, <3>2, <3>3
  <2>2. CASE q # p
    BY <2>2, <1>0, <1>1 DEF PoolBooks
  <2>3. QED BY <2>1, <2>2
<1>4. r.locked \in [Players -> Nat]
  <2>1. \A q \in Players : SumFunctionOnSet(r.allocation[q], Tables) \in Nat
    BY <1>2, SumNat DEF PoolConstants
  <2>2. r.locked = [q \in Players |-> r.locked[q]]
    BY <1>1 DEF PoolMoved, PoolBooks
  <2>3. QED BY <2>1, <2>2, <1>3
<1>5. \A q \in Players : r.deposited[q] = r.available[q] + r.locked[q]
  <2>1. /\ s.available \in [Players -> Nat] /\ s.locked \in [Players -> Nat]
        /\ s.deposited \in [Players -> Int]
        /\ \A q \in Players : s.deposited[q] = s.available[q] + s.locked[q]
    BY DEF PoolBooks
  <2>2. /\ r.available = [s.available EXCEPT ![p] = @ + a]
        /\ r.locked = [s.locked EXCEPT ![p] = @ + d]
        /\ r.deposited = [s.deposited EXCEPT ![p] = @ + (a + d)]
    BY <1>1 DEF PoolMoved
  <2>3. ASSUME NEW q \in Players PROVE r.deposited[q] = r.available[q] + r.locked[q]
    <3>1. /\ s.available[q] \in Nat /\ s.locked[q] \in Nat
          /\ s.deposited[q] = s.available[q] + s.locked[q]
      BY <2>1
    <3>2. CASE q = p
      <4>1. /\ r.available[q] = s.available[q] + a /\ r.locked[q] = s.locked[q] + d
            /\ r.deposited[q] = s.deposited[q] + (a + d)
        BY <2>1, <2>2, <3>2
      <4>2. QED BY <3>1, <4>1
    <3>3. CASE q # p
      <4>1. /\ r.available[q] = s.available[q] /\ r.locked[q] = s.locked[q]
            /\ r.deposited[q] = s.deposited[q]
        BY <2>1, <2>2, <3>3
      <4>2. QED BY <3>1, <4>1
    <3>4. QED BY <3>2, <3>3
  <2>4. QED BY <2>3
<1>6. \A q \in Players, v \in Tables :
         r.allocation[q][v] = IF q = p /\ v = t THEN s.allocation[p][t] + d ELSE s.allocation[q][v]
  <2>1. s.allocation \in [Players -> [Tables -> Nat]]
    BY DEF PoolBooks
  <2>2. r.allocation = [s.allocation EXCEPT ![p][t] = @ + d]
    BY <1>1 DEF PoolMoved
  <2>3. QED BY <2>1, <2>2
<1>7. /\ r.tables \in [Players -> SUBSET Tables] /\ r.players \in [Tables -> SUBSET Players]
      /\ \A q \in Players : r.tables[q] = {v \in Tables : r.allocation[q][v] > 0}
      /\ \A v \in Tables : r.players[v] = {q \in Players : r.allocation[q][v] > 0}
  <2>1. /\ s.tables \in [Players -> SUBSET Tables] /\ s.players \in [Tables -> SUBSET Players]
        /\ s.allocation \in [Players -> [Tables -> Nat]]
        /\ \A q \in Players : s.tables[q] = {v \in Tables : s.allocation[q][v] > 0}
        /\ \A v \in Tables : s.players[v] = {q \in Players : s.allocation[q][v] > 0}
    BY DEF PoolBooks
  <2>2. u.allocation[p][t] = s.allocation[p][t] + d /\ u.allocation[p][t] \in Nat
    BY <1>0, <2>1
  <2>3. /\ r.tables \in [Players -> SUBSET Tables] /\ r.players \in [Tables -> SUBSET Players]
        /\ \A q \in Players : r.tables[q] = IF q # p THEN s.tables[q]
                                          ELSE IF u.allocation[p][t] = 0 THEN s.tables[p] \ {t}
                                          ELSE s.tables[p] \union {t}
        /\ \A v \in Tables : r.players[v] = IF v # t THEN s.players[v]
                                           ELSE IF u.allocation[p][t] = 0 THEN s.players[t] \ {p}
                                           ELSE s.players[t] \union {p}
    <3>1. r.tables \in [Players -> SUBSET Tables]
      <4> DEFINE Y(q) == IF q # p THEN s.tables[q]
                         ELSE IF u.allocation[p][t] = 0 THEN s.tables[p] \ {t}
                         ELSE s.tables[p] \union {t}
      <4>1. r.tables = [q \in Players |-> Y(q)]
        BY <1>1
      <4>2. \A q \in Players : Y(q) \in SUBSET Tables
        BY <2>1
      <4> HIDE DEF Y
      <4>3. QED BY <4>1, <4>2
    <3> DEFINE X == IF u.allocation[p][t] = 0 THEN s.players[t] \ {p} ELSE s.players[t] \union {p}
    <3>6. r.players = [s.players EXCEPT ![t] = X]
      BY <1>1
    <3>7. X \in SUBSET Players
      BY <2>1
    <3> HIDE DEF X
    <3>2. r.players \in [Tables -> SUBSET Players]
      BY <2>1, <3>6, <3>7
    <3>3. \A q \in Players : r.tables[q] = IF q # p THEN s.tables[q]
                                          ELSE IF u.allocation[p][t] = 0 THEN s.tables[p] \ {t}
                                          ELSE s.tables[p] \union {t}
      BY <1>1
    <3>4. \A v \in Tables : r.players[v] = IF v # t THEN s.players[v]
                                           ELSE IF u.allocation[p][t] = 0 THEN s.players[t] \ {p}
                                           ELSE s.players[t] \union {p}
      BY <2>1, <3>6 DEF X
    <3>5. QED BY <3>1, <3>2, <3>3, <3>4
  <2>4. ASSUME NEW q \in Players, NEW v \in Tables
        PROVE  /\ v \in r.tables[q] <=> r.allocation[q][v] > 0
               /\ q \in r.players[v] <=> r.allocation[q][v] > 0
    <3>1. /\ v \in s.tables[q] <=> s.allocation[q][v] > 0
          /\ q \in s.players[v] <=> s.allocation[q][v] > 0
          /\ r.allocation[q][v] = IF q = p /\ v = t THEN u.allocation[p][t] ELSE s.allocation[q][v]
      BY <1>6, <2>1, <2>2
    <3>2. /\ r.tables[q] = IF q # p THEN s.tables[q]
                           ELSE IF u.allocation[p][t] = 0 THEN s.tables[p] \ {t}
                           ELSE s.tables[p] \union {t}
          /\ r.players[v] = IF v # t THEN s.players[v]
                            ELSE IF u.allocation[p][t] = 0 THEN s.players[t] \ {p}
                            ELSE s.players[t] \union {p}
      BY <2>3
    <3> HIDE <1>b
    <3>3. CASE q = p /\ v = t
      BY <2>2, <3>1, <3>2, <3>3
    <3>4. CASE q # p
      BY <3>1, <3>2, <3>4
    <3>5. CASE v # t
      BY <3>1, <3>2, <3>5
    <3>6. QED BY <3>3, <3>4, <3>5
  <2>5. QED BY <2>3, <2>4
<1>8. PoolDeposits(r) = PoolDeposits(s) + a + d
  <2>1. SumFunctionOnSet(r.deposited, Players) =
          SumFunctionOnSet(s.deposited, Players) - s.deposited[p] + r.deposited[p]
    <3> DEFINE f == s.deposited
               g == r.deposited
    <3>1. \A v \in Players : f[v] \in Int /\ g[v] \in Int /\ (v # p => g[v] = f[v])
      BY <1>1 DEF PoolMoved, PoolBooks
    <3> HIDE DEF f, g
    <3>2. SumFunctionOnSet(g, Players) = SumFunctionOnSet(f, Players) - f[p] + g[p]
      BY <3>1, SumChange DEF PoolConstants
    <3>3. QED BY <3>2 DEF f, g
  <2>2. SumFunctionOnSet(s.deposited, Players) \in Int
    BY SumInt DEF PoolConstants, PoolBooks
  <2>3. r.deposited[p] = s.deposited[p] + (a + d) /\ s.deposited[p] \in Int
    BY <1>1 DEF PoolMoved, PoolBooks
  <2>4. QED BY <2>1, <2>2, <2>3 DEF PoolDeposits
<1>9. s.held \in Int /\ s.kept \in Int
  BY DEF PoolBooks
<1>10. PoolBooks(r)
  BY <1>1, <1>2, <1>3, <1>4, <1>5, <1>7, <1>9 DEF PoolBooks, PoolMoved
<1>11. DOMAIN r = DOMAIN u /\ r.held = s.held /\ r.kept = s.kept
  BY <1>1
<1>12. QED BY <1>1, <1>8, <1>10, <1>11

(* The module's own instance of the sum is the one the facts above are about. *)
LEMMA PoolTotal ==
  ASSUME NEW f, NEW S
  PROVE  Pool!Total(f, S) = SumFunctionOnSet(f, S)
BY SumIsFold DEF Pool!Total, Pool!SumFunctionOnSet, Pool!FoldFunctionOnSet, Pool!MapThenFoldSet,
       Sum, IsSum, Pick

LEMMA PoolDepositsInt ==
  ASSUME PoolConstants, NEW s, PoolBooks(s)
  PROVE  PoolDeposits(s) \in Int
BY SumInt DEF PoolConstants, PoolBooks, PoolDeposits

PoolStep == PoolConstants /\ PoolInv

(* An allocation moves chips from the available balance to a table. *)
LEMMA PoolAllocate ==
  ASSUME PoolStep, NEW c, NEW p \in Players, NEW t \in Tables, NEW x \in Amounts,
         Pool!AllocateToTable(c, p, t, x)
  PROVE  PoolInv'
<1> DEFINE u == [pool EXCEPT !.available[p] = @ - x, !.locked[p] = @ + x,
                             !.allocation[p][t] = @ + x,
                             !.total[t] = @ + x, !.idle[t] = 0]
<1>0. x \in Nat /\ x \in Int /\ -x \in Int BY DEF PoolStep, PoolConstants
<1>1. /\ PoolBooks(pool) /\ pool.available[p] + (-x) >= 0 /\ pool.allocation[p][t] + x >= 0
      /\ pool.available[p] >= x /\ pool.available[p] \in Nat
      /\ pool.allocation[p][t] \in Nat
  BY <1>0 DEF PoolStep, PoolInv, PoolBooks, Pool!AllocateToTable
<1>2. PoolMoved(pool, u, p, t, -x, x)
  BY <1>0, <1>1, SMTT(30) DEF PoolMoved, PoolBooks, PoolFields
<1>3. pool' = Pool!Indexed(u, {p}, t)
  BY DEF Pool!AllocateToTable
<1> HIDE DEF u
<1>4. /\ PoolBooks(pool') /\ pool'.held = pool.held /\ pool'.kept = pool.kept
      /\ PoolDeposits(pool') = PoolDeposits(pool) + (-x) + x
  <2>1. PoolMove(pool, u, p, t, -x, x, pool')
    BY <1>0, <1>1, <1>2, <1>3 DEF PoolMove, PoolStep
  <2>2. QED BY <2>1, PoolMoveKeepsBooks
<1>5. QED BY <1>0, <1>4, PoolDepositsInt DEF PoolStep, PoolInv, PoolBacked, PoolBooks, PoolDeposits

(* A deallocation moves them back. *)
LEMMA PoolDeallocate ==
  ASSUME PoolStep, NEW c, NEW p \in Players, NEW t \in Tables, NEW x \in Amounts,
         Pool!DeallocateFromTable(c, p, t, x)
  PROVE  PoolInv'
<1> DEFINE u == [pool EXCEPT !.available[p] = @ + x, !.locked[p] = @ - x,
                             !.allocation[p][t] = @ - x,
                             !.total[t] = IF @ >= x THEN @ - x ELSE 0,
                             !.idle[t] = 0]
<1>0. x \in Nat /\ x \in Int /\ -x \in Int BY DEF PoolStep, PoolConstants
<1>1. /\ PoolBooks(pool) /\ pool.available[p] + x >= 0 /\ pool.allocation[p][t] + (-x) >= 0
      /\ pool.allocation[p][t] >= x /\ pool.available[p] \in Nat
      /\ pool.allocation[p][t] \in Nat
  BY <1>0 DEF PoolStep, PoolInv, PoolBooks, Pool!DeallocateFromTable
<1>2. PoolMoved(pool, u, p, t, x, -x)
  <2>1. /\ u.available = [pool.available EXCEPT ![p] = @ + x]
        /\ u.locked = [pool.locked EXCEPT ![p] = @ - x]
        /\ u.deposited = pool.deposited
        /\ u.allocation = [pool.allocation EXCEPT ![p][t] = @ - x]
        /\ u.tables = pool.tables /\ u.players = pool.players /\ u.kept = pool.kept
        /\ u.held = pool.held
        /\ PoolFields \subseteq DOMAIN u
    BY <1>1 DEF PoolBooks, PoolFields
  <2>2. /\ pool.locked[p] - x = pool.locked[p] + (-x)
        /\ pool.allocation[p][t] - x = pool.allocation[p][t] + (-x)
        /\ pool.deposited[p] + (x + (-x)) = pool.deposited[p]
    BY <1>0, <1>1 DEF PoolBooks
  <2>3. pool.deposited = [pool.deposited EXCEPT ![p] = pool.deposited[p]]
    BY <1>1 DEF PoolBooks
  <2>4. QED BY <2>1, <2>2, <2>3 DEF PoolMoved
<1>3. pool' = Pool!Indexed(u, {p}, t)
  BY DEF Pool!DeallocateFromTable
<1> HIDE DEF u
<1>4. /\ PoolBooks(pool') /\ pool'.held = pool.held /\ pool'.kept = pool.kept
      /\ PoolDeposits(pool') = PoolDeposits(pool) + x + (-x)
  <2>1. PoolMove(pool, u, p, t, x, -x, pool')
    BY <1>0, <1>1, <1>2, <1>3 DEF PoolMove, PoolStep
  <2>2. QED BY <2>1, PoolMoveKeepsBooks
<1>5. QED BY <1>0, <1>4, PoolDepositsInt DEF PoolStep, PoolInv, PoolBacked, PoolBooks, PoolDeposits

(* The emergency unlock moves what a table holds back. *)
LEMMA PoolUnlock ==
  ASSUME PoolStep, NEW p \in Players, NEW t \in Tables, Pool!EmergencyUnlock(p, t)
  PROVE  PoolInv'
<1> DEFINE x == pool.allocation[p][t]
           u == [pool EXCEPT !.available[p] = @ + pool.allocation[p][t],
                             !.locked[p] = @ - pool.allocation[p][t],
                             !.allocation[p][t] = 0]
<1>1. PoolBooks(pool) /\ pool.available[p] \in Nat /\ x \in Nat
  BY DEF PoolStep, PoolInv, PoolBooks
<1>2. PoolMoved(pool, u, p, t, x, -x)
  <2>1. /\ u.available = [pool.available EXCEPT ![p] = @ + x]
        /\ u.locked = [pool.locked EXCEPT ![p] = @ - x]
        /\ u.deposited = pool.deposited
        /\ u.allocation = [pool.allocation EXCEPT ![p][t] = 0]
        /\ u.tables = pool.tables /\ u.players = pool.players /\ u.kept = pool.kept
        /\ u.held = pool.held
        /\ PoolFields \subseteq DOMAIN u
    BY <1>1 DEF PoolBooks, PoolFields
  <2>2. /\ pool.locked[p] - x = pool.locked[p] + (-x)
        /\ pool.allocation[p][t] + (-x) = 0
        /\ pool.deposited[p] + (x + (-x)) = pool.deposited[p]
    BY <1>1 DEF PoolBooks
  <2>3. pool.deposited = [pool.deposited EXCEPT ![p] = pool.deposited[p]]
    BY <1>1 DEF PoolBooks
  <2>4. QED BY <2>1, <2>2, <2>3 DEF PoolMoved
<1>3. pool' = Pool!Indexed(u, {p}, t)
  BY DEF Pool!EmergencyUnlock
<1>5. pool.available[p] + x >= 0 /\ pool.allocation[p][t] + (-x) >= 0 /\ x \in Int /\ -x \in Int
  BY <1>1
<1> HIDE DEF u, x
<1>4. /\ PoolBooks(pool') /\ pool'.held = pool.held /\ pool'.kept = pool.kept
      /\ PoolDeposits(pool') = PoolDeposits(pool) + x + (-x)
  <2>1. PoolMove(pool, u, p, t, x, -x, pool')
    BY <1>1, <1>2, <1>3, <1>5 DEF PoolMove, PoolStep
  <2>2. QED BY <2>1, PoolMoveKeepsBooks
<1>6. PoolDeposits(pool') = PoolDeposits(pool) /\ PoolBacked(pool)
  <2>1. PoolDeposits(pool) \in Int
    BY <1>1, PoolDepositsInt DEF PoolStep
  <2>2. QED BY <1>4, <1>5, <2>1 DEF PoolStep, PoolInv
<1>7. QED BY <1>4, <1>6 DEF PoolInv, PoolBacked, PoolBooks, PoolDeposits

(* The results d of a hand at a table, all players at once. *)
PoolHand(s, r, t, d) ==
  /\ PoolFields \subseteq DOMAIN r /\ r.available = s.available
  /\ r.locked = [p \in Players |-> s.locked[p] + d[p]]
  /\ r.deposited = [p \in Players |-> s.deposited[p] + d[p]]
  /\ r.allocation = [p \in Players |-> [s.allocation[p] EXCEPT ![t] = @ + d[p]]]
  /\ r.tables \in [Players -> SUBSET Tables] /\ r.players \in [Tables -> SUBSET Players]
  /\ \A p \in Players : r.tables[p] = {v \in Tables : r.allocation[p][v] > 0}
  /\ \A v \in Tables : r.players[v] = {p \in Players : r.allocation[p][v] > 0}
  /\ r.kept \in Int /\ r.held \in Int

LEMMA PoolHandKeepsBooks ==
  ASSUME PoolConstants, NEW s, PoolBooks(s), NEW r, NEW t \in Tables, NEW d \in [Players -> Int],
         \A p \in Players : s.allocation[p][t] + d[p] >= 0, PoolHand(s, r, t, d)
  PROVE  PoolBooks(r) /\ PoolDeposits(r) = PoolDeposits(s) + SumFunctionOnSet(d, Players)
<1>1. /\ s.locked \in [Players -> Nat] /\ s.deposited \in [Players -> Int]
      /\ s.allocation \in [Players -> [Tables -> Nat]]
      /\ IsFiniteSet(Players) /\ IsFiniteSet(Tables)
  BY DEF PoolBooks, PoolConstants
<1>2. ASSUME NEW p \in Players
      PROVE  /\ r.allocation[p] \in [Tables -> Nat] /\ r.locked[p] \in Nat
             /\ r.locked[p] = SumFunctionOnSet(r.allocation[p], Tables)
             /\ r.deposited[p] = r.available[p] + r.locked[p]
  <2> DEFINE f == s.allocation[p]
             g == r.allocation[p]
  <2>1. f \in [Tables -> Nat] /\ g = [f EXCEPT ![t] = @ + d[p]] /\ f[t] + d[p] \in Nat
    BY <1>1 DEF PoolHand
  <2>2. r.locked[p] = s.locked[p] + d[p] /\ s.locked[p] = SumFunctionOnSet(f, Tables)
    BY DEF PoolHand, PoolBooks
  <2>3. r.deposited[p] = s.deposited[p] + d[p] /\ s.deposited[p] = s.available[p] + s.locked[p]
    BY DEF PoolHand, PoolBooks
  <2>4. s.available[p] \in Nat /\ r.available[p] = s.available[p] /\ d[p] \in Int
    BY DEF PoolHand, PoolBooks
  <2> HIDE DEF f, g
  <2>5. \A v \in Tables : f[v] \in Int /\ g[v] \in Nat /\ g[v] \in Int /\ (v # t => g[v] = f[v])
    BY <2>1
  <2>6. SumFunctionOnSet(g, Tables) = SumFunctionOnSet(f, Tables) - f[t] + g[t]
    BY <1>1, <2>5, SumChange
  <2>7. SumFunctionOnSet(f, Tables) \in Int /\ SumFunctionOnSet(g, Tables) \in Nat
    BY <1>1, <2>5, SumInt, SumNat
  <2>8. g[t] = f[t] + d[p] /\ f[t] \in Int /\ g \in [Tables -> Nat]
    BY <2>1
  <2>9. r.locked[p] = SumFunctionOnSet(g, Tables)
    BY <2>2, <2>4, <2>6, <2>7, <2>8
  <2>10. r.deposited[p] = r.available[p] + r.locked[p]
    BY <1>1, <2>2, <2>3, <2>4
  <2>11. QED BY <2>7, <2>8, <2>9, <2>10 DEF g
<1>3. /\ r.allocation \in [Players -> [Tables -> Nat]] /\ r.locked \in [Players -> Nat]
      /\ r.deposited \in [Players -> Int] /\ r.available \in [Players -> Nat]
  BY <1>1, <1>2 DEF PoolHand, PoolBooks
<1>4. PoolBooks(r)
  BY <1>2, <1>3 DEF PoolHand, PoolBooks
<1>5. PoolDeposits(r) = PoolDeposits(s) + SumFunctionOnSet(d, Players)
  <2> DEFINE f == s.deposited
             h == r.deposited
  <2>1. \A p \in Players : f[p] \in Int /\ d[p] \in Int /\ h[p] = f[p] + d[p]
    BY <1>1 DEF PoolHand
  <2> HIDE DEF f, h
  <2>2. SumFunctionOnSet(h, Players) = SumFunctionOnSet(f, Players) + SumFunctionOnSet(d, Players)
    <3>1. IsFiniteSet(Players) BY <1>1
    <3>2. QED BY <3>1, <2>1, SumPlus
  <2>3. QED BY <2>2 DEF f, h, PoolDeposits
<1>6. QED BY <1>4, <1>5

(* A player whose allocation is not zero after the hand is listed, because she was before
   or because the hand lists her. *)
PoolListed(losses, wins) == {p \in Players : losses[p] > 0 \/ wins[p] > 0}

LEMMA PoolSettled ==
  ASSUME PoolStep, NEW c, NEW t \in Tables, NEW losses \in Pool!Losses(t),
         NEW wins \in Pool!Results, NEW k \in Rakes, NEW paid \in BOOLEAN,
         Pool!SettleTableHand(c, t, losses, wins, k, paid),
         NEW d, d = [p \in Players |-> wins[p] - losses[p]]
  PROVE  /\ d \in [Players -> Int] /\ \A p \in Players : pool.allocation[p][t] + d[p] >= 0
         /\ PoolHand(pool, pool', t, d)
         /\ \E x \in Int : /\ pool'.held = pool.held - x /\ pool'.kept = pool.kept + k - x
                          /\ pool.held >= x
<1> USE DEF PoolFields
<1> DEFINE u == [Pool!Settled(pool, t, losses, wins) EXCEPT
                   !.idle[t] = 0, !.held = @ - (IF k > 0 /\ paid THEN k ELSE 0),
                   !.kept = @ + k - (IF k > 0 /\ paid THEN k ELSE 0)]
           who == PoolListed(losses, wins)
           out == {p \in who : u.allocation[p][t] = 0}
<1>0. PoolBooks(pool) /\ PoolConstants /\ k \in Int
  BY DEF PoolStep, PoolInv, PoolConstants
<1>1. /\ losses \in [Players -> Nat] /\ wins \in [Players -> Nat]
      /\ \A p \in Players : losses[p] <= pool.allocation[p][t]
  <2>1. /\ losses \in [Players -> Amounts \union {0}] /\ wins \in [Players -> Amounts \union {0}]
        /\ \A p \in Players : losses[p] <= pool.allocation[p][t]
    BY DEF Pool!Losses, Pool!Results
  <2>2. Amounts \union {0} \subseteq Nat
    BY <1>0 DEF PoolConstants
  <2>3. QED BY <2>1, <2>2
<1>2. d \in [Players -> Int] /\ \A p \in Players : d[p] = wins[p] - losses[p]
  BY <1>1
<1>3. ASSUME NEW p \in Players
      PROVE  /\ pool.allocation[p] \in [Tables -> Nat] /\ pool.allocation[p][t] + d[p] >= 0
             /\ d[p] \in Int
             /\ p \notin who => d[p] = 0
  BY <1>0, <1>1, <1>2 DEF PoolBooks, PoolListed
<1>4. pool' = Pool!Indexed(u, who, t)
  BY DEF Pool!SettleTableHand, PoolListed
<1>5. /\ DOMAIN u = DOMAIN pool /\ u.available = pool.available
      /\ u.tables = pool.tables /\ u.players = pool.players
      /\ u.locked = [p \in Players |-> pool.locked[p] + d[p]]
      /\ u.deposited = [p \in Players |-> pool.deposited[p] + d[p]]
      /\ u.allocation = [p \in Players |-> [pool.allocation[p] EXCEPT ![t] = @ + d[p]]]
      /\ u.held = pool.held - (IF k > 0 /\ paid THEN k ELSE 0)
      /\ u.kept = pool.kept + k - (IF k > 0 /\ paid THEN k ELSE 0)
  <2> DEFINE leaves == IF k > 0 /\ paid THEN k ELSE 0
             w == Pool!Settled(pool, t, losses, wins)
  <2>1. PoolFields \subseteq DOMAIN pool
    BY <1>0 DEF PoolBooks
  <2>2. u = [w EXCEPT !.idle[t] = 0, !.held = @ - leaves, !.kept = @ + k - leaves]
    OBVIOUS
  <2> HIDE DEF leaves
  <2>3. /\ DOMAIN w = DOMAIN pool /\ w.available = pool.available
        /\ w.tables = pool.tables /\ w.players = pool.players /\ w.held = pool.held
        /\ w.kept = pool.kept
    BY <2>1 DEF Pool!Settled
  <2>6. w.locked = [p \in Players |-> pool.locked[p] + (wins[p] - losses[p])]
    BY <2>1 DEF Pool!Settled
  <2>7. w.deposited = [p \in Players |-> pool.deposited[p] + (wins[p] - losses[p])]
    BY <2>1 DEF Pool!Settled
  <2>8. w.allocation = [p \in Players |-> [pool.allocation[p] EXCEPT ![t] = @ + (wins[p] - losses[p])]]
    BY <2>1 DEF Pool!Settled
  <2> HIDE DEF w
  <2>4. /\ w.locked = [p \in Players |-> pool.locked[p] + d[p]]
        /\ w.deposited = [p \in Players |-> pool.deposited[p] + d[p]]
        /\ w.allocation = [p \in Players |-> [pool.allocation[p] EXCEPT ![t] = @ + d[p]]]
    BY <1>2, <2>6, <2>7, <2>8
  <2>9. /\ DOMAIN u = DOMAIN w /\ u.available = w.available /\ u.tables = w.tables
        /\ u.players = w.players /\ u.locked = w.locked /\ u.deposited = w.deposited
        /\ u.allocation = w.allocation
    BY <2>1, <2>2, <2>3
  <2>10. u.held = w.held - leaves /\ u.kept = w.kept + k - leaves
    BY <2>1, <2>2, <2>3
  <2>5. QED BY <2>3, <2>4, <2>9, <2>10 DEF leaves
<1> HIDE DEF u, who
<1>6. /\ DOMAIN pool' = DOMAIN u
      /\ \A f \in PoolFields \ {"tables", "players"} : pool'[f] = u[f]
      /\ pool'.tables = [p \in Players |-> IF p \in out THEN u.tables[p] \ {t}
                                           ELSE IF p \in who THEN u.tables[p] \union {t}
                                           ELSE u.tables[p]]
      /\ pool'.players = [u.players EXCEPT ![t] = (@ \ out) \union (who \ out)]
  <2>1. PoolFields \subseteq DOMAIN u
    BY <1>0, <1>5 DEF PoolBooks
  <2>2. QED BY <1>4, <2>1 DEF Pool!Indexed
<1>7. who \subseteq Players
  BY DEF who, PoolListed
<1>8. ASSUME NEW p \in Players, NEW v \in Tables
      PROVE  /\ pool'.allocation[p][v] = u.allocation[p][v] /\ u.allocation[p][v] \in Nat
             /\ v # t => u.allocation[p][v] = pool.allocation[p][v]
             /\ p \notin who => u.allocation[p][v] = pool.allocation[p][v]
  <2>1. u.allocation[p] = [pool.allocation[p] EXCEPT ![t] = @ + d[p]]
    BY <1>5
  <2>2. pool'.allocation = u.allocation
    BY <1>6
  <2>3. QED BY <1>3, <2>1, <2>2
<1>9. /\ pool'.tables \in [Players -> SUBSET Tables] /\ pool'.players \in [Tables -> SUBSET Players]
      /\ pool.tables \in [Players -> SUBSET Tables] /\ pool.players \in [Tables -> SUBSET Players]
      /\ \A p \in Players : pool.tables[p] = {v \in Tables : pool.allocation[p][v] > 0}
      /\ \A v \in Tables : pool.players[v] = {p \in Players : pool.allocation[p][v] > 0}
  BY <1>0, <1>5, <1>6, <1>7 DEF PoolBooks
<1>10. ASSUME NEW p \in Players PROVE pool'.tables[p] = {v \in Tables : pool'.allocation[p][v] > 0}
  <2>1. pool'.tables[p] = IF p \in out THEN pool.tables[p] \ {t}
                          ELSE IF p \in who THEN pool.tables[p] \union {t} ELSE pool.tables[p]
    BY <1>5, <1>6
  <2>2. \A v \in Tables : pool'.allocation[p][v] \in Nat
    BY <1>8
  <2>3. ASSUME NEW v \in Tables PROVE v \in pool'.tables[p] <=> pool'.allocation[p][v] > 0
    <3>1. v \in pool.tables[p] <=> pool.allocation[p][v] > 0
      BY <1>9
    <3>2. CASE v # t
      BY <1>8, <2>1, <3>1, <3>2
    <3>3. CASE v = t
      BY <1>8, <2>1, <2>2, <3>1, <3>3
    <3>4. QED BY <3>2, <3>3
  <2>4. pool'.tables[p] \subseteq Tables
    BY <1>9
  <2>5. QED BY <2>3, <2>4
<1>11. ASSUME NEW v \in Tables PROVE pool'.players[v] = {p \in Players : pool'.allocation[p][v] > 0}
  <2>1. pool'.players[v] = IF v = t THEN (pool.players[t] \ out) \union (who \ out)
                           ELSE pool.players[v]
    BY <1>5, <1>6, <1>9, SMTT(30)
  <2>2. ASSUME NEW p \in Players PROVE p \in pool'.players[v] <=> pool'.allocation[p][v] > 0
    <3>1. p \in pool.players[v] <=> pool.allocation[p][v] > 0
      BY <1>9
    <3>2. CASE v # t
      BY <1>8, <2>1, <3>1, <3>2
    <3>3. CASE v = t
      BY <1>8, <2>1, <3>1, <3>3
    <3>4. QED BY <3>2, <3>3
  <2>3. pool'.players[v] \subseteq Players
    BY <1>9
  <2>4. QED BY <2>2, <2>3
<1>12. /\ pool'.held = pool.held - (IF k > 0 /\ paid THEN k ELSE 0)
       /\ pool'.kept = pool.kept + k - (IF k > 0 /\ paid THEN k ELSE 0)
       /\ pool.held \in Int /\ pool.kept \in Int
       /\ pool.held >= IF k > 0 /\ paid THEN k ELSE 0
  BY <1>0, <1>5, <1>6 DEF PoolBooks, Pool!SettleTableHand
<1>13. PoolHand(pool, pool', t, d)
  <2>1. PoolFields \subseteq DOMAIN pool'
    BY <1>0, <1>5, <1>6 DEF PoolBooks
  <2>2. /\ pool'.available = pool.available /\ pool'.locked = u.locked
        /\ pool'.deposited = u.deposited /\ pool'.allocation = u.allocation
    BY <1>5, <1>6
  <2>3. pool'.held \in Int /\ pool'.kept \in Int
    BY <1>0, <1>12
  <2>4. QED BY <1>5, <1>9, <1>10, <1>11, <2>1, <2>2, <2>3 DEF PoolHand
<1>14. QED BY <1>0, <1>2, <1>3, <1>12, <1>13

(* A hand changes the players' allocations by what they lost and won, and what it adds to
   or takes from the deposits stays in the pool, leaves it, or was never there. *)
LEMMA PoolSettle ==
  ASSUME PoolStep, NEW c, NEW t \in Tables, NEW losses \in Pool!Losses(t),
         NEW wins \in Pool!Results, NEW k \in Rakes, NEW paid \in BOOLEAN,
         Pool!SettleTableHand(c, t, losses, wins, k, paid)
  PROVE  PoolInv'
<1> DEFINE d == [p \in Players |-> wins[p] - losses[p]]
<1>0. PoolBooks(pool) /\ PoolBacked(pool) /\ PoolConstants /\ k \in Int
  BY DEF PoolStep, PoolInv, PoolConstants
<1>1. /\ d \in [Players -> Int] /\ \A p \in Players : pool.allocation[p][t] + d[p] >= 0
      /\ PoolHand(pool, pool', t, d)
      /\ \E x \in Int : /\ pool'.held = pool.held - x /\ pool'.kept = pool.kept + k - x
                       /\ pool.held >= x
  BY PoolSettled
<1>2. SumFunctionOnSet(losses, Players) = SumFunctionOnSet(wins, Players) + k
  BY PoolTotal DEF Pool!SettleTableHand
<1>3. SumFunctionOnSet(d, Players) = -k
  <2>1. \A p \in Players : /\ losses[p] \in Int /\ wins[p] \in Int /\ d[p] \in Int
                          /\ wins[p] = losses[p] + d[p]
    <3>1. losses \in [Players -> Amounts \union {0}] /\ wins \in [Players -> Amounts \union {0}]
      BY DEF Pool!Losses, Pool!Results
    <3>2. Amounts \union {0} \subseteq Nat
      BY <1>0 DEF PoolConstants
    <3>3. QED BY <3>1, <3>2
  <2> HIDE DEF d
  <2>2. SumFunctionOnSet(wins, Players) =
          SumFunctionOnSet(losses, Players) + SumFunctionOnSet(d, Players)
    BY <1>0, <2>1, SumPlus DEF PoolConstants
  <2>3. /\ SumFunctionOnSet(wins, Players) \in Int /\ SumFunctionOnSet(losses, Players) \in Int
        /\ SumFunctionOnSet(d, Players) \in Int
    BY <1>0, <2>1, SumInt DEF PoolConstants
  <2>4. QED BY <1>0, <1>2, <2>2, <2>3
<1> HIDE DEF d
<1>4. PoolBooks(pool') /\ PoolDeposits(pool') = PoolDeposits(pool) + SumFunctionOnSet(d, Players)
  BY <1>0, <1>1, PoolHandKeepsBooks
<1>5. PoolDeposits(pool) \in Int /\ pool.held \in Int /\ pool.kept \in Int
  BY <1>0, PoolDepositsInt DEF PoolBooks
<1>6. pool'.held >= 0 /\ pool'.held = PoolDeposits(pool') + pool'.kept
  BY <1>0, <1>1, <1>3, <1>4, <1>5 DEF PoolBacked
<1>7. QED BY <1>4, <1>6 DEF PoolInv, PoolBooks, PoolBacked, PoolDeposits

(* A deposit and a withdrawal change the available balance and nothing at a table. *)
LEMMA PoolPay ==
  ASSUME PoolStep, NEW p \in Players, NEW d \in Int, pool.available[p] + d >= 0,
         pool.held + d >= 0, NEW r, r = [pool EXCEPT !.deposited[p] = @ + d, !.available[p] = @ + d, !.held = @ + d]
  PROVE  PoolBooks(r) /\ PoolBacked(r)
<1>1. PoolBooks(pool) BY DEF PoolStep, PoolInv
<1>2. /\ r.deposited = [pool.deposited EXCEPT ![p] = @ + d]
      /\ r.available = [pool.available EXCEPT ![p] = @ + d]
      /\ r.held = pool.held + d
      /\ \A f \in PoolFields \ {"deposited", "available", "held"} : r[f] = pool[f]
      /\ DOMAIN r = DOMAIN pool
  BY <1>1 DEF PoolBooks, PoolFields
<1>3. PoolBooks(r)
  BY <1>1, <1>2 DEF PoolBooks, PoolFields
<1>4. SumFunctionOnSet(r.deposited, Players) =
        SumFunctionOnSet(pool.deposited, Players) - pool.deposited[p] + r.deposited[p]
  <2> DEFINE f == pool.deposited
             g == r.deposited
  <2>1. f \in [Players -> Int] /\ g = [f EXCEPT ![p] = @ + d]
    BY <1>1, <1>2 DEF PoolBooks
  <2>0. IsFiniteSet(Players)
    BY DEF PoolStep, PoolConstants
  <2> HIDE DEF f, g
  <2>2. \A v \in Players : f[v] \in Int /\ g[v] \in Int /\ (v # p => g[v] = f[v])
    BY <2>1
  <2>3. SumFunctionOnSet(g, Players) = SumFunctionOnSet(f, Players) - f[p] + g[p]
    BY <2>0, <2>2, SumChange
  <2>4. QED BY <2>3 DEF f, g
<1>5. /\ pool.held = PoolDeposits(pool) + pool.kept /\ PoolDeposits(pool) \in Int
      /\ pool.held \in Int /\ pool.kept \in Int /\ r.kept = pool.kept
      /\ pool.deposited[p] \in Int /\ r.deposited[p] = pool.deposited[p] + d
  BY <1>1, <1>2, PoolDepositsInt DEF PoolStep, PoolInv, PoolBacked, PoolBooks, PoolFields
<1>6. PoolBacked(r)
  BY <1>2, <1>4, <1>5 DEF PoolDeposits, PoolBacked
<1>7. QED BY <1>3, <1>6

(* PoolBalanced of the bankroll pool: whatever order of deposits, allocations, hands with
   any losers, winners and rakes, and emergency unlocks came before, a player's balances,
   allocations and the two indexes agree, and the pool holds exactly what its players have
   deposited and the rakes it kept; it is short by no more than negative rakes. *)
THEOREM PoolStaysBalanced ==
  ASSUME PoolConstants PROVE Pool!Spec => []Pool!PoolBalanced
<1>1. ASSUME Pool!Init PROVE PoolInv
  <2>1. PoolBooks(pool)
    <3>1. \A p \in Players : SumFunctionOnSet(pool.allocation[p], Tables) = 0
      BY <1>1, SumZero DEF PoolConstants, Pool!Init
    <3>2. QED BY <1>1, <3>1 DEF PoolBooks, PoolFields, Pool!Init
  <2>2. SumFunctionOnSet(pool.deposited, Players) = 0
    BY <1>1, SumZero DEF PoolConstants, Pool!Init
  <2>3. QED BY <1>1, <2>1, <2>2 DEF PoolInv, PoolBacked, PoolDeposits, Pool!Init
<1>2. ASSUME PoolInv, [Pool!Next]_pool PROVE PoolInv'
  <2> PoolStep BY <1>2 DEF PoolStep
  <2>1. ASSUME NEW c \in Callers, NEW yes \in BOOLEAN, Pool!SetAuthorizedCaller(c, yes)
        PROVE  PoolInv'
    BY <1>2, <2>1 DEF PoolInv, PoolBacked, PoolBooks, PoolDeposits, PoolFields, Pool!SetAuthorizedCaller
  <2>2. ASSUME NEW p \in Players, NEW x \in Amounts, Pool!Deposit(p, x) PROVE PoolInv'
    <3>1. x \in Int /\ pool.available[p] + x >= 0 /\ pool.held + x >= 0
      BY <1>2 DEF PoolConstants, PoolInv, PoolBacked, PoolBooks
    <3>2. pool' = [pool EXCEPT !.deposited[p] = @ + x, !.available[p] = @ + x, !.held = @ + x]
      BY <2>2 DEF Pool!Deposit
    <3>3. PoolBooks(pool') /\ PoolBacked(pool')
      BY <3>1, <3>2, PoolPay
    <3>4. QED BY <3>3 DEF PoolInv, PoolBacked, PoolBooks, PoolDeposits
  <2>3. ASSUME NEW p \in Players, NEW x \in Amounts, Pool!Withdraw(p, x) PROVE PoolInv'
    <3>1. /\ x \in Nat /\ -x \in Int /\ pool.available[p] \in Nat /\ pool.held \in Int
          /\ PoolBooks(pool)
      BY <1>2 DEF PoolConstants, PoolInv, PoolBooks
    <3>2. pool' = [pool EXCEPT !.deposited[p] = @ + (-x), !.available[p] = @ + (-x), !.held = @ + (-x)]
      BY <2>3, <3>1 DEF Pool!Withdraw, PoolBooks, PoolFields
    <3>3. pool.available[p] + (-x) >= 0 /\ pool.held + (-x) >= 0
      BY <2>3, <3>1 DEF Pool!Withdraw
    <3>4. PoolBooks(pool') /\ PoolBacked(pool')
      BY <3>1, <3>2, <3>3, PoolPay, ZenonT(30)
    <3>5. QED BY <3>4 DEF PoolInv, PoolBacked, PoolBooks, PoolDeposits
  <2>4. CASE Pool!Tick
    BY <1>2, <2>4 DEF PoolInv, PoolBacked, PoolBooks, PoolDeposits, PoolFields, Pool!Tick
  <2>5. CASE UNCHANGED pool
    BY <1>2, <2>5 DEF PoolInv, PoolBacked, PoolBooks, PoolDeposits
  <2>6. ASSUME NEW v \in Tables, NEW losses \in Pool!Losses(v), NEW wins \in Pool!Results,
               NEW c \in Callers \union {Admin}, NEW paid \in BOOLEAN, NEW k \in Rakes,
               Pool!SettleTableHand(c, v, losses, wins, k, paid)
        PROVE  PoolInv'
    BY <2>6, PoolSettle
  <2>7. QED
    BY <1>2, <2>1, <2>2, <2>3, <2>4, <2>5, <2>6, PoolAllocate, PoolDeallocate, PoolUnlock
    DEF Pool!Next
<1>3. ASSUME PoolInv PROVE Pool!PoolBalanced
  <2>1. \A p \in Players : pool.available[p] >= 0 /\ pool.locked[p] >= 0
    BY <1>3 DEF PoolInv, PoolBooks
  <2>2. /\ PoolBooks(pool) /\ pool.held >= 0
        /\ pool.held = SumFunctionOnSet(pool.deposited, Players) + pool.kept
    BY <1>3 DEF PoolInv, PoolBacked, PoolDeposits
  <2>3. /\ \A p \in Players :
             /\ pool.deposited[p] = pool.available[p] + pool.locked[p]
             /\ pool.locked[p] = SumFunctionOnSet(pool.allocation[p], Tables)
             /\ pool.tables[p] = {t \in Tables : pool.allocation[p][t] > 0}
        /\ \A t \in Tables : pool.players[t] = {p \in Players : pool.allocation[p][t] > 0}
    BY <2>2 DEF PoolBooks
  <2>4. QED BY <2>1, <2>2, <2>3, PoolTotal DEF Pool!PoolBalanced
<1>4. QED BY <1>1, <1>2, <1>3, PTL DEF Pool!Spec

-----------------------------------------------------------------------------
(* Treasury and rewards. *)
Services == INSTANCE ServiceContracts

(* Rates and amounts are not negative (they are unsigned in the contract, or refused). *)
TreasuryConstants == Fees \subseteq Nat /\ Amounts \subseteq Nat

TreasuryInv ==
  /\ {"admin", "fee", "balance", "in", "out", "held"} \subseteq DOMAIN books
  /\ books.fee \in 0 .. Services!MaxFeeBps
  /\ books.balance \in Nat /\ books.in \in Nat /\ books.out \in Nat /\ books.held \in Nat
  /\ books.balance = books.in - books.out /\ books.balance <= books.held

LEMMA TreasuryStep ==
  ASSUME TreasuryConstants, TreasuryInv, [Services!TreasuryNext]_books PROVE TreasuryInv'
<1> USE DEF TreasuryConstants, TreasuryInv, Services!MaxFeeBps
<1>1. CASE \E a \in Accounts : \E fee \in Fees : Services!SetFeeBps(a, fee)
  BY <1>1 DEF Services!SetFeeBps
<1>2. CASE \E a \in Accounts : \E n \in Amounts, own \in BOOLEAN : Services!TreasuryWithdraw(a, n, own)
  <2>1. PICK n \in Amounts, own \in BOOLEAN : \E a : Services!TreasuryWithdraw(a, n, own)
    BY <1>2
  <2>2. /\ n \in Nat /\ n <= books.balance /\ DOMAIN books' = DOMAIN books
        /\ books'.balance = books.balance - n /\ books'.out = books.out + n
        /\ books'.held = books.held \/ books'.held = books.held - n
        /\ books'.in = books.in /\ books'.fee = books.fee
    BY <2>1 DEF Services!TreasuryWithdraw
  <2>3. QED BY <2>2
<1>3. CASE \E n \in Amounts : Services!TreasuryDeposit(n)
  BY <1>3 DEF Services!TreasuryDeposit
<1>4. CASE \E n \in Amounts : Services!SendToTreasury(n)
  BY <1>4 DEF Services!SendToTreasury
<1>5. CASE books' = books
  BY <1>5
<1>6. QED BY <1>1, <1>2, <1>3, <1>4, <1>5 DEF Services!TreasuryNext

(* A twentieth at most. *)
LEMMA TreasuryFee ==
  ASSUME TreasuryInv, NEW gross \in Nat
  PROVE  20 * Services!ComputeFee(gross) <= gross
<1> DEFINE product == gross * books.fee
           fee == product \div 10000
<1>1. books.fee \in Nat /\ books.fee <= 500
  BY DEF TreasuryInv, Services!MaxFeeBps
<1>2. product \in Nat /\ product <= gross * 500
  BY <1>1
<1> HIDE DEF product
<1>3. fee \in Nat /\ 10000 * fee <= product
  BY <1>2
<1> HIDE DEF fee
<1>4. 20 * fee <= gross
  BY <1>2, <1>3
<1>5. Services!ComputeFee(gross) = IF gross <= 0 THEN 0 ELSE fee
  BY DEF Services!ComputeFee, fee, product
<1>6. QED BY <1>4, <1>5

(* TreasuryCovered of the treasury: after any order of rakes recorded, withdrawals and
   changes of the fee, its balance is what came in less what went out, and its account
   holds at least that. *)
THEOREM TreasuryStaysCovered ==
  ASSUME TreasuryConstants
  PROVE  Services!TreasuryInit /\ [][Services!TreasuryNext]_books => []Services!TreasuryCovered
<1>1. Services!TreasuryInit => TreasuryInv
  BY DEF Services!TreasuryInit, TreasuryInv, Services!MaxFeeBps
<1>2. TreasuryInv /\ [Services!TreasuryNext]_books => TreasuryInv'
  BY TreasuryStep
<1>3. TreasuryInv => Services!TreasuryCovered
  <2> SUFFICES ASSUME TreasuryInv PROVE Services!TreasuryCovered
    OBVIOUS
  <2>1. \A gross \in 1 .. 40 : 20 * Services!ComputeFee(gross) <= gross
    BY TreasuryFee
  <2>2. QED BY <2>1 DEF TreasuryInv, Services!TreasuryCovered
<1>4. QED BY <1>1, <1>2, <1>3, PTL

-----------------------------------------------------------------------------
(* What the contract's numbers are: unsigned, and its prices not zero. *)
RewardsConstants ==
  /\ IsFiniteSet(Configs) /\ Configs # {}
  /\ Configs \subseteq [rate : Nat, price : Nat \ {0}, cost : Nat \ {0}, most : Nat]
  /\ Rakes \subseteq Nat /\ Spendings \subseteq Nat

Cheapest == CHOOSE c \in Configs : \A d \in Configs : c.price <= d.price

PlayerFields == {"points", "lifetime", "redeemed", "paid", "tier", "discount"}

(* Of one player: her points add up, and pay for her tokens. *)
PointsOf(r, out) ==
  /\ PlayerFields \subseteq DOMAIN r
  /\ r.points \in Nat /\ r.lifetime \in Nat /\ r.redeemed \in Nat /\ out \in Nat
  /\ r.points + r.redeemed = r.lifetime
  /\ r.redeemed >= Cheapest.price * out

RewardsInv ==
  /\ {"player", "config", "tiers", "token", "account", "out", "recorders", "paused"} \subseteq DOMAIN books
  /\ DOMAIN books.player = Accounts /\ DOMAIN books.out = Accounts
  /\ books.config \in Configs
  /\ \A p \in Accounts : PointsOf(books.player[p], books.out[p])

LEMMA RewardsCheapest ==
  ASSUME RewardsConstants
  PROVE  Cheapest.price \in Nat /\ \A c \in Configs : Cheapest.price <= c.price
<1> DEFINE f == [c \in Configs |-> c.price]
           prices == {f[c] : c \in Configs}
<1>1. IsFiniteSet(prices)
  BY ImageFinite DEF RewardsConstants
<1>2. prices \subseteq Int /\ prices # {}
  BY DEF RewardsConstants
<1>3. PICK n \in prices : \A m \in prices : n <= m
  BY <1>1, <1>2, MinIn
<1>4. PICK c \in Configs : n = f[c]
  BY <1>3
<1>5. \A d \in Configs : c.price <= d.price
  BY <1>3, <1>4
<1>6. Cheapest \in Configs /\ \A d \in Configs : Cheapest.price <= d.price
  BY <1>4, <1>5 DEF Cheapest
<1>7. QED BY <1>6 DEF RewardsConstants

LEMMA RewardsStart == ASSUME RewardsConstants, Services!RewardsInit PROVE RewardsInv
<1>1. PointsOf(Services!NoPoints, 0)
  BY RewardsCheapest DEF PointsOf, PlayerFields, Services!NoPoints
<1>2. QED BY <1>1 DEF Services!RewardsInit, RewardsInv

(* One player's points change. *)
LEMMA RewardsChange ==
  ASSUME RewardsInv, NEW p \in Accounts, NEW r, NEW n,
         DOMAIN books' = DOMAIN books, books'.config \in Configs,
         books'.player = [books.player EXCEPT ![p] = r],
         books'.out = [books.out EXCEPT ![p] = n], PointsOf(r, n)
  PROVE  RewardsInv'
<1>1. ASSUME NEW q \in Accounts PROVE PointsOf(books'.player[q], books'.out[q])
  <2>1. CASE q = p
    BY <2>1 DEF RewardsInv
  <2>2. CASE q # p
    BY <2>2 DEF RewardsInv
  <2>3. QED BY <2>1, <2>2
<1>2. QED BY <1>1 DEF RewardsInv

(* `units` of something are bought at a price. *)
BoughtWell(r, out, units, price) ==
  /\ units \in Nat /\ units * price \in Nat
  /\ Services!Spent(r, units, price).redeemed = r.redeemed + units * price
  /\ PointsOf(Services!Spent(r, units, price), out)

LEMMA RewardsSpent ==
  ASSUME RewardsConstants, NEW r, NEW out, PointsOf(r, out), NEW points \in Nat, NEW price \in Nat \ {0},
         points <= r.points, NEW units, units = points \div price
  PROVE  BoughtWell(r, out, units, price)
<1>1. units \in Nat /\ units * price <= points
  OBVIOUS
<1> DEFINE cost == units * price
           s == Services!Spent(r, units, price)
<1>2. cost \in Nat /\ cost <= points
  BY <1>1
<1>3. s = [r EXCEPT !.points = r.points - cost, !.redeemed = r.redeemed + cost]
  BY DEF Services!Spent
<1> HIDE DEF cost
<1>4. /\ DOMAIN s = DOMAIN r /\ s.points = r.points - cost /\ s.redeemed = r.redeemed + cost
      /\ s.lifetime = r.lifetime
  BY <1>3 DEF PointsOf, PlayerFields
<1> HIDE DEF s
<1>5. r.points \in Nat /\ r.redeemed \in Nat /\ r.lifetime \in Nat /\ cost <= r.points
  BY <1>2 DEF PointsOf
<1>6. PointsOf(s, out)
  <2>1. r.redeemed >= Cheapest.price * out /\ r.points + r.redeemed = r.lifetime /\ out \in Nat
    BY DEF PointsOf
  <2> DEFINE paid == Cheapest.price * out
  <2>2. s.points \in Nat /\ s.redeemed \in Nat /\ s.points + s.redeemed = s.lifetime /\ s.redeemed >= r.redeemed
    BY <1>2, <1>4, <1>5, <2>1
  <2>3. Cheapest.price \in Nat
    BY RewardsCheapest
  <2>4. paid \in Nat /\ r.redeemed >= paid
    BY <2>1, <2>3
  <2> HIDE DEF paid
  <2>5. s.redeemed >= paid
    BY <1>5, <2>2, <2>4
  <2>6. PlayerFields \subseteq DOMAIN s
    BY <1>4 DEF PointsOf
  <2>7. QED BY <1>4, <1>5, <2>1, <2>2, <2>5, <2>6 DEF PointsOf, paid
<1>7. QED BY <1>1, <1>2, <1>4, <1>6 DEF cost, s, BoughtWell

LEMMA RewardsRaked ==
  ASSUME RewardsConstants, RewardsInv, NEW c, NEW p \in Accounts, NEW amount \in Rakes,
         Services!RecordRake(c, p, amount)
  PROVE  RewardsInv'
<1> DEFINE earned == amount * books.config.rate
           r == books.player[p]
           tier == Services!TierOf(r.lifetime + earned)
           s == [r EXCEPT !.points = r.points + earned, !.lifetime = r.lifetime + earned,
                          !.paid = r.paid + amount, !.tier = tier]
<1>1. earned \in Nat
  BY DEF RewardsConstants, RewardsInv
<1>2. PointsOf(r, books.out[p])
  BY DEF RewardsInv
<1>3. books' = [books EXCEPT !.player[p] = s]
  BY DEF Services!RecordRake
<1> HIDE DEF earned, tier
<1>4. PointsOf(s, books.out[p])
  BY <1>1, <1>2 DEF PointsOf, PlayerFields
<1> HIDE DEF s
<1>5. /\ DOMAIN books' = DOMAIN books /\ books'.config \in Configs
      /\ books'.player = [books.player EXCEPT ![p] = s] /\ books'.out = books.out
  BY <1>3 DEF RewardsInv
<1>6. ASSUME NEW q \in Accounts PROVE PointsOf(books'.player[q], books'.out[q])
  BY <1>4, <1>5 DEF RewardsInv
<1>7. QED BY <1>5, <1>6 DEF RewardsInv

LEMMA RewardsDiscount ==
  ASSUME RewardsConstants, RewardsInv, NEW p \in Accounts, NEW points \in Spendings,
         Services!RedeemForDiscount(p, points)
  PROVE  RewardsInv'
<1> DEFINE r == books.player[p]
           units == points \div books.config.cost
           spent == Services!Spent(r, units, books.config.cost)
           discount == r.discount + units * 100
           s == [spent EXCEPT !.discount = discount]
<1>1. PointsOf(r, books.out[p]) /\ points \in Nat /\ books.config.cost \in Nat \ {0} /\ points <= r.points
  BY DEF RewardsConstants, RewardsInv, Services!RedeemForDiscount
<1>2. PointsOf(spent, books.out[p])
  <2>1. BoughtWell(r, books.out[p], units, books.config.cost)
    BY <1>1, RewardsSpent
  <2>2. QED BY <2>1 DEF BoughtWell
<1>3. books' = [books EXCEPT !.player[p] = s]
  BY DEF Services!RedeemForDiscount
<1> HIDE DEF spent, discount
<1>4. PointsOf(s, books.out[p])
  BY <1>2 DEF PointsOf, PlayerFields
<1> HIDE DEF s
<1>5. /\ DOMAIN books' = DOMAIN books /\ books'.config \in Configs
      /\ books'.player = [books.player EXCEPT ![p] = s] /\ books'.out = books.out
  BY <1>3 DEF RewardsInv
<1>6. ASSUME NEW q \in Accounts PROVE PointsOf(books'.player[q], books'.out[q])
  BY <1>4, <1>5 DEF RewardsInv
<1>7. QED BY <1>5, <1>6 DEF RewardsInv

LEMMA RewardsBought ==
  ASSUME RewardsConstants, RewardsInv, NEW p \in Accounts, NEW points \in Spendings,
         Services!RedeemForTokens(p, points)
  PROVE  RewardsInv'
<1> DEFINE r == books.player[p]
           price == books.config.price
           units == points \div price
           s == Services!Spent(r, units, price)
           out == books.out[p]
           account == books.account - units
<1>1. PointsOf(r, out) /\ points \in Nat /\ price \in Nat \ {0} /\ points <= r.points /\ Cheapest.price <= price /\ Cheapest.price \in Nat
  BY RewardsCheapest DEF RewardsConstants, RewardsInv, Services!RedeemForTokens
<1> HIDE DEF r, price, out
<1>2. BoughtWell(r, out, units, price)
  BY <1>1, RewardsSpent
<1>3. /\ units \in Nat /\ units * price \in Nat
       /\ s.redeemed = r.redeemed + units * price /\ PointsOf(s, out)
  BY <1>2 DEF BoughtWell
<1>4. books' = [books EXCEPT !.player[p] = s, !.account = account, !.out[p] = out + units]
  BY DEF Services!RedeemForTokens, r, price, out
<1>5. r.redeemed >= Cheapest.price * out /\ out \in Nat /\ r.redeemed \in Nat
  BY <1>1 DEF PointsOf
<1> HIDE DEF s, units, account
<1>6. PointsOf(s, out + units)
  <2>1. Cheapest.price * units <= price * units
    BY <1>1, <1>3
  <2>2. Cheapest.price * (out + units) = Cheapest.price * out + Cheapest.price * units
    BY <1>1, <1>3, <1>5
  <2>3. Cheapest.price * out \in Nat /\ Cheapest.price * units \in Nat /\ price * units = units * price
    BY <1>1, <1>3, <1>5
  <2>4. s.redeemed >= Cheapest.price * (out + units)
    BY <1>1, <1>3, <1>5, <2>1, <2>2, <2>3
  <2>5. out + units \in Nat
    BY <1>3, <1>5
  <2>6. QED BY <1>3, <2>4, <2>5 DEF PointsOf
<1>7. /\ DOMAIN books' = DOMAIN books /\ books'.config \in Configs
      /\ books'.player = [books.player EXCEPT ![p] = s]
      /\ books'.out = [books.out EXCEPT ![p] = out + units]
  BY <1>4 DEF RewardsInv
<1>8. QED BY <1>6, <1>7, RewardsChange

LEMMA RewardsConsumed ==
  ASSUME RewardsInv, NEW c, NEW p \in Accounts, Services!ConsumeDiscount(c, p)
  PROVE  RewardsInv'
<1> DEFINE s == [books.player[p] EXCEPT !.discount = 0]
<1>1. PointsOf(s, books.out[p])
  BY DEF RewardsInv, PointsOf, PlayerFields
<1>2. books' = [books EXCEPT !.player[p] = s]
  BY DEF Services!ConsumeDiscount, RewardsInv
<1> HIDE DEF s
<1>3. /\ DOMAIN books' = DOMAIN books /\ books'.config \in Configs
      /\ books'.player = [books.player EXCEPT ![p] = s] /\ books'.out = books.out
  BY <1>2 DEF RewardsInv
<1>4. ASSUME NEW q \in Accounts PROVE PointsOf(books'.player[q], books'.out[q])
  BY <1>1, <1>3 DEF RewardsInv
<1>5. QED BY <1>3, <1>4 DEF RewardsInv

LEMMA RewardsAlone ==
  ASSUME RewardsInv,
         \/ \E c \in Configs : Services!SetConfig(c)
         \/ \E th : Services!SetTierThresholds(th)
         \/ \E yes : \/ Services!SetRewardToken(yes) \/ Services!RewardsPaused(yes)
                     \/ \E c : Services!SetAuthorizedRecorder(c, yes)
         \/ books' = books
  PROVE  RewardsInv'
<1>1. /\ DOMAIN books' = DOMAIN books /\ books'.config \in Configs
      /\ books'.player = books.player /\ books'.out = books.out
  BY DEF RewardsInv, Services!SetConfig, Services!SetTierThresholds, Services!SetRewardToken,
    Services!RewardsPaused, Services!SetAuthorizedRecorder
<1>2. QED BY <1>1 DEF RewardsInv

LEMMA RewardsStep == ASSUME RewardsConstants, RewardsInv, [Services!RewardsNext]_books PROVE RewardsInv'
BY RewardsRaked, RewardsDiscount, RewardsBought, RewardsConsumed, RewardsAlone
DEF Services!RewardsNext

(* PointsAccounted of the rewards: whatever is earned for rake, redeemed and spent, and
   however prices and tiers are changed in between, each player's points are those earned
   less those redeemed, and what she redeemed pays for the tokens she got at the lowest
   price there ever was. *)
THEOREM PointsStayAccounted ==
  ASSUME RewardsConstants
  PROVE  Services!RewardsInit /\ [][Services!RewardsNext]_books => []Services!PointsAccounted
<1>1. Services!RewardsInit => RewardsInv
  BY RewardsStart
<1>2. RewardsInv /\ [Services!RewardsNext]_books => RewardsInv'
  BY RewardsStep
<1>3. RewardsInv => Services!PointsAccounted
  BY DEF RewardsInv, PointsOf, Cheapest, Services!PointsAccounted
<1>4. QED BY <1>1, <1>2, <1>3, PTL

-----------------------------------------------------------------------------
(* Tables as tokens. *)
Nfts == INSTANCE TableNft

(* The table without an owner is nobody's: no account has that name. *)
NftConstants == IsFiniteSet(Tables) /\ Nfts!Nobody \notin Accounts

NftFields ==
  {"owner", "balance", "approved", "operators", "listed", "rental", "hand", "pending", "reporter"}

NftPending == [from : Accounts, to : Accounts, by : Accounts] \union {Nfts!NoPending}

NftTypes ==
  /\ NftFields \subseteq DOMAIN nft
  /\ nft.owner \in [Tables -> Accounts \union {Nfts!Nobody}]
  /\ nft.balance \in [Accounts -> Nat]
  /\ nft.rental \in [Tables -> [renter : Accounts \union {Nfts!Nobody}, left : Nat]]
  /\ nft.pending \in [Tables -> NftPending]

NftOwned(a) == {t \in Tables : nft.owner[t] = a}

NftCovered == \A a \in Accounts : nft.balance[a] >= Cardinality(NftOwned(a))

NftInv == NftTypes /\ NftCovered /\ Nfts!QueuedIsSound

LEMMA NftsCardinality == \A S : Nfts!Cardinality(S) = Cardinality(S)
BY DEF Nfts!Cardinality, Cardinality, Nfts!IsFiniteSet, IsFiniteSet

LEMMA NftInit == ASSUME NftConstants, Nfts!Init PROVE NftInv
<1>1. NftTypes
  BY DEF Nfts!Init, NftTypes, NftFields, NftPending, Nfts!NoRental
<1>2. \A a \in Accounts : NftOwned(a) = {}
  BY DEF Nfts!Init, NftOwned, NftConstants
<1>3. NftCovered
  BY <1>1, <1>2, FS_EmptySet DEF Nfts!Init, NftCovered
<1>4. Nfts!QueuedIsSound
  BY DEF Nfts!Init, Nfts!QueuedIsSound
<1>5. QED BY <1>1, <1>3, <1>4 DEF NftInv

(* A table gets an owner: the account counts one more, and whoever had it one less. *)
LEMMA NftCounted ==
  ASSUME NftConstants, NEW t \in Tables, NEW to \in Accounts,
         nft.owner \in [Tables -> Accounts \union {Nfts!Nobody}],
         nft'.owner = [nft.owner EXCEPT ![t] = to]
  PROVE  \A a \in Accounts :
           /\ Cardinality(NftOwned(a)) \in Nat /\ Cardinality(NftOwned(a)') \in Nat
           /\ a # to => Cardinality(NftOwned(a)') <= Cardinality(NftOwned(a))
           /\ Cardinality(NftOwned(a)') <= Cardinality(NftOwned(a)) + 1
           /\ a = nft.owner[t] /\ a # to => Cardinality(NftOwned(a)') = Cardinality(NftOwned(a)) - 1
<1> SUFFICES ASSUME NEW a \in Accounts
             PROVE  /\ Cardinality(NftOwned(a)) \in Nat /\ Cardinality(NftOwned(a)') \in Nat
                    /\ a # to => Cardinality(NftOwned(a)') <= Cardinality(NftOwned(a))
                    /\ Cardinality(NftOwned(a)') <= Cardinality(NftOwned(a)) + 1
                    /\ a = nft.owner[t] /\ a # to => Cardinality(NftOwned(a)') = Cardinality(NftOwned(a)) - 1
  OBVIOUS
<1> DEFINE before == NftOwned(a)
           after  == {u \in Tables : nft'.owner[u] = a}
<1>1. NftOwned(a)' = after
  BY DEF NftOwned
<1>2. before \subseteq Tables /\ after \subseteq Tables
  BY DEF NftOwned
<1>3. /\ IsFiniteSet(before) /\ IsFiniteSet(after)
      /\ Cardinality(before) \in Nat /\ Cardinality(after) \in Nat
  BY <1>2, FS_Subset, FS_CardinalityType DEF NftConstants
<1>4. /\ a # to => after = before \ {t}
      /\ a = to => after = before \union {t}
      /\ a = nft.owner[t] => t \in before
  BY DEF NftOwned
<1> HIDE DEF before, after
<1>5. /\ Cardinality(before \ {t}) = IF t \in before THEN Cardinality(before) - 1 ELSE Cardinality(before)
      /\ Cardinality(before \union {t}) = IF t \in before THEN Cardinality(before) ELSE Cardinality(before) + 1
  BY <1>3, FS_RemoveElement, FS_AddElement
<1>6. /\ a # to => Cardinality(after) <= Cardinality(before)
      /\ Cardinality(after) <= Cardinality(before) + 1
      /\ a = nft.owner[t] /\ a # to => Cardinality(after) = Cardinality(before) - 1
  <2>1. CASE a # to
    <3>1. Cardinality(after) = Cardinality(before \ {t})
      BY <1>4, <2>1, Zenon
    <3>2. QED BY <1>3, <1>4, <1>5, <2>1, <3>1
  <2>2. CASE a = to
    <3>1. Cardinality(after) = Cardinality(before \union {t})
      BY <1>4, <2>2, Zenon
    <3>2. QED BY <1>3, <1>5, <2>2, <3>1
  <2>3. QED BY <2>1, <2>2
<1>7. QED BY <1>1, <1>3, <1>6 DEF before

LEMMA NftMinted ==
  ASSUME NftConstants, NftInv, NEW a \in Accounts, NEW t \in Tables, Nfts!Mint(a, t)
  PROVE  NftInv'
<1>1. /\ DOMAIN nft' = DOMAIN nft /\ nft'.owner = [nft.owner EXCEPT ![t] = a]
      /\ nft'.balance = [nft.balance EXCEPT ![a] = nft.balance[a] + 1]
      /\ nft'.rental = nft.rental /\ nft'.pending = nft.pending /\ nft'.hand = nft.hand
      /\ nft.owner[t] = Nfts!Nobody
  BY DEF Nfts!Mint, Nfts!Minted, NftInv, NftTypes, NftFields
<1>2. NftTypes'
  BY <1>1 DEF NftInv, NftTypes
<1>3. \A b \in Accounts :
        /\ Cardinality(NftOwned(b)) \in Nat /\ Cardinality(NftOwned(b)') \in Nat
        /\ b # a => Cardinality(NftOwned(b)') <= Cardinality(NftOwned(b))
        /\ Cardinality(NftOwned(b)') <= Cardinality(NftOwned(b)) + 1
  BY <1>1, NftCounted DEF NftInv, NftTypes
<1>4. ASSUME NEW b \in Accounts PROVE nft'.balance[b] >= Cardinality(NftOwned(b)')
  <2>1. nft.balance[b] \in Nat /\ nft.balance[b] >= Cardinality(NftOwned(b))
    BY DEF NftInv, NftTypes, NftCovered
  <2>2. nft'.balance[b] = IF b = a THEN nft.balance[b] + 1 ELSE nft.balance[b]
    BY <1>1 DEF NftInv, NftTypes
  <2>3. QED BY <1>3, <2>1, <2>2
<1>5. NftCovered'
  BY <1>4 DEF NftCovered
<1>6. Nfts!QueuedIsSound'
  <2>1. \A u \in Tables : nft.pending[u] # Nfts!NoPending => nft.owner[u] # Nfts!Nobody
    BY DEF NftInv, NftTypes, NftPending, NftConstants, Nfts!QueuedIsSound
  <2>2. QED BY <1>1, <2>1 DEF NftInv, NftTypes, Nfts!QueuedIsSound, Nfts!Rented
<1>7. QED BY <1>2, <1>5, <1>6 DEF NftInv

(* What moving a table changes. *)
NftMoves(from, to, t) ==
  /\ t \in Tables /\ from \in Accounts /\ to \in Accounts /\ from = nft.owner[t]
  /\ DOMAIN nft' = DOMAIN nft /\ nft'.owner = [nft.owner EXCEPT ![t] = to]
  /\ nft'.balance = [nft.balance EXCEPT
       ![from] = IF nft.balance[from] > 0 THEN nft.balance[from] - 1 ELSE 0,
       ![to] = nft.balance[to] + 1]
  /\ nft'.rental = nft.rental
  /\ t \notin nft'.hand /\ \A u \in Tables \ {t} : u \in nft.hand => u \in nft'.hand
  /\ nft'.pending = [nft.pending EXCEPT ![t] = Nfts!NoPending]

LEMMA NftMoved ==
  ASSUME NftConstants, NftInv, NEW from, NEW to, NEW t, NftMoves(from, to, t)
  PROVE  NftInv'
<1> DEFINE less == IF nft.balance[from] > 0 THEN nft.balance[from] - 1 ELSE 0
           more == nft.balance[to] + 1
<1>1. less \in Nat /\ more \in Nat
  BY DEF NftInv, NftTypes, NftMoves
<1>2. nft'.balance = [nft.balance EXCEPT ![from] = less, ![to] = more]
  BY DEF NftMoves
<1> HIDE DEF less, more
<1>3. NftTypes'
  BY <1>1, <1>2 DEF NftInv, NftTypes, NftMoves, NftPending
<1>4. \A b \in Accounts :
        /\ Cardinality(NftOwned(b)) \in Nat /\ Cardinality(NftOwned(b)') \in Nat
        /\ b # to => Cardinality(NftOwned(b)') <= Cardinality(NftOwned(b))
        /\ Cardinality(NftOwned(b)') <= Cardinality(NftOwned(b)) + 1
        /\ b = nft.owner[t] /\ b # to => Cardinality(NftOwned(b)') = Cardinality(NftOwned(b)) - 1
  BY NftCounted DEF NftInv, NftTypes, NftMoves
<1>5. ASSUME NEW b \in Accounts PROVE nft'.balance[b] >= Cardinality(NftOwned(b)')
  <2>1. nft.balance[b] \in Nat /\ nft.balance[b] >= Cardinality(NftOwned(b))
    BY DEF NftInv, NftTypes, NftCovered
  <2>2. nft'.balance[b] = IF b = to THEN more ELSE IF b = from THEN less ELSE nft.balance[b]
    BY <1>2 DEF NftInv, NftTypes, NftMoves
  <2>3. CASE b = to
    BY <1>4, <2>1, <2>2, <2>3 DEF more
  <2>4. CASE b # to /\ b = from
    BY <1>4, <2>1, <2>2, <2>4 DEF less, NftMoves
  <2>5. CASE b # to /\ b # from
    BY <1>4, <2>1, <2>2, <2>5
  <2>6. QED BY <2>3, <2>4, <2>5
<1>6. NftCovered'
  BY <1>5 DEF NftCovered
<1>7. Nfts!QueuedIsSound'
  BY DEF NftInv, NftTypes, NftMoves, Nfts!QueuedIsSound, Nfts!Rented
<1>8. QED BY <1>3, <1>6, <1>7 DEF NftInv

LEMMA NftTransferred ==
  ASSUME NftConstants, NftInv, NEW c, NEW to \in Accounts, NEW t \in Tables, Nfts!Transfer(c, to, t)
  PROVE  NftMoves(nft.owner[t], to, t)
<1> DEFINE from == nft.owner[t]
<1>1. from \in Accounts /\ t \notin nft.hand
  BY DEF Nfts!Transfer, Nfts!MayMove, Nfts!Minted, NftInv, NftTypes
<1>2. nft.pending[t] = Nfts!NoPending
  BY <1>1 DEF NftInv, Nfts!QueuedIsSound
<1>3. /\ DOMAIN nft' = DOMAIN nft /\ nft'.owner = [nft.owner EXCEPT ![t] = to]
      /\ nft'.balance = [nft.balance EXCEPT
           ![from] = IF nft.balance[from] > 0 THEN nft.balance[from] - 1 ELSE 0,
           ![to] = nft.balance[to] + 1]
      /\ nft'.rental = nft.rental /\ nft'.hand = nft.hand /\ nft'.pending = nft.pending
  BY <1>1 DEF Nfts!Transfer, Nfts!Moved, NftInv, NftTypes, NftFields
<1>4. nft'.pending = [nft.pending EXCEPT ![t] = Nfts!NoPending]
  BY <1>2, <1>3 DEF NftInv, NftTypes
<1>5. QED BY <1>1, <1>3, <1>4 DEF NftMoves

(* The end of a hand moves the table if that waited, and nothing else does. *)
LEMMA NftHandOver ==
  ASSUME NftConstants, NftInv, NEW t \in Tables, Nfts!CompleteHand(t), t \in nft.hand
  PROVE  \/ NftMoves(nft.pending[t].from, nft.pending[t].to, t) /\ nft.pending[t] # Nfts!NoPending
         \/ /\ DOMAIN nft' = DOMAIN nft /\ nft'.owner = nft.owner /\ nft'.balance = nft.balance
            /\ nft'.rental = nft.rental /\ nft'.hand = nft.hand \ {t}
            /\ nft'.pending = nft.pending /\ nft.pending[t] = Nfts!NoPending
<1> DEFINE p == nft.pending[t]
           over == [nft EXCEPT !.hand = nft.hand \ {t}, !.pending[t] = Nfts!NoPending]
<1>1. /\ DOMAIN over = DOMAIN nft /\ over.owner = nft.owner /\ over.balance = nft.balance
      /\ over.rental = nft.rental /\ over.hand = nft.hand \ {t}
      /\ over.pending = [nft.pending EXCEPT ![t] = Nfts!NoPending]
  BY DEF NftInv, NftTypes, NftFields
<1>2. nft' = IF p = Nfts!NoPending THEN over ELSE Nfts!Moved(over, p.from, p.to, t)
  BY DEF Nfts!CompleteHand
<1> HIDE DEF over
<1>3. CASE p = Nfts!NoPending
  BY <1>1, <1>2, <1>3 DEF NftInv, NftTypes
<1>4. CASE p # Nfts!NoPending
  <2>1. p.from \in Accounts /\ p.to \in Accounts /\ p.from = nft.owner[t]
    BY <1>4 DEF NftInv, NftTypes, NftPending, Nfts!QueuedIsSound
  <2>2. /\ DOMAIN nft' = DOMAIN nft /\ nft'.owner = [nft.owner EXCEPT ![t] = p.to]
        /\ nft'.balance = [nft.balance EXCEPT
             ![p.from] = IF nft.balance[p.from] > 0 THEN nft.balance[p.from] - 1 ELSE 0,
             ![p.to] = nft.balance[p.to] + 1]
        /\ nft'.rental = nft.rental /\ nft'.hand = nft.hand \ {t}
        /\ nft'.pending = [nft.pending EXCEPT ![t] = Nfts!NoPending]
    BY <1>1, <1>2, <1>4, <2>1 DEF Nfts!Moved, NftInv, NftTypes, NftFields
  <2>3. QED BY <1>4, <2>1, <2>2 DEF NftMoves
<1>5. QED BY <1>3, <1>4

(* Owners and balances stay. *)
NftKept ==
  /\ DOMAIN nft' = DOMAIN nft /\ nft'.owner = nft.owner /\ nft'.balance = nft.balance
  /\ nft'.rental \in [Tables -> [renter : Accounts \union {Nfts!Nobody}, left : Nat]]
  /\ nft'.pending \in [Tables -> NftPending]
  /\ \A t \in Tables :
       \/ nft'.pending[t] = Nfts!NoPending
       \/ /\ nft'.pending[t] = nft.pending[t] /\ (t \in nft.hand => t \in nft'.hand)
          /\ nft.rental[t].left = 0 => nft'.rental[t].left = 0
       \/ /\ nft'.pending[t].from = nft.owner[t] /\ t \in nft'.hand
          /\ ~(nft'.rental[t].left > 0)

LEMMA NftStays == ASSUME NftInv, NftKept PROVE NftInv'
<1>1. NftTypes'
  BY DEF NftInv, NftTypes, NftKept
<1>2. NftCovered'
  BY DEF NftInv, NftCovered, NftOwned, NftKept
<1>3. Nfts!QueuedIsSound'
  BY DEF NftInv, NftTypes, NftKept, Nfts!QueuedIsSound, Nfts!Rented
<1>4. QED BY <1>1, <1>2, <1>3 DEF NftInv

LEMMA NftQueued ==
  ASSUME NftInv, NEW c \in Accounts, NEW to \in Accounts, NEW t \in Tables,
         Nfts!QueueTransfer(c, to, t)
  PROVE  NftKept
<1> DEFINE p == [from |-> nft.owner[t], to |-> to, by |-> c]
<1>1. nft.owner[t] \in Accounts /\ t \in nft.hand /\ ~(nft.rental[t].left > 0)
  BY DEF Nfts!QueueTransfer, Nfts!MayMove, Nfts!Minted, Nfts!Rented, NftInv, NftTypes
<1>2. p \in NftPending /\ p.from = nft.owner[t]
  BY <1>1 DEF NftPending
<1>3. nft' = [nft EXCEPT !.pending[t] = p]
  BY DEF Nfts!QueueTransfer
<1> HIDE DEF p
<1>4. /\ DOMAIN nft' = DOMAIN nft /\ nft'.owner = nft.owner /\ nft'.balance = nft.balance
      /\ nft'.rental = nft.rental /\ nft'.pending = [nft.pending EXCEPT ![t] = p] /\ nft'.hand = nft.hand
  BY <1>3 DEF NftInv, NftTypes, NftFields
<1>5. QED BY <1>1, <1>2, <1>4 DEF NftInv, NftTypes, NftKept

LEMMA NftLeased ==
  ASSUME NftInv, NEW renter \in Accounts, NEW t \in Tables, NEW d \in 1 .. MaxRent,
         Nfts!RentTable(renter, t, d) \/ Nfts!DirectLease(renter, t, d)
  PROVE  NftKept
<1> DEFINE lease == [renter |-> renter, left |-> d]
<1>1. lease \in [renter : Accounts \union {Nfts!Nobody}, left : Nat]
  OBVIOUS
<1>2. nft' = [nft EXCEPT !.rental[t] = lease] /\ nft.pending[t] = Nfts!NoPending
  BY DEF Nfts!RentTable, Nfts!DirectLease, Nfts!Leased
<1> HIDE DEF lease
<1>3. /\ DOMAIN nft' = DOMAIN nft /\ nft'.owner = nft.owner /\ nft'.balance = nft.balance
      /\ nft'.pending = nft.pending /\ nft'.rental = [nft.rental EXCEPT ![t] = lease] /\ nft'.hand = nft.hand
  BY <1>2 DEF NftInv, NftTypes, NftFields
<1>4. QED BY <1>1, <1>2, <1>3 DEF NftInv, NftTypes, NftKept

LEMMA NftTicked ==
  ASSUME NftInv, Nfts!Tick \/ \E t \in Tables : Nfts!TerminateExpiredRental(t)
  PROVE  NftKept
<1>1. CASE Nfts!Tick
  <2> DEFINE Shorter(r) == [r EXCEPT !.left = IF r.left > 0 THEN r.left - 1 ELSE 0]
             rental == [t \in Tables |-> Shorter(nft.rental[t])]
  <2>1. nft' = [nft EXCEPT !.rental = rental]
    BY <1>1 DEF Nfts!Tick
  <2>2. rental \in [Tables -> [renter : Accounts \union {Nfts!Nobody}, left : Nat]]
    BY DEF NftInv, NftTypes
  <2>3. \A t \in Tables : nft.rental[t].left = 0 => rental[t].left = 0
    BY DEF NftInv, NftTypes
  <2> HIDE DEF rental
  <2>4. /\ DOMAIN nft' = DOMAIN nft /\ nft'.owner = nft.owner /\ nft'.balance = nft.balance
        /\ nft'.pending = nft.pending /\ nft'.rental = rental /\ nft'.hand = nft.hand
    BY <2>1 DEF NftInv, NftTypes, NftFields
  <2>5. QED BY <2>2, <2>3, <2>4 DEF NftInv, NftTypes, NftKept
<1>2. CASE \E t \in Tables : Nfts!TerminateExpiredRental(t)
  <2>1. PICK t \in Tables : nft' = [nft EXCEPT !.rental[t] = Nfts!NoRental]
    BY <1>2 DEF Nfts!TerminateExpiredRental
  <2>2. /\ DOMAIN nft' = DOMAIN nft /\ nft'.owner = nft.owner /\ nft'.balance = nft.balance
        /\ nft'.pending = nft.pending /\ nft'.rental = [nft.rental EXCEPT ![t] = Nfts!NoRental]
        /\ nft'.hand = nft.hand
    BY <2>1 DEF NftInv, NftTypes, NftFields
  <2>3. QED BY <2>2 DEF NftInv, NftTypes, NftKept, Nfts!NoRental
<1>3. QED BY <1>1, <1>2

LEMMA NftOthers ==
  ASSUME NftInv,
         \/ \E t \in Tables : Nfts!ReportHandStarted(t) \/ Nfts!ListForRent(t) \/ Nfts!DelistRental(t)
         \/ \E t \in Tables : \E a, b : Nfts!Approve(a, b, t)
         \/ \E t \in Tables : \E a : Nfts!CancelQueuedTransfer(a, t)
         \/ \E a, b, yes : Nfts!SetApprovalForAll(a, b, yes)
         \/ Nfts!SetHandReporter
         \/ nft' = nft
  PROVE  NftKept
<1>1. /\ DOMAIN nft' = DOMAIN nft /\ nft'.owner = nft.owner /\ nft'.balance = nft.balance
      /\ nft'.rental = nft.rental /\ nft.hand \subseteq nft'.hand
      /\ \/ nft'.pending = nft.pending
         \/ \E t \in Tables : nft'.pending = [nft.pending EXCEPT ![t] = Nfts!NoPending]
  <2> USE DEF NftInv, NftTypes, NftFields
  <2>1. CASE \E t \in Tables : Nfts!ReportHandStarted(t) \/ Nfts!ListForRent(t) \/ Nfts!DelistRental(t)
    BY <2>1 DEF Nfts!ReportHandStarted, Nfts!ListForRent, Nfts!DelistRental
  <2>2. CASE \E t \in Tables : \E a, b : Nfts!Approve(a, b, t)
    BY <2>2 DEF Nfts!Approve
  <2>3. CASE \E t \in Tables : \E a : Nfts!CancelQueuedTransfer(a, t)
    BY <2>3 DEF Nfts!CancelQueuedTransfer
  <2>4. CASE \E a, b, yes : Nfts!SetApprovalForAll(a, b, yes)
    BY <2>4 DEF Nfts!SetApprovalForAll
  <2>5. CASE Nfts!SetHandReporter \/ nft' = nft
    BY <2>5 DEF Nfts!SetHandReporter
  <2>6. QED BY <2>1, <2>2, <2>3, <2>4, <2>5
<1>2. nft'.pending \in [Tables -> NftPending]
  BY <1>1 DEF NftInv, NftTypes, NftPending
<1>3. \A t \in Tables : nft'.pending[t] \in {nft.pending[t], Nfts!NoPending}
  BY <1>1 DEF NftInv, NftTypes
<1>4. nft'.rental \in [Tables -> [renter : Accounts \union {Nfts!Nobody}, left : Nat]]
  BY <1>1 DEF NftInv, NftTypes
<1>5. QED BY <1>1, <1>2, <1>3, <1>4 DEF NftKept

(* A step keeps the invariant, and moves a table that had an owner only as it may. *)
LEMMA NftStep ==
  ASSUME NftConstants, NftInv, [Nfts!Next]_nft
  PROVE  NftInv' /\ Nfts!LeasesKept
<1>1. ASSUME NftKept PROVE NftInv' /\ Nfts!LeasesKept
  BY <1>1, NftStays DEF NftKept, Nfts!LeasesKept
<1>2. CASE \E a \in Accounts, t \in Tables : Nfts!Mint(a, t)
  <2>1. PICK a \in Accounts, t \in Tables : Nfts!Mint(a, t)
    BY <1>2
  <2>2. \A u \in Nfts!Minted : nft'.owner[u] = nft.owner[u]
    BY <2>1 DEF Nfts!Mint, Nfts!Minted, NftInv, NftTypes, NftFields
  <2>3. QED BY <2>1, <2>2, NftMinted DEF Nfts!LeasesKept
<1>3. CASE \E c \in Accounts, to \in Accounts, t \in Tables : Nfts!Transfer(c, to, t)
  <2>1. PICK c \in Accounts, to \in Accounts, t \in Tables : Nfts!Transfer(c, to, t)
    BY <1>3
  <2>2. NftMoves(nft.owner[t], to, t)
    BY <2>1, NftTransferred
  <2>3. ~Nfts!Rented(t) /\ nft.pending[t] = Nfts!NoPending
    BY <2>1 DEF Nfts!Transfer, NftInv, Nfts!QueuedIsSound
  <2>4. \A u \in Tables : u # t => nft'.owner[u] = nft.owner[u]
    BY <2>2 DEF NftMoves, NftInv, NftTypes
  <2>5. Nfts!LeasesKept
    BY <2>2, <2>3, <2>4 DEF NftMoves, Nfts!LeasesKept, Nfts!Minted
  <2>6. QED BY <2>2, <2>5, NftMoved
<1>4. CASE \E t \in Tables : Nfts!ReportHandCompleted(t) \/ Nfts!ForceClearHand(t)
  <2>1. PICK t \in Tables : Nfts!CompleteHand(t) /\ t \in nft.hand
    BY <1>4 DEF Nfts!ReportHandCompleted, Nfts!ForceClearHand
  <2>2. CASE NftMoves(nft.pending[t].from, nft.pending[t].to, t) /\ nft.pending[t] # Nfts!NoPending
    <3>1. ~Nfts!Rented(t)
      BY <2>2 DEF NftInv, Nfts!QueuedIsSound
    <3>2. nft'.owner = [nft.owner EXCEPT ![t] = nft.pending[t].to]
      BY <2>2 DEF NftMoves
    <3>3. \A u \in Tables : nft'.owner[u] = IF u = t THEN nft.pending[t].to ELSE nft.owner[u]
      BY <3>2 DEF NftInv, NftTypes
    <3>4. Nfts!LeasesKept
      BY <2>2, <3>1, <3>3 DEF NftMoves, Nfts!LeasesKept, Nfts!Minted
    <3>5. QED BY <2>2, <3>4, NftMoved
  <2>3. CASE /\ DOMAIN nft' = DOMAIN nft /\ nft'.owner = nft.owner /\ nft'.balance = nft.balance
             /\ nft'.rental = nft.rental /\ nft'.hand = nft.hand \ {t}
             /\ nft'.pending = nft.pending /\ nft.pending[t] = Nfts!NoPending
    <3>1. NftKept
      BY <2>3 DEF NftKept, NftInv, NftTypes
    <3>2. QED BY <1>1, <3>1
  <2>4. QED BY <2>1, <2>2, <2>3, NftHandOver
<1>5. QED BY <1>1, <1>2, <1>3, <1>4, NftQueued, NftLeased, NftTicked, NftOthers DEF Nfts!Next

(* QueuedIsSound of the table tokens: a transfer waits only while its table is in a hand
   and not leased, and it is one of the present owner. *)
THEOREM TransfersQueuedSoundly == ASSUME NftConstants PROVE Nfts!Spec => []Nfts!QueuedIsSound
<1>1. Nfts!Init => NftInv
  BY NftInit
<1>2. NftInv /\ [Nfts!Next]_nft => NftInv'
  BY NftStep
<1>3. NftInv => Nfts!QueuedIsSound
  BY DEF NftInv
<1>4. QED BY <1>1, <1>2, <1>3, PTL DEF Nfts!Spec

(* BalancesCover of the table tokens: nobody's balance falls below the number of tables she
   owns, after mints, transfers, queued transfers and ends of hands. *)
THEOREM BalancesStayCovering == ASSUME NftConstants PROVE Nfts!Spec => []Nfts!BalancesCover
<1>1. Nfts!Init => NftInv
  BY NftInit
<1>2. NftInv /\ [Nfts!Next]_nft => NftInv'
  BY NftStep
<1>3. NftInv => Nfts!BalancesCover
  BY NftsCardinality DEF NftInv, NftCovered, NftOwned, Nfts!BalancesCover
<1>4. QED BY <1>1, <1>2, <1>3, PTL DEF Nfts!Spec

(* LeasesKept of the table tokens: no step moves a table that is in a hand or leased, and a
   table with a transfer waiting goes where that says. *)
THEOREM LeasesStayKept == ASSUME NftConstants PROVE Nfts!Spec => [][Nfts!LeasesKept]_nft
<1>1. Nfts!Init => NftInv
  BY NftInit
<1>2. NftInv /\ [Nfts!Next]_nft => NftInv'
  BY NftStep
<1>3. NftInv /\ [Nfts!Next]_nft => [Nfts!LeasesKept]_nft
  BY NftStep
<1>4. QED BY <1>1, <1>2, <1>3, PTL DEF Nfts!Spec

-----------------------------------------------------------------------------
(* The committee registry. *)
Registry == INSTANCE CommitteeRegistry

RegConstants ==
  /\ IsFiniteSet(Nodes) /\ IsFiniteSet(Delegators)
  /\ Amounts \subseteq Nat /\ MinStake \in Nat /\ FeeRateBps \in 0 .. 10000
  /\ AffectedCounts \subseteq Nat /\ Cooldown \in Nat /\ Scale \in Nat \ {0}

RegFields == {"members", "member", "delegation", "cooling", "unbonding", "reward", "rewards",
              "pool", "epoch", "game", "paused", "held"}
RegMember  == [stake : Nat, active : BOOLEAN, strikes : Nat, delegated : Nat, perStake : Nat,
               operator : Operators \union {Registry!NoOperator}]
RegLoan    == [amount : Nat, debt : Nat, pending : Nat]
RegRequest == [amount : Nat, left : Nat]

RegTypes(s) ==
  /\ RegFields \subseteq DOMAIN s
  /\ s.members \subseteq Nodes /\ s.epoch \subseteq Nodes /\ s.member \in [Nodes -> RegMember]
  /\ s.delegation \in [Delegators -> [Nodes -> RegLoan]]
  /\ s.cooling \in [Delegators -> [Nodes -> RegRequest]]
  /\ s.unbonding \in [Nodes -> RegRequest]
  /\ s.reward \in [Nodes -> Nat] /\ s.pool \in Nat /\ s.held \in Int
  /\ {"idle", "affected", "resolved"} \subseteq DOMAIN s.game
  /\ ~ s.game.resolved => s.game.affected \in Nat \ {0}

(* What lies behind a node: in tokens, and in shares of fees not yet rounded. *)
RegLent(s, n) == [d \in Delegators |-> s.delegation[d][n].amount]
RegPut(s, n)  == [d \in Delegators |-> s.delegation[d][n].amount + s.cooling[d][n].amount
                                       + s.delegation[d][n].pending]
RegDue(s, n)  == [d \in Delegators |->
  s.delegation[d][n].amount * (s.member[n].perStake - s.delegation[d][n].debt)]

RegTokens(s) == [n \in Nodes |->
  s.member[n].stake + s.unbonding[n].amount + SumFunctionOnSet(RegPut(s, n), Delegators)]
RegDues(s)   == [n \in Nodes |-> SumFunctionOnSet(RegDue(s, n), Delegators)]
RegRewards(s) == SumFunctionOnSet(s.reward, Nodes)

(* What is left of the tokens held once everything written down is taken off. *)
RegSpare(s) == s.held - SumFunctionOnSet(RegTokens(s), Nodes) - s.pool - s.rewards

(* A fresh record starts to count fees anew, so a loan that was taken back may be ahead. *)
RegPaidUp(rec, perStake) == rec.amount = 0 \/ rec.debt <= perStake

RegNode(s, n) ==
  /\ s.member[n].delegated = SumFunctionOnSet(RegLent(s, n), Delegators)
  /\ \A d \in Delegators : RegPaidUp(s.delegation[d][n], s.member[n].perStake)
  /\ n \notin s.members => s.member[n].perStake = 0 /\ s.member[n].delegated = 0
                           /\ ~ s.member[n].active
  /\ s.member[n].active \/ n \in s.epoch =>
       s.member[n].stake >= MinStake \/ s.member[n].strikes > 0

RegInv(s) ==
  /\ RegTypes(s) /\ \A n \in Nodes : RegNode(s, n)
  /\ s.rewards = RegRewards(s)
  /\ SumFunctionOnSet(RegDues(s), Nodes) <= Scale * RegSpare(s)

LEMMA RegSum == \A f, S : Registry!SumFunctionOnSet(f, S) = SumFunctionOnSet(f, S)
BY DEF Registry!SumFunctionOnSet, SumFunctionOnSet, Registry!FoldFunctionOnSet, FoldFunctionOnSet,
       Registry!MapThenFoldSet, MapThenFoldSet

(* The sums are sums of numbers. *)
LEMMA RegSumsAreNumbers ==
  ASSUME RegConstants, NEW s, RegTypes(s)
  PROVE  /\ \A n \in Nodes : /\ SumFunctionOnSet(RegPut(s, n), Delegators) \in Nat
                             /\ SumFunctionOnSet(RegDue(s, n), Delegators) \in Int
                             /\ SumFunctionOnSet(RegLent(s, n), Delegators) \in Nat
         /\ RegTokens(s) \in [Nodes -> Nat] /\ RegDues(s) \in [Nodes -> Int]
         /\ SumFunctionOnSet(RegTokens(s), Nodes) \in Nat
         /\ SumFunctionOnSet(RegDues(s), Nodes) \in Int
         /\ RegRewards(s) \in Nat
<1>1. ASSUME NEW n \in Nodes, NEW d \in Delegators
      PROVE  /\ s.delegation[d][n].amount \in Nat /\ s.delegation[d][n].debt \in Nat
             /\ s.delegation[d][n].pending \in Nat /\ s.cooling[d][n].amount \in Nat
             /\ s.member[n].perStake \in Nat /\ s.member[n].stake \in Nat /\ s.unbonding[n].amount \in Nat
  BY DEF RegTypes, RegLoan, RegRequest, RegMember
<1>2. ASSUME NEW n \in Nodes
      PROVE  /\ SumFunctionOnSet(RegPut(s, n), Delegators) \in Nat
             /\ SumFunctionOnSet(RegDue(s, n), Delegators) \in Int
             /\ SumFunctionOnSet(RegLent(s, n), Delegators) \in Nat
  <2>1. \A d \in Delegators : RegPut(s, n)[d] \in Nat
    BY <1>1 DEF RegPut
  <2>2. \A d \in Delegators : RegDue(s, n)[d] \in Int
    BY <1>1 DEF RegDue
  <2>3. \A d \in Delegators : RegLent(s, n)[d] \in Nat
    BY <1>1 DEF RegLent
  <2>4. IsFiniteSet(Delegators) BY DEF RegConstants
  <2>5. SumFunctionOnSet(RegPut(s, n), Delegators) \in Nat BY <2>1, <2>4, SumNat
  <2>6. SumFunctionOnSet(RegDue(s, n), Delegators) \in Int BY <2>2, <2>4, SumInt
  <2>7. SumFunctionOnSet(RegLent(s, n), Delegators) \in Nat BY <2>3, <2>4, SumNat
  <2>8. QED BY <2>5, <2>6, <2>7
<1>3. \A n \in Nodes : s.member[n].stake \in Nat /\ s.unbonding[n].amount \in Nat
  BY DEF RegTypes, RegMember, RegRequest
<1>4. RegTokens(s) \in [Nodes -> Nat] /\ RegDues(s) \in [Nodes -> Int]
  BY <1>2, <1>3 DEF RegTokens, RegDues
<1>5. IsFiniteSet(Nodes) BY DEF RegConstants
<1>6. SumFunctionOnSet(RegTokens(s), Nodes) \in Nat BY <1>4, <1>5, SumNat
<1>7. SumFunctionOnSet(RegDues(s), Nodes) \in Int BY <1>4, <1>5, SumInt
<1>8. RegRewards(s) \in Nat BY <1>5, SumNat DEF RegRewards, RegTypes
<1>9. QED BY <1>2, <1>4, <1>6, <1>7, <1>8

(* Only what lies behind one node changes. *)
RegAt(s, r, n) ==
  /\ RegConstants /\ RegInv(s) /\ RegTypes(r) /\ n \in Nodes
  /\ \A m \in Nodes \ {n} :
       /\ r.member[m] = s.member[m] /\ r.unbonding[m].amount = s.unbonding[m].amount
       /\ m \in r.members <=> m \in s.members
       /\ \A d \in Delegators : /\ r.delegation[d][m] = s.delegation[d][m]
                                /\ r.cooling[d][m].amount = s.cooling[d][m].amount
  /\ r.epoch = s.epoch /\ r.pool = s.pool /\ r.rewards = s.rewards /\ r.reward = s.reward

(* The node's own books are in order again, and of the tokens nobody has a claim on at
   least q more are left, which pay for the new shares of fees. *)
RegSettled(s, r, n, q) ==
  /\ RegAt(s, r, n) /\ RegNode(r, n) /\ q \in Int
  /\ r.held - RegTokens(r)[n] >= s.held - RegTokens(s)[n] + q
  /\ RegDues(r)[n] <= RegDues(s)[n] + Scale * q

LEMMA RegNodeStep ==
  ASSUME NEW s, NEW r, NEW n, NEW q, RegSettled(s, r, n, q)
  PROVE  RegInv(r)
<1>a. /\ RegConstants /\ RegInv(s) /\ RegTypes(r) /\ n \in Nodes /\ RegNode(r, n) /\ q \in Int
      /\ r.epoch = s.epoch /\ r.pool = s.pool /\ r.rewards = s.rewards /\ r.reward = s.reward
      /\ r.held - RegTokens(r)[n] >= s.held - RegTokens(s)[n] + q
      /\ RegDues(r)[n] <= RegDues(s)[n] + Scale * q
  BY DEF RegSettled, RegAt
<1>b. ASSUME NEW m \in Nodes \ {n}
      PROVE  /\ r.member[m] = s.member[m] /\ r.unbonding[m].amount = s.unbonding[m].amount
             /\ m \in r.members <=> m \in s.members
             /\ \A d \in Delegators : /\ r.delegation[d][m] = s.delegation[d][m]
                                      /\ r.cooling[d][m].amount = s.cooling[d][m].amount
  BY DEF RegSettled, RegAt
<1>1. RegTypes(s) BY <1>a DEF RegInv
<1>2. ASSUME NEW m \in Nodes \ {n}
      PROVE  /\ RegPut(r, m) = RegPut(s, m) /\ RegDue(r, m) = RegDue(s, m)
             /\ RegLent(r, m) = RegLent(s, m)
  BY <1>b DEF RegPut, RegDue, RegLent
<1>3. ASSUME NEW m \in Nodes \ {n}
      PROVE  RegTokens(r)[m] = RegTokens(s)[m] /\ RegDues(r)[m] = RegDues(s)[m]
  BY <1>b, <1>2 DEF RegTokens, RegDues
<1>4. /\ RegTokens(s) \in [Nodes -> Nat] /\ RegDues(s) \in [Nodes -> Int]
      /\ SumFunctionOnSet(RegTokens(s), Nodes) \in Nat
      /\ SumFunctionOnSet(RegDues(s), Nodes) \in Int
  BY <1>a, <1>1, RegSumsAreNumbers
<1>5. /\ RegTokens(r) \in [Nodes -> Nat] /\ RegDues(r) \in [Nodes -> Int]
      /\ SumFunctionOnSet(RegTokens(r), Nodes) \in Nat
      /\ SumFunctionOnSet(RegDues(r), Nodes) \in Int
  BY <1>a, RegSumsAreNumbers
<1>6. IsFiniteSet(Nodes) BY <1>a DEF RegConstants
<1>7. SumFunctionOnSet(RegTokens(r), Nodes) =
        SumFunctionOnSet(RegTokens(s), Nodes) - RegTokens(s)[n] + RegTokens(r)[n]
  <2>1. \A m \in Nodes : RegTokens(s)[m] \in Int /\ RegTokens(r)[m] \in Int
                         /\ (m # n => RegTokens(r)[m] = RegTokens(s)[m])
    BY <1>3, <1>4, <1>5
  <2>2. QED BY <1>a, <1>6, <2>1, SumChange
<1>8. SumFunctionOnSet(RegDues(r), Nodes) =
        SumFunctionOnSet(RegDues(s), Nodes) - RegDues(s)[n] + RegDues(r)[n]
  <2>1. \A m \in Nodes : RegDues(s)[m] \in Int /\ RegDues(r)[m] \in Int
                         /\ (m # n => RegDues(r)[m] = RegDues(s)[m])
    BY <1>3, <1>4, <1>5
  <2>2. QED BY <1>a, <1>6, <2>1, SumChange
<1>9. SumFunctionOnSet(RegDues(r), Nodes) <= Scale * RegSpare(r)
  <2>1. /\ RegTokens(s)[n] \in Int /\ RegTokens(r)[n] \in Int /\ RegDues(s)[n] \in Int
        /\ RegDues(r)[n] \in Int /\ s.held \in Int /\ r.held \in Int /\ s.pool \in Int
        /\ s.rewards \in Int /\ Scale \in Nat
    <3>1. s.rewards \in Int
      BY <1>a, <1>1, RegSumsAreNumbers DEF RegInv
    <3>2. QED BY <3>1, <1>4, <1>5, <1>a, <1>1 DEF RegTypes, RegConstants
  <2>2. RegSpare(r) >= RegSpare(s) + q /\ RegSpare(r) \in Int /\ RegSpare(s) \in Int
    BY <1>a, <1>7, <1>4, <1>5, <2>1 DEF RegSpare
  <2>3. SumFunctionOnSet(RegDues(s), Nodes) <= Scale * RegSpare(s)
    BY <1>a DEF RegInv
  <2>4. SumFunctionOnSet(RegDues(r), Nodes) <= Scale * RegSpare(s) + Scale * q
    BY <1>a, <1>8, <2>1, <2>3, <1>4, <1>5, <2>2
  <2>5. Scale * (RegSpare(s) + q) = Scale * RegSpare(s) + Scale * q
    BY <1>a, <2>1, <2>2
  <2>6. Scale * (RegSpare(s) + q) <= Scale * RegSpare(r)
    <3>1. \A x, y \in Int : x <= y => Scale * x <= Scale * y
      BY <2>1
    <3>2. QED BY <3>1, <2>2, <1>a
  <2>7. QED BY <2>4, <2>5, <2>6, <2>1, <2>2, <1>5, <1>a
<1>10. ASSUME NEW m \in Nodes PROVE RegNode(r, m)
  <2>1. CASE m = n BY <2>1, <1>a
  <2>2. CASE m # n
    <3>1. RegNode(s, m) BY <1>a DEF RegInv
    <3>2. QED BY <2>2, <3>1, <1>a, <1>b, <1>2 DEF RegNode
  <2>3. QED BY <2>1, <2>2
<1>11. r.rewards = RegRewards(r)
  BY <1>a DEF RegInv, RegRewards
<1>12. QED BY <1>a, <1>9, <1>10, <1>11 DEF RegInv

(* The layers behind a node: those of all delegators but one stay. *)
LEMMA RegOneLayer ==
  ASSUME NEW s, NEW r, NEW n, NEW d, RegAt(s, r, n), d \in Delegators,
         r.member[n].perStake = s.member[n].perStake,
         \A e \in Delegators \ {d} : /\ r.delegation[e][n] = s.delegation[e][n]
                                     /\ r.cooling[e][n].amount = s.cooling[e][n].amount
  PROVE  /\ SumFunctionOnSet(RegPut(r, n), Delegators) =
              SumFunctionOnSet(RegPut(s, n), Delegators) - RegPut(s, n)[d] + RegPut(r, n)[d]
         /\ SumFunctionOnSet(RegDue(r, n), Delegators) =
              SumFunctionOnSet(RegDue(s, n), Delegators) - RegDue(s, n)[d] + RegDue(r, n)[d]
         /\ SumFunctionOnSet(RegLent(r, n), Delegators) =
              SumFunctionOnSet(RegLent(s, n), Delegators) - RegLent(s, n)[d] + RegLent(r, n)[d]
<1>1. /\ RegTypes(s) /\ RegTypes(r) /\ n \in Nodes /\ IsFiniteSet(Delegators)
  <2>1. RegConstants /\ RegInv(s) /\ RegTypes(r) /\ n \in Nodes
    BY DEF RegAt
  <2>2. QED BY <2>1 DEF RegInv, RegConstants
<1>2. ASSUME NEW u, RegTypes(u), NEW e \in Delegators
      PROVE  RegPut(u, n)[e] \in Int /\ RegDue(u, n)[e] \in Int /\ RegLent(u, n)[e] \in Int
  <2>1. /\ u.delegation[e][n] \in RegLoan /\ u.cooling[e][n] \in RegRequest /\ u.member[n] \in RegMember
    BY <1>1, <1>2 DEF RegTypes
  <2>2. /\ u.delegation[e][n].amount \in Int /\ u.delegation[e][n].debt \in Int
        /\ u.delegation[e][n].pending \in Int /\ u.cooling[e][n].amount \in Int
        /\ u.member[n].perStake \in Int
    BY <2>1 DEF RegLoan, RegRequest, RegMember
  <2>3. QED BY <2>2 DEF RegPut, RegDue, RegLent
<1>3. ASSUME NEW e \in Delegators, e # d
      PROVE  /\ RegPut(r, n)[e] = RegPut(s, n)[e] /\ RegDue(r, n)[e] = RegDue(s, n)[e]
             /\ RegLent(r, n)[e] = RegLent(s, n)[e]
  BY <1>3 DEF RegPut, RegDue, RegLent
<1>4. \A e \in Delegators : RegPut(s, n)[e] \in Int /\ RegPut(r, n)[e] \in Int
                            /\ (e # d => RegPut(r, n)[e] = RegPut(s, n)[e])
  BY <1>1, <1>2, <1>3
<1>5. \A e \in Delegators : RegDue(s, n)[e] \in Int /\ RegDue(r, n)[e] \in Int
                            /\ (e # d => RegDue(r, n)[e] = RegDue(s, n)[e])
  BY <1>1, <1>2, <1>3
<1>6. \A e \in Delegators : RegLent(s, n)[e] \in Int /\ RegLent(r, n)[e] \in Int
                            /\ (e # d => RegLent(r, n)[e] = RegLent(s, n)[e])
  BY <1>1, <1>2, <1>3
<1>7. SumFunctionOnSet(RegPut(r, n), Delegators) =
        SumFunctionOnSet(RegPut(s, n), Delegators) - RegPut(s, n)[d] + RegPut(r, n)[d]
  BY <1>1, <1>4, SumChange
<1>8. SumFunctionOnSet(RegDue(r, n), Delegators) =
        SumFunctionOnSet(RegDue(s, n), Delegators) - RegDue(s, n)[d] + RegDue(r, n)[d]
  BY <1>1, <1>5, SumChange
<1>9. SumFunctionOnSet(RegLent(r, n), Delegators) =
        SumFunctionOnSet(RegLent(s, n), Delegators) - RegLent(s, n)[d] + RegLent(r, n)[d]
  BY <1>1, <1>6, SumChange
<1>10. QED BY <1>7, <1>8, <1>9

(* Calls about one node's own record: what is lent to it and its fees stay. *)
RegRecord(s, r, n) ==
  /\ RegAt(s, r, n)
  /\ r.member[n].perStake = s.member[n].perStake
  /\ r.member[n].delegated = s.member[n].delegated
  /\ \A d \in Delegators : /\ r.delegation[d][n] = s.delegation[d][n]
                           /\ r.cooling[d][n].amount = s.cooling[d][n].amount
  /\ s.members \subseteq r.members
  /\ r.member[n].active => n \in r.members
  /\ r.member[n].active \/ n \in r.epoch =>
       r.member[n].stake >= MinStake \/ r.member[n].strikes > 0
  /\ r.held - r.member[n].stake - r.unbonding[n].amount >=
       s.held - s.member[n].stake - s.unbonding[n].amount

LEMMA RegRecordStep ==
  ASSUME NEW s, NEW r, NEW n, RegRecord(s, r, n)
  PROVE  RegInv(r)
<1>a. /\ RegAt(s, r, n)
      /\ r.member[n].perStake = s.member[n].perStake
      /\ r.member[n].delegated = s.member[n].delegated
      /\ \A d \in Delegators : /\ r.delegation[d][n] = s.delegation[d][n]
                               /\ r.cooling[d][n].amount = s.cooling[d][n].amount
      /\ s.members \subseteq r.members
      /\ r.member[n].active => n \in r.members
      /\ r.member[n].active \/ n \in r.epoch =>
           r.member[n].stake >= MinStake \/ r.member[n].strikes > 0
      /\ r.held - r.member[n].stake - r.unbonding[n].amount >=
           s.held - s.member[n].stake - s.unbonding[n].amount
  BY DEF RegRecord
<1>b. RegConstants /\ RegInv(s) /\ RegTypes(r) /\ n \in Nodes
  BY <1>a DEF RegAt
<1>c. RegTypes(s) /\ RegNode(s, n)
  BY <1>b DEF RegInv
<1>1. RegPut(r, n) = RegPut(s, n) /\ RegDue(r, n) = RegDue(s, n) /\ RegLent(r, n) = RegLent(s, n)
  BY <1>a DEF RegPut, RegDue, RegLent
<1>2. RegNode(r, n)
  BY <1>a, <1>1, <1>c DEF RegNode
<1>3. /\ r.member[n].stake \in Nat /\ s.member[n].stake \in Nat /\ r.held \in Int /\ s.held \in Int
      /\ r.unbonding[n].amount \in Nat /\ s.unbonding[n].amount \in Nat
  BY <1>b, <1>c DEF RegTypes, RegMember, RegRequest
<1>4. SumFunctionOnSet(RegPut(s, n), Delegators) \in Nat /\ RegDues(s)[n] \in Int
  BY <1>b, <1>c, RegSumsAreNumbers
<1>5. /\ RegTokens(r)[n] = r.member[n].stake + r.unbonding[n].amount
                           + SumFunctionOnSet(RegPut(s, n), Delegators)
      /\ RegTokens(s)[n] = s.member[n].stake + s.unbonding[n].amount
                           + SumFunctionOnSet(RegPut(s, n), Delegators)
      /\ RegDues(r)[n] = RegDues(s)[n]
  BY <1>1, <1>b DEF RegTokens, RegDues
<1>6. Scale * 0 = 0 /\ 0 \in Int
  BY <1>b DEF RegConstants
<1>7. RegSettled(s, r, n, 0)
  <2>1. r.held - RegTokens(r)[n] >= s.held - RegTokens(s)[n] + 0
    BY <1>a, <1>3, <1>4, <1>5
  <2>2. RegDues(r)[n] <= RegDues(s)[n] + Scale * 0
    BY <1>4, <1>5, <1>6
  <2>3. QED BY <1>a, <1>2, <1>6, <2>1, <2>2 DEF RegSettled
<1>8. QED BY <1>7, RegNodeStep

(* Calls about what one delegator lends to one node: of what is due to her up to now,
   q is written down; c is what the books then say more than before. *)
RegLayer(s, r, n, d) ==
  /\ RegAt(s, r, n) /\ d \in Delegators
  /\ r.member[n].perStake = s.member[n].perStake /\ r.member[n].stake = s.member[n].stake
  /\ r.member[n].strikes = s.member[n].strikes
  /\ r.member[n].active = s.member[n].active /\ r.unbonding[n] = s.unbonding[n]
  /\ r.members = s.members
  /\ \A e \in Delegators \ {d} : /\ r.delegation[e][n] = s.delegation[e][n]
                                 /\ r.cooling[e][n].amount = s.cooling[e][n].amount

RegLayerBooks(s, r, n, d) ==
  /\ RegPaidUp(r.delegation[d][n], r.member[n].perStake)
  /\ r.member[n].delegated - s.member[n].delegated =
       r.delegation[d][n].amount - s.delegation[d][n].amount
  /\ n \notin s.members => r.member[n].delegated = 0

RegLayerPaid(s, r, n, d, q) ==
  /\ q \in Int
  /\ RegDue(r, n)[d] <= RegDue(s, n)[d] + Scale * q
  /\ r.held - RegPut(r, n)[d] >= s.held - RegPut(s, n)[d] + q

LEMMA RegLayerStep ==
  ASSUME NEW s, NEW r, NEW n, NEW d, NEW q,
         RegLayer(s, r, n, d), RegLayerBooks(s, r, n, d), RegLayerPaid(s, r, n, d, q)
  PROVE  RegInv(r)
<1>a. /\ RegAt(s, r, n) /\ d \in Delegators
      /\ r.member[n].perStake = s.member[n].perStake /\ r.member[n].stake = s.member[n].stake
      /\ r.member[n].strikes = s.member[n].strikes
      /\ r.member[n].active = s.member[n].active /\ r.unbonding[n] = s.unbonding[n]
      /\ r.members = s.members
      /\ \A e \in Delegators \ {d} : /\ r.delegation[e][n] = s.delegation[e][n]
                                     /\ r.cooling[e][n].amount = s.cooling[e][n].amount
  BY DEF RegLayer
<1>b. RegConstants /\ RegInv(s) /\ RegTypes(r) /\ n \in Nodes /\ r.epoch = s.epoch
  BY <1>a DEF RegAt
<1>c. RegTypes(s) /\ RegNode(s, n)
  BY <1>b DEF RegInv
<1>d. q \in Int /\ Scale \in Nat
  BY <1>b DEF RegLayerPaid, RegConstants
<1> DEFINE put(u)  == SumFunctionOnSet(RegPut(u, n), Delegators)
           due(u)  == SumFunctionOnSet(RegDue(u, n), Delegators)
           lent(u) == SumFunctionOnSet(RegLent(u, n), Delegators)
<1>1. /\ put(r) = put(s) - RegPut(s, n)[d] + RegPut(r, n)[d]
      /\ due(r) = due(s) - RegDue(s, n)[d] + RegDue(r, n)[d]
      /\ lent(r) = lent(s) - RegLent(s, n)[d] + RegLent(r, n)[d]
  BY <1>a, RegOneLayer
<1>2. /\ put(r) \in Nat /\ put(s) \in Nat /\ due(r) \in Int /\ due(s) \in Int
      /\ lent(r) \in Nat /\ lent(s) \in Nat
  BY <1>b, <1>c, RegSumsAreNumbers
<1>3. /\ r.delegation[d][n] \in RegLoan /\ s.delegation[d][n] \in RegLoan
      /\ r.cooling[d][n] \in RegRequest /\ s.cooling[d][n] \in RegRequest
      /\ r.member[n] \in RegMember /\ s.member[n] \in RegMember
      /\ s.unbonding[n] \in RegRequest /\ r.held \in Int /\ s.held \in Int
  BY <1>a, <1>b, <1>c DEF RegTypes
<1>4. /\ RegPut(s, n)[d] \in Int /\ RegPut(r, n)[d] \in Int
      /\ RegDue(s, n)[d] \in Int /\ RegDue(r, n)[d] \in Int
      /\ RegLent(s, n)[d] = s.delegation[d][n].amount /\ RegLent(r, n)[d] = r.delegation[d][n].amount
      /\ s.delegation[d][n].amount \in Int /\ r.delegation[d][n].amount \in Int
      /\ r.member[n].delegated \in Int /\ s.member[n].delegated \in Int
      /\ s.member[n].stake \in Int /\ s.unbonding[n].amount \in Int
  <2>1. /\ r.delegation[d][n].amount \in Int /\ r.delegation[d][n].debt \in Int
        /\ r.delegation[d][n].pending \in Int /\ r.cooling[d][n].amount \in Int
        /\ s.delegation[d][n].amount \in Int /\ s.delegation[d][n].debt \in Int
        /\ s.delegation[d][n].pending \in Int /\ s.cooling[d][n].amount \in Int
        /\ r.member[n].perStake \in Int /\ s.member[n].perStake \in Int
        /\ r.member[n].delegated \in Int /\ s.member[n].delegated \in Int
        /\ s.member[n].stake \in Int /\ s.unbonding[n].amount \in Int
    BY <1>3 DEF RegLoan, RegRequest, RegMember
  <2>2. QED BY <1>a, <2>1 DEF RegPut, RegDue, RegLent
<1> HIDE DEF put, due, lent
<1>5. RegNode(r, n)
  <2>1. /\ s.member[n].delegated = lent(s)
        /\ \A e \in Delegators : RegPaidUp(s.delegation[e][n], s.member[n].perStake)
        /\ n \notin s.members => s.member[n].perStake = 0 /\ ~ s.member[n].active
        /\ s.member[n].active \/ n \in s.epoch =>
             s.member[n].stake >= MinStake \/ s.member[n].strikes > 0
    BY <1>c DEF RegNode, lent
  <2>2. r.member[n].delegated = lent(r)
    <3>1. /\ r.member[n].delegated - s.member[n].delegated =
               r.delegation[d][n].amount - s.delegation[d][n].amount
      BY DEF RegLayerBooks
    <3>2. lent(r) = lent(s) - s.delegation[d][n].amount + r.delegation[d][n].amount
      BY <1>1, <1>4
    <3>3. \A x, y, a, b, l, k \in Int : y - x = b - a /\ x = l /\ k = l - a + b => y = k
      OBVIOUS
    <3>4. QED BY <2>1, <3>1, <3>2, <3>3, <1>2, <1>4
  <2>3. \A e \in Delegators : RegPaidUp(r.delegation[e][n], r.member[n].perStake)
    BY <2>1, <1>a DEF RegLayerBooks
  <2>4. QED BY <1>a, <1>b, <2>1, <2>2, <2>3 DEF RegNode, RegLayerBooks, lent
<1>6. /\ RegTokens(r)[n] = s.member[n].stake + s.unbonding[n].amount + put(r)
      /\ RegTokens(s)[n] = s.member[n].stake + s.unbonding[n].amount + put(s)
      /\ RegDues(r)[n] = due(r) /\ RegDues(s)[n] = due(s)
  BY <1>a, <1>b DEF RegTokens, RegDues, put, due
<1>7. RegSettled(s, r, n, q)
  <2>0. Scale * q \in Int
    BY <1>d
  <2>1. r.held - RegTokens(r)[n] >= s.held - RegTokens(s)[n] + q
    BY <1>1, <1>2, <1>3, <1>4, <1>6, <1>d DEF RegLayerPaid
  <2>2. RegDues(r)[n] <= RegDues(s)[n] + Scale * q
    BY <1>1, <1>2, <1>3, <1>4, <1>6, <1>d, <2>0 DEF RegLayerPaid
  <2>3. QED BY <1>a, <1>5, <1>d, <2>1, <2>2 DEF RegSettled
<1>8. QED BY <1>7, RegNodeStep

(* A call writes m over the record of node n, and u over the stake it is unbonding. *)
RegWritten(s, r, n, m, u) ==
  /\ RegConstants /\ RegInv(s) /\ n \in Nodes /\ m \in RegMember /\ u \in RegRequest
  /\ RegFields \subseteq DOMAIN r /\ r.held \in Int
  /\ r.members \in {s.members, s.members \union {n}}
  /\ r.member = [s.member EXCEPT ![n] = m] /\ r.unbonding = [s.unbonding EXCEPT ![n] = u]
  /\ r.delegation = s.delegation /\ r.cooling = s.cooling /\ r.reward = s.reward
  /\ r.rewards = s.rewards /\ r.pool = s.pool /\ r.epoch = s.epoch /\ r.game = s.game

RegWrittenWell(s, r, n, m, u) ==
  /\ m.perStake = s.member[n].perStake /\ m.delegated = s.member[n].delegated
  /\ m.active => n \in r.members
  /\ m.active \/ n \in s.epoch => m.stake >= MinStake \/ m.strikes > 0
  /\ r.held - m.stake - u.amount >= s.held - s.member[n].stake - s.unbonding[n].amount

LEMMA RegWriteStep ==
  ASSUME NEW s, NEW r, NEW n, NEW m, NEW u,
         RegWritten(s, r, n, m, u), RegWrittenWell(s, r, n, m, u)
  PROVE  RegInv(r)
<1>a. /\ RegConstants /\ RegInv(s) /\ n \in Nodes /\ m \in RegMember /\ u \in RegRequest
      /\ RegFields \subseteq DOMAIN r /\ r.held \in Int
      /\ r.members \in {s.members, s.members \union {n}}
      /\ r.member = [s.member EXCEPT ![n] = m] /\ r.unbonding = [s.unbonding EXCEPT ![n] = u]
      /\ r.delegation = s.delegation /\ r.cooling = s.cooling /\ r.reward = s.reward
      /\ r.rewards = s.rewards /\ r.pool = s.pool /\ r.epoch = s.epoch /\ r.game = s.game
  BY DEF RegWritten
<1>b. RegTypes(s) BY <1>a DEF RegInv
<1>c. /\ s.member \in [Nodes -> RegMember] /\ s.unbonding \in [Nodes -> RegRequest]
      /\ s.members \subseteq Nodes
  BY <1>b DEF RegTypes
<1>1. RegTypes(r)
  BY <1>a, <1>b DEF RegTypes
<1>2. /\ r.member[n] = m /\ r.unbonding[n] = u
      /\ \A k \in Nodes \ {n} : r.member[k] = s.member[k] /\ r.unbonding[k] = s.unbonding[k]
  BY <1>a, <1>c
<1>3. RegAt(s, r, n)
  BY <1>a, <1>1, <1>2 DEF RegAt
<1>4. RegRecord(s, r, n)
  BY <1>a, <1>2, <1>3 DEF RegRecord, RegWrittenWell
<1>5. QED BY <1>4, RegRecordStep

(* Facts about one node that all the calls need. *)
RegAbout(n) ==
  /\ RegFields \subseteq DOMAIN reg /\ reg.members \subseteq Nodes
  /\ reg.member[n] \in RegMember /\ reg.unbonding[n] \in RegRequest
  /\ reg.member \in [Nodes -> RegMember] /\ reg.unbonding \in [Nodes -> RegRequest]
  /\ reg.member[n].stake \in Nat /\ reg.unbonding[n].amount \in Nat /\ reg.held \in Int
  /\ reg.unbonding = [reg.unbonding EXCEPT ![n] = reg.unbonding[n]]
  /\ reg.member = [reg.member EXCEPT ![n] = reg.member[n]]
  /\ reg.member[n].active => n \in reg.members
  /\ n \notin reg.members => reg.member[n].perStake = 0 /\ reg.member[n].delegated = 0
                             /\ ~ reg.member[n].active
  /\ reg.member[n].active \/ n \in reg.epoch =>
       reg.member[n].stake >= MinStake \/ reg.member[n].strikes > 0

LEMMA RegFacts == ASSUME RegInv(reg), NEW n \in Nodes PROVE RegAbout(n)
<1>1. RegTypes(reg) /\ RegNode(reg, n)
  BY DEF RegInv
<1>2. /\ reg.member[n] \in RegMember /\ reg.unbonding[n] \in RegRequest
      /\ reg.member \in [Nodes -> RegMember] /\ reg.unbonding \in [Nodes -> RegRequest]
      /\ RegFields \subseteq DOMAIN reg /\ reg.members \subseteq Nodes /\ reg.held \in Int
  BY <1>1 DEF RegTypes
<1>3. /\ reg.unbonding = [reg.unbonding EXCEPT ![n] = reg.unbonding[n]]
      /\ reg.member = [reg.member EXCEPT ![n] = reg.member[n]]
  BY <1>2
<1>4. reg.member[n].stake \in Nat /\ reg.unbonding[n].amount \in Nat
  BY <1>2 DEF RegMember, RegRequest
<1>5. /\ reg.member[n].active => n \in reg.members
      /\ n \notin reg.members => reg.member[n].perStake = 0 /\ reg.member[n].delegated = 0
                                 /\ ~ reg.member[n].active
      /\ reg.member[n].active \/ n \in reg.epoch =>
           reg.member[n].stake >= MinStake \/ reg.member[n].strikes > 0
  BY <1>1 DEF RegNode
<1>6. QED BY <1>2, <1>3, <1>4, <1>5 DEF RegAbout

(* The one step that breaks the books: a node with delegations behind it registers
   again, and its record forgets them. *)
RegForgets ==
  \E n \in reg.members, a \in Amounts : Registry!Register(n, a) /\ reg.member[n].delegated # 0

LEMMA RegNothingLent ==
  ASSUME RegConstants, RegInv(reg), NEW n \in Nodes, reg.member[n].delegated = 0
  PROVE  /\ \A d \in Delegators : reg.delegation[d][n].amount = 0
         /\ SumFunctionOnSet(RegLent(reg, n), Delegators) = 0
<1>1. RegTypes(reg) /\ RegNode(reg, n) /\ IsFiniteSet(Delegators)
  BY DEF RegInv, RegConstants
<1>2. \A d \in Delegators : RegLent(reg, n)[d] \in Nat
  BY <1>1 DEF RegTypes, RegLoan, RegLent
<1>3. SumFunctionOnSet(RegLent(reg, n), Delegators) = 0
  BY <1>1 DEF RegNode
<1>4. ASSUME NEW d \in Delegators PROVE reg.delegation[d][n].amount = 0
  <2>1. RegLent(reg, n)[d] <= SumFunctionOnSet(RegLent(reg, n), Delegators)
    BY <1>1, <1>2, SumBounds
  <2>2. RegLent(reg, n)[d] = reg.delegation[d][n].amount /\ RegLent(reg, n)[d] \in Nat
    BY <1>2 DEF RegLent
  <2>3. QED BY <1>3, <2>1, <2>2
<1>5. QED BY <1>3, <1>4

LEMMA RegRegister ==
  ASSUME RegConstants, RegInv(reg), NEW n \in Nodes, NEW a \in Amounts, Registry!Register(n, a),
         ~ RegForgets
  PROVE  RegInv(reg')
<1> DEFINE m == [Registry!NotMember EXCEPT !.stake = a, !.active = TRUE]
<1>0. RegAbout(n) /\ RegTypes(reg) BY RegFacts DEF RegInv
<1>1. /\ reg'.members = reg.members \union {n} /\ reg'.held = reg.held + a
      /\ reg'.member = [reg.member EXCEPT ![n] = m] /\ DOMAIN reg' = DOMAIN reg
      /\ reg'.delegation = reg.delegation /\ reg'.cooling = reg.cooling /\ reg'.reward = reg.reward
      /\ reg'.rewards = reg.rewards /\ reg'.pool = reg.pool /\ reg'.epoch = reg.epoch
      /\ reg'.game = reg.game /\ reg'.unbonding = reg.unbonding
  BY <1>0 DEF Registry!Register, RegFields, RegAbout
<1>2. a >= MinStake /\ a \in Nat /\ reg.member[n].delegated = 0
  <2>1. a >= MinStake BY DEF Registry!Register
  <2>2. n \in reg.members => reg.member[n].delegated = 0 BY DEF RegForgets
  <2>3. QED BY <1>0, <2>1, <2>2 DEF RegAbout, RegConstants
<1>3. /\ m \in RegMember /\ m.stake = a /\ m.perStake = 0 /\ m.delegated = 0 /\ m.active
  <2>1. /\ Registry!NotMember \in RegMember
        /\ Registry!NotMember.perStake = 0 /\ Registry!NotMember.delegated = 0
    BY DEF Registry!NotMember, RegMember
  <2>2. \A o \in RegMember : /\ [o EXCEPT !.stake = a, !.active = TRUE] \in RegMember
                             /\ [o EXCEPT !.stake = a, !.active = TRUE].stake = a
                             /\ [o EXCEPT !.stake = a, !.active = TRUE].active
                             /\ [o EXCEPT !.stake = a, !.active = TRUE].perStake = o.perStake
                             /\ [o EXCEPT !.stake = a, !.active = TRUE].delegated = o.delegated
    BY <1>2 DEF RegMember
  <2>3. QED BY <2>1, <2>2
<1> HIDE DEF m
<1>4. reg'.member[n] = m /\ \A k \in Nodes \ {n} : reg'.member[k] = reg.member[k]
  BY <1>0, <1>1 DEF RegAbout
<1>5. RegTypes(reg')
  <2>1. reg'.held \in Int /\ reg'.member \in [Nodes -> RegMember]
    BY <1>0, <1>1, <1>2, <1>3 DEF RegAbout
  <2>2. QED BY <1>0, <1>1, <2>1 DEF RegTypes
<1>6. RegAt(reg, reg', n)
  BY <1>1, <1>4, <1>5 DEF RegAt
<1>7. /\ \A d \in Delegators : reg.delegation[d][n].amount = 0
      /\ SumFunctionOnSet(RegLent(reg, n), Delegators) = 0
  BY <1>2, RegNothingLent
<1>8. RegPut(reg', n) = RegPut(reg, n) /\ RegLent(reg', n) = RegLent(reg, n)
  BY <1>1 DEF RegPut, RegLent
<1>9. RegNode(reg', n)
  BY <1>1, <1>2, <1>3, <1>4, <1>7, <1>8 DEF RegNode, RegPaidUp
<1>10. RegDues(reg)[n] = 0 /\ RegDues(reg')[n] = 0
  <2>1. ASSUME NEW s \in {reg, reg'}, NEW d \in Delegators PROVE RegDue(s, n)[d] = 0
    <3>1. s.delegation = reg.delegation /\ s.member[n] \in RegMember
      BY <1>0, <1>1, <1>3, <1>4 DEF RegAbout
    <3>2. s.delegation[d][n].debt \in Nat /\ s.member[n].perStake \in Nat
      BY <1>0, <3>1 DEF RegTypes, RegLoan, RegMember
    <3>3. RegDue(s, n)[d] = 0 * (s.member[n].perStake - s.delegation[d][n].debt)
      BY <1>7, <3>1 DEF RegDue
    <3>4. QED BY <3>2, <3>3
  <2>2. IsFiniteSet(Delegators) BY DEF RegConstants
  <2>3. SumFunctionOnSet(RegDue(reg, n), Delegators) = 0 BY <2>1, <2>2, SumZero
  <2>4. SumFunctionOnSet(RegDue(reg', n), Delegators) = 0 BY <2>1, <2>2, SumZero
  <2>5. QED BY <2>3, <2>4 DEF RegDues
<1>11. RegSettled(reg, reg', n, 0)
  <2>1. PICK p : p = SumFunctionOnSet(RegPut(reg, n), Delegators) OBVIOUS
  <2>2. p \in Nat BY <1>0, <2>1, RegSumsAreNumbers
  <2>3. /\ RegTokens(reg)[n] = reg.member[n].stake + reg.unbonding[n].amount + p
        /\ RegTokens(reg')[n] = a + reg.unbonding[n].amount + p
    BY <1>1, <1>3, <1>4, <1>8, <2>1 DEF RegTokens
  <2>4. reg'.held - RegTokens(reg')[n] >= reg.held - RegTokens(reg)[n] + 0
    BY <1>0, <1>1, <1>2, <2>2, <2>3 DEF RegAbout
  <2>5. Scale * 0 = 0 BY DEF RegConstants
  <2>6. RegDues(reg')[n] <= RegDues(reg)[n] + Scale * 0
    BY <1>10, <2>5
  <2>7. QED BY <1>6, <1>9, <2>4, <2>6 DEF RegSettled
<1>12. QED BY <1>11, RegNodeStep

LEMMA RegSetOperator ==
  ASSUME RegConstants, RegInv(reg), NEW n \in Nodes, NEW op \in Operators, Registry!SetOperator(n, op)
  PROVE  RegInv(reg')
<1> DEFINE m == [reg.member[n] EXCEPT !.operator = op]
<1>0. RegAbout(n) BY RegFacts
<1>1. /\ reg'.delegation = reg.delegation /\ reg'.cooling = reg.cooling /\ reg'.reward = reg.reward
      /\ reg'.rewards = reg.rewards /\ reg'.pool = reg.pool /\ reg'.epoch = reg.epoch
      /\ reg'.game = reg.game /\ reg'.members = reg.members /\ DOMAIN reg' = DOMAIN reg
      /\ reg'.member = [reg.member EXCEPT ![n] = m] /\ reg'.unbonding = reg.unbonding
      /\ reg'.held = reg.held
  BY <1>0 DEF Registry!SetOperator, RegFields, RegAbout
<1>2. n \in reg.members
  BY DEF Registry!SetOperator
<1>3. /\ m \in RegMember /\ m.stake = reg.member[n].stake /\ m.active = reg.member[n].active
      /\ m.strikes = reg.member[n].strikes /\ m.perStake = reg.member[n].perStake
      /\ m.delegated = reg.member[n].delegated
  BY <1>0 DEF RegAbout, RegMember
<1> HIDE DEF m
<1>4. RegWritten(reg, reg', n, m, reg.unbonding[n])
  BY <1>0, <1>1, <1>2, <1>3 DEF RegWritten, RegAbout
<1>5. RegWrittenWell(reg, reg', n, m, reg.unbonding[n])
  BY <1>0, <1>1, <1>2, <1>3 DEF RegWrittenWell, RegAbout
<1>6. QED BY <1>4, <1>5, RegWriteStep

LEMMA RegDeregister ==
  ASSUME RegConstants, RegInv(reg), NEW n \in Nodes, Registry!Deregister(n)
  PROVE  RegInv(reg')
<1> DEFINE m == [reg.member[n] EXCEPT !.stake = 0, !.active = FALSE]
<1>0. RegAbout(n) BY RegFacts
<1>1. /\ reg'.delegation = reg.delegation /\ reg'.cooling = reg.cooling /\ reg'.reward = reg.reward
      /\ reg'.rewards = reg.rewards /\ reg'.pool = reg.pool /\ reg'.epoch = reg.epoch
      /\ reg'.game = reg.game /\ reg'.members = reg.members /\ DOMAIN reg' = DOMAIN reg
      /\ reg'.member = [reg.member EXCEPT ![n] = m] /\ reg'.unbonding = reg.unbonding
      /\ reg'.held = reg.held - reg.member[n].stake
  BY <1>0 DEF Registry!Deregister, RegFields, RegAbout
<1>2. n \notin reg.epoch
  BY DEF Registry!Deregister
<1>3. /\ m \in RegMember /\ m.stake = 0 /\ ~ m.active
      /\ m.perStake = reg.member[n].perStake /\ m.delegated = reg.member[n].delegated
  BY <1>0 DEF RegAbout, RegMember
<1> HIDE DEF m
<1>4. RegWritten(reg, reg', n, m, reg.unbonding[n])
  BY <1>0, <1>1, <1>2, <1>3 DEF RegWritten, RegAbout
<1>5. RegWrittenWell(reg, reg', n, m, reg.unbonding[n])
  BY <1>0, <1>1, <1>2, <1>3 DEF RegWrittenWell, RegAbout
<1>6. QED BY <1>4, <1>5, RegWriteStep

(* A record after a strike, out of service, and short of stake too. *)
RegStruck(o, k, m) == o \in RegMember /\ k \in Nat
  /\ m = [o EXCEPT !.strikes = k]

LEMMA RegStruckRecord ==
  ASSUME NEW o, NEW k, NEW m, RegStruck(o, k, m)
  PROVE  /\ m \in RegMember /\ m.stake = o.stake /\ m.strikes = k /\ m.active = o.active
         /\ m.perStake = o.perStake /\ m.delegated = o.delegated
BY DEF RegMember, RegStruck

RegOut(o, k, m) == o \in RegMember /\ k \in Nat
  /\ m = [o EXCEPT !.active = FALSE, !.strikes = k]

LEMMA RegOutRecord ==
  ASSUME NEW o, NEW k, NEW m, RegOut(o, k, m)
  PROVE  /\ m \in RegMember /\ m.stake = o.stake /\ m.strikes = k /\ ~ m.active
         /\ m.perStake = o.perStake /\ m.delegated = o.delegated
BY DEF RegMember, RegOut

RegShort(o, k, h, m) == o \in RegMember /\ k \in Nat /\ h \in Nat
  /\ m = [o EXCEPT !.strikes = k, !.stake = h, !.active = FALSE]

LEMMA RegShortRecord ==
  ASSUME NEW o, NEW k, NEW h, NEW m, RegShort(o, k, h, m)
  PROVE  /\ m \in RegMember /\ m.stake = h /\ m.strikes = k /\ ~ m.active
         /\ m.perStake = o.perStake /\ m.delegated = o.delegated
BY DEF RegMember, RegShort

RegTotal(o, k, m) == o \in RegMember /\ k \in Nat /\ m = [o EXCEPT !.delegated = k]

LEMMA RegTotalRecord ==
  ASSUME NEW o, NEW k, NEW m, RegTotal(o, k, m)
  PROVE  /\ m \in RegMember /\ m.stake = o.stake /\ m.strikes = o.strikes /\ m.active = o.active
         /\ m.perStake = o.perStake /\ m.delegated = k
BY DEF RegMember, RegTotal

LEMMA RegDeregisterOnFailure ==
  ASSUME RegConstants, RegInv(reg), NEW n \in Nodes, Registry!DeregisterOnFailure(n)
  PROVE  RegInv(reg')
<1> DEFINE m == [reg.member[n] EXCEPT !.active = FALSE, !.strikes = Registry!Min(Registry!StrikeLimit, @ + 1)]
<1>0. RegAbout(n) BY RegFacts
<1>1. /\ reg'.delegation = reg.delegation /\ reg'.cooling = reg.cooling /\ reg'.reward = reg.reward
      /\ reg'.rewards = reg.rewards /\ reg'.pool = reg.pool /\ reg'.epoch = reg.epoch
      /\ reg'.game = reg.game /\ reg'.members = reg.members /\ DOMAIN reg' = DOMAIN reg
      /\ reg'.member = [reg.member EXCEPT ![n] = m] /\ reg'.unbonding = reg.unbonding
      /\ reg'.held = reg.held
  BY <1>0 DEF Registry!DeregisterOnFailure, RegFields, RegAbout
<1>2. \A x \in Nat : Registry!Min(Registry!StrikeLimit, x + 1) \in Nat \ {0}
  BY DEF Registry!Min, Registry!StrikeLimit
<1>3. /\ m \in RegMember /\ m.stake = reg.member[n].stake /\ ~ m.active /\ m.strikes > 0
      /\ m.perStake = reg.member[n].perStake /\ m.delegated = reg.member[n].delegated
  <2> DEFINE k == Registry!Min(Registry!StrikeLimit, reg.member[n].strikes + 1)
  <2>1. k \in Nat \ {0}
    BY <1>0, <1>2 DEF RegAbout, RegMember
  <2>2. m = [reg.member[n] EXCEPT !.active = FALSE, !.strikes = k]
    OBVIOUS
  <2>3. reg.member[n] \in RegMember BY <1>0 DEF RegAbout
  <2> HIDE DEF k, m
  <2>4. RegOut(reg.member[n], k, m) BY <2>1, <2>2, <2>3 DEF RegOut
  <2>5. QED BY <2>1, <2>4, RegOutRecord
<1> HIDE DEF m
<1>4. RegWritten(reg, reg', n, m, reg.unbonding[n])
  BY <1>0, <1>1, <1>2, <1>3 DEF RegWritten, RegAbout
<1>5. RegWrittenWell(reg, reg', n, m, reg.unbonding[n])
  BY <1>0, <1>1, <1>2, <1>3 DEF RegWrittenWell, RegAbout
<1>6. QED BY <1>4, <1>5, RegWriteStep

LEMMA RegTopUpStake ==
  ASSUME RegConstants, RegInv(reg), NEW n \in Nodes, NEW a \in Amounts, Registry!TopUpStake(n, a)
  PROVE  RegInv(reg')
<1> DEFINE m == [reg.member[n] EXCEPT !.stake = @ + a]
<1>0. RegAbout(n) BY RegFacts
<1>1. /\ reg'.delegation = reg.delegation /\ reg'.cooling = reg.cooling /\ reg'.reward = reg.reward
      /\ reg'.rewards = reg.rewards /\ reg'.pool = reg.pool /\ reg'.epoch = reg.epoch
      /\ reg'.game = reg.game /\ reg'.members = reg.members /\ DOMAIN reg' = DOMAIN reg
      /\ reg'.member = [reg.member EXCEPT ![n] = m] /\ reg'.unbonding = reg.unbonding
      /\ reg'.held = reg.held + a
  BY <1>0 DEF Registry!TopUpStake, RegFields, RegAbout
<1>2. a \in Nat /\ MinStake \in Nat
  BY DEF RegConstants
<1>3. /\ m \in RegMember /\ m.stake = reg.member[n].stake + a /\ m.active = reg.member[n].active
      /\ m.strikes = reg.member[n].strikes
      /\ m.perStake = reg.member[n].perStake /\ m.delegated = reg.member[n].delegated
  BY <1>0, <1>2 DEF RegAbout, RegMember
<1> HIDE DEF m
<1>4. RegWritten(reg, reg', n, m, reg.unbonding[n])
  BY <1>0, <1>1, <1>2, <1>3 DEF RegWritten, RegAbout
<1>5. RegWrittenWell(reg, reg', n, m, reg.unbonding[n])
  BY <1>0, <1>1, <1>2, <1>3 DEF RegWrittenWell, RegAbout
<1>6. QED BY <1>4, <1>5, RegWriteStep

LEMMA RegBeginStakeUnbonding ==
  ASSUME RegConstants, RegInv(reg), NEW n \in Nodes, NEW a \in Amounts, Registry!BeginStakeUnbonding(n, a)
  PROVE  RegInv(reg')
<1> DEFINE m == [reg.member[n] EXCEPT !.stake = @ - a]
<1>0. RegAbout(n) BY RegFacts
<1>1. /\ reg'.delegation = reg.delegation /\ reg'.cooling = reg.cooling /\ reg'.reward = reg.reward
      /\ reg'.rewards = reg.rewards /\ reg'.pool = reg.pool /\ reg'.epoch = reg.epoch
      /\ reg'.game = reg.game /\ reg'.members = reg.members /\ DOMAIN reg' = DOMAIN reg
      /\ reg'.member = [reg.member EXCEPT ![n] = m] /\ reg'.unbonding = [reg.unbonding EXCEPT ![n] = [amount |-> a, left |-> Cooldown]]
      /\ reg'.held = reg.held
  BY <1>0 DEF Registry!BeginStakeUnbonding, RegFields, RegAbout
<1>2. /\ a \in Nat /\ reg.member[n].stake - a >= MinStake /\ reg.unbonding[n].amount = 0
      /\ MinStake \in Nat /\ Cooldown \in Nat
      /\ [amount |-> a, left |-> Cooldown] \in RegRequest
  BY DEF RegConstants, Registry!BeginStakeUnbonding, Registry!NoRequest, RegRequest
<1>3. /\ m \in RegMember /\ m.stake = reg.member[n].stake - a /\ m.active = reg.member[n].active
      /\ m.perStake = reg.member[n].perStake /\ m.delegated = reg.member[n].delegated
  <2>1. reg.member[n].stake - a \in Nat
    BY <1>0, <1>2 DEF RegAbout
  <2>2. QED BY <1>0, <2>1 DEF RegAbout, RegMember
<1> HIDE DEF m
<1>4. RegWritten(reg, reg', n, m, [amount |-> a, left |-> Cooldown])
  BY <1>0, <1>1, <1>2, <1>3 DEF RegWritten, RegAbout
<1>5. RegWrittenWell(reg, reg', n, m, [amount |-> a, left |-> Cooldown])
  BY <1>0, <1>1, <1>2, <1>3 DEF RegWrittenWell, RegAbout
<1>6. QED BY <1>4, <1>5, RegWriteStep

LEMMA RegCompleteStakeUnbonding ==
  ASSUME RegConstants, RegInv(reg), NEW n \in Nodes, Registry!CompleteStakeUnbonding(n)
  PROVE  RegInv(reg')
<1> DEFINE m == reg.member[n]
<1>0. RegAbout(n) BY RegFacts
<1>1. /\ reg'.delegation = reg.delegation /\ reg'.cooling = reg.cooling /\ reg'.reward = reg.reward
      /\ reg'.rewards = reg.rewards /\ reg'.pool = reg.pool /\ reg'.epoch = reg.epoch
      /\ reg'.game = reg.game /\ reg'.members = reg.members /\ DOMAIN reg' = DOMAIN reg
      /\ reg'.member = [reg.member EXCEPT ![n] = m] /\ reg'.unbonding = [reg.unbonding EXCEPT ![n] = Registry!NoRequest]
      /\ reg'.held = reg.held - reg.unbonding[n].amount
  BY <1>0 DEF Registry!CompleteStakeUnbonding, RegFields, RegAbout
<1>2. Registry!NoRequest \in RegRequest /\ Registry!NoRequest.amount = 0
  BY DEF Registry!NoRequest, RegRequest
<1>3. m = reg.member[n] /\ m \in RegMember
  BY <1>0 DEF RegAbout
<1> HIDE DEF m
<1>4. RegWritten(reg, reg', n, m, Registry!NoRequest)
  BY <1>0, <1>1, <1>2, <1>3 DEF RegWritten, RegAbout
<1>5. RegWrittenWell(reg, reg', n, m, Registry!NoRequest)
  BY <1>0, <1>1, <1>2, <1>3 DEF RegWrittenWell, RegAbout
<1>6. QED BY <1>4, <1>5, RegWriteStep

LEMMA RegReportSlash ==
  ASSUME RegConstants, RegInv(reg), NEW n \in Nodes, Registry!ReportSlash(n)
  PROVE  RegInv(reg')
<1> DEFINE k == Registry!Min(Registry!StrikeLimit, reg.member[n].strikes + 1)
           h == reg.member[n].stake - Registry!HalfOf(reg.member[n].stake)
           m == IF k < Registry!StrikeLimit THEN [reg.member[n] EXCEPT !.strikes = k]
                ELSE [reg.member[n] EXCEPT !.strikes = k, !.stake = h, !.active = FALSE]
<1>0. RegAbout(n) BY RegFacts
<1>1. /\ reg'.delegation = reg.delegation /\ reg'.cooling = reg.cooling /\ reg'.reward = reg.reward
      /\ reg'.rewards = reg.rewards /\ reg'.pool = reg.pool /\ reg'.epoch = reg.epoch
      /\ reg'.game = reg.game /\ reg'.members = reg.members /\ DOMAIN reg' = DOMAIN reg
      /\ reg'.member = [reg.member EXCEPT ![n] = m] /\ reg'.unbonding = reg.unbonding
      /\ reg'.held = reg.held
  <2>1. reg' = [reg EXCEPT !.member[n] = m]
    BY DEF Registry!ReportSlash
  <2> HIDE DEF k, h, m
  <2>2. QED BY <1>0, <2>1 DEF RegFields, RegAbout
<1>2. n \in reg.members BY DEF Registry!ReportSlash
<1>3. k \in Nat \ {0} /\ h \in Nat /\ h <= reg.member[n].stake
  <2>1. reg.member[n].stake \in Nat /\ reg.member[n].strikes \in Nat
    BY <1>0 DEF RegAbout, RegMember
  <2>2. \A x \in Nat : Registry!Min(Registry!StrikeLimit, x + 1) \in Nat \ {0}
    BY DEF Registry!Min, Registry!StrikeLimit
  <2>3. \A x \in Nat : x - Registry!HalfOf(x) \in Nat /\ x - Registry!HalfOf(x) <= x
    BY DEF Registry!HalfOf
  <2>4. QED BY <2>1, <2>2, <2>3
<1> HIDE DEF k, h
<1>4. /\ m \in RegMember /\ m.stake \in Nat /\ m.stake <= reg.member[n].stake /\ m.strikes > 0
      /\ m.perStake = reg.member[n].perStake /\ m.delegated = reg.member[n].delegated
  <2>0. reg.member[n] \in RegMember /\ reg.member[n].stake \in Nat
    BY <1>0 DEF RegAbout
  <2>1. CASE k < Registry!StrikeLimit
    <3>1. m = [reg.member[n] EXCEPT !.strikes = k]
      BY <2>1
    <3> HIDE DEF m
    <3>2. RegStruck(reg.member[n], k, m) BY <1>3, <2>0, <3>1 DEF RegStruck
    <3>3. QED BY <1>3, <2>0, <3>2, RegStruckRecord
  <2>2. CASE ~ (k < Registry!StrikeLimit)
    <3>1. m = [reg.member[n] EXCEPT !.strikes = k, !.stake = h, !.active = FALSE]
      BY <2>2
    <3> HIDE DEF m
    <3>2. RegShort(reg.member[n], k, h, m) BY <1>3, <2>0, <3>1 DEF RegShort
    <3>3. QED BY <1>3, <2>0, <3>2, RegShortRecord
  <2>3. QED BY <2>1, <2>2
<1> HIDE DEF m
<1>5. RegWritten(reg, reg', n, m, reg.unbonding[n])
  BY <1>0, <1>1, <1>2, <1>4 DEF RegWritten, RegAbout
<1>6. RegWrittenWell(reg, reg', n, m, reg.unbonding[n])
  <2>1. reg'.held - m.stake - reg.unbonding[n].amount >=
          reg.held - reg.member[n].stake - reg.unbonding[n].amount
    BY <1>0, <1>1, <1>4 DEF RegAbout
  <2>2. QED BY <1>0, <1>1, <1>2, <1>4, <2>1 DEF RegWrittenWell, RegAbout
<1>7. QED BY <1>5, <1>6, RegWriteStep

LEMMA RegRoundsDown ==
  ASSUME NEW a \in Nat, NEW b \in Nat \ {0} PROVE a \div b \in Nat /\ b * (a \div b) <= a
OBVIOUS

(* Writing down what a delegation has earned: rounded down, so never more than was due. *)
RegEarned(rec, p, q, c) ==
  /\ q = Registry!CalcPending(rec, p) /\ c = Registry!Checkpoint(rec, p)
  /\ RegConstants /\ rec \in RegLoan /\ p \in Nat /\ RegPaidUp(rec, p)

RegWrittenDown(rec, p, q, c) ==
  /\ q \in Nat /\ Scale * q <= rec.amount * (p - rec.debt)
  /\ c \in RegLoan /\ c.amount = rec.amount /\ c.debt = p /\ c.pending = rec.pending + q

LEMMA RegDueIsNat ==
  ASSUME NEW a \in Nat, NEW k \in Nat, NEW p \in Nat, a = 0 \/ k <= p PROVE a * (p - k) \in Nat
<1>1. CASE a = 0
  <2>1. p - k \in Int OBVIOUS
  <2>2. QED BY <1>1, <2>1
<1>2. CASE k <= p
  <2>1. p - k \in Nat BY <1>2
  <2>2. \A x, y \in Nat : x * y \in Nat OBVIOUS
  <2>3. QED BY <2>1, <2>2
<1>3. QED BY <1>1, <1>2

LEMMA RegCheckpoint ==
  ASSUME NEW rec, NEW p, NEW q, NEW c, RegEarned(rec, p, q, c)
  PROVE  RegWrittenDown(rec, p, q, c)
<1>1. /\ q = Registry!CalcPending(rec, p) /\ c = Registry!Checkpoint(rec, p)
      /\ rec \in RegLoan /\ p \in Nat /\ RegPaidUp(rec, p) /\ Scale \in Nat \ {0}
  BY DEF RegEarned, RegConstants
<1>2. rec.amount \in Nat /\ rec.debt \in Nat /\ rec.pending \in Nat
  BY <1>1 DEF RegLoan
<1> DEFINE x == rec.amount * (p - rec.debt)
<1>3. x \in Nat
  BY <1>1, <1>2, RegDueIsNat DEF RegPaidUp
<1>4. q = IF rec.amount = 0 \/ p <= rec.debt THEN 0 ELSE x \div Scale
  BY <1>1 DEF Registry!CalcPending
<1> HIDE DEF x
<1>5. x \div Scale \in Nat /\ Scale * (x \div Scale) <= x
  BY <1>1, <1>3, RegRoundsDown
<1>6. q \in Nat /\ Scale * q <= x
  <2>1. CASE q = 0
    <3>1. Scale * 0 = 0 BY <1>1
    <3>2. QED BY <1>3, <2>1, <3>1
  <2>2. CASE q = x \div Scale
    BY <1>5, <2>2
  <2>3. QED BY <1>4, <2>1, <2>2
<1>7. c = [rec EXCEPT !.pending = rec.pending + q, !.debt = p]
  BY <1>1 DEF Registry!Checkpoint
<1>8. c \in RegLoan /\ c.amount = rec.amount /\ c.debt = p /\ c.pending = rec.pending + q
  <2>1. \A k \in Nat : LET u == [rec EXCEPT !.pending = k, !.debt = p] IN
           u \in RegLoan /\ u.amount = rec.amount /\ u.debt = p /\ u.pending = k
    <3>1. rec \in RegLoan /\ p \in Nat BY <1>1
    <3>2. QED BY <3>1 DEF RegLoan
  <2>2. rec.pending + q \in Nat BY <1>2, <1>6
  <2>3. QED BY <1>7, <2>1, <2>2
<1>9. QED BY <1>6, <1>8 DEF RegWrittenDown, x

(* A call writes a delegation, its request to leave, and the node's total. *)
RegLending(s, r, n, d, rec, req, m) ==
  /\ RegConstants /\ RegInv(s) /\ n \in Nodes /\ d \in Delegators
  /\ rec \in RegLoan /\ req \in RegRequest /\ m \in RegMember
  /\ RegFields \subseteq DOMAIN r /\ r.held \in Int
  /\ r.delegation = [s.delegation EXCEPT ![d][n] = rec]
  /\ r.cooling = [s.cooling EXCEPT ![d][n] = req]
  /\ r.member = [s.member EXCEPT ![n] = m]
  /\ r.members = s.members /\ r.unbonding = s.unbonding /\ r.reward = s.reward
  /\ r.rewards = s.rewards /\ r.pool = s.pool /\ r.epoch = s.epoch /\ r.game = s.game

RegLent2(s, n, d, rec, m) ==
  /\ m.perStake = s.member[n].perStake /\ m.stake = s.member[n].stake
  /\ m.strikes = s.member[n].strikes /\ m.active = s.member[n].active
  /\ m.delegated - s.member[n].delegated = rec.amount - s.delegation[d][n].amount
  /\ n \notin s.members => m.delegated = 0
  /\ RegPaidUp(rec, s.member[n].perStake)

(* What the call pays out, and what it writes down, comes from what was due. *)
RegSquare(s, r, n, d, rec, req, q) ==
  /\ q \in Int
  /\ rec.amount * (s.member[n].perStake - rec.debt) <=
       s.delegation[d][n].amount * (s.member[n].perStake - s.delegation[d][n].debt) + Scale * q
  /\ r.held - (rec.amount + req.amount + rec.pending) >=
       s.held - (s.delegation[d][n].amount + s.cooling[d][n].amount + s.delegation[d][n].pending) + q

LEMMA RegLendStep ==
  ASSUME NEW s, NEW r, NEW n, NEW d, NEW rec, NEW req, NEW m, NEW q,
         RegLending(s, r, n, d, rec, req, m), RegLent2(s, n, d, rec, m),
         RegSquare(s, r, n, d, rec, req, q)
  PROVE  RegInv(r)
<1>a. /\ RegConstants /\ RegInv(s) /\ n \in Nodes /\ d \in Delegators
      /\ rec \in RegLoan /\ req \in RegRequest /\ m \in RegMember
      /\ RegFields \subseteq DOMAIN r /\ r.held \in Int
      /\ r.delegation = [s.delegation EXCEPT ![d][n] = rec]
      /\ r.cooling = [s.cooling EXCEPT ![d][n] = req]
      /\ r.member = [s.member EXCEPT ![n] = m]
      /\ r.members = s.members /\ r.unbonding = s.unbonding /\ r.reward = s.reward
      /\ r.rewards = s.rewards /\ r.pool = s.pool /\ r.epoch = s.epoch /\ r.game = s.game
  BY DEF RegLending
<1>b. RegTypes(s) BY <1>a DEF RegInv
<1>c. /\ s.member \in [Nodes -> RegMember]
      /\ s.delegation \in [Delegators -> [Nodes -> RegLoan]]
      /\ s.cooling \in [Delegators -> [Nodes -> RegRequest]]
  BY <1>b DEF RegTypes
<1>1. /\ r.delegation[d][n] = rec /\ r.cooling[d][n] = req /\ r.member[n] = m
      /\ \A k \in Nodes \ {n} : r.member[k] = s.member[k]
      /\ \A e \in Delegators, k \in Nodes : e # d \/ k # n =>
           r.delegation[e][k] = s.delegation[e][k] /\ r.cooling[e][k] = s.cooling[e][k]
  BY <1>a, <1>c
<1>2. /\ r.delegation \in [Delegators -> [Nodes -> RegLoan]]
      /\ r.cooling \in [Delegators -> [Nodes -> RegRequest]]
      /\ r.member \in [Nodes -> RegMember]
  BY <1>a, <1>c
<1>3. RegTypes(r)
  BY <1>a, <1>b, <1>2 DEF RegTypes
<1>4. RegAt(s, r, n)
  BY <1>a, <1>1, <1>3 DEF RegAt
<1>5. RegLayer(s, r, n, d)
  BY <1>a, <1>1, <1>4 DEF RegLayer, RegLent2
<1>6. RegLayerBooks(s, r, n, d)
  BY <1>a, <1>1 DEF RegLayerBooks, RegLent2
<1>7. /\ RegDue(r, n)[d] = rec.amount * (s.member[n].perStake - rec.debt)
      /\ RegDue(s, n)[d] =
           s.delegation[d][n].amount * (s.member[n].perStake - s.delegation[d][n].debt)
      /\ RegPut(r, n)[d] = rec.amount + req.amount + rec.pending
      /\ RegPut(s, n)[d] =
           s.delegation[d][n].amount + s.cooling[d][n].amount + s.delegation[d][n].pending
  BY <1>a, <1>1 DEF RegDue, RegPut, RegLent2
<1>8. RegLayerPaid(s, r, n, d, q)
  BY <1>7 DEF RegSquare, RegLayerPaid
<1>9. QED BY <1>5, <1>6, <1>8, RegLayerStep

(* Facts about one delegation, and how it is written down now. *)
RegLentAbout(d, n, q, c) ==
  /\ RegAbout(n) /\ reg.delegation \in [Delegators -> [Nodes -> RegLoan]]
  /\ reg.cooling \in [Delegators -> [Nodes -> RegRequest]]
  /\ reg.delegation[d][n] \in RegLoan /\ reg.cooling[d][n] \in RegRequest
  /\ reg.delegation[d][n].amount \in Nat /\ reg.delegation[d][n].debt \in Nat
  /\ reg.delegation[d][n].pending \in Nat /\ reg.cooling[d][n].amount \in Nat
  /\ reg.member[n].perStake \in Nat /\ reg.member[n].delegated \in Nat
  /\ RegPaidUp(reg.delegation[d][n], reg.member[n].perStake)
  /\ reg.delegation[d][n].amount <= reg.member[n].delegated
  /\ RegWrittenDown(reg.delegation[d][n], reg.member[n].perStake, q, c)
  /\ q = Registry!CalcPending(reg.delegation[d][n], reg.member[n].perStake)
  /\ c = Registry!Checkpoint(reg.delegation[d][n], reg.member[n].perStake)

LEMMA RegLentFacts ==
  ASSUME RegConstants, RegInv(reg), NEW d \in Delegators, NEW n \in Nodes
  PROVE  \E q, c : RegLentAbout(d, n, q, c)
<1>1. RegTypes(reg) /\ RegNode(reg, n) /\ RegAbout(n)
  BY RegFacts DEF RegInv
<1>2. /\ reg.delegation \in [Delegators -> [Nodes -> RegLoan]]
      /\ reg.cooling \in [Delegators -> [Nodes -> RegRequest]] /\ reg.member \in [Nodes -> RegMember]
  BY <1>1 DEF RegTypes
<1>3. /\ reg.delegation[d][n] \in RegLoan /\ reg.cooling[d][n] \in RegRequest
      /\ reg.member[n] \in RegMember
  BY <1>2
<1>4. /\ reg.delegation[d][n].amount \in Nat /\ reg.delegation[d][n].debt \in Nat
      /\ reg.delegation[d][n].pending \in Nat /\ reg.cooling[d][n].amount \in Nat
      /\ reg.member[n].perStake \in Nat /\ reg.member[n].delegated \in Nat
  BY <1>3 DEF RegLoan, RegRequest, RegMember
<1>5. RegPaidUp(reg.delegation[d][n], reg.member[n].perStake)
  BY <1>1 DEF RegNode
<1>6. reg.delegation[d][n].amount <= reg.member[n].delegated
  <2>1. \A e \in Delegators : RegLent(reg, n)[e] \in Nat
    BY <1>2 DEF RegLent, RegLoan
  <2>2. IsFiniteSet(Delegators) BY DEF RegConstants
  <2>3. RegLent(reg, n)[d] <= SumFunctionOnSet(RegLent(reg, n), Delegators)
    BY <2>1, <2>2, SumBounds
  <2>4. RegLent(reg, n)[d] = reg.delegation[d][n].amount BY DEF RegLent
  <2>5. QED BY <1>1, <2>3, <2>4 DEF RegNode
<1>7. PICK q, c : RegEarned(reg.delegation[d][n], reg.member[n].perStake, q, c)
  BY <1>3, <1>4, <1>5 DEF RegEarned
<1>8. RegWrittenDown(reg.delegation[d][n], reg.member[n].perStake, q, c)
  BY <1>7, RegCheckpoint
<1>9. RegLentAbout(d, n, q, c)
  BY <1>1, <1>2, <1>3, <1>4, <1>5, <1>6, <1>7, <1>8 DEF RegLentAbout, RegEarned
<1>10. QED BY <1>9

LEMMA RegDelegate ==
  ASSUME RegConstants, RegInv(reg), NEW d \in Delegators, NEW n \in Nodes, NEW a \in Amounts,
         Registry!Delegate(d, n, a)
  PROVE  RegInv(reg')
<1>0. PICK q, c : RegLentAbout(d, n, q, c) BY RegLentFacts
<1>a. a \in Nat /\ Scale \in Nat BY DEF RegConstants
<1>b. /\ q \in Nat /\ Scale * q <= reg.delegation[d][n].amount
                                    * (reg.member[n].perStake - reg.delegation[d][n].debt)
      /\ c \in RegLoan /\ c.amount = reg.delegation[d][n].amount /\ c.debt = reg.member[n].perStake
      /\ c.pending = reg.delegation[d][n].pending + q
  BY <1>0 DEF RegLentAbout, RegWrittenDown
<1>1. PICK rec, m : /\ rec = [c EXCEPT !.amount = reg.delegation[d][n].amount + a]
                    /\ m = [reg.member[n] EXCEPT !.delegated = reg.member[n].delegated + a]
  OBVIOUS
<1>2. /\ rec \in RegLoan /\ rec.amount = reg.delegation[d][n].amount + a
      /\ rec.debt = reg.member[n].perStake /\ rec.pending = reg.delegation[d][n].pending + q
  BY <1>0, <1>1, <1>a, <1>b DEF RegLoan, RegLentAbout
<1>3. /\ m \in RegMember /\ m.delegated = reg.member[n].delegated + a
      /\ m.perStake = reg.member[n].perStake /\ m.stake = reg.member[n].stake
      /\ m.strikes = reg.member[n].strikes /\ m.active = reg.member[n].active
  <2>1. RegTotal(reg.member[n], reg.member[n].delegated + a, m)
    BY <1>0, <1>1, <1>a DEF RegTotal, RegLentAbout, RegAbout
  <2>2. QED BY <2>1, RegTotalRecord
<1>4. /\ reg'.delegation = [reg.delegation EXCEPT ![d][n] = rec]
      /\ reg'.member = [reg.member EXCEPT ![n] = m] /\ reg'.held = reg.held + a
      /\ reg'.cooling = reg.cooling /\ reg'.reward = reg.reward /\ reg'.unbonding = reg.unbonding
      /\ reg'.rewards = reg.rewards /\ reg'.pool = reg.pool /\ reg'.epoch = reg.epoch
      /\ reg'.game = reg.game /\ reg'.members = reg.members /\ DOMAIN reg' = DOMAIN reg
      /\ reg.member[n].active
  BY <1>0, <1>1 DEF Registry!Delegate, RegFields, RegLentAbout, RegAbout
<1>5. reg'.cooling = [reg.cooling EXCEPT ![d][n] = reg.cooling[d][n]]
  BY <1>0, <1>4 DEF RegLentAbout
<1>6. RegLending(reg, reg', n, d, rec, reg.cooling[d][n], m)
  BY <1>0, <1>2, <1>3, <1>4, <1>5, <1>a DEF RegLending, RegLentAbout, RegAbout
<1>7. RegLent2(reg, n, d, rec, m)
  BY <1>0, <1>2, <1>3, <1>4, <1>a DEF RegLent2, RegLentAbout, RegAbout, RegPaidUp
<1>8. RegSquare(reg, reg', n, d, rec, reg.cooling[d][n], -q)
  <2>1. rec.amount * (reg.member[n].perStake - rec.debt) = 0
    BY <1>0, <1>2, <1>a DEF RegLentAbout
  <2>2. Scale * (-q) = -(Scale * q) /\ Scale * q \in Int
    BY <1>a, <1>b
  <2>3. reg.delegation[d][n].amount * (reg.member[n].perStake - reg.delegation[d][n].debt) \in Int
    BY <1>0 DEF RegLentAbout
  <2>4. reg'.held - (rec.amount + reg.cooling[d][n].amount + rec.pending) =
          reg.held - (reg.delegation[d][n].amount + reg.cooling[d][n].amount
                      + reg.delegation[d][n].pending) + (-q)
    BY <1>0, <1>2, <1>4, <1>a, <1>b DEF RegLentAbout, RegAbout
  <2>5. reg'.held - (rec.amount + reg.cooling[d][n].amount + rec.pending) \in Int
    BY <1>0, <1>2, <1>4, <1>a, <1>b DEF RegLentAbout, RegAbout
  <2>6. QED BY <1>b, <2>1, <2>2, <2>3, <2>4, <2>5 DEF RegSquare
<1>9. QED BY <1>6, <1>7, <1>8, RegLendStep

LEMMA RegUndelegate ==
  ASSUME RegConstants, RegInv(reg), NEW d \in Delegators, NEW n \in Nodes, NEW a \in Amounts,
         Registry!Undelegate(d, n, a)
  PROVE  RegInv(reg')
<1>0. PICK q, c : RegLentAbout(d, n, q, c) BY RegLentFacts
<1>a. a \in Nat /\ Scale \in Nat /\ Cooldown \in Nat BY DEF RegConstants
<1>b. /\ q \in Nat /\ Scale * q <= reg.delegation[d][n].amount
                                    * (reg.member[n].perStake - reg.delegation[d][n].debt)
      /\ c \in RegLoan /\ c.amount = reg.delegation[d][n].amount /\ c.debt = reg.member[n].perStake
      /\ c.pending = reg.delegation[d][n].pending + q
  BY <1>0 DEF RegLentAbout, RegWrittenDown
<1>c. reg.delegation[d][n].amount >= a /\ reg.cooling[d][n].amount = 0
  BY DEF Registry!Undelegate, Registry!NoRequest
<1>d. /\ reg.delegation[d][n].amount - a \in Nat /\ reg.member[n].delegated - a \in Nat
      /\ n \notin reg.members => reg.member[n].delegated - a = 0
  BY <1>0, <1>a, <1>c DEF RegLentAbout, RegAbout
<1>1. PICK rec, m, req : /\ rec = [c EXCEPT !.amount = reg.delegation[d][n].amount - a]
                         /\ m = [reg.member[n] EXCEPT !.delegated = reg.member[n].delegated - a]
                         /\ req = [amount |-> a, left |-> Cooldown]
  OBVIOUS
<1>2. /\ rec \in RegLoan /\ rec.amount = reg.delegation[d][n].amount - a
      /\ rec.debt = reg.member[n].perStake /\ rec.pending = reg.delegation[d][n].pending + q
  BY <1>0, <1>1, <1>b, <1>d DEF RegLoan, RegLentAbout
<1>3. /\ m \in RegMember /\ m.delegated = reg.member[n].delegated - a
      /\ m.perStake = reg.member[n].perStake /\ m.stake = reg.member[n].stake
      /\ m.strikes = reg.member[n].strikes /\ m.active = reg.member[n].active
  <2>1. RegTotal(reg.member[n], reg.member[n].delegated - a, m)
    BY <1>0, <1>1, <1>d DEF RegTotal, RegLentAbout, RegAbout
  <2>2. QED BY <2>1, RegTotalRecord
<1>r. req \in RegRequest /\ req.amount = a
  BY <1>1, <1>a DEF RegRequest
<1>4. /\ reg'.delegation = [reg.delegation EXCEPT ![d][n] = rec]
      /\ reg'.member = [reg.member EXCEPT ![n] = m] /\ reg'.held = reg.held
      /\ reg'.cooling = [reg.cooling EXCEPT ![d][n] = req]
      /\ reg'.reward = reg.reward /\ reg'.unbonding = reg.unbonding
      /\ reg'.rewards = reg.rewards /\ reg'.pool = reg.pool /\ reg'.epoch = reg.epoch
      /\ reg'.game = reg.game /\ reg'.members = reg.members /\ DOMAIN reg' = DOMAIN reg
  BY <1>0, <1>1 DEF Registry!Undelegate, RegFields, RegLentAbout, RegAbout
<1>6. RegLending(reg, reg', n, d, rec, req, m)
  BY <1>0, <1>2, <1>3, <1>4, <1>r DEF RegLending, RegLentAbout, RegAbout
<1>7. RegLent2(reg, n, d, rec, m)
  BY <1>0, <1>2, <1>3, <1>4, <1>a, <1>d DEF RegLent2, RegLentAbout, RegAbout, RegPaidUp
<1>8. RegSquare(reg, reg', n, d, rec, req, -q)
  <2>1. rec.amount * (reg.member[n].perStake - rec.debt) = 0
    BY <1>0, <1>2, <1>d DEF RegLentAbout
  <2>2. Scale * (-q) = -(Scale * q) /\ Scale * q \in Int
    BY <1>a, <1>b
  <2>3. reg.delegation[d][n].amount * (reg.member[n].perStake - reg.delegation[d][n].debt) \in Int
    BY <1>0 DEF RegLentAbout
  <2>4. reg'.held - (rec.amount + req.amount + rec.pending) =
          reg.held - (reg.delegation[d][n].amount + reg.cooling[d][n].amount
                      + reg.delegation[d][n].pending) + (-q)
    BY <1>0, <1>2, <1>4, <1>a, <1>b, <1>c, <1>r DEF RegLentAbout, RegAbout
  <2>5. reg'.held - (rec.amount + req.amount + rec.pending) \in Int
    BY <1>0, <1>2, <1>4, <1>a, <1>b, <1>r DEF RegLentAbout, RegAbout
  <2>6. QED BY <1>b, <2>1, <2>2, <2>3, <2>4, <2>5 DEF RegSquare
<1>9. QED BY <1>6, <1>7, <1>8, RegLendStep

LEMMA RegWithdrawUndelegation ==
  ASSUME RegConstants, RegInv(reg), NEW d \in Delegators, NEW n \in Nodes,
         Registry!WithdrawUndelegation(d, n)
  PROVE  RegInv(reg')
<1>0. PICK q, c : RegLentAbout(d, n, q, c) BY RegLentFacts
<1>a. Scale \in Nat BY DEF RegConstants
<1>1. PICK rec, m, req : /\ rec = reg.delegation[d][n] /\ m = reg.member[n]
                         /\ req = Registry!NoRequest
  OBVIOUS
<1>2. req \in RegRequest /\ req.amount = 0
  BY <1>1 DEF RegRequest, Registry!NoRequest
<1>4. /\ reg'.delegation = [reg.delegation EXCEPT ![d][n] = rec]
      /\ reg'.member = [reg.member EXCEPT ![n] = m]
      /\ reg'.held = reg.held - reg.cooling[d][n].amount
      /\ reg'.cooling = [reg.cooling EXCEPT ![d][n] = req]
      /\ reg'.reward = reg.reward /\ reg'.unbonding = reg.unbonding
      /\ reg'.rewards = reg.rewards /\ reg'.pool = reg.pool /\ reg'.epoch = reg.epoch
      /\ reg'.game = reg.game /\ reg'.members = reg.members /\ DOMAIN reg' = DOMAIN reg
  BY <1>0, <1>1 DEF Registry!WithdrawUndelegation, RegFields, RegLentAbout, RegAbout
<1>6. RegLending(reg, reg', n, d, rec, req, m)
  BY <1>0, <1>1, <1>2, <1>4 DEF RegLending, RegLentAbout, RegAbout
<1>7. RegLent2(reg, n, d, rec, m)
  BY <1>0, <1>1 DEF RegLent2, RegLentAbout, RegAbout
<1>8. RegSquare(reg, reg', n, d, rec, req, 0)
  <2>1. Scale * 0 = 0
    BY <1>a
  <2>2. reg.delegation[d][n].amount * (reg.member[n].perStake - reg.delegation[d][n].debt) \in Int
    BY <1>0 DEF RegLentAbout
  <2>3. reg'.held - (rec.amount + req.amount + rec.pending) =
          reg.held - (reg.delegation[d][n].amount + reg.cooling[d][n].amount
                      + reg.delegation[d][n].pending) + 0
    BY <1>0, <1>1, <1>2, <1>4 DEF RegLentAbout, RegAbout
  <2>4. reg'.held - (rec.amount + req.amount + rec.pending) \in Int
    BY <1>0, <1>1, <1>2, <1>4 DEF RegLentAbout, RegAbout
  <2>5. QED BY <1>1, <2>1, <2>2, <2>3, <2>4 DEF RegSquare
<1>9. QED BY <1>6, <1>7, <1>8, RegLendStep

LEMMA RegClaimRewards ==
  ASSUME RegConstants, RegInv(reg), NEW d \in Delegators, NEW n \in Nodes,
         Registry!ClaimRewards(d, n)
  PROVE  RegInv(reg')
<1>0. PICK q, c : RegLentAbout(d, n, q, c) BY RegLentFacts
<1>a. Scale \in Nat BY DEF RegConstants
<1>b. /\ q \in Nat /\ Scale * q <= reg.delegation[d][n].amount
                                    * (reg.member[n].perStake - reg.delegation[d][n].debt)
  BY <1>0 DEF RegLentAbout, RegWrittenDown
<1>1. PICK rec, m : /\ rec = [reg.delegation[d][n] EXCEPT !.pending = 0, !.debt = reg.member[n].perStake]
                    /\ m = reg.member[n]
  OBVIOUS
<1>2. /\ rec \in RegLoan /\ rec.amount = reg.delegation[d][n].amount
      /\ rec.debt = reg.member[n].perStake /\ rec.pending = 0
  BY <1>0, <1>1 DEF RegLoan, RegLentAbout
<1>3. Registry!Claimable(d, n) = reg.delegation[d][n].pending + q
  BY <1>0 DEF Registry!Claimable, RegLentAbout
<1>4. /\ reg'.delegation = [reg.delegation EXCEPT ![d][n] = rec]
      /\ reg'.member = [reg.member EXCEPT ![n] = m]
      /\ reg'.held = reg.held - Registry!Claimable(d, n)
      /\ reg'.cooling = [reg.cooling EXCEPT ![d][n] = reg.cooling[d][n]]
      /\ reg'.reward = reg.reward /\ reg'.unbonding = reg.unbonding
      /\ reg'.rewards = reg.rewards /\ reg'.pool = reg.pool /\ reg'.epoch = reg.epoch
      /\ reg'.game = reg.game /\ reg'.members = reg.members /\ DOMAIN reg' = DOMAIN reg
  BY <1>0, <1>1 DEF Registry!ClaimRewards, RegFields, RegLentAbout, RegAbout
<1>6. RegLending(reg, reg', n, d, rec, reg.cooling[d][n], m)
  BY <1>0, <1>1, <1>2, <1>3, <1>4, <1>b, SMTT(30) DEF RegLending, RegLentAbout, RegAbout
<1>7. RegLent2(reg, n, d, rec, m)
  BY <1>0, <1>1, <1>2 DEF RegLent2, RegLentAbout, RegAbout, RegPaidUp
<1>8. RegSquare(reg, reg', n, d, rec, reg.cooling[d][n], -q)
  <2>1. rec.amount * (reg.member[n].perStake - rec.debt) = 0
    BY <1>0, <1>2 DEF RegLentAbout
  <2>2. Scale * (-q) = -(Scale * q) /\ Scale * q \in Int
    BY <1>a, <1>b
  <2>3. reg.delegation[d][n].amount * (reg.member[n].perStake - reg.delegation[d][n].debt) \in Int
    BY <1>0 DEF RegLentAbout
  <2>4. reg'.held - (rec.amount + reg.cooling[d][n].amount + rec.pending) =
          reg.held - (reg.delegation[d][n].amount + reg.cooling[d][n].amount
                      + reg.delegation[d][n].pending) + (-q)
    BY <1>0, <1>2, <1>3, <1>4, <1>b DEF RegLentAbout, RegAbout
  <2>5. reg'.held - (rec.amount + reg.cooling[d][n].amount + rec.pending) \in Int
    BY <1>0, <1>2, <1>3, <1>4, <1>b DEF RegLentAbout, RegAbout
  <2>6. QED BY <1>b, <2>1, <2>2, <2>3, <2>4, <2>5 DEF RegSquare
<1>9. QED BY <1>6, <1>7, <1>8, RegLendStep

RegPerStake(o, k, m) == o \in RegMember /\ k \in Nat /\ m = [o EXCEPT !.perStake = k]

LEMMA RegPerStakeRecord ==
  ASSUME NEW o, NEW k, NEW m, RegPerStake(o, k, m)
  PROVE  /\ m \in RegMember /\ m.stake = o.stake /\ m.strikes = o.strikes /\ m.active = o.active
         /\ m.perStake = k /\ m.delegated = o.delegated
BY DEF RegMember, RegPerStake

RegRest(a, b, r) == a \in Nat /\ b \in 0 .. 10000 /\ r = a - (a * b) \div 10000

LEMMA RegPart ==
  ASSUME NEW a, NEW b, NEW r, RegRest(a, b, r)
  PROVE  r \in Nat
<1> DEFINE y == a * b
<1>0. a \in Nat /\ b \in 0 .. 10000 /\ r = a - y \div 10000
  BY DEF RegRest
<1>1. y \in Nat /\ y <= a * 10000
  <2>1. \A u, v \in Nat : u * v \in Nat OBVIOUS
  <2>2. a * b \in Nat /\ a * (10000 - b) \in Nat BY <1>0, <2>1
  <2>3. a * (10000 - b) = a * 10000 - a * b BY <1>0
  <2>4. QED BY <1>0, <2>2, <2>3
<1> HIDE DEF y
<1>2. a - y \div 10000 \in Nat
  BY <1>0, <1>1
<1>3. QED BY <1>0, <1>2

(* What the delegators' share of a fee adds to each of them is together no more than it. *)
LEMMA RegDistributeNodeFees ==
  ASSUME RegConstants, RegInv(reg), NEW n \in Nodes, NEW a \in Amounts,
         Registry!DistributeNodeFees(n, a)
  PROVE  RegInv(reg')
<1> DEFINE total == reg.member[n].delegated
           rest  == a - (a * FeeRateBps) \div 10000
           g     == (rest * Scale) \div total
<1>0. RegAbout(n) /\ RegTypes(reg) /\ RegNode(reg, n) /\ IsFiniteSet(Delegators)
  BY RegFacts DEF RegInv, RegConstants
<1>1. rest \in Nat /\ Scale \in Nat \ {0}
  <2>1. a \in Nat /\ FeeRateBps \in 0 .. 10000 /\ Scale \in Nat \ {0} BY DEF RegConstants
  <2>2. RegRest(a, FeeRateBps, rest) BY <2>1 DEF RegRest
  <2> HIDE DEF rest
  <2>3. QED BY <2>1, <2>2, RegPart
<1>2. total \in Nat \ {0} /\ n \in reg.members
  BY <1>0 DEF Registry!DistributeNodeFees, RegAbout, RegMember
<1>3. g \in Nat /\ total * g <= rest * Scale /\ rest * Scale \in Nat
  <2>1. rest * Scale \in Nat
    <3>1. \A x, y \in Nat : x * y \in Nat OBVIOUS
    <3>2. QED BY <1>1, <3>1
  <2> HIDE DEF rest, total
  <2>2. QED BY <1>2, <2>1, RegRoundsDown
<1>p. reg.member[n].perStake \in Nat /\ reg.held \in Int
  BY <1>0 DEF RegAbout, RegMember
<1> HIDE DEF g
<1>4. PICK m : m = [reg.member[n] EXCEPT !.perStake = reg.member[n].perStake + g]
  OBVIOUS
<1>5. /\ m \in RegMember /\ m.stake = reg.member[n].stake /\ m.strikes = reg.member[n].strikes
      /\ m.active = reg.member[n].active /\ m.delegated = reg.member[n].delegated
      /\ m.perStake = reg.member[n].perStake + g
  <2>1. RegPerStake(reg.member[n], reg.member[n].perStake + g, m)
    BY <1>0, <1>p, <1>3, <1>4 DEF RegPerStake, RegAbout
  <2>2. QED BY <2>1, RegPerStakeRecord
<1>6. /\ reg'.delegation = reg.delegation /\ reg'.cooling = reg.cooling /\ reg'.reward = reg.reward
      /\ reg'.rewards = reg.rewards /\ reg'.pool = reg.pool /\ reg'.epoch = reg.epoch
      /\ reg'.game = reg.game /\ reg'.members = reg.members /\ DOMAIN reg' = DOMAIN reg
      /\ reg'.member = [reg.member EXCEPT ![n] = m] /\ reg'.unbonding = reg.unbonding
      /\ reg'.held = reg.held + rest
  <2>1. Registry!Quotient(rest * Scale, total) = g
    BY <1>2 DEF Registry!Quotient, g
  <2>2. reg' = [reg EXCEPT !.held = @ + rest, !.member[n].perStake =
                  reg.member[n].perStake + Registry!Quotient(rest * Scale, total)]
    BY DEF Registry!DistributeNodeFees
  <2> HIDE DEF rest, total
  <2>3. QED BY <1>0, <1>4, <2>1, <2>2 DEF RegFields, RegAbout
<1> HIDE DEF rest, g, total
<1>7. reg'.member[n] = m /\ \A k \in Nodes \ {n} : reg'.member[k] = reg.member[k]
  BY <1>0, <1>6 DEF RegAbout
<1>8. RegTypes(reg')
  <2>1. reg'.held \in Int BY <1>1, <1>6, <1>p
  <2>2. reg'.member \in [Nodes -> RegMember] BY <1>0, <1>5, <1>6 DEF RegAbout
  <2>3. QED BY <1>0, <1>6, <2>1, <2>2 DEF RegTypes
<1>9. RegAt(reg, reg', n)
  BY <1>6, <1>7, <1>8 DEF RegAt
<1>10. RegPut(reg', n) = RegPut(reg, n) /\ RegLent(reg', n) = RegLent(reg, n)
  BY <1>6 DEF RegPut, RegLent
<1> DEFINE more == [d \in Delegators |-> RegLent(reg, n)[d] * g]
<1>t. ASSUME NEW d \in Delegators
      PROVE  /\ reg.delegation[d][n].amount \in Nat /\ reg.delegation[d][n].debt \in Nat
             /\ RegLent(reg, n)[d] = reg.delegation[d][n].amount
             /\ RegPaidUp(reg.delegation[d][n], reg.member[n].perStake)
  BY <1>0 DEF RegTypes, RegLoan, RegLent, RegNode
<1>11. ASSUME NEW d \in Delegators
       PROVE  /\ RegDue(reg, n)[d] \in Int /\ more[d] \in Int
              /\ RegDue(reg', n)[d] = RegDue(reg, n)[d] + more[d]
              /\ RegLent(reg, n)[d] \in Int /\ more[d] = RegLent(reg, n)[d] * g
  <2>0. PICK x, y, p : x = reg.delegation[d][n].amount /\ y = reg.delegation[d][n].debt
                       /\ p = reg.member[n].perStake
    OBVIOUS
  <2>1. x \in Int /\ y \in Int /\ p \in Int /\ g \in Int
    BY <1>t, <1>p, <1>3, <2>0
  <2>2. RegDue(reg, n)[d] = x * (p - y)
    BY <2>0 DEF RegDue
  <2>3. RegDue(reg', n)[d] = x * ((p + g) - y)
    BY <1>5, <1>6, <1>7, <2>0 DEF RegDue
  <2>4. more[d] = x * g /\ RegLent(reg, n)[d] = x
    BY <1>t, <2>0
  <2>5. x * ((p + g) - y) = x * (p - y) + x * g
    BY <2>1
  <2>6. x * (p - y) \in Int /\ x * g \in Int
    BY <2>1
  <2>7. QED BY <2>1, <2>2, <2>3, <2>4, <2>5, <2>6
<1> HIDE DEF more
<1>12. SumFunctionOnSet(RegDue(reg', n), Delegators) =
         SumFunctionOnSet(RegDue(reg, n), Delegators) + SumFunctionOnSet(more, Delegators)
  BY <1>0, <1>11, SumPlus
<1>13. SumFunctionOnSet(more, Delegators) = total * g
  <2>1. SumFunctionOnSet(more, Delegators) = SumFunctionOnSet(RegLent(reg, n), Delegators) * g
    BY <1>0, <1>3, <1>11, SumScale
  <2>2. total = SumFunctionOnSet(RegLent(reg, n), Delegators)
    BY <1>0 DEF RegNode, total
  <2>3. QED BY <2>1, <2>2
<1>14. /\ RegDues(reg)[n] \in Int
       /\ RegDues(reg)[n] = SumFunctionOnSet(RegDue(reg, n), Delegators)
       /\ RegDues(reg')[n] = SumFunctionOnSet(RegDue(reg', n), Delegators)
       /\ RegTokens(reg)[n] \in Int /\ RegTokens(reg')[n] = RegTokens(reg)[n]
  <2>1. RegDues(reg)[n] \in Int /\ RegTokens(reg)[n] \in Int
    BY <1>0, RegSumsAreNumbers
  <2>2. RegTokens(reg')[n] = RegTokens(reg)[n]
    BY <1>5, <1>6, <1>7, <1>10 DEF RegTokens
  <2>3. QED BY <2>1, <2>2 DEF RegDues
<1>15. RegNode(reg', n)
  <2>1. \A d \in Delegators : RegPaidUp(reg'.delegation[d][n], reg'.member[n].perStake)
    BY <1>3, <1>5, <1>6, <1>7, <1>p, <1>t DEF RegPaidUp
  <2>2. QED BY <1>0, <1>2, <1>5, <1>6, <1>7, <1>10, <2>1 DEF RegNode
<1>16. RegSettled(reg, reg', n, rest)
  <2>1. reg'.held - RegTokens(reg')[n] >= reg.held - RegTokens(reg)[n] + rest
    BY <1>1, <1>6, <1>14, <1>p
  <2>2. RegDues(reg')[n] <= RegDues(reg)[n] + Scale * rest
    <3>1. rest * Scale = Scale * rest BY <1>1
    <3>2. total * g \in Int BY <1>2, <1>3
    <3>3. QED BY <1>3, <1>12, <1>13, <1>14, <3>1, <3>2
  <2>3. QED BY <1>1, <1>9, <1>15, <2>1, <2>2 DEF RegSettled
<1>17. QED BY <1>16, RegNodeStep

(* Calls that leave what lies behind the nodes alone. *)
RegBeside(s, r) ==
  /\ RegConstants /\ RegInv(s) /\ RegTypes(r)
  /\ r.member = s.member /\ r.delegation = s.delegation /\ r.members = s.members
  /\ \A n \in Nodes : /\ r.unbonding[n].amount = s.unbonding[n].amount
                      /\ \A d \in Delegators : r.cooling[d][n].amount = s.cooling[d][n].amount
                      /\ n \in r.epoch => n \in s.epoch \/ s.member[n].active
  /\ r.rewards = RegRewards(r)
  /\ r.held - r.pool - r.rewards = s.held - s.pool - s.rewards

LEMMA RegBesideStep ==
  ASSUME NEW s, NEW r, RegBeside(s, r)
  PROVE  RegInv(r)
<1>a. /\ RegConstants /\ RegInv(s) /\ RegTypes(r)
      /\ r.member = s.member /\ r.delegation = s.delegation /\ r.members = s.members
      /\ \A n \in Nodes : /\ r.unbonding[n].amount = s.unbonding[n].amount
                          /\ \A d \in Delegators : r.cooling[d][n].amount = s.cooling[d][n].amount
                          /\ n \in r.epoch => n \in s.epoch \/ s.member[n].active
      /\ r.rewards = RegRewards(r)
      /\ r.held - r.pool - r.rewards = s.held - s.pool - s.rewards
  BY DEF RegBeside
<1>1. /\ RegTypes(s) /\ \A n \in Nodes : RegNode(s, n)
      /\ SumFunctionOnSet(RegDues(s), Nodes) <= Scale * RegSpare(s)
      /\ s.rewards = RegRewards(s)
  BY <1>a DEF RegInv
<1>2. ASSUME NEW n \in Nodes
      PROVE  /\ RegPut(r, n) = RegPut(s, n) /\ RegDue(r, n) = RegDue(s, n)
             /\ RegLent(r, n) = RegLent(s, n)
  BY <1>a DEF RegPut, RegDue, RegLent
<1>3. RegTokens(r) = RegTokens(s) /\ RegDues(r) = RegDues(s)
  BY <1>a, <1>2 DEF RegTokens, RegDues
<1>4. ASSUME NEW n \in Nodes PROVE RegNode(r, n)
  BY <1>a, <1>1, <1>2 DEF RegNode
<1>5. RegSpare(r) = RegSpare(s)
  <2>1. SumFunctionOnSet(RegTokens(s), Nodes) \in Int /\ s.rewards \in Int /\ r.rewards \in Int
    BY <1>a, <1>1, RegSumsAreNumbers
  <2>2. s.held \in Int /\ s.pool \in Int /\ r.held \in Int /\ r.pool \in Int
    BY <1>a, <1>1 DEF RegTypes
  <2>3. PICK t : t = SumFunctionOnSet(RegTokens(s), Nodes)
    OBVIOUS
  <2>4. RegSpare(s) = s.held - t - s.pool - s.rewards /\ RegSpare(r) = r.held - t - r.pool - r.rewards
    BY <1>3, <2>3 DEF RegSpare
  <2>5. t \in Int /\ r.held - r.pool - r.rewards = s.held - s.pool - s.rewards
    BY <1>a, <2>1, <2>3
  <2>6. QED BY <2>1, <2>2, <2>4, <2>5
<1>6. SumFunctionOnSet(RegDues(r), Nodes) <= Scale * RegSpare(r)
  <2>1. SumFunctionOnSet(RegDues(r), Nodes) = SumFunctionOnSet(RegDues(s), Nodes)
    BY <1>3
  <2>2. Scale * RegSpare(r) = Scale * RegSpare(s)
    BY <1>5
  <2>3. QED BY <1>1, <2>1, <2>2, Zenon
<1>7. QED BY <1>a, <1>4, <1>6 DEF RegInv

(* Nothing but the epoch, the pause, the game that is watched and the clocks changes. *)
RegQuiet(s, r) ==
  /\ RegFields \subseteq DOMAIN r
  /\ r.members = s.members /\ r.member = s.member /\ r.delegation = s.delegation
  /\ r.reward = s.reward /\ r.rewards = s.rewards /\ r.pool = s.pool /\ r.held = s.held

LEMMA RegCreateEpoch ==
  ASSUME RegConstants, RegInv(reg), NEW S \in SUBSET Nodes, Registry!CreateEpoch(S)
  PROVE  RegInv(reg')
<1>1. RegTypes(reg) /\ reg.rewards = RegRewards(reg)
  BY DEF RegInv
<1>2. /\ RegQuiet(reg, reg') /\ reg'.cooling = reg.cooling /\ reg'.unbonding = reg.unbonding
      /\ reg'.game = reg.game /\ reg'.epoch = S /\ \A n \in S : reg.member[n].active
  BY <1>1 DEF RegQuiet, Registry!CreateEpoch, RegFields, RegTypes
<1>3. RegBeside(reg, reg')
  BY <1>1, <1>2 DEF RegQuiet, RegBeside, RegTypes, RegRewards
<1>4. QED BY <1>3, RegBesideStep

LEMMA RegSetPaused ==
  ASSUME RegConstants, RegInv(reg), NEW b, Registry!SetPaused(b)
  PROVE  RegInv(reg')
<1>1. RegTypes(reg) /\ reg.rewards = RegRewards(reg)
  BY DEF RegInv
<1>2. /\ RegQuiet(reg, reg') /\ reg'.cooling = reg.cooling /\ reg'.unbonding = reg.unbonding
      /\ reg'.game = reg.game /\ reg'.epoch = reg.epoch
  BY <1>1 DEF RegQuiet, Registry!SetPaused, RegFields, RegTypes
<1>3. RegBeside(reg, reg')
  BY <1>1, <1>2 DEF RegQuiet, RegBeside, RegTypes, RegRewards
<1>4. QED BY <1>3, RegBesideStep

LEMMA RegTrackGamePhase ==
  ASSUME RegConstants, RegInv(reg), NEW k \in AffectedCounts, Registry!TrackGamePhase(k)
  PROVE  RegInv(reg')
<1>1. RegTypes(reg) /\ reg.rewards = RegRewards(reg)
  BY DEF RegInv
<1>2. /\ RegQuiet(reg, reg') /\ reg'.cooling = reg.cooling /\ reg'.unbonding = reg.unbonding
      /\ reg'.game = [idle |-> 0, affected |-> k, resolved |-> FALSE] /\ reg'.epoch = reg.epoch
  BY <1>1 DEF RegQuiet, Registry!TrackGamePhase, RegFields, RegTypes
<1>3. k \in Nat \ {0}
  BY DEF Registry!TrackGamePhase, RegConstants
<1>4. RegBeside(reg, reg')
  BY <1>1, <1>2, <1>3 DEF RegQuiet, RegBeside, RegTypes, RegRewards
<1>5. QED BY <1>4, RegBesideStep

LEMMA RegTick ==
  ASSUME RegConstants, RegInv(reg), Registry!Tick
  PROVE  RegInv(reg')
<1>1. RegTypes(reg) /\ reg.rewards = RegRewards(reg)
  BY DEF RegInv
<1>2. PICK i : reg' = [reg EXCEPT !.game.idle = i,
                 !.unbonding = [n \in Nodes |-> Registry!Nearer(@[n])],
                 !.cooling = [d \in Delegators |-> [n \in Nodes |-> Registry!Nearer(@[d][n])]]]
  BY DEF Registry!Tick
<1>3. /\ RegQuiet(reg, reg') /\ reg'.epoch = reg.epoch
      /\ reg'.game = [reg.game EXCEPT !.idle = i]
      /\ reg'.unbonding = [n \in Nodes |-> Registry!Nearer(reg.unbonding[n])]
      /\ reg'.cooling = [d \in Delegators |-> [n \in Nodes |-> Registry!Nearer(reg.cooling[d][n])]]
  BY <1>1, <1>2 DEF RegQuiet, RegFields, RegTypes
<1>4. \A q \in RegRequest : Registry!Nearer(q) \in RegRequest /\ Registry!Nearer(q).amount = q.amount
  BY DEF Registry!Nearer, RegRequest
<1>5. /\ reg'.unbonding \in [Nodes -> RegRequest]
      /\ reg'.cooling \in [Delegators -> [Nodes -> RegRequest]]
      /\ \A n \in Nodes : /\ reg'.unbonding[n].amount = reg.unbonding[n].amount
                          /\ \A d \in Delegators : reg'.cooling[d][n].amount = reg.cooling[d][n].amount
  BY <1>1, <1>3, <1>4 DEF RegTypes
<1>6. /\ {"idle", "affected", "resolved"} \subseteq DOMAIN reg'.game
      /\ reg'.game.affected = reg.game.affected /\ reg'.game.resolved = reg.game.resolved
  BY <1>1, <1>3 DEF RegTypes
<1>7. RegBeside(reg, reg')
  BY <1>1, <1>3, <1>5, <1>6 DEF RegQuiet, RegBeside, RegTypes, RegRewards
<1>8. QED BY <1>7, RegBesideStep

LEMMA RegDepositRake ==
  ASSUME RegConstants, RegInv(reg), NEW a \in Amounts, Registry!DepositRake(a)
  PROVE  RegInv(reg')
<1>1. RegTypes(reg) /\ reg.rewards = RegRewards(reg) /\ a \in Nat
  BY DEF RegInv, RegConstants
<1>2. /\ RegFields \subseteq DOMAIN reg' /\ reg'.cooling = reg.cooling /\ reg'.unbonding = reg.unbonding
      /\ reg'.members = reg.members /\ reg'.member = reg.member /\ reg'.delegation = reg.delegation
      /\ reg'.reward = reg.reward /\ reg'.rewards = reg.rewards
      /\ reg'.game = reg.game /\ reg'.epoch = reg.epoch
      /\ reg'.pool = reg.pool + a /\ reg'.held = reg.held + a
  BY <1>1 DEF Registry!DepositRake, RegFields, RegTypes
<1>3. reg.pool \in Nat /\ reg.held \in Int /\ reg.rewards \in Int
  BY <1>1, RegSumsAreNumbers DEF RegTypes
<1>4. /\ reg'.pool \in Nat /\ reg'.held \in Int
      /\ reg'.held - reg'.pool - reg'.rewards = reg.held - reg.pool - reg.rewards
  BY <1>1, <1>2, <1>3
<1>5. RegBeside(reg, reg')
  BY <1>1, <1>2, <1>4 DEF RegBeside, RegTypes, RegRewards
<1>6. QED BY <1>5, RegBesideStep

LEMMA RegWithdrawRewards ==
  ASSUME RegConstants, RegInv(reg), NEW n \in Nodes, Registry!WithdrawRewards(n)
  PROVE  RegInv(reg')
<1>1. RegTypes(reg) /\ reg.rewards = RegRewards(reg) /\ IsFiniteSet(Nodes)
  BY DEF RegInv, RegConstants
<1>2. /\ RegFields \subseteq DOMAIN reg' /\ reg'.cooling = reg.cooling /\ reg'.unbonding = reg.unbonding
      /\ reg'.members = reg.members /\ reg'.member = reg.member /\ reg'.delegation = reg.delegation
      /\ reg'.reward = [reg.reward EXCEPT ![n] = 0] /\ reg'.rewards = reg.rewards - reg.reward[n]
      /\ reg'.game = reg.game /\ reg'.epoch = reg.epoch
      /\ reg'.pool = reg.pool /\ reg'.held = reg.held - reg.reward[n]
  BY <1>1 DEF Registry!WithdrawRewards, RegFields, RegTypes
<1>3. /\ reg.pool \in Nat /\ reg.held \in Int /\ reg.rewards \in Int /\ reg.reward[n] \in Nat
      /\ reg.reward \in [Nodes -> Nat]
  BY <1>1, RegSumsAreNumbers DEF RegTypes
<1>4. /\ reg'.reward \in [Nodes -> Nat] /\ reg'.held \in Int
      /\ reg'.held - reg'.pool - reg'.rewards = reg.held - reg.pool - reg.rewards
  BY <1>2, <1>3
<1>5. RegRewards(reg') = RegRewards(reg) - reg.reward[n] + 0
  <2>1. \A m \in Nodes : reg.reward[m] \in Int /\ reg'.reward[m] \in Int
                         /\ (m # n => reg'.reward[m] = reg.reward[m])
    BY <1>2, <1>3
  <2>2. reg'.reward[n] = 0 BY <1>2, <1>3
  <2>3. SumFunctionOnSet(reg'.reward, Nodes) =
          SumFunctionOnSet(reg.reward, Nodes) - reg.reward[n] + reg'.reward[n]
    BY <1>1, <2>1, SumChange
  <2>4. QED BY <2>2, <2>3 DEF RegRewards
<1>6. reg'.rewards = RegRewards(reg')
  BY <1>1, <1>2, <1>3, <1>5
<1>7. RegBeside(reg, reg')
  BY <1>1, <1>2, <1>4, <1>6 DEF RegBeside, RegTypes
<1>8. QED BY <1>7, RegBesideStep

(* The shares of the fees: rounded down, so that they are together no more than the pool. *)
RegShares == [n \in Nodes |-> Registry!Share(n)]

LEMMA RegSharesFit ==
  ASSUME RegConstants, RegInv(reg), Registry!TotalEffective > 0
  PROVE  /\ RegShares \in [Nodes -> Nat] /\ SumFunctionOnSet(RegShares, Nodes) \in Nat
         /\ SumFunctionOnSet(RegShares, Nodes) <= reg.pool
<1> DEFINE A == Registry!ActiveMembers
           e == [n \in Nodes |-> IF n \in A THEN Registry!EffectiveStake(n) ELSE 0]
           total == Registry!TotalEffective
<1>1. RegTypes(reg) /\ IsFiniteSet(Nodes)
  BY DEF RegInv, RegConstants
<1>2. A \subseteq Nodes /\ reg.pool \in Nat
  BY <1>1 DEF RegTypes, Registry!ActiveMembers
<1>3. \A n \in Nodes : Registry!EffectiveStake(n) \in Nat
  BY <1>1 DEF RegTypes, RegMember, Registry!EffectiveStake
<1> HIDE DEF A
<1>4. \A n \in Nodes : e[n] \in Nat
  BY <1>3
<1>5. total = SumFunctionOnSet(e, Nodes)
  <2>1. total = SumFunctionOnSet([n \in A |-> Registry!EffectiveStake(n)], A)
    BY RegSum DEF Registry!TotalEffective, Registry!Over, A
  <2>2. IsFiniteSet(A)
    BY <1>1, <1>2, FS_Subset
  <2>3. \A n \in A : [m \in A |-> Registry!EffectiveStake(m)][n] = e[n]
    BY <1>2
  <2>4. SumFunctionOnSet([n \in A |-> Registry!EffectiveStake(n)], A) = SumFunctionOnSet(e, A)
    <3> DEFINE g == [n \in A |-> Registry!EffectiveStake(n)]
    <3>1. \A n \in A : g[n] = e[n] BY <2>3
    <3> HIDE DEF g, e
    <3>2. SumFunctionOnSet(g, A) = SumFunctionOnSet(e, A) BY <2>2, <3>1, SumSame
    <3>3. QED BY <3>2 DEF g
  <2>5. (\A n \in A : e[n] \in Int) /\ (\A n \in Nodes \ A : e[n] = 0)
    BY <1>2, <1>4
  <2> HIDE DEF e
  <2>6. SumFunctionOnSet(e, Nodes) = SumFunctionOnSet(e, A)
    BY <1>1, <1>2, <2>5, SumRestrict
  <2>7. QED BY <2>1, <2>4, <2>6
<1>6. total \in Nat \ {0}
  <2> HIDE DEF e
  <2>1. SumFunctionOnSet(e, Nodes) \in Nat
    BY <1>1, <1>4, SumNat
  <2>2. QED BY <1>5, <2>1
<1>7. ASSUME NEW n \in Nodes
      PROVE  RegShares[n] \in Nat /\ total * RegShares[n] <= reg.pool * e[n]
  <2> DEFINE x == reg.pool * Registry!EffectiveStake(n)
  <2>1. x \in Nat
    <3>1. \A a, b \in Nat : a * b \in Nat OBVIOUS
    <3>2. QED BY <1>2, <1>3, <3>1
  <2>2. x \div total \in Nat /\ total * (x \div total) <= x
    <3> HIDE DEF x, total
    <3>1. QED BY <1>6, <2>1, RegRoundsDown
  <2>3. RegShares[n] = IF n \in A /\ Registry!EffectiveStake(n) > 0 THEN x \div total ELSE 0
    BY DEF RegShares, Registry!Share, A
  <2>4. CASE n \in A /\ Registry!EffectiveStake(n) > 0
    <3>1. e[n] = Registry!EffectiveStake(n) /\ RegShares[n] = x \div total
      BY <2>3, <2>4
    <3>2. reg.pool * e[n] = x BY <3>1
    <3> HIDE DEF x, e, total
    <3>3. QED BY <2>2, <3>1, <3>2
  <2>5. CASE ~ (n \in A /\ Registry!EffectiveStake(n) > 0)
    <3>1. RegShares[n] = 0 BY <2>3, <2>5
    <3>2. e[n] = 0 BY <1>3, <2>5
    <3>3. total * 0 = 0 /\ reg.pool * 0 = 0 BY <1>2, <1>6
    <3> HIDE DEF e, total
    <3>4. QED BY <3>1, <3>2, <3>3
  <2>6. QED BY <2>4, <2>5
<1> HIDE DEF e, total
<1>8. RegShares \in [Nodes -> Nat]
  BY <1>7 DEF RegShares
<1>9. SumFunctionOnSet(RegShares, Nodes) \in Nat
  BY <1>1, <1>8, SumNat
<1> DEFINE f == [n \in Nodes |-> RegShares[n] * total]
           g == [n \in Nodes |-> e[n] * reg.pool]
<1>10. ASSUME NEW n \in Nodes
       PROVE  /\ f[n] = RegShares[n] * total /\ g[n] = e[n] * reg.pool
              /\ f[n] \in Int /\ g[n] \in Int /\ f[n] <= g[n]
  <2>1. PICK a, b : a = RegShares[n] /\ b = e[n]
    OBVIOUS
  <2>2. a \in Nat /\ b \in Nat /\ total * a <= reg.pool * b /\ reg.pool \in Nat /\ total \in Nat
    BY <1>2, <1>4, <1>6, <1>7, <2>1
  <2>3. f[n] = a * total /\ g[n] = b * reg.pool
    BY <2>1
  <2>4. a * total = total * a /\ b * reg.pool = reg.pool * b /\ a * total \in Int /\ b * reg.pool \in Int
    BY <2>2
  <2>5. QED BY <2>1, <2>2, <2>3, <2>4
<1> HIDE DEF f, g
<1>11. SumFunctionOnSet(f, Nodes) = SumFunctionOnSet(RegShares, Nodes) * total
  BY <1>1, <1>6, <1>8, <1>10, SumScale
<1>12. SumFunctionOnSet(g, Nodes) = SumFunctionOnSet(e, Nodes) * reg.pool
  BY <1>1, <1>2, <1>4, <1>10, SumScale
<1>13. SumFunctionOnSet(f, Nodes) <= SumFunctionOnSet(g, Nodes)
  BY <1>1, <1>10, SumMonotone
<1>14. SumFunctionOnSet(RegShares, Nodes) <= reg.pool
  <2>1. PICK s : s = SumFunctionOnSet(RegShares, Nodes)
    OBVIOUS
  <2>2. s * total <= total * reg.pool
    BY <1>5, <1>11, <1>12, <1>13, <2>1
  <2>3. s \in Nat /\ total \in Nat \ {0} /\ reg.pool \in Nat
    BY <1>2, <1>6, <1>9, <2>1
  <2>4. ASSUME s > reg.pool PROVE FALSE
    <3>1. (s - reg.pool) * total > 0 /\ s * total = reg.pool * total + (s - reg.pool) * total
      BY <2>3, <2>4
    <3>2. total * reg.pool = reg.pool * total /\ reg.pool * total \in Int /\ (s - reg.pool) * total \in Int
      BY <2>3
    <3>3. QED BY <2>2, <3>1, <3>2
  <2>5. QED BY <2>1, <2>3, <2>4
<1>15. QED BY <1>8, <1>9, <1>14

LEMMA RegDistributeFees ==
  ASSUME RegConstants, RegInv(reg), Registry!DistributeFees
  PROVE  RegInv(reg')
<1> DEFINE paid == SumFunctionOnSet(RegShares, Nodes)
<1>1. RegTypes(reg) /\ reg.rewards = RegRewards(reg) /\ IsFiniteSet(Nodes)
  BY DEF RegInv, RegConstants
<1>2. RegShares \in [Nodes -> Nat] /\ paid \in Nat /\ paid <= reg.pool
  BY RegSharesFit DEF Registry!DistributeFees
<1>3. reg' = [reg EXCEPT !.reward = [n \in Nodes |-> @[n] + RegShares[n]],
                         !.pool = @ - paid, !.rewards = @ + paid]
  <2>1. Registry!Over(Nodes, Registry!Share) = paid
    BY RegSum DEF Registry!Over, RegShares
  <2>2. \A n \in Nodes : RegShares[n] = Registry!Share(n)
    BY DEF RegShares
  <2> HIDE DEF paid
  <2>3. QED BY <2>1, <2>2 DEF Registry!DistributeFees
<1> HIDE DEF paid
<1>4. /\ RegFields \subseteq DOMAIN reg' /\ reg'.cooling = reg.cooling /\ reg'.unbonding = reg.unbonding
      /\ reg'.members = reg.members /\ reg'.member = reg.member /\ reg'.delegation = reg.delegation
      /\ reg'.reward = [n \in Nodes |-> reg.reward[n] + RegShares[n]]
      /\ reg'.rewards = reg.rewards + paid
      /\ reg'.game = reg.game /\ reg'.epoch = reg.epoch
      /\ reg'.pool = reg.pool - paid /\ reg'.held = reg.held
  BY <1>1, <1>3 DEF RegFields, RegTypes
<1>5. /\ reg.pool \in Nat /\ reg.held \in Int /\ reg.rewards \in Int /\ reg.reward \in [Nodes -> Nat]
  BY <1>1, RegSumsAreNumbers DEF RegTypes
<1>6. /\ reg'.reward \in [Nodes -> Nat] /\ reg'.pool \in Nat
      /\ reg'.held - reg'.pool - reg'.rewards = reg.held - reg.pool - reg.rewards
  BY <1>2, <1>4, <1>5
<1>7. reg'.rewards = RegRewards(reg')
  <2>1. \A n \in Nodes : /\ reg.reward[n] \in Int /\ RegShares[n] \in Int
                         /\ reg'.reward[n] = reg.reward[n] + RegShares[n]
    BY <1>2, <1>4, <1>5
  <2>2. SumFunctionOnSet(reg'.reward, Nodes) = SumFunctionOnSet(reg.reward, Nodes) + paid
    BY <1>1, <2>1, SumPlus DEF paid
  <2>3. QED BY <1>1, <1>4, <2>2 DEF RegRewards
<1>8. RegBeside(reg, reg')
  BY <1>1, <1>4, <1>6, <1>7 DEF RegBeside, RegTypes
<1>9. QED BY <1>8, RegBesideStep

LEMMA RegHalf ==
  ASSUME NEW x, x \in Nat
  PROVE  Registry!HalfOf(x) \in Nat /\ x - Registry!HalfOf(x) \in Nat
BY DEF Registry!HalfOf

(* The players of a stalled game get exactly what is taken from the node and its backers. *)
LEMMA RegRedistributed ==
  ASSUME NEW amount, NEW k, amount \in Nat, k \in Nat \ {0}
  PROVE  Registry!RedistributeSlashedStake(amount, k) = amount
<1> DEFINE d == amount \div k
           m == amount % k
           S == 1 .. k
           T == 1 .. m
           base == [i \in S |-> d]
           extra == [i \in S |-> IF i \in T THEN 1 ELSE 0]
           f == [i \in S |-> d + IF i <= m THEN 1 ELSE 0]
<1>1. d \in Nat /\ m \in Nat /\ m < k /\ amount = k * d + m
  OBVIOUS
<1>2. Registry!RedistributeSlashedStake(amount, k) = SumFunctionOnSet(f, S)
  BY RegSum DEF Registry!RedistributeSlashedStake, Registry!Over
<1> HIDE DEF d, m
<1>3. T \subseteq S /\ IsFiniteSet(S) /\ Cardinality(S) = k /\ Cardinality(T) = m
  <2>1. \A a, b \in Int : IsFiniteSet(a .. b) /\ Cardinality(a .. b) = IF a > b THEN 0 ELSE b - a + 1
    BY FS_Interval
  <2>2. QED BY <1>1, <2>1
<1>4. \A i \in S : f[i] = base[i] + extra[i] /\ base[i] \in Int /\ extra[i] \in Int
  BY <1>1
<1>5. /\ \A i \in S : base[i] = IF i \in S THEN d ELSE 0
      /\ \A i \in S : extra[i] = IF i \in T THEN 1 ELSE 0
  OBVIOUS
<1> HIDE DEF f, base, extra, S, T
<1>6. SumFunctionOnSet(f, S) = SumFunctionOnSet(base, S) + SumFunctionOnSet(extra, S)
  BY <1>3, <1>4, SumPlus
<1>7. SumFunctionOnSet(base, S) = d * Cardinality(S)
  <2>1. d \in Int /\ S \in SUBSET S /\ IsFiniteSet(S) /\ \A i \in S : base[i] = IF i \in S THEN d ELSE 0
    BY <1>1, <1>3, <1>5
  <2>2. QED BY <2>1, SumOfMembers
<1>8. SumFunctionOnSet(extra, S) = 1 * Cardinality(T)
  BY <1>3, <1>5, SumOfMembers
<1>9. d * Cardinality(S) = d * k /\ 1 * Cardinality(T) = 1 * m
  BY <1>3
<1>10. d * k = k * d /\ 1 * m = m
  <2>1. \A u, v \in Nat : u * v = v * u /\ 1 * u = u
    OBVIOUS
  <2>2. QED BY <1>1, <2>1
<1>11. SumFunctionOnSet(f, S) = k * d + m
  BY <1>6, <1>7, <1>8, <1>9, <1>10
<1>12. QED BY <1>1, <1>2, <1>11

(* What is halved behind a node, and what is written down before that. *)
RegCut(n)  == [d \in Delegators |-> Registry!HalfOf(reg.delegation[d][n].amount)]
RegCuts(n) == [d \in Delegators |-> Registry!HalfOf(reg.delegation[d][n].amount)
                                    + Registry!HalfOf(reg.cooling[d][n].amount)]
RegEarnings(n) == [d \in Delegators |-> Registry!CalcPending(reg.delegation[d][n], reg.member[n].perStake)]

RegHalved(o, r) == o \in RegRequest /\ r = Registry!Halved(o)

LEMMA RegHalvedRequest ==
  ASSUME NEW o, NEW r, RegHalved(o, r)
  PROVE  r \in RegRequest /\ r.amount = o.amount - Registry!HalfOf(o.amount)
<1>1. o \in RegRequest /\ o.amount \in Nat
  BY DEF RegHalved, RegRequest
<1>2. o.amount - Registry!HalfOf(o.amount) \in Nat
  BY <1>1, RegHalf
<1>3. r = [o EXCEPT !.amount = o.amount - Registry!HalfOf(o.amount)]
  BY DEF RegHalved, Registry!Halved
<1>4. QED BY <1>1, <1>2, <1>3 DEF RegRequest

RegHalvedOf(o, r) == o \in RegLoan /\ r = Registry!Halved(o)

LEMMA RegHalvedLoan ==
  ASSUME NEW o, NEW r, RegHalvedOf(o, r)
  PROVE  /\ r \in RegLoan /\ r.amount = o.amount - Registry!HalfOf(o.amount)
         /\ r.debt = o.debt /\ r.pending = o.pending
<1>1. o \in RegLoan /\ o.amount \in Nat
  BY DEF RegHalvedOf, RegLoan
<1>2. o.amount - Registry!HalfOf(o.amount) \in Nat
  BY <1>1, RegHalf
<1>3. r = [o EXCEPT !.amount = o.amount - Registry!HalfOf(o.amount)]
  BY DEF RegHalvedOf, Registry!Halved
<1>4. QED BY <1>1, <1>2, <1>3 DEF RegLoan

(* One layer of a node that is slashed. *)
RegCutLayer(r, n, d) ==
  /\ r.delegation[d][n] \in RegLoan /\ r.cooling[d][n] \in RegRequest
  /\ r.delegation[d][n].debt = reg.member[n].perStake
  /\ RegEarnings(n)[d] \in Nat /\ RegCut(n)[d] \in Nat /\ RegCuts(n)[d] \in Nat
  /\ RegLent(reg, n)[d] \in Nat /\ RegPut(reg, n)[d] \in Nat /\ RegDue(reg, n)[d] \in Nat
  /\ RegLent(r, n)[d] \in Nat /\ RegPut(r, n)[d] \in Nat
  /\ RegLent(reg, n)[d] = RegLent(r, n)[d] + RegCut(n)[d]
  /\ RegPut(r, n)[d] + RegCuts(n)[d] = RegPut(reg, n)[d] + RegEarnings(n)[d]
  /\ Scale * RegEarnings(n)[d] <= RegDue(reg, n)[d]

RegSlashing(r, n) ==
  /\ RegConstants /\ RegInv(reg) /\ n \in Nodes
  /\ r.delegation = [d \in Delegators |-> [reg.delegation[d] EXCEPT ![n] =
        Registry!Halved(Registry!Checkpoint(reg.delegation[d][n], reg.member[n].perStake))]]
  /\ r.cooling = [d \in Delegators |-> [reg.cooling[d] EXCEPT ![n] =
        Registry!Halved(reg.cooling[d][n])]]

LEMMA RegLayerCut ==
  ASSUME NEW r, NEW n, NEW d, RegSlashing(r, n), d \in Delegators
  PROVE  RegCutLayer(r, n, d)
<1>a. /\ RegConstants /\ RegInv(reg) /\ n \in Nodes /\ Scale \in Nat
      /\ r.delegation = [e \in Delegators |-> [reg.delegation[e] EXCEPT ![n] =
            Registry!Halved(Registry!Checkpoint(reg.delegation[e][n], reg.member[n].perStake))]]
      /\ r.cooling = [e \in Delegators |-> [reg.cooling[e] EXCEPT ![n] =
            Registry!Halved(reg.cooling[e][n])]]
  BY SMTT(30) DEF RegSlashing, RegConstants
<1>0. PICK q, c : RegLentAbout(d, n, q, c)
  BY <1>a, RegLentFacts
<1>1. PICK o, w, x, y : /\ o = reg.delegation[d][n] /\ w = reg.cooling[d][n]
                        /\ x = Registry!Halved(c) /\ y = Registry!Halved(w)
  OBVIOUS
<1>2. /\ reg.delegation \in [Delegators -> [Nodes -> RegLoan]]
      /\ reg.cooling \in [Delegators -> [Nodes -> RegRequest]]
      /\ o \in RegLoan /\ w \in RegRequest /\ o.amount \in Nat /\ o.debt \in Nat /\ o.pending \in Nat
      /\ w.amount \in Nat /\ reg.member[n].perStake \in Nat /\ RegPaidUp(o, reg.member[n].perStake)
      /\ q \in Nat /\ Scale * q <= o.amount * (reg.member[n].perStake - o.debt)
      /\ c \in RegLoan /\ c.amount = o.amount /\ c.debt = reg.member[n].perStake
      /\ c.pending = o.pending + q
      /\ q = Registry!CalcPending(o, reg.member[n].perStake)
      /\ c = Registry!Checkpoint(o, reg.member[n].perStake)
  BY <1>0, <1>1 DEF RegLentAbout, RegWrittenDown
<1>3. /\ x \in RegLoan /\ x.amount = o.amount - Registry!HalfOf(o.amount)
      /\ x.debt = reg.member[n].perStake /\ x.pending = o.pending + q
  <2>1. RegHalvedOf(c, x) BY <1>1, <1>2 DEF RegHalvedOf
  <2>2. QED BY <1>2, <2>1, RegHalvedLoan
<1>4. y \in RegRequest /\ y.amount = w.amount - Registry!HalfOf(w.amount)
  <2>1. RegHalved(w, y) BY <1>1, <1>2 DEF RegHalved
  <2>2. QED BY <2>1, RegHalvedRequest
<1>5. r.delegation[d][n] = x /\ r.cooling[d][n] = y
  BY <1>a, <1>1, <1>2
<1>6. /\ Registry!HalfOf(o.amount) \in Nat /\ Registry!HalfOf(w.amount) \in Nat
      /\ o.amount - Registry!HalfOf(o.amount) \in Nat /\ w.amount - Registry!HalfOf(w.amount) \in Nat
  BY <1>2, RegHalf
<1>7. PICK a, b : a = Registry!HalfOf(o.amount) /\ b = Registry!HalfOf(w.amount)
  OBVIOUS
<1>8. /\ RegEarnings(n)[d] = q /\ RegCut(n)[d] = a /\ RegCuts(n)[d] = a + b
      /\ RegLent(reg, n)[d] = o.amount /\ RegLent(r, n)[d] = o.amount - a
      /\ RegPut(reg, n)[d] = o.amount + w.amount + o.pending
      /\ RegPut(r, n)[d] = (o.amount - a) + (w.amount - b) + (o.pending + q)
      /\ RegDue(reg, n)[d] = o.amount * (reg.member[n].perStake - o.debt)
  BY <1>1, <1>2, <1>3, <1>4, <1>5, <1>7 DEF RegEarnings, RegCut, RegCuts, RegLent, RegPut, RegDue
<1>9. RegDue(reg, n)[d] \in Nat
  <2>1. o.amount * (reg.member[n].perStake - o.debt) \in Nat
    BY <1>2, RegDueIsNat DEF RegPaidUp
  <2>2. QED BY <1>8, <2>1
<1>10. Scale * RegEarnings(n)[d] <= RegDue(reg, n)[d]
  BY <1>2, <1>8
<1>11. /\ a \in Nat /\ b \in Nat /\ o.amount - a \in Nat /\ w.amount - b \in Nat
  BY <1>6, <1>7
<1>12. /\ RegLent(reg, n)[d] = RegLent(r, n)[d] + RegCut(n)[d]
       /\ RegPut(r, n)[d] + RegCuts(n)[d] = RegPut(reg, n)[d] + RegEarnings(n)[d]
       /\ RegEarnings(n)[d] \in Nat /\ RegCut(n)[d] \in Nat /\ RegCuts(n)[d] \in Nat
       /\ RegLent(reg, n)[d] \in Nat /\ RegPut(reg, n)[d] \in Nat
       /\ RegLent(r, n)[d] \in Nat /\ RegPut(r, n)[d] \in Nat
  <2>1. PICK oa, wa, op : oa = o.amount /\ wa = w.amount /\ op = o.pending
    OBVIOUS
  <2>2. /\ oa \in Nat /\ wa \in Nat /\ op \in Nat /\ q \in Nat /\ a \in Nat /\ b \in Nat
        /\ oa - a \in Nat /\ wa - b \in Nat
    BY <1>2, <1>11, <2>1
  <2>3. /\ RegEarnings(n)[d] = q /\ RegCut(n)[d] = a /\ RegCuts(n)[d] = a + b
        /\ RegLent(reg, n)[d] = oa /\ RegLent(r, n)[d] = oa - a
        /\ RegPut(reg, n)[d] = oa + wa + op
        /\ RegPut(r, n)[d] = (oa - a) + (wa - b) + (op + q)
    BY <1>8, <2>1
  <2>4. /\ oa = (oa - a) + a /\ (oa - a) + (wa - b) + (op + q) + (a + b) = oa + wa + op + q
        /\ a + b \in Nat /\ oa + wa + op \in Nat /\ (oa - a) + (wa - b) + (op + q) \in Nat
    BY <2>2
  <2>5. QED BY <2>2, <2>3, <2>4
<1>13. QED BY <1>3, <1>4, <1>5, <1>9, <1>10, <1>12 DEF RegCutLayer

(* Together: all layers of the node that is slashed. *)
RegCutAll(r, n) ==
  LET lent(s) == SumFunctionOnSet(RegLent(s, n), Delegators)
      put(s) == SumFunctionOnSet(RegPut(s, n), Delegators)
      due(s) == SumFunctionOnSet(RegDue(s, n), Delegators)
      cut == SumFunctionOnSet(RegCut(n), Delegators)
      cuts == SumFunctionOnSet(RegCuts(n), Delegators)
      earned == SumFunctionOnSet(RegEarnings(n), Delegators)
  IN  /\ {lent(reg), lent(r), put(reg), put(r), cut, cuts, earned, due(reg)} \subseteq Nat
      /\ lent(reg) = lent(r) + cut /\ put(r) + cuts = put(reg) + earned
      /\ Scale * earned <= due(reg)

LEMMA RegLayersCut ==
  ASSUME NEW r, NEW n, RegSlashing(r, n)
  PROVE  RegCutAll(r, n)
<1> DEFINE lr == RegLent(r, n)
           l == RegLent(reg, n)
           pr == RegPut(r, n)
           p == RegPut(reg, n)
           due == RegDue(reg, n)
           cut == RegCut(n)
           cuts == RegCuts(n)
           e == RegEarnings(n)
           both == [d \in Delegators |-> p[d] + e[d]]
           scaled == [d \in Delegators |-> e[d] * Scale]
<1>0. IsFiniteSet(Delegators) /\ Scale \in Nat
  BY DEF RegSlashing, RegConstants
<1>1. \A d \in Delegators :
        /\ e[d] \in Nat /\ cut[d] \in Nat /\ cuts[d] \in Nat /\ l[d] \in Nat /\ p[d] \in Nat
        /\ due[d] \in Nat /\ lr[d] \in Nat /\ pr[d] \in Nat
        /\ l[d] = lr[d] + cut[d] /\ pr[d] + cuts[d] = p[d] + e[d] /\ Scale * e[d] <= due[d]
  BY RegLayerCut DEF RegCutLayer
<1> HIDE DEF lr, l, pr, p, due, cut, cuts, e
<1>2. \A d \in Delegators : both[d] = p[d] + e[d] /\ both[d] = pr[d] + cuts[d]
  BY <1>1
<1>3. \A d \in Delegators : e[d] \in Int /\ scaled[d] = e[d] * Scale /\ scaled[d] \in Int /\ scaled[d] <= due[d]
  <2>1. ASSUME NEW d \in Delegators
        PROVE  scaled[d] = e[d] * Scale /\ e[d] * Scale = Scale * e[d] /\ e[d] * Scale \in Int
    <3>1. PICK x : x = e[d] OBVIOUS
    <3>2. x \in Nat /\ Scale \in Nat BY <1>0, <1>1, <3>1
    <3>3. x * Scale = Scale * x /\ x * Scale \in Int BY <3>2
    <3>4. QED BY <3>1, <3>3
  <2>2. QED BY <1>1, <2>1
<1> HIDE DEF both, scaled
<1>4. SumFunctionOnSet(both, Delegators) = SumFunctionOnSet(p, Delegators) + SumFunctionOnSet(e, Delegators)
  <2>1. \A d \in Delegators : p[d] \in Int /\ e[d] \in Int /\ both[d] = p[d] + e[d]
    BY <1>1, <1>2
  <2>2. QED BY <1>0, <2>1, SumPlus
<1>5. SumFunctionOnSet(both, Delegators) = SumFunctionOnSet(pr, Delegators) + SumFunctionOnSet(cuts, Delegators)
  <2>1. \A d \in Delegators : pr[d] \in Int /\ cuts[d] \in Int /\ both[d] = pr[d] + cuts[d]
    BY <1>1, <1>2
  <2>2. QED BY <1>0, <2>1, SumPlus
<1>6. SumFunctionOnSet(l, Delegators) = SumFunctionOnSet(lr, Delegators) + SumFunctionOnSet(cut, Delegators)
  <2>1. \A d \in Delegators : lr[d] \in Int /\ cut[d] \in Int /\ l[d] = lr[d] + cut[d]
    BY <1>1
  <2>2. QED BY <1>0, <2>1, SumPlus
<1>7. SumFunctionOnSet(scaled, Delegators) = SumFunctionOnSet(e, Delegators) * Scale
  <2>1. Scale \in Int BY <1>0
  <2>2. QED BY <1>0, <1>3, <2>1, SumScale
<1>8. SumFunctionOnSet(scaled, Delegators) <= SumFunctionOnSet(due, Delegators)
  BY <1>0, <1>1, <1>3, SumMonotone
<1>9. /\ SumFunctionOnSet(l, Delegators) \in Nat /\ SumFunctionOnSet(lr, Delegators) \in Nat
      /\ SumFunctionOnSet(p, Delegators) \in Nat /\ SumFunctionOnSet(pr, Delegators) \in Nat
      /\ SumFunctionOnSet(cut, Delegators) \in Nat /\ SumFunctionOnSet(cuts, Delegators) \in Nat
      /\ SumFunctionOnSet(e, Delegators) \in Nat /\ SumFunctionOnSet(due, Delegators) \in Nat
  BY <1>0, <1>1, SumNat
<1>10. Scale * SumFunctionOnSet(e, Delegators) <= SumFunctionOnSet(due, Delegators)
  <2>1. PICK x : x = SumFunctionOnSet(e, Delegators) OBVIOUS
  <2>2. x \in Nat /\ x * Scale = SumFunctionOnSet(scaled, Delegators)
    BY <1>7, <1>9, <2>1
  <2>3. x * Scale = Scale * x BY <1>0, <2>2
  <2>4. QED BY <1>8, <2>1, <2>2, <2>3
<1>11. QED BY <1>4, <1>5, <1>6, <1>9, <1>10 DEF RegCutAll, l, lr, p, pr, cut, cuts, e, due

RegSlashedRecord(o, k, h, t, m) == o \in RegMember /\ k \in Nat /\ h \in Nat /\ t \in Nat
  /\ m = [o EXCEPT !.stake = h, !.active = FALSE, !.strikes = k, !.delegated = t]

LEMMA RegSlashedWell ==
  ASSUME NEW o, NEW k, NEW h, NEW t, NEW m, RegSlashedRecord(o, k, h, t, m)
  PROVE  /\ m \in RegMember /\ m.stake = h /\ m.strikes = k /\ ~ m.active
         /\ m.perStake = o.perStake /\ m.delegated = t
BY DEF RegMember, RegSlashedRecord

(* What report_timeout leaves behind. *)
RegTimedOut(n, m, taken) ==
  /\ RegFields \subseteq DOMAIN reg'
  /\ reg'.member = [reg.member EXCEPT ![n] = m]
  /\ RegSlashing(reg', n)
  /\ reg'.members = reg.members /\ reg'.unbonding = reg.unbonding /\ reg'.reward = reg.reward
  /\ reg'.rewards = reg.rewards /\ reg'.pool = reg.pool /\ reg'.epoch = reg.epoch
  /\ reg'.game = [reg.game EXCEPT !.resolved = TRUE] /\ reg'.held = reg.held - taken

LEMMA RegReportTimeout ==
  ASSUME RegConstants, RegInv(reg), NEW n \in Nodes, Registry!ReportTimeout(n)
  PROVE  RegInv(reg')
<1> DEFINE o == reg.member[n]
           half == Registry!HalfOf(o.stake)
           cut == SumFunctionOnSet(RegCut(n), Delegators)
           cuts == SumFunctionOnSet(RegCuts(n), Delegators)
           earned == SumFunctionOnSet(RegEarnings(n), Delegators)
           k == Registry!Min(Registry!StrikeLimit, o.strikes + 1)
           h == o.stake - half
           t == o.delegated - cut
<1>0. RegAbout(n) /\ RegTypes(reg) /\ RegNode(reg, n)
  BY RegFacts DEF RegInv
<1>1. Registry!SlashedTotal(n) = half + cuts
  BY RegSum DEF Registry!SlashedTotal, Registry!Over, RegCuts
<1>2. /\ n \in reg.members /\ ~ reg.game.resolved
      /\ reg' = [Registry!Slashed(n) EXCEPT !.game.resolved = TRUE, !.held = @
                   - Registry!RedistributeSlashedStake(Registry!SlashedTotal(n), reg.game.affected)]
  BY DEF Registry!ReportTimeout
<1>3. Registry!Slashed(n) = [reg EXCEPT
         !.member[n] = [o EXCEPT !.stake = h, !.active = FALSE, !.strikes = k, !.delegated = t],
         !.delegation = [d \in Delegators |-> [reg.delegation[d] EXCEPT ![n] =
            Registry!Halved(Registry!Checkpoint(reg.delegation[d][n], reg.member[n].perStake))]],
         !.cooling = [d \in Delegators |-> [reg.cooling[d] EXCEPT ![n] =
            Registry!Halved(reg.cooling[d][n])]]]
  BY RegSum DEF Registry!Slashed, Registry!Over, RegCut
<1>4. PICK m : m = [o EXCEPT !.stake = h, !.active = FALSE, !.strikes = k, !.delegated = t]
  OBVIOUS
<1> HIDE DEF o, half, cut, cuts, earned, k, h, t
<1>5. PICK taken : taken = Registry!RedistributeSlashedStake(Registry!SlashedTotal(n), reg.game.affected)
  OBVIOUS
<1>6. RegTimedOut(n, m, taken)
  <2>1. PICK s : s = Registry!Slashed(n)
    OBVIOUS
  <2>2. /\ RegFields \subseteq DOMAIN s /\ DOMAIN s = DOMAIN reg
        /\ s.member = [reg.member EXCEPT ![n] = m]
        /\ s.delegation = [d \in Delegators |-> [reg.delegation[d] EXCEPT ![n] =
              Registry!Halved(Registry!Checkpoint(reg.delegation[d][n], reg.member[n].perStake))]]
        /\ s.cooling = [d \in Delegators |-> [reg.cooling[d] EXCEPT ![n] =
              Registry!Halved(reg.cooling[d][n])]]
        /\ s.members = reg.members /\ s.unbonding = reg.unbonding /\ s.reward = reg.reward
        /\ s.rewards = reg.rewards /\ s.pool = reg.pool /\ s.epoch = reg.epoch
        /\ s.game = reg.game /\ s.held = reg.held
    BY <1>0, <1>3, <1>4, <2>1 DEF RegFields, RegAbout
  <2>3. reg' = [s EXCEPT !.game.resolved = TRUE, !.held = @ - taken]
    BY <1>2, <1>5, <2>1
  <2>4. /\ DOMAIN reg' = DOMAIN s /\ reg'.member = s.member /\ reg'.delegation = s.delegation
        /\ reg'.cooling = s.cooling /\ reg'.members = s.members /\ reg'.unbonding = s.unbonding
        /\ reg'.reward = s.reward /\ reg'.rewards = s.rewards /\ reg'.pool = s.pool
        /\ reg'.epoch = s.epoch /\ reg'.game = [s.game EXCEPT !.resolved = TRUE]
        /\ reg'.held = s.held - taken
    BY <2>2, <2>3 DEF RegFields
  <2>5. RegSlashing(reg', n)
    BY <2>2, <2>4 DEF RegSlashing
  <2>6. QED BY <2>2, <2>4, <2>5 DEF RegTimedOut
<1>7. RegCutAll(reg', n)
  BY <1>6, RegLayersCut DEF RegTimedOut
<1>8. PICK lr, l, pr, p, due : /\ l = SumFunctionOnSet(RegLent(reg, n), Delegators)
                        /\ lr = SumFunctionOnSet(RegLent(reg', n), Delegators)
                        /\ p = SumFunctionOnSet(RegPut(reg, n), Delegators)
                        /\ pr = SumFunctionOnSet(RegPut(reg', n), Delegators)
                        /\ due = SumFunctionOnSet(RegDue(reg, n), Delegators)
  OBVIOUS
<1>9. /\ l \in Nat /\ lr \in Nat /\ p \in Nat /\ pr \in Nat /\ cut \in Nat /\ cuts \in Nat
      /\ earned \in Nat /\ due \in Nat /\ l = lr + cut /\ pr + cuts = p + earned
      /\ Scale * earned <= due
  BY <1>7, <1>8 DEF RegCutAll, cut, cuts, earned
<1>10. /\ o \in RegMember /\ o.stake \in Nat /\ o.strikes \in Nat /\ o.delegated = l
       /\ half \in Nat /\ h \in Nat /\ h + half = o.stake /\ k \in Nat \ {0}
  <2>1. o \in RegMember /\ o.stake \in Nat /\ o.strikes \in Nat
    BY <1>0 DEF RegAbout, RegMember, o
  <2>2. o.delegated = l BY <1>0, <1>8 DEF RegNode, o
  <2>3. half \in Nat /\ o.stake - half \in Nat BY <2>1, RegHalf DEF half
  <2>4. h \in Nat /\ h + half = o.stake BY <2>1, <2>3 DEF h
  <2>5. \A x \in Nat : Registry!Min(Registry!StrikeLimit, x + 1) \in Nat \ {0}
    BY DEF Registry!Min, Registry!StrikeLimit
  <2>6. QED BY <2>1, <2>2, <2>3, <2>4, <2>5 DEF k
<1>11. t = lr /\ t \in Nat
  BY <1>9, <1>10 DEF t
<1>12. taken = half + cuts /\ taken \in Nat
  <2>1. half + cuts \in Nat BY <1>9, <1>10
  <2>2. reg.game.affected \in Nat \ {0} BY <1>0, <1>2 DEF RegTypes
  <2>3. QED BY <1>1, <1>5, <2>1, <2>2, RegRedistributed
<1>13. /\ m \in RegMember /\ m.stake = h /\ m.strikes = k /\ ~ m.active
       /\ m.perStake = reg.member[n].perStake /\ m.delegated = lr
  <2>1. RegSlashedRecord(o, k, h, t, m)
    BY <1>4, <1>10, <1>11 DEF RegSlashedRecord
  <2>2. QED BY <1>11, <2>1, RegSlashedWell DEF o
<1>14. /\ reg'.member[n] = m /\ \A i \in Nodes \ {n} : reg'.member[i] = reg.member[i]
       /\ reg'.member \in [Nodes -> RegMember]
  BY <1>0, <1>6, <1>13 DEF RegTimedOut, RegAbout
<1>15. ASSUME NEW d \in Delegators
       PROVE  /\ reg'.delegation[d] \in [Nodes -> RegLoan] /\ reg'.cooling[d] \in [Nodes -> RegRequest]
              /\ reg'.delegation[d][n].debt = reg.member[n].perStake
              /\ \A i \in Nodes \ {n} : /\ reg'.delegation[d][i] = reg.delegation[d][i]
                                        /\ reg'.cooling[d][i] = reg.cooling[d][i]
  <2>1. /\ reg'.delegation[d][n] \in RegLoan /\ reg'.cooling[d][n] \in RegRequest
        /\ reg'.delegation[d][n].debt = reg.member[n].perStake
    BY <1>6, RegLayerCut DEF RegCutLayer, RegTimedOut
  <2>2. PICK x, y : /\ reg'.delegation[d] = [reg.delegation[d] EXCEPT ![n] = x]
                    /\ reg'.cooling[d] = [reg.cooling[d] EXCEPT ![n] = y]
    <3>1. PICK x, y : /\ x = Registry!Halved(Registry!Checkpoint(reg.delegation[d][n], reg.member[n].perStake))
                      /\ y = Registry!Halved(reg.cooling[d][n])
      OBVIOUS
    <3>2. /\ reg'.delegation[d] = [reg.delegation[d] EXCEPT ![n] = x]
          /\ reg'.cooling[d] = [reg.cooling[d] EXCEPT ![n] = y]
      BY <1>6, <3>1 DEF RegTimedOut, RegSlashing
    <3>3. QED BY <3>2
  <2>3. reg.delegation[d] \in [Nodes -> RegLoan] /\ reg.cooling[d] \in [Nodes -> RegRequest]
    BY <1>0 DEF RegTypes
  <2>4. reg'.delegation[d][n] = x /\ reg'.cooling[d][n] = y
    BY <2>2, <2>3
  <2>5. QED BY <2>1, <2>2, <2>3, <2>4
<1>16. RegTypes(reg')
  <2>1. /\ DOMAIN reg'.delegation = Delegators /\ DOMAIN reg'.cooling = Delegators
        /\ reg'.delegation = [d \in Delegators |-> reg'.delegation[d]]
        /\ reg'.cooling = [d \in Delegators |-> reg'.cooling[d]]
    BY <1>6 DEF RegTimedOut, RegSlashing
  <2>2. /\ reg'.delegation \in [Delegators -> [Nodes -> RegLoan]]
        /\ reg'.cooling \in [Delegators -> [Nodes -> RegRequest]]
    BY <1>15, <2>1
  <2>3. {"idle", "affected", "resolved"} \subseteq DOMAIN reg'.game /\ reg'.game.resolved
    BY <1>0, <1>6 DEF RegTypes, RegTimedOut
  <2>4. reg'.held \in Int
    BY <1>0, <1>6, <1>12 DEF RegTypes, RegTimedOut
  <2>5. QED BY <1>0, <1>6, <1>14, <2>2, <2>3, <2>4 DEF RegTypes, RegTimedOut
<1>17. RegAt(reg, reg', n)
  BY <1>6, <1>14, <1>15, <1>16 DEF RegAt, RegTimedOut
<1>18. RegNode(reg', n)
  <2>1. \A d \in Delegators : RegPaidUp(reg'.delegation[d][n], reg'.member[n].perStake)
    <3>1. reg.member[n].perStake \in Nat BY <1>0 DEF RegAbout, RegMember
    <3>2. QED BY <1>13, <1>14, <1>15, <3>1 DEF RegPaidUp
  <2>2. n \in reg'.members /\ reg'.member[n].strikes > 0
    BY <1>2, <1>6, <1>10, <1>13, <1>14 DEF RegTimedOut
  <2>3. QED BY <1>8, <1>13, <1>14, <2>1, <2>2 DEF RegNode
<1>19. SumFunctionOnSet(RegDue(reg', n), Delegators) = 0
  <2>1. ASSUME NEW d \in Delegators PROVE RegDue(reg', n)[d] = 0
    <3>1. PICK x, y : x = reg'.delegation[d][n].amount /\ y = reg.member[n].perStake
      OBVIOUS
    <3>2. x \in Nat /\ y \in Nat
      BY <1>0, <1>15, <3>1 DEF RegLoan, RegAbout, RegMember
    <3>3. RegDue(reg', n)[d] = x * (y - y)
      BY <1>13, <1>14, <1>15, <3>1 DEF RegDue
    <3>4. QED BY <3>2, <3>3
  <2>2. IsFiniteSet(Delegators) BY DEF RegConstants
  <2>3. QED BY <2>1, <2>2, SumZero
<1>20. /\ RegDues(reg')[n] = 0 /\ RegDues(reg)[n] = due
       /\ RegTokens(reg)[n] = o.stake + reg.unbonding[n].amount + p
       /\ RegTokens(reg')[n] = h + reg.unbonding[n].amount + pr
  BY <1>6, <1>8, <1>13, <1>14, <1>19 DEF RegDues, RegTokens, RegTimedOut, o
<1>21. RegSettled(reg, reg', n, - earned)
  <2>1. reg.unbonding[n].amount \in Nat /\ reg.held \in Int /\ reg'.held = reg.held - taken
    BY <1>0, <1>6 DEF RegAbout, RegTimedOut
  <2>2. reg'.held - RegTokens(reg')[n] >= reg.held - RegTokens(reg)[n] + (- earned)
    BY <1>9, <1>10, <1>12, <1>20, <2>1
  <2>3. Scale * (- earned) = - (Scale * earned) /\ Scale * earned \in Int
    <3>1. Scale \in Nat BY DEF RegConstants
    <3>2. QED BY <1>9, <3>1
  <2>4. RegDues(reg')[n] <= RegDues(reg)[n] + Scale * (- earned)
    BY <1>9, <1>20, <2>3
  <2>5. QED BY <1>9, <1>17, <1>18, <2>2, <2>4 DEF RegSettled
<1>22. QED BY <1>21, RegNodeStep

LEMMA RegInit == ASSUME RegConstants, Registry!Init PROVE RegInv(reg)
<1>0. IsFiniteSet(Nodes) /\ IsFiniteSet(Delegators) /\ Scale \in Nat /\ 0 \in Int
  BY DEF RegConstants
<1>1. /\ RegFields \subseteq DOMAIN reg /\ reg.members = {} /\ reg.epoch = {}
      /\ reg.member = [n \in Nodes |-> Registry!NotMember]
      /\ reg.delegation = [d \in Delegators |-> [n \in Nodes |-> [amount |-> 0, debt |-> 0, pending |-> 0]]]
      /\ reg.cooling = [d \in Delegators |-> [n \in Nodes |-> Registry!NoRequest]]
      /\ reg.unbonding = [n \in Nodes |-> Registry!NoRequest]
      /\ reg.reward = [n \in Nodes |-> 0] /\ reg.rewards = 0 /\ reg.pool = 0
      /\ reg.game = Registry!NoGame /\ reg.held = 0
  BY DEF Registry!Init, RegFields
<1>2. Registry!NotMember \in RegMember /\ Registry!NoRequest \in RegRequest
  BY DEF Registry!NotMember, Registry!NoRequest, RegMember, RegRequest
<1>3. [amount |-> 0, debt |-> 0, pending |-> 0] \in RegLoan
  BY DEF RegLoan
<1>4. /\ {"idle", "affected", "resolved"} \subseteq DOMAIN reg.game /\ reg.game.resolved
  BY <1>1 DEF Registry!NoGame
<1>5. RegTypes(reg)
  <2>1. /\ reg.member \in [Nodes -> RegMember] /\ reg.unbonding \in [Nodes -> RegRequest]
        /\ reg.reward \in [Nodes -> Nat]
    BY <1>1, <1>2
  <2>2. /\ reg.delegation \in [Delegators -> [Nodes -> RegLoan]]
        /\ reg.cooling \in [Delegators -> [Nodes -> RegRequest]]
    BY <1>1, <1>2, <1>3
  <2>3. QED BY <1>1, <1>4, <2>1, <2>2 DEF RegTypes
<1>6. ASSUME NEW n \in Nodes
      PROVE  /\ SumFunctionOnSet(RegPut(reg, n), Delegators) = 0
             /\ SumFunctionOnSet(RegDue(reg, n), Delegators) = 0
             /\ SumFunctionOnSet(RegLent(reg, n), Delegators) = 0
  <2>1. ASSUME NEW d \in Delegators
        PROVE  RegPut(reg, n)[d] = 0 /\ RegDue(reg, n)[d] = 0 /\ RegLent(reg, n)[d] = 0
    <3>1. /\ reg.delegation[d][n].amount = 0 /\ reg.delegation[d][n].debt = 0
          /\ reg.delegation[d][n].pending = 0 /\ reg.cooling[d][n].amount = 0
          /\ reg.member[n].perStake = 0
      BY <1>1 DEF Registry!NoRequest, Registry!NotMember
    <3>2. QED BY <3>1 DEF RegPut, RegDue, RegLent
  <2>2. SumFunctionOnSet(RegPut(reg, n), Delegators) = 0 BY <1>0, <2>1, SumZero
  <2>3. SumFunctionOnSet(RegDue(reg, n), Delegators) = 0 BY <1>0, <2>1, SumZero
  <2>4. SumFunctionOnSet(RegLent(reg, n), Delegators) = 0 BY <1>0, <2>1, SumZero
  <2>5. QED BY <2>2, <2>3, <2>4
<1>7. \A n \in Nodes : RegTokens(reg)[n] = 0 /\ RegDues(reg)[n] = 0
  BY <1>1, <1>6 DEF RegTokens, RegDues, Registry!NotMember, Registry!NoRequest
<1>8. SumFunctionOnSet(RegTokens(reg), Nodes) = 0
  BY <1>0, <1>7, SumZero
<1>9. SumFunctionOnSet(RegDues(reg), Nodes) = 0
  BY <1>0, <1>7, SumZero
<1>10. RegRewards(reg) = 0
  <2>1. \A n \in Nodes : reg.reward[n] = 0 BY <1>1
  <2>2. QED BY <1>0, <2>1, SumZero DEF RegRewards
<1>11. Scale * RegSpare(reg) = 0
  <2>1. RegSpare(reg) = 0 BY <1>1, <1>8 DEF RegSpare
  <2>2. Scale * 0 = 0 BY <1>0
  <2>3. QED BY <2>1, <2>2
<1>12. ASSUME NEW n \in Nodes PROVE RegNode(reg, n)
  <2>1. /\ reg.member[n].delegated = 0 /\ reg.member[n].perStake = 0 /\ ~ reg.member[n].active
        /\ \A d \in Delegators : reg.delegation[d][n].debt = 0
    BY <1>1 DEF Registry!NotMember
  <2>2. QED BY <1>1, <1>6, <2>1 DEF RegNode, RegPaidUp
<1>13. QED BY <1>1, <1>5, <1>9, <1>10, <1>11, <1>12 DEF RegInv

LEMMA RegStep ==
  ASSUME RegConstants, RegInv(reg), [Registry!Next]_reg, [~ RegForgets]_reg
  PROVE  RegInv(reg')
<1>1. CASE reg' = reg
  BY <1>1
<1>2. CASE \E n \in Nodes : \/ Registry!Deregister(n) \/ Registry!DeregisterOnFailure(n)
                            \/ Registry!ReportTimeout(n) \/ Registry!ReportSlash(n)
                            \/ Registry!WithdrawRewards(n) \/ Registry!CompleteStakeUnbonding(n)
                            \/ \E op \in Operators : Registry!SetOperator(n, op)
  BY <1>2, RegDeregister, RegDeregisterOnFailure, RegReportTimeout, RegReportSlash,
     RegWithdrawRewards, RegCompleteStakeUnbonding, RegSetOperator
<1>3. CASE ~ RegForgets /\ \E n \in Nodes, a \in Amounts :
             \/ Registry!Register(n, a) \/ Registry!DistributeNodeFees(n, a)
             \/ Registry!TopUpStake(n, a) \/ Registry!BeginStakeUnbonding(n, a)
  BY <1>3, RegRegister, RegDistributeNodeFees, RegTopUpStake, RegBeginStakeUnbonding
<1>4. CASE \E d \in Delegators, n \in Nodes :
             \/ Registry!WithdrawUndelegation(d, n) \/ Registry!ClaimRewards(d, n)
             \/ \E a \in Amounts : Registry!Delegate(d, n, a) \/ Registry!Undelegate(d, n, a)
  BY <1>4, RegWithdrawUndelegation, RegClaimRewards, RegDelegate, RegUndelegate
<1>5. CASE \/ \E S \in SUBSET Nodes : Registry!CreateEpoch(S)
           \/ \E b \in BOOLEAN : Registry!SetPaused(b)
           \/ \E a \in Amounts : Registry!DepositRake(a)
           \/ \E k \in AffectedCounts : Registry!TrackGamePhase(k)
           \/ Registry!DistributeFees \/ Registry!Tick
  BY <1>5, RegCreateEpoch, RegSetPaused, RegDepositRake, RegTrackGamePhase, RegDistributeFees, RegTick
<1>6. QED BY <1>1, <1>2, <1>3, <1>4, <1>5 DEF Registry!Next

(* What a delegator may claim now is what was written down and what she earned since. *)
LEMMA RegClaims ==
  ASSUME RegConstants, RegInv(reg), NEW d, NEW n, d \in Delegators, n \in Nodes
  PROVE  /\ Registry!Claimable(d, n) = reg.delegation[d][n].pending + RegEarnings(n)[d]
         /\ RegEarnings(n)[d] \in Nat /\ Scale * RegEarnings(n)[d] <= RegDue(reg, n)[d]
         /\ reg.delegation[d][n].amount \in Nat /\ reg.cooling[d][n].amount \in Nat
         /\ reg.delegation[d][n].pending \in Nat /\ RegDue(reg, n)[d] \in Int
<1>1. PICK q, c : RegLentAbout(d, n, q, c)
  BY RegLentFacts
<1>2. /\ RegEarnings(n)[d] = q
      /\ RegDue(reg, n)[d] = reg.delegation[d][n].amount
                             * (reg.member[n].perStake - reg.delegation[d][n].debt)
      /\ Registry!Claimable(d, n) = reg.delegation[d][n].pending + q
  BY <1>1 DEF RegLentAbout, RegEarnings, RegDue, Registry!Claimable
<1>3. /\ q \in Nat /\ Scale * q <= reg.delegation[d][n].amount
                                    * (reg.member[n].perStake - reg.delegation[d][n].debt)
      /\ reg.delegation[d][n].amount \in Nat /\ reg.cooling[d][n].amount \in Nat
      /\ reg.delegation[d][n].pending \in Nat
  BY <1>1 DEF RegLentAbout, RegWrittenDown
<1>4. RegDue(reg, n)[d] \in Int
  <2>1. reg.member[n].perStake \in Nat /\ reg.delegation[d][n].debt \in Nat
    BY <1>1 DEF RegLentAbout
  <2>2. QED BY <1>2, <1>3, <2>1
<1>5. QED BY <1>2, <1>3, <1>4

(* Solvency from the invariant: the fractions that the floors leave are paid for too. *)
LEMMA RegOwes ==
  ASSUME RegConstants, RegInv(reg)
  PROVE  Registry!RegistrySolvent
<1> DEFINE claims(n) == [d \in Delegators |-> reg.delegation[d][n].amount + reg.cooling[d][n].amount
                                              + Registry!Claimable(d, n)]
           owed == [n \in Nodes |-> reg.member[n].stake + reg.unbonding[n].amount
                                    + SumFunctionOnSet(claims(n), Delegators)]
           earned == [n \in Nodes |-> SumFunctionOnSet(RegEarnings(n), Delegators)]
           scaled == [n \in Nodes |-> earned[n] * Scale]
           tokens == RegTokens(reg)
           dues == RegDues(reg)
<1>0. RegTypes(reg) /\ IsFiniteSet(Nodes) /\ IsFiniteSet(Delegators) /\ Scale \in Nat \ {0}
  BY DEF RegInv, RegConstants
<1>1. Registry!Owed = SumFunctionOnSet(owed, Nodes) + reg.pool + reg.rewards
  BY RegSum DEF Registry!Owed, Registry!Over
<1>2. /\ tokens \in [Nodes -> Nat] /\ dues \in [Nodes -> Int]
      /\ SumFunctionOnSet(tokens, Nodes) \in Nat /\ SumFunctionOnSet(dues, Nodes) \in Int
      /\ RegRewards(reg) \in Nat
      /\ \A n \in Nodes : SumFunctionOnSet(RegPut(reg, n), Delegators) \in Nat
  BY <1>0, RegSumsAreNumbers
<1>3. ASSUME NEW n \in Nodes
      PROVE  /\ SumFunctionOnSet(claims(n), Delegators) =
                  SumFunctionOnSet(RegPut(reg, n), Delegators) + SumFunctionOnSet(RegEarnings(n), Delegators)
             /\ SumFunctionOnSet(RegEarnings(n), Delegators) \in Nat
             /\ SumFunctionOnSet(RegEarnings(n), Delegators) * Scale <=
                  SumFunctionOnSet(RegDue(reg, n), Delegators)
  <2> DEFINE c == claims(n)
             e == RegEarnings(n)
             p == RegPut(reg, n)
             due == RegDue(reg, n)
             f == [d \in Delegators |-> e[d] * Scale]
  <2>1. ASSUME NEW d \in Delegators
        PROVE  /\ p[d] \in Nat /\ e[d] \in Nat /\ c[d] = p[d] + e[d] /\ due[d] \in Int
               /\ f[d] = e[d] * Scale /\ f[d] \in Int /\ f[d] <= due[d]
    <3>1. PICK x, y, z, q : /\ x = reg.delegation[d][n].amount /\ y = reg.cooling[d][n].amount
                            /\ z = reg.delegation[d][n].pending /\ q = e[d]
      OBVIOUS
    <3>2. /\ Registry!Claimable(d, n) = z + q /\ q \in Nat /\ Scale * q <= due[d]
          /\ x \in Nat /\ y \in Nat /\ z \in Nat /\ due[d] \in Int
      BY <3>1, RegClaims
    <3>3. p[d] = x + y + z /\ c[d] = x + y + (z + q)
      BY <3>1, <3>2 DEF RegPut
    <3>4. f[d] = q * Scale BY <3>1
    <3>5. q * Scale = Scale * q /\ q * Scale \in Int BY <1>0, <3>2
    <3>6. x + y + z \in Nat /\ x + y + (z + q) = (x + y + z) + q BY <3>2
    <3> HIDE DEF c, e, p, due, f
    <3>7. QED BY <3>1, <3>2, <3>3, <3>4, <3>5, <3>6
  <2> HIDE DEF c, e, p, due, f
  <2>2. SumFunctionOnSet(c, Delegators) = SumFunctionOnSet(p, Delegators) + SumFunctionOnSet(e, Delegators)
    BY <1>0, <2>1, SumPlus
  <2>3. SumFunctionOnSet(e, Delegators) \in Nat
    BY <1>0, <2>1, SumNat
  <2>4. SumFunctionOnSet(f, Delegators) = SumFunctionOnSet(e, Delegators) * Scale
    BY <1>0, <2>1, SumScale
  <2>5. SumFunctionOnSet(f, Delegators) <= SumFunctionOnSet(due, Delegators)
    BY <1>0, <2>1, SumMonotone
  <2>6. QED BY <2>2, <2>3, <2>4, <2>5 DEF c, e, p, due
<1> HIDE DEF claims
<1>4. ASSUME NEW n \in Nodes
      PROVE  /\ earned[n] \in Nat /\ owed[n] = tokens[n] + earned[n] /\ tokens[n] \in Nat
             /\ scaled[n] = earned[n] * Scale /\ scaled[n] \in Int /\ scaled[n] <= dues[n] /\ dues[n] \in Int
  <2>1. PICK e, p, c : /\ e = SumFunctionOnSet(RegEarnings(n), Delegators)
                       /\ p = SumFunctionOnSet(RegPut(reg, n), Delegators)
                       /\ c = SumFunctionOnSet(claims(n), Delegators)
    OBVIOUS
  <2>2. c = p + e /\ e \in Nat /\ p \in Nat /\ e * Scale <= dues[n] /\ tokens[n] \in Nat /\ dues[n] \in Int
    BY <1>2, <1>3, <2>1 DEF RegDues
  <2>3. earned[n] = e /\ scaled[n] = e * Scale
    BY <2>1
  <2>4. PICK a, b : a = reg.member[n].stake /\ b = reg.unbonding[n].amount
    OBVIOUS
  <2>5. owed[n] = a + b + c /\ tokens[n] = a + b + p /\ a \in Nat /\ b \in Nat
    BY <1>0, <2>1, <2>4 DEF RegTokens, RegTypes, RegMember, RegRequest
  <2>6. e * Scale \in Int BY <1>0, <2>2
  <2> HIDE DEF owed, earned, scaled, tokens, dues
  <2>7. QED BY <2>2, <2>3, <2>5, <2>6
<1> HIDE DEF owed, earned, scaled, tokens, dues
<1>5. SumFunctionOnSet(owed, Nodes) = SumFunctionOnSet(tokens, Nodes) + SumFunctionOnSet(earned, Nodes)
  BY <1>0, <1>4, SumPlus
<1>6. SumFunctionOnSet(earned, Nodes) \in Nat
  BY <1>0, <1>4, SumNat
<1>7. SumFunctionOnSet(scaled, Nodes) = SumFunctionOnSet(earned, Nodes) * Scale
  BY <1>0, <1>4, SumScale
<1>8. SumFunctionOnSet(scaled, Nodes) <= SumFunctionOnSet(dues, Nodes)
  BY <1>0, <1>4, SumMonotone
<1>9. PICK T, E, spare : /\ T = SumFunctionOnSet(tokens, Nodes) /\ E = SumFunctionOnSet(earned, Nodes)
                         /\ spare = RegSpare(reg)
  OBVIOUS
<1>10. reg.held \in Int /\ reg.pool \in Int /\ reg.rewards \in Int /\ T \in Nat /\ E \in Nat
  BY <1>0, <1>2, <1>6, <1>9 DEF RegTypes, RegInv
<1>11. spare = reg.held - T - reg.pool - reg.rewards /\ spare \in Int
  BY <1>9, <1>10 DEF RegSpare, tokens
<1>12. E * Scale <= Scale * spare
  <2>1. SumFunctionOnSet(dues, Nodes) <= Scale * spare
    BY <1>9 DEF RegInv, dues
  <2>2. SumFunctionOnSet(scaled, Nodes) = E * Scale BY <1>7, <1>9
  <2>3. E * Scale \in Int /\ Scale * spare \in Int BY <1>0, <1>10, <1>11
  <2>4. QED BY <1>2, <1>8, <2>1, <2>2, <2>3
<1>13. E <= spare
  <2>1. Scale >= 1 /\ Scale \in Int /\ E \in Int /\ spare \in Int BY <1>0, <1>10, <1>11
  <2>2. ASSUME E > spare PROVE FALSE
    <3>1. Scale * (E - spare) > 0 BY <2>1, <2>2
    <3>2. Scale * (E - spare) = E * Scale - Scale * spare BY <2>1
    <3>3. E * Scale \in Int /\ Scale * spare \in Int BY <2>1
    <3>4. QED BY <1>12, <3>1, <3>2, <3>3
  <2>3. QED BY <2>1, <2>2
<1>14. Registry!Owed <= reg.held
  BY <1>1, <1>5, <1>9, <1>10, <1>11, <1>13
<1>15. QED BY <1>14 DEF Registry!RegistrySolvent

LEMMA RegBooks ==
  ASSUME RegConstants, RegInv(reg)
  PROVE  Registry!RegistryBooksAgree
<1>1. RegTypes(reg) /\ reg.rewards = RegRewards(reg) /\ \A n \in Nodes : RegNode(reg, n)
  BY DEF RegInv
<1>2. reg.rewards = Registry!Over(Nodes, LAMBDA n : reg.reward[n])
  <2>1. reg.reward = [n \in Nodes |-> reg.reward[n]]
    BY <1>1 DEF RegTypes
  <2>2. QED BY <1>1, <2>1, RegSum DEF Registry!Over, RegRewards
<1>3. ASSUME NEW n \in Nodes
      PROVE  /\ reg.member[n].delegated = Registry!Over(Delegators, LAMBDA d : reg.delegation[d][n].amount)
             /\ reg.member[n].stake >= 0
             /\ \A d \in Delegators : reg.delegation[d][n].amount >= 0
  <2>1. reg.member[n].delegated = Registry!Over(Delegators, LAMBDA d : reg.delegation[d][n].amount)
    BY <1>1, RegSum DEF Registry!Over, RegNode, RegLent
  <2>2. reg.member[n].stake >= 0
    BY <1>1 DEF RegTypes, RegMember
  <2>3. \A d \in Delegators : reg.delegation[d][n].amount >= 0
    BY <1>1 DEF RegTypes, RegLoan
  <2>4. QED BY <2>1, <2>2, <2>3
<1>4. reg.pool >= 0
  BY <1>1 DEF RegTypes
<1>5. QED BY <1>2, <1>3, <1>4 DEF Registry!RegistryBooksAgree

(* In the current epoch or active, so worth the minimum unless punished: a weaker
   invariant, which the forgotten delegations leave alone. *)
EpochInv(s) ==
  /\ {"member", "members", "epoch"} \subseteq DOMAIN s /\ s.epoch \subseteq Nodes
  /\ DOMAIN s.member = Nodes
  /\ \A n \in Nodes :
       /\ {"stake", "active", "strikes"} \subseteq DOMAIN s.member[n]
       /\ s.member[n].stake \in Nat /\ s.member[n].strikes \in Nat
       /\ s.member[n].active => n \in s.members
       /\ s.member[n].active \/ n \in s.epoch =>
            s.member[n].stake >= MinStake \/ s.member[n].strikes > 0

(* One node's record changes. *)
EpochKept(s, r, n) ==
  /\ EpochInv(s) /\ n \in Nodes /\ r.epoch = s.epoch /\ DOMAIN s \subseteq DOMAIN r
  /\ DOMAIN r.member = Nodes /\ s.members \subseteq r.members
  /\ \A k \in Nodes \ {n} : r.member[k] = s.member[k]
  /\ {"stake", "active", "strikes"} \subseteq DOMAIN r.member[n]
  /\ r.member[n].stake \in Nat /\ r.member[n].strikes \in Nat
  /\ r.member[n].active => n \in r.members
  /\ r.member[n].active \/ n \in s.epoch =>
       r.member[n].stake >= MinStake \/ r.member[n].strikes > 0

LEMMA EpochKeptStep ==
  ASSUME NEW s, NEW r, NEW n, EpochKept(s, r, n) PROVE EpochInv(r)
<1>1. /\ {"member", "members", "epoch"} \subseteq DOMAIN r /\ r.epoch \subseteq Nodes
      /\ DOMAIN r.member = Nodes
  BY DEF EpochKept, EpochInv
<1>2. ASSUME NEW k \in Nodes
      PROVE  /\ {"stake", "active", "strikes"} \subseteq DOMAIN r.member[k]
             /\ r.member[k].stake \in Nat /\ r.member[k].strikes \in Nat
             /\ r.member[k].active => k \in r.members
             /\ r.member[k].active \/ k \in r.epoch =>
                  r.member[k].stake >= MinStake \/ r.member[k].strikes > 0
  <2>1. CASE k = n
    BY <2>1 DEF EpochKept
  <2>2. CASE k # n
    BY <2>2 DEF EpochKept, EpochInv
  <2>3. QED BY <2>1, <2>2
<1>3. QED BY <1>1, <1>2 DEF EpochInv

LEMMA EpochSteps ==
  ASSUME RegConstants, EpochInv(reg), [Registry!Next]_reg PROVE EpochInv(reg')
<1> DEFINE Half(n) == reg.member[n].stake - Registry!HalfOf(reg.member[n].stake)
<1>0. MinStake \in Nat /\ Amounts \subseteq Nat BY DEF RegConstants
<1>a. ASSUME NEW n \in Nodes
      PROVE  /\ DOMAIN reg.member = Nodes /\ {"member", "members", "epoch"} \subseteq DOMAIN reg
             /\ {"stake", "active", "strikes"} \subseteq DOMAIN reg.member[n]
             /\ reg.member[n].stake \in Nat /\ reg.member[n].strikes \in Nat /\ Half(n) \in Nat
             /\ reg.member[n].active => n \in reg.members
             /\ reg.member[n].active \/ n \in reg.epoch =>
                  reg.member[n].stake >= MinStake \/ reg.member[n].strikes > 0
  BY <1>a, RegHalf DEF EpochInv
<1>b. ASSUME NEW x \in Nat
      PROVE  /\ Registry!Min(Registry!StrikeLimit, x + 1) \in Nat
             /\ Registry!Min(Registry!StrikeLimit, x + 1) > 0
  BY DEF Registry!Min, Registry!StrikeLimit
<1> HIDE DEF Half
<1>1. ASSUME NEW n \in Nodes, Registry!Deregister(n) PROVE EpochInv(reg')
  <2>1. EpochKept(reg, reg', n)
    BY <1>0, <1>1, <1>a DEF EpochKept, Registry!Deregister
  <2>2. QED BY <2>1, EpochKeptStep
<1>2. ASSUME NEW n \in Nodes, Registry!DeregisterOnFailure(n) PROVE EpochInv(reg')
  <2>1. EpochKept(reg, reg', n)
    BY <1>0, <1>2, <1>a, <1>b DEF EpochKept, Registry!DeregisterOnFailure
  <2>2. QED BY <2>1, EpochKeptStep
<1>3. ASSUME NEW n \in Nodes, Registry!ReportTimeout(n) PROVE EpochInv(reg')
  <2>1. PICK k : k = Registry!Min(Registry!StrikeLimit, reg.member[n].strikes + 1)
    OBVIOUS
  <2>2. /\ DOMAIN reg' = DOMAIN reg /\ reg'.epoch = reg.epoch /\ reg'.members = reg.members
        /\ DOMAIN reg'.member = DOMAIN reg.member
        /\ \A i \in Nodes \ {n} : reg'.member[i] = reg.member[i]
        /\ DOMAIN reg'.member[n] = DOMAIN reg.member[n]
        /\ reg'.member[n].stake = Half(n) /\ reg'.member[n].strikes = k
        /\ reg'.member[n].active = FALSE
    BY <1>3, <1>a, <2>1 DEF Registry!ReportTimeout, Registry!Slashed, Half
  <2>3. EpochKept(reg, reg', n)
    BY <1>a, <1>b, <2>1, <2>2 DEF EpochKept
  <2>4. QED BY <2>3, EpochKeptStep
<1>4. ASSUME NEW n \in Nodes, Registry!ReportSlash(n) PROVE EpochInv(reg')
  <2>1. PICK k : k = Registry!Min(Registry!StrikeLimit, reg.member[n].strikes + 1)
    OBVIOUS
  <2>2. PICK m : /\ m = IF k < Registry!StrikeLimit THEN [reg.member[n] EXCEPT !.strikes = k]
                         ELSE [reg.member[n] EXCEPT !.strikes = k, !.stake = Half(n),
                                                    !.active = FALSE]
                 /\ reg' = [reg EXCEPT !.member[n] = m]
    BY <1>4, <2>1 DEF Registry!ReportSlash, Half
  <2>3. /\ {"stake", "active", "strikes"} \subseteq DOMAIN m /\ m.stake \in Nat
        /\ m.strikes = k /\ m.active => reg.member[n].active
    BY <1>a, <2>2
  <2>4. EpochKept(reg, reg', n)
    BY <1>a, <1>b, <2>1, <2>2, <2>3 DEF EpochKept
  <2>5. QED BY <2>4, EpochKeptStep
<1>5. ASSUME NEW n \in Nodes, NEW op, Registry!SetOperator(n, op) PROVE EpochInv(reg')
  <2>1. EpochKept(reg, reg', n)
    BY <1>0, <1>5, <1>a DEF EpochKept, Registry!SetOperator
  <2>2. QED BY <2>1, EpochKeptStep
<1>6. ASSUME NEW n \in Nodes, NEW a \in Amounts, Registry!Register(n, a) PROVE EpochInv(reg')
  <2>1. PICK m : m = [Registry!NotMember EXCEPT !.stake = a, !.active = TRUE]
    OBVIOUS
  <2>2. /\ {"stake", "active", "strikes"} \subseteq DOMAIN m /\ m.stake = a /\ m.strikes = 0
        /\ a \in Nat /\ a >= MinStake
    BY <1>0, <1>6, <2>1 DEF Registry!NotMember, Registry!Register
  <2>3. reg' = [reg EXCEPT !.members = reg.members \union {n}, !.held = reg.held + a, !.member[n] = m]
    BY <1>6, <2>1 DEF Registry!Register
  <2>4. EpochKept(reg, reg', n)
    BY <1>a, <2>2, <2>3 DEF EpochKept
  <2>5. QED BY <2>4, EpochKeptStep
<1>7. ASSUME NEW n \in Nodes, NEW a \in Amounts, Registry!DistributeNodeFees(n, a) PROVE EpochInv(reg')
  <2> DEFINE rest == a - (a * FeeRateBps) \div 10000
             k == reg.member[n].perStake + Registry!Quotient(rest * Scale, reg.member[n].delegated)
  <2>1. reg' = [reg EXCEPT !.held = @ + rest, !.member[n].perStake = k]
    BY <1>7 DEF Registry!DistributeNodeFees
  <2> HIDE DEF rest, k
  <2>2. EpochKept(reg, reg', n)
    BY <1>a, <2>1 DEF EpochKept
  <2>3. QED BY <2>2, EpochKeptStep
<1>8. ASSUME NEW n \in Nodes, NEW a \in Amounts, Registry!TopUpStake(n, a) PROVE EpochInv(reg')
  <2>1. EpochKept(reg, reg', n)
    BY <1>0, <1>8, <1>a DEF EpochKept, Registry!TopUpStake
  <2>2. QED BY <2>1, EpochKeptStep
<1>9. ASSUME NEW n \in Nodes, NEW a \in Amounts, Registry!BeginStakeUnbonding(n, a)
      PROVE  EpochInv(reg')
  <2>1. EpochKept(reg, reg', n)
    BY <1>0, <1>9, <1>a DEF EpochKept, Registry!BeginStakeUnbonding
  <2>2. QED BY <2>1, EpochKeptStep
<1>10. ASSUME NEW d \in Delegators, NEW n \in Nodes, NEW a \in Amounts,
              Registry!Delegate(d, n, a) \/ Registry!Undelegate(d, n, a)
       PROVE  EpochInv(reg')
  <2>1. PICK k : /\ DOMAIN reg' = DOMAIN reg /\ reg'.epoch = reg.epoch /\ reg'.members = reg.members
                 /\ reg'.member = [reg.member EXCEPT ![n].delegated = k]
    <3>1. CASE Registry!Delegate(d, n, a)
      <4>1. PICK x, h, k : reg' = [reg EXCEPT !.delegation[d][n] = x, !.member[n].delegated = k,
                                              !.held = h]
        BY <3>1 DEF Registry!Delegate
      <4>2. QED BY <1>a, <4>1
    <3>2. CASE Registry!Undelegate(d, n, a)
      <4>1. PICK x, h, k : reg' = [reg EXCEPT !.delegation[d][n] = x, !.member[n].delegated = k,
                                              !.cooling[d][n] = h]
        BY <3>2 DEF Registry!Undelegate
      <4>2. QED BY <1>a, <4>1
    <3>3. QED BY <1>10, <3>1, <3>2
  <2>2. EpochKept(reg, reg', n)
    BY <1>a, <2>1 DEF EpochKept
  <2>3. QED BY <2>2, EpochKeptStep
<1>11. ASSUME NEW S \in SUBSET Nodes, Registry!CreateEpoch(S) PROVE EpochInv(reg')
  BY <1>11 DEF EpochInv, Registry!CreateEpoch
<1>12. ASSUME DOMAIN reg' = DOMAIN reg, reg'.member = reg.member, reg'.members = reg.members,
              reg'.epoch = reg.epoch
       PROVE  EpochInv(reg')
  BY <1>12 DEF EpochInv
<1>13. ASSUME \/ \E n \in Nodes : Registry!WithdrawRewards(n) \/ Registry!CompleteStakeUnbonding(n)
              \/ \E d \in Delegators, n \in Nodes :
                   Registry!WithdrawUndelegation(d, n) \/ Registry!ClaimRewards(d, n)
              \/ \E b \in BOOLEAN : Registry!SetPaused(b)
              \/ \E a \in Amounts : Registry!DepositRake(a)
              \/ \E k \in AffectedCounts : Registry!TrackGamePhase(k)
              \/ Registry!DistributeFees \/ Registry!Tick
       PROVE  EpochInv(reg')
  <2>1. CASE \E n \in Nodes : Registry!WithdrawRewards(n)
    BY <1>12, <2>1 DEF Registry!WithdrawRewards
  <2>2. CASE \E n \in Nodes : Registry!CompleteStakeUnbonding(n)
    BY <1>12, <2>2 DEF Registry!CompleteStakeUnbonding
  <2>3. CASE \E d \in Delegators, n \in Nodes : Registry!WithdrawUndelegation(d, n)
    BY <1>12, <2>3 DEF Registry!WithdrawUndelegation
  <2>4. CASE \E d \in Delegators, n \in Nodes : Registry!ClaimRewards(d, n)
    BY <1>12, <2>4 DEF Registry!ClaimRewards
  <2>5. CASE \E b \in BOOLEAN : Registry!SetPaused(b)
    BY <1>12, <2>5 DEF Registry!SetPaused
  <2>6. CASE \E a \in Amounts : Registry!DepositRake(a)
    BY <1>12, <2>6 DEF Registry!DepositRake
  <2>7. CASE \E k \in AffectedCounts : Registry!TrackGamePhase(k)
    BY <1>12, <2>7 DEF Registry!TrackGamePhase
  <2>8. CASE Registry!DistributeFees
    BY <1>12, <2>8 DEF Registry!DistributeFees
  <2>9. CASE Registry!Tick
    BY <1>12, <2>9 DEF Registry!Tick
  <2>10. QED BY <1>13, <2>1, <2>2, <2>3, <2>4, <2>5, <2>6, <2>7, <2>8, <2>9
<1>14. QED
  BY <1>1, <1>2, <1>3, <1>4, <1>5, <1>6, <1>7, <1>8, <1>9, <1>10, <1>11, <1>12, <1>13
     DEF Registry!Next

(* The registry never owes more than it holds, unless a node with delegations behind it
   registers again (`lib.rs:380`): whatever is staked, delegated, slashed, unbonded,
   shared out and claimed, in whatever order, and however the floors round. *)
THEOREM RegistryStaysSolvent ==
  ASSUME RegConstants
  PROVE  Registry!Spec /\ [][~ RegForgets]_reg => []Registry!RegistrySolvent
<1>1. Registry!Init => RegInv(reg)
  BY RegInit
<1>2. RegInv(reg) /\ [Registry!Next]_reg /\ [~ RegForgets]_reg => RegInv(reg)'
  BY RegStep
<1>3. RegInv(reg) => Registry!RegistrySolvent
  BY RegOwes
<1>4. QED BY <1>1, <1>2, <1>3, PTL DEF Registry!Spec

(* On the same condition: what a node's record says is delegated to it, and what is kept
   of pending rewards, are the sums of the single records, and no balance is negative. *)
THEOREM RegistryBooksStayInOrder ==
  ASSUME RegConstants
  PROVE  Registry!Spec /\ [][~ RegForgets]_reg => []Registry!RegistryBooksAgree
<1>1. Registry!Init => RegInv(reg)
  BY RegInit
<1>2. RegInv(reg) /\ [Registry!Next]_reg /\ [~ RegForgets]_reg => RegInv(reg)'
  BY RegStep
<1>3. RegInv(reg) => Registry!RegistryBooksAgree
  BY RegBooks
<1>4. QED BY <1>1, <1>2, <1>3, PTL DEF Registry!Spec

(* Nobody serves in an epoch with less than the minimum at stake who has not been
   punished: whether nodes leave, unbond, fail, are slashed or register again. *)
THEOREM EpochsStayBacked ==
  ASSUME RegConstants PROVE Registry!Spec => []Registry!EpochBacked
<1>1. Registry!Init => EpochInv(reg)
  <2>1. ASSUME Registry!Init
        PROVE  /\ {"member", "members", "epoch"} \subseteq DOMAIN reg /\ reg.epoch = {}
               /\ reg.member = [n \in Nodes |-> Registry!NotMember]
    BY <2>1 DEF Registry!Init
  <2>2. QED BY <2>1 DEF EpochInv, Registry!NotMember
<1>2. EpochInv(reg) /\ [Registry!Next]_reg => EpochInv(reg)'
  BY EpochSteps
<1>3. EpochInv(reg) => Registry!EpochBacked
  BY DEF EpochInv, Registry!EpochBacked
<1>4. QED BY <1>1, <1>2, <1>3, PTL DEF Registry!Spec

-----------------------------------------------------------------------------
(* The governance of parameters and of the committee. *)
Gov == INSTANCE ProtocolGovernance

(* Voters and members are finitely many; shares are basis points, times are numbers
   of ledgers (u32, u64). *)
GovConstants ==
  /\ IsFiniteSet(Voters) /\ IsFiniteSet(Members)
  /\ Amounts \subseteq Nat
  /\ QuorumBps \in Nat /\ ApprovalBps \in Nat
  /\ VotingDelay \in Nat /\ VotingPeriod \in Nat /\ Timelock \in Nat

Ballots == {"For", "Against", "Abstain"}

(* A proposal that is queued was approved by the votes on it, and its timelock began
   after the voting had closed; a vote would put it back among the active ones. *)
ProposalInOrder(p) ==
  /\ {"group", "value", "start", "end", "after", "votes", "voted", "status"} \subseteq DOMAIN p
  /\ p.start \in Int /\ p.end \in Int /\ p.after \in Int /\ p.votes \in [Ballots -> Nat]
  /\ p.status = "Queued" =>
       p.after > p.end + Timelock /\ p.votes["For"] * 10000 > ApprovalBps * Gov!Decisive(p)

GovTypes ==
  /\ {"staked", "total", "proposal", "params", "now"} \subseteq DOMAIN gov
  /\ gov.staked \in [Voters -> Nat] /\ gov.total \in Int /\ gov.now \in Int
  /\ gov.params = [g \in Groups |-> gov.params[g]]
  /\ \E n \in Nat : gov.proposal = [i \in 1 .. n |-> gov.proposal[i]]

GovInv ==
  /\ GovTypes
  /\ \A id \in DOMAIN gov.proposal : ProposalInOrder(gov.proposal[id])

StakesAdded == gov.total = SumFunctionOnSet(gov.staked, Voters)

LEMMA GovSum == \A f, S : Gov!SumFunctionOnSet(f, S) = SumFunctionOnSet(f, S)
BY DEF Gov!SumFunctionOnSet, SumFunctionOnSet, Gov!FoldFunctionOnSet, FoldFunctionOnSet,
       Gov!MapThenFoldSet, MapThenFoldSet

LEMMA GovCardinality == \A S : Gov!Cardinality(S) = Cardinality(S)
BY DEF Gov!Cardinality, Cardinality, Gov!IsFiniteSet, IsFiniteSet

(* What is above b when divided by d was above b * d. *)
LEMMA AboveShare ==
  ASSUME NEW a \in Nat, NEW d \in Nat, NEW b \in Nat, d # 0, a \div d > b
  PROVE  a > b * d
<1> DEFINE q == a \div d
<1>1. q \in Int /\ a % d \in 0 .. d - 1 /\ a = (d * q) + (a % d)
  OBVIOUS
<1>2. q >= b + 1
  BY <1>1
<1> HIDE DEF q
<1>3. d * q >= d * (b + 1)
  BY <1>1, <1>2
<1>4. d * (b + 1) = b * d + d
  OBVIOUS
<1>5. b * d \in Int /\ d * q \in Int
  BY <1>1
<1>6. QED BY <1>1, <1>3, <1>4, <1>5

LEMMA GovStarts ==
  ASSUME GovConstants, Gov!Init
  PROVE  GovInv /\ StakesAdded
<1>1. GovInv
  <2>1. gov.proposal = << >> /\ DOMAIN gov.proposal = {}
    BY DEF Gov!Init
  <2>2. gov.proposal = [i \in 1 .. 0 |-> gov.proposal[i]]
    BY <2>1
  <2>3. QED BY <2>1, <2>2 DEF Gov!Init, GovInv, GovTypes
<1>2. StakesAdded
  <2>1. gov.total = 0 /\ \A v \in Voters : gov.staked[v] = 0
    BY DEF Gov!Init
  <2>2. QED BY <2>1, SumZero DEF StakesAdded, GovConstants
<1>3. QED BY <1>1, <1>2

(* A proposal is replaced, and nothing else changes. *)
GovProposes(g, id, p) ==
  /\ DOMAIN g = DOMAIN gov /\ g.proposal = [gov.proposal EXCEPT ![id] = p]
  /\ g.params = gov.params /\ g.staked = gov.staked /\ g.total = gov.total /\ g.now = gov.now

LEMMA GovPut ==
  ASSUME GovInv, NEW id \in DOMAIN gov.proposal, NEW p, ProposalInOrder(p),
         GovProposes(gov', id, p)
  PROVE  GovInv'
<1>2. /\ DOMAIN gov' = DOMAIN gov
      /\ gov'.params = gov.params /\ gov'.staked = gov.staked /\ gov'.total = gov.total
      /\ gov'.now = gov.now
      /\ gov'.proposal = [gov.proposal EXCEPT ![id] = p]
  BY DEF GovProposes
<1>3. PICK n \in Nat : gov.proposal = [i \in 1 .. n |-> gov.proposal[i]]
  BY DEF GovInv, GovTypes
<1>4. DOMAIN gov.proposal = 1 .. n
  BY <1>3
<1>5. gov'.proposal = [i \in 1 .. n |-> gov'.proposal[i]]
  BY <1>2, <1>4
<1>6. \A i \in DOMAIN gov'.proposal : ProposalInOrder(gov'.proposal[i])
  <2>1. \A i \in DOMAIN gov'.proposal :
          /\ i \in DOMAIN gov.proposal
          /\ gov'.proposal[i] = IF i = id THEN p ELSE gov.proposal[i]
    BY <1>2
  <2>2. QED BY <2>1 DEF GovInv
<1>7. GovTypes'
  BY <1>2, <1>5 DEF GovInv, GovTypes
<1>8. QED BY <1>2, <1>6, <1>7 DEF GovInv

LEMMA GovMoney ==
  ASSUME GovConstants, GovInv, StakesAdded,
         NEW v \in Voters, NEW a \in Amounts, Gov!Stake(v, a) \/ Gov!Unstake(v, a)
  PROVE  GovInv' /\ StakesAdded' /\ gov'.params = gov.params
<1>1. /\ {"staked", "total", "proposal", "params", "now"} \subseteq DOMAIN gov
      /\ gov.staked \in [Voters -> Nat] /\ gov.total \in Int /\ a \in Nat /\ IsFiniteSet(Voters)
  BY DEF GovInv, GovTypes, GovConstants
<1>2. gov.total = SumFunctionOnSet(gov.staked, Voters) /\ gov.staked[v] <= gov.total
  BY <1>1, SumBounds DEF StakesAdded
<1>3. /\ DOMAIN gov' = DOMAIN gov /\ gov'.proposal = gov.proposal
      /\ gov'.params = gov.params /\ gov'.now = gov.now
  BY <1>1 DEF Gov!Stake, Gov!Unstake
<1>4. PICK d \in Int :
        /\ gov.staked[v] + d >= 0
        /\ gov'.staked = [gov.staked EXCEPT ![v] = gov.staked[v] + d]
        /\ gov'.total = gov.total + d
  <2>1. CASE Gov!Stake(v, a)
    <3>1. /\ gov'.staked = [gov.staked EXCEPT ![v] = gov.staked[v] + a]
          /\ gov'.total = gov.total + a
      BY <1>1, <2>1 DEF Gov!Stake
    <3>2. gov.staked[v] + a >= 0 /\ a \in Int
      BY <1>1
    <3>3. QED BY <3>1, <3>2
  <2>2. CASE Gov!Unstake(v, a)
    <3>1. /\ gov.staked[v] >= a
          /\ gov'.staked = [gov.staked EXCEPT ![v] = gov.staked[v] - a]
          /\ gov'.total = IF gov.total >= a THEN gov.total - a ELSE 0
      BY <1>1, <2>2 DEF Gov!Unstake
    <3>2. gov.staked[v] \in Nat /\ gov.total >= a
      BY <1>1, <1>2, <3>1
    <3>3. PICK d \in Int : gov.staked[v] - a = gov.staked[v] + d /\ gov.total - a = gov.total + d
      <4>1. gov.staked[v] - a = gov.staked[v] + (0 - a) /\ gov.total - a = gov.total + (0 - a) /\ 0 - a \in Int
        BY <1>1, <3>2
      <4>2. QED BY <4>1
    <3>4. gov.staked[v] + d >= 0
      BY <1>1, <3>1, <3>2, <3>3
    <3>5. gov'.staked = [gov.staked EXCEPT ![v] = gov.staked[v] + d] /\ gov'.total = gov.total + d
      BY <3>1, <3>2, <3>3
    <3>6. QED BY <3>4, <3>5
  <2>3. QED BY <2>1, <2>2
<1>5. gov'.staked \in [Voters -> Nat] /\ gov'.total \in Int
  BY <1>1, <1>4
<1>6. SumFunctionOnSet(gov'.staked, Voters) = SumFunctionOnSet(gov.staked, Voters) + d
  <2>1. \A y \in Voters : /\ gov.staked[y] \in Int /\ gov'.staked[y] \in Int
                          /\ y # v => gov'.staked[y] = gov.staked[y]
    BY <1>1, <1>4, <1>5
  <2>2. gov'.staked[v] = gov.staked[v] + d
    BY <1>1, <1>4
  <2>3. SumFunctionOnSet(gov'.staked, Voters)
          = SumFunctionOnSet(gov.staked, Voters) - gov.staked[v] + gov'.staked[v]
    BY <1>1, <2>1, SumChange
  <2>4. QED BY <1>1, <1>2, <2>1, <2>2, <2>3
<1>7. GovInv'
  BY <1>3, <1>5 DEF GovInv, GovTypes
<1>8. StakesAdded'
  BY <1>2, <1>4, <1>6 DEF StakesAdded
<1>9. QED BY <1>3, <1>7, <1>8

LEMMA GovPropose ==
  ASSUME GovConstants, GovInv, NEW v \in Voters, NEW g \in Groups, NEW x \in Values, Gov!Propose(v, g, x)
  PROVE  GovInv' /\ gov'.params = gov.params /\ gov'.staked = gov.staked /\ gov'.total = gov.total
<1> DEFINE id == Gov!Cardinality(DOMAIN gov.proposal) + 1
           start == gov.now + VotingDelay
           p == [group |-> g, value |-> x, start |-> start, end |-> start + VotingPeriod,
                 after |-> 0, votes |-> [k \in Ballots |-> 0], voted |-> {}, status |-> "Pending"]
           new == [i \in 1 .. id |-> IF i < id THEN gov.proposal[i] ELSE p]
<1>1. /\ {"staked", "total", "proposal", "params", "now"} \subseteq DOMAIN gov
      /\ gov.now \in Int /\ VotingDelay \in Int /\ VotingPeriod \in Int
  BY DEF GovInv, GovTypes, GovConstants
<1>2. gov' = [gov EXCEPT !.proposal = new]
  BY DEF Gov!Propose, Ballots
<1>3. PICK n \in Nat : gov.proposal = [i \in 1 .. n |-> gov.proposal[i]]
  BY DEF GovInv, GovTypes
<1>4. DOMAIN gov.proposal = 1 .. n
  BY <1>3
<1>5. id = n + 1
  <2>1. Cardinality(1 .. n) = n
    BY FS_Interval
  <2>2. QED BY <1>4, <2>1, GovCardinality
<1>6. ProposalInOrder(p)
  BY <1>1 DEF ProposalInOrder, Ballots
<1> HIDE DEF p, id
<1>7. /\ DOMAIN gov' = DOMAIN gov /\ gov'.proposal = new
      /\ gov'.params = gov.params /\ gov'.staked = gov.staked /\ gov'.total = gov.total
      /\ gov'.now = gov.now
  BY <1>1, <1>2
<1>8. /\ DOMAIN new = 1 .. (n + 1) /\ new = [i \in 1 .. (n + 1) |-> new[i]]
      /\ \A i \in 1 .. (n + 1) : new[i] = IF i < n + 1 THEN gov.proposal[i] ELSE p
  BY <1>5
<1> HIDE DEF new
<1>9. \A i \in DOMAIN new : ProposalInOrder(new[i])
  <2>1. \A i \in 1 .. (n + 1) : i < n + 1 => i \in DOMAIN gov.proposal
    BY <1>4
  <2>2. QED BY <1>6, <1>8, <2>1 DEF GovInv
<1>10. GovTypes'
  <2>1. n + 1 \in Nat /\ gov'.proposal = [i \in 1 .. (n + 1) |-> gov'.proposal[i]]
    BY <1>7, <1>8
  <2>2. QED BY <1>7, <2>1 DEF GovInv, GovTypes
<1>11. QED BY <1>7, <1>9, <1>10 DEF GovInv

LEMMA GovKept ==
  ASSUME GovConstants, GovInv, StakesAdded, [Gov!Next]_gov
  PROVE  GovInv' /\ StakesAdded' /\ Gov!ChangesWereVoted
<1>0. /\ {"staked", "total", "proposal", "params", "now"} \subseteq DOMAIN gov
      /\ gov.now \in Int /\ Timelock \in Int
      /\ gov.params = [g \in Groups |-> gov.params[g]]
  BY DEF GovInv, GovTypes, GovConstants
<1>1. ASSUME gov'.params = gov.params PROVE Gov!ChangesWereVoted
  BY <1>1 DEF Gov!ChangesWereVoted
<1>2. ASSUME gov'.staked = gov.staked, gov'.total = gov.total PROVE StakesAdded'
  BY <1>2 DEF StakesAdded
<1>3. CASE UNCHANGED gov
  <2>1. GovInv'
    BY <1>3 DEF GovInv, GovTypes
  <2>2. QED BY <1>1, <1>2, <1>3, <2>1
<1>4. ASSUME NEW v \in Voters, NEW a \in Amounts, Gov!Stake(v, a) \/ Gov!Unstake(v, a)
      PROVE  GovInv' /\ StakesAdded' /\ Gov!ChangesWereVoted
  BY <1>1, <1>4, GovMoney
<1>5. ASSUME NEW v \in Voters, NEW g \in Groups, NEW x \in Values, Gov!Propose(v, g, x)
      PROVE  GovInv' /\ StakesAdded' /\ Gov!ChangesWereVoted
  BY <1>1, <1>2, <1>5, GovPropose
<1>6. CASE Gov!Tick
  <2>1. /\ DOMAIN gov' = DOMAIN gov /\ gov'.proposal = gov.proposal /\ gov'.params = gov.params
        /\ gov'.staked = gov.staked /\ gov'.total = gov.total /\ gov'.now \in Int
    BY <1>0, <1>6 DEF Gov!Tick
  <2>2. GovInv'
    BY <2>1 DEF GovInv, GovTypes
  <2>3. QED BY <1>1, <1>2, <2>1, <2>2
<1>7. ASSUME NEW id \in DOMAIN gov.proposal, Gov!QueueProposal(id)
      PROVE  GovInv' /\ StakesAdded' /\ Gov!ChangesWereVoted
  <2> DEFINE p == gov.proposal[id]
             q == [p EXCEPT !.status = "Queued", !.after = gov.now + Timelock]
  <2>1. gov.now > p.end /\ Gov!Approved(p)
    BY <1>7 DEF Gov!QueueProposal
  <2>2. gov' = [gov EXCEPT !.proposal[id].status = "Queued", !.proposal[id].after = gov.now + Timelock]
    BY <1>7 DEF Gov!QueueProposal
  <2>3. GovProposes(gov', id, q)
    BY <1>0, <2>2 DEF GovProposes
  <2>4. ProposalInOrder(p)
    BY DEF GovInv
  <2> HIDE DEF p
  <2>5. /\ {"group", "value", "start", "end", "after", "votes", "voted", "status"} \subseteq DOMAIN q
        /\ q.start = p.start /\ q.end = p.end /\ q.after = gov.now + Timelock /\ q.votes = p.votes
    BY <2>4 DEF ProposalInOrder
  <2> HIDE DEF q
  <2>6. /\ p.votes \in [Ballots -> Nat] /\ p.end \in Int /\ p.start \in Int
    BY <2>4 DEF ProposalInOrder
  <2>7. p.votes["For"] * 10000 > ApprovalBps * Gov!Decisive(p)
    <3>1. PICK f \in Nat, d \in Nat : /\ f = p.votes["For"] * 10000 /\ d = Gov!Decisive(p)
                                      /\ d # 0 /\ f \div d > ApprovalBps
      BY <2>1, <2>6 DEF Gov!Approved, Gov!Decisive, Ballots
    <3>2. f > ApprovalBps * d
      BY <3>1, AboveShare DEF GovConstants
    <3>3. QED BY <3>1, <3>2
  <2>8. Gov!Decisive(q) = Gov!Decisive(p)
    BY <2>5 DEF Gov!Decisive
  <2>9. q.after > q.end + Timelock
    BY <1>0, <2>1, <2>5, <2>6
  <2>10. ProposalInOrder(q)
    BY <1>0, <2>5, <2>6, <2>7, <2>8, <2>9 DEF ProposalInOrder
  <2>11. QED BY <1>1, <1>2, <2>3, <2>10, GovPut DEF GovProposes
<1>8. ASSUME NEW id \in DOMAIN gov.proposal, Gov!ExecuteProposal(id)
      PROVE  GovInv' /\ StakesAdded' /\ Gov!ChangesWereVoted
  <2> DEFINE p == gov.proposal[id]
             q == [p EXCEPT !.status = "Executed"]
  <2>1. p.status = "Queued" /\ gov.now >= p.after
    BY <1>8 DEF Gov!ExecuteProposal
  <2>2. gov' = [gov EXCEPT !.params[p.group] = p.value, !.proposal[id].status = "Executed"]
    BY <1>8 DEF Gov!ExecuteProposal
  <2>3. ProposalInOrder(p)
    BY DEF GovInv
  <2>4. ProposalInOrder(q)
    <3> HIDE DEF p
    <3>1. /\ DOMAIN q = DOMAIN p /\ q.start = p.start /\ q.end = p.end /\ q.after = p.after
          /\ q.votes = p.votes /\ q.status # "Queued"
      BY <2>3 DEF ProposalInOrder
    <3> HIDE DEF q
    <3>2. QED BY <2>3, <3>1 DEF ProposalInOrder
  <2>5. /\ DOMAIN gov' = DOMAIN gov
        /\ gov'.proposal = [gov.proposal EXCEPT ![id] = q]
        /\ gov'.staked = gov.staked /\ gov'.total = gov.total /\ gov'.now = gov.now
        /\ gov'.params = [gov.params EXCEPT ![p.group] = p.value]
    BY <1>0, <2>2
  <2>6. GovInv'
    <3>1. PICK n \in Nat : gov.proposal = [i \in 1 .. n |-> gov.proposal[i]]
      BY DEF GovInv, GovTypes
    <3>2. DOMAIN gov.proposal = 1 .. n
      BY <3>1
    <3> HIDE DEF q, p
    <3>3. gov'.proposal = [i \in 1 .. n |-> gov'.proposal[i]]
      BY <2>5, <3>2
    <3>4. \A i \in DOMAIN gov'.proposal :
            i \in DOMAIN gov.proposal /\ gov'.proposal[i] = IF i = id THEN q ELSE gov.proposal[i]
      BY <2>5
    <3>5. \A i \in DOMAIN gov'.proposal : ProposalInOrder(gov'.proposal[i])
      BY <2>4, <3>4 DEF GovInv
    <3>6. gov'.params = [g \in Groups |-> gov'.params[g]]
      BY <1>0, <2>5
    <3>7. QED BY <2>5, <3>3, <3>5, <3>6 DEF GovInv, GovTypes
  <2>7. Gov!ChangesWereVoted
    <3>1. p.end \in Int /\ p.after \in Int /\ gov.now > p.end + Timelock
      <4>1. p.end \in Int /\ p.after \in Int /\ p.after > p.end + Timelock
        BY <2>1, <2>3 DEF ProposalInOrder
      <4>2. QED BY <1>0, <2>1, <4>1
    <3>2. p.votes["For"] * 10000 > ApprovalBps * Gov!Decisive(p)
      BY <2>1, <2>3 DEF ProposalInOrder
    <3>3. ASSUME NEW g \in Groups, gov'.params[g] # gov.params[g]
          PROVE  p.group = g /\ p.value = gov'.params[g]
      BY <1>0, <2>5, <3>3
    <3>4. QED BY <3>1, <3>2, <3>3 DEF Gov!ChangesWereVoted
  <2>8. QED BY <1>2, <2>5, <2>6, <2>7
<1>9. ASSUME NEW id \in DOMAIN gov.proposal, NEW v \in Voters, NEW kind \in Ballots, Gov!CastVote(v, id, kind)
      PROVE  GovInv' /\ StakesAdded' /\ Gov!ChangesWereVoted
  <2> DEFINE p == gov.proposal[id]
             votes == [p.votes EXCEPT ![kind] = @ + gov.staked[v]]
             voted == p.voted \union {v}
             q == [p EXCEPT !.votes = votes, !.voted = voted, !.status = "Active"]
  <2>1. gov' = [gov EXCEPT !.proposal[id].votes[kind] = @ + gov.staked[v],
                           !.proposal[id].voted = @ \union {v}, !.proposal[id].status = "Active"]
    BY <1>9 DEF Gov!CastVote
  <2>2. ProposalInOrder(p)
    BY DEF GovInv
  <2>3. GovProposes(gov', id, q)
    <3>1. {"votes", "voted", "status"} \subseteq DOMAIN p /\ kind \in DOMAIN p.votes
      BY <2>2 DEF ProposalInOrder
    <3>2. QED BY <1>0, <2>1, <3>1 DEF GovProposes
  <2>4. votes \in [Ballots -> Nat]
    <3>1. p.votes \in [Ballots -> Nat] /\ gov.staked[v] \in Nat
      BY <2>2 DEF ProposalInOrder, GovInv, GovTypes
    <3>2. QED BY <3>1
  <2> HIDE DEF p, votes, voted
  <2>5. /\ DOMAIN q = DOMAIN p /\ q.start = p.start /\ q.end = p.end /\ q.after = p.after
        /\ q.votes = votes /\ q.status # "Queued"
    BY <2>2 DEF ProposalInOrder
  <2> HIDE DEF q
  <2>6. ProposalInOrder(q)
    BY <2>2, <2>4, <2>5 DEF ProposalInOrder
  <2>7. QED BY <1>1, <1>2, <2>3, <2>6, GovPut DEF GovProposes
<1>10. QED
  BY <1>3, <1>4, <1>5, <1>6, <1>7, <1>8, <1>9 DEF Gov!Next, Ballots

(* Protocol parameters change only by a proposal for that parameter that the votes
   cast on it approved, after a whole timelock that began when the voting had closed
   (queue_proposal, execute_proposal), however many voters, stakes and proposals. *)
THEOREM ParametersVoted ==
  ASSUME GovConstants
  PROVE  Gov!Spec => [][Gov!ChangesWereVoted]_gov
<1>1. Gov!Init => GovInv /\ StakesAdded
  BY GovStarts
<1>2. GovInv /\ StakesAdded /\ [Gov!Next]_gov => (GovInv /\ StakesAdded)' /\ Gov!ChangesWereVoted
  BY GovKept
<1>3. QED
  BY <1>1, <1>2, PTL DEF Gov!Spec

(* TotalStaked, which the quorum is taken of, is the sum of the stakes. *)
THEOREM StakesAlwaysAddUp ==
  ASSUME GovConstants
  PROVE  Gov!Spec => []Gov!StakeAddsUp
<1>1. Gov!Init => GovInv /\ StakesAdded
  BY GovStarts
<1>2. GovInv /\ StakesAdded /\ [Gov!Next]_gov => (GovInv /\ StakesAdded)'
  BY GovKept
<1>3. StakesAdded => Gov!StakeAddsUp
  BY GovSum DEF StakesAdded, Gov!StakeAddsUp
<1>4. QED
  BY <1>1, <1>2, <1>3, PTL DEF Gov!Spec

-----------------------------------------------------------------------------
(* The committee's own governance. *)
BallotInOrder(p) ==
  /\ {"for", "against", "executed", "after"} \subseteq DOMAIN p
  /\ p.for \in SUBSET Members /\ p.against \in SUBSET Members /\ p.for \cap p.against = {}
  /\ p.executed => /\ Cardinality(p.for) + Cardinality(p.against) >= Gov!QuorumVotes
                   /\ Cardinality(p.for) >= Gov!ApprovalVotes

CouncilTypes ==
  /\ {"proposal", "now"} \subseteq DOMAIN council
  /\ \E n \in Nat : council.proposal = [i \in 1 .. n |-> council.proposal[i]]

CouncilInv == CouncilTypes /\ \A id \in DOMAIN council.proposal : BallotInOrder(council.proposal[id])

(* The quorum is rounded up, the approval beyond the share. *)
LEMMA CouncilShares ==
  ASSUME GovConstants
  PROVE  /\ Gov!QuorumVotes \in Nat /\ Gov!ApprovalVotes \in Nat
         /\ Gov!QuorumVotes * 10000 >= QuorumBps * Gov!Cardinality(Members)
         /\ Gov!ApprovalVotes * 10000 > ApprovalBps * Gov!QuorumVotes
<1>1. PICK m \in Nat : m = Gov!Cardinality(Members)
  BY FS_CardinalityType, GovCardinality DEF GovConstants
<1>2. PICK t \in Nat : t = m * QuorumBps /\ t = QuorumBps * m
  BY DEF GovConstants
<1>3. Gov!QuorumVotes = IF (t + 9999) \div 10000 < 1 THEN 1 ELSE (t + 9999) \div 10000
  BY <1>1, <1>2 DEF Gov!QuorumVotes
<1>4. Gov!QuorumVotes \in Nat /\ Gov!QuorumVotes * 10000 >= t
  BY <1>3
<1>5. PICK v \in Nat : v = Gov!QuorumVotes
  BY <1>4
<1>6. PICK u \in Nat : u = v * ApprovalBps /\ u = ApprovalBps * v
  BY DEF GovConstants
<1>7. Gov!ApprovalVotes = (u \div 10000) + 1
  BY <1>5, <1>6 DEF Gov!ApprovalVotes
<1>8. Gov!ApprovalVotes \in Nat /\ Gov!ApprovalVotes * 10000 > u
  BY <1>7
<1>9. QED
  BY <1>1, <1>2, <1>4, <1>5, <1>6, <1>8

LEMMA CouncilPut ==
  ASSUME CouncilInv, NEW id \in DOMAIN council.proposal, NEW p, BallotInOrder(p),
         DOMAIN council' = DOMAIN council, council'.proposal = [council.proposal EXCEPT ![id] = p]
  PROVE  CouncilInv'
<1>1. PICK n \in Nat : council.proposal = [i \in 1 .. n |-> council.proposal[i]]
  BY DEF CouncilInv, CouncilTypes
<1>2. DOMAIN council.proposal = 1 .. n
  BY <1>1
<1>3. council'.proposal = [i \in 1 .. n |-> council'.proposal[i]]
  BY <1>2
<1>4. \A i \in DOMAIN council'.proposal :
        /\ i \in DOMAIN council.proposal
        /\ council'.proposal[i] = IF i = id THEN p ELSE council.proposal[i]
  OBVIOUS
<1>5. \A i \in DOMAIN council'.proposal : BallotInOrder(council'.proposal[i])
  BY <1>4 DEF CouncilInv
<1>6. CouncilTypes'
  BY <1>3 DEF CouncilInv, CouncilTypes
<1>7. QED BY <1>5, <1>6 DEF CouncilInv

LEMMA CouncilStarts == ASSUME Gov!CouncilInit PROVE CouncilInv
<1>1. council.proposal = << >> /\ DOMAIN council.proposal = {}
  BY DEF Gov!CouncilInit
<1>2. council.proposal = [i \in 1 .. 0 |-> council.proposal[i]]
  BY <1>1
<1>3. QED BY <1>1, <1>2 DEF Gov!CouncilInit, CouncilInv, CouncilTypes

LEMMA CouncilKept ==
  ASSUME GovConstants, CouncilInv, [Gov!CouncilNext]_council
  PROVE  CouncilInv'
<1>0. {"proposal", "now"} \subseteq DOMAIN council
  BY DEF CouncilInv, CouncilTypes
<1>1. CASE UNCHANGED council
  BY <1>1 DEF CouncilInv, CouncilTypes
<1>2. CASE Gov!CouncilTick
  <2>1. DOMAIN council' = DOMAIN council /\ council'.proposal = council.proposal
    BY <1>0, <1>2 DEF Gov!CouncilTick
  <2>2. QED BY <2>1 DEF CouncilInv, CouncilTypes
<1>3. CASE Gov!CouncilPropose
  <2> DEFINE id == Gov!Cardinality(DOMAIN council.proposal) + 1
             p == [for |-> {}, against |-> {}, executed |-> FALSE, after |-> council.now + Timelock]
             new == [i \in 1 .. id |-> IF i < id THEN council.proposal[i] ELSE p]
  <2>1. council' = [council EXCEPT !.proposal = new]
    BY <1>3 DEF Gov!CouncilPropose
  <2>2. PICK n \in Nat : council.proposal = [i \in 1 .. n |-> council.proposal[i]]
    BY DEF CouncilInv, CouncilTypes
  <2>3. DOMAIN council.proposal = 1 .. n
    BY <2>2
  <2>4. id = n + 1
    <3>1. Cardinality(1 .. n) = n
      BY FS_Interval
    <3>2. QED BY <2>3, <3>1, GovCardinality
  <2>5. BallotInOrder(p)
    BY DEF BallotInOrder
  <2> HIDE DEF p, id
  <2>6. DOMAIN council' = DOMAIN council /\ council'.proposal = new
    BY <1>0, <2>1
  <2>7. /\ new = [i \in 1 .. (n + 1) |-> new[i]] /\ n + 1 \in Nat /\ DOMAIN new = 1 .. (n + 1)
        /\ \A i \in 1 .. (n + 1) : new[i] = IF i < n + 1 THEN council.proposal[i] ELSE p
    BY <2>4
  <2> HIDE DEF new
  <2>8. \A i \in DOMAIN new : BallotInOrder(new[i])
    <3>1. \A i \in 1 .. (n + 1) : i < n + 1 => i \in DOMAIN council.proposal
      BY <2>3
    <3>2. QED BY <2>5, <2>7, <3>1 DEF CouncilInv
  <2>9. CouncilTypes'
    <3>1. council'.proposal = [i \in 1 .. (n + 1) |-> council'.proposal[i]]
      BY <2>6, <2>7
    <3>2. QED BY <1>0, <2>6, <2>7, <3>1 DEF CouncilTypes
  <2>10. QED BY <2>6, <2>8, <2>9 DEF CouncilInv
<1>4. ASSUME NEW id \in DOMAIN council.proposal, NEW m \in Members, NEW yes \in BOOLEAN,
             Gov!CouncilVote(m, id, yes)
      PROVE  CouncilInv'
  <2> DEFINE p == council.proposal[id]
             q == IF yes THEN [p EXCEPT !.for = @ \union {m}] ELSE [p EXCEPT !.against = @ \union {m}]
  <2>1. BallotInOrder(p) /\ ~p.executed /\ m \notin p.for \union p.against
    BY <1>4 DEF CouncilInv, Gov!CouncilVote
  <2>2. DOMAIN council' = DOMAIN council /\ council'.proposal = [council.proposal EXCEPT ![id] = q]
    <3>1. CASE yes
      BY <1>0, <1>4, <3>1 DEF Gov!CouncilVote
    <3>2. CASE ~yes
      BY <1>0, <1>4, <3>2 DEF Gov!CouncilVote
    <3>3. QED BY <3>1, <3>2
  <2> HIDE DEF p
  <2>3. BallotInOrder(q)
    <3>1. CASE yes
      <4>1. /\ {"for", "against", "executed", "after"} \subseteq DOMAIN q
            /\ q.for = p.for \union {m} /\ q.against = p.against /\ q.executed = p.executed
        BY <2>1, <3>1 DEF BallotInOrder
      <4> HIDE DEF q
      <4>2. QED BY <2>1, <4>1 DEF BallotInOrder
    <3>2. CASE ~yes
      <4>1. /\ {"for", "against", "executed", "after"} \subseteq DOMAIN q
            /\ q.for = p.for /\ q.against = p.against \union {m} /\ q.executed = p.executed
        BY <2>1, <3>2 DEF BallotInOrder
      <4> HIDE DEF q
      <4>2. QED BY <2>1, <4>1 DEF BallotInOrder
    <3>3. QED BY <3>1, <3>2
  <2>4. QED BY <2>2, <2>3, CouncilPut
<1>5. ASSUME NEW id \in DOMAIN council.proposal, Gov!CouncilExecute(id)
      PROVE  CouncilInv'
  <2> DEFINE p == council.proposal[id]
             q == [p EXCEPT !.executed = TRUE]
  <2>1. /\ BallotInOrder(p)
        /\ Gov!Cardinality(p.for) + Gov!Cardinality(p.against) >= Gov!QuorumVotes
        /\ Gov!Cardinality(p.for) >= Gov!ApprovalVotes
    BY <1>5 DEF CouncilInv, Gov!CouncilExecute
  <2>2. DOMAIN council' = DOMAIN council /\ council'.proposal = [council.proposal EXCEPT ![id] = q]
    BY <1>0, <1>5 DEF Gov!CouncilExecute
  <2> HIDE DEF p
  <2>3. /\ {"for", "against", "executed", "after"} \subseteq DOMAIN q
        /\ q.for = p.for /\ q.against = p.against
    BY <2>1 DEF BallotInOrder
  <2> HIDE DEF q
  <2>4. BallotInOrder(q)
    BY <2>1, <2>3, GovCardinality DEF BallotInOrder
  <2>5. QED BY <2>2, <2>4, CouncilPut
<1>6. QED
  BY <1>1, <1>2, <1>3, <1>4, <1>5 DEF Gov!CouncilNext

LEMMA CouncilConcludes ==
  ASSUME GovConstants, CouncilInv
  PROVE  Gov!ExecutedByQuorum
<1>1. SUFFICES ASSUME NEW id \in DOMAIN council.proposal, council.proposal[id].executed
      PROVE /\ Gov!Cardinality(council.proposal[id].for \union council.proposal[id].against) * 10000
                 >= QuorumBps * Gov!Cardinality(Members)
            /\ Gov!Cardinality(council.proposal[id].for) * 10000 > ApprovalBps * Gov!QuorumVotes
  BY DEF Gov!ExecutedByQuorum
<1> DEFINE p == council.proposal[id]
<1>2. BallotInOrder(p) /\ p.executed
  BY <1>1 DEF CouncilInv
<1> HIDE DEF p
<1>3. /\ IsFiniteSet(p.for) /\ IsFiniteSet(p.against) /\ p.for \cap p.against = {}
      /\ Cardinality(p.for) + Cardinality(p.against) >= Gov!QuorumVotes
      /\ Cardinality(p.for) >= Gov!ApprovalVotes
  BY <1>2, FS_Subset DEF BallotInOrder, GovConstants
<1>4. PICK a \in Nat, b \in Nat : a = Cardinality(p.for) /\ b = Cardinality(p.against)
  BY <1>3, FS_CardinalityType
<1>5. Cardinality(p.for \union p.against) = a + b
  <2>1. Cardinality(p.for \union p.against)
          = Cardinality(p.for) + Cardinality(p.against) - Cardinality(p.for \cap p.against)
    BY <1>3, FS_Union
  <2>2. Cardinality(p.for \cap p.against) = 0
    BY <1>3, FS_EmptySet
  <2>3. QED BY <1>4, <2>1, <2>2
<1>6. PICK n \in Nat, y \in Nat : n = Gov!QuorumVotes /\ y = Gov!ApprovalVotes
  BY CouncilShares
<1>7. PICK x \in Int : x = QuorumBps * Gov!Cardinality(Members)
  BY GovCardinality, FS_CardinalityType DEF GovConstants
<1>8. PICK z \in Int : z = ApprovalBps * Gov!QuorumVotes
  BY <1>6 DEF GovConstants
<1>9. n * 10000 >= x /\ y * 10000 > z
  BY <1>6, <1>7, <1>8, CouncilShares
<1>10. (a + b) * 10000 >= x /\ a * 10000 > z
  BY <1>3, <1>4, <1>6, <1>9
<1>11. QED
  BY <1>4, <1>5, <1>7, <1>8, <1>10, GovCardinality DEF p

(* What the committee's governance executed had the quorum, of members who voted
   once each, and more votes in favour than the threshold asks of a quorum, for
   every committee and every quorum and threshold. *)
THEOREM CouncilHadQuorum ==
  ASSUME GovConstants
  PROVE  Gov!CouncilSpec => []Gov!ExecutedByQuorum
<1>1. Gov!CouncilInit => CouncilInv
  BY CouncilStarts
<1>2. CouncilInv /\ [Gov!CouncilNext]_council => CouncilInv'
  BY CouncilKept
<1>3. CouncilInv => Gov!ExecutedByQuorum
  BY CouncilConcludes
<1>4. QED
  BY <1>1, <1>2, <1>3, PTL DEF Gov!CouncilSpec

-----------------------------------------------------------------------------
(* The verifier of proofs. *)
Verifier == INSTANCE ZkVerifier WITH Types <- Circuits, Ids <- CircuitIds, Keys <- VerifyingKeys

(* The keys are looked up by id, then by type; signers have each proposed the code
   that waits. *)
KeyTables ==
  /\ {"byType", "byId", "status", "paused", "verified", "failures", "config", "pending",
      "endorsed", "code"} \subseteq DOMAIN zk
  /\ zk.byType = [c \in Circuits |-> zk.byType[c]]
  /\ zk.byId = [c \in CircuitIds |-> zk.byId[c]]

LEMMA VerifierCardinality == \A S : Verifier!Cardinality(S) = Cardinality(S)
BY DEF Verifier!Cardinality, Cardinality, Verifier!IsFiniteSet, IsFiniteSet

LEMMA KeyTablesStart == ASSUME Verifier!Init PROVE KeyTables
BY DEF Verifier!Init, KeyTables

(* A step that leaves both tables of keys alone. *)
LEMMA KeysSame ==
  ASSUME KeyTables, DOMAIN zk' = DOMAIN zk, zk'.byType = zk.byType, zk'.byId = zk.byId
  PROVE  KeyTables' /\ Verifier!KeysMoveForward
<1>1. KeyTables'
  BY DEF KeyTables
<1>2. \A c \in CircuitIds : Verifier!LoadRawVkEntry(zk', c) = Verifier!LoadRawVkEntry(zk, c)
  BY DEF Verifier!LoadRawVkEntry
<1>3. QED BY <1>1, <1>2 DEF Verifier!KeysMoveForward

LEMMA KeysReplaced ==
  ASSUME KeyTables, [Verifier!Next]_zk
  PROVE  KeyTables' /\ Verifier!KeysMoveForward
<1>0. {"byType", "byId", "status", "paused", "verified", "failures", "config", "pending",
       "endorsed", "code"} \subseteq DOMAIN zk
  BY DEF KeyTables
<1>1. CASE UNCHANGED zk
  BY <1>1, KeysSame
<1>2. ASSUME NEW b \in BOOLEAN, Verifier!SetPaused(b) PROVE KeyTables' /\ Verifier!KeysMoveForward
  BY <1>0, <1>2, KeysSame DEF Verifier!SetPaused
<1>3. ASSUME NEW c \in Circuits, NEW k \in VerifyingKeys, NEW v \in 1 .. MaxVersion,
             Verifier!SetVerificationKey(c, k, v)
      PROVE  KeyTables' /\ Verifier!KeysMoveForward
  <2> DEFINE new == [key |-> k, version |-> v]
  <2>1. v > zk.byType[c].version /\ v # 0 /\ new.version = v
    BY <1>3 DEF Verifier!SetVerificationKey
  <2>2. /\ DOMAIN zk' = DOMAIN zk /\ zk'.byId = zk.byId
        /\ zk'.byType = [zk.byType EXCEPT ![c] = new]
    BY <1>0, <1>3 DEF Verifier!SetVerificationKey
  <2> HIDE DEF new
  <2>3. KeyTables'
    BY <2>2 DEF KeyTables
  <2>4. ASSUME NEW i \in CircuitIds, Verifier!LoadRawVkEntry(zk', i) # Verifier!LoadRawVkEntry(zk, i)
        PROVE  i = c /\ Verifier!LoadRawVkEntry(zk, i) = zk.byType[c] /\ Verifier!LoadRawVkEntry(zk', i) = new
    BY <2>2, <2>4 DEF KeyTables, Verifier!LoadRawVkEntry
  <2>5. Verifier!KeysMoveForward
    BY <2>1, <2>4 DEF Verifier!KeysMoveForward
  <2>6. QED BY <2>3, <2>5
<1>4. ASSUME NEW c \in CircuitIds, NEW k \in VerifyingKeys, NEW v \in 1 .. MaxVersion,
             Verifier!UpdateVk(c, k, v)
      PROVE  KeyTables' /\ Verifier!KeysMoveForward
  <2> DEFINE new == [key |-> k, version |-> v]
  <2>1. v > Verifier!LoadRawVkEntry(zk, c).version /\ new.version = v /\ new # Verifier!NoKey
    <3>1. v # 0 /\ new.version = v /\ Verifier!NoKey.version = 0
      BY DEF Verifier!NoKey
    <3>2. QED BY <1>4, <3>1 DEF Verifier!UpdateVk
  <2>2. /\ DOMAIN zk' = DOMAIN zk /\ zk'.byType = zk.byType
        /\ zk'.byId = [zk.byId EXCEPT ![c] = new]
    BY <1>0, <1>4 DEF Verifier!UpdateVk
  <2> HIDE DEF new
  <2>3. KeyTables'
    BY <2>2 DEF KeyTables
  <2>4. ASSUME NEW i \in CircuitIds, Verifier!LoadRawVkEntry(zk', i) # Verifier!LoadRawVkEntry(zk, i)
        PROVE  i = c /\ Verifier!LoadRawVkEntry(zk', i) = new
    <3>1. zk'.byId[i] # zk.byId[i]
      BY <2>2, <2>4 DEF Verifier!LoadRawVkEntry
    <3>2. i = c /\ zk'.byId[i] = new
      BY <2>2, <3>1 DEF KeyTables
    <3>3. QED BY <2>1, <3>2 DEF Verifier!LoadRawVkEntry
  <2>5. Verifier!KeysMoveForward
    BY <2>1, <2>4 DEF Verifier!KeysMoveForward
  <2>6. QED BY <2>3, <2>5
<1>5. ASSUME NEW c, NEW s, Verifier!SetCircuitStatus(c, s) PROVE KeyTables' /\ Verifier!KeysMoveForward
  BY <1>0, <1>5, KeysSame DEF Verifier!SetCircuitStatus
<1>6. ASSUME NEW r, Verifier!RecordFailure(r) PROVE KeyTables' /\ Verifier!KeysMoveForward
  BY <1>0, <1>6, KeysSame DEF Verifier!RecordFailure
<1>7. ASSUME NEW p, Verifier!Accept(p) PROVE KeyTables' /\ Verifier!KeysMoveForward
  BY <1>0, <1>7, KeysSame DEF Verifier!Accept
<1>8. ASSUME NEW c, NEW p,
             \/ Verifier!VerifyProof(c, p) \/ Verifier!VerifyByType(c, p)
             \/ Verifier!VerifyProofById(c, p) \/ Verifier!VerifyById(c, p)
      PROVE  KeyTables' /\ Verifier!KeysMoveForward
  <2>1. (\E r : Verifier!RecordFailure(r)) \/ Verifier!Accept(p)
    BY <1>8 DEF Verifier!VerifyProof, Verifier!VerifyByType, Verifier!VerifyProofById, Verifier!VerifyById
  <2>2. QED BY <1>6, <1>7, <2>1
<1>9. ASSUME NEW cfg, Verifier!ConfigureUpgradeGovernance(cfg)
      PROVE  KeyTables' /\ Verifier!KeysMoveForward
  BY <1>0, <1>9, KeysSame DEF Verifier!ConfigureUpgradeGovernance
<1>10. ASSUME NEW s, NEW w, Verifier!ProposeUpgrade(s, w) PROVE KeyTables' /\ Verifier!KeysMoveForward
  BY <1>0, <1>10, KeysSame DEF Verifier!ProposeUpgrade
<1>11. CASE Verifier!ExecuteUpgrade
  BY <1>0, <1>11, KeysSame DEF Verifier!ExecuteUpgrade
<1>12. CASE Verifier!Tick
  BY <1>0, <1>12, KeysSame DEF Verifier!Tick
<1>13. QED
  BY <1>1, <1>2, <1>3, <1>4, <1>5, <1>8, <1>9, <1>10, <1>11, <1>12 DEF Verifier!Next, Verifier!DeprecateVk

(* A circuit's verification key, its own or the one of the type it falls back to, is
   only ever replaced by one of a higher version (set_verification_key, update_vk). *)
THEOREM VerificationKeysMoveForward == Verifier!Spec => [][Verifier!KeysMoveForward]_zk
<1>1. Verifier!Init => KeyTables
  BY KeyTablesStart
<1>2. KeyTables /\ [Verifier!Next]_zk => KeyTables' /\ Verifier!KeysMoveForward
  BY KeysReplaced
<1>3. QED
  BY <1>1, <1>2, PTL DEF Verifier!Spec

-----------------------------------------------------------------------------
(* The upgrades by signers. *)
Endorsers(w) == zk.endorsed[w]

UpgradeOpen ==
  \/ zk.pending = Verifier!NoPending
  \/ zk.pending.wasm \in Wasms /\ zk.pending.approvals \subseteq zk.endorsed[zk.pending.wasm]

UpgradeInv ==
  /\ {"byType", "byId", "status", "paused", "verified", "failures", "config", "pending",
      "endorsed", "code"} \subseteq DOMAIN zk
  /\ zk.endorsed = [w \in Wasms |-> zk.endorsed[w]]
  /\ \A w \in Wasms : IsFiniteSet(zk.endorsed[w])
  /\ zk.config = Verifier!NoConfig \/ Verifier!ValidConfig(zk.config)
  /\ {"wasm", "approvals", "age"} \subseteq DOMAIN zk.pending
  /\ UpgradeOpen

LEMMA UpgradeStarts == ASSUME Verifier!Init PROVE UpgradeInv
<1>1. \A w \in Wasms : zk.endorsed[w] = {} /\ IsFiniteSet(zk.endorsed[w])
  BY FS_EmptySet DEF Verifier!Init
<1>2. QED
  BY <1>1 DEF Verifier!Init, UpgradeInv, UpgradeOpen, Verifier!NoPending

(* A step that leaves the upgrades alone. *)
UpgradesSame ==
  /\ DOMAIN zk' = DOMAIN zk /\ zk'.config = zk.config /\ zk'.pending = zk.pending
  /\ zk'.endorsed = zk.endorsed /\ zk'.code = zk.code

LEMMA UpgradesSameKeep ==
  ASSUME UpgradeInv, UpgradesSame
  PROVE  UpgradeInv' /\ Verifier!CodeChangesEndorsed
BY DEF UpgradeInv, UpgradeOpen, UpgradesSame, Verifier!CodeChangesEndorsed

LEMMA UpgradesKept ==
  ASSUME UpgradeInv, [Verifier!Next]_zk
  PROVE  UpgradeInv' /\ Verifier!CodeChangesEndorsed
<1>0. {"byType", "byId", "status", "paused", "verified", "failures", "config", "pending",
       "endorsed", "code"} \subseteq DOMAIN zk
  BY DEF UpgradeInv
<1>1. CASE UNCHANGED zk
  BY <1>1, UpgradesSameKeep DEF UpgradesSame
<1>2. ASSUME NEW b \in BOOLEAN, Verifier!SetPaused(b) PROVE UpgradesSame
  BY <1>0, <1>2 DEF Verifier!SetPaused, UpgradesSame
<1>3. ASSUME NEW c \in Circuits, NEW k, NEW v, Verifier!SetVerificationKey(c, k, v) PROVE UpgradesSame
  BY <1>0, <1>3 DEF Verifier!SetVerificationKey, UpgradesSame
<1>4. ASSUME NEW c \in CircuitIds, NEW k, NEW v, Verifier!UpdateVk(c, k, v) PROVE UpgradesSame
  BY <1>0, <1>4 DEF Verifier!UpdateVk, UpgradesSame
<1>5. ASSUME NEW c, NEW s, Verifier!SetCircuitStatus(c, s) PROVE UpgradesSame
  BY <1>0, <1>5 DEF Verifier!SetCircuitStatus, UpgradesSame
<1>6. ASSUME NEW r, Verifier!RecordFailure(r) PROVE UpgradesSame
  BY <1>0, <1>6 DEF Verifier!RecordFailure, UpgradesSame
<1>7. ASSUME NEW p, Verifier!Accept(p) PROVE UpgradesSame
  BY <1>0, <1>7 DEF Verifier!Accept, UpgradesSame
<1>8. ASSUME NEW c, NEW p,
             \/ Verifier!VerifyProof(c, p) \/ Verifier!VerifyByType(c, p)
             \/ Verifier!VerifyProofById(c, p) \/ Verifier!VerifyById(c, p)
      PROVE  UpgradesSame
  <2>1. (\E r : Verifier!RecordFailure(r)) \/ Verifier!Accept(p)
    BY <1>8 DEF Verifier!VerifyProof, Verifier!VerifyByType, Verifier!VerifyProofById, Verifier!VerifyById
  <2>2. QED BY <1>6, <1>7, <2>1
<1>9. ASSUME NEW cfg, Verifier!ConfigureUpgradeGovernance(cfg)
      PROVE  UpgradeInv' /\ Verifier!CodeChangesEndorsed
  <2>1. /\ DOMAIN zk' = DOMAIN zk /\ zk'.config = cfg /\ Verifier!ValidConfig(cfg)
        /\ zk'.pending = zk.pending /\ zk'.endorsed = zk.endorsed /\ zk'.code = zk.code
    BY <1>0, <1>9 DEF Verifier!ConfigureUpgradeGovernance
  <2>2. QED BY <2>1 DEF UpgradeInv, UpgradeOpen, Verifier!CodeChangesEndorsed
<1>10. ASSUME NEW s \in Signers, NEW w \in Wasms, Verifier!ProposeUpgrade(s, w)
       PROVE  UpgradeInv' /\ Verifier!CodeChangesEndorsed
  <2> DEFINE open == Verifier!OpenFor(zk.pending, w)
             new == Verifier!Signed(zk.pending, s, w)
  <2>1. /\ DOMAIN zk' = DOMAIN zk /\ zk'.config = zk.config /\ zk'.code = zk.code
        /\ zk'.pending = new
        /\ zk'.endorsed = [zk.endorsed EXCEPT ![w] = @ \union {s}]
    BY <1>0, <1>10 DEF Verifier!ProposeUpgrade
  <2>2. /\ {"wasm", "approvals", "age"} \subseteq DOMAIN open
        /\ open.wasm = w /\ open.approvals \subseteq zk.endorsed[w]
    <3>1. CASE zk.pending.wasm = w
      <4>1. open = zk.pending
        BY <3>1 DEF Verifier!OpenFor
      <4>2. zk.pending = Verifier!NoPending => zk.pending.approvals = {}
        BY DEF Verifier!NoPending
      <4>3. QED BY <3>1, <4>1, <4>2 DEF UpgradeInv, UpgradeOpen
    <3>2. CASE zk.pending.wasm # w
      <4>1. open = [Verifier!NoPending EXCEPT !.wasm = w]
        BY <3>2 DEF Verifier!OpenFor
      <4>2. QED BY <4>1 DEF Verifier!NoPending
    <3>3. QED BY <3>1, <3>2
  <2>3. new = [open EXCEPT !.approvals = @ \union {s}]
    BY DEF Verifier!Signed
  <2> HIDE DEF open, new
  <2>4. /\ {"wasm", "approvals", "age"} \subseteq DOMAIN new
        /\ new.wasm = w /\ new.approvals = open.approvals \union {s}
    BY <2>2, <2>3
  <2>5. /\ zk'.endorsed = [x \in Wasms |-> zk'.endorsed[x]]
        /\ zk'.endorsed[w] = zk.endorsed[w] \union {s}
        /\ \A x \in Wasms : x # w => zk'.endorsed[x] = zk.endorsed[x]
    BY <2>1 DEF UpgradeInv
  <2>6. \A x \in Wasms : IsFiniteSet(zk'.endorsed[x])
    <3>1. IsFiniteSet(zk.endorsed[w]) /\ \A x \in Wasms : IsFiniteSet(zk.endorsed[x])
      BY DEF UpgradeInv
    <3>2. IsFiniteSet(zk.endorsed[w] \union {s})
      BY <3>1, FS_AddElement
    <3>3. QED BY <2>5, <3>1, <3>2
  <2>7. UpgradeOpen'
    BY <2>1, <2>2, <2>4, <2>5 DEF UpgradeOpen
  <2>8. UpgradeInv'
    BY <2>1, <2>4, <2>5, <2>6, <2>7 DEF UpgradeInv
  <2>9. QED BY <2>1, <2>8 DEF Verifier!CodeChangesEndorsed
<1>11. CASE Verifier!ExecuteUpgrade
  <2> DEFINE w == zk.pending.wasm
  <2>1. /\ zk.config # Verifier!NoConfig /\ zk.pending # Verifier!NoPending
        /\ Verifier!Cardinality(zk.pending.approvals) >= zk.config.threshold
    BY <1>11 DEF Verifier!ExecuteUpgrade, Verifier!CanExecute
  <2>2. /\ DOMAIN zk' = DOMAIN zk /\ zk'.config = zk.config /\ zk'.code = w
        /\ zk'.pending = Verifier!NoPending
        /\ zk'.endorsed = [zk.endorsed EXCEPT ![w] = {}]
    BY <1>0, <1>11 DEF Verifier!ExecuteUpgrade
  <2>3. /\ w \in Wasms /\ zk.pending.approvals \subseteq zk.endorsed[w]
        /\ IsFiniteSet(zk.endorsed[w]) /\ Verifier!ValidConfig(zk.config)
    BY <2>1 DEF UpgradeInv, UpgradeOpen
  <2> HIDE DEF w
  <2>4. Cardinality(zk.pending.approvals) <= Cardinality(zk.endorsed[w])
    BY <2>3, FS_Subset
  <2>5. PICK t \in Int : t = zk.config.threshold /\ t > 0
    BY <2>3 DEF Verifier!ValidConfig
  <2>6. PICK a \in Nat, b \in Nat : a = Cardinality(zk.pending.approvals) /\ b = Cardinality(zk.endorsed[w])
    BY <2>3, FS_Subset, FS_CardinalityType
  <2>7. Verifier!Cardinality(zk.endorsed[w]) >= zk.config.threshold /\ zk.config.threshold > 0
    <3>1. a >= t /\ a <= b
      BY <2>1, <2>4, <2>5, <2>6, VerifierCardinality
    <3>2. QED BY <2>5, <2>6, <3>1, VerifierCardinality
  <2>8. Verifier!CodeChangesEndorsed
    BY <2>2, <2>7 DEF Verifier!CodeChangesEndorsed
  <2>9. UpgradeInv'
    <3>1. /\ zk'.endorsed = [x \in Wasms |-> zk'.endorsed[x]]
          /\ \A x \in Wasms : zk'.endorsed[x] = IF x = w THEN {} ELSE zk.endorsed[x]
      BY <2>2 DEF UpgradeInv
    <3>2. \A x \in Wasms : IsFiniteSet(zk'.endorsed[x])
      BY <3>1, FS_EmptySet DEF UpgradeInv
    <3>3. {"wasm", "approvals", "age"} \subseteq DOMAIN zk'.pending
      BY <2>2 DEF Verifier!NoPending
    <3>4. UpgradeOpen'
      BY <2>2 DEF UpgradeOpen
    <3>5. QED BY <2>2, <3>1, <3>2, <3>3, <3>4 DEF UpgradeInv
  <2>10. QED BY <2>8, <2>9
<1>12. CASE Verifier!Tick
  <2> DEFINE new == Verifier!Older(zk.pending, MaxAge)
  <2>1. /\ DOMAIN zk' = DOMAIN zk /\ zk'.config = zk.config /\ zk'.code = zk.code
        /\ zk'.endorsed = zk.endorsed /\ zk'.pending = new /\ zk.pending # Verifier!NoPending
    BY <1>0, <1>12 DEF Verifier!Tick
  <2>2. /\ {"wasm", "approvals", "age"} \subseteq DOMAIN new
        /\ new.wasm = zk.pending.wasm /\ new.approvals = zk.pending.approvals
    BY DEF UpgradeInv, Verifier!Older
  <2> HIDE DEF new
  <2>3. UpgradeOpen'
    BY <2>1, <2>2 DEF UpgradeInv, UpgradeOpen
  <2>4. UpgradeInv'
    BY <2>1, <2>2, <2>3 DEF UpgradeInv
  <2>5. QED BY <2>1, <2>4 DEF Verifier!CodeChangesEndorsed
<1>13. QED
  BY <1>1, <1>2, <1>3, <1>4, <1>5, <1>8, <1>9, <1>10, <1>11, <1>12, UpgradesSameKeep
     DEF Verifier!Next, Verifier!DeprecateVk

(* The verifier's code changes only to code that as many different signers as the
   threshold of that moment asks have proposed (propose_upgrade, execute_upgrade),
   whatever the admin configures while the proposal waits. *)
THEOREM CodeAlwaysEndorsed == Verifier!Spec => [][Verifier!CodeChangesEndorsed]_zk
<1>1. Verifier!Init => UpgradeInv
  BY UpgradeStarts
<1>2. UpgradeInv /\ [Verifier!Next]_zk => UpgradeInv' /\ Verifier!CodeChangesEndorsed
  BY UpgradesKept
<1>3. QED
  BY <1>1, <1>2, PTL DEF Verifier!Spec

-----------------------------------------------------------------------------
(* Roles and calls made under them. *)
Auth == INSTANCE AuthManager

AuthCardinality(S) == Auth!Cardinality(S) = Cardinality(S)

LEMMA AuthCounts == \A S : AuthCardinality(S)
BY DEF AuthCardinality, Auth!Cardinality, Cardinality, Auth!IsFiniteSet, IsFiniteSet

(* The approvals on an action are by different admins. *)
ActionInOrder(p, admins) ==
  /\ {"approvals", "left", "executed"} \subseteq DOMAIN p
  /\ p.approvals \in Seq(Accounts)
  /\ Auth!Approvers(p) \subseteq admins
  /\ IsFiniteSet(Auth!Approvers(p)) /\ Cardinality(Auth!Approvers(p)) = Len(p.approvals)

AuthInv ==
  /\ {"admins", "threshold", "paused", "role", "roles", "direct", "calls", "proposal"} \subseteq DOMAIN auth
  /\ auth.proposal = [id \in 1 .. Len(auth.proposal) |-> auth.proposal[id]] /\ Len(auth.proposal) \in Nat
  /\ \A id \in 1 .. Len(auth.proposal) : ActionInOrder(auth.proposal[id], auth.admins)

LEMMA AuthStarts == ASSUME Auth!Init PROVE AuthInv
<1>1. auth.proposal = << >> /\ Len(auth.proposal) = 0
  BY DEF Auth!Init
<1>2. auth.proposal = [id \in 1 .. 0 |-> auth.proposal[id]]
  BY <1>1
<1>3. QED BY <1>1, <1>2 DEF Auth!Init, AuthInv

(* A step that neither proposes, approves nor executes, and keeps the admins. *)
LEMMA ActionsSame ==
  ASSUME AuthInv, DOMAIN auth' = DOMAIN auth, auth'.proposal = auth.proposal, auth.admins \subseteq auth'.admins
  PROVE  AuthInv' /\ Auth!ExecutedWithConsent
<1>1. \A id \in 1 .. Len(auth.proposal) : ActionInOrder(auth.proposal[id], auth'.admins)
  BY DEF AuthInv, ActionInOrder
<1>2. AuthInv'
  BY <1>1 DEF AuthInv
<1>3. QED BY <1>2 DEF Auth!ExecutedWithConsent

(* One approval more. *)
LEMMA OneMoreApproval ==
  ASSUME NEW admins, NEW p, ActionInOrder(p, admins), NEW a \in Accounts, a \in admins, a \notin Auth!Approvers(p)
  PROVE  ActionInOrder([p EXCEPT !.approvals = Append(@, a)], admins)
<1> DEFINE s == Append(p.approvals, a)
           q == [p EXCEPT !.approvals = s]
<1>1. /\ p.approvals \in Seq(Accounts) /\ {"approvals", "left", "executed"} \subseteq DOMAIN p
      /\ Auth!Approvers(p) \subseteq admins
      /\ IsFiniteSet(Auth!Approvers(p)) /\ Cardinality(Auth!Approvers(p)) = Len(p.approvals)
  BY DEF ActionInOrder
<1>2. /\ s \in Seq(Accounts) /\ Len(s) = Len(p.approvals) + 1 /\ s[Len(p.approvals) + 1] = a
      /\ \A i \in 1 .. Len(p.approvals) : s[i] = p.approvals[i]
      /\ DOMAIN s = 1 .. (Len(p.approvals) + 1) /\ DOMAIN p.approvals = 1 .. Len(p.approvals)
      /\ Len(p.approvals) \in Nat
  BY <1>1
<1> HIDE DEF s
<1>3. {"approvals", "left", "executed"} \subseteq DOMAIN q /\ q.approvals = s
  BY <1>1
<1> HIDE DEF q
<1>4. Auth!Approvers(q) = Auth!Approvers(p) \union {a}
  <2>1. Auth!Approvers(q) = {s[i] : i \in 1 .. (Len(p.approvals) + 1)}
    BY <1>2, <1>3 DEF Auth!Approvers
  <2>2. Auth!Approvers(p) = {p.approvals[i] : i \in 1 .. Len(p.approvals)}
    BY <1>2 DEF Auth!Approvers
  <2>3. \A i \in 1 .. (Len(p.approvals) + 1) : i \in 1 .. Len(p.approvals) \/ i = Len(p.approvals) + 1
    BY <1>2
  <2>4. 1 .. Len(p.approvals) \subseteq 1 .. (Len(p.approvals) + 1) /\ Len(p.approvals) + 1 \in 1 .. (Len(p.approvals) + 1)
    BY <1>2
  <2>5. ASSUME NEW x \in Auth!Approvers(q) PROVE x \in Auth!Approvers(p) \union {a}
    BY <1>2, <2>1, <2>2, <2>3, <2>5
  <2>6. ASSUME NEW x \in Auth!Approvers(p) PROVE x \in Auth!Approvers(q)
    BY <1>2, <2>1, <2>2, <2>4, <2>6
  <2>7. a \in Auth!Approvers(q)
    BY <1>2, <2>1, <2>4
  <2>8. QED BY <2>5, <2>6, <2>7
<1>5. /\ IsFiniteSet(Auth!Approvers(p) \union {a})
      /\ Cardinality(Auth!Approvers(p) \union {a}) = Cardinality(Auth!Approvers(p)) + 1
  BY <1>1, FS_AddElement
<1>6. ActionInOrder(q, admins)
  BY <1>1, <1>2, <1>3, <1>4, <1>5 DEF ActionInOrder
<1>7. QED BY <1>6 DEF q, s

LEMMA OneApproval ==
  ASSUME NEW admins, NEW a \in Accounts, a \in admins, NEW d
  PROVE  ActionInOrder([approvals |-> <<a>>, left |-> d, executed |-> FALSE], admins)
<1> DEFINE p == [approvals |-> <<a>>, left |-> d, executed |-> FALSE]
<1>1. p.approvals = <<a>> /\ {"approvals", "left", "executed"} \subseteq DOMAIN p
  OBVIOUS
<1> HIDE DEF p
<1>2. Auth!Approvers(p) = {a}
  BY <1>1 DEF Auth!Approvers
<1>3. IsFiniteSet({a}) /\ Cardinality({a}) = 1
  BY FS_Singleton
<1>4. Len(<<a>>) = 1 /\ <<a>> \in Seq(Accounts)
  OBVIOUS
<1>5. ActionInOrder(p, admins)
  BY <1>1, <1>2, <1>3, <1>4 DEF ActionInOrder
<1>6. QED BY <1>5 DEF p

(* An action replaced by one that is in order. *)
LEMMA ActionPut ==
  ASSUME AuthInv, NEW id \in 1 .. Len(auth.proposal), NEW p, ActionInOrder(p, auth.admins),
         DOMAIN auth' = DOMAIN auth, auth'.admins = auth.admins,
         auth'.proposal = [auth.proposal EXCEPT ![id] = p]
  PROVE  AuthInv'
<1>1. /\ Len(auth.proposal) \in Nat /\ DOMAIN auth.proposal = 1 .. Len(auth.proposal)
  BY DEF AuthInv
<1>2. DOMAIN auth'.proposal = 1 .. Len(auth.proposal)
  BY <1>1
<1>3. Len(auth'.proposal) = Len(auth.proposal)
  BY <1>1, <1>2
<1>4. \A i \in 1 .. Len(auth.proposal) : auth'.proposal[i] = IF i = id THEN p ELSE auth.proposal[i]
  BY <1>1
<1>5. auth'.proposal = [i \in 1 .. Len(auth'.proposal) |-> auth'.proposal[i]]
  BY <1>1, <1>3
<1>6. \A i \in 1 .. Len(auth.proposal) : ActionInOrder(auth'.proposal[i], auth.admins)
  BY <1>4 DEF AuthInv
<1>7. QED BY <1>1, <1>3, <1>5, <1>6 DEF AuthInv

LEMMA AuthKept ==
  ASSUME AuthInv, [Auth!Next]_auth
  PROVE  AuthInv' /\ Auth!ExecutedWithConsent
<1>0. {"admins", "threshold", "paused", "role", "roles", "direct", "calls", "proposal"} \subseteq DOMAIN auth
  BY DEF AuthInv
<1>1. CASE UNCHANGED auth
  BY <1>1, ActionsSame
<1>2. ASSUME NEW a, NEW r, NEW ps, Auth!DefineRole(a, r, ps) PROVE AuthInv' /\ Auth!ExecutedWithConsent
  BY <1>0, <1>2, ActionsSame DEF Auth!DefineRole
<1>3. ASSUME NEW a, NEW u, NEW r, Auth!GrantRole(a, u, r) \/ Auth!RevokeRole(a, u, r)
      PROVE  AuthInv' /\ Auth!ExecutedWithConsent
  BY <1>0, <1>3, ActionsSame DEF Auth!GrantRole, Auth!RevokeRole
<1>4. ASSUME NEW a, NEW u, NEW p, Auth!GrantPermission(a, u, p) \/ Auth!RevokePermission(a, u, p)
      PROVE  AuthInv' /\ Auth!ExecutedWithConsent
  BY <1>0, <1>4, ActionsSame DEF Auth!GrantPermission, Auth!RevokePermission
<1>5. ASSUME NEW a, NEW u, Auth!AddMultisigAdmin(a, u) PROVE AuthInv' /\ Auth!ExecutedWithConsent
  BY <1>0, <1>5, ActionsSame DEF Auth!AddMultisigAdmin
<1>6. ASSUME NEW a, NEW n, Auth!SetThreshold(a, n) PROVE AuthInv' /\ Auth!ExecutedWithConsent
  BY <1>0, <1>6, ActionsSame DEF Auth!SetThreshold
<1>7. ASSUME NEW a, NEW from, NEW to, NEW yes, Auth!AuthorizeContractCall(a, from, to, yes)
      PROVE  AuthInv' /\ Auth!ExecutedWithConsent
  BY <1>0, <1>7, ActionsSame DEF Auth!AuthorizeContractCall
<1>8. ASSUME NEW a, NEW b, Auth!SetPaused(a, b) PROVE AuthInv' /\ Auth!ExecutedWithConsent
  BY <1>0, <1>8, ActionsSame DEF Auth!SetPaused
<1>9. ASSUME NEW a \in Accounts, NEW d \in Delays, Auth!ProposeAction(a, d)
      PROVE  AuthInv' /\ Auth!ExecutedWithConsent
  <2> DEFINE p == [approvals |-> <<a>>, left |-> d, executed |-> FALSE]
             n == Len(auth.proposal)
             new == Append(auth.proposal, p)
  <2>1. a \in auth.admins
    BY <1>9 DEF Auth!ProposeAction, Auth!May, Auth!IsAdmin
  <2>2. /\ DOMAIN auth' = DOMAIN auth /\ auth'.admins = auth.admins /\ auth'.proposal = new
    BY <1>0, <1>9 DEF Auth!ProposeAction
  <2>3. ActionInOrder(p, auth.admins)
    BY <2>1, OneApproval
  <2> HIDE DEF p
  <2>4. n \in Nat /\ auth.proposal = [i \in 1 .. n |-> auth.proposal[i]]
    BY DEF AuthInv
  <2> DEFINE S == {auth.proposal[i] : i \in 1 .. n} \union {p}
  <2>5. auth.proposal \in Seq(S)
    BY <2>4
  <2>6. /\ Len(new) = n + 1 /\ DOMAIN new = 1 .. (n + 1) /\ new[n + 1] = p
        /\ \A i \in 1 .. n : new[i] = auth.proposal[i]
    <3> HIDE DEF S
    <3>1. QED BY <2>5
  <2>7. new = [i \in 1 .. (n + 1) |-> new[i]]
    <3>1. new \in Seq(S)
      BY <2>5
    <3> HIDE DEF S
    <3>2. QED BY <2>6, <3>1
  <2> HIDE DEF new, S
  <2>8. \A i \in 1 .. (n + 1) : i \in 1 .. n \/ i = n + 1
    BY <2>4
  <2>9. \A i \in 1 .. (n + 1) : ActionInOrder(new[i], auth.admins)
    BY <2>3, <2>6, <2>8 DEF AuthInv
  <2>10. AuthInv'
    BY <2>2, <2>4, <2>6, <2>7, <2>9 DEF AuthInv
  <2>11. Auth!ExecutedWithConsent
    BY <2>2, <2>4, <2>6 DEF Auth!ExecutedWithConsent
  <2>12. QED BY <2>10, <2>11
<1>10. ASSUME NEW a \in Accounts, NEW id \in DOMAIN auth.proposal, Auth!ApproveAction(a, id)
       PROVE  AuthInv' /\ Auth!ExecutedWithConsent
  <2> DEFINE p == auth.proposal[id]
             q == [p EXCEPT !.approvals = Append(@, a)]
  <2>1. a \in auth.admins /\ a \notin Auth!Approvers(p)
    BY <1>10 DEF Auth!ApproveAction, Auth!May, Auth!IsAdmin
  <2>2. DOMAIN auth.proposal = 1 .. Len(auth.proposal) /\ id \in 1 .. Len(auth.proposal)
    BY <1>10 DEF AuthInv
  <2>3. ActionInOrder(p, auth.admins)
    BY <2>2 DEF AuthInv
  <2>4. /\ DOMAIN auth' = DOMAIN auth /\ auth'.admins = auth.admins
        /\ auth'.proposal = [auth.proposal EXCEPT ![id] = q]
    BY <1>0, <1>10 DEF Auth!ApproveAction
  <2>5. q.executed = p.executed
    BY <2>3 DEF ActionInOrder
  <2> HIDE DEF p
  <2>6. ActionInOrder(q, auth.admins)
    BY <2>1, <2>3, OneMoreApproval
  <2> HIDE DEF q
  <2>7. AuthInv'
    BY <2>2, <2>4, <2>6, ActionPut
  <2>8. Auth!ExecutedWithConsent
    BY <2>4, <2>5 DEF Auth!ExecutedWithConsent, p
  <2>9. QED BY <2>7, <2>8
<1>11. ASSUME NEW a \in Accounts, NEW id \in DOMAIN auth.proposal, Auth!ExecuteAction(a, id)
       PROVE  AuthInv' /\ Auth!ExecutedWithConsent
  <2> DEFINE p == auth.proposal[id]
             q == [p EXCEPT !.executed = TRUE]
  <2>1. ~auth.paused /\ p.left = 0 /\ Len(p.approvals) >= auth.threshold
    BY <1>11 DEF Auth!ExecuteAction, Auth!May
  <2>2. DOMAIN auth.proposal = 1 .. Len(auth.proposal) /\ id \in 1 .. Len(auth.proposal)
    BY <1>11 DEF AuthInv
  <2>3. ActionInOrder(p, auth.admins)
    BY <2>2 DEF AuthInv
  <2>4. /\ DOMAIN auth' = DOMAIN auth /\ auth'.admins = auth.admins
        /\ auth'.proposal = [auth.proposal EXCEPT ![id] = q]
    BY <1>0, <1>11 DEF Auth!ExecuteAction
  <2> HIDE DEF p
  <2>5. /\ {"approvals", "left", "executed"} \subseteq DOMAIN q /\ q.approvals = p.approvals
    BY <2>3 DEF ActionInOrder
  <2> HIDE DEF q
  <2>6. ActionInOrder(q, auth.admins)
    BY <2>3, <2>5 DEF ActionInOrder, Auth!Approvers
  <2>7. AuthInv'
    BY <2>2, <2>4, <2>6, ActionPut
  <2>8. Auth!Approvers(p) \intersect auth.admins = Auth!Approvers(p)
    BY <2>3 DEF ActionInOrder
  <2>9. Auth!Cardinality(Auth!Approvers(p) \intersect auth.admins) >= auth.threshold
    BY <2>1, <2>3, <2>8, AuthCounts DEF AuthCardinality, ActionInOrder
  <2>10. \A i \in DOMAIN auth.proposal : i # id => auth'.proposal[i] = auth.proposal[i]
    BY <2>4
  <2>11. Auth!ExecutedWithConsent
    BY <2>1, <2>9, <2>10 DEF Auth!ExecutedWithConsent, p
  <2>12. QED BY <2>7, <2>11
<1>12. CASE Auth!Tick
  <2> DEFINE aged(p) == [p EXCEPT !.left = IF p.left = 0 THEN 0 ELSE p.left - 1]
  <2>1. /\ DOMAIN auth' = DOMAIN auth /\ auth'.admins = auth.admins
        /\ auth'.proposal = [id \in DOMAIN auth.proposal |-> aged(auth.proposal[id])]
    BY <1>0, <1>12 DEF Auth!Tick
  <2>2. DOMAIN auth.proposal = 1 .. Len(auth.proposal) /\ Len(auth.proposal) \in Nat
    BY DEF AuthInv
  <2>3. ASSUME NEW p, ActionInOrder(p, auth.admins)
        PROVE  /\ ActionInOrder(aged(p), auth.admins) /\ aged(p).executed = p.executed
    <3>1. /\ {"approvals", "left", "executed"} \subseteq DOMAIN aged(p) /\ aged(p).approvals = p.approvals
          /\ aged(p).executed = p.executed
      BY <2>3 DEF ActionInOrder
    <3> HIDE DEF aged
    <3>2. QED BY <2>3, <3>1 DEF ActionInOrder, Auth!Approvers
  <2> HIDE DEF aged
  <2>4. /\ DOMAIN auth'.proposal = 1 .. Len(auth.proposal)
        /\ auth'.proposal = [id \in 1 .. Len(auth.proposal) |-> auth'.proposal[id]]
        /\ \A id \in 1 .. Len(auth.proposal) : auth'.proposal[id] = aged(auth.proposal[id])
    BY <2>1, <2>2
  <2>5. Len(auth'.proposal) = Len(auth.proposal)
    BY <2>2, <2>4
  <2>6. \A id \in 1 .. Len(auth.proposal) : ActionInOrder(auth'.proposal[id], auth.admins)
    BY <2>3, <2>4 DEF AuthInv
  <2>7. AuthInv'
    BY <2>1, <2>2, <2>4, <2>5, <2>6 DEF AuthInv
  <2>8. Auth!ExecutedWithConsent
    BY <2>2, <2>3, <2>4 DEF AuthInv, Auth!ExecutedWithConsent
  <2>9. QED BY <2>7, <2>8
<1>13. QED
  BY <1>1, <1>2, <1>3, <1>4, <1>5, <1>6, <1>7, <1>8, <1>9, <1>10, <1>11, <1>12 DEF Auth!Next

(* An action that several admins must approve is executed with the approval of as
   many different admins as the threshold of that moment asks, after its timelock
   (propose_action, approve_action, execute_action), for any accounts and roles. *)
THEOREM ActionsHadConsent == Auth!Spec => [][Auth!ExecutedWithConsent]_auth
<1>1. Auth!Init => AuthInv
  BY AuthStarts
<1>2. AuthInv /\ [Auth!Next]_auth => AuthInv' /\ Auth!ExecutedWithConsent
  BY AuthKept
<1>3. QED
  BY <1>1, <1>2, PTL DEF Auth!Spec

-----------------------------------------------------------------------------
(* The code of the tables. *)
Upgrades == INSTANCE TableUpgrades

(* What a revert may go back to is what the table's execute_upgrade installed before
   the code it would take back. *)
RecordTrue(t) ==
  /\ {"previous", "new", "age"} \subseteq DOMAIN upg.last[t]
  /\ upg.last[t].previous # "none" => upg.last[t].previous = upg.prior[t]
  /\ upg.last[t].new # "none" => upg.last[t].new = upg.latest[t]

RecordsTrue ==
  /\ {"code", "proposal", "last", "config", "pending", "prior", "latest"} \subseteq DOMAIN upg
  /\ upg.proposal = [t \in Tables |-> upg.proposal[t]]
  /\ upg.last = [t \in Tables |-> upg.last[t]]
  /\ upg.prior = [t \in Tables |-> upg.prior[t]]
  /\ upg.latest = [t \in Tables |-> upg.latest[t]]
  /\ \A t \in Tables : RecordTrue(t)

LEMMA RecordsStart == ASSUME Upgrades!Init PROVE RecordsTrue
BY DEF Upgrades!Init, Upgrades!NoRecord, RecordsTrue, RecordTrue

(* A step that leaves the records and what they are about alone. *)
LEMMA RecordsSame ==
  ASSUME RecordsTrue, DOMAIN upg' = DOMAIN upg, upg'.last = upg.last,
         upg'.proposal = [t \in Tables |-> upg'.proposal[t]],
         upg'.prior = upg.prior, upg'.latest = upg.latest
  PROVE  RecordsTrue' /\ Upgrades!RevertsOneStep
BY DEF RecordsTrue, RecordTrue, Upgrades!RevertsOneStep

LEMMA RecordsInstalled ==
  ASSUME RecordsTrue, NEW t \in Tables, Upgrades!ExecuteUpgrade(t), NEW record,
         record = [previous |-> upg.last[t].new, new |-> upg.proposal[t].wasm, age |-> 0]
  PROVE  RecordsTrue' /\ Upgrades!RevertsOneStep
<1>1. /\ DOMAIN upg' = DOMAIN upg
      /\ upg.proposal[t] # Upgrades!NoProposal
      /\ upg'.proposal = [upg.proposal EXCEPT ![t] = Upgrades!NoProposal]
      /\ upg'.last = [upg.last EXCEPT ![t] = record]
      /\ upg'.prior = [upg.prior EXCEPT ![t] = upg.latest[t]]
      /\ upg'.latest = [upg.latest EXCEPT ![t] = upg.proposal[t].wasm]
  BY DEF RecordsTrue, Upgrades!ExecuteUpgrade
<1>2. /\ {"previous", "new", "age"} \subseteq DOMAIN record
      /\ record.previous = upg.last[t].new /\ record.new = upg.proposal[t].wasm
  OBVIOUS
<1>3. RecordsTrue'
  <2>1. RecordTrue(t)'
    BY <1>1, <1>2 DEF RecordsTrue, RecordTrue
  <2>2. ASSUME NEW s \in Tables, s # t PROVE RecordTrue(s)'
    BY <1>1, <2>2 DEF RecordsTrue, RecordTrue
  <2>3. QED BY <1>1, <2>1, <2>2 DEF RecordsTrue
<1>4. ASSUME NEW s \in Tables, upg'.latest[s] # upg.latest[s]
      PROVE  upg'.proposal[s] # upg.proposal[s]
  <2>1. s = t
    BY <1>1, <1>4 DEF RecordsTrue
  <2>2. DOMAIN upg.proposal = Tables
    BY DEF RecordsTrue
  <2>3. QED BY <1>1, <2>1, <2>2
<1>5. QED BY <1>3, <1>4 DEF Upgrades!RevertsOneStep

LEMMA RecordsReverted ==
  ASSUME RecordsTrue, NEW t \in Tables, Upgrades!RevertLastUpgrade(t)
  PROVE  RecordsTrue' /\ Upgrades!RevertsOneStep
<1>1. /\ DOMAIN upg' = DOMAIN upg
      /\ upg.last[t].previous # "none" /\ upg.last[t].age <= Window
      /\ upg'.code = upg.last[t].previous
      /\ upg'.last = [upg.last EXCEPT ![t] = Upgrades!NoRecord]
      /\ upg'.prior = upg.prior /\ upg'.proposal = upg.proposal
      /\ upg'.latest = [upg.latest EXCEPT ![t] = upg.prior[t]]
  BY DEF RecordsTrue, Upgrades!RevertLastUpgrade
<1>2. RecordsTrue'
  <2>1. RecordTrue(t)'
    BY <1>1 DEF RecordsTrue, RecordTrue, Upgrades!NoRecord
  <2>2. ASSUME NEW s \in Tables, s # t PROVE RecordTrue(s)'
    BY <1>1, <2>2 DEF RecordsTrue, RecordTrue
  <2>3. QED BY <1>1, <2>1, <2>2 DEF RecordsTrue
<1>3. Upgrades!RevertsOneStep
  BY <1>1 DEF RecordsTrue, RecordTrue, Upgrades!RevertsOneStep
<1>4. QED BY <1>2, <1>3

LEMMA RecordsAged ==
  ASSUME RecordsTrue, Upgrades!Tick
  PROVE  RecordsTrue' /\ Upgrades!RevertsOneStep
<1> DEFINE sooner(p) == IF p.left = 0 THEN p ELSE [p EXCEPT !.left = @ - 1]
           later(r) == IF r = Upgrades!NoRecord \/ r.age > Window THEN r ELSE [r EXCEPT !.age = @ + 1]
<1>1. /\ DOMAIN upg' = DOMAIN upg
      /\ upg'.proposal = [t \in Tables |-> sooner(upg.proposal[t])]
      /\ upg'.last = [t \in Tables |-> later(upg.last[t])]
      /\ upg'.prior = upg.prior /\ upg'.latest = upg.latest
  BY DEF RecordsTrue, Upgrades!Tick
<1>2. \A r : {"previous", "new", "age"} \subseteq DOMAIN r =>
        /\ {"previous", "new", "age"} \subseteq DOMAIN later(r)
        /\ later(r).previous = r.previous /\ later(r).new = r.new
  OBVIOUS
<1> HIDE DEF later, sooner
<1>3. QED BY <1>1, <1>2 DEF RecordsTrue, RecordTrue, Upgrades!RevertsOneStep

LEMMA RecordsKept ==
  ASSUME RecordsTrue, [Upgrades!Next]_upg
  PROVE  RecordsTrue' /\ Upgrades!RevertsOneStep
<1>0. /\ {"code", "proposal", "last", "config", "pending", "prior", "latest"} \subseteq DOMAIN upg
      /\ upg.proposal = [t \in Tables |-> upg.proposal[t]]
  BY DEF RecordsTrue
<1>1. CASE UNCHANGED upg
  BY <1>0, <1>1, RecordsSame
<1>2. ASSUME NEW t \in Tables, Upgrades!CancelUpgrade(t)
      PROVE  RecordsTrue' /\ Upgrades!RevertsOneStep
  BY <1>0, <1>2, RecordsSame DEF Upgrades!CancelUpgrade
<1>3. ASSUME NEW t \in Tables, Upgrades!ExecuteUpgrade(t)
      PROVE  RecordsTrue' /\ Upgrades!RevertsOneStep
  BY <1>3, RecordsInstalled
<1>4. ASSUME NEW t \in Tables, Upgrades!RevertLastUpgrade(t)
      PROVE  RecordsTrue' /\ Upgrades!RevertsOneStep
  BY <1>4, RecordsReverted
<1>5. ASSUME NEW t \in Tables, Upgrades!CancelPendingUpgrade(t)
      PROVE  RecordsTrue' /\ Upgrades!RevertsOneStep
  BY <1>0, <1>5, RecordsSame DEF Upgrades!CancelPendingUpgrade
<1>6. ASSUME NEW t \in Tables, Upgrades!ExecuteGovernanceUpgrade(t)
      PROVE  RecordsTrue' /\ Upgrades!RevertsOneStep
  BY <1>0, <1>6, RecordsSame DEF Upgrades!ExecuteGovernanceUpgrade
<1>7. ASSUME NEW t \in Tables, NEW cfg, Upgrades!ConfigureUpgradeGovernance(t, cfg)
      PROVE  RecordsTrue' /\ Upgrades!RevertsOneStep
  BY <1>0, <1>7, RecordsSame DEF Upgrades!ConfigureUpgradeGovernance
<1>8. ASSUME NEW t \in Tables, NEW w, Upgrades!Upgrade(t, w)
      PROVE  RecordsTrue' /\ Upgrades!RevertsOneStep
  BY <1>0, <1>6, <1>8, RecordsSame DEF Upgrades!Upgrade
<1>9. ASSUME NEW t \in Tables, NEW w, Upgrades!ProposeUpgrade(t, w, MinDelay)
      PROVE  RecordsTrue' /\ Upgrades!RevertsOneStep
  BY <1>0, <1>9, RecordsSame DEF Upgrades!ProposeUpgrade
<1>10. ASSUME NEW t \in Tables, NEW s, NEW w, Upgrades!ProposeGovernanceUpgrade(t, s, w)
       PROVE  RecordsTrue' /\ Upgrades!RevertsOneStep
  BY <1>0, <1>10, RecordsSame DEF Upgrades!ProposeGovernanceUpgrade
<1>11. CASE Upgrades!Tick
  BY <1>11, RecordsAged
<1>12. QED
  BY <1>1, <1>2, <1>3, <1>4, <1>5, <1>6, <1>7, <1>8, <1>9, <1>10, <1>11 DEF Upgrades!Next

(* ADR-006 of the poker table: revert_last_upgrade goes back one step, to what this
   table's execute_upgrade had installed before, and only while its window is open,
   however the upgrades of the tables, the admin's and the signers', are interleaved. *)
THEOREM RevertsGoBackOneStep == Upgrades!Spec => [][Upgrades!RevertsOneStep]_upg
<1>1. Upgrades!Init => RecordsTrue
  BY RecordsStart
<1>2. RecordsTrue /\ [Upgrades!Next]_upg => RecordsTrue' /\ Upgrades!RevertsOneStep
  BY RecordsKept
<1>3. QED
  BY <1>1, <1>2, PTL DEF Upgrades!Spec

-----------------------------------------------------------------------------
(* The table's desk: its clock, time banks and committed actions. *)
Desk == INSTANCE TableDesk

BankConfig == [initial : Nat, max : Nat, perHand : Nat, perLedger : Nat, extension : Nat,
               extensions : Nat]

(* What the admin configures is unsigned, and there are sequence numbers. *)
DeskConstants == /\ Timeout \in Nat /\ SeqSpace \in Nat \ {0}
                 /\ \A c \in Banks : c \in BankConfig

(* Everything that happens at the desk, in any order. *)
DeskSpec == Desk!Init /\ [][Desk!ClockNext \/ Desk!PromiseNext \/ Desk!HubNext]_desk

DeskFields(d) ==
  {"phase", "hand", "seats", "turn", "folded", "now", "deadline", "config", "bank", "counter",
   "commit", "session", "profile", "promo", "applied", "shown", "bought", "reported",
   "granted"} \subseteq DOMAIN d

(* e is d but for what happens in the betting: the phase, the turn, who has folded, the
   deadline, the actions that were counted and what the hub knows. *)
SameSeats(d, e) ==
  /\ DeskFields(e)
  /\ e.hand = d.hand /\ e.seats = d.seats /\ e.now = d.now /\ e.config = d.config
  /\ e.bank = d.bank /\ e.counter = d.counter /\ e.commit = d.commit /\ e.promo = d.promo
  /\ e.shown = d.shown /\ e.reported = d.reported /\ e.granted = d.granted

(* One more action of p is counted. *)
Counted(applied, p) == [applied EXCEPT ![p] = (@ + 1) % SeqSpace]

(* The banks after everybody seated has been given what a new hand brings. *)
Refilled ==
  [p \in Players |->
     IF ~Desk!Enabled(desk.config) \/ p \notin Desk!Range(desk.seats) THEN desk.bank[p]
     ELSE Desk!Replenished(IF desk.bank[p] = Desk!NoBank THEN Desk!FreshBank(desk.config)
                           ELSE desk.bank[p], desk.config)]

LEMMA HubHearsTheEnd ==
  ASSUME NEW d, DeskFields(d), NEW k, NEW e, e = Desk!Settle(d, k)
  PROVE  /\ SameSeats(d, e) /\ e.phase = "settlement" /\ e.deadline = d.deadline
         /\ e.applied = d.applied /\ e.bought = d.bought
BY DEF Desk!Settle, Desk!NotifyEnd, DeskFields, SameSeats

LEMMA BettingGoesOn ==
  ASSUME DeskFields(desk), NEW p, NEW kind, NEW e \in Desk!Acted(p, kind)
  PROVE  /\ SameSeats(desk, e) /\ e.phase \in {desk.phase, "reveal", "settlement"}
         /\ e.deadline \in {desk.deadline, desk.now + Timeout, 0}
         /\ e.applied = Counted(desk.applied, p) /\ e.bought = 0
<1> DEFINE folded == IF kind = "fold" THEN desk.folded \cup {p} ELSE desk.folded
           d == [desk EXCEPT !.folded = folded, !.applied[p] = (@ + 1) % SeqSpace, !.bought = 0]
           k == CHOOSE j \in Desk!StillIn(d) : TRUE
           turn == Desk!NextAfter(d, d.turn)
<1>1. \/ e = Desk!Settle(d, k)
      \/ e = [d EXCEPT !.turn = turn, !.deadline = desk.now + Timeout]
      \/ e = [d EXCEPT !.phase = "reveal", !.deadline = 0]
  BY DEF Desk!Acted
<1>2. /\ SameSeats(desk, d) /\ d.phase = desk.phase /\ d.deadline = desk.deadline
      /\ d.applied = Counted(desk.applied, p) /\ d.bought = 0
  <2> HIDE DEF folded
  <2>1. QED BY DEF DeskFields, SameSeats, Counted
<1> HIDE DEF d, k, turn
<1>3. CASE e = Desk!Settle(d, k)
  BY <1>2, <1>3, HubHearsTheEnd DEF SameSeats
<1>4. CASE e = [d EXCEPT !.turn = turn, !.deadline = desk.now + Timeout]
  BY <1>2, <1>4 DEF DeskFields, SameSeats
<1>5. CASE e = [d EXCEPT !.phase = "reveal", !.deadline = 0]
  BY <1>2, <1>5 DEF DeskFields, SameSeats
<1>6. QED BY <1>1, <1>3, <1>4, <1>5

LEMMA ClockFolds ==
  ASSUME DeskFields(desk), NEW deadline, deadline \in {desk.deadline, desk.now + Timeout},
         Desk!FoldByClock(deadline)
  PROVE  /\ SameSeats(desk, desk') /\ desk.phase = "betting"
         /\ desk'.phase \in {desk.phase, "settlement"}
         /\ desk'.deadline \in {desk.deadline, desk.now + Timeout}
         /\ desk'.applied = desk.applied /\ desk'.bought = 0
         /\ desk.deadline # 0 /\ desk.now >= desk.deadline
<1> DEFINE p == desk.seats[desk.turn]
           d == [desk EXCEPT !.folded = @ \cup {p}, !.bought = 0]
           k == CHOOSE j \in Desk!StillIn(d) : TRUE
           turn == Desk!NextAfter(d, d.turn)
<1>1. /\ \/ desk' = Desk!Settle(d, k)
         \/ desk' = [d EXCEPT !.turn = turn, !.deadline = deadline]
      /\ desk.phase = "betting" /\ desk.deadline # 0 /\ desk.now >= desk.deadline
  BY DEF Desk!FoldByClock
<1>2. /\ SameSeats(desk, d) /\ d.phase = desk.phase /\ d.deadline = desk.deadline
      /\ d.applied = desk.applied /\ d.bought = 0
  <2> HIDE DEF p
  <2>1. QED BY DEF DeskFields, SameSeats
<1> HIDE DEF d, k, turn
<1>3. CASE desk' = Desk!Settle(d, k)
  BY <1>1, <1>2, <1>3, HubHearsTheEnd DEF SameSeats
<1>4. CASE desk' = [d EXCEPT !.turn = turn, !.deadline = deadline]
  BY <1>1, <1>2, <1>4 DEF DeskFields, SameSeats
<1>5. QED BY <1>1, <1>3, <1>4

(* A hand starts: the hub is told, the banks of those seated are filled up. *)
LEMMA HubHearsTheStart ==
  ASSUME NEW d, DeskFields(d), NEW stacks, NEW e, e = Desk!NotifyStart(d, stacks)
  PROVE  /\ DeskFields(e)
         /\ e.phase = d.phase /\ e.hand = d.hand /\ e.seats = d.seats /\ e.now = d.now
         /\ e.deadline = d.deadline /\ e.bought = d.bought /\ e.config = d.config
         /\ e.bank = d.bank /\ e.counter = d.counter /\ e.applied = d.applied
         /\ e.commit = d.commit /\ e.shown = d.shown
BY DEF Desk!NotifyStart, DeskFields

LEMMA HandStarts ==
  ASSUME DeskFields(desk), NEW stacks, Desk!StartHand(stacks)
  PROVE  /\ DeskFields(desk') /\ Desk!Between /\ desk'.phase = "dealing"
         /\ desk'.hand = desk.hand + 1 /\ desk'.seats = desk.seats /\ desk'.now = desk.now
         /\ desk'.deadline = 0 /\ desk'.bought = 0 /\ desk'.config = desk.config
         /\ desk'.counter = desk.counter /\ desk'.applied = desk.applied
         /\ desk'.commit = [p \in Players |-> Desk!NoCommit] /\ desk'.shown = desk.shown
         /\ desk'.bank = Refilled
<1> DEFINE commit == [p \in Players |-> Desk!NoCommit]
           d == [desk EXCEPT !.hand = @ + 1, !.phase = "dealing", !.folded = {}, !.turn = 1,
                             !.deadline = 0, !.bought = 0, !.commit = commit]
           r == Desk!ReplenishAll(d)
<1>1. desk' = Desk!NotifyStart(r, stacks) /\ Desk!Between
  BY DEF Desk!StartHand
<1>2. /\ DeskFields(d) /\ d.phase = "dealing" /\ d.hand = desk.hand + 1 /\ d.seats = desk.seats
      /\ d.now = desk.now /\ d.deadline = 0 /\ d.bought = 0 /\ d.config = desk.config
      /\ d.counter = desk.counter /\ d.applied = desk.applied /\ d.commit = commit
      /\ d.shown = desk.shown /\ d.bank = desk.bank
  <2> HIDE DEF commit
  <2>1. QED BY DEF DeskFields
<1> HIDE DEF d
<1>3. /\ DeskFields(r) /\ r.phase = d.phase /\ r.hand = d.hand /\ r.seats = d.seats
      /\ r.now = d.now /\ r.deadline = d.deadline /\ r.bought = d.bought /\ r.config = d.config
      /\ r.counter = d.counter /\ r.applied = d.applied /\ r.commit = d.commit
      /\ r.shown = d.shown
  BY <1>2 DEF Desk!ReplenishAll, DeskFields
<1>4. r.bank = [p \in Players |->
              IF ~Desk!Enabled(d.config) \/ p \notin Desk!Range(d.seats) THEN d.bank[p]
              ELSE Desk!Replenished(IF d.bank[p] = Desk!NoBank THEN Desk!FreshBank(d.config)
                                    ELSE d.bank[p], d.config)]
  BY <1>2 DEF Desk!ReplenishAll, DeskFields
<1> HIDE DEF r
<1>5. /\ DeskFields(desk') /\ desk'.phase = r.phase /\ desk'.hand = r.hand /\ desk'.seats = r.seats
      /\ desk'.now = r.now /\ desk'.deadline = r.deadline /\ desk'.bought = r.bought
      /\ desk'.config = r.config /\ desk'.bank = r.bank /\ desk'.counter = r.counter
      /\ desk'.applied = r.applied /\ desk'.commit = r.commit /\ desk'.shown = r.shown
  BY <1>1, <1>3, HubHearsTheStart
<1>6. desk'.bank = Refilled
  BY <1>2, <1>4, <1>5 DEF Refilled
<1>7. QED BY <1>1, <1>2, <1>3, <1>5, <1>6

-----------------------------------------------------------------------------
(* The clock and the sequence numbers. *)
ClockSound ==
  /\ desk.now \in Nat /\ desk.deadline \in Nat /\ desk.bought \in Nat
  /\ desk.bought <= desk.deadline

NumbersSound == desk.applied = desk.counter

DeskOrder == DeskFields(desk) /\ ClockSound /\ NumbersSound

(* The extensions a player buys are whole numbers of ledgers. *)
LEMMA ExtensionsNat == \A n \in Nat : Desk!ExtensionLedgers(n) \in Nat
BY DEF Desk!ExtensionLedgers, Desk!SecondsPerLedger

ConfigSound == desk.config \in BankConfig

LEMMA OrderStart == ASSUME Desk!Init PROVE DeskOrder /\ ConfigSound
BY DEF Desk!Init, Desk!NoConfig, BankConfig, DeskOrder, DeskFields, ClockSound, NumbersSound, ConfigSound

(* Who bought time is not folded before it has run. *)
LEMMA FoldsInTime ==
  ASSUME DeskOrder, Desk!ProcessTimeout \/ Desk!ForceFold
  PROVE  desk.now >= desk.bought
<1>1. \E deadline : deadline \in {desk.deadline, desk.now + Timeout} /\ Desk!FoldByClock(deadline)
  BY DEF Desk!ProcessTimeout, Desk!ForceFold
<1>2. desk.now >= desk.deadline
  BY <1>1, ClockFolds DEF DeskOrder
<1>3. QED BY <1>2 DEF DeskOrder, ClockSound

(* A step that leaves the clock and the numbers alone. *)
LEMMA OrderSame ==
  ASSUME DeskOrder, ConfigSound, DeskFields(desk'), desk'.config = desk.config,
         desk'.now = desk.now, desk'.deadline = desk.deadline,
         desk'.bought \in {desk.bought, 0}, desk'.applied = desk.applied,
         desk'.counter = desk.counter
  PROVE  DeskOrder' /\ ConfigSound'
BY DEF DeskOrder, ConfigSound, ClockSound, NumbersSound

LEMMA OrderActed ==
  ASSUME DeskConstants, DeskOrder, ConfigSound, NEW p, NEW kind, NEW seq, seq = Desk!NextSeq(p),
         NEW e \in Desk!Acted(p, kind), DeskFields(desk'),
         desk'.config = e.config, desk'.now = e.now, desk'.deadline = e.deadline,
         desk'.bought = e.bought, desk'.applied = e.applied,
         desk'.counter = [e.counter EXCEPT ![p] = seq]
  PROVE  DeskOrder' /\ ConfigSound'
<1>0. DeskFields(desk)
  BY DEF DeskOrder
<1>1. /\ SameSeats(desk, e) /\ e.deadline \in {desk.deadline, desk.now + Timeout, 0}
      /\ e.applied = Counted(desk.applied, p) /\ e.bought = 0
  BY <1>0, BettingGoesOn
<1>2. ClockSound'
  BY <1>1 DEF DeskConstants, DeskOrder, ClockSound, SameSeats
<1>3. NumbersSound'
  BY <1>1 DEF DeskOrder, NumbersSound, SameSeats, Desk!NextSeq, Counted
<1>4. QED BY <1>1, <1>2, <1>3 DEF DeskOrder, ConfigSound, SameSeats

LEMMA OrderKept ==
  ASSUME DeskConstants, DeskOrder, ConfigSound,
         [Desk!ClockNext \/ Desk!PromiseNext \/ Desk!HubNext]_desk
  PROVE  DeskOrder' /\ ConfigSound'
<1>0. DeskFields(desk)
  BY DEF DeskOrder
<1>1. CASE UNCHANGED desk
  BY <1>0, <1>1, OrderSame
<1>2. ASSUME NEW p, Desk!Join(p) \/ Desk!Leave(p) PROVE DeskOrder' /\ ConfigSound'
  <2>1. /\ DOMAIN desk' = DOMAIN desk /\ desk'.config = desk.config /\ desk'.now = desk.now
        /\ desk'.deadline = desk.deadline /\ desk'.bought = desk.bought
        /\ desk'.applied = desk.applied /\ desk'.counter = desk.counter
    BY <1>0, <1>2 DEF Desk!Join, Desk!Leave, DeskFields
  <2>2. QED BY <1>0, <2>1, OrderSame DEF DeskFields
<1>3. ASSUME NEW stacks, Desk!StartHand(stacks) PROVE DeskOrder' /\ ConfigSound'
  <2>1. /\ DeskFields(desk') /\ desk'.now = desk.now /\ desk'.deadline = 0 /\ desk'.bought = 0
        /\ desk'.config = desk.config /\ desk'.counter = desk.counter
        /\ desk'.applied = desk.applied
    BY <1>0, <1>3, HandStarts
  <2>2. QED BY <2>1 DEF DeskOrder, ConfigSound, ClockSound, NumbersSound
<1>4. ASSUME NEW k, Desk!CommitDeal(k) PROVE DeskOrder' /\ ConfigSound'
  <2>1. /\ DOMAIN desk' = DOMAIN desk /\ desk'.config = desk.config /\ desk'.now = desk.now
        /\ desk'.deadline = desk.now + Timeout /\ desk'.bought = 0
        /\ desk'.applied = desk.applied /\ desk'.counter = desk.counter
    BY <1>0, <1>4 DEF Desk!CommitDeal, DeskFields
  <2>2. QED
    BY <1>0, <2>1 DEF DeskConstants, DeskOrder, ConfigSound, ClockSound, NumbersSound, DeskFields
<1>5. ASSUME NEW k, Desk!RevealBoard(k) PROVE DeskOrder' /\ ConfigSound'
  <2>1. /\ DOMAIN desk' = DOMAIN desk /\ desk'.config = desk.config /\ desk'.now = desk.now
        /\ desk'.deadline = desk.deadline /\ desk'.bought = 0
        /\ desk'.applied = desk.applied /\ desk'.counter = desk.counter
    BY <1>0, <1>5 DEF Desk!RevealBoard, DeskFields
  <2>2. QED BY <1>0, <2>1, OrderSame DEF DeskFields
<1>6. ASSUME NEW k, Desk!SubmitShowdown(k) PROVE DeskOrder' /\ ConfigSound'
  BY <1>0, <1>6, HubHearsTheEnd, OrderSame DEF Desk!SubmitShowdown, SameSeats
<1>7. CASE Desk!CancelHand
  <2>1. /\ DOMAIN desk' = DOMAIN desk /\ desk'.config = desk.config /\ desk'.now = desk.now
        /\ desk'.deadline = desk.deadline /\ desk'.bought = desk.bought
        /\ desk'.applied = desk.applied /\ desk'.counter = desk.counter
    BY <1>0, <1>7 DEF Desk!CancelHand, DeskFields
  <2>2. QED BY <1>0, <2>1, OrderSame DEF DeskFields
<1>8. ASSUME NEW p, NEW seq, NEW kind, Desk!PlayerAction(p, seq, kind)
      PROVE  DeskOrder' /\ ConfigSound'
  <2>1. seq = Desk!NextSeq(p)
    BY <1>8 DEF Desk!PlayerAction
  <2>2. PICK e \in Desk!Acted(p, kind) : desk' = [e EXCEPT !.counter[p] = seq]
    BY <1>8 DEF Desk!PlayerAction
  <2>3. DeskFields(e)
    BY <1>0, BettingGoesOn DEF SameSeats
  <2>4. /\ DeskFields(desk') /\ desk'.config = e.config /\ desk'.now = e.now
        /\ desk'.deadline = e.deadline /\ desk'.bought = e.bought /\ desk'.applied = e.applied
        /\ desk'.counter = [e.counter EXCEPT ![p] = seq]
    BY <2>2, <2>3 DEF DeskFields
  <2>5. QED BY <2>1, <2>4, OrderActed
<1>9. ASSUME NEW config \in Banks, Desk!Configure(config) PROVE DeskOrder' /\ ConfigSound'
  <2>1. /\ DOMAIN desk' = DOMAIN desk /\ desk'.config = config /\ desk'.now = desk.now
        /\ desk'.deadline = desk.deadline /\ desk'.bought = desk.bought
        /\ desk'.applied = desk.applied /\ desk'.counter = desk.counter
    BY <1>0, <1>9 DEF Desk!Configure, DeskFields
  <2>2. config \in BankConfig
    BY DEF DeskConstants
  <2>3. QED
    BY <1>0, <2>1, <2>2 DEF DeskOrder, ConfigSound, ClockSound, NumbersSound, DeskFields
<1>10. ASSUME NEW p, Desk!UseTimeBank(p) PROVE DeskOrder' /\ ConfigSound'
  <2> DEFINE x == Desk!ExtensionLedgers(desk.config.extension)
  <2>1. x \in Nat
    <3>1. desk.config.extension \in Nat
      BY DEF ConfigSound, BankConfig
    <3>2. QED BY <3>1, ExtensionsNat
  <2>2. /\ DOMAIN desk' = DOMAIN desk /\ desk'.config = desk.config /\ desk'.now = desk.now
        /\ desk'.deadline = Desk!Later(desk.deadline, desk.now) + x
        /\ desk'.bought = Desk!Later(desk.bought, desk.now) + x
        /\ desk'.applied = desk.applied /\ desk'.counter = desk.counter
    BY <1>0, <1>10 DEF Desk!UseTimeBank, DeskFields
  <2> HIDE DEF x
  <2>3. ClockSound'
    BY <2>1, <2>2 DEF DeskOrder, ClockSound, Desk!Later
  <2>4. QED
    BY <1>0, <2>2, <2>3 DEF DeskOrder, ConfigSound, NumbersSound, DeskFields
<1>11. CASE Desk!ProcessTimeout \/ Desk!ForceFold
  <2>1. PICK deadline : /\ deadline \in {desk.deadline, desk.now + Timeout}
                        /\ Desk!FoldByClock(deadline)
    BY <1>11 DEF Desk!ProcessTimeout, Desk!ForceFold
  <2>2. /\ SameSeats(desk, desk') /\ desk'.deadline \in {desk.deadline, desk.now + Timeout}
        /\ desk'.applied = desk.applied /\ desk'.bought = 0
    BY <1>0, <2>1, ClockFolds
  <2>3. ClockSound'
    BY <2>2 DEF DeskConstants, DeskOrder, ClockSound, SameSeats
  <2>4. QED
    BY <2>2, <2>3 DEF DeskOrder, ConfigSound, NumbersSound, SameSeats
<1>12. CASE Desk!Tick
  <2>1. /\ DOMAIN desk' = DOMAIN desk /\ desk'.config = desk.config /\ desk'.now = desk.now + 1
        /\ desk'.deadline = desk.deadline /\ desk'.bought = desk.bought
        /\ desk'.applied = desk.applied /\ desk'.counter = desk.counter
    BY <1>0, <1>12 DEF Desk!Tick, DeskFields
  <2>2. QED BY <1>0, <2>1 DEF DeskOrder, ConfigSound, ClockSound, NumbersSound, DeskFields
<1>13. ASSUME NEW p, NEW kind, NEW amount, Desk!CommitAction(p, kind, amount)
       PROVE  DeskOrder' /\ ConfigSound'
  <2>1. /\ DOMAIN desk' = DOMAIN desk /\ desk'.config = desk.config /\ desk'.now = desk.now
        /\ desk'.deadline = desk.deadline /\ desk'.bought = desk.bought
        /\ desk'.applied = desk.applied /\ desk'.counter = desk.counter
    BY <1>0, <1>13 DEF Desk!CommitAction, DeskFields
  <2>2. QED BY <1>0, <2>1, OrderSame DEF DeskFields
<1>14. ASSUME NEW p, NEW seq, NEW kind, NEW amount, Desk!RevealAction(p, seq, kind, amount)
       PROVE  DeskOrder' /\ ConfigSound'
  <2> DEFINE shown == [did |-> <<kind, desk.hand>>, said |-> desk.commit[p].said]
  <2>1. seq = Desk!NextSeq(p)
    BY <1>14 DEF Desk!RevealAction
  <2>2. PICK e \in Desk!Acted(p, kind) :
          desk' = [e EXCEPT !.commit[p] = Desk!NoCommit, !.counter[p] = seq, !.shown = shown]
    BY <1>14 DEF Desk!RevealAction
  <2> HIDE DEF shown
  <2>3. DeskFields(e)
    BY <1>0, BettingGoesOn DEF SameSeats
  <2>4. /\ DeskFields(desk') /\ desk'.config = e.config /\ desk'.now = e.now
        /\ desk'.deadline = e.deadline /\ desk'.bought = e.bought /\ desk'.applied = e.applied
        /\ desk'.counter = [e.counter EXCEPT ![p] = seq]
    BY <2>2, <2>3 DEF DeskFields
  <2>5. QED BY <2>1, <2>4, OrderActed
<1>15. ASSUME NEW p, NEW g, NEW points,
              Desk!RecordCrossPromo(p, g, points) \/ Desk!ClaimCrossPromo(p, g)
       PROVE  DeskOrder' /\ ConfigSound'
  <2>1. /\ DOMAIN desk' = DOMAIN desk /\ desk'.config = desk.config /\ desk'.now = desk.now
        /\ desk'.deadline = desk.deadline /\ desk'.bought = desk.bought
        /\ desk'.applied = desk.applied /\ desk'.counter = desk.counter
    BY <1>0, <1>15 DEF Desk!RecordCrossPromo, Desk!ClaimCrossPromo, DeskFields
  <2>2. QED BY <1>0, <2>1, OrderSame DEF DeskFields
<1>16. QED
  BY <1>1, <1>2, <1>3, <1>4, <1>5, <1>6, <1>7, <1>8, <1>9, <1>10, <1>11, <1>12, <1>13, <1>14, <1>15
  DEF Desk!ClockNext, Desk!PromiseNext, Desk!HubNext, Desk!SeatsNext, Desk!HandsNext

(* claim_timeout and force_fold never fold a player before the extensions she bought
   from her time bank have run, also when the deadline is the one another player left. *)
THEOREM BoughtTimeRuns ==
  ASSUME DeskConstants
  PROVE  DeskSpec => [][Desk!BoughtTimeKept]_desk
<1>1. Desk!Init => DeskOrder /\ ConfigSound
  BY OrderStart
<1>2. DeskOrder /\ ConfigSound /\ [Desk!ClockNext \/ Desk!PromiseNext \/ Desk!HubNext]_desk
        => DeskOrder' /\ ConfigSound'
  BY OrderKept
<1>3. DeskOrder => Desk!BoughtTimeKept
  BY FoldsInTime DEF Desk!BoughtTimeKept
<1>4. QED
  BY <1>1, <1>2, <1>3, PTL DEF DeskSpec

-----------------------------------------------------------------------------
(* The time banks. *)
BankTrue(b, now) ==
  /\ {"remaining", "replenished", "used", "active"} \subseteq DOMAIN b
  /\ b.remaining \in Int /\ b.used \in Nat /\ b.replenished \in Nat /\ b.replenished <= now
  /\ b # Desk!NoBank => b.remaining >= 0

(* What is left in the bank and what was spent in the hand fit its size. *)
Within(b, c) ==
  /\ b.used <= c.extensions /\ b.remaining >= 0
  /\ b.remaining + b.used * c.extension <= c.max

BanksSound ==
  /\ desk.seats \in Seq(Players)
  /\ desk.bank = [p \in Players |-> desk.bank[p]]
  /\ \A p \in Players : BankTrue(desk.bank[p], desk.now)
  /\ Desk!BanksWithinMax

LEMMA BanksMeaning ==
  Desk!BanksWithinMax <=>
    (~Desk!Between /\ Desk!Enabled(desk.config) =>
       \A p \in Desk!Seated : Within(desk.bank[p], desk.config))
BY DEF Desk!BanksWithinMax, Within

LEMMA SeatedPlay == ASSUME desk.seats \in Seq(Players) PROVE Desk!Seated \subseteq Players
BY DEF Desk!Seated, Desk!Range

LEMMA BanksStart == ASSUME Desk!Init PROVE BanksSound
<1>1. /\ desk.phase = "waiting" /\ desk.seats = <<>> /\ desk.now = 1
      /\ desk.bank = [p \in Players |-> Desk!NoBank]
  BY DEF Desk!Init
<1>2. BankTrue(Desk!NoBank, 1)
  BY DEF BankTrue, Desk!NoBank
<1>3. Desk!Between /\ desk.seats \in Seq(Players)
  BY <1>1 DEF Desk!Between
<1>4. QED BY <1>1, <1>2, <1>3, BanksMeaning DEF BanksSound

LEMMA FreshSound ==
  ASSUME NEW c \in BankConfig, desk.now \in Nat
  PROVE  BankTrue(Desk!FreshBank(c), desk.now) /\ Desk!FreshBank(c) # Desk!NoBank
<1>1. c.initial \in Nat
  BY DEF BankConfig
<1> DEFINE f == Desk!FreshBank(c)
<1>2. /\ {"remaining", "replenished", "used", "active"} \subseteq DOMAIN f
      /\ f.remaining = c.initial /\ f.replenished = desk.now /\ f.used = 0
  BY DEF Desk!FreshBank, Desk!NoBank
<1>3. Desk!NoBank.remaining = 0 - 1
  BY DEF Desk!NoBank
<1> HIDE DEF f
<1>4. BankTrue(f, desk.now)
  BY <1>1, <1>2 DEF BankTrue
<1>5. f # Desk!NoBank
  BY <1>1, <1>2, <1>3
<1>6. QED BY <1>4, <1>5 DEF f

LEMMA LeastSound ==
  ASSUME NEW x \in Nat, NEW m \in Nat
  PROVE  Desk!Least(x, m) \in Nat /\ Desk!Least(x, m) <= m
BY DEF Desk!Least

LEMMA RefillSound ==
  ASSUME NEW c \in BankConfig, desk.now \in Nat, NEW b, BankTrue(b, desk.now), b # Desk!NoBank
  PROVE  LET r == Desk!Replenished(b, c) IN BankTrue(r, desk.now) /\ Within(r, c)
<1> DEFINE r1 == Desk!Least(b.remaining + c.perHand, c.max)
           extra == (desk.now - b.replenished) * c.perLedger
           r2 == Desk!Least(r1 + extra, c.max)
           r == Desk!Replenished(b, c)
<1>1. /\ c.max \in Nat /\ c.perHand \in Nat /\ c.perLedger \in Nat /\ c.extension \in Nat
      /\ c.extensions \in Nat
  BY DEF BankConfig
<1>2. b.remaining \in Nat /\ desk.now - b.replenished \in Nat
  BY DEF BankTrue
<1>3. extra \in Nat
  BY <1>1, <1>2
<1>4. r1 \in Nat
  <2>1. b.remaining + c.perHand \in Nat
    BY <1>1, <1>2
  <2>2. QED BY <1>1, <2>1, LeastSound
<1>5. /\ {"remaining", "replenished", "used", "active"} \subseteq DOMAIN r
      /\ r.remaining = r2 /\ r.replenished = desk.now /\ r.used = 0
  BY DEF Desk!Replenished
<1> HIDE DEF extra, r1
<1>6. r2 \in Nat /\ r2 <= c.max
  <2>1. r1 + extra \in Nat
    BY <1>3, <1>4
  <2>2. QED BY <1>1, <2>1, LeastSound
<1> HIDE DEF r, r2
<1>7. BankTrue(r, desk.now)
  BY <1>5, <1>6 DEF BankTrue
<1>8. Within(r, c)
  BY <1>1, <1>5, <1>6 DEF Within
<1>9. QED BY <1>7, <1>8 DEF r

(* A bank that was true stays so while the clock runs. *)
LEMMA BankLater ==
  ASSUME NEW b, NEW now \in Nat, NEW after \in Nat, after >= now, BankTrue(b, now)
  PROVE  BankTrue(b, after)
BY DEF BankTrue

(* A step that leaves the banks, the seats and the configuration alone, and begins no
   hand. *)
LEMMA BanksSame ==
  ASSUME BanksSound, desk.now \in Nat, desk'.now \in Nat, desk'.now >= desk.now,
         desk'.seats = desk.seats, desk'.bank = desk.bank, desk'.config = desk.config,
         Desk!Between => Desk!Between'
  PROVE  BanksSound'
<1>1. \A p \in Players : BankTrue(desk'.bank[p], desk'.now)
  BY BankLater DEF BanksSound
<1>2. Desk!Seated' = Desk!Seated
  BY DEF Desk!Seated
<1>3. Desk!BanksWithinMax'
  BY <1>2, BanksMeaning DEF BanksSound, Desk!BanksWithinMax
<1>4. QED BY <1>1, <1>3 DEF BanksSound

(* A step after which no hand is being played. *)
LEMMA BanksBetween ==
  ASSUME BanksSound, desk'.now = desk.now, desk'.seats \in Seq(Players),
         desk'.bank = [p \in Players |-> desk'.bank[p]],
         \A p \in Players : BankTrue(desk'.bank[p], desk.now), Desk!Between'
  PROVE  BanksSound'
BY DEF BanksSound, Desk!BanksWithinMax

LEMMA BanksRefilled ==
  ASSUME BanksSound, ConfigSound, desk.now \in Nat, desk'.now = desk.now,
         desk'.seats = desk.seats, desk'.config = desk.config, desk'.bank = Refilled
  PROVE  BanksSound'
<1> DEFINE c == desk.config
           Base(p) == IF desk.bank[p] = Desk!NoBank THEN Desk!FreshBank(c) ELSE desk.bank[p]
<1>1. desk'.bank = [p \in Players |->
        IF ~Desk!Enabled(c) \/ p \notin Desk!Seated THEN desk.bank[p]
        ELSE Desk!Replenished(Base(p), c)]
  BY DEF Refilled, Desk!Seated
<1>2. c \in BankConfig
  BY DEF ConfigSound
<1>3. ASSUME NEW p \in Players
      PROVE  BankTrue(Base(p), desk.now) /\ Base(p) # Desk!NoBank
  BY <1>2, FreshSound DEF BanksSound
<1> HIDE DEF Base, c
<1>4. ASSUME NEW p \in Players
      PROVE  /\ BankTrue(desk'.bank[p], desk.now)
             /\ Desk!Enabled(c) /\ p \in Desk!Seated => Within(desk'.bank[p], c)
  <2>1. CASE ~Desk!Enabled(c) \/ p \notin Desk!Seated
    BY <1>1, <2>1 DEF BanksSound
  <2>2. CASE Desk!Enabled(c) /\ p \in Desk!Seated
    <3>1. desk'.bank[p] = Desk!Replenished(Base(p), c)
      BY <1>1, <2>2
    <3>2. QED BY <1>2, <1>3, <3>1, RefillSound
  <2>3. QED BY <2>1, <2>2
<1>5. Desk!Seated' = Desk!Seated /\ Desk!Seated \subseteq Players
  BY SeatedPlay DEF Desk!Seated, BanksSound
<1>6. Desk!BanksWithinMax'
  <2>1. ASSUME Desk!Enabled(desk'.config), NEW p \in Desk!Seated'
        PROVE  Within(desk'.bank[p], desk'.config)
    BY <1>4, <1>5, <2>1 DEF c
  <2>2. QED BY <2>1 DEF Desk!BanksWithinMax, Within
<1>7. desk'.bank = [p \in Players |-> desk'.bank[p]]
  BY <1>1
<1>8. QED BY <1>4, <1>6, <1>7 DEF BanksSound

LEMMA BankUsed ==
  ASSUME BanksSound, ConfigSound, DeskFields(desk), desk.now \in Nat, NEW p \in Players,
         Desk!UseTimeBank(p)
  PROVE  BanksSound'
<1> DEFINE c == desk.config
           b == IF desk.bank[p] = Desk!NoBank THEN Desk!FreshBank(c) ELSE desk.bank[p]
           spent == [b EXCEPT !.remaining = @ - c.extension, !.used = @ + 1, !.active = c.extension]
<1>1. c \in BankConfig
  BY DEF ConfigSound
<1>2. BankTrue(b, desk.now) /\ b # Desk!NoBank
  BY <1>1, FreshSound DEF BanksSound
<1>3. /\ Desk!Enabled(c) /\ desk.phase = "betting"
      /\ b.used < c.extensions /\ b.remaining >= c.extension
      /\ desk'.bank = [desk.bank EXCEPT ![p] = spent]
      /\ desk'.now = desk.now /\ desk'.seats = desk.seats /\ desk'.config = desk.config
      /\ desk'.phase = desk.phase
  BY DEF Desk!UseTimeBank, Desk!OnTurn, DeskFields
<1>4. /\ {"remaining", "replenished", "used", "active"} \subseteq DOMAIN spent
      /\ spent.remaining = b.remaining - c.extension /\ spent.used = b.used + 1
      /\ spent.replenished = b.replenished
  <2> HIDE DEF b, c
  <2>1. QED BY <1>2 DEF BankTrue
<1>5. c.extension \in Nat /\ c.extensions \in Nat /\ c.max \in Nat
  BY <1>1 DEF BankConfig
<1> HIDE DEF spent
<1>6. p \in Desk!Seated => b = desk.bank[p] /\ Within(b, c)
  <2>1. p \in Desk!Seated => Within(desk.bank[p], c)
    BY <1>3, BanksMeaning DEF BanksSound, Desk!Between
  <2>2. Within(desk.bank[p], c) => desk.bank[p] # Desk!NoBank
    BY DEF Within, Desk!NoBank
  <2>3. QED BY <2>1, <2>2
<1> HIDE DEF b, c
<1>7. BankTrue(spent, desk.now)
  BY <1>2, <1>3, <1>4, <1>5 DEF BankTrue
<1>8. p \in Desk!Seated => Within(spent, c)
  <2> SUFFICES ASSUME p \in Desk!Seated PROVE Within(spent, c)
    OBVIOUS
  <2>1. Within(b, c)
    BY <1>6
  <2>2. (b.used + 1) * c.extension = b.used * c.extension + c.extension /\ b.used * c.extension \in Int
    <3>1. b.used \in Nat
      BY <1>2 DEF BankTrue
    <3>2. \A x, y \in Nat : (x + 1) * y = x * y + y /\ x * y \in Int
      OBVIOUS
    <3>3. QED BY <1>5, <3>1, <3>2
  <2>3. b.used \in Nat /\ b.remaining \in Int
    BY <1>2 DEF BankTrue
  <2>4. QED BY <1>3, <1>4, <1>5, <2>1, <2>2, <2>3 DEF Within
<1>9. \A q \in Players : desk'.bank[q] = IF q = p THEN spent ELSE desk.bank[q]
  BY <1>3 DEF BanksSound
<1>10. desk'.bank = [q \in Players |-> desk'.bank[q]]
  BY <1>3 DEF BanksSound
<1>11. \A q \in Players : BankTrue(desk'.bank[q], desk'.now)
  BY <1>3, <1>7, <1>9 DEF BanksSound
<1>12. Desk!BanksWithinMax'
  <2>1. Desk!Seated' = Desk!Seated /\ Desk!Seated \subseteq Players
    BY <1>3, SeatedPlay DEF Desk!Seated, BanksSound
  <2>2. \A q \in Desk!Seated : Within(desk.bank[q], c)
    BY <1>3, BanksMeaning DEF BanksSound, Desk!Between, c
  <2>3. \A q \in Desk!Seated : Within(desk'.bank[q], c)
    BY <1>8, <1>9, <2>1, <2>2
  <2>4. QED BY <1>3, <2>1, <2>3 DEF Desk!BanksWithinMax, Within, c
<1>13. QED BY <1>3, <1>10, <1>11, <1>12 DEF BanksSound

LEMMA SeatRemoved ==
  ASSUME NEW s \in Seq(Players), NEW k \in DOMAIN s
  PROVE  Desk!RemoveAt(s, k) \in Seq(Players)
<1>1. k \in 1 .. Len(s) /\ Len(s) \in Nat
  OBVIOUS
<1>2. SubSeq(s, 1, k - 1) \in Seq(Players) /\ SubSeq(s, k + 1, Len(s)) \in Seq(Players)
  BY <1>1, SubSeqProperties
<1>3. QED BY <1>2, ConcatProperties DEF Desk!RemoveAt

LEMMA BanksKept ==
  ASSUME DeskConstants, DeskOrder, ConfigSound, BanksSound,
         [Desk!ClockNext \/ Desk!PromiseNext \/ Desk!HubNext]_desk
  PROVE  BanksSound'
<1>0. DeskFields(desk) /\ desk.now \in Nat /\ desk.now >= desk.now
  BY DEF DeskOrder, ClockSound
<1>1. CASE UNCHANGED desk
  BY <1>0, <1>1, BanksSame DEF Desk!Between
<1>2. ASSUME NEW p \in Players, Desk!Join(p) PROVE BanksSound'
  <2> DEFINE new == IF Desk!Enabled(desk.config) /\ desk.bank[p] = Desk!NoBank
                    THEN Desk!FreshBank(desk.config) ELSE desk.bank[p]
  <2>1. /\ desk'.now = desk.now /\ desk'.seats = Append(desk.seats, p)
        /\ desk'.bank = [desk.bank EXCEPT ![p] = new] /\ desk'.phase = desk.phase
        /\ desk.phase = "waiting"
    BY <1>0, <1>2 DEF Desk!Join, DeskFields
  <2>2. BankTrue(new, desk.now)
    BY <1>0, FreshSound DEF BanksSound, ConfigSound
  <2> HIDE DEF new
  <2>3. desk'.seats \in Seq(Players)
    BY <2>1, AppendProperties DEF BanksSound
  <2>4. /\ desk'.bank = [q \in Players |-> desk'.bank[q]]
        /\ \A q \in Players : desk'.bank[q] = IF q = p THEN new ELSE desk.bank[q]
    BY <2>1 DEF BanksSound
  <2>5. \A q \in Players : BankTrue(desk'.bank[q], desk.now)
    BY <2>2, <2>4 DEF BanksSound
  <2>6. QED BY <2>1, <2>3, <2>4, <2>5, BanksBetween DEF Desk!Between
<1>3. ASSUME NEW p, Desk!Leave(p) PROVE BanksSound'
  <2>1. PICK k \in DOMAIN desk.seats :
          desk' = [desk EXCEPT !.seats = Desk!RemoveAt(@, k), !.turn = 1]
    BY <1>3 DEF Desk!Leave
  <2>2. /\ desk'.now = desk.now /\ desk'.seats = Desk!RemoveAt(desk.seats, k)
        /\ desk'.bank = desk.bank /\ desk'.phase = desk.phase /\ Desk!Between
    BY <1>0, <1>3, <2>1 DEF Desk!Leave, DeskFields
  <2>3. desk'.seats \in Seq(Players)
    BY <2>2, SeatRemoved DEF BanksSound
  <2>4. QED BY <2>2, <2>3, BanksBetween DEF Desk!Between, BanksSound
<1>4. ASSUME NEW stacks, Desk!StartHand(stacks) PROVE BanksSound'
  <2>1. /\ desk'.now = desk.now /\ desk'.seats = desk.seats /\ desk'.config = desk.config
        /\ desk'.bank = Refilled
    BY <1>0, <1>4, HandStarts
  <2>2. QED BY <1>0, <2>1, BanksRefilled
<1>5. ASSUME NEW k, Desk!CommitDeal(k) \/ Desk!RevealBoard(k) PROVE BanksSound'
  <2>1. /\ desk'.now = desk.now /\ desk'.seats = desk.seats /\ desk'.config = desk.config
        /\ desk'.bank = desk.bank /\ ~Desk!Between
    BY <1>0, <1>5 DEF Desk!CommitDeal, Desk!RevealBoard, DeskFields, Desk!Between
  <2>2. QED BY <1>0, <2>1, BanksSame
<1>6. ASSUME NEW k, Desk!SubmitShowdown(k) PROVE BanksSound'
  <2>1. SameSeats(desk, desk') /\ desk'.phase = "settlement"
    BY <1>0, <1>6, HubHearsTheEnd DEF Desk!SubmitShowdown
  <2>2. QED BY <1>0, <2>1, BanksSame DEF SameSeats, Desk!Between
<1>7. CASE Desk!CancelHand
  <2>1. /\ desk'.now = desk.now /\ desk'.seats = desk.seats /\ desk'.config = desk.config
        /\ desk'.bank = desk.bank /\ desk'.phase = "settlement"
    BY <1>0, <1>7 DEF Desk!CancelHand, DeskFields
  <2>2. QED BY <1>0, <2>1, BanksSame DEF Desk!Between
<1>8. ASSUME NEW p, NEW seq, NEW kind,
             \/ Desk!PlayerAction(p, seq, kind)
             \/ \E amount : Desk!RevealAction(p, seq, kind, amount)
      PROVE  BanksSound'
  <2> DEFINE shown == [did |-> <<kind, desk.hand>>, said |-> desk.commit[p].said]
  <2>1. PICK e \in Desk!Acted(p, kind) :
          \/ desk' = [e EXCEPT !.counter[p] = seq]
          \/ desk' = [e EXCEPT !.commit[p] = Desk!NoCommit, !.counter[p] = seq, !.shown = shown]
    BY <1>8 DEF Desk!PlayerAction, Desk!RevealAction
  <2>2. desk.phase = "betting"
    BY <1>8 DEF Desk!PlayerAction, Desk!RevealAction, Desk!MayAct, Desk!OnTurn
  <2> HIDE DEF shown
  <2>3. SameSeats(desk, e)
    BY <1>0, BettingGoesOn
  <2>4. /\ desk'.now = e.now /\ desk'.seats = e.seats /\ desk'.config = e.config
        /\ desk'.bank = e.bank
    BY <2>1, <2>3, ZenonT(30) DEF SameSeats, DeskFields
  <2>5. QED BY <1>0, <2>2, <2>3, <2>4, BanksSame DEF SameSeats, Desk!Between
<1>9. ASSUME NEW config \in Banks, Desk!Configure(config) PROVE BanksSound'
  <2>1. /\ desk'.now = desk.now /\ desk'.seats = desk.seats
        /\ desk'.bank = desk.bank /\ desk'.phase = desk.phase /\ Desk!Between
    BY <1>0, <1>9 DEF Desk!Configure, DeskFields
  <2>2. QED BY <2>1, BanksBetween DEF Desk!Between, BanksSound
<1>10. ASSUME NEW p \in Players, Desk!UseTimeBank(p) PROVE BanksSound'
  BY <1>0, <1>10, BankUsed
<1>11. CASE Desk!ProcessTimeout \/ Desk!ForceFold
  <2>1. PICK deadline : /\ deadline \in {desk.deadline, desk.now + Timeout}
                        /\ Desk!FoldByClock(deadline)
    BY <1>11 DEF Desk!ProcessTimeout, Desk!ForceFold
  <2>2. SameSeats(desk, desk') /\ desk.phase = "betting"
    BY <1>0, <2>1, ClockFolds
  <2>3. QED BY <1>0, <2>2, BanksSame DEF SameSeats, Desk!Between
<1>12. CASE Desk!Tick
  <2>1. /\ desk'.now = desk.now + 1 /\ desk'.seats = desk.seats /\ desk'.config = desk.config
        /\ desk'.bank = desk.bank /\ desk'.phase = desk.phase
    BY <1>0, <1>12 DEF Desk!Tick, DeskFields
  <2>2. desk'.now \in Nat /\ desk'.now >= desk.now
    BY <1>0, <2>1
  <2>3. QED BY <1>0, <2>1, <2>2, BanksSame DEF Desk!Between
<1>13. ASSUME NEW p, NEW kind, NEW amount, Desk!CommitAction(p, kind, amount) PROVE BanksSound'
  <2>1. /\ desk'.now = desk.now /\ desk'.seats = desk.seats /\ desk'.config = desk.config
        /\ desk'.bank = desk.bank /\ desk'.phase = desk.phase
    BY <1>0, <1>13 DEF Desk!CommitAction, DeskFields
  <2>2. QED BY <1>0, <2>1, BanksSame DEF Desk!Between
<1>14. ASSUME NEW p, NEW g, NEW points,
              Desk!RecordCrossPromo(p, g, points) \/ Desk!ClaimCrossPromo(p, g)
       PROVE  BanksSound'
  <2>1. /\ desk'.now = desk.now /\ desk'.seats = desk.seats /\ desk'.config = desk.config
        /\ desk'.bank = desk.bank /\ desk'.phase = desk.phase
    BY <1>0, <1>14 DEF Desk!RecordCrossPromo, Desk!ClaimCrossPromo, DeskFields
  <2>2. QED BY <1>0, <2>1, BanksSame DEF Desk!Between
<1>15. QED
  BY <1>1, <1>2, <1>3, <1>4, <1>5, <1>6, <1>7, <1>8, <1>9, <1>10, <1>11, <1>12, <1>13, <1>14
  DEF Desk!ClockNext, Desk!PromiseNext, Desk!HubNext, Desk!SeatsNext, Desk!HandsNext

(* time_bank.rs: during a hand under a configured time bank, what a player has banked
   and what she spent in the hand never come to more than the maximum. *)
THEOREM BanksStayWithinMax ==
  ASSUME DeskConstants
  PROVE  DeskSpec => []Desk!BanksWithinMax
<1> DEFINE Inv == DeskOrder /\ ConfigSound /\ BanksSound
<1>1. Desk!Init => Inv
  BY OrderStart, BanksStart
<1>2. Inv /\ [Desk!ClockNext \/ Desk!PromiseNext \/ Desk!HubNext]_desk => Inv'
  BY OrderKept, BanksKept
<1>3. Inv => Desk!BanksWithinMax
  BY DEF BanksSound
<1>4. QED
  BY <1>1, <1>2, <1>3, PTL DEF DeskSpec

-----------------------------------------------------------------------------
(* The promised actions. *)
PromiseTrue(c, hand) ==
  c # Desk!NoCommit =>
    \E kind, amount : c.hash = Desk!ActionHash(kind, amount) /\ c.said = <<kind, hand>>

PromisesSound ==
  /\ desk.shown.did = desk.shown.said
  /\ desk.commit = [p \in Players |-> desk.commit[p]]
  /\ \A p \in Players : PromiseTrue(desk.commit[p], desk.hand)

LEMMA HashTellsKind == \A kind, amount : Desk!ActionHash(kind, amount)[1] = kind
BY DEF Desk!ActionHash

LEMMA PromisesStart == ASSUME Desk!Init PROVE PromisesSound
BY DEF Desk!Init, Desk!NoShow, PromisesSound, PromiseTrue

LEMMA PromisesSame ==
  ASSUME PromisesSound, desk'.commit = desk.commit, desk'.hand = desk.hand,
         desk'.shown = desk.shown
  PROVE  PromisesSound'
BY DEF PromisesSound

LEMMA PromisesKept ==
  ASSUME DeskFields(desk), PromisesSound,
         [Desk!ClockNext \/ Desk!PromiseNext \/ Desk!HubNext]_desk
  PROVE  PromisesSound'
<1>1. CASE UNCHANGED desk
  BY <1>1, PromisesSame
<1>2. ASSUME NEW p, Desk!Join(p) \/ Desk!Leave(p) PROVE PromisesSound'
  <2>1. desk'.commit = desk.commit /\ desk'.hand = desk.hand /\ desk'.shown = desk.shown
    BY <1>2 DEF Desk!Join, Desk!Leave, DeskFields
  <2>2. QED BY <2>1, PromisesSame
<1>3. ASSUME NEW stacks, Desk!StartHand(stacks) PROVE PromisesSound'
  <2>1. /\ desk'.commit = [p \in Players |-> Desk!NoCommit] /\ desk'.shown = desk.shown
    BY <1>3, HandStarts
  <2>2. QED BY <2>1 DEF PromisesSound, PromiseTrue
<1>4. ASSUME NEW k, Desk!CommitDeal(k) \/ Desk!RevealBoard(k) PROVE PromisesSound'
  <2>1. desk'.commit = desk.commit /\ desk'.hand = desk.hand /\ desk'.shown = desk.shown
    BY <1>4 DEF Desk!CommitDeal, Desk!RevealBoard, DeskFields
  <2>2. QED BY <2>1, PromisesSame
<1>5. ASSUME NEW k, Desk!SubmitShowdown(k) PROVE PromisesSound'
  <2>1. SameSeats(desk, desk')
    BY <1>5, HubHearsTheEnd DEF Desk!SubmitShowdown
  <2>2. QED BY <2>1, PromisesSame DEF SameSeats
<1>6. ASSUME NEW p, NEW seq, NEW kind, Desk!PlayerAction(p, seq, kind) PROVE PromisesSound'
  <2>1. PICK e \in Desk!Acted(p, kind) : desk' = [e EXCEPT !.counter[p] = seq]
    BY <1>6 DEF Desk!PlayerAction
  <2>2. SameSeats(desk, e)
    BY BettingGoesOn
  <2>3. desk'.commit = e.commit /\ desk'.hand = e.hand /\ desk'.shown = e.shown
    BY <2>1, <2>2 DEF SameSeats, DeskFields
  <2>4. QED BY <2>2, <2>3, PromisesSame DEF SameSeats
<1>7. CASE Desk!CancelHand \/ Desk!Tick
  <2>1. desk'.commit = desk.commit /\ desk'.hand = desk.hand /\ desk'.shown = desk.shown
    BY <1>7 DEF Desk!CancelHand, Desk!Tick, DeskFields
  <2>2. QED BY <2>1, PromisesSame
<1>8. ASSUME NEW config, Desk!Configure(config) PROVE PromisesSound'
  <2>1. desk'.commit = desk.commit /\ desk'.hand = desk.hand /\ desk'.shown = desk.shown
    BY <1>8 DEF Desk!Configure, DeskFields
  <2>2. QED BY <2>1, PromisesSame
<1>9. ASSUME NEW p, Desk!UseTimeBank(p) PROVE PromisesSound'
  <2>1. desk'.commit = desk.commit /\ desk'.hand = desk.hand /\ desk'.shown = desk.shown
    BY <1>9 DEF Desk!UseTimeBank, DeskFields
  <2>2. QED BY <2>1, PromisesSame
<1>10. CASE Desk!ProcessTimeout \/ Desk!ForceFold
  <2>1. PICK deadline : /\ deadline \in {desk.deadline, desk.now + Timeout}
                        /\ Desk!FoldByClock(deadline)
    BY <1>10 DEF Desk!ProcessTimeout, Desk!ForceFold
  <2>2. SameSeats(desk, desk')
    BY <2>1, ClockFolds
  <2>3. QED BY <2>2, PromisesSame DEF SameSeats
<1>11. ASSUME NEW p \in Players, NEW kind, NEW amount, Desk!CommitAction(p, kind, amount)
       PROVE  PromisesSound'
  <2> DEFINE c == [hash |-> Desk!ActionHash(kind, amount), said |-> <<kind, desk.hand>>]
  <2>1. /\ desk'.commit = [desk.commit EXCEPT ![p] = c]
        /\ desk'.hand = desk.hand /\ desk'.shown = desk.shown
    BY <1>11 DEF Desk!CommitAction, DeskFields
  <2>2. PromiseTrue(c, desk.hand)
    BY DEF PromiseTrue
  <2> HIDE DEF c
  <2>3. QED BY <2>1, <2>2 DEF PromisesSound
<1>12. ASSUME NEW p \in Players, NEW seq, NEW kind, NEW amount,
              Desk!RevealAction(p, seq, kind, amount)
       PROVE  PromisesSound'
  <2> DEFINE c == desk.commit[p]
             shown == [did |-> <<kind, desk.hand>>, said |-> c.said]
  <2>1. PICK e \in Desk!Acted(p, kind) :
          desk' = [e EXCEPT !.commit[p] = Desk!NoCommit, !.counter[p] = seq, !.shown = shown]
    BY <1>12 DEF Desk!RevealAction
  <2>2. c # Desk!NoCommit /\ c.hash = Desk!ActionHash(kind, amount)
    BY <1>12 DEF Desk!RevealAction
  <2>3. c.said = <<kind, desk.hand>>
    <3>1. PICK k, a : c.hash = Desk!ActionHash(k, a) /\ c.said = <<k, desk.hand>>
      <4>1. PromiseTrue(c, desk.hand)
        BY DEF PromisesSound
      <4> HIDE DEF c
      <4>2. QED BY <2>2, <4>1 DEF PromiseTrue
    <3>2. k = kind
      <4>1. Desk!ActionHash(kind, amount)[1] = kind /\ Desk!ActionHash(k, a)[1] = k
        BY HashTellsKind
      <4> HIDE DEF c
      <4>2. QED BY <2>2, <3>1, <4>1
    <3>3. QED BY <3>1, <3>2
  <2>4. shown.did = shown.said
    BY <2>3
  <2>5. SameSeats(desk, e)
    BY BettingGoesOn
  <2> HIDE DEF c, shown
  <2>6. /\ desk'.commit = [e.commit EXCEPT ![p] = Desk!NoCommit] /\ desk'.hand = e.hand
        /\ desk'.shown = shown
    BY <2>1, <2>5 DEF SameSeats, DeskFields
  <2>7. PromiseTrue(Desk!NoCommit, desk.hand)
    BY DEF PromiseTrue
  <2>8. QED BY <2>4, <2>5, <2>6, <2>7 DEF PromisesSound, SameSeats
<1>13. ASSUME NEW p, NEW g, NEW points,
              Desk!RecordCrossPromo(p, g, points) \/ Desk!ClaimCrossPromo(p, g)
       PROVE  PromisesSound'
  <2>1. desk'.commit = desk.commit /\ desk'.hand = desk.hand /\ desk'.shown = desk.shown
    BY <1>13 DEF Desk!RecordCrossPromo, Desk!ClaimCrossPromo, DeskFields
  <2>2. QED BY <2>1, PromisesSame
<1>14. QED
  BY <1>1, <1>2, <1>3, <1>4, <1>5, <1>6, <1>7, <1>8, <1>9, <1>10, <1>11, <1>12, <1>13
  DEF Desk!ClockNext, Desk!PromiseNext, Desk!HubNext, Desk!SeatsNext, Desk!HandsNext

(* action_commitment.rs and the nonces of player_action: each sequence number a player
   used stands for one action that was processed, whatever was revealed, acted, timed
   out or cancelled in between; and a revealed action is of the kind its player promised
   for this very hand. *)
THEOREM ActionsStayNumbered ==
  ASSUME DeskConstants
  PROVE  DeskSpec => []Desk!ActionsNumbered
<1> DEFINE Inv == DeskOrder /\ ConfigSound /\ PromisesSound
<1>1. Desk!Init => Inv
  BY OrderStart, PromisesStart
<1>2. Inv /\ [Desk!ClockNext \/ Desk!PromiseNext \/ Desk!HubNext]_desk => Inv'
  BY OrderKept, PromisesKept DEF DeskOrder
<1>3. Inv => Desk!ActionsNumbered
  BY DEF DeskOrder, NumbersSound, PromisesSound, Desk!ActionsNumbered
<1>4. QED
  BY <1>1, <1>2, <1>3, PTL DEF DeskSpec

-----------------------------------------------------------------------------
(* The hub. *)

(* Finitely many play, and what a table reports of them is not negative. *)
HubConstants == /\ IsFiniteSet(Players) /\ IsFiniteSet(Games) /\ MaxHands \in Nat
                /\ \A s \in Stacks : s[1] \in Nat /\ s[2] \in Nat

(* The hand goes on, or it ends and one of its two players is the winner. *)
HandOver(d, e, w) ==
  /\ e.session = [d.session EXCEPT ![d.hand].active = FALSE]
  /\ e.profile = [d.profile EXCEPT ![w].won = @ + 1]

HubTold(d, e) ==
  \/ e.session = d.session /\ e.profile = d.profile /\ e.phase \in {d.phase, "reveal"}
  \/ /\ e.phase = "settlement"
     /\ \E i \in {1, 2} : HandOver(d, e, d.session[d.hand].players[i])

LEMMA EndIsTold ==
  ASSUME NEW d, DeskFields(d), NEW k, NEW e, e = Desk!Settle(d, k)
  PROVE  HubTold(d, e)
<1> DEFINE i == IF k = 1 THEN 1 ELSE 2
           s == [d EXCEPT !.phase = "settlement"]
           w == s.session[s.hand].players[i]
<1>1. /\ DeskFields(s) /\ s.session = d.session /\ s.hand = d.hand /\ s.profile = d.profile
      /\ s.phase = "settlement"
  BY DEF DeskFields
<1>2. e = [s EXCEPT !.session[s.hand].active = FALSE, !.profile[w].won = @ + 1]
  <2>1. (k = 1) \in BOOLEAN
    OBVIOUS
  <2>2. QED BY DEF Desk!Settle, Desk!NotifyEnd
<1> HIDE DEF s
<1>3. w = d.session[d.hand].players[i]
  BY <1>1
<1> HIDE DEF w
<1>4. HandOver(d, e, w) /\ e.phase = "settlement"
  BY <1>1, <1>2 DEF HandOver, DeskFields
<1>5. QED BY <1>3, <1>4 DEF HubTold

LEMMA BettingTold ==
  ASSUME DeskFields(desk), NEW p, NEW kind, NEW e \in Desk!Acted(p, kind)
  PROVE  HubTold(desk, e)
<1> DEFINE folded == IF kind = "fold" THEN desk.folded \cup {p} ELSE desk.folded
           applied == Counted(desk.applied, p)
           d == [desk EXCEPT !.folded = folded, !.applied = applied, !.bought = 0]
           k == CHOOSE j \in Desk!StillIn(d) : TRUE
           turn == Desk!NextAfter(d, d.turn)
<1>1. \/ e = Desk!Settle(d, k)
      \/ e = [d EXCEPT !.turn = turn, !.deadline = desk.now + Timeout]
      \/ e = [d EXCEPT !.phase = "reveal", !.deadline = 0]
  BY DEF Desk!Acted, Counted
<1>2. /\ DeskFields(d) /\ d.phase = desk.phase /\ d.hand = desk.hand
      /\ d.session = desk.session /\ d.profile = desk.profile
  <2> HIDE DEF folded, applied
  <2>1. QED BY DEF DeskFields
<1> HIDE DEF d, k, turn
<1>3. CASE e = Desk!Settle(d, k)
  <2>1. HubTold(d, e)
    BY <1>2, <1>3, EndIsTold
  <2>2. QED BY <1>2, <2>1 DEF HubTold, HandOver
<1>4. CASE \/ e = [d EXCEPT !.turn = turn, !.deadline = desk.now + Timeout]
           \/ e = [d EXCEPT !.phase = "reveal", !.deadline = 0]
  <2>1. /\ e.session = d.session /\ e.profile = d.profile /\ e.phase \in {d.phase, "reveal"}
    BY <1>2, <1>4 DEF DeskFields
  <2>2. QED BY <1>2, <2>1 DEF HubTold
<1>5. QED BY <1>1, <1>3, <1>4

LEMMA ClockTold ==
  ASSUME DeskFields(desk), NEW deadline, Desk!FoldByClock(deadline)
  PROVE  HubTold(desk, desk')
<1> DEFINE p == desk.seats[desk.turn]
           d == [desk EXCEPT !.folded = @ \cup {p}, !.bought = 0]
           k == CHOOSE j \in Desk!StillIn(d) : TRUE
           turn == Desk!NextAfter(d, d.turn)
<1>1. \/ desk' = Desk!Settle(d, k)
      \/ desk' = [d EXCEPT !.turn = turn, !.deadline = deadline]
  BY DEF Desk!FoldByClock
<1>2. /\ DeskFields(d) /\ d.phase = desk.phase /\ d.hand = desk.hand
      /\ d.session = desk.session /\ d.profile = desk.profile
  <2> HIDE DEF p
  <2>1. QED BY DEF DeskFields
<1> HIDE DEF d, k, turn
<1>3. CASE desk' = Desk!Settle(d, k)
  <2>1. HubTold(d, desk')
    BY <1>2, <1>3, EndIsTold
  <2>2. QED BY <1>2, <2>1 DEF HubTold, HandOver
<1>4. CASE desk' = [d EXCEPT !.turn = turn, !.deadline = deadline]
  <2>1. /\ desk'.session = d.session /\ desk'.profile = d.profile /\ desk'.phase = d.phase
    BY <1>2, <1>4 DEF DeskFields
  <2>2. QED BY <1>2, <2>1 DEF HubTold
<1>5. QED BY <1>1, <1>3, <1>4

(* Profiles are of natural numbers, and nobody has won more than she played. *)
ProfileSound(f) ==
  /\ {"played", "won", "points"} \subseteq DOMAIN f
  /\ f.played \in Nat /\ f.won \in Nat /\ f.points \in Nat /\ f.won <= f.played

ProfilesSound ==
  /\ desk.profile = [p \in Players |-> desk.profile[p]]
  /\ \A p \in Players : ProfileSound(desk.profile[p])

SessionsSound ==
  /\ desk.hand \in Nat /\ desk.hand <= MaxHands
  /\ desk.session = [h \in 1 .. MaxHands |-> desk.session[h]]
  /\ \A h \in 1 .. MaxHands : {"players", "active"} \subseteq DOMAIN desk.session[h]

(* A hand that is being played has a session, of two players who have a win to take. *)
MayWin(p) == p \in Players /\ desk.profile[p].won < desk.profile[p].played

PlayingSound ==
  ~Desk!Between =>
    LET s == desk.session[desk.hand] IN
    /\ desk.hand >= 1 /\ s.active = TRUE
    /\ \E a, b : s.players = <<a, b>> /\ MayWin(a) /\ MayWin(b)

Ended == {h \in 1 .. desk.hand : desk.session[h] # Desk!NoSession /\ ~desk.session[h].active}

Wins == [p \in Players |-> desk.profile[p].won]

WinsSound == SumFunctionOnSet(Wins, Players) = Cardinality(Ended)

HubSound == ProfilesSound /\ SessionsSound /\ PlayingSound /\ WinsSound

LEMMA HubBridge ==
  /\ \A f, S : Desk!SumFunctionOnSet(f, S) = SumFunctionOnSet(f, S)
  /\ \A S : Desk!Cardinality(S) = Cardinality(S)
<1>1. \A f, S : Desk!SumFunctionOnSet(f, S) = SumFunctionOnSet(f, S)
  BY SumIsFold DEF Desk!SumFunctionOnSet, Desk!FoldFunctionOnSet, Desk!MapThenFoldSet, Sum, IsSum, Pick
<1>2. \A S : Desk!Cardinality(S) = Cardinality(S)
  BY DEF Desk!Cardinality, Cardinality, Desk!IsFiniteSet, IsFiniteSet
<1>3. QED BY <1>1, <1>2

LEMMA EndedFinite ==
  ASSUME SessionsSound
  PROVE  IsFiniteSet(Ended) /\ Cardinality(Ended) \in Nat
<1>1. IsFiniteSet(1 .. desk.hand)
  BY FS_Interval DEF SessionsSound
<1>2. IsFiniteSet(Ended)
  BY <1>1, FS_Subset DEF Ended
<1>3. QED BY <1>2, FS_CardinalityType

LEMMA HubStart == ASSUME HubConstants, Desk!Init PROVE HubSound
<1>1. /\ desk.phase = "waiting" /\ desk.hand = 0
      /\ desk.session = [h \in 1 .. MaxHands |-> Desk!NoSession]
      /\ desk.profile = [p \in Players |-> Desk!NoProfile]
  BY DEF Desk!Init
<1>2. ProfileSound(Desk!NoProfile) /\ Desk!NoProfile.won = 0
  BY DEF Desk!NoProfile, ProfileSound
<1>3. ProfilesSound
  BY <1>1, <1>2 DEF ProfilesSound
<1>4. {"players", "active"} \subseteq DOMAIN Desk!NoSession
  BY DEF Desk!NoSession
<1>5. SessionsSound
  BY <1>1, <1>4 DEF SessionsSound, HubConstants
<1>6. PlayingSound
  BY <1>1 DEF PlayingSound, Desk!Between
<1>7. WinsSound
  <2>1. \A p \in Players : Wins[p] = 0
    BY <1>1, <1>2 DEF Wins
  <2>2. SumFunctionOnSet(Wins, Players) = 0
    BY <2>1, SumZero DEF HubConstants
  <2>3. Ended = {}
    BY <1>1 DEF Ended
  <2>4. QED BY <2>2, <2>3, FS_EmptySet DEF WinsSound
<1>8. QED BY <1>3, <1>5, <1>6, <1>7 DEF HubSound

LEMMA HubSame ==
  ASSUME HubSound, desk'.hand = desk.hand, desk'.session = desk.session,
         desk'.profile = desk.profile, Desk!Between => Desk!Between'
  PROVE  HubSound'
<1>1. ProfilesSound' /\ SessionsSound'
  BY DEF HubSound, ProfilesSound, SessionsSound
<1>2. PlayingSound'
  BY DEF HubSound, PlayingSound, MayWin
<1>3. WinsSound'
  BY DEF HubSound, WinsSound, Wins, Ended
<1>4. QED BY <1>1, <1>2, <1>3 DEF HubSound

(* The end of a hand: one more session is over, and one of its players has one win
   more. *)
LEMMA HubEnds ==
  ASSUME HubConstants, HubSound, ~Desk!Between, Desk!Between', desk'.hand = desk.hand,
         NEW i \in {1, 2}, HandOver(desk, desk', desk.session[desk.hand].players[i])
  PROVE  HubSound'
<1> DEFINE h == desk.hand
           w == desk.session[h].players[i]
           f == [desk.profile[w] EXCEPT !.won = @ + 1]
           s == [desk.session[h] EXCEPT !.active = FALSE]
<1>1. /\ h \in 1 .. MaxHands /\ desk.session[h].active = TRUE
      /\ desk.session[h] # Desk!NoSession /\ s # Desk!NoSession
      /\ MayWin(w)
  <2>1. PICK a, b : desk.session[h].players = <<a, b>> /\ MayWin(a) /\ MayWin(b)
    BY DEF HubSound, PlayingSound
  <2>2. w \in {a, b}
    BY <2>1
  <2>3. h >= 1 /\ h <= MaxHands /\ h \in Nat /\ desk.session[h].active = TRUE
    BY DEF HubSound, PlayingSound, SessionsSound
  <2>4. h \in 1 .. MaxHands /\ {"players", "active"} \subseteq DOMAIN desk.session[h]
    <3>1. h \in 1 .. MaxHands
      BY <2>3 DEF HubConstants
    <3>2. QED BY <3>1 DEF HubSound, SessionsSound
  <2>5. s.players = <<a, b>>
    BY <2>1, <2>4
  <2>6. Desk!NoSession.players = << >> /\ <<a, b>> # << >>
    BY DEF Desk!NoSession
  <2> HIDE DEF h, w, s
  <2>7. QED BY <2>1, <2>2, <2>3, <2>4, <2>5, <2>6
<1>2. w \in Players /\ ProfileSound(desk.profile[w])
  BY <1>1 DEF MayWin, HubSound, ProfilesSound
<1>3. /\ desk'.session = [desk.session EXCEPT ![h] = s]
      /\ desk'.profile = [desk.profile EXCEPT ![w] = f]
  BY DEF HandOver
<1>4. /\ {"played", "won", "points"} \subseteq DOMAIN f
      /\ f.played = desk.profile[w].played /\ f.points = desk.profile[w].points
      /\ f.won = desk.profile[w].won + 1
  <2> HIDE DEF w
  <2>1. QED BY <1>2 DEF ProfileSound
<1>5. /\ {"players", "active"} \subseteq DOMAIN s /\ s.active = FALSE
  <2>1. {"players", "active"} \subseteq DOMAIN desk.session[h]
    BY <1>1 DEF HubSound, SessionsSound
  <2>2. QED BY <2>1
<1>6. desk.profile[w].won < desk.profile[w].played
  BY <1>1 DEF MayWin
<1>7. desk'.hand = h
  OBVIOUS
<1> HIDE DEF f, s, w, h
<1>8. ProfileSound(f)
  BY <1>2, <1>4, <1>6 DEF ProfileSound
<1>9. ProfilesSound'
  BY <1>2, <1>3, <1>8 DEF HubSound, ProfilesSound
<1>10. SessionsSound'
  BY <1>1, <1>3, <1>5, ZenonT(30) DEF HubSound, SessionsSound
<1>11. PlayingSound'
  BY DEF PlayingSound
<1>12. Ended' = Ended \cup {h} /\ h \notin Ended
  <2>1. h = desk.hand
    BY DEF h
  <2>2. desk'.session[h] = s /\ \A j \in 1 .. h : j # h => desk'.session[j] = desk.session[j]
    BY <1>1, <1>3, <2>1 DEF HubSound, SessionsSound
  <2>3. h \in 1 .. h
    BY <1>1
  <2>4. QED BY <1>1, <1>5, <1>7, <2>1, <2>2, <2>3 DEF Ended
<1>13. Cardinality(Ended') = Cardinality(Ended) + 1
  BY <1>12, EndedFinite, FS_AddElement DEF HubSound
<1>14. SumFunctionOnSet(Wins', Players) = SumFunctionOnSet(Wins, Players) + 1
  <2>1. \A p \in Players : /\ Wins[p] \in Int /\ Wins'[p] \in Int
                           /\ p # w => Wins'[p] = Wins[p]
    <3>1. \A p \in Players : Wins[p] = desk.profile[p].won /\ Wins'[p] = desk'.profile[p].won
      BY DEF Wins
    <3>2. \A p \in Players : desk.profile[p].won \in Int
      BY DEF HubSound, ProfilesSound, ProfileSound
    <3>3. \A p \in Players : desk'.profile[p].won \in Int
      BY <1>9 DEF ProfilesSound, ProfileSound
    <3>4. \A p \in Players : p # w => desk'.profile[p] = desk.profile[p]
      BY <1>3 DEF HubSound, ProfilesSound
    <3>5. QED BY <3>1, <3>2, <3>3, <3>4
  <2>2. Wins[w] = desk.profile[w].won /\ Wins'[w] = desk.profile[w].won + 1
    <3>1. desk'.profile[w] = f
      BY <1>2, <1>3 DEF HubSound, ProfilesSound
    <3>2. QED BY <1>2, <1>4, <3>1 DEF Wins
  <2>3. IsFiniteSet(Players)
    BY DEF HubConstants
  <2> DEFINE x == Wins'
  <2>4. SumFunctionOnSet(x, Players) = SumFunctionOnSet(Wins, Players) - Wins[w] + x[w]
    <3> HIDE DEF x
    <3>1. \A p \in Players : /\ Wins[p] \in Int /\ x[p] \in Int
                             /\ p # w => x[p] = Wins[p]
      BY <2>1 DEF x
    <3>2. QED BY <1>2, <2>3, <3>1, SumChange
  <2>5. SumFunctionOnSet(Wins, Players) \in Int
    BY <2>1, <2>3, SumInt
  <2>6. Wins[w] \in Int /\ x[w] = Wins[w] + 1
    BY <1>2, <2>1, <2>2
  <2>7. QED BY <2>4, <2>5, <2>6
<1>15. WinsSound'
  BY <1>13, <1>14 DEF HubSound, WinsSound
<1>16. QED BY <1>9, <1>10, <1>11, <1>15 DEF HubSound

(* Points: nobody has more of them than was reported or granted to her, with what she
   has not claimed yet. *)
Waiting(p) == [g \in Games |-> IF desk.promo[p][g].claimed THEN 0 ELSE desk.promo[p][g].points]

PromoSound(r) == {"points", "claimed"} \subseteq DOMAIN r /\ r.points \in Nat

PointsTyped ==
  /\ desk.promo = [p \in Players |-> [g \in Games |-> desk.promo[p][g]]]
  /\ \A p \in Players, g \in Games : PromoSound(desk.promo[p][g])
  /\ desk.reported \in [Players -> Nat] /\ desk.granted \in [Players -> Nat]

Told(p) == desk.reported[p] + desk.granted[p]

PointsSound ==
  /\ PointsTyped
  /\ \A p \in Players :
       desk.profile[p].points + SumFunctionOnSet(Waiting(p), Games) <= Told(p)

LEMMA WaitingNat ==
  ASSUME HubConstants, PointsTyped, NEW p \in Players
  PROVE  /\ \A g \in Games : Waiting(p)[g] \in Nat
         /\ SumFunctionOnSet(Waiting(p), Games) \in Nat
<1>1. \A g \in Games : Waiting(p)[g] \in Nat
  BY DEF Waiting, PointsTyped, PromoSound
<1>2. SumFunctionOnSet(Waiting(p), Games) \in Nat
  <2> DEFINE x == Waiting(p)
  <2> HIDE DEF x
  <2>1. \A g \in Games : x[g] \in Nat
    BY <1>1 DEF x
  <2>2. SumFunctionOnSet(x, Games) \in Nat
    BY <2>1, SumNat DEF HubConstants
  <2>3. QED BY <2>2 DEF x
<1>3. QED BY <1>1, <1>2

LEMMA PointsStart == ASSUME HubConstants, Desk!Init PROVE PointsSound
<1>1. /\ desk.profile = [p \in Players |-> Desk!NoProfile]
      /\ desk.promo = [p \in Players |-> [g \in Games |-> Desk!NoPromo]]
      /\ desk.reported = [p \in Players |-> 0] /\ desk.granted = [p \in Players |-> 0]
  BY DEF Desk!Init
<1>2. PromoSound(Desk!NoPromo) /\ Desk!NoPromo.points = 0 /\ Desk!NoProfile.points = 0
  BY DEF Desk!NoPromo, Desk!NoProfile, PromoSound
<1>3. PointsTyped
  BY <1>1, <1>2 DEF PointsTyped
<1>4. ASSUME NEW p \in Players PROVE SumFunctionOnSet(Waiting(p), Games) = 0
  <2> DEFINE x == Waiting(p)
  <2>1. \A g \in Games : x[g] = 0
    BY <1>1, <1>2 DEF Waiting
  <2> HIDE DEF x
  <2>2. SumFunctionOnSet(x, Games) = 0
    BY <2>1, SumZero DEF HubConstants
  <2>3. QED BY <2>2 DEF x
<1>5. \A p \in Players : desk.profile[p].points = 0 /\ Told(p) = 0
  BY <1>1, <1>2 DEF Told
<1>6. QED BY <1>3, <1>4, <1>5 DEF PointsSound

(* Promises alone, with no fewer told and no more points. *)
LEMMA PointsSame ==
  ASSUME PointsSound, desk'.promo = desk.promo, desk'.reported = desk.reported,
         desk'.granted = desk.granted,
         \A p \in Players : desk'.profile[p].points = desk.profile[p].points
  PROVE  PointsSound'
<1>1. PointsTyped'
  BY DEF PointsSound, PointsTyped
<1>2. \A p \in Players : Waiting(p)' = Waiting(p)
  BY DEF Waiting
<1>3. \A p \in Players : Told(p)' = Told(p)
  BY DEF Told
<1>4. QED BY <1>1, <1>2, <1>3 DEF PointsSound

LEMMA PointsRecorded ==
  ASSUME HubConstants, PointsSound, ProfilesSound, DeskFields(desk), NEW p \in Players, NEW g \in Games,
         NEW points \in Nat, Desk!RecordCrossPromo(p, g, points)
  PROVE  PointsSound'
<1> DEFINE r == [points |-> points, claimed |-> FALSE]
<1>1. /\ desk'.promo = [desk.promo EXCEPT ![p][g] = r]
      /\ desk'.granted = [desk.granted EXCEPT ![p] = @ + points]
      /\ desk'.reported = desk.reported /\ desk'.profile = desk.profile
  BY DEF Desk!RecordCrossPromo, DeskFields
<1>2. PromoSound(r) /\ r.claimed = FALSE /\ r.points = points
  BY DEF PromoSound
<1> HIDE DEF r
<1>3. \A q \in Players, h \in Games :
        desk'.promo[q][h] = IF q = p /\ h = g THEN r ELSE desk.promo[q][h]
  BY <1>1 DEF PointsSound, PointsTyped
<1>4. PointsTyped'
  <2>1. desk'.promo = [q \in Players |-> [h \in Games |-> desk'.promo[q][h]]]
    BY <1>1, SMTT(30) DEF PointsSound, PointsTyped
  <2>2. desk'.granted \in [Players -> Nat] /\ desk'.reported \in [Players -> Nat]
    BY <1>1 DEF PointsSound, PointsTyped
  <2>3. \A q \in Players, h \in Games : PromoSound(desk'.promo[q][h])
    BY <1>2, <1>3 DEF PointsSound, PointsTyped
  <2>4. QED BY <2>1, <2>2, <2>3 DEF PointsTyped
<1>5. ASSUME NEW q \in Players
      PROVE  desk'.profile[q].points + SumFunctionOnSet(Waiting(q)', Games) <= Told(q)'
  <2> DEFINE x == Waiting(q)
             y == Waiting(q)'
  <2>1. \A h \in Games : y[h] = IF q = p /\ h = g THEN points ELSE x[h]
    <3>1. \A h \in Games : y[h] = IF desk'.promo[q][h].claimed THEN 0 ELSE desk'.promo[q][h].points
      BY DEF Waiting
    <3>2. \A h \in Games : x[h] = IF desk.promo[q][h].claimed THEN 0 ELSE desk.promo[q][h].points
      BY DEF Waiting
    <3> HIDE DEF x, y
    <3>3. QED BY <1>2, <1>3, <3>1, <3>2
  <2>2. /\ \A h \in Games : x[h] \in Nat
        /\ SumFunctionOnSet(x, Games) \in Nat
    BY WaitingNat DEF PointsSound
  <2> HIDE DEF x, y
  <2>3. Told(q) \in Nat /\ Told(q)' = Told(q) + IF q = p THEN points ELSE 0
    BY <1>1 DEF Told, PointsSound, PointsTyped
  <2>4. /\ desk.profile[q].points + SumFunctionOnSet(x, Games) <= Told(q)
        /\ desk.profile[q].points \in Nat /\ desk'.profile[q] = desk.profile[q]
    BY <1>1 DEF PointsSound, ProfilesSound, ProfileSound, x
  <2>5. SumFunctionOnSet(y, Games) \in Nat
        /\ SumFunctionOnSet(y, Games) <= SumFunctionOnSet(x, Games) + IF q = p THEN points ELSE 0
    <3>1. CASE q # p
      <4>1. \A h \in Games : y[h] = x[h]
        BY <2>1, <3>1
      <4>2. SumFunctionOnSet(y, Games) = SumFunctionOnSet(x, Games)
        BY <4>1, SumSame DEF HubConstants
      <4>3. QED BY <2>2, <3>1, <4>2
    <3>2. CASE q = p
      <4>1. \A h \in Games : x[h] \in Int /\ y[h] \in Int /\ (h # g => y[h] = x[h])
        BY <2>1, <2>2, <3>2
      <4>2. SumFunctionOnSet(y, Games) = SumFunctionOnSet(x, Games) - x[g] + y[g]
        BY <4>1, SumChange DEF HubConstants
      <4>3. y[g] = points /\ x[g] \in Nat
        BY <2>1, <2>2, <3>2
      <4>4. SumFunctionOnSet(y, Games) \in Nat
        <5>1. \A h \in Games : y[h] \in Nat
          BY <2>1, <2>2, <3>2
        <5>2. QED BY <5>1, SumNat DEF HubConstants
      <4>5. QED BY <2>2, <3>2, <4>2, <4>3, <4>4
    <3>3. QED BY <3>1, <3>2
  <2>6. desk'.profile[q].points + SumFunctionOnSet(y, Games) <= Told(q)'
    BY <2>2, <2>3, <2>4, <2>5
  <2>7. QED BY <2>6 DEF y
<1>6. QED BY <1>4, <1>5 DEF PointsSound

LEMMA PointsClaimed ==
  ASSUME HubConstants, PointsSound, ProfilesSound, DeskFields(desk), NEW p \in Players, NEW g \in Games,
         Desk!ClaimCrossPromo(p, g)
  PROVE  PointsSound'
<1> DEFINE n == desk.promo[p][g].points
           r == [desk.promo[p][g] EXCEPT !.claimed = TRUE]
           f == [desk.profile[p] EXCEPT !.points = @ + n]
<1>1. /\ ~desk.promo[p][g].claimed
      /\ desk'.promo = [desk.promo EXCEPT ![p][g] = r]
      /\ desk'.profile = [desk.profile EXCEPT ![p] = f]
      /\ desk'.reported = desk.reported /\ desk'.granted = desk.granted
  BY DEF Desk!ClaimCrossPromo, DeskFields
<1>2. PromoSound(desk.promo[p][g]) /\ ProfileSound(desk.profile[p])
  BY DEF PointsSound, PointsTyped, ProfilesSound
<1>3. PromoSound(r) /\ r.claimed = TRUE /\ n \in Nat
  BY <1>2 DEF PromoSound
<1>4. f.points = desk.profile[p].points + n
  BY <1>2 DEF ProfileSound
<1> HIDE DEF r, f
<1>5. \A q \in Players, h \in Games :
        desk'.promo[q][h] = IF q = p /\ h = g THEN r ELSE desk.promo[q][h]
  BY <1>1 DEF PointsSound, PointsTyped
<1>6. \A q \in Players : desk'.profile[q].points = desk.profile[q].points + IF q = p THEN n ELSE 0
  <2>1. \A q \in Players : desk'.profile[q] = IF q = p THEN f ELSE desk.profile[q]
    BY <1>1 DEF ProfilesSound
  <2>2. \A q \in Players : desk.profile[q].points \in Nat
    BY DEF ProfilesSound, ProfileSound
  <2> HIDE DEF n
  <2>3. desk'.profile[p].points = desk.profile[p].points + n
    BY <1>4, <2>1
  <2>4. \A q \in Players : q # p => desk'.profile[q].points = desk.profile[q].points
    BY <2>1
  <2>5. QED BY <2>2, <2>3, <2>4
<1>7. PointsTyped'
  <2>1. desk'.promo = [q \in Players |-> [h \in Games |-> desk'.promo[q][h]]]
    <3>1. desk.promo = [q \in Players |-> [h \in Games |-> desk.promo[q][h]]]
      BY DEF PointsSound, PointsTyped
    <3>2. desk'.promo = [desk.promo EXCEPT ![p][g] = r]
      BY <1>1
    <3>3. QED BY <3>1, <3>2
  <2>2. \A q \in Players, h \in Games : PromoSound(desk'.promo[q][h])
    BY <1>3, <1>5 DEF PointsSound, PointsTyped
  <2>3. QED BY <1>1, <2>1, <2>2 DEF PointsSound, PointsTyped
<1>8. ASSUME NEW q \in Players
      PROVE  desk'.profile[q].points + SumFunctionOnSet(Waiting(q)', Games) <= Told(q)'
  <2> DEFINE x == Waiting(q)
             y == Waiting(q)'
  <2>1. \A h \in Games : y[h] = IF q = p /\ h = g THEN 0 ELSE x[h]
    <3>1. \A h \in Games : y[h] = IF desk'.promo[q][h].claimed THEN 0 ELSE desk'.promo[q][h].points
      BY DEF Waiting
    <3>2. \A h \in Games : x[h] = IF desk.promo[q][h].claimed THEN 0 ELSE desk.promo[q][h].points
      BY DEF Waiting
    <3> HIDE DEF x, y
    <3>3. QED BY <1>3, <1>5, <3>1, <3>2
  <2>2. /\ \A h \in Games : x[h] \in Nat
        /\ SumFunctionOnSet(x, Games) \in Nat
    BY WaitingNat DEF PointsSound
  <2>3. q = p => x[g] = n
    BY <1>1 DEF Waiting
  <2> HIDE DEF x, y, n
  <2>4. Told(q) \in Nat /\ Told(q)' = Told(q)
    BY <1>1 DEF Told, PointsSound, PointsTyped
  <2>5. /\ desk.profile[q].points + SumFunctionOnSet(x, Games) <= Told(q)
        /\ desk.profile[q].points \in Nat
    BY DEF PointsSound, ProfilesSound, ProfileSound, x
  <2>6. SumFunctionOnSet(y, Games) = SumFunctionOnSet(x, Games) - IF q = p THEN n ELSE 0
    <3>1. CASE q # p
      <4>1. \A h \in Games : y[h] = x[h]
        BY <2>1, <3>1
      <4>2. SumFunctionOnSet(y, Games) = SumFunctionOnSet(x, Games)
        BY <4>1, SumSame DEF HubConstants
      <4>3. QED BY <2>2, <3>1, <4>2
    <3>2. CASE q = p
      <4>1. \A h \in Games : x[h] \in Int /\ y[h] \in Int /\ (h # g => y[h] = x[h])
        BY <2>1, <2>2, <3>2
      <4>2. SumFunctionOnSet(y, Games) = SumFunctionOnSet(x, Games) - x[g] + y[g]
        BY <4>1, SumChange DEF HubConstants
      <4>3. y[g] = 0 /\ x[g] = n
        BY <2>1, <2>3, <3>2
      <4>4. QED BY <1>3, <2>2, <3>2, <4>2, <4>3
    <3>3. QED BY <3>1, <3>2
  <2>7. desk'.profile[q].points + SumFunctionOnSet(y, Games) <= Told(q)'
    BY <1>3, <1>6, <2>2, <2>4, <2>5, <2>6
  <2>8. QED BY <2>7 DEF y
<1>9. QED BY <1>7, <1>8 DEF PointsSound

(* A claim changes points only. *)
LEMMA HubClaimed ==
  ASSUME HubSound, DeskFields(desk), NEW p \in Players, NEW g, desk.promo[p][g].points \in Nat,
         Desk!ClaimCrossPromo(p, g)
  PROVE  HubSound'
<1> DEFINE n == desk.promo[p][g].points
           f == [desk.profile[p] EXCEPT !.points = @ + n]
<1>1. /\ desk'.profile = [desk.profile EXCEPT ![p] = f]
      /\ desk'.hand = desk.hand /\ desk'.session = desk.session /\ desk'.phase = desk.phase
  BY DEF Desk!ClaimCrossPromo, DeskFields
<1>2. ProfileSound(desk.profile[p])
  BY DEF HubSound, ProfilesSound
<1>3. ProfileSound(f) /\ f.won = desk.profile[p].won /\ f.played = desk.profile[p].played
  BY <1>2 DEF ProfileSound
<1> HIDE DEF f
<1>4. \A q \in Players : desk'.profile[q] = IF q = p THEN f ELSE desk.profile[q]
  BY <1>1 DEF HubSound, ProfilesSound
<1>5. ProfilesSound' /\ SessionsSound'
  BY <1>1, <1>3, <1>4 DEF HubSound, ProfilesSound, SessionsSound
<1>6. \A q \in Players : /\ desk'.profile[q].won = desk.profile[q].won
                         /\ desk'.profile[q].played = desk.profile[q].played
  BY <1>3, <1>4
<1>7. PlayingSound'
  BY <1>1, <1>6 DEF HubSound, PlayingSound, MayWin, Desk!Between
<1>8. Wins' = Wins /\ Ended' = Ended
  BY <1>1, <1>6 DEF Wins, Ended
<1>9. QED BY <1>5, <1>7, <1>8 DEF HubSound, WinsSound

(* The start of a hand: its two players are active, and the hub is told their stacks. *)
PlayersIn(P, R) ==
  /\ P = [p \in Players |-> P[p]] /\ R \in [Players -> Nat]
  /\ \A p \in Players : ProfileSound(P[p])

PaidIn(P, R, Q, T, q) ==
  /\ PlayersIn(Q, T) /\ Q[q].played > P[q].played
  /\ \A p \in Players : /\ Q[p].won = P[p].won /\ Q[p].played >= P[p].played
                        /\ Q[p].points + R[p] = P[p].points + T[p]

LEMMA PlayerActive ==
  ASSUME NEW P, NEW R, PlayersIn(P, R), NEW q \in Players, NEW x \in Nat,
         NEW Q, Q = Desk!Active(P, q, x), NEW T, T = [R EXCEPT ![q] = @ + x]
  PROVE  PaidIn(P, R, Q, T, q)
<1> DEFINE f == [P[q] EXCEPT !.played = @ + 1, !.points = @ + x]
<1>1. Q = [P EXCEPT ![q] = f]
  BY DEF Desk!Active
<1>0. P = [p \in Players |-> P[p]] /\ R \in [Players -> Nat]
  BY DEF PlayersIn
<1>2. \A p \in Players : ProfileSound(P[p])
  BY DEF PlayersIn
<1>3. /\ {"played", "won", "points"} \subseteq DOMAIN f
      /\ f.played = P[q].played + 1 /\ f.won = P[q].won /\ f.points = P[q].points + x
  BY <1>2 DEF ProfileSound
<1> HIDE DEF f
<1>4. ProfileSound(f)
  BY <1>2, <1>3 DEF ProfileSound
<1>5. \A p \in Players : Q[p] = IF p = q THEN f ELSE P[p]
  BY <1>0, <1>1
<1>6. \A p \in Players : T[p] = IF p = q THEN R[p] + x ELSE R[p]
  BY <1>0
<1>7. \A p \in Players : P[p].played \in Nat /\ P[p].points \in Nat /\ R[p] \in Nat
  BY <1>0, <1>2 DEF ProfileSound
<1>8. ASSUME NEW p \in Players
      PROVE  /\ ProfileSound(Q[p]) /\ Q[p].won = P[p].won
             /\ Q[p].played >= P[p].played
             /\ Q[p].points + R[p] = P[p].points + T[p]
  <2>1. CASE p = q
    BY <1>3, <1>4, <1>5, <1>6, <1>7, <2>1
  <2>2. CASE p # q
    BY <1>2, <1>5, <1>6, <1>7, <2>2
  <2>3. QED BY <2>1, <2>2
<1>9. Q[q].played > P[q].played
  <2>1. Q[q] = f /\ f.played = P[q].played + 1 /\ P[q].played \in Nat
    BY <1>3, <1>5, <1>7
  <2>2. QED BY <2>1
<1>10. Q = [p \in Players |-> Q[p]] /\ T \in [Players -> Nat]
  <2>1. Q = [p \in Players |-> Q[p]]
    BY <1>0, <1>1
  <2>2. R[q] + x \in Nat
    BY <1>0
  <2> DEFINE y == R[q] + x
  <2>3. T = [R EXCEPT ![q] = y]
    OBVIOUS
  <2> HIDE DEF y
  <2>4. T \in [Players -> Nat]
    BY <1>0, <2>2, <2>3 DEF y
  <2>5. QED BY <2>1, <2>4
<1>11. PlayersIn(Q, T)
  BY <1>8, <1>10 DEF PlayersIn
<1>12. \A p \in Players : /\ Q[p].won = P[p].won /\ Q[p].played >= P[p].played
                          /\ Q[p].points + R[p] = P[p].points + T[p]
  BY <1>8
<1> HIDE DEF f
<1>13. QED BY <1>9, <1>11, <1>12 DEF PaidIn

Reported(one, two, stacks) ==
  \E mid : /\ mid = [desk.reported EXCEPT ![one] = @ + stacks[1]]
          /\ desk'.reported = [mid EXCEPT ![two] = @ + stacks[2]]

LEMMA StartIsTold ==
  ASSUME DeskFields(desk), NEW stacks, Desk!StartHand(stacks), NEW one, NEW two,
         one = desk.seats[1], two = desk.seats[2]
  PROVE  /\ desk'.session = [desk.session EXCEPT ![desk.hand + 1] =
                               [players |-> <<one, two>>, active |-> TRUE]]
         /\ desk'.profile = Desk!Active(Desk!Active(desk.profile, one, stacks[1]), two, stacks[2])
         /\ Reported(one, two, stacks)
         /\ desk'.promo = desk.promo /\ desk'.granted = desk.granted
<1> DEFINE commit == [p \in Players |-> Desk!NoCommit]
           d == [desk EXCEPT !.hand = @ + 1, !.phase = "dealing", !.folded = {}, !.turn = 1,
                             !.deadline = 0, !.bought = 0, !.commit = commit]
           r == Desk!ReplenishAll(d)
           mid == [desk.reported EXCEPT ![one] = @ + stacks[1]]
<1>1. desk' = Desk!NotifyStart(r, stacks)
  BY DEF Desk!StartHand
<1>2. /\ DeskFields(d) /\ d.hand = desk.hand + 1 /\ d.seats = desk.seats
      /\ d.session = desk.session /\ d.profile = desk.profile /\ d.promo = desk.promo
      /\ d.reported = desk.reported /\ d.granted = desk.granted
  <2> HIDE DEF commit
  <2>1. QED BY DEF DeskFields
<1> HIDE DEF d
<1>3. /\ DeskFields(r) /\ r.hand = d.hand /\ r.seats = d.seats
      /\ r.session = d.session /\ r.profile = d.profile /\ r.promo = d.promo
      /\ r.reported = d.reported /\ r.granted = d.granted
  BY <1>2 DEF Desk!ReplenishAll, DeskFields
<1> HIDE DEF r
<1>4. /\ desk'.session = [r.session EXCEPT ![r.hand] =
                            [players |-> <<r.seats[1], r.seats[2]>>, active |-> TRUE]]
      /\ desk'.profile = Desk!Active(Desk!Active(r.profile, r.seats[1], stacks[1]),
                                     r.seats[2], stacks[2])
      /\ desk'.promo = r.promo /\ desk'.granted = r.granted
  BY <1>1, <1>3 DEF Desk!NotifyStart, DeskFields
<1>5. desk'.reported = [[r.reported EXCEPT ![r.seats[1]] = @ + stacks[1]]
                          EXCEPT ![r.seats[2]] = @ + stacks[2]]
  BY <1>1, <1>3 DEF Desk!NotifyStart, DeskFields
<1>6. desk'.reported = [mid EXCEPT ![two] = @ + stacks[2]]
  BY <1>2, <1>3, <1>5
<1>7. Reported(one, two, stacks)
  BY <1>6 DEF Reported
<1>8. QED BY <1>2, <1>3, <1>4, <1>7

LEMMA HubStarts ==
  ASSUME HubConstants, HubSound, PointsSound, DeskFields(desk), desk.seats \in Seq(Players),
         NEW stacks \in Stacks, Desk!StartHand(stacks)
  PROVE  HubSound' /\ PointsSound'
<1>0. PICK one, two : one = desk.seats[1] /\ two = desk.seats[2]
  OBVIOUS
<1> DEFINE h == desk.hand + 1
           P == desk.profile
           Q == Desk!Active(P, one, stacks[1])
           U == Desk!Active(Q, two, stacks[2])
           new == [players |-> <<one, two>>, active |-> TRUE]
<1>1. one \in Players /\ two \in Players /\ desk.hand < MaxHands
  <2>1. Len(desk.seats) >= 2 /\ desk.hand < MaxHands
    BY DEF Desk!StartHand
  <2>2. QED BY <1>0, <2>1
<1>2. stacks[1] \in Nat /\ stacks[2] \in Nat /\ MaxHands \in Nat
  BY DEF HubConstants
<1>3. /\ desk'.phase = "dealing" /\ desk'.hand = h
  BY HandStarts
<1>4. /\ desk'.session = [desk.session EXCEPT ![h] = new]
      /\ desk'.profile = U /\ desk'.promo = desk.promo /\ desk'.granted = desk.granted
  <2>1. /\ desk'.session = [desk.session EXCEPT ![desk.hand + 1] =
                               [players |-> <<one, two>>, active |-> TRUE]]
        /\ desk'.profile = Desk!Active(Desk!Active(desk.profile, one, stacks[1]), two, stacks[2])
        /\ desk'.promo = desk.promo /\ desk'.granted = desk.granted
    BY <1>0, StartIsTold
  <2>2. QED BY <2>1
<1>5. PICK mid : /\ mid = [desk.reported EXCEPT ![one] = @ + stacks[1]]
                 /\ desk'.reported = [mid EXCEPT ![two] = @ + stacks[2]]
  <2> HIDE DEF P, Q, U, h, new
  <2>1. Reported(one, two, stacks)
    BY <1>0, StartIsTold
  <2>2. QED BY <2>1 DEF Reported
<1>6. PlayersIn(P, desk.reported)
  BY DEF HubSound, ProfilesSound, PointsSound, PointsTyped, PlayersIn
<1> HIDE DEF P, Q, U, h, new
<1>7. PaidIn(P, desk.reported, Q, mid, one)
  <2>1. Q = Desk!Active(P, one, stacks[1])
    BY DEF Q
  <2>2. QED BY <1>1, <1>2, <1>5, <1>6, <2>1, PlayerActive
<1>8. PaidIn(Q, mid, U, desk'.reported, two)
  <2>1. U = Desk!Active(Q, two, stacks[2])
    BY DEF U
  <2>2. PlayersIn(Q, mid)
    BY <1>7 DEF PaidIn
  <2>3. QED BY <1>1, <1>2, <1>5, <2>1, <2>2, PlayerActive
<1>9. \A p \in Players :
        /\ P[p].played \in Nat /\ Q[p].played \in Nat /\ U[p].played \in Nat
        /\ P[p].won \in Nat /\ P[p].won <= P[p].played
        /\ P[p].points \in Nat /\ Q[p].points \in Nat /\ U[p].points \in Nat
        /\ mid[p] \in Nat /\ desk.reported[p] \in Nat /\ desk'.reported[p] \in Nat
  <2>1. PlayersIn(P, desk.reported) /\ PlayersIn(Q, mid) /\ PlayersIn(U, desk'.reported)
    BY <1>6, <1>7, <1>8 DEF PaidIn
  <2>2. QED BY <2>1 DEF PlayersIn, ProfileSound
<1>10. \A p \in Players : /\ U[p].won = P[p].won
                          /\ U[p].points + desk.reported[p] = P[p].points + desk'.reported[p]
  <2>1. ASSUME NEW p \in Players
        PROVE  /\ U[p].won = P[p].won
               /\ U[p].points + desk.reported[p] = P[p].points + desk'.reported[p]
    <3>1. Q[p].won = P[p].won /\ Q[p].points + desk.reported[p] = P[p].points + mid[p]
      BY <1>7 DEF PaidIn
    <3>2. U[p].won = Q[p].won /\ U[p].points + mid[p] = Q[p].points + desk'.reported[p]
      BY <1>8 DEF PaidIn
    <3>3. /\ P[p].points \in Nat /\ Q[p].points \in Nat /\ U[p].points \in Nat
          /\ mid[p] \in Nat /\ desk.reported[p] \in Nat /\ desk'.reported[p] \in Nat
      BY <1>9
    <3>4. U[p].points + desk.reported[p] = P[p].points + desk'.reported[p]
      <4>1. PICK a \in Nat, b \in Nat, c \in Nat, m \in Nat, n \in Nat, t \in Nat :
              /\ a = P[p].points /\ b = Q[p].points /\ c = U[p].points
              /\ n = desk.reported[p] /\ m = mid[p] /\ t = desk'.reported[p]
        BY <3>3
      <4>2. b + n = a + m /\ c + m = b + t
        BY <3>1, <3>2, <4>1
      <4>3. c + n = a + t
        BY <4>2
      <4>4. QED BY <4>1, <4>3
    <3>5. QED BY <3>1, <3>2, <3>4
  <2>2. QED BY <2>1
<1>11. U[one].won < U[one].played /\ U[two].won < U[two].played
  <2>1. /\ U[one].played >= Q[one].played /\ U[one].won = P[one].won
        /\ Q[one].played > P[one].played
    BY <1>1, <1>7, <1>8, <1>10 DEF PaidIn
  <2>2. /\ Q[two].played >= P[two].played /\ U[two].won = P[two].won
        /\ U[two].played > Q[two].played
    BY <1>1, <1>7, <1>8, <1>10 DEF PaidIn
  <2>3. QED BY <1>1, <1>9, <2>1, <2>2
<1>12. ProfilesSound'
  BY <1>4, <1>8 DEF ProfilesSound, PaidIn, PlayersIn
<1>13. h = desk.hand + 1 /\ h \in 1 .. MaxHands /\ desk.hand \in Nat
  <2>1. desk.hand \in Nat
    BY DEF HubSound, SessionsSound
  <2>2. QED BY <1>1, <1>2, <2>1 DEF h
<1>14. /\ {"players", "active"} \subseteq DOMAIN new
       /\ new.players = <<one, two>> /\ new.active = TRUE
  BY DEF new
<1>15. \A j \in 1 .. MaxHands : desk'.session[j] = IF j = h THEN new ELSE desk.session[j]
  BY <1>4 DEF HubSound, SessionsSound
<1>16. SessionsSound'
  <2>1. desk'.session = [j \in 1 .. MaxHands |-> desk'.session[j]]
    BY <1>4 DEF HubSound, SessionsSound
  <2>2. desk'.hand \in Nat /\ desk'.hand <= MaxHands
    BY <1>2, <1>3, <1>13
  <2>3. \A j \in 1 .. MaxHands : {"players", "active"} \subseteq DOMAIN desk'.session[j]
    BY <1>14, <1>15 DEF HubSound, SessionsSound
  <2>4. QED BY <2>1, <2>2, <2>3 DEF SessionsSound
<1>17. PlayingSound'
  <2>1. desk'.session[desk'.hand] = new
    BY <1>3, <1>13, <1>15
  <2>2. MayWin(one)' /\ MayWin(two)'
    <3>1. desk'.profile = U
      BY <1>4
    <3>2. QED BY <1>1, <1>11, <3>1 DEF MayWin
  <2>3. desk'.hand >= 1
    BY <1>3, <1>13
  <2>4. desk'.session[desk'.hand].active = TRUE
    BY <1>14, <2>1
  <2>5. \E a, b : desk'.session[desk'.hand].players = <<a, b>> /\ MayWin(a)' /\ MayWin(b)'
    BY <1>14, <2>1, <2>2
  <2>6. QED BY <2>3, <2>4, <2>5 DEF PlayingSound
<1>18. Ended' = Ended
  <2>1. h \notin Ended'
    BY <1>3, <1>13, <1>14, <1>15 DEF Ended
  <2>2. \A j : j \in 1 .. h /\ j # h <=> j \in 1 .. desk.hand
    BY <1>13
  <2>3. \A j \in 1 .. desk.hand : j # h /\ desk'.session[j] = desk.session[j]
    <3>1. \A j \in 1 .. desk.hand : j # h /\ j \in 1 .. MaxHands
      BY <1>13, <1>2
    <3>2. QED BY <3>1, <1>15
  <2>4. QED BY <1>3, <2>1, <2>2, <2>3 DEF Ended
<1>19. Wins' = Wins
  BY <1>4, <1>10 DEF Wins, P
<1>20. HubSound'
  BY <1>12, <1>16, <1>17, <1>18, <1>19 DEF HubSound, WinsSound
<1>21. PointsTyped'
  BY <1>4, <1>8 DEF PointsSound, PointsTyped, PaidIn, PlayersIn
<1>22. ASSUME NEW p \in Players
       PROVE  desk'.profile[p].points + SumFunctionOnSet(Waiting(p)', Games) <= Told(p)'
  <2> DEFINE x == SumFunctionOnSet(Waiting(p), Games)
  <2>1. Waiting(p)' = Waiting(p)
    BY <1>4 DEF Waiting
  <2>2. x \in Nat
    BY WaitingNat DEF PointsSound
  <2>3. desk.profile[p].points + x <= desk.reported[p] + desk.granted[p]
    BY DEF PointsSound, Told
  <2> HIDE DEF x
  <2>4. desk.granted[p] \in Nat
    BY DEF PointsSound, PointsTyped
  <2>5. desk'.profile[p].points + x <= desk'.reported[p] + desk.granted[p]
    <3>1. desk'.profile[p] = U[p] /\ desk.profile[p] = P[p]
      BY <1>4 DEF P
    <3>2. U[p].points + desk.reported[p] = P[p].points + desk'.reported[p]
      BY <1>10
    <3>3. /\ P[p].points \in Nat /\ U[p].points \in Nat
          /\ desk.reported[p] \in Nat /\ desk'.reported[p] \in Nat
      BY <1>9
    <3>4. P[p].points + x <= desk.reported[p] + desk.granted[p]
      BY <2>3, <3>1
    <3>5. U[p].points + x <= desk'.reported[p] + desk.granted[p]
      <4>1. PICK a \in Nat, c \in Nat, n \in Nat, t \in Nat, y \in Nat, g \in Nat :
              /\ a = P[p].points /\ c = U[p].points /\ n = desk.reported[p]
              /\ t = desk'.reported[p] /\ y = x /\ g = desk.granted[p]
        BY <2>2, <2>4, <3>3
      <4>2. c + n = a + t /\ a + y <= n + g
        BY <3>2, <3>4, <4>1
      <4>3. c + y <= t + g
        BY <4>2
      <4>4. QED BY <4>1, <4>3
    <3>6. QED BY <3>1, <3>5
  <2>6. QED BY <1>4, <2>1, <2>5 DEF Told, x
<1>23. QED BY <1>20, <1>21, <1>22 DEF PointsSound

LEMMA HandOverPoints ==
  ASSUME ProfilesSound, NEW w, HandOver(desk, desk', w)
  PROVE  \A p \in Players : desk'.profile[p].points = desk.profile[p].points
<1> DEFINE f == [desk.profile[w] EXCEPT !.won = @ + 1]
<1>1. desk'.profile = [desk.profile EXCEPT ![w] = f]
  BY DEF HandOver
<1>2. w \in Players => f.points = desk.profile[w].points
  BY DEF ProfilesSound, ProfileSound
<1> HIDE DEF f
<1>3. QED BY <1>1, <1>2 DEF ProfilesSound

(* What the betting tells the hub. *)
LEMMA HubTold1 ==
  ASSUME HubConstants, HubSound, PointsSound, ~Desk!Between, SameSeats(desk, desk'),
         HubTold(desk, desk')
  PROVE  HubSound' /\ PointsSound'
<1>1. CASE /\ desk'.session = desk.session /\ desk'.profile = desk.profile
  <2>1. HubSound'
    BY <1>1, HubSame DEF SameSeats
  <2>2. PointsSound'
    BY <1>1, PointsSame DEF SameSeats
  <2>3. QED BY <2>1, <2>2
<1>2. ASSUME NEW i \in {1, 2}, HandOver(desk, desk', desk.session[desk.hand].players[i]),
             desk'.phase = "settlement"
      PROVE  HubSound' /\ PointsSound'
  <2>1. HubSound'
    BY <1>2, HubEnds DEF SameSeats, Desk!Between
  <2>2. \A p \in Players : desk'.profile[p].points = desk.profile[p].points
    BY <1>2, HandOverPoints DEF HubSound
  <2>3. PointsSound'
    BY <2>2, PointsSame DEF SameSeats
  <2>4. QED BY <2>1, <2>3
<1>3. QED BY <1>1, <1>2 DEF HubTold

LEMMA HubKept ==
  ASSUME HubConstants, HubSound, PointsSound, DeskFields(desk), desk.seats \in Seq(Players),
         [Desk!ClockNext \/ Desk!PromiseNext \/ Desk!HubNext]_desk
  PROVE  HubSound' /\ PointsSound'
<1> DEFINE Quiet == /\ desk'.hand = desk.hand /\ desk'.session = desk.session
                    /\ desk'.profile = desk.profile /\ desk'.promo = desk.promo
                    /\ desk'.reported = desk.reported /\ desk'.granted = desk.granted
                    /\ Desk!Between => Desk!Between'
<1>0. Quiet => HubSound' /\ PointsSound'
  BY HubSame, PointsSame
<1>1. UNCHANGED desk => Quiet
  BY DEF Desk!Between
<1>2. ASSUME NEW p, Desk!Join(p) \/ Desk!Leave(p) PROVE Quiet
  BY <1>2 DEF Desk!Join, Desk!Leave, DeskFields, Desk!Between
<1>3. ASSUME NEW stacks \in Stacks, Desk!StartHand(stacks) PROVE HubSound' /\ PointsSound'
  BY <1>3, HubStarts
<1>4. ASSUME NEW k, Desk!CommitDeal(k) \/ Desk!RevealBoard(k) PROVE Quiet
  BY <1>4 DEF Desk!CommitDeal, Desk!RevealBoard, DeskFields, Desk!Between
<1>5. ASSUME NEW k, Desk!SubmitShowdown(k) PROVE HubSound' /\ PointsSound'
  <2>1. SameSeats(desk, desk') /\ HubTold(desk, desk') /\ ~Desk!Between
    BY <1>5, HubHearsTheEnd, EndIsTold DEF Desk!SubmitShowdown, Desk!Between
  <2>2. QED BY <2>1, HubTold1
<1>6. ASSUME NEW p, NEW seq, NEW kind,
             \/ Desk!PlayerAction(p, seq, kind)
             \/ \E amount : Desk!RevealAction(p, seq, kind, amount)
      PROVE  HubSound' /\ PointsSound'
  <2> DEFINE shown == [did |-> <<kind, desk.hand>>, said |-> desk.commit[p].said]
  <2>1. PICK e \in Desk!Acted(p, kind) :
          \/ desk' = [e EXCEPT !.counter[p] = seq]
          \/ desk' = [e EXCEPT !.commit[p] = Desk!NoCommit, !.counter[p] = seq, !.shown = shown]
    BY <1>6 DEF Desk!PlayerAction, Desk!RevealAction
  <2>2. ~Desk!Between
    BY <1>6 DEF Desk!PlayerAction, Desk!RevealAction, Desk!MayAct, Desk!OnTurn, Desk!Between
  <2> HIDE DEF shown
  <2>3. SameSeats(desk, e) /\ HubTold(desk, e)
    BY BettingGoesOn, BettingTold
  <2>4. /\ DeskFields(desk') /\ desk'.phase = e.phase /\ desk'.hand = e.hand
        /\ desk'.session = e.session /\ desk'.profile = e.profile /\ desk'.promo = e.promo
        /\ desk'.reported = e.reported /\ desk'.granted = e.granted
    BY <2>1, <2>3, ZenonT(30) DEF SameSeats, DeskFields
  <2>5. HubTold(desk, desk')
    BY <2>3, <2>4 DEF HubTold, HandOver
  <2>6. CASE desk'.session = desk.session /\ desk'.profile = desk.profile
    BY <1>0, <2>2, <2>3, <2>4, <2>6 DEF SameSeats
  <2>7. ASSUME NEW i \in {1, 2}, HandOver(desk, desk', desk.session[desk.hand].players[i]),
               desk'.phase = "settlement"
        PROVE  HubSound' /\ PointsSound'
    <3>1. HubSound'
      BY <2>2, <2>3, <2>4, <2>7, HubEnds DEF SameSeats, Desk!Between
    <3>2. \A q \in Players : desk'.profile[q].points = desk.profile[q].points
      BY <2>7, HandOverPoints DEF HubSound
    <3>3. PointsSound'
      BY <2>3, <2>4, <3>2, PointsSame DEF SameSeats
    <3>4. QED BY <3>1, <3>3
  <2>8. QED BY <2>5, <2>6, <2>7 DEF HubTold
<1>7. Desk!CancelHand \/ Desk!Tick => Quiet
  BY DEF Desk!CancelHand, Desk!Tick, DeskFields, Desk!Between
<1>8. ASSUME NEW config, Desk!Configure(config) PROVE Quiet
  BY <1>8 DEF Desk!Configure, DeskFields, Desk!Between
<1>9. ASSUME NEW p, Desk!UseTimeBank(p) PROVE Quiet
  BY <1>9 DEF Desk!UseTimeBank, DeskFields, Desk!Between
<1>10. CASE Desk!ProcessTimeout \/ Desk!ForceFold
  <2>1. PICK deadline : /\ deadline \in {desk.deadline, desk.now + Timeout}
                        /\ Desk!FoldByClock(deadline)
    BY <1>10 DEF Desk!ProcessTimeout, Desk!ForceFold
  <2>2. SameSeats(desk, desk') /\ desk.phase = "betting"
    BY <2>1, ClockFolds
  <2>3. HubTold(desk, desk') /\ ~Desk!Between
    BY <2>1, <2>2, ClockTold DEF Desk!Between
  <2>4. QED BY <2>2, <2>3, HubTold1
<1>11. ASSUME NEW p, NEW kind, NEW amount, Desk!CommitAction(p, kind, amount) PROVE Quiet
  BY <1>11 DEF Desk!CommitAction, DeskFields, Desk!Between
<1>12. ASSUME NEW p \in Players, NEW g \in Games, NEW points \in Nat,
              Desk!RecordCrossPromo(p, g, points)
       PROVE  HubSound' /\ PointsSound'
  <2>1. /\ desk'.hand = desk.hand /\ desk'.session = desk.session /\ desk'.phase = desk.phase
        /\ desk'.profile = desk.profile
    BY <1>12 DEF Desk!RecordCrossPromo, DeskFields
  <2>2. HubSound'
    BY <2>1, HubSame DEF Desk!Between
  <2>3. PointsSound'
    BY <1>12, PointsRecorded DEF HubSound
  <2>4. QED BY <2>2, <2>3
<1>13. ASSUME NEW p \in Players, NEW g \in Games, Desk!ClaimCrossPromo(p, g)
       PROVE  HubSound' /\ PointsSound'
  <2>1. desk.promo[p][g].points \in Nat
    BY DEF PointsSound, PointsTyped, PromoSound
  <2>2. HubSound'
    BY <1>13, <2>1, HubClaimed
  <2>3. PointsSound'
    BY <1>13, PointsClaimed DEF HubSound
  <2>4. QED BY <2>2, <2>3
<1> HIDE DEF Quiet
<1>14. CASE Desk!ClockNext
  BY <1>0, <1>2, <1>3, <1>4, <1>5, <1>6, <1>7, <1>8, <1>9, <1>10, <1>14
  DEF Desk!ClockNext, Desk!SeatsNext, Desk!HandsNext
<1>15. CASE Desk!PromiseNext
  BY <1>0, <1>2, <1>3, <1>4, <1>5, <1>6, <1>7, <1>11, <1>15
  DEF Desk!PromiseNext, Desk!SeatsNext, Desk!HandsNext
<1>16. CASE Desk!HubNext
  <2>1. 1 .. MaxPoints \subseteq Nat
    OBVIOUS
  <2>2. QED
    BY <1>0, <1>2, <1>3, <1>4, <1>5, <1>6, <1>7, <1>12, <1>13, <1>16, <2>1
    DEF Desk!HubNext, Desk!SeatsNext, Desk!HandsNext
<1>17. QED BY <1>0, <1>1, <1>14, <1>15, <1>16

LEMMA HubAddsUp ==
  ASSUME HubConstants, HubSound, PointsSound
  PROVE  Desk!HubCountsAddUp
<1>1. Desk!SumFunctionOnSet([p \in Players |-> desk.profile[p].won], Players)
        = Desk!Cardinality({h \in 1 .. desk.hand : desk.session[h] # Desk!NoSession
                                                   /\ ~desk.session[h].active})
  BY HubBridge DEF HubSound, WinsSound, Wins, Ended
<1>2. ASSUME NEW p \in Players
      PROVE  /\ desk.profile[p].won <= desk.profile[p].played
             /\ desk.profile[p].points <= desk.reported[p] + desk.granted[p]
  <2>1. ProfileSound(desk.profile[p])
    BY DEF HubSound, ProfilesSound
  <2> DEFINE x == SumFunctionOnSet(Waiting(p), Games)
  <2>2. x \in Nat /\ desk.profile[p].points + x <= Told(p) /\ Told(p) \in Nat
    BY WaitingNat DEF PointsSound, PointsTyped, Told
  <2> HIDE DEF x
  <2>3. QED BY <2>1, <2>2 DEF ProfileSound, Told
<1>3. QED BY <1>1, <1>2 DEF Desk!HubCountsAddUp

(* game_hub.rs: the hub credits one win for each hand it was told the end of, also of
   hands that timeouts ended and with cancelled hands among them, to a player who played
   it; and points are what was reported and granted, each promise paid at most once. *)
THEOREM HubStaysInOrder ==
  ASSUME DeskConstants, HubConstants
  PROVE  DeskSpec => []Desk!HubCountsAddUp
<1> DEFINE Inv == DeskOrder /\ ConfigSound /\ BanksSound /\ HubSound /\ PointsSound
<1>1. Desk!Init => Inv
  BY OrderStart, BanksStart, HubStart, PointsStart
<1>2. Inv /\ [Desk!ClockNext \/ Desk!PromiseNext \/ Desk!HubNext]_desk => Inv'
  BY OrderKept, BanksKept, HubKept DEF DeskOrder, BanksSound
<1>3. Inv => Desk!HubCountsAddUp
  BY HubAddsUp
<1>4. QED
  BY <1>1, <1>2, <1>3, PTL DEF DeskSpec
=============================================================================
