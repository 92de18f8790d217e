---------------------------- MODULE LiquidityPool ----------------------------
(***************************************************************************)
(* The shared bankroll pool: a player deposits once and splits the deposit *)
(* over tables; a hand is settled between the allocations of one table,    *)
(* without moving a token but the rake.  One token; the storage of the     *)
(* contract is one record.                                                 *)
(***************************************************************************)
EXTENDS Integers, Functions

CONSTANTS
  Players, Tables,
  Callers,      \* accounts of tables that the admin may authorise
  Admin,
  Amounts,      \* amounts of one call, positive
  Rakes,        \* rakes of one hand, of either sign
  MaxShort,     \* bound on what negative rakes credit out of nothing
  Supply,       \* tokens in existence
  Timeout,      \* EmergencyTimeoutLedgers
  MaxTotal      \* bound on the recorded total of a table, which may only grow

VARIABLE pool

Init ==
  pool = [deposited  |-> [p \in Players |-> 0],
          available  |-> [p \in Players |-> 0],
          locked     |-> [p \in Players |-> 0],
          allocation |-> [p \in Players |-> [t \in Tables |-> 0]],
          tables     |-> [p \in Players |-> {}],       \* PlayerTables
          players    |-> [t \in Tables |-> {}],        \* TablePlayers
          total      |-> [t \in Tables |-> 0],         \* TableTotalAllocation
          idle       |-> [t \in Tables |-> Timeout],   \* ledgers since TableLastActivity
          authorized |-> {},
          kept       |-> 0,     \* history: the rakes that did not leave, also negative ones
          held       |-> 0]

Total(f, S) == SumFunctionOnSet(f, S)
Authorized(c) == c = Admin \/ c \in pool.authorized

SetAuthorizedCaller(c, yes) ==
  pool' = [pool EXCEPT !.authorized = IF yes THEN @ \union {c} ELSE @ \ {c}]

Deposit(p, amount) ==
  /\ pool.held + amount <= Supply
  /\ pool' = [pool EXCEPT !.deposited[p] = @ + amount, !.available[p] = @ + amount,
                          !.held = @ + amount]

Withdraw(p, amount) ==
  /\ pool.available[p] >= amount /\ pool.held >= amount
  /\ pool' = [pool EXCEPT !.deposited[p] = @ - amount, !.available[p] = @ - amount,
                          !.held = @ - amount]

(* The indexes list a player at a table as long as her allocation there is
   not zero. *)
Indexed(s, who, t) ==
  LET out == {p \in who : s.allocation[p][t] = 0} IN
  [s EXCEPT !.tables = [p \in Players |-> IF p \in out THEN @[p] \ {t}
                                          ELSE IF p \in who THEN @[p] \union {t} ELSE @[p]],
            !.players[t] = (@ \ out) \union (who \ out)]

(* allocate_to_table: the player herself, the admin or an authorised caller. *)
AllocateToTable(c, p, t, amount) ==
  /\ c = p \/ Authorized(c)
  /\ pool.available[p] >= amount /\ pool.total[t] + amount <= MaxTotal
  /\ pool' = Indexed([pool EXCEPT !.available[p] = @ - amount, !.locked[p] = @ + amount,
                                  !.allocation[p][t] = @ + amount,
                                  !.total[t] = @ + amount, !.idle[t] = 0], {p}, t)

DeallocateFromTable(c, p, t, amount) ==
  /\ c = p \/ Authorized(c)
  /\ pool.allocation[p][t] >= amount
  /\ pool' = Indexed([pool EXCEPT !.available[p] = @ + amount, !.locked[p] = @ - amount,
                                  !.allocation[p][t] = @ - amount,
                                  !.total[t] = IF @ >= amount THEN @ - amount ELSE 0,
                                  !.idle[t] = 0], {p}, t)

(* Mutant: the winnings are not added to what the players have deposited. *)
Settled_Undeposited(s, t, losses, wins) ==
  LET result(p) == wins[p] - losses[p] IN
  [s EXCEPT !.allocation = [p \in Players |-> [s.allocation[p] EXCEPT ![t] = @ + result(p)]],
            !.locked     = [p \in Players |-> @[p] + result(p)],
            !.deposited  = [p \in Players |-> @[p] - losses[p]]]

(* The results of a hand change what the players have at the table, what they
   have locked and what they have deposited. *)
Settled(s, t, losses, wins) ==
  LET result(p) == wins[p] - losses[p] IN
  [s EXCEPT !.allocation = [p \in Players |-> [s.allocation[p] EXCEPT ![t] = @ + result(p)]],
            !.locked     = [p \in Players |-> @[p] + result(p)],
            !.deposited  = [p \in Players |-> @[p] + result(p)]]

(* What the players can lose at a table; nothing, if they are not listed. *)
Results   == [Players -> Amounts \union {0}]
Losses(t) == {f \in Results : \A p \in Players : f[p] <= pool.allocation[p][t]}

(* settle_table_hand, with what each player loses and wins in all: her entries in
   the lists add up, entries that are not positive are skipped, and all losses come
   before the winnings.  There may be no losers or no winners, and a player may be
   both.  Nothing looks at the sign of the rake: a negative one lets more be won
   than was lost.  A positive one leaves only if the caller says to whom. *)
SettleTableHand(c, t, losses, wins, rake, paid) ==
  LET listed == {p \in Players : losses[p] > 0 \/ wins[p] > 0}
      leaves == IF rake > 0 /\ paid THEN rake ELSE 0 IN
  /\ Authorized(c) /\ losses \in Losses(t)
  /\ Total(losses, Players) = Total(wins, Players) + rake
  /\ pool.held >= leaves /\ pool.kept + rake >= -MaxShort
  /\ pool' = Indexed([Settled(pool, t, losses, wins) EXCEPT
                        !.idle[t] = 0, !.held = @ - leaves, !.kept = @ + rake - leaves],
                     listed, t)

(* emergency_unlock: the table has been idle too long; its total is not touched. *)
EmergencyUnlock(p, t) ==
  /\ pool.allocation[p][t] > 0 /\ pool.idle[t] >= Timeout
  /\ pool' = Indexed([pool EXCEPT !.available[p] = @ + pool.allocation[p][t],
                                  !.locked[p] = @ - pool.allocation[p][t],
                                  !.allocation[p][t] = 0], {p}, t)

(* A ledger closes. *)
Tick ==
  pool' = [pool EXCEPT !.idle = [t \in Tables |-> IF @[t] < Timeout THEN @[t] + 1 ELSE @[t]]]

Next ==
  \/ \E c \in Callers, yes \in BOOLEAN : SetAuthorizedCaller(c, yes)
  \/ \E p \in Players, a \in Amounts :
       \/ Deposit(p, a) \/ Withdraw(p, a)
       \/ \E t \in Tables, c \in Callers \union {p, Admin} :
            AllocateToTable(c, p, t, a) \/ DeallocateFromTable(c, p, t, a)
  \/ \E t \in Tables :
       \E losses \in Losses(t), wins \in Results :
         LET rake == Total(losses, Players) - Total(wins, Players) IN   \* no other is accepted
         rake \in Rakes /\ \E c \in Callers \union {Admin}, paid \in BOOLEAN :
                            SettleTableHand(c, t, losses, wins, rake, paid)
  \/ \E p \in Players, t \in Tables : EmergencyUnlock(p, t)
  \/ Tick

Spec == Init /\ [][Next]_pool

-----------------------------------------------------------------------------
(* The three balances of a player, her allocations and the two indexes tell the
   same story whatever order of hands, transfers and unlocks brought them there; and
   the pool holds every deposit and the rakes it kept, no more and no less: what is
   missing for the deposits is what negative rakes credited to somebody. *)
PoolBalanced ==
  /\ \A p \in Players :
       /\ pool.available[p] >= 0 /\ pool.locked[p] >= 0
       /\ pool.deposited[p] = pool.available[p] + pool.locked[p]
       /\ pool.locked[p] = Total(pool.allocation[p], Tables)
       /\ pool.tables[p] = {t \in Tables : pool.allocation[p][t] > 0}
  /\ \A t \in Tables : pool.players[t] = {p \in Players : pool.allocation[p][t] > 0}
  /\ pool.held >= 0 /\ pool.held = Total(pool.deposited, Players) + pool.kept
=============================================================================
