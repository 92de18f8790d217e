-------------------------- MODULE CommitteeRegistry --------------------------
(***************************************************************************)
(* The committee registry: nodes put up stake, others delegate to them,    *)
(* epochs are drawn from the active nodes, rake and node fees are shared,  *)
(* and a node that stalls a game is slashed together with everything that  *)
(* backs it.  A call takes effect as a whole or not at all, so the         *)
(* contract's storage is one record that each call replaces.               *)
(***************************************************************************)
EXTENDS Integers, FiniteSets, Functions

CONSTANTS
  Nodes, Delegators,
  Returning,        \* nodes that may register a second time
  Region,           \* the region each node registers with
  Operators,        \* infrastructure operators a node may declare
  Amounts,          \* amounts of one call
  Supply,           \* tokens in existence
  MinStake, FeeRateBps, MinWithdrawal,
  AffectedCounts,   \* how many players a stalled game may have
  Cooldown,         \* delegation_cooldown_ledgers
  PhaseTimeout,     \* ledgers until a tracked game counts as stalled
  Scale,            \* REWARD_SCALE
  MaxPerStake       \* bound on rewards_per_stake, which only grows

VARIABLE reg

StrikeLimit == 3
NoOperator == "none"
NotMember == [stake |-> 0, active |-> FALSE, strikes |-> 0, delegated |-> 0,
              perStake |-> 0, operator |-> NoOperator]
NoGame == [idle |-> 0, affected |-> 0, resolved |-> TRUE]
NoRequest == [amount |-> 0, left |-> 0]

Init ==
  reg = [members    |-> {},                               \* AllMembers
         member     |-> [n \in Nodes |-> NotMember],
         delegation |-> [d \in Delegators |-> [n \in Nodes |->
                           [amount |-> 0, debt |-> 0, pending |-> 0]]],
         cooling    |-> [d \in Delegators |-> [n \in Nodes |-> NoRequest]],
         unbonding  |-> [n \in Nodes |-> NoRequest],
         reward     |-> [n \in Nodes |-> 0],              \* PendingReward
         rewards    |-> 0,                                \* PendingTotal
         pool       |-> 0,                                \* FeePool
         epoch      |-> {},                               \* members of the current epoch
         game       |-> NoGame,
         paused     |-> FALSE,
         held       |-> 0]                                \* tokens of the contract

(* Division rounds towards zero. *)
Quotient(a, b) == IF b > 0 THEN a \div b ELSE -(a \div (-b))
Min(a, b) == IF a < b THEN a ELSE b
Over(S, f(_)) == SumFunctionOnSet([x \in S |-> f(x)], S)
Spare(amount) == reg.held + amount <= Supply

CalcPending(rec, perStake) ==
  IF rec.amount = 0 \/ perStake <= rec.debt THEN 0
  ELSE (rec.amount * (perStake - rec.debt)) \div Scale

(* The delegation with its rewards written down as of now. *)
Checkpoint(rec, perStake) ==
  [rec EXCEPT !.pending = @ + CalcPending(rec, perStake), !.debt = perStake]

-----------------------------------------------------------------------------
Register(n, stake) ==
  /\ ~reg.paused /\ stake >= MinStake /\ Spare(stake)
  /\ n \in reg.members => n \in Returning
  /\ reg' = [reg EXCEPT !.members = @ \union {n}, !.held = @ + stake,
                        !.member[n] = [NotMember EXCEPT !.stake = stake, !.active = TRUE]]

SetOperator(n, op) ==
  /\ n \in reg.members
  /\ reg' = [reg EXCEPT !.member[n].operator = op]

Deregister(n) ==
  /\ ~reg.paused /\ n \in reg.members /\ n \notin reg.epoch
  /\ reg' = [reg EXCEPT !.member[n].stake = 0, !.member[n].active = FALSE,
                        !.held = @ - reg.member[n].stake]

DeregisterOnFailure(n) ==
  /\ ~reg.paused /\ reg.member[n].active
  /\ reg' = [reg EXCEPT !.member[n].active = FALSE,
                        !.member[n].strikes = Min(StrikeLimit, @ + 1)]

(* The policy of geographic diversity: no region twice, no declared operator
   twice.  The threshold is only compared with the number of members. *)
Diverse(S) ==
  \A m, n \in S : m # n =>
    /\ Region[m] # Region[n]
    /\ NoOperator \in {reg.member[m].operator, reg.member[n].operator}
         \/ reg.member[m].operator # reg.member[n].operator

CreateEpoch(S) ==
  /\ ~reg.paused /\ \A n \in S : reg.member[n].active
  /\ Diverse(S)
  /\ reg' = [reg EXCEPT !.epoch = S]

SetPaused(b) == reg' = [reg EXCEPT !.paused = b]

-----------------------------------------------------------------------------
(* Slashing. *)
TrackGamePhase(affected) ==
  /\ affected > 0
  /\ reg' = [reg EXCEPT !.game = [idle |-> 0, affected |-> affected, resolved |-> FALSE]]

HalfOf(x) == x \div 2

(* Mutant: what is cooling down is halved but paid out in full. *)
SlashedTotal_CoolingInFull(n) ==
  HalfOf(reg.member[n].stake)
  + Over(Delegators, LAMBDA d : HalfOf(reg.delegation[d][n].amount) + reg.cooling[d][n].amount)

SlashedTotal(n) ==
  HalfOf(reg.member[n].stake)
  + Over(Delegators, LAMBDA d : HalfOf(reg.delegation[d][n].amount)
                                + HalfOf(reg.cooling[d][n].amount))

(* slash_member_stake: every layer behind the node loses half, rounded down;
   rewards are written down before the principal shrinks. *)
Halved(rec) == [rec EXCEPT !.amount = @ - HalfOf(@)]

Slashed(n) ==
  LET m == reg.member[n] IN
  [reg EXCEPT
    !.member[n] = [m EXCEPT !.stake = m.stake - HalfOf(m.stake), !.active = FALSE,
                            !.strikes = Min(StrikeLimit, m.strikes + 1),
                            !.delegated = m.delegated - Over(Delegators,
                               LAMBDA d : HalfOf(reg.delegation[d][n].amount))],
    !.delegation = [d \in Delegators |->
       [reg.delegation[d] EXCEPT ![n] = Halved(Checkpoint(reg.delegation[d][n], m.perStake))]],
    !.cooling = [d \in Delegators |->
       [reg.cooling[d] EXCEPT ![n] = Halved(reg.cooling[d][n])]]]

(* Equal shares, the odd stroops to the first of the k players. *)
RedistributeSlashedStake(amount, k) ==
  Over(1 .. k, LAMBDA i : amount \div k + IF i <= amount % k THEN 1 ELSE 0)

(* report_timeout: anybody may call it, paused or not. *)
ReportTimeout(n) ==
  /\ ~reg.game.resolved /\ reg.game.idle >= PhaseTimeout /\ n \in reg.members
  /\ reg' = [Slashed(n) EXCEPT !.game.resolved = TRUE, 
         !.held = @ - RedistributeSlashedStake(SlashedTotal(n), reg.game.affected)]

(* report_slash: the third strike halves the node's own stake, which stays here. *)
ReportSlash(n) ==
  /\ ~reg.paused /\ n \in reg.members
  /\ LET m == reg.member[n]
         strikes == Min(StrikeLimit, m.strikes + 1)
     IN reg' = [reg EXCEPT !.member[n] =
          IF strikes < StrikeLimit THEN [m EXCEPT !.strikes = strikes]
          ELSE [m EXCEPT !.strikes = strikes, !.stake = m.stake - HalfOf(m.stake),
                         !.active = FALSE]]

-----------------------------------------------------------------------------
(* Rake, shared by effective stake; the dust of the floors stays in the pool. *)
DepositRake(amount) ==
  /\ ~reg.paused /\ Spare(amount)
  /\ reg' = [reg EXCEPT !.pool = @ + amount, !.held = @ + amount]

EffectiveStake(n) == reg.member[n].stake + reg.member[n].delegated
ActiveMembers == {n \in reg.members : reg.member[n].active}
TotalEffective == Over(ActiveMembers, EffectiveStake)
Share(n) ==
  IF n \in ActiveMembers /\ EffectiveStake(n) > 0
  THEN (reg.pool * EffectiveStake(n)) \div TotalEffective ELSE 0

DistributeFees ==
  /\ ~reg.paused /\ reg.pool > 0 /\ TotalEffective > 0
  /\ LET distributed == Over(Nodes, Share) IN
     reg' = [reg EXCEPT !.reward = [n \in Nodes |-> @[n] + Share(n)],
                        !.pool = @ - distributed, !.rewards = @ + distributed]

WithdrawRewards(n) ==
  /\ ~reg.paused /\ reg.reward[n] > 0 /\ reg.reward[n] >= MinWithdrawal
  /\ reg' = [reg EXCEPT !.reward[n] = 0, !.rewards = @ - reg.reward[n],
                        !.held = @ - reg.reward[n]]

-----------------------------------------------------------------------------
(* Delegation. *)
Delegate(d, n, amount) ==
  /\ ~reg.paused /\ reg.member[n].active /\ Spare(amount)
  /\ reg' = [reg EXCEPT
       !.delegation[d][n] = [Checkpoint(@, reg.member[n].perStake)
                               EXCEPT !.amount = reg.delegation[d][n].amount + amount],
       !.member[n].delegated = @ + amount, !.held = @ + amount]

Undelegate(d, n, amount) ==
  /\ ~reg.paused /\ reg.cooling[d][n] = NoRequest
  /\ reg.delegation[d][n].amount >= amount
  /\ reg' = [reg EXCEPT
       !.delegation[d][n] = [Checkpoint(@, reg.member[n].perStake)
                               EXCEPT !.amount = reg.delegation[d][n].amount - amount],
       !.member[n].delegated = @ - amount,
       !.cooling[d][n] = [amount |-> amount, left |-> Cooldown]]

WithdrawUndelegation(d, n) ==
  /\ ~reg.paused /\ reg.cooling[d][n] # NoRequest /\ reg.cooling[d][n].left = 0
  /\ reg' = [reg EXCEPT !.cooling[d][n] = NoRequest,
                        !.held = @ - reg.cooling[d][n].amount]

Claimable(d, n) ==
  reg.delegation[d][n].pending + CalcPending(reg.delegation[d][n], reg.member[n].perStake)

ClaimRewards(d, n) ==
  /\ ~reg.paused /\ Claimable(d, n) > 0
  /\ reg' = [reg EXCEPT !.held = @ - Claimable(d, n),
       !.delegation[d][n] = [@ EXCEPT !.pending = 0, !.debt = reg.member[n].perStake]]

(* The operator takes her rate, the delegators the rest; without delegations
   everything goes to the operator and nothing stays here. *)
DistributeNodeFees(n, amount) ==
  /\ ~reg.paused /\ n \in reg.members /\ Spare(amount)
  /\ LET delegated == reg.member[n].delegated
         rest == amount - (amount * FeeRateBps) \div 10000
         perStake == reg.member[n].perStake + Quotient(rest * Scale, delegated)
     IN  /\ delegated # 0 /\ perStake <= MaxPerStake
         /\ reg' = [reg EXCEPT !.held = @ + rest, !.member[n].perStake = perStake]

-----------------------------------------------------------------------------
(* The operator's own stake. *)
TopUpStake(n, amount) ==
  /\ ~reg.paused /\ reg.member[n].active /\ Spare(amount)
  /\ reg' = [reg EXCEPT !.member[n].stake = @ + amount, !.held = @ + amount]

BeginStakeUnbonding(n, amount) ==
  /\ ~reg.paused /\ reg.unbonding[n] = NoRequest /\ n \in reg.members
  /\ reg.member[n].stake - amount >= MinStake
  /\ reg' = [reg EXCEPT !.member[n].stake = @ - amount,
                        !.unbonding[n] = [amount |-> amount, left |-> Cooldown]]

CompleteStakeUnbonding(n) ==
  /\ ~reg.paused /\ reg.unbonding[n] # NoRequest /\ reg.unbonding[n].left = 0
  /\ reg' = [reg EXCEPT !.unbonding[n] = NoRequest, !.held = @ - reg.unbonding[n].amount]

(* A ledger closes; the clock stops where nothing waits for it. *)
Nearer(req) == [req EXCEPT !.left = IF @ = 0 THEN 0 ELSE @ - 1]
Tick ==
  reg' = [reg EXCEPT
    !.game.idle = IF reg.game.resolved THEN 0 ELSE Min(PhaseTimeout, @ + 1),
    !.unbonding = [n \in Nodes |-> Nearer(@[n])],
    !.cooling = [d \in Delegators |-> [n \in Nodes |-> Nearer(@[d][n])]]]

Next ==
  \/ \E n \in Nodes : \/ Deregister(n) \/ DeregisterOnFailure(n)
                      \/ ReportTimeout(n) \/ ReportSlash(n)
                      \/ WithdrawRewards(n) \/ CompleteStakeUnbonding(n)
                      \/ \E op \in Operators : SetOperator(n, op)
  \/ \E n \in Nodes, a \in Amounts : \/ Register(n, a) \/ DistributeNodeFees(n, a)
                                     \/ TopUpStake(n, a) \/ BeginStakeUnbonding(n, a)
  \/ \E d \in Delegators, n \in Nodes :
       \/ WithdrawUndelegation(d, n) \/ ClaimRewards(d, n)
       \/ \E a \in Amounts : Delegate(d, n, a) \/ Undelegate(d, n, a)
  \/ \E S \in SUBSET Nodes : CreateEpoch(S)
  \/ \E b \in BOOLEAN : SetPaused(b)
  \/ \E a \in Amounts : DepositRake(a)
  \/ \E k \in AffectedCounts : TrackGamePhase(k)
  \/ DistributeFees \/ Tick

Spec == Init /\ [][Next]_reg

-----------------------------------------------------------------------------
(* slashing_sim_test.rs, docs/committee-slashing-simulation.md. *)

(* Solvency: the contract never owes more than it holds.  It owes stake, stake
   being unbonded, delegations, delegations cooling down, rewards claimable by
   delegators and the two fee balances. *)
Owed ==
  Over(Nodes, LAMBDA n : reg.member[n].stake + reg.unbonding[n].amount
    + Over(Delegators, LAMBDA d : reg.delegation[d][n].amount + reg.cooling[d][n].amount
                                  + Claimable(d, n)))
  + reg.pool + reg.rewards

RegistrySolvent == Owed <= reg.held

(* Accounting consistency: the totals kept beside the records are the sums of
   the records, and nothing is negative. *)
RegistryBooksAgree ==
  /\ reg.rewards = Over(Nodes, LAMBDA n : reg.reward[n])
  /\ reg.pool >= 0
  /\ \A n \in Nodes :
       /\ reg.member[n].delegated = Over(Delegators, LAMBDA d : reg.delegation[d][n].amount)
       /\ reg.member[n].stake >= 0
       /\ \A d \in Delegators : reg.delegation[d][n].amount >= 0

(* A node of the current epoch has the minimum at stake unless it was punished:
   stake cannot be withdrawn or unbonded from under an epoch. *)
EpochBacked ==
  \A n \in reg.epoch : reg.member[n].stake >= MinStake \/ reg.member[n].strikes > 0
=============================================================================
