# StellPoker: a verification project

StellPoker is a poker platform on Stellar: Soroban contracts hold the money and
the rules, a committee of MPC nodes shuffles and deals, a coordinator drives the
committee and submits its proofs. This directory models

- the **poker-table contract** (`contracts/poker-table`), in which the chips move, in
  detail: rules, pots, entry points, and an abstract escrow it is held to;
- the **contracts around it**: committee registry, bankrolls, prize pools, votes,
  upgrades, roles, table tokens, ratings, rewards, jackpots, and smaller ones;
- the **coordinator** and the **nodes**: hands, proofs, lobby, relayed calls, jobs,
  keys, caches, health, handover, logs, tournaments, statistics, gossip;
- the **practice table** of the web client, a poker engine of its own.

TLC checks all of it on small instances. TLAPS proves, for every instance, the
abstract escrow, the pots of a showdown, and every safety property of the table's
passing runs, its refinement of the escrow among them: that, solvency and the sunset on
the condition that neither of two steps which the findings show ever happens, the others
without. It further proves most of what `MCPlatform` checks of the other contracts, of the
coordinator and of the nodes, one component at a time; the solvency of the committee
registry on one such condition, the rest without. Paths
without a directory are in `contracts/poker-table/src/`, those that begin with `coordinator` or
`node` in `services/`.

## The system

| component | state it keeps | operations | talks to | what is hard | what makes it correct |
|---|---|---|---|---|---|
| poker table, entry points (`lib.rs`) | table record, waiting list, wallet index, pauses, bans, approvals, closure, sweep and sunset records | join, rebuy, leave, queue, start, deal, act, reveal, show down, time out, cancel, emergency, close, sweep, freeze | token contract, proof verifiers, game hub | every call is a transaction, but any caller may come next: actors race, disappear, act on stale records | nobody is paid twice, everything owed is covered, seats and queue stay consistent, a hand ends |
| hand engine (`game.rs`, `betting.rs`) | the hand inside the table record | blinds, antes, straddles, bets, round ends, settlement | pots | long legal sequences; short all-ins; everybody folded, all-in or busted | rounds end matched, streets in order, the pot is what was committed |
| side pots (`pot.rs`) | none (pure) | split, rake, distribute | - | dead money, odd chips, ineligible winners, rounding | every chip is paid once, to somebody who matched it |
| timeouts, time bank (`timeout.rs`, `time_bank.rs`, `hand_cancellation.rs`) | deadline, last action, banks | claim a timeout, force a fold, cancel, extend, refill | hand engine | a claim racing the action; clocks surviving a phase | only a stalling player is folded, and time that was bought runs |
| promised actions, hub (`commit_reveal.rs`, `game-hub`) | commitments, sessions, profiles | commit, reveal, start, end, settle | hand engine | replays, hands that never end at the hub | one action per sequence number; every hand counted once |
| records (`history.rs`, `rake_history.rs`, `anti_cheat.rs`) | ring of hands, rake log, pair counters | archive, page, search | settlement | rings read while written, fading counters | the last hands in order; the rake of any second |
| upgrades (`governance.rs`, `lib.rs`) | proposals, windows, signers | propose, approve, execute, revert | all tables share the code | one table's revert, another's upgrade | code changes endorsed, in time, one step back |
| committee registry | members, stake, epochs, slashes, fee pool, delegations, unbonding | register, slash, delegate, unbond, distribute | token | slashing racing unbonding; rounding of reward shares | tokens held cover everything owed |
| liquidity pool, prize pool, treasury, rewards, jackpots | bankrolls, deposits, points, pools | deposit, allocate, settle, pay | token | shared accounts, rounding, cancel against payout | each pays once, out of its own |
| governance (two), verifier, roles | proposals, votes, keys, status | propose, vote, queue, approve, execute | everything | stake moved between votes, thresholds changed under way | what is executed had its support |
| table tokens, ratings, avatars, token list, hand claims | owners, leases, boards, lists | transfer, lease, rate, list, claim | table | transfers that wait, lists kept beside records | lists agree with records; a lease is kept |
| coordinator: hands (`coordinator/api`) | session per table, snapshots | deal, reveal, show down | contract, nodes, ledger | lost answers, restarts, old snapshots | never a street ahead of the contract; hands go on |
| coordinator: lobby and cards | identities, cached views, commitments | create, join, deal, look up cards | contract, nodes | lock released between reading and using | the cards go to their owner |
| coordinator: relay, caches, ledger | simulations, table views, submissions | simulate, submit, retry, fetch, record | chain | answers that are old when used | a refusal is real; what is kept was on chain |
| coordinator: scheduling, jobs, keys, rollout | queues, jobs, keys, nodes' identities, circuits | admit, preempt, run, rotate, verify, promote | nodes, registry | starvation, overwritten states, crashes between two calls | bounded waits, one run per job, no key stranded, nobody heard twice |
| coordinator: gate, handover, audit | nonces, answers, drain, leases, chains of rows | admit, replay, drain, lead, migrate, log | database | overlapping copies, lost connections, forks | one run per signature; one leader; logs verify as written |
| node health, committees, decommission, scaling | registry, reports, attestations, plans, samples | register, probe, select, repair, drain, scale | nodes | failures while hands are dealt | three different nodes, recently attested; planned leaves |
| proof sessions (`coordinator/mpc.rs`, `node`) | decks, share sets, sessions, proofs | prepare, dispatch, generate, collect, refresh | nodes | lost answers, late calls, restarts | fragments of one committed deck |
| tournaments, statistics, chip-dumping reports | standings, counters, windows | register, settle, poll, report | contract events | places, pages, thresholds | each out once; counts match events |
| gossip between nodes | records of peers | probe, exchange, merge | nodes | reordered digests, false suspicion | views advance, suspicion is dated |
| practice table (`app/src/lib`) | a hand | deal, act, settle | - | the same as the hand engine, written again | no chip made, none lost but unreached ones |

Contracts call each other inside one transaction; the coordinator calls them over
RPC, the nodes over HTTP, and everything in it shares maps behind locks that are
released at every await.

How a hand runs: `start_hand` posts antes, blinds and straddles and waits in
`Dealing`; the committee's `commit_deal` opens `Preflop`; `player_action` runs the
betting rounds; when a round ends the table waits in a dealing phase for the
committee's `reveal_board`, or in `AwaitingRunItTwice` when the two players left
are all-in; `submit_showdown` settles. A fold that leaves one player settles at
once. At any time a timeout may fold the player to act, the committee may cancel
the hand, and after twice the timeout a majority of the seats or the admin may
have everybody refunded. `PROJECT.json` lists the hazards line by line.

## The modules

| module | stands for |
|---|---|
| `TableEscrow` | the abstract specification: what the contract promises about money, without phases, turns or pots |
| `ChipSums` | lemmas about `SumFunctionOnSet`, the sum of a function over a finite set |
| `TableEscrow_proofs` | theorems about `TableEscrow` and their proofs |
| `Pots_proofs`, `MCPots_proofs` | lemmas about `Pots`; the theorems of a showdown |
| `PokerTable_proofs` | theorems about `PokerTable`: phase, board, deadline, pot, who sits where |
| `PokerTableChips_proofs` | the same: where chips go, the refinement, the types |
| `Pots` | `pot.rs` as operators over a table record |
| `HandRules` | `game.rs`, `betting.rs`, `timeout.rs`: each rule maps a table to the set of tables it may leave, `{}` when the code returns an error |
| `PokerTable` | `lib.rs`: one action per entry point, the clock, the properties, and the refinement mapping to `TableEscrow` |
| `MCTableEscrow`, `MCPots`, `MCTable` | instances for TLC; `MCPots` also holds the chip-by-chip reference |
| `MCPlatform` | all the modules below, one instance or more of each |
| `Contracts_proofs`, `Coordinator_proofs` | theorems about the modules below, each instantiated once: contracts; coordinator and nodes, with the prize pool of the tournaments |

`Pots` < `HandRules` < `PokerTable` by EXTENDS, and so do the two modules of proofs
about the table; `PokerTable` instantiates `TableEscrow`, and
`PokerTableChips_proofs` its theorems. The modules below have one variable each, a record of the state that
the component keeps (and, where a property needs it, of what happened), so that
`MCPlatform` can run any of them in its variable `store`.

| module | stands for | its steps |
|---|---|---|
| `CommitteeRegistry` | `committee-registry` | one call each; `Tick` closes a ledger |
| `LiquidityPool`, `JackpotVerifier` | the contracts of those names; the last also `stellar-zk-cards`, the best five of seven cards | one call each |
| `ProtocolGovernance` | `protocol-governance`, `governance` | one call each |
| `SignedUpgrade` | `governance.rs` of verifier and table: N of M signers (values only) | used by the next two |
| `ZkVerifier`, `TableUpgrades` | `zk-verifier`; upgrades of the table's code | one call each; `TableUpgrades` has several tables over one code |
| `AuthManager`, `TableNft`, `PlayerRating` | the contracts of those names | one call each |
| `ServiceContracts` | treasury, token list, avatars, hand claims, points for rake | five machines, one call each |
| `TableDesk` | `time_bank.rs`, `commit_reveal.rs`, the calls to `game-hub` | one call each, over a hand without chips |
| `PlayerStats` | `coordinator/stats.rs`, `anti_dumping.rs`; `history.rs`, `rake_history.rs`, `anti_cheat.rs` | six machines: polling in three steps, figures, detector, pair, ring and reader, rake log |
| `HandCoordinator` | `request_deal`, `request_reveal`, `request_showdown`, hot reload | request begun, proof done, submitted or lost; crash |
| `LobbySeats` | lobby, cached seats, card lookups | each await splits a request |
| `ChainRelay` | `soroban/simulation.rs` and the calls through it | simulate, submit, lose the answer, retry |
| `ChainClient` | `chain_cache.rs`, `submission_ledger.rs`: two machines | one step per lock, query or await |
| `SessionPreemption` | that of the coordinator | one step per lock taken |
| `BackgroundTasks` | the coordinator's job queue, and its rollout of circuits | two machines, one step per lock taken |
| `CommitteeKeys` | `key_rotation.rs`; `api_keys.rs`, `mpc_identity.rs`, `soroban/threshold_signing.rs` | four machines: the rotation task; requests with an API key; signed messages; shares of a settlement, one lock or query each |
| `RequestGate`, `InstanceHandover` | middleware, drain, leader election, migrations | one step per layer or query |
| `NodeHealth`, `CommitteeCapacity` | discovery to repair of committees; decommission and autoscaler | one handler or probe round each |
| `ProofSessions` | `coordinator/mpc.rs` with the node's `api.rs`, `session.rs`, `private_table.rs` | every call arrives, is answered, or is lost, in any order |
| `Gossip` | `node/src/gossip.rs` | probe, exchange, delivery, loss |
| `AuditChain` | `audit_log.rs`, `transcript_log.rs` | read the last hash, insert, tamper, verify |
| `Tournaments` | the contract `prize-pool`; `coordinator/tournament.rs` | two machines, one call or request each |
| `PracticeGame` | `practice-engine.ts`, `practice-bot.ts` | one action or pass of the loop each |

### State and code

The record `t` is `TableState` with its players' fields as functions: `stack`,
`bet` (`bet_this_round`), `committed`, and the sets `folded` and `allIn`;
`seats` lists the players in seat order, and seat numbers start at 0 as in the
code. `t.turn`, `t.dealer`, `t.lastRaise`, `t.pot`, `t.hand` are the fields of those
names; `t.straddler` is the active straddle seat; `t.board` counts the board cards;
`t.sidePots` is the total of the recorded side pots, which is all that is ever read
of them; `t.rake` and `t.jackpot` are the two balances kept beside the table.
`Queued`, `pending`, `approvals`, `pauses`, `banned`, `closure`, `swept`, `sunset`,
`claimed` and `index` are the storage entries of `DataKey` with those meanings.
`escrow` is what the contract account holds for this table, `wallet` what each
player holds, `paidOut` what admin and treasury received.

Ledger numbers are relative: `t.idle` counts ledgers since `last_action_ledger`,
`t.deadline` those left until `action_deadline` (`NoDeadline` for 0),
`t.settledFor` those since the settlement, `closure` those until the closure.

A Soroban call is one transaction: it takes effect as a whole or, on an error, not
at all. So an entry point is one action, and a call that fails is no step.

### What the model leaves to choice, and what it leaves out

- Proofs are external: `submit_showdown` may declare any nonempty set of seats
  best (the winner is the first), report any other seat or nobody as the loser of
  a bad beat, and the outcome statistics may or may not exceed their threshold.
- One token per table, one blind level, no time bank in `PokerTable` (`TableDesk` has
  it, over hands without chips); the straddle configuration and the rake are
  constants, so the configuration setters are not actions.
- `sitting_out` is never set by the code and is left out. `Dispute` and the Run-It-Twice
  phases after an opt-in are not reachable: the committee arms of
  `process_timeout` need a deadline that those phases never have (checked:
  `DeadlineOnlyInBetting`), and no second opt-in is accepted.
- `claim_timeout` on a seat that has folded or is all-in changes nothing in the
  code and is no step here.
- Metrics, events, TTLs and session ids are left out: nothing modelled depends on
  them. History and sequence numbers are in `PlayerStats` and `TableDesk`.
- The contract account is shared by all tables; `escrow` is one table's part of
  it and may go negative where the code overpays (that is how such a flaw shows).
- Beside the table, hashes and signatures are values that are equal or not, a proof
  is what its verification finds, and the content of a message is what the
  handlers look at. Clocks are ages counted up to the largest bound the code
  compares with.

## The runs

| run | instance | checks |
|---|---|---|
| `table_escrow` | two wallets of 2 chips, amounts 0..4, symmetry | `TypeOK`, `Solvent`, `SupplyConserved` of the abstract escrow |
| `pots` | four seats, commitments in {0, 20, 33, 61}, rake 5% | pots against the reference; payout complete and to the right players |
| `hand` | three players with 40, 80 and 100, ante 5, blinds 10/20, one hand | money, streets, deadlines, round ends, folded players, escrow steps, `HandEnds` |
| `seats` | four wallets, two seats, queue of two, two hands, straddles, bans, symmetry | `SeatsConsistent`, `QueueServed`, `ImplementsEscrow` |
| `rescue` | two seated and one waiting, two hands, settlement pauses, closing | `SunsetFinal`, `PausedPotStays`, `RefundedOnce` |
| `platform` | the 59 parts of `MCPlatform`, one after the other | eleven invariants, six action properties, `JobsSettle` |
| `finding_hands`, `finding_places` | two hands of a coordinator; a tournament of four | the two statements refuted beside the table |
| other `finding_*` | two to four players, one hand | one statement of a comment each, which the code does not meet |

What they show:

- `pots`: `PotsMatchChips` takes each single chip and asks who may win it; the
  contract's layers hold exactly those chips. With the three other properties:
  whatever the proof says, every chip is paid once, folded players get nothing
  and a short all-in wins at most her match from each player.
- `hand`: `PotIsCommitted` is what makes a refund exact. `RoundsEndMatched` and
  `BoardMatchesPhase` are the rules of the betting rounds over all sequences,
  including timeouts and the Run-It-Twice detour. `EscrowSteps`: every step is
  one the escrow allows, in particular a settlement keeps the sum and takes at
  most the advertised rake.
- `seats`: `ImplementsEscrow` is the refinement from `create_table` on; the queue
  is first come, first served although players leave it and are banned.
- `rescue`: refunds, closure, sweep and sunset in every order with pauses: no chip
  is paid twice.
- `platform`: a behaviour picks a part at the start and stays in it, so the run is the
  sum of the parts, and a property says of every part what it has to keep:

  | property | parts and what is shown of them |
  |---|---|
  | `RegistrySound` | registry: tokens cover stake, delegations, unbonding, fees and rewards after any slash, totals agree with records, the current epoch is backed, also when a node leaves and comes back; table tokens: balances and waiting transfers; token list, avatars: lists and records agree |
  | `PoolBalanced` | bankrolls: balances, allocations and indexes agree; the account holds the deposits and the rakes that stayed, and a negative rake leaves it short of exactly what it credited |
  | `PayoutsCovered` | prize pools: paid once and to the last chip, from the tournament's own money unless it is cancelled late, names too many eliminations or is given negative numbers; points, jackpots, hub, treasury: paid once, from what is there; the card library ranks two hands over one board as the rules of poker do |
  | `StreetNotAhead` | the coordinator's street has its board on chain, after lost answers and restarts from old snapshots |
  | `SlotsRespected` | slots and preemptions bounded; one leader while connections are noticed; banks within their maximum |
  | `OneRunPerJob` | jobs with one worker; a signed request runs once; one action per sequence number, as promised |
  | `NoKeyStranded` | a key with stake behind it has its secret; no request is let in with a key revoked or expired before it came; a message is heard once and no forgery spends its nonce; a settlement is the committee's if enough nodes signed it |
  | `ProofsWhole` | fragments of one committed deck; committees of three different nodes, recently attested; a transcript that verifies is the one written |
  | `StandingsSound` | leaderboard, tournament, seat figures, dumping reports, the contract's flags |
  | `AnswersFresh` | cached views, ledger entries, event counts, suspicions, the ring of hands and the rake log are what happened |
  | `CardsToOwner` | cards of the current hand reach only the player of their seat |
  | `ChangesHadSupport` | votes, signatures, approvals and proofs behind every change |
  | `LeasesKept` | no transfer in a hand or under a lease |
  | `VersionsInOrder` | keys and views only advance; a revert goes one step back, in its window; a proved rank stays |
  | `HandsAddUp` | the practice table's chips |
  | `WaitsBounded` | no overtaking after the bound; no refusal older than its time; bought time runs |
  | `LeavesAsPlanned` | nodes leave with a plan for every session; scaling within limits |
  | `JobsSettle` | every job asked for ends |

  Three parts have no property of their own (`signed upgrades`, `handover`,
  `reported`): they fire the steps that the others' instances leave out.
- The findings. At the table: `sweep_dead_chips` counts paid side pots; busted seats
  can swallow a pot; a stack that equals the blind exactly is not all-in and can
  win nothing; after a board card the first player cannot be timed out. Each run is
  the smallest table that shows it. In `hand` nobody starts busted or with exactly a
  blind after the ante, and in `rescue` a hand ends only by a fold or a refund, so
  those runs show what holds apart from these four. In the coordinator: a hand that
  ends without a showdown (in the trace it is cancelled while it is dealt, and a stale snapshot
  puts the session back into dealing) blocks the next deal for ever (`HandsGoOn`), and the places
  of a tournament are numbered from all its players at each elimination
  (`PlacesPaidOut`).
- One more, without a run of its own: `register_member` (`committee-registry/src/lib.rs:380`)
  writes a fresh record also for a node that left while its delegators stayed. The record
  has forgotten them, fees are shared over too small a total, and the claims exceed the
  tokens, against the solvency that `docs/committee-slashing-simulation.md:110` states. TLC
  finds it when `ReturnsCovered` is added to the invariants of `MCPlatform.cfg` (part
  `comeback`). The parts `stakes` and `delegations` have no such node; the theorem about the
  registry says that nothing else breaks its books.

### Bounds and why they are enough

- *Players*: three are needed for side pots, blinds distinct from the button and
  a folded player with dead money; four in `pots` for two folded and two live, or
  three tiers plus a fold. Two seats and four wallets are enough for a queue of
  two in which one may be overtaken.
- *Chips*: the stacks 40, 80, 100 with bets of 20 and 40 give short calls, short
  all-ins, over-raises and three all-in levels, and the ante of 5 an uneven pot
  whose rake rounds. The commitments of `pots` differ by amounts that leave odd
  chips for two and three winners.
- *Hands* (`MaxHands`): one hand starts from every relevant stack profile of
  `hand`; two in `seats` and `rescue`, so that records left by a first hand
  (approvals, `committed`, side pots, volunteers) meet a second.
- *Clock*: `Timeout` = 1 ledger; `t.idle` stops at `2 * Timeout`, the largest
  value the code compares with, `t.settledFor` at `DeadChipTimeout`.
- *Platform*: every instance has the fewest actors that can get in each other's way:
  two delegators behind one node and two nodes without (`delegations`, `stakes`), two
  tables over one pool or one code, two copies of one signed request, two requests
  for one table and one for another (`views`), two nodes of a proof with a request
  lost, repeated or restarted (`proofs`) and two requests one after the other
  (`reveals`), four nodes of which three are needed, three that gossip of one that
  fails. Windows, delays and cooldowns are one or two ticks, enough for an event
  before, at and after each. Amounts are such that shares round (buy-ins of 7 in
  splits of 5000, 3333 and 1667), and of both signs where the code takes both: rakes of -1, 0
  and 1, a tournament with a negative fee and bounty, stacks of (5, -1), payouts of (24, -10).
  `MaxShort` bounds what negative rakes may credit in all. `Scale` is 6 instead of 10^12: the rounding of rewards
  is coarser, the rule the same. The eight deals of `showdowns` have hands
  of every category, the low straight among them, and pairs of hands that differ in
  each kicker alone. The ring of `archive` has two records for three hands
  and is read one by one.
- *Where parts are cut* (`DelegationStep`, `ComebackStep`, `RatingStep`, `LobbyStep`,
  `RevealStep`, `ClockStep`, `PromiseStep`): these take the steps of their module that matter to the
  question and leave the others to another instance; `RegistryBooksAgree` with
  pauses, strikes and rake is for `stakes`, without delegations.
- `CHECK_DEADLOCK FALSE`: a table at its hand bound or frozen really stops, and so does
  every bounded part.

### Fairness

`HandEnds` assumes only that ledgers close (`WF(Tick)`) and that each seated player
approves an emergency withdrawal as long as the contract lets her
(`WF(ApproveEmergency(p))`): it is her own money, and any ledger accepts her call.
The committee, the admin, the player to act and every claimant may stop for good.
Without the approvals the property is false, and should be: the code has no
automatic way out.

`JobsSettle` assumes that a spawned task is polled again (`WF(Push(j))`) and that a
worker's loop goes on (`WF(WorkerStep(w))`): tokio runs them, and both are loops without
a condition. `HandsGoOn` is checked under `HandCoordinator!Fair`: somebody keeps asking
for the next deal (`WF(RequestDeal)`), and one that may go through again and again does
(`SF` of its preparation and its commit). Faults may come or not; it fails all the same.

## What is proved

`TableEscrow_proofs`, for every finite set of players, every set of amounts, every
initial wallets and every rake cap (assumptions `PlayersAssumption`,
`AmountsAssumption`, `WalletAssumption`, `RakeAssumption`):

- `TypeCorrect`: `Spec => []TypeOK`; balances never become negative. Inductive as
  it stands, one step per action.
- `AlwaysSolvent`: `Spec => []Solvent`. Inductive together with `TypeOK`: the type is
  needed to know that the sums are sums of numbers. Each action changes one entry
  of a sum, moves an amount between two, or replaces a function by a pointwise
  sum.
- `AlwaysConserved`: `Spec => []SupplyConserved`. Inductive together with `TypeOK`
  and `Solvent`: the refunds and the sunset take from the escrow what `Solvent` says is
  in it.

`PokerTable_proofs`, for every table the assumptions of `HandRules` and `PokerTable`
allow:

- `BoardAlwaysMatches`: `Spec => []BoardMatchesPhase`.
- `DeadlineAlwaysInBetting`: `Spec => []DeadlineOnlyInBetting`; with it the branches of
  `process_timeout` for the committee's phases and Run-It-Twice are dead code.

Both come from one inductive invariant, `InStep(t)`: the two properties as predicates on
a table record, and that the record has the three fields they read (without it an
`EXCEPT` says nothing). Most rules are shown to keep phase, board and deadline
(`SameStep`); what is left is the end of a round, the streets, the answer to
Run-It-Twice and the settlements.

`PokerTable_proofs` further, for the same tables:

- `PotAlwaysCommitted`: `Spec => []PotIsCommitted`. By itself not inductive: an all-in
  puts a stack into the pot, so stacks must be integers, so must payouts, so pots,
  rakes and jackpot shares (`SidePotsArePots`, `PayoutInt`, `PayBadBeatLedger`); a blind is
  only charged to somebody because the search for the next active seat ends inside
  the table (`ClockwiseIsSeat`, from `RoundTheTable`: going round from any seat reaches
  every seat, modulo the number of seats); and a newcomer comes from the queue, so
  the queue's entries are typed too. `PotInv` is that strengthening. A wager is
  `Balanced` (pot and commitments grow by the same amount), the relation is transitive, and
  the start of a hand is a chain of up to four of them. Its assumptions are
  `BlindsAssumption`, `StraddleAssumption`, `SharesAssumption` and `TableAssumption`: what
  `create_table` checks (rake, blinds, player counts), what the setters check (the
  variance share), what the field types say, and two things of a sensible
  configuration the code does not check: positive buy-ins, a jackpot share of at
  most 10000 basis points.

The sums are `SumFunctionOnSet` of the community modules, a fold that the provers
cannot unfold. `ChipSums` shows that it is the one function that adds up the set
element by element; existence and uniqueness are proved on a least counterexample
among the subsets (the strict subset order of a finite set is well founded), and
from it the facts the proofs cite: the empty sum (`SumEmpty`), removing an element
(`SumRemove`), changing one (`SumChange`), adding two functions (`SumPlus`), sums of equal
functions (`SumSame`), and that a sum of numbers is one (`SumNat`, `SumInt`) and is 0
only if all are (`SumZero`). The existence of maxima and minima (`MaxIn`, `MinIn`) is proved
in the same way.

`ChipSums` further proves two ways to add up: over the subsets of a finite set
(`SubsetInduction`, from which sums of sums in either order, `SumSwap`, multiples,
`SumScale`, and bounds, `SumMonotone`) and over elements ranked by a number
(`RankedInduction`: layers by their bound, odd chips by the seat they go to).

`MCPots_proofs`, for every seating, any finite set of commitments and any rake
(`ShowdownAssumption`), so for any showdown that betting can leave:

- `PotsAlwaysMatchChips`, `OnlyMatchedChipsAreWon`, `AlwaysPaidInFull` and
  `DeepWinnerAlwaysTakesAll`: the four invariants of the run `pots`.

The invariant is small (`PaidByPots`: a settled hand was paid what `PayoutTo` says); the
work is in the lemmas of `Pots_proofs`, which speak of any table record. The layers of
a player add up to her commitment, and those below a bound to the part of it below that
bound (`LayersAddUp`); exchanging the two sums gives that the pots together hold
every chip (`PotsHoldStakes`). The rake is part of the pots (`RakeOutOfPots`). Equal shares and odd
chips make up the pot (`SharesAddUp`), hence `PayoutsAddUp`. `MatchedOnly`: what a
contender is eligible for lies below her own commitment, so no other player gives her more.
The sets of contenders separate the layers (`SameContest`), hence the chip-by-chip
reference.

`PokerTable_proofs` on seats, under the assumptions named above:

- `SeatsAlwaysConsistent`, `QueueAlwaysServed`, `PausedPotAlwaysStays` and
  `RefundedOnlyOnce`.

`SeatsConsistent` is not inductive: a newcomer is on no waiting list only because nobody
waits while a seat is free, and the turn stays inside the table only because the seats
are frozen during a hand. `SeatsInv` adds that (and, for the sums of wallets, that they are
numbers), and that a live hand has two contenders (`Contested`): the search for the
next player to act ends, and a hand cannot fall silent with nobody in it. Every step
either moves nobody, or is a seat call, a refund or the sunset (`StepKinds`). The
last two theorems need `PotAlwaysCommitted` besides: a refund pays back stakes because the
pot is what was committed.

`PokerTableChips_proofs`, under the same assumptions:

- `RoundsAlwaysEndMatched`, `FoldedAlwaysStayOut`: unconditional.
- `EscrowOrGap`: every step of every table is a step of the escrow or one of
  `KnownGaps`: a sweep while side pots are recorded, a showdown whose contenders have committed
  nothing. These are the steps at which `finding_sweep` (`lib.rs:2960`) and `finding_busted`
  (`pot.rs:136`) go wrong; there is no third.
- `EscrowImplemented`, `SolventUnlessGap`, `TokensConserved`, `SunsetIsFinal`:
  `ImplementsEscrow`, `Solvent`, the sum of all tokens, and `SunsetFinal`, of every table that
  takes neither of the two steps (`[][~ KnownGaps]_vars`). The condition cannot be dropped: the
  two runs are counterexamples. It is about two steps and not about the
  configuration: everything else a table may do is allowed. The runs `hand`, `seats` and
  `rescue` check these properties without it, on instances that take neither step.
- `TypesAlwaysOK`: `TypeOK`, unconditional.

The argument: the rules of a hand are of two kinds. They move chips from a stack to the
stake of the same player (`Wagering`, which is transitive: antes, blinds, straddle and
bets are chains of it), or they end the hand and award the stakes less the rake
(`Awards`, from `PayoutsAddUp`). A round that goes on is `Matched` when it ends, which
needs that the highest bet only grows and that a turn comes back to whoever has not
matched it. `ChipInv` types the money (`Money`: no negative balance, nothing for those who have
no seat) and the queue's deposits. `TableInv` is `PotInv`, `SeatsInv` and `ChipInv`
together; with it each action is an action of the escrow with the amounts named, or a
stutter. The theorems of `TableEscrow_proofs` are then instantiated with the refinement
mapping (`Accounts`), so that solvency and conservation come from the abstract proof; the sunset needs
`Frozen` besides, that a frozen table stays empty. For the types `TypesInv` joins `TableInv`, the
streets (`HandInStep`: a reveal adds to a board of known size) and the fields left over
(`Typed`, `Records`). One assumption is added, `StructureAssumption`: the bets of a fixed limit are not
negative, which the contract does not check (`types.rs:13-16`).

### Beside the table

`Contracts_proofs` and `Coordinator_proofs` instantiate each module once, with constants and
a variable of its own, and state for every value of the constants what `MCPlatform` checks
on its instances. A hypothesis ...`Constants`, next to the invariant it serves, says what the
constants must be: finite sets of actors, amounts, rates and times that are not negative
(unsigned in the code, refused by it, or, the entries of a settlement, skipped by it),
enumerations. Where the code looks at no sign, the hypothesis does not either: rakes of the
bankrolls, and fees, stacks, prize tiers and custom payouts of tournaments, are integers.
Each section proves that the initial state satisfies an inductive invariant, that every step
keeps it, and that it gives the property; an action property needs the invariant of the state before the step.

| theorem | part of | inductive because |
|---|---|---|
| `PoolStaysBalanced` | `PoolBalanced` | each call changes players' entries of one table and the same sums; what a rake adds or takes is kept on record (`kept`) |
| `RegistryStaysSolvent`, `RegistryBooksStayInOrder` | `RegistrySound` | the debts, rewards included, times `Scale` never exceed the tokens times `Scale`: every floor is in the registry's favour |
| `EpochsStayBacked` | `RegistrySound` | whoever serves has the minimum, or a punishment on record, and unbonding goes through the record |
| `BalancesStayCovering`, `TransfersQueuedSoundly`; `LeasesStayKept` | `RegistrySound`; `LeasesKept` | a balance is at least the number of tables owned; what waits was asked by the owner |
| `TreasuryStaysCovered`, `PointsStayAccounted` | `PayoutsCovered` | totals agree with what came and went; what was paid is bounded by the lowest price so far |
| `PrizesStayOwn` | `PayoutsCovered` | the account is the sum of what the tournaments have left; shares of numbers that are not negative, rounded down from weights that sum to the whole, leave the last place a rest (`SharesFit`, `EquityFits`); of any others it pays at least the net pool (`PaidToBounds`) |
| `ParametersVoted`, `StakesAlwaysAddUp`, `CouncilHadQuorum` | `ChangesHadSupport` | a proposal that is queued was approved by its votes, of voters listed once (`ProposalInOrder`) |
| `CodeAlwaysEndorsed`, `ActionsHadConsent` | `ChangesHadSupport` | signers and approvers are kept as sets, each added by its own call (`UpgradeOpen`, `ActionInOrder`) |
| `VerificationKeysMoveForward`, `RevertsGoBackOneStep` | `VersionsInOrder` | tables of keys have the versions they say; the record of a table's last upgrade is of that table (`RecordsTrue`) |
| `BoughtTimeRuns`, `BanksStayWithinMax` | `WaitsBounded`, `SlotsRespected` | time bought never exceeds the deadline; bank and spending together stay under the maximum |
| `ActionsStayNumbered`, `HubStaysInOrder` | `OneRunPerJob`, `PayoutsCovered` | a nonce is above every number used; the hub's counts are those of the hands it was told of, and an open session is of the table's hand |
| `SessionNeverAhead` | `StreetNotAhead` | answers, snapshots and restarts of the current hand carry a street that the contract had |
| `CardsStayOwned` | `CardsToOwner` | a request under way keeps whom it read the cards for, and of which hand |
| `KeysStayHeld`, `RevokedKeysStayOut`, `HeardOnce`, `QuorumStaysReal` | `NoKeyStranded` | the secret is stored before the key is registered; a row read is the row at that time; nonces and shares on record were accepted |
| `OneRunAtATime`; `CanariesPromotedOnMerit` | `OneRunPerJob`; `ChangesHadSupport` | a job is in one queue once or with one worker; a count belongs to the circuit that is the canary now |
| `LeavesWithPlan`, `ScaledWithCare` | `LeavesAsPlanned` | a plan has every session its node holds; a run of samples is as long as its counter says |
| `LeadersAlone` | `SlotsRespected` | the lock has one holder, whose connection works |
| `ProofsStayWhole` | `ProofsWhole` | what is in flight and what nodes answered is of the session's deck and attempt |
| `SuspicionsStayDated`, `ViewsOnlyAdvance` | `AnswersFresh`, `VersionsInOrder` | every record, in a table or on its way, dates its suspicion from a probe that failed |

Three hypotheses are more than types. `ScalePolicy` asks of the autoscaler that a committee is
retired at no more than half the load at which one is added; the default policy meets it, and
without it a retirement can leave too little room. `RewardsConstants` has prices above zero, as
the contract checks. `NftConstants` says that no account has the name that stands for no owner.

The registry's two theorems have the condition `[][~ RegForgets]_reg`: that no node with
delegations behind it registers again. It is about one step, and `ReturnsCovered` of `MCPlatform`
shows that it cannot be dropped. `EpochsStayBacked` holds without.

Only model-checked:

- `HandEnds` and `JobsSettle`: liveness under fairness is out of the prover's reach.
- `SlotsRespected` and `NoOvertaking` of `SessionPreemption`, and `JackpotVerifier`: they are written
  with RECURSIVE operators, which a module with theorems cannot use. `ListedOnce` and
  `AvatarsApproved` rest on `SelectSeq`, which the provers cannot unfold.
- What an induction over data would need: `HandsRanked` (the best five of seven cards),
  `VerifiedIsIntact` (chains of any length), `HistoryTrue` and `RakeLogTrue` (rings and logs of
  any length), `BoardInOrder`.
- Not attempted: `SignedOnce`, `CommitteesWhole`, `AttestedLately`, the rest of `StandingsSound`
  and of `AnswersFresh`, `RecordsStay`, `HandsAddUp`, `RefusalsReal`.
- `ContendersCanWin`, `SweptWithinMeans`, `StalledCanBeFolded`, `HandsGoOn`, `PlacesPaidOut` and
  `ReturnsCovered` are not theorems: the findings refute them.

## Not modelled

- *Mathematics*: proofs, shares, hashes and signatures are what their checks find; the
  Noir circuits are relations, not state machines.
- *I/O and layout*: routing, CORS, metrics, archives, the pages of the web client.
- *Views*: event names, storage lifetimes, configuration versions, dispute windows
  and getters; nothing reads them back.
- *Currencies*: one token per table; `buy_in_with_currency` is left out with
  `multi_currency.rs`, and `reclaim_dead_chips`, which takes a hash for a public key and can
  accept no claim.
- *Code that is never reached*: a tournament's balancing (its list of tables is never
  filled), Run-It-Twice after an opt-in in `PokerTable`, `cancel_session` and the
  collection of expired sessions (`mpc_sessions` is never filled).
- `coordinator/main.rs` uses `is_draining` at lines 1294 and 1318 without declaring it;
  `NodeHealth` takes it for what the node's `/health` said in that round.
- Without a database the coordinator lets every node's request in; `CommitteeKeys` has
  one. Its usage log names keys by the first bytes of the key
  (`coordinator/api_keys.rs:222`), which no row's `key_id` is, a random one; the log is
  left out. Two node ids with one address count as two signers of a settlement.
- `Gossip` assumes that the clocks agree: a merge copies the sender's times, and with
  skewed clocks a healthy node is declared faulty at once. The module's doc says that
  only the owner of a record increments its version; the observers do it too
  (`mark_alive`, `mark_suspect`), so two of them may hold different states under one
  version for good.

## Plan

1. *Done*: the escrow and its proofs; pots; hand rules; the table and its runs; the
   contracts around it, the coordinator, the nodes and the practice table.
2. *Done*: proofs about the escrow, the pots, and the table.
3. *Done*: proofs about the contracts around the table, the coordinator and the nodes.
4. Proofs of what is left of `MCPlatform`: the log and the transcripts (`AuditChain`), node
   health, the request gate, the coordinator's tournament.
5. The blind schedule with its breaks, in `TableDesk`.
6. A run for the Run-It-Twice opt-in that no second player can make, and one for the
   versions of `Gossip`.
