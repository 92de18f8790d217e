----------------------------- MODULE MCPlatform ------------------------------
(***************************************************************************)
(* The contracts around the poker table, the coordinator's own state       *)
(* machines and the practice table, each on a small instance.  They share  *)
(* no state, so a behaviour picks one of them at the start and follows it: *)
(* `part` says which, `store` is its variable.                             *)
(***************************************************************************)
EXTENDS Integers, Sequences

VARIABLES part, store

vars == <<part, store>>

-----------------------------------------------------------------------------
(* Money. *)
Stakes == INSTANCE CommitteeRegistry WITH
  reg <- store, Nodes <- {"n1", "n2"}, Delegators <- {}, Returning <- {},
  Region <- [n1 |-> "eu", n2 |-> "us"], Operators <- {}, Amounts <- {1, 2}, Supply <- 3,
  MinStake <- 1, FeeRateBps <- 0, MinWithdrawal <- 1, AffectedCounts <- {3}, Cooldown <- 1,
  PhaseTimeout <- 1, Scale <- 6, MaxPerStake <- 0

Delegations == INSTANCE CommitteeRegistry WITH
  reg <- store, Nodes <- {"n1"}, Delegators <- {"d1", "d2"}, Returning <- {},
  Region <- [n1 |-> "eu"], Operators <- {"op"}, Amounts <- {1, 2}, Supply <- 4,
  MinStake <- 1, FeeRateBps <- 0, MinWithdrawal <- 1, AffectedCounts <- {1}, Cooldown <- 1,
  PhaseTimeout <- 1, Scale <- 6, MaxPerStake <- 10

(* A node that leaves, comes back and registers again; two delegators stay. *)
Comeback == INSTANCE CommitteeRegistry WITH
  reg <- store, Nodes <- {"n1"}, Delegators <- {"d1", "d2"}, Returning <- {"n1"},
  Region <- [n1 |-> "eu"], Operators <- {}, Amounts <- {1}, Supply <- 5,
  MinStake <- 1, FeeRateBps <- 0, MinWithdrawal <- 1, AffectedCounts <- {}, Cooldown <- 0,
  PhaseTimeout <- 0, Scale <- 6, MaxPerStake <- 12

Pool == INSTANCE LiquidityPool WITH
  pool <- store, Players <- {"p1", "p2"}, Tables <- {"t1", "t2"}, Callers <- {"c1"},
  Admin <- "admin", Amounts <- {1, 2}, Rakes <- {-1, 0, 1}, MaxShort <- 1, Supply <- 3,
  Timeout <- 1, MaxTotal <- 3

Prizes == INSTANCE Tournaments WITH
  prize <- store, tour <- store, Tournaments <- {"t1", "t2"}, Entrants <- {"p1", "p2"},
  BuyIn <- 7, RakeFee <- [t1 |-> 2, t2 |-> -1], Bounty <- [t1 |-> 1, t2 |-> -2],
  MinPlayers <- 2, MaxPlayers <- 2,
  Mode <- [t1 |-> "TopN", t2 |-> "WinnerTakeAll"], Splits <- <<5000, 3333, 1667>>,
  Stacks <- {<<5, 3>>, <<1, 1, 2>>, <<5, -1>>, <<-5, 1>>}, Tiers <- {<<14>>, <<7, 7>>, <<24, -10>>},
  MaxEliminations <- 3,
  Players <- {}, Shares <- <<>>, LevelHands <- <<>>

Leases == INSTANCE TableNft WITH
  nft <- store, Accounts <- {"a", "b"}, Tables <- {"t1"}, MaxRent <- 1, MaxBalance <- 2

Ratings == INSTANCE PlayerRating WITH
  rating <- store, Players <- {"a", "b", "c"}, InitialRating <- 1500,
  Configs <- {[minHands |-> 0, k |-> 32], [minHands |-> 2, k |-> 32]},
  Hands <- {<<"a", "b">>, <<"a", "b", "c">>, <<"b", "c">>}, MaxHands <- 3

Jackpots == INSTANCE JackpotVerifier WITH
  jackpot <- store, Claimants <- {"a"}, Keys <- {<<1, 1>>, <<1, 2>>}, Amounts <- {1, 2},
  MaxFunded <- 3, Kinds <- {"BadBeat", "RoyalFlush", "StraightFlush"},
  Hands <- {[category |-> 7, rank |-> 5, losing |-> TRUE],
            [category |-> 9, rank |-> 12, losing |-> FALSE]},
  Deals <- {},
  Configs <- {[category |-> 7, rank |-> 8, straightFlush |-> 9, royal |-> TRUE, score |-> 0],
              [category |-> 7, rank |-> 2, straightFlush |-> 8, royal |-> FALSE, score |-> 100]}

(* Two players over boards with straights, flushes, pairs and three of a kind. *)
Showdowns == INSTANCE JackpotVerifier WITH
  jackpot <- store, Claimants <- {}, Keys <- {}, Amounts <- {}, MaxFunded <- 0, Kinds <- {},
  Hands <- {}, Configs <- {},
  Deals <- {[board |-> {0, 14, 24, 28, 50}, rest |-> {11, 12, 16, 30, 40, 42}],
            [board |-> {8, 9, 10, 17, 30}, rest |-> {4, 7, 11, 12, 38, 43}],
            [board |-> {0, 10, 11, 23, 24}, rest |-> {1, 15, 12, 36, 37, 43}],
            [board |-> {2, 3, 11, 25, 33}, rest |-> {0, 1, 4, 9, 18, 20}],
            [board |-> {3, 12, 25, 36, 47}, rest |-> {9, 23, 24, 34, 38, 42}],
            [board |-> {2, 3, 4, 5, 25}, rest |-> {1, 6, 12, 19, 27, 38}],
            [board |-> {0, 13, 20, 26, 39}, rest |-> {5, 6, 8, 11, 12, 25}],
            [board |-> {1, 16, 22, 31, 46}, rest |-> {0, 12, 24, 25, 28, 36}]}

(* Delegators and one stalled game after another: no pauses, strikes or rake. *)
DelegationStep ==
  \/ \E n \in {"n1"} : Delegations!ReportTimeout(n) \/ Delegations!Deregister(n)
                        \/ Delegations!SetOperator(n, "op")
  \/ \E n \in {"n1"}, a \in {1, 2} :
       Delegations!Register(n, a) \/ Delegations!DistributeNodeFees(n, a)
  \/ \E d \in {"d1", "d2"}, n \in {"n1"} :
       \/ Delegations!WithdrawUndelegation(d, n) \/ Delegations!ClaimRewards(d, n)
       \/ \E a \in {1, 2} : Delegations!Delegate(d, n, a) \/ Delegations!Undelegate(d, n, a)
  \/ Delegations!TrackGamePhase(1)
  \/ Delegations!Tick

(* Nobody withdraws: what the node's record forgets is still owed. *)
ComebackStep ==
  \/ Comeback!Register("n1", 1) \/ Comeback!Deregister("n1")
  \/ Comeback!DistributeNodeFees("n1", 1)
  \/ \E S \in {{}, {"n1"}} : Comeback!CreateEpoch(S)
  \/ \E d \in {"d1", "d2"} : Comeback!Delegate(d, "n1", 1)

-----------------------------------------------------------------------------
(* Votes and upgrades. *)
Parameters == INSTANCE ProtocolGovernance WITH
  gov <- store, council <- store, Members <- {}, Voters <- {"v1", "v2"}, Amounts <- {1, 2}, Supply <- 3, Groups <- {"rake"},
  Values <- {"new"}, Threshold <- 1, QuorumBps <- 5000, ApprovalBps <- 5000,
  VotingDelay <- 1, VotingPeriod <- 1, Timelock <- 1, MaxProposals <- 1, MaxLedger <- 5

Council == INSTANCE ProtocolGovernance WITH
  gov <- store, council <- store, Members <- {"m1", "m2", "m3"}, Voters <- {}, Amounts <- {},
  Supply <- 0, Groups <- {}, Values <- {}, Threshold <- 1, QuorumBps <- 10000,
  ApprovalBps <- 5000, VotingDelay <- 1, VotingPeriod <- 1, Timelock <- 1,
  MaxProposals <- 2, MaxLedger <- 2

Verifier == INSTANCE ZkVerifier WITH
  zk <- store, Types <- {1}, Ids <- {1, 2}, Keys <- {"k1"}, MaxVersion <- 2, Signers <- {},
  Wasms <- {}, Configs <- {}, MaxCount <- 1, MaxAge <- 0

VerifierCode == INSTANCE ZkVerifier WITH
  zk <- store, Types <- {}, Ids <- {}, Keys <- {}, MaxVersion <- 0, Signers <- {"s1", "s2"},
  Wasms <- {"w1", "w2"}, Configs <- {[signers |-> {"s1", "s2"}, threshold |-> 2, delay |-> 1]},
  MaxCount <- 0, MaxAge <- 1

AdminUpgrades == INSTANCE TableUpgrades WITH
  upg <- store, Tables <- {"t1", "t2"}, Signers <- {"s1"}, Wasms <- {"w1", "w2"},
  Configs <- {}, MinDelay <- 1, Window <- 1, MaxAge <- 1

SignedUpgrades == INSTANCE TableUpgrades WITH
  upg <- store, Tables <- {"t1"}, Signers <- {"s1", "s2"}, Wasms <- {"w1", "w2"},
  Configs <- {[signers |-> {"s1", "s2"}, threshold |-> 2, delay |-> 1]},
  MinDelay <- 1, Window <- 1, MaxAge <- 1

Roles == INSTANCE AuthManager WITH
  auth <- store, Admin <- "a1", Accounts <- {"a1", "a2"}, Roles <- {"admin"},
  Permissions <- {"p"}, Contracts <- {"c"}, InitialThreshold <- 2, Delays <- {1},
  MaxProposals <- 1

-----------------------------------------------------------------------------
(* The coordinator. *)
Hands == INSTANCE HandCoordinator WITH co <- store, HotReload <- TRUE, MaxHands <- 2

Slots == INSTANCE SessionPreemption WITH
  sched <- store, Sessions <- {"p1", "s1", "c", "d"},
  Rank <- [p1 |-> 0, s1 |-> 1, c |-> 2, d |-> 2], MaxConcurrent <- 2, MaxPreemptions <- 1,
  MaxQueued <- 3, MaxWait <- [r \in 0 .. 2 |-> IF r = 0 THEN 1 ELSE 2], MaxAge <- 2

Drain == INSTANCE CommitteeCapacity WITH
  drain <- store, scale <- store, Nodes <- {"n1", "n2"}, Sessions <- {"s1", "s2"}, DrainTimeout <- 1,
  RequireIdentity <- FALSE, PerCommittee <- 1, UpThreshold <- 1, DownThreshold <- 1,
  MinCommittees <- 1, MaxCommittees <- 1, UpSamples <- 1, DownSamples <- 1, Loads <- {}

Background == INSTANCE BackgroundTasks WITH
  jobs <- store, rollout <- store, Jobs <- {"a", "b"}, Priority <- [a |-> 0, b |-> 3],
  Workers <- {"w1", "w2"}, MaxRetries <- 1, Kinds <- {}, MinProbes <- 0, MinRate <- 0,
  AutoPromote <- FALSE, GlobalRollback <- FALSE, MaxProbes <- 0, MaxTasks <- 0

Rotation == INSTANCE CommitteeKeys WITH
  keys <- store, MaxKeys <- 4, Interval <- 2, Overlap <- 1,
  Nodes <- {}, Addresses <- {}, ApiKeys <- {}, Lifetimes <- {}, MaxTime <- 0, Calls <- {},
  Messages <- {}, Shares <- {}, MaxShares <- 0, Threshold <- 0, AllowFallback <- FALSE

(* The nodes' API keys; their messages, forged, repeated and late; their shares. *)
Access == INSTANCE CommitteeKeys WITH
  keys <- store, MaxKeys <- 0, Interval <- 0, Overlap <- 0, Nodes <- {"n1"}, Addresses <- {},
  ApiKeys <- {"k1"}, Lifetimes <- {-1, 1}, MaxTime <- 2, Calls <- {"c1", "c2"},
  Messages <- {}, Shares <- {}, MaxShares <- 0, Threshold <- 0, AllowFallback <- FALSE

Heard == INSTANCE CommitteeKeys WITH
  keys <- store, MaxKeys <- 0, Interval <- 0, Overlap <- 0, Nodes <- {"n1", "n2"},
  Addresses <- {"A", "B"}, ApiKeys <- {}, Lifetimes <- {}, MaxTime <- 0,
  Calls <- {"c1", "c2", "c3"},
  Messages <- {[node |-> "n1", session |-> "s", nonce |-> 1, signer |-> "A"],
               [node |-> "n1", session |-> "s", nonce |-> 1, signer |-> "B"],
               [node |-> "n2", session |-> "s", nonce |-> 1, signer |-> "B"]},
  Shares <- {}, MaxShares <- 0, Threshold <- 0, AllowFallback <- FALSE

Quorum == INSTANCE CommitteeKeys WITH
  keys <- store, MaxKeys <- 0, Interval <- 0, Overlap <- 0, Nodes <- {"n1", "n2"},
  Addresses <- {"A", "B"}, ApiKeys <- {}, Lifetimes <- {}, MaxTime <- 0, Calls <- {},
  Messages <- {},
  Shares <- {[node |-> "n1", address |-> "A", signer |-> "A", ours |-> TRUE],
             [node |-> "n2", address |-> "B", signer |-> "B", ours |-> TRUE],
             [node |-> "n2", address |-> "B", signer |-> "A", ours |-> TRUE],
             [node |-> "n2", address |-> "B", signer |-> "B", ours |-> FALSE]},
  MaxShares <- 3, Threshold <- 2, AllowFallback <- TRUE

Proofs == INSTANCE ProofSessions WITH
  mpc <- store, Nodes <- {"n0", "n1"}, ProofNode <- "n0", Capacity <- 1, MaxTriggers <- 2,
  MaxRequests <- 1, MaxRestarts <- 1, Refreshing <- TRUE

Reveals == INSTANCE ProofSessions WITH
  mpc <- store, Nodes <- {"n0", "n1"}, ProofNode <- "n0", Capacity <- 2, MaxTriggers <- 1,
  MaxRequests <- 2, MaxRestarts <- 0, Refreshing <- FALSE

Rollout == INSTANCE BackgroundTasks WITH
  jobs <- store, rollout <- store, Jobs <- {}, Priority <- <<>>, Workers <- {}, MaxRetries <- 0,
  Kinds <- {"deal"}, MinProbes <- 2, MinRate <- 50, AutoPromote <- TRUE,
  GlobalRollback <- FALSE, MaxProbes <- 3, MaxTasks <- 2

Views == INSTANCE ChainClient WITH
  chain <- store, ledger <- store, Requests <- {"r1", "r2", "r3"},
  TableOf <- [r1 |-> "t1", r2 |-> "t1", r3 |-> "t2"], Ttl <- 1, MaxVersion <- 1,
  MaxRequests <- 3, MaxAge <- 1

Relay == INSTANCE ChainRelay WITH
  relay <- store, Players <- {0, 1}, Identities <- {0}, Callers <- {"c1"}, Steps <- 2,
  MaxRetries <- 2, Ttl <- 1, MaxEntries <- 1, MaxSeq <- 2

(* Two copies of one signed request; a request and an administrator. *)
Gate == INSTANCE RequestGate WITH
  gate <- store, Calls <- {"c1", "c2"}, Key <- [c1 |-> "k", c2 |-> "k"],
  Nonce <- [c1 |-> 1, c2 |-> 1], Admin <- {}, Window <- 1, ClientLimit <- 2,
  TableLimit <- 1, Skew <- 2, KeyTtl <- 1

Toggles == INSTANCE RequestGate WITH
  gate <- store, Calls <- {"c1", "t1"}, Key <- [c1 |-> "k", t1 |-> ""],
  Nonce <- [c1 |-> 1, t1 |-> 2], Admin <- {"t1"}, Window <- 1, ClientLimit <- 2,
  TableLimit <- 1, Skew <- 1, KeyTtl <- 1

(* Two instances that want to lead; one that drains. *)
Leaders == INSTANCE InstanceHandover WITH
  inst <- store, Instances <- {"a", "b"}, Pooled <- {1, 2}, MaxRequests <- 0, Grace <- 1,
  MaxMigrations <- 0

Handover == INSTANCE InstanceHandover WITH
  inst <- store, Instances <- {"a"}, Pooled <- {1}, MaxRequests <- 1, Grace <- 1,
  MaxMigrations <- 1

(* Nodes that announce themselves; configured ones; attestations; reports. *)
Announced == INSTANCE NodeHealth WITH
  node <- store, Ids <- 1 .. 4, Homes <- [i \in 1 .. 4 |-> {<<"e1", "e2", "e3", "e4">>[i]}],
  Static <- <<"e0">>, Dynamic <- TRUE, Tables <- {"t"},
  Rank <- [t |-> [e1 |-> 2, e2 |-> 1, e3 |-> 4, e4 |-> 3]], HeartbeatTimeout <- 0,
  StaleTtl <- 1, MaxAge <- 1, ReportTtl <- 1, Strict <- FALSE, Reports <- {}

Configured == INSTANCE NodeHealth WITH
  node <- store, Ids <- 1 .. 4, Homes <- [i \in 1 .. 4 |-> {}],
  Static <- <<"e1", "e2", "e3", "e4">>, Dynamic <- FALSE, Tables <- {"t"},
  Rank <- [t |-> [e1 |-> 2, e2 |-> 1, e3 |-> 4, e4 |-> 3]], HeartbeatTimeout <- 0,
  StaleTtl <- 0, MaxAge <- 0, ReportTtl <- 0, Strict <- FALSE, Reports <- {}

Attested == INSTANCE NodeHealth WITH
  node <- store, Ids <- {1}, Homes <- [i \in {1} |-> {}], Static <- <<"e1">>,
  Dynamic <- FALSE, Tables <- {}, Rank <- <<>>, HeartbeatTimeout <- 0, StaleTtl <- 0,
  MaxAge <- 2, ReportTtl <- 0, Strict <- TRUE, Reports <- {}

Reported == INSTANCE NodeHealth WITH
  node <- store, Ids <- 1 .. 3, Homes <- [i \in 1 .. 3 |-> {}],
  Static <- <<"e1", "e2", "e3">>, Dynamic <- FALSE, Tables <- {}, Rank <- <<>>,
  HeartbeatTimeout <- 0, StaleTtl <- 0, MaxAge <- 0, ReportTtl <- 1, Strict <- FALSE,
  Reports <- SUBSET (1 .. 3)

(* Three nodes that gossip; node 3 may fail, and node 2 hears of it from node 1. *)
Peers == INSTANCE Gossip WITH
  gossip <- store, Nodes <- 1 .. 3, Seeds <- <<{2, 3}, {}, {}>>, Flaky <- {3},
  Down <- {3}, SuspicionTimeout <- 1, Fanout <- 1, MaxVersion <- 3, MaxMail <- 1

(* A table's clock and time banks; committed actions; the hub it reports to. *)
ShortBank == [initial |-> 12, max |-> 10, perHand |-> 5, perLedger |-> 1, extension |-> 4,
              extensions |-> 1]

Clocked == INSTANCE TableDesk WITH
  desk <- store, Players <- {"a", "b", "c"}, MaxPlayers <- 3, Timeout <- 1,
  Banks <- {ShortBank},
  Sizes <- {}, SeqSpace <- 1, Stacks <- {<<0, 0>>}, Games <- {}, MaxHands <- 2,
  MaxLedger <- 4, MaxPoints <- 0

Promised == INSTANCE TableDesk WITH
  desk <- store, Players <- {"a", "b"}, MaxPlayers <- 2, Timeout <- 1, Banks <- {},
  Sizes <- {1, 2}, SeqSpace <- 2, Stacks <- {<<0, 0>>}, Games <- {}, MaxHands <- 2,
  MaxLedger <- 1, MaxPoints <- 0

Hub == INSTANCE TableDesk WITH
  desk <- store, Players <- {"a", "b"}, MaxPlayers <- 2, Timeout <- 1, Banks <- {},
  Sizes <- {}, SeqSpace <- 1, Stacks <- {<<1, 2>>}, Games <- {"g"}, MaxHands <- 2,
  MaxLedger <- 1, MaxPoints <- 1

(* A request and a denial logged at once, and a proof of a session. *)
Trail == INSTANCE AuditChain WITH
  trail <- store, Entries <- {"e1", "d1", "t1"},
  ChainOf <- [e1 |-> "audit", d1 |-> "audit", t1 |-> "session"],
  Denials <- {"d1"}, MaxRecords <- 1, HasDatabase <- TRUE

Scaler == INSTANCE CommitteeCapacity WITH
  drain <- store, scale <- store, Nodes <- {}, Sessions <- {}, DrainTimeout <- 0,
  RequireIdentity <- FALSE, PerCommittee <- 2, UpThreshold <- 80, DownThreshold <- 40,
  MinCommittees <- 1, MaxCommittees <- 3, UpSamples <- 2, DownSamples <- 3, Loads <- {0, 2, 5}

(* The contracts beside the tables, one at a time. *)
Treasury == INSTANCE ServiceContracts WITH
  books <- store, Accounts <- {"a", "b"}, Amounts <- {1, 2}, MaxFunds <- 6, Fees <- {0, 500, 1000},
  Tokens <- {}, Decimals <- <<>>, Minimums <- {}, MaxApproved <- 0, Deals <- {}, Claims <- {},
  Recorders <- {}, Rakes <- {},
  Spendings <- {}, Configs <- {}, Thresholds <- {}, Funds <- 0, MaxPoints <- 0

Listed == INSTANCE ServiceContracts WITH
  books <- store, Accounts <- {"a", "b"}, Amounts <- {}, MaxFunds <- 0, Fees <- {},
  Tokens <- {"x", "y", "z"}, Decimals <- [x |-> 7, y |-> 6, z |-> 18], Minimums <- {6, 7},
  MaxApproved <- 2, Deals <- {}, Claims <- {}, Recorders <- {}, Rakes <- {},
  Spendings <- {}, Configs <- {}, Thresholds <- {}, Funds <- 0, MaxPoints <- 0

Claimed == INSTANCE ServiceContracts WITH
  books <- store, Accounts <- {"a", "b"}, Amounts <- {}, MaxFunds <- 0, Fees <- {},
  Tokens <- {}, Decimals <- <<>>, Minimums <- {}, MaxApproved <- 0, Deals <- {"h"},
  Claims <- {[category |-> 4, mucked |-> TRUE, committed |-> TRUE, length |-> 64],
             [category |-> 9, mucked |-> FALSE, committed |-> TRUE, length |-> 64],
             [category |-> 9, mucked |-> FALSE, committed |-> FALSE, length |-> 64],
             [category |-> 10, mucked |-> FALSE, committed |-> TRUE, length |-> 64],
             [category |-> 4, mucked |-> FALSE, committed |-> TRUE, length |-> 32]},
  Recorders <- {}, Rakes <- {},
  Spendings <- {}, Configs <- {}, Thresholds <- {}, Funds <- 0, MaxPoints <- 0

Rewards == INSTANCE ServiceContracts WITH
  books <- store, Accounts <- {"a"}, Amounts <- {}, MaxFunds <- 0, Fees <- {},
  Tokens <- {}, Decimals <- <<>>, Minimums <- {}, MaxApproved <- 0, Deals <- {}, Claims <- {},
  Recorders <- {"t"}, Rakes <- {1, 3}, Spendings <- {3, 5},
  Configs <- {[rate |-> 2, price |-> 2, cost |-> 3, most |-> 200],
              [rate |-> 1, price |-> 3, cost |-> 2, most |-> 100]},
  Thresholds <- {<<2, 4, 6, 8>>}, Funds <- 3, MaxPoints <- 6

(* Events of two players; the actions of two; hands of two and of three. *)
Indexed == INSTANCE PlayerStats WITH
  tally <- store, Players <- {"a", "b"},
  Events <- {[kind |-> "hand_started", player |-> "-", amount |-> 0],
             [kind |-> "player_joined", player |-> "a", amount |-> 0],
             [kind |-> "player_joined", player |-> "b", amount |-> 0],
             [kind |-> "rake_withdrawn", player |-> "-", amount |-> 5],
             [kind |-> "rake_withdrawn", player |-> "-", amount |-> 3]},
  MaxEvents <- 3, PageLimit <- 2, Ttl <- 1, TopN <- 1, MinHands <- 1, MaxPlayed <- 2,
  Outcomes <- {}, Window <- 0, MinEncounters <- 0, MinChips <- 0, ZThreshold <- 250,
  Capacity <- 0, MaxActions <- 0, Rates <- {}, MaxSeats <- 2, MaxHands <- 0,
  MaxChanges <- 0, MaxNow <- 0, Losses <- {}

Dumped == INSTANCE PlayerStats WITH
  tally <- store, Players <- {"a", "b", "c"}, Events <- {}, MaxEvents <- 0, PageLimit <- 0,
  Ttl <- 0, TopN <- 0, MinHands <- 0, MaxPlayed <- 0,
  Outcomes <- {[winner |-> "a", players |-> <<"a", "b">>, pot |-> 7],
               [winner |-> "b", players |-> <<"b", "a">>, pot |-> 0],
               [winner |-> "a", players |-> <<"a", "b", "c">>, pot |-> 7],
               [winner |-> "c", players |-> <<"a", "b", "c">>, pot |-> 2]},
  Window <- 5, MinEncounters <- 2, MinChips <- 4, ZThreshold <- 50,
  Capacity <- 0, MaxActions <- 0, Rates <- {}, MaxSeats <- 2, MaxHands <- 0,
  MaxChanges <- 0, MaxNow <- 0, Losses <- {}

(* One pair; a ring of two hands read one by one; three rates changed in three seconds. *)
Paired == INSTANCE PlayerStats WITH
  tally <- store, PageLimit <- 0, Players <- {}, Events <- {}, MaxEvents <- 0, Ttl <- 0,
  TopN <- 0, MinHands <- 0, MaxPlayed <- 0, Outcomes <- {}, Window <- 0,
  MinEncounters <- 0, MinChips <- 0, ZThreshold <- 0,
  Capacity <- 0, MaxActions <- 0, Rates <- {}, MaxSeats <- 2, MaxHands <- 0,
  MaxChanges <- 0, MaxNow <- 0, Losses <- {100, 600}

Archived == INSTANCE PlayerStats WITH
  tally <- store, PageLimit <- 1, Players <- {}, Events <- {}, MaxEvents <- 0, Ttl <- 0,
  TopN <- 0, MinHands <- 0, MaxPlayed <- 0, Outcomes <- {}, Window <- 0,
  MinEncounters <- 0, MinChips <- 0, ZThreshold <- 0,
  Capacity <- 2, MaxActions <- 1, Rates <- {0}, MaxSeats <- 3, MaxHands <- 3,
  MaxChanges <- 0, MaxNow <- 0, Losses <- {}

Raked == INSTANCE PlayerStats WITH
  tally <- store, PageLimit <- 0, Players <- {}, Events <- {}, MaxEvents <- 0, Ttl <- 0,
  TopN <- 0, MinHands <- 0, MaxPlayed <- 0, Outcomes <- {}, Window <- 0,
  MinEncounters <- 0, MinChips <- 0, ZThreshold <- 0,
  Capacity <- 1, MaxActions <- 0, Rates <- {0, 100, 200}, MaxSeats <- 2, MaxHands <- 0,
  MaxChanges <- 5, MaxNow <- 2, Losses <- {}

Tournament == INSTANCE Tournaments WITH
  prize <- store, tour <- store, Players <- {"a", "b", "c", "d"}, BuyIn <- 2, MinPlayers <- 2,
  MaxPlayers <- 4, Shares <- <<50, 30, 20>>, LevelHands <- <<2, 1>>,
  Tournaments <- {}, Entrants <- {}, RakeFee <- <<>>, Bounty <- <<>>, Mode <- <<>>, Splits <- <<>>,
  Stacks <- {}, Tiers <- {}, MaxEliminations <- 0

-----------------------------------------------------------------------------
(* The web client. *)
Practice == INSTANCE PracticeGame WITH
  game <- store, Seats <- 1 .. 3, StartingStack <- 4, SmallBlind <- 1, BigBlind <- 2,
  Ranks <- {<<1, 1, 1>>, <<1, 2, 3>>, <<2, 2, 1>>, <<3, 1, 2>>, <<1, 3, 2>>}, MaxHands <- 2

-----------------------------------------------------------------------------
Lobby == INSTANCE LobbySeats WITH
  lob <- store, Wallets <- {"w", "p", "q"}, Locals <- <<>>, MaxPlayers <- 2, MaxHands <- 2,
  Attempts <- 2

Solo == INSTANCE LobbySeats WITH
  lob <- store, Wallets <- {"w"}, Locals <- <<"l1", "l2">>, MaxPlayers <- 2, MaxHands <- 1,
  Attempts <- 2

(* Hands and settings; one player opts into the reputation of one table. *)
RatingStep ==
  \/ \E seats \in {<<"a", "b">>, <<"a", "b", "c">>, <<"b", "c">>} : \E w \in DOMAIN seats :
       Ratings!RecordHand(seats, w)
  \/ \E w \in {1, 2}, late \in {0, 1} : Ratings!RecordHandReputation(<<"a", "b">>, w, late)
  \/ Ratings!OptIn("a") \/ Ratings!OptOut("a")
  \/ \E k \in {0, 2} : Ratings!SetConfig([minHands |-> k, k |-> 32])
  \/ \E yes \in BOOLEAN : Ratings!SetPaused(yes)

(* Wallets that play for themselves, two hands with other seats; `Solo` has the
   cache and the lobby. *)
LobbyStep ==
  \/ \E w \in {"w", "p", "q"} : Lobby!Sit(w) \/ Lobby!RequestCards(w)
  \/ \E a \in {store.seats[i] : i \in DOMAIN store.seats}, b \in {"w", "p", "q"} : Lobby!Leave(a, b)
  \/ Lobby!HandEnds \/ Lobby!RequestDeal \/ Lobby!CommitDeal
  \/ Lobby!Rehydrate \/ Lobby!Lookup \/ Lobby!ResolveCards \/ Lobby!Restart

(* A deal and a deal or a reveal after it; calls come late, but nothing drains. *)
RevealStep ==
  \/ \E kind \in {"deal", "reveal"} : Reveals!Begin(kind)
  \/ Reveals!NextStage \/ Reveals!CollectProof \/ Reveals!RequestFails
  \/ \E c \in store.calls :
       Reveals!Prepare(c, TRUE) \/ Reveals!Dispatch(c) \/ Reveals!Dispatched(c, TRUE)
       \/ Reveals!Generate(c, TRUE)
  \/ \E m \in store.shares : Reveals!ReceiveShare(m)
  \/ \E task \in store.tasks : Reveals!Finish(task) \/ Reveals!Fail(task)

-----------------------------------------------------------------------------
(* Players who check until the clock runs out, under time banks. *)
ClockStep ==
  \/ Len(store.seats) = 0 /\ Clocked!Join("a")
  \/ Len(store.seats) = 1 /\ Clocked!Join("b")
  \/ Len(store.seats) = 2 /\ Clocked!Join("c")
  \/ Clocked!StartHand(<<0, 0>>)
  \/ \E k \in DOMAIN store.seats : Clocked!CommitDeal(k) \/ Clocked!RevealBoard(k)
  \/ \E p \in {"a", "b", "c"} : Clocked!PlayerAction(p, 0, "check") \/ Clocked!UseTimeBank(p)
  \/ \E config \in {ShortBank} : Clocked!Configure(config)
  \/ Clocked!ProcessTimeout \/ Clocked!ForceFold \/ Clocked!Tick

(* Two players who commit to actions, folds and bets, and reveal them or act. *)
PromiseStep ==
  \/ Len(store.seats) = 0 /\ Promised!Join("a")
  \/ Len(store.seats) = 1 /\ Promised!Join("b")
  \/ Promised!StartHand(<<0, 0>>) \/ Promised!CommitDeal(1) \/ Promised!RevealBoard(2)
  \/ Promised!SubmitShowdown(1) \/ Promised!CancelHand
  \/ \E p \in {"a", "b"}, kind \in {"fold", "bet"}, seq \in {0, 1} :
       \/ Promised!PlayerAction(p, seq, kind)
       \/ \E amount \in {1, 2} :
            Promised!CommitAction(p, kind, amount) \/ Promised!RevealAction(p, seq, kind, amount)

Init ==
  \/ part = "stakes"          /\ Stakes!Init
  \/ part = "delegations"     /\ Delegations!Init
  \/ part = "comeback"        /\ Comeback!Init
  \/ part = "pool"            /\ Pool!Init
  \/ part = "prizes"          /\ Prizes!Init
  \/ part = "parameters"      /\ Parameters!Init
  \/ part = "council"         /\ Council!CouncilInit
  \/ part = "verifier"        /\ Verifier!Init
  \/ part = "verifier code"   /\ VerifierCode!Init
  \/ part = "admin upgrades"  /\ AdminUpgrades!Init
  \/ part = "signed upgrades" /\ SignedUpgrades!Init
  \/ part = "roles"           /\ Roles!Init
  \/ part = "hands"           /\ Hands!Init
  \/ part = "slots"           /\ Slots!Init
  \/ part = "drain"           /\ Drain!Init
  \/ part = "background"      /\ Background!Init
  \/ part = "rotation"        /\ Rotation!Init
  \/ part = "proofs"          /\ Proofs!Init
  \/ part = "reveals"         /\ Reveals!Init
  \/ part = "leases"          /\ Leases!Init
  \/ part = "ratings"         /\ Ratings!Init
  \/ part = "rewards"         /\ Rewards!RewardsInit
  \/ part = "jackpots"        /\ Jackpots!Init
  \/ part = "rollout"         /\ Rollout!RolloutInit
  \/ part = "ledger"          /\ Views!LedgerInit
  \/ part = "views"           /\ Views!Init
  \/ part = "relay"           /\ Relay!Init
  \/ part = "gate"            /\ Gate!Init
  \/ part = "toggles"         /\ Toggles!Init
  \/ part = "leaders"         /\ Leaders!Init
  \/ part = "handover"        /\ Handover!Init
  \/ part = "announced"       /\ Announced!Init
  \/ part = "configured"      /\ Configured!Init
  \/ part = "attested"        /\ Attested!Init
  \/ part = "reported"        /\ Reported!Init
  \/ part = "gossip"          /\ Peers!Init
  \/ part = "clock"           /\ Clocked!Init
  \/ part = "promises"        /\ Promised!Init
  \/ part = "hub"             /\ Hub!Init
  \/ part = "trail"           /\ Trail!Init
  \/ part = "scaling"         /\ Scaler!ScaleInit
  \/ part = "treasury"        /\ Treasury!TreasuryInit
  \/ part = "tokens"          /\ Listed!TokensInit
  \/ part = "avatars"         /\ Listed!AvatarsInit
  \/ part = "claims"          /\ Claimed!ClaimsInit
  \/ part = "events"          /\ Indexed!IndexInit
  \/ part = "figures"         /\ Indexed!HudInit
  \/ part = "dumping"         /\ Dumped!DumpingInit
  \/ part = "pairs"           /\ Paired!PairInit
  \/ part = "archive"         /\ Archived!RecordsInit
  \/ part = "rake log"        /\ Raked!RecordsInit
  \/ part = "showdowns"       /\ Showdowns!CardsInit
  \/ part = "access"          /\ Access!AccessInit
  \/ part = "messages"        /\ Heard!IdentityInit
  \/ part = "quorum"          /\ Quorum!IdentityInit
  \/ part = "tournament"      /\ Tournament!DirectorInit
  \/ part = "practice"        /\ Practice!Init
  \/ part = "lobby"           /\ Lobby!Init
  \/ part = "solo"            /\ Solo!Init

Step ==
  \/ part = "stakes"          /\ Stakes!Next
  \/ part = "delegations"     /\ DelegationStep
  \/ part = "comeback"        /\ ComebackStep
  \/ part = "pool"            /\ Pool!Next
  \/ part = "prizes"          /\ Prizes!Next
  \/ part = "parameters"      /\ Parameters!Next
  \/ part = "council"         /\ Council!CouncilNext
  \/ part = "verifier"        /\ Verifier!Next
  \/ part = "verifier code"   /\ VerifierCode!Next
  \/ part = "admin upgrades"  /\ AdminUpgrades!Next
  \/ part = "signed upgrades" /\ SignedUpgrades!Next
  \/ part = "roles"           /\ Roles!Next
  \/ part = "hands"           /\ Hands!Next
  \/ part = "slots"           /\ Slots!Next
  \/ part = "drain"           /\ Drain!Next
  \/ part = "background"      /\ Background!Next
  \/ part = "rotation"        /\ Rotation!Next
  \/ part = "proofs"          /\ Proofs!Next
  \/ part = "reveals"         /\ RevealStep
  \/ part = "leases"          /\ Leases!Next
  \/ part = "ratings"         /\ RatingStep
  \/ part = "rewards"         /\ Rewards!RewardsNext
  \/ part = "jackpots"        /\ Jackpots!Next
  \/ part = "rollout"         /\ Rollout!RolloutNext
  \/ part = "ledger"          /\ Views!LedgerNext
  \/ part = "views"           /\ Views!Next
  \/ part = "relay"           /\ Relay!Next
  \/ part = "gate"            /\ Gate!Next
  \/ part = "toggles"         /\ Toggles!Next
  \/ part = "leaders"         /\ Leaders!Elect
  \/ part = "handover"        /\ Handover!Next
  \/ part = "announced"       /\ Announced!Serve
  \/ part = "configured"      /\ (Configured!Serve \/ Configured!Watch)
  \/ part = "attested"        /\ Attested!Next
  \/ part = "reported"        /\ (Reported!Listen \/ Reported!Tick)
  \/ part = "gossip"          /\ Peers!Next
  \/ part = "clock"           /\ ClockStep
  \/ part = "promises"        /\ PromiseStep
  \/ part = "hub"             /\ Hub!HubNext
  \/ part = "trail"           /\ Trail!Next
  \/ part = "scaling"         /\ Scaler!ScaleNext
  \/ part = "treasury"        /\ Treasury!TreasuryNext
  \/ part = "tokens"          /\ Listed!TokensNext
  \/ part = "avatars"         /\ Listed!AvatarsNext
  \/ part = "claims"          /\ Claimed!ClaimsNext
  \/ part = "events"          /\ Indexed!IndexNext
  \/ part = "figures"         /\ Indexed!HudNext
  \/ part = "dumping"         /\ Dumped!DumpingNext
  \/ part = "pairs"           /\ Paired!PairNext
  \/ part = "archive"         /\ Archived!HistoryNext
  \/ part = "rake log"        /\ Raked!RakeNext
  \/ part = "showdowns"       /\ Showdowns!CardsNext
  \/ part = "access"          /\ Access!AccessNext
  \/ part = "messages"        /\ Heard!MessagesNext
  \/ part = "quorum"          /\ Quorum!SharesNext
  \/ part = "tournament"      /\ Tournament!DirectorNext
  \/ part = "practice"        /\ Practice!Next
  \/ part = "lobby"           /\ LobbyStep
  \/ part = "solo"            /\ Solo!Next

Next == Step /\ UNCHANGED part

(* A spawned task is polled and a worker's loop goes on. *)
Push(j)       == part = "background" /\ Background!Push(j) /\ UNCHANGED part
WorkerStep(w) == part = "background" /\ Background!WorkerStep(w) /\ UNCHANGED part

Spec ==
  /\ Init /\ [][Next]_vars
  /\ \A j \in {"a", "b"} : WF_vars(Push(j))
  /\ \A w \in {"w1", "w2"} : WF_vars(WorkerStep(w))

-----------------------------------------------------------------------------
(* The committee registry holds whatever it owes, and the totals it keeps agree
   with the records they total, and nobody in the current epoch has withdrawn the
   stake that answers for it; the balances of the table tokens agree with the
   owners, and a transfer that waits is still the owner's to make; the lists of tokens
   and of collections agree with the records they list. *)
RegistrySound ==
  /\ part = "stakes"      => /\ Stakes!RegistrySolvent /\ Stakes!RegistryBooksAgree
                             /\ Stakes!EpochBacked
  /\ part = "delegations" => Delegations!RegistrySolvent /\ Delegations!RegistryBooksAgree
  /\ part = "comeback"    => Comeback!EpochBacked
  /\ part = "leases"      => Leases!BalancesCover /\ Leases!QueuedIsSound
  /\ part = "tokens"      => Listed!ListedOnce
  /\ part = "avatars"     => Listed!AvatarsApproved

(* The shared bankrolls: balances, allocations and indexes agree after every order of
   hands, transfers and unlocks, and the account holds the deposits and the rakes that
   did not leave it. *)
PoolBalanced == part = "pool" => Pool!PoolBalanced

(* A tournament pays its net pool exactly, and out of its own deposits, unless it is
   cancelled late, names too many eliminations or is given negative numbers; points are
   spent once; a jackpot leaves its pool once per hand, and the better hand has the
   higher score; the hub's profiles count every
   hand and every promise once; the treasury has what its books say. *)
PayoutsCovered ==
  /\ part = "prizes"    => Prizes!PrizesFromOwnPool
  /\ part = "rewards"   => Rewards!PointsAccounted
  /\ part = "jackpots"  => Jackpots!JackpotsAccounted
  /\ part = "showdowns" => Showdowns!HandsRanked
  /\ part = "hub"       => Hub!HubCountsAddUp
  /\ part = "treasury"  => Treasury!TreasuryCovered

(* The coordinator never shows a street that the contract has no board for. *)
StreetNotAhead == part = "hands" => Hands!StreetNotAhead

(* No slot is used twice, and nobody is sent back to wait more often than allowed;
   two instances never lead, unless one has lost its connection unnoticed; and no
   player's time bank goes beyond what the table allows. *)
SlotsRespected ==
  /\ part = "slots"   => Slots!SlotsRespected
  /\ part = "clock"   => Clocked!BanksWithinMax
  /\ part = "leaders" => Leaders!OneLeader

(* A background job is with one worker or waits once; a signed request is carried
   out once, and the sessions under way are all counted; a player's action is taken
   under one sequence number, and as it was promised. *)
OneRunPerJob ==
  /\ part = "background" => Background!OneRunPerJob
  /\ part = "gate"       => Gate!SignedOnce
  /\ part = "toggles"    => Toggles!SignedOnce
  /\ part = "promises"   => Promised!ActionsNumbered

(* The coordinator holds the secret of every committee key it has stake behind; a node
   is heard with a key, an address and a nonce that are good, and a settlement goes out
   as the committee's when enough of them signed it. *)
NoKeyStranded ==
  /\ part = "rotation" => Rotation!NoKeyStranded
  /\ part = "access"   => Access!RevokedStaysOut
  /\ part = "messages" => Heard!MessagesHeardOnce
  /\ part = "quorum"   => Quorum!QuorumReal

(* A finished proof has every node's fragment, each of the committed deck; a hand
   goes to three different nodes, and what they are attested to run is recent; and a
   transcript whose chain verifies is the one that was written. *)
ProofsWhole ==
  /\ part = "announced"  => Announced!CommitteesWhole
  /\ part = "configured" => Configured!CommitteesWhole
  /\ part = "attested"   => Attested!AttestedLately
  /\ part = "trail"      => Trail!VerifiedIsIntact
  /\ part = "proofs"     => Proofs!ProofsWhole
  /\ part = "reveals"    => Reveals!ProofsWhole

(* The leaderboard is in order with nobody on it twice; whoever has lost her chips
   is out of the tournament once, and the last one has them all; the figures beside a
   seat are shares of hands; who is reported for handing chips over did lose more than
   the other's rate, and who is flagged by the contract's measure did lose hands. *)
StandingsSound ==
  /\ part = "ratings"    => Ratings!BoardInOrder
  /\ part = "tournament" => Tournament!EachOutOnce
  /\ part = "figures"    => Indexed!FiguresAreShares
  /\ part = "dumping"    => Dumped!ReportsGrounded
  /\ part = "pairs"      => Paired!FlagsGrounded

(* What the coordinator keeps of the chain was on the chain: a table's state that
   was fetched on demand, the submissions on record, and the counts of its events.
   What a node holds against a peer dates from a probe of it that failed.  A table's
   records tell its last hands in order, and the rake of any second. *)
AnswersFresh ==
  /\ part = "views"  => Views!MissesReadTheChain
  /\ part = "ledger" => Views!EntriesAreSubmissions
  /\ part = "gossip" => Peers!SuspicionDated
  /\ part = "events" => Indexed!CountsMatchEvents
  /\ part = "archive"  => Archived!HistoryTrue
  /\ part = "rake log" => Raked!RakeLogTrue

(* The cards of the hand being played go to the player of the seat they were dealt
   to, whatever request for them was under way while the seats or the hand changed. *)
CardsToOwner ==
  /\ part = "lobby" => Lobby!CardsToOwner
  /\ part = "solo"  => Solo!CardsToOwner

(* Parameters, code and roles change only with the votes, signatures or approvals
   that their contracts ask for, cast by different accounts, in time; a circuit is
   pinned on its record. *)
ChangesHadSupport ==
  [][/\ part = "parameters"    => Parameters!ChangesWereVoted
     /\ part = "council"       => Council!ExecutedByQuorum'
     /\ part = "verifier code" => VerifierCode!CodeChangesEndorsed
     /\ part = "roles"         => Roles!ExecutedWithConsent
     /\ part = "rollout"       => Rollout!PromotedOnMerit]_vars

(* A table changes hands neither during a hand nor under a lease. *)
LeasesKept == [][part = "leases" => Leases!LeasesKept]_vars

(* A verification key is only ever replaced by one of a higher version, a node's view
   of a peer only by one of a higher version, and a revert takes the table one step
   back, in time; a hand's rank on record stays. *)
VersionsInOrder ==
  [][/\ part = "verifier"       => Verifier!KeysMoveForward
     /\ part = "admin upgrades" => AdminUpgrades!RevertsOneStep
     /\ part = "gossip"         => Peers!ViewsAdvance
     /\ part = "claims"         => Claimed!RecordsStay]_vars

(* The practice table of the web client neither makes nor loses chips, but for
   what a folded player put in above everybody left. *)
HandsAddUp == [][part = "practice" => Practice!HandsAddUp]_vars

(* A session that has waited past its bound is not overtaken, and a call that the
   contract would take is not refused on an old simulation; nor is a player timed out
   before the time she bought has run. *)
WaitsBounded ==
  [][/\ part = "slots" => Slots!NoOvertaking
     /\ part = "relay" => Relay!RefusalsReal
     /\ part = "clock" => Clocked!BoughtTimeKept]_vars

(* A node leaves the committee with a plan for every session it still has; committees
   are begun and retired within their limits, after a whole run of samples that calls
   for it, and with room left for the sessions there are. *)
LeavesAsPlanned ==
  [][/\ part = "drain"   => Drain!LeavesAsPlanned
     /\ part = "scaling" => Scaler!ScalesWithCare]_vars

(* Refuted: every place of the payout schedule is paid, to one player. *)
PlacesPaidOut == part = "tournament" => Tournament!PlacesPaidOut

(* Refuted, but not by a run of its own: the registry never owes more than it holds.  A
   node that comes back has forgotten its delegators. *)
ReturnsCovered == part = "comeback" => Comeback!RegistrySolvent

(* Every job asked for comes to an end. *)
JobsSettle ==
  \A j \in {"a", "b"} :
    (part = "background" /\ store.status[j] = "Queued")
      ~> (part = "background" /\ store.status[j] \in Background!Settled)
=============================================================================
