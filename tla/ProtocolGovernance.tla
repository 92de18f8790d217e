------------------------- MODULE ProtocolGovernance -------------------------
(***************************************************************************)
(* The two governance contracts, each a machine of its own.                *)
(*                                                                         *)
(* protocol-governance: stake-weighted votes on the protocol's parameters; *)
(* propose, vote during a window, queue, wait for the timelock, execute.   *)
(* A vote counts the stake of the moment it is cast; the quorum is taken   *)
(* of the stake of the moment the proposal is queued.                      *)
(*                                                                         *)
(* governance: votes of the committee's members, one member one vote;      *)
(* propose, vote, wait for the timelock that began with the proposal,      *)
(* execute.                                                                *)
(***************************************************************************)
EXTENDS Integers, FiniteSets, Functions

CONSTANTS
  Voters, Amounts,
  Supply,              \* governance tokens in existence
  Groups, Values,      \* groups of parameters and what a group may be set to
  Threshold, QuorumBps, ApprovalBps,
  VotingDelay, VotingPeriod, Timelock,
  Members,             \* the committee's members
  MaxProposals,        \* bound on the proposals made
  MaxLedger            \* bound on the ledgers closed

VARIABLES gov, council

Ids == 1 .. MaxProposals

Init ==
  gov = [staked   |-> [v \in Voters |-> 0],
         total    |-> 0,                         \* TotalStaked
         proposal |-> <<>>,                      \* by id
         params   |-> [g \in Groups |-> "initial"],
         now      |-> 1]

Stake(v, amount) ==
  /\ gov.total + amount <= Supply
  /\ gov' = [gov EXCEPT !.staked[v] = @ + amount, !.total = @ + amount]

Unstake(v, amount) ==
  /\ gov.staked[v] >= amount
  /\ gov' = [gov EXCEPT !.staked[v] = @ - amount, !.total = IF @ >= amount THEN @ - amount ELSE 0]

Propose(v, group, value) ==
  LET id == Cardinality(DOMAIN gov.proposal) + 1
      start == gov.now + VotingDelay
  IN /\ id \in Ids /\ gov.staked[v] >= Threshold
     /\ gov' = [gov EXCEPT !.proposal = [i \in 1 .. id |-> IF i < id THEN @[i] ELSE
          [group |-> group, value |-> value, start |-> start, end |-> start + VotingPeriod,
           after |-> 0, votes |-> [k \in {"For", "Against", "Abstain"} |-> 0],
           voted |-> {}, status |-> "Pending"]]]

InWindow(p) == gov.now \in p.start .. p.end

(* Mutant: votes are counted as long as the proposal has not been executed. *)
CastVote_Late(v, id, kind) ==
  /\ gov.now >= gov.proposal[id].start /\ gov.proposal[id].status # "Executed"
  /\ v \notin gov.proposal[id].voted /\ gov.staked[v] > 0
  /\ gov' = [gov EXCEPT !.proposal[id].votes[kind] = @ + gov.staked[v],
                        !.proposal[id].voted = @ \union {v}]

CastVote(v, id, kind) ==
  /\ InWindow(gov.proposal[id]) /\ v \notin gov.proposal[id].voted /\ gov.staked[v] > 0
  /\ gov' = [gov EXCEPT !.proposal[id].votes[kind] = @ + gov.staked[v],
                        !.proposal[id].voted = @ \union {v},
                        !.proposal[id].status = "Active"]

Decisive(p) == p.votes["For"] + p.votes["Against"]
QuorumMet(p) ==
  gov.total > 0 => ((Decisive(p) + p.votes["Abstain"]) * 10000) \div gov.total >= QuorumBps
Approved(p) ==
  Decisive(p) # 0 /\ (p.votes["For"] * 10000) \div Decisive(p) > ApprovalBps

(* queue_proposal: anybody, after the window, in whatever state the proposal
   is; a refused call also takes back the "Defeated" it has just written. *)
QueueProposal(id) ==
  LET p == gov.proposal[id] IN
  /\ gov.now > p.end /\ QuorumMet(p) /\ Approved(p)
  /\ gov' = [gov EXCEPT !.proposal[id].status = "Queued",
                        !.proposal[id].after = gov.now + Timelock]

ExecuteProposal(id) ==
  LET p == gov.proposal[id] IN
  /\ p.status = "Queued" /\ gov.now >= p.after
  /\ gov' = [gov EXCEPT !.params[p.group] = p.value, !.proposal[id].status = "Executed"]

Tick == gov.now < MaxLedger /\ gov' = [gov EXCEPT !.now = @ + 1]

Next ==
  \/ \E v \in Voters, a \in Amounts : Stake(v, a) \/ Unstake(v, a)
  \/ \E v \in Voters, g \in Groups, x \in Values : Propose(v, g, x)
  \/ \E id \in DOMAIN gov.proposal :
       \/ QueueProposal(id) \/ ExecuteProposal(id)
       \/ \E v \in Voters, kind \in {"For", "Against", "Abstain"} : CastVote(v, id, kind)
  \/ Tick

Spec == Init /\ [][Next]_gov

-----------------------------------------------------------------------------
CouncilInit == council = [proposal |-> <<>>, now |-> 0]

(* Rounded up, and at least one. *)
QuorumVotes ==
  LET q == (Cardinality(Members) * QuorumBps + 9999) \div 10000 IN IF q < 1 THEN 1 ELSE q

ApprovalVotes == (QuorumVotes * ApprovalBps) \div 10000 + 1

CouncilPropose ==
  LET id == Cardinality(DOMAIN council.proposal) + 1 IN
  /\ id <= MaxProposals
  /\ council' = [council EXCEPT !.proposal = [i \in 1 .. id |-> IF i < id THEN @[i] ELSE
       [for |-> {}, against |-> {}, executed |-> FALSE, after |-> council.now + Timelock]]]

CouncilVote(m, id, support) ==
  LET p == council.proposal[id] IN
  /\ ~p.executed /\ m \notin p.for \union p.against
  /\ council' = IF support THEN [council EXCEPT !.proposal[id].for = @ \union {m}]
                           ELSE [council EXCEPT !.proposal[id].against = @ \union {m}]

CouncilExecute(id) ==
  LET p == council.proposal[id] IN
  /\ ~p.executed
  /\ Cardinality(p.for) + Cardinality(p.against) >= QuorumVotes
  /\ Cardinality(p.for) >= ApprovalVotes
  /\ council.now >= p.after
  /\ council' = [council EXCEPT !.proposal[id].executed = TRUE]

CouncilTick == council.now < MaxLedger /\ council' = [council EXCEPT !.now = @ + 1]

CouncilNext ==
  \/ CouncilPropose \/ CouncilTick
  \/ \E id \in DOMAIN council.proposal :
       CouncilExecute(id) \/ \E m \in Members, yes \in BOOLEAN : CouncilVote(m, id, yes)

CouncilSpec == CouncilInit /\ [][CouncilNext]_council

-----------------------------------------------------------------------------
(* The total beside the stakes is their sum; and a parameter changes only by a
   proposal of that group that the votes finally cast on it approved, and that
   everybody could see coming for a whole timelock after the voting closed. *)
StakeAddsUp == gov.total = SumFunctionOnSet(gov.staked, Voters)

ChangesWereVoted ==
  \A g \in Groups : gov'.params[g] # gov.params[g] =>
    \E id \in DOMAIN gov.proposal :
      LET p == gov.proposal[id] IN
      /\ p.group = g /\ p.value = gov'.params[g]
      /\ gov.now > p.end + Timelock
      /\ p.votes["For"] * 10000 > ApprovalBps * Decisive(p)

(* What the committee executed had a quorum of different members behind it and
   more votes in favour than the threshold asks of a quorum. *)
ExecutedByQuorum ==
  \A id \in DOMAIN council.proposal :
    LET p == council.proposal[id] IN
    p.executed => /\ Cardinality(p.for \union p.against) * 10000
                       >= QuorumBps * Cardinality(Members)
                  /\ Cardinality(p.for) * 10000 > ApprovalBps * QuorumVotes
=============================================================================
