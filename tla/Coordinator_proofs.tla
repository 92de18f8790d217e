------------------------- MODULE Coordinator_proofs --------------------------
(***************************************************************************)
(* Theorems about the coordinator, for all values of its constants, and    *)
(* about the prize pool of its tournaments: MCPlatform checks the same     *)
(* properties on instances.  Each section instantiates one part, says what *)
(* its constants must satisfy, gives the inductive invariant and shows     *)
(* that every step keeps it.                                               *)
(***************************************************************************)
EXTENDS ChipSums, Sequences, SequenceTheorems

CONSTANTS
  HotReload, MaxHands, MaxKeys, Interval, Overlap, Nodes, Addresses, ApiKeys, Lifetimes,
  MaxTime, Calls, Messages, Shares, MaxShares, Threshold, AllowFallback, Jobs, Priority,
  Workers, MaxRetries, Kinds, MinProbes, MinRate, AutoPromote, GlobalRollback, MaxProbes,
  MaxTasks, Sessions, DrainTimeout, RequireIdentity, PerCommittee, UpThreshold, DownThreshold,
  MinCommittees, MaxCommittees, UpSamples, DownSamples, Loads, Wallets, Locals, MaxPlayers,
  Attempts, Instances, Pooled, MaxRequests, Grace, MaxMigrations, ProofNode, Capacity,
  MaxTriggers, MaxRestarts, Refreshing, Seeds, Flaky, Down, SuspicionTimeout, Fanout,
  MaxVersion, MaxMail, Players, BuyIn, MinPlayers, Tournaments, Entrants, RakeFee, Bounty,
  Mode, Splits, Stacks, Tiers, MaxEliminations, LevelHands

VARIABLES co, keys, jobs, rollout, drain, scale, lob, inst, mpc, gossip, prize, tour

-----------------------------------------------------------------------------
(* Hands at the coordinator. *)
Hands == INSTANCE HandCoordinator

SessionPhases ==
  {"none", "waiting", "dealing", "preflop", "flop", "turn", "river", "settlement"}
HandSessions == [phase : SessionPhases, hand : Nat]

HandFields == {"phase", "hand", "session", "request", "fetched", "saved"}
HandPhases == {"Waiting", "Dealing", "Preflop", "DealingFlop", "Flop", "DealingTurn", "Turn",
               "DealingRiver", "River", "Showdown", "Settlement"}

HandTypes ==
  /\ HandFields \subseteq DOMAIN co
  /\ co.phase \in HandPhases /\ co.hand \in Nat
  /\ co.session \in HandSessions /\ co.saved \in HandSessions /\ co.fetched \subseteq HandSessions

(* A session that may still come back, from a file or from an answer on its way, is not
   ahead of the contract either. *)
NotAhead(s) ==
  /\ s.hand <= co.hand
  /\ s.phase \in {"preflop", "flop", "turn", "river"} =>
       s.hand < co.hand \/ Hands!Rank(s.phase) <= Hands!Rank(co.phase)

HandInv == HandTypes /\ NotAhead(co.session) /\ NotAhead(co.saved) /\ \A s \in co.fetched : NotAhead(s)

(* A step of the contract leaves every session behind it. *)
HandMoves ==
  \/ co'.hand = co.hand /\ Hands!Rank(co.phase) <= Hands!Rank(co'.phase)
  \/ co'.hand > co.hand

LEMMA HandRankNat ==
  \A phase : Hands!Rank(phase) \in 0 .. 5
BY DEF Hands!Rank

LEMMA HandRanks ==
  /\ Hands!Rank("Waiting") = 0 /\ Hands!Rank("Dealing") = 0
  /\ Hands!Rank("preflop") = 1 /\ Hands!Rank("Preflop") = 1 /\ Hands!Rank("DealingFlop") = 1
  /\ Hands!Rank("flop") = 2 /\ Hands!Rank("Flop") = 2 /\ Hands!Rank("DealingTurn") = 2
  /\ Hands!Rank("turn") = 3 /\ Hands!Rank("Turn") = 3 /\ Hands!Rank("DealingRiver") = 3
  /\ Hands!Rank("river") = 4 /\ Hands!Rank("River") = 4 /\ Hands!Rank("Showdown") = 4
  /\ Hands!Rank("Settlement") = 5
BY DEF Hands!Rank

(* The contract never goes back within a hand. *)
LEMMA HandNext ==
  ASSUME NEW phase \in Hands!Betting
  PROVE  /\ Hands!NextDeal[phase] \in HandPhases /\ phase \in HandPhases
         /\ Hands!Rank(phase) <= Hands!Rank(Hands!NextDeal[phase])
         /\ Hands!Rank(phase) <= Hands!Rank("Settlement")
BY HandRanks DEF Hands!Betting, Hands!NextDeal, HandPhases

LEMMA HandBoard ==
  ASSUME NEW street \in Hands!Streets, NEW next \in Hands!BoardOpened[street]
  PROVE  /\ next \in HandPhases /\ Hands!Rank(Hands!AwaitedIn[street]) <= Hands!Rank(next)
         /\ Hands!Rank(street) = Hands!Rank(next) /\ street \in SessionPhases
BY HandRanks DEF Hands!Streets, Hands!BoardOpened, Hands!AwaitedIn, HandPhases, SessionPhases

LEMMA HandBehind ==
  ASSUME HandTypes, HandTypes', HandMoves, NEW s \in HandSessions, NotAhead(s)
  PROVE  NotAhead(s)'
<1>1. co.hand \in Nat /\ co'.hand \in Nat /\ s.hand \in Nat
  BY DEF HandTypes, HandSessions
<1>2. CASE co'.hand > co.hand
  BY <1>1, <1>2 DEF NotAhead
<1>3. CASE co'.hand = co.hand /\ Hands!Rank(co.phase) <= Hands!Rank(co'.phase)
  BY <1>1, <1>3, HandRankNat DEF NotAhead
<1>4. QED BY <1>2, <1>3 DEF HandMoves

LEMMA HandTypesInit == ASSUME Hands!Init PROVE HandTypes
BY DEF HandTypes, HandSessions, SessionPhases, HandFields, HandPhases, Hands!Init, Hands!NoSession, Hands!NoRequest, Hands!Streets

LEMMA HandPrepared ==
  ASSUME HandTypes, Hands!PrepareDeal
  PROVE  /\ co'.session = co.session /\ co'.saved = co.saved /\ co'.fetched = co.fetched
         /\ co'.phase = "Dealing" /\ co'.hand \in Nat /\ HandFields \subseteq DOMAIN co'
         /\ co'.hand > co.hand \/ (co'.hand = co.hand /\ co'.phase = co.phase)
<1> USE DEF HandTypes, HandFields
<1>1. CASE co.phase = "Dealing" /\ co' = [co EXCEPT !.request.stage = "submitting"]
  BY <1>1
<1>2. CASE co' = [Hands!HandStarted(co) EXCEPT !.request.stage = "submitting"]
  <2> DEFINE started == Hands!HandStarted(co)
  <2>1. /\ DOMAIN started = DOMAIN co /\ started.phase = "Dealing" /\ started.hand = co.hand + 1
        /\ started.session = co.session /\ started.saved = co.saved /\ started.fetched = co.fetched
    BY DEF Hands!HandStarted
  <2> HIDE DEF started
  <2>2. co' = [started EXCEPT !.request.stage = "submitting"]
    BY <1>2 DEF started
  <2>3. /\ DOMAIN co' = DOMAIN started /\ co'.phase = started.phase /\ co'.hand = started.hand
        /\ co'.session = started.session /\ co'.saved = started.saved
        /\ co'.fetched = started.fetched
    BY <2>1, <2>2
  <2>4. co.hand \in Nat /\ HandFields \subseteq DOMAIN co
    OBVIOUS
  <2>5. co'.hand = co.hand + 1 /\ HandFields \subseteq DOMAIN co'
    BY <2>1, <2>3, <2>4
  <2>6. co'.hand \in Nat /\ co'.hand > co.hand
    BY <2>4, <2>5
  <2>7. QED BY <2>1, <2>3, <2>5, <2>6
<1>3. QED BY <1>1, <1>2 DEF Hands!PrepareDeal

LEMMA HandRevealed ==
  ASSUME HandTypes, NEW street \in Hands!Streets, NEW answered \in BOOLEAN,
         Hands!Revealed(street, answered)
  PROVE  /\ co.phase = Hands!AwaitedIn[street] /\ co'.phase \in Hands!BoardOpened[street]
         /\ co'.hand = co.hand /\ co'.saved = co.saved /\ co'.fetched = co.fetched
         /\ HandFields \subseteq DOMAIN co'
         /\ \/ co'.session = co.session
            \/ co'.session = [co.session EXCEPT !.phase = street]
BY DEF HandTypes, HandFields, HandSessions, Hands!Revealed

LEMMA HandTypesStep == ASSUME HandTypes, [Hands!Next]_co PROVE HandTypes'
<1> USE DEF HandTypes, HandSessions, SessionPhases, Hands!Streets, HandFields, HandPhases
<1>1. CASE Hands!ChainStep
  <2>1. CASE Hands!StartHand
    BY <2>1 DEF Hands!StartHand, Hands!HandStarted
  <2>2. CASE Hands!BettingEnds
    BY <2>2, HandNext DEF Hands!BettingEnds
  <2>3. CASE Hands!HandEnds
    BY <2>3 DEF Hands!HandEnds
  <2>4. QED BY <1>1, <2>1, <2>2, <2>3 DEF Hands!ChainStep
<1>2. CASE Hands!Deal
  <2>1. CASE Hands!RequestDeal
    BY <2>1 DEF Hands!RequestDeal
  <2>2. CASE Hands!PrepareDeal
    <3>1. /\ co'.session = co.session /\ co'.saved = co.saved /\ co'.fetched = co.fetched
          /\ co'.phase = "Dealing" /\ co'.hand \in Nat /\ HandFields \subseteq DOMAIN co'
      BY <2>2, HandPrepared
    <3>2. QED BY <3>1
  <2>3. CASE Hands!CommitDeal
    BY <2>3 DEF Hands!CommitDeal
  <2>4. QED BY <1>2, <2>1, <2>2, <2>3 DEF Hands!Deal
<1>3. CASE Hands!Reveal
  <2>1. PICK street \in Hands!Streets : Hands!RequestReveal(street) \/ Hands!Revealed(street, TRUE)
    BY <1>3 DEF Hands!Reveal
  <2>2. CASE Hands!RequestReveal(street)
    BY <2>1, <2>2 DEF Hands!RequestReveal
  <2>3. CASE Hands!Revealed(street, TRUE)
    BY <2>1, <2>3, HandBoard, HandRevealed, ZenonT(30)
  <2>4. QED BY <2>1, <2>2, <2>3
<1>4. CASE Hands!Showdown
  <2>1. CASE Hands!RequestShowdown
    BY <2>1 DEF Hands!RequestShowdown
  <2>2. CASE Hands!SubmitShowdown(TRUE)
    BY <2>2 DEF Hands!SubmitShowdown
  <2>3. QED BY <1>4, <2>1, <2>2 DEF Hands!Showdown
<1>5. CASE Hands!FetchTable
  <2>1. Hands!Restored \in HandSessions
    BY DEF Hands!Restored, Hands!Local
  <2>2. QED BY <1>5, <2>1 DEF Hands!FetchTable
<1>6. CASE Hands!Rehydrate
  BY <1>6 DEF Hands!Rehydrate
<1>7. CASE Hands!Snapshot
  BY <1>7 DEF Hands!Snapshot
<1>8. CASE Hands!Fault
  <2>1. CASE Hands!CommitDealUnanswered \/ Hands!RequestFails \/ Hands!Restart
    BY <2>1 DEF Hands!CommitDealUnanswered, Hands!RequestFails, Hands!Restart, Hands!NoRequest
  <2>2. CASE \E street \in Hands!Streets : Hands!Revealed(street, FALSE)
    BY <2>2, HandBoard, HandRevealed, ZenonT(30)
  <2>3. CASE Hands!SubmitShowdown(FALSE)
    BY <2>3 DEF Hands!SubmitShowdown
  <2>6. CASE Hands!ShowdownRefused
    BY <2>6 DEF Hands!ShowdownRefused
  <2>4. CASE Hands!TimeoutFallback
    BY <2>4, HandNext DEF Hands!TimeoutFallback
  <2>5. QED BY <1>8, <2>1, <2>2, <2>3, <2>4, <2>6 DEF Hands!Fault
<1>9. CASE UNCHANGED co
  BY <1>9
<1>10. QED
  BY <1>1, <1>2, <1>3, <1>4, <1>5, <1>6, <1>7, <1>8, <1>9 DEF Hands!Next

(* What a step does to the sessions: the contract goes on, and the session it makes or
   takes is not ahead of it. *)
LEMMA HandSteps ==
  ASSUME HandInv, HandTypes', Hands!Next
  PROVE  /\ HandMoves
         /\ co'.session \in {co.session, co.saved} \union co.fetched \/ NotAhead(co.session)'
         /\ co'.saved \in {co.saved, co.session}
         /\ \A s \in co'.fetched : s \in co.fetched \/ NotAhead(s)'
<1> USE HandRanks, HandRankNat DEF HandMoves, NotAhead
<1>0. HandTypes /\ NotAhead(co.session)
  BY DEF HandInv
<1>1. CASE Hands!ChainStep
  <2>1. CASE Hands!StartHand
    BY <1>0, <2>1 DEF HandTypes, HandFields, Hands!StartHand, Hands!HandStarted
  <2>2. CASE Hands!BettingEnds
    BY <1>0, <2>2, HandNext DEF HandTypes, HandFields, Hands!BettingEnds
  <2>3. CASE Hands!HandEnds
    BY <1>0, <2>3, HandRankNat DEF HandTypes, HandFields, Hands!HandEnds
  <2>4. QED BY <1>1, <2>1, <2>2, <2>3 DEF Hands!ChainStep
<1>2. CASE Hands!Deal
  <2>1. CASE Hands!RequestDeal
    BY <1>0, <2>1 DEF HandTypes, HandSessions, HandFields, HandPhases, Hands!RequestDeal, Hands!MayDeal
  <2>2. CASE Hands!PrepareDeal
    BY <1>0, <2>2, HandPrepared DEF HandTypes
  <2>3. CASE Hands!CommitDeal
    BY <1>0, <2>3 DEF HandTypes, HandSessions, HandFields, HandPhases, Hands!CommitDeal
  <2>4. QED BY <1>2, <2>1, <2>2, <2>3 DEF Hands!Deal
<1>3. ASSUME NEW street \in Hands!Streets, NEW answered \in BOOLEAN, Hands!Revealed(street, answered)
      PROVE  /\ HandMoves
             /\ co'.session \in {co.session, co.saved} \union co.fetched \/ NotAhead(co.session)'
             /\ co'.saved \in {co.saved, co.session}
             /\ \A s \in co'.fetched : s \in co.fetched \/ NotAhead(s)'
  <2>1. HandMoves
    BY <1>0, <1>3, HandBoard, HandRevealed
  <2>2. co'.session = co.session \/ NotAhead(co.session)'
    <3>1. CASE co'.session = [co.session EXCEPT !.phase = street]
      <4>1. co'.session.hand <= co'.hand /\ co'.session.phase = street
        BY <1>0, <1>3, <3>1, HandRevealed DEF HandTypes, HandSessions
      <4>2. Hands!Rank(street) = Hands!Rank(co'.phase)
        BY <1>0, <1>3, HandBoard, HandRevealed
      <4>3. QED BY <4>1, <4>2, HandRankNat
    <3>2. QED BY <1>0, <1>3, <3>1, HandRevealed
  <2>3. QED BY <1>0, <1>3, <2>1, <2>2, HandRevealed
<1>4. CASE Hands!Showdown \/ Hands!SubmitShowdown(FALSE) \/ Hands!ShowdownRefused
  <2>1. CASE Hands!RequestShowdown
    BY <1>0, <2>1 DEF HandTypes, HandSessions, HandFields, Hands!RequestShowdown
  <2>2. CASE Hands!SubmitShowdown(TRUE)
    BY <1>0, <2>2 DEF HandTypes, HandSessions, HandFields, Hands!SubmitShowdown
  <2>3. CASE Hands!SubmitShowdown(FALSE)
    BY <1>0, <2>3 DEF HandTypes, HandSessions, HandFields, Hands!SubmitShowdown
  <2>4. CASE Hands!ShowdownRefused
    BY <1>0, <2>4 DEF HandTypes, HandSessions, HandFields, Hands!ShowdownRefused
  <2>5. QED BY <1>4, <2>1, <2>2, <2>3, <2>4 DEF Hands!Showdown
<1>5. CASE Hands!FetchTable
  BY <1>0, <1>5 DEF HandTypes, HandPhases, HandFields, Hands!FetchTable, Hands!Restored, Hands!Local
<1>6. CASE Hands!Rehydrate
  BY <1>0, <1>6 DEF HandTypes, HandSessions, HandFields, HandPhases, Hands!Rehydrate
<1>7. CASE Hands!Snapshot
  BY <1>0, <1>7 DEF HandTypes, HandSessions, HandFields, HandPhases, Hands!Snapshot
<1>8. CASE Hands!CommitDealUnanswered \/ Hands!RequestFails \/ Hands!Restart
  <2>1. CASE Hands!CommitDealUnanswered
    BY <1>0, <2>1 DEF HandTypes, HandSessions, HandFields, Hands!CommitDealUnanswered
  <2>2. CASE Hands!RequestFails
    BY <1>0, <2>2 DEF HandTypes, HandSessions, HandFields, Hands!RequestFails
  <2>3. CASE Hands!Restart
    BY <1>0, <2>3 DEF HandTypes, HandSessions, HandFields, Hands!Restart
  <2>4. QED BY <1>8, <2>1, <2>2, <2>3
<1>9. CASE Hands!TimeoutFallback
  BY <1>0, <1>9, HandNext DEF HandTypes, HandSessions, HandFields, HandPhases, Hands!TimeoutFallback
<1>10. CASE \E street \in Hands!Streets : Hands!RequestReveal(street)
  BY <1>0, <1>10 DEF HandTypes, HandSessions, HandFields, HandPhases, Hands!RequestReveal
<1>11. QED
  BY <1>1, <1>2, <1>3, <1>4, <1>5, <1>6, <1>7, <1>8, <1>9, <1>10 DEF Hands!Next, Hands!Reveal, Hands!Fault

(* StreetNotAhead of the coordinator: with lost answers, crashes, snapshots that are
   older than the hand and reloads, the coordinator's session of the current hand is on no
   street whose board the contract does not have yet. *)
THEOREM SessionNeverAhead == Hands!Spec => []Hands!StreetNotAhead
<1>1. ASSUME Hands!Init PROVE HandInv
  <2>1. HandTypes BY <1>1, HandTypesInit
  <2>2. QED BY <1>1, <2>1 DEF HandInv, NotAhead, Hands!Init, Hands!NoSession
<1>2. ASSUME HandInv, [Hands!Next]_co PROVE HandInv'
  <2>1. HandTypes /\ HandTypes'
    BY <1>2, HandTypesStep DEF HandInv
  <2>2. CASE Hands!Next
    <3>1. \A s \in {co.session, co.saved} \union co.fetched : s \in HandSessions /\ NotAhead(s)
      BY <1>2, <2>1 DEF HandInv, HandTypes
    <3>2. HandMoves
      BY <1>2, <2>1, <2>2, HandSteps
    <3>3. \A s \in {co.session, co.saved} \union co.fetched : NotAhead(s)'
      BY <2>1, <3>1, <3>2, HandBehind
    <3>4. NotAhead(co.session)'
      BY <1>2, <2>1, <2>2, <3>3, HandSteps DEF NotAhead
    <3>5. NotAhead(co.saved)'
      BY <1>2, <2>1, <2>2, <3>3, HandSteps DEF NotAhead
    <3>6. \A s \in co'.fetched : NotAhead(s)'
      BY <1>2, <2>1, <2>2, <3>3, HandSteps DEF NotAhead
    <3>7. QED BY <2>1, <3>4, <3>5, <3>6 DEF HandInv
  <2>3. CASE UNCHANGED co
    BY <1>2, <2>1, <2>3 DEF HandInv, NotAhead
  <2>4. QED BY <1>2, <2>2, <2>3
<1>3. HandInv => Hands!StreetNotAhead
  BY DEF HandInv, NotAhead, Hands!StreetNotAhead, Hands!Streets
<1>4. QED BY <1>1, <1>2, <1>3, PTL DEF Hands!Spec

-----------------------------------------------------------------------------
(* Keys, identities and signatures. *)
Keys == INSTANCE CommitteeKeys

(* A key in use is never the absent key, so that none is lost with the slot it frees. *)
KeysInv ==
  /\ {"active", "retiring", "generated", "registered", "lost", "activeAge", "retiringAge", "stage"}
       \subseteq DOMAIN keys
  /\ keys.active \in Nat \ {Keys!NoKey} /\ keys.generated \in Nat
  /\ Keys!NoKey \notin keys.registered
  /\ Keys!NoKeyStranded

(* NoKeyStranded of the rotation: the coordinator holds the secret of every key that is
   registered with stake behind it, wherever the rotation task stopped. *)
THEOREM KeysStayHeld == Keys!Spec => []Keys!NoKeyStranded
<1> USE DEF Keys!NoKey, Keys!NoKeyStranded
<1>1. Keys!Init => KeysInv
  BY DEF Keys!Init, KeysInv
<1>2. ASSUME KeysInv, [Keys!Next]_keys PROVE KeysInv'
  <2>1. CASE Keys!Tick
    BY <1>2, <2>1 DEF KeysInv, Keys!Tick
  <2>2. CASE Keys!Rotate
    BY <1>2, <2>2 DEF KeysInv, Keys!Rotate
  <2>3. CASE Keys!NotRotated \/ Keys!NothingToRetire \/ Keys!DeregisterFails
    BY <1>2, <2>3 DEF KeysInv, Keys!NotRotated, Keys!NothingToRetire, Keys!DeregisterFails
  <2>4. CASE Keys!Restart
    BY <1>2, <2>4 DEF KeysInv, Keys!Restart
  <2>5. ASSUME NEW ok \in BOOLEAN, Keys!Register(ok) PROVE KeysInv'
    BY <1>2, <2>5 DEF KeysInv, Keys!Register
  <2>6. ASSUME NEW ok \in BOOLEAN, Keys!Deregister(ok) PROVE KeysInv'
    BY <1>2, <2>6 DEF KeysInv, Keys!Deregister
  <2>7. CASE UNCHANGED keys
    BY <1>2, <2>7 DEF KeysInv
  <2>8. QED BY <1>2, <2>1, <2>2, <2>3, <2>4, <2>5, <2>6, <2>7 DEF Keys!Next
<1>3. KeysInv => Keys!NoKeyStranded
  BY DEF KeysInv
<1>4. QED BY <1>1, <1>2, <1>3, PTL DEF Keys!Spec

-----------------------------------------------------------------------------
LEMMA KeysNever == Keys!Never \in Int /\ Keys!Never < 0
BY DEF Keys!Never

AccessRows == [node : Nodes \union {"nobody"}, expires : Int, active : BOOLEAN, revoked : Int]
AccessAsks ==
  [stage : {"none", "asked", "read", "admitted", "refused"}, key : ApiKeys \union {Keys!NoAsk.key}, now : Int]

LEMMA KeysNoAsk ==
  /\ Keys!NoAsk.stage = "none" /\ Keys!NoAsk.now = Keys!Never
  /\ Keys!NoAsk = [stage |-> "none", key |-> Keys!NoAsk.key, now |-> Keys!Never]
BY Zenon DEF Keys!NoAsk

(* What holds of a request from the moment the row is read is what must hold of it when
   it is let in: a key revoked since then is revoked after the request came. *)
AccessPast(t, c) == t # Keys!Never /\ t < keys.ask[c].now

AccessGood(c) ==
  LET row == keys.row[keys.ask[c].key]
  IN  row # Keys!NoRow /\ ~AccessPast(row.revoked, c) /\ ~AccessPast(row.expires, c)

AccessCall(c) ==
  /\ keys.ask[c].now <= keys.time
  /\ keys.ask[c].stage # "none" => keys.ask[c].key \in ApiKeys
  /\ keys.ask[c].stage = "read" \/ keys.ask[c].stage = "admitted" => AccessGood(c)

AccessInv ==
  /\ {"row", "ask", "time"} \subseteq DOMAIN keys
  /\ keys.row \in [ApiKeys -> AccessRows] /\ keys.ask \in [Calls -> AccessAsks] /\ keys.time \in Nat
  /\ \A c \in Calls : AccessCall(c)

(* RevokedStaysOut of the API keys: a request is let in only with a key that was neither
   revoked nor expired when the request came, although the row is read before the clock. *)
THEOREM RevokedKeysStayOut ==
  ASSUME Lifetimes \subseteq Int
  PROVE  Keys!AccessInit /\ [][Keys!AccessNext]_keys => []Keys!RevokedStaysOut
<1>0. Keys!NoRow \in AccessRows /\ Keys!NoAsk \in AccessAsks
  BY KeysNever, KeysNoAsk DEF AccessRows, AccessAsks, Keys!NoRow
<1>1. ASSUME Keys!AccessInit PROVE AccessInv
  <2>1. /\ keys.row = [k \in ApiKeys |-> Keys!NoRow] /\ keys.ask = [c \in Calls |-> Keys!NoAsk]
        /\ keys.time = 0 /\ {"row", "ask", "time"} \subseteq DOMAIN keys
    BY <1>1 DEF Keys!AccessInit
  <2>2. keys.row \in [ApiKeys -> AccessRows] /\ keys.ask \in [Calls -> AccessAsks]
    BY <1>0, <2>1
  <2>3. \A c \in Calls : keys.ask[c].stage = "none" /\ keys.ask[c].now = Keys!Never
    BY <2>1, KeysNoAsk
  <2>4. \A c \in Calls : AccessCall(c)
    BY <2>1, <2>3, KeysNever DEF AccessCall
  <2>5. QED BY <2>1, <2>2, <2>4 DEF AccessInv
<1>2. ASSUME AccessInv, [Keys!AccessNext]_keys PROVE AccessInv'
  <2>0. /\ {"row", "ask", "time"} \subseteq DOMAIN keys /\ keys.time \in Nat
        /\ keys.row \in [ApiKeys -> AccessRows] /\ keys.ask \in [Calls -> AccessAsks]
    BY <1>2 DEF AccessCall, AccessInv
  <2>1. ASSUME NEW k \in ApiKeys, Keys!RevokeApiKey(k) PROVE AccessInv'
    <3>1. /\ keys' = [keys EXCEPT !.row[k].active = FALSE, !.row[k].revoked = keys.time]
          /\ keys.row[k].active
      BY <2>1 DEF Keys!RevokeApiKey
    <3>2. /\ keys'.ask = keys.ask /\ keys'.time = keys.time /\ DOMAIN keys' = DOMAIN keys
          /\ keys'.row = [keys.row EXCEPT ![k] = [keys.row[k] EXCEPT !.active = FALSE, !.revoked = keys.time]]
      BY <1>2, <3>1 DEF AccessCall, AccessInv
    <3>3. keys'.row \in [ApiKeys -> AccessRows] /\ keys'.row[k].revoked = keys.time
          /\ keys'.row[k].expires = keys.row[k].expires
      <4>1. keys.row[k] \in AccessRows
        BY <2>0
      <4>2. [keys.row[k] EXCEPT !.active = FALSE, !.revoked = keys.time] \in AccessRows
        <5> DEFINE r == keys.row[k]
                   now == keys.time
        <5>1. r \in AccessRows /\ now \in Int
          BY <2>0, <4>1
        <5> HIDE DEF r, now
        <5>2. [r EXCEPT !.active = FALSE, !.revoked = now] \in AccessRows
          BY <5>1 DEF AccessRows
        <5>3. QED BY <5>2 DEF r, now
      <4>3. /\ keys'.row[k] = [keys.row[k] EXCEPT !.active = FALSE, !.revoked = keys.time]
            /\ keys'.row \in [ApiKeys -> AccessRows]
        BY <2>0, <3>2, <4>2
      <4>4. QED BY <4>1, <4>3 DEF AccessRows
    <3>4. ASSUME NEW c \in Calls, keys.ask[c].stage = "read" \/ keys.ask[c].stage = "admitted" PROVE AccessGood(c)'
      <4>1. AccessGood(c) /\ keys.ask[c].key \in ApiKeys /\ keys.ask[c].now <= keys.time
            /\ keys.ask[c].now \in Int /\ keys.time \in Nat
        BY <1>2, <3>4 DEF AccessCall, AccessInv, AccessAsks
      <4>2. CASE keys.ask[c].key = k
        <5>1. keys'.ask[c] = keys.ask[c] /\ keys'.row[k].revoked = keys.time
              /\ keys'.row[k].expires = keys.row[k].expires
          BY <3>2, <3>3
        <5>2. keys'.row[k] # Keys!NoRow
          <6>1. Keys!NoRow.revoked = Keys!Never
            BY DEF Keys!NoRow
          <6>2. QED BY <2>0, <5>1, <6>1, KeysNever
        <5>3. QED BY <4>1, <4>2, <5>1, <5>2 DEF AccessGood, AccessPast
      <4>3. CASE keys.ask[c].key # k
        <5>1. keys'.row[keys.ask[c].key] = keys.row[keys.ask[c].key]
          BY <2>0, <3>2, <4>1, <4>3
        <5>2. QED BY <3>2, <4>1, <5>1 DEF AccessGood, AccessPast
      <4>4. QED BY <4>2, <4>3
    <3>5. QED BY <1>2, <3>2, <3>3, <3>4 DEF AccessCall, AccessInv
  <2>2. ASSUME NEW k \in ApiKeys, NEW n \in Nodes, NEW life \in Lifetimes, Keys!CreateApiKey(k, n, life)
        PROVE  AccessInv'
    <3>1. /\ keys'.ask = keys.ask /\ keys'.time = keys.time /\ DOMAIN keys' = DOMAIN keys
          /\ keys'.row = [keys.row EXCEPT ![k] =
                 [node |-> n, active |-> TRUE, revoked |-> Keys!Never,
                  expires |-> IF life = Keys!Never THEN Keys!Never ELSE keys.time + life]]
          /\ keys.row[k] = Keys!NoRow
      BY <1>2, <2>2 DEF AccessCall, AccessInv, Keys!CreateApiKey
    <3>2. keys'.row \in [ApiKeys -> AccessRows]
      <4>0. keys.time \in Int
        BY <2>0
      <4>1. life \in Int /\ keys.time \in Int
        BY <4>0
      <4>2. [node |-> n, active |-> TRUE, revoked |-> Keys!Never,
             expires |-> IF life = Keys!Never THEN Keys!Never ELSE keys.time + life] \in AccessRows
        BY <4>1, KeysNever DEF AccessRows
      <4>3. QED BY <1>2, <3>1, <4>2 DEF AccessCall, AccessInv
    <3>3. ASSUME NEW c \in Calls, keys.ask[c].stage = "read" \/ keys.ask[c].stage = "admitted" PROVE AccessGood(c)'
      <4>1. AccessGood(c) /\ keys.ask[c].key \in ApiKeys
        BY <1>2, <3>3 DEF AccessCall, AccessInv
      <4>2. keys.ask[c].key # k
        BY <3>1, <4>1 DEF AccessGood, AccessPast
      <4>3. keys'.row[keys.ask[c].key] = keys.row[keys.ask[c].key]
        BY <2>0, <3>1, <4>1, <4>2
      <4>4. QED BY <3>1, <4>1, <4>3 DEF AccessGood, AccessPast
    <3>4. QED BY <1>2, <3>1, <3>2, <3>3 DEF AccessCall, AccessInv
  <2>3. ASSUME NEW c \in Calls, NEW k \in ApiKeys, Keys!Authenticate(c, k) PROVE AccessInv'
    <3>1. /\ keys'.row = keys.row /\ keys'.time = keys.time /\ DOMAIN keys' = DOMAIN keys
          /\ keys'.ask = [keys.ask EXCEPT ![c] = [stage |-> "asked", key |-> k, now |-> keys.time]]
      BY <1>2, <2>3 DEF AccessCall, AccessInv, Keys!Authenticate
    <3>2. [stage |-> "asked", key |-> k, now |-> keys.time] \in AccessAsks
      <4>1. keys.time \in Int BY <2>0
      <4>2. QED BY <4>1 DEF AccessAsks
    <3>3. keys'.ask \in [Calls -> AccessAsks]
      BY <2>0, <3>1, <3>2
    <3>4. \A d \in Calls : d # c => keys'.ask[d] = keys.ask[d] /\ (AccessGood(d) => AccessGood(d)')
      BY <2>0, <3>1 DEF AccessGood, AccessPast
    <3>5. keys'.ask[c].stage = "asked" /\ keys'.ask[c].key = k /\ keys'.ask[c].now = keys.time
      BY <2>0, <3>1
    <3>6. ASSUME NEW d \in Calls
          PROVE  AccessCall(d)'
      <4>1. CASE d = c
        BY <2>0, <3>1, <3>5, <4>1 DEF AccessCall
      <4>2. CASE d # c
        BY <1>2, <3>1, <3>4, <4>2 DEF AccessCall, AccessInv
      <4>3. QED BY <4>1, <4>2
    <3>7. QED BY <2>0, <3>1, <3>3, <3>6 DEF AccessCall, AccessInv
  <2>4. ASSUME NEW c \in Calls, NEW stage \in {"read", "admitted", "refused"},
               keys' = Keys!Answered(c, stage), keys.ask[c].stage # "none",
               stage \in {"read", "admitted"} => AccessGood(c)
        PROVE  AccessInv'
    <3>1. /\ keys'.row = keys.row /\ keys'.time = keys.time /\ DOMAIN keys' = DOMAIN keys
          /\ keys'.ask = [keys.ask EXCEPT ![c] = [keys.ask[c] EXCEPT !.stage = stage]]
      BY <1>2, <2>4 DEF AccessCall, AccessInv, Keys!Answered
    <3>2. keys'.ask \in [Calls -> AccessAsks]
      BY <1>2, <3>1 DEF AccessCall, AccessInv, AccessAsks
    <3>3. keys'.ask[c].key = keys.ask[c].key /\ keys'.ask[c].now = keys.ask[c].now /\ keys'.ask[c].stage = stage
      BY <1>2, <3>1 DEF AccessCall, AccessInv, AccessAsks
    <3>4. \A d \in Calls : keys'.ask[d].key = keys.ask[d].key /\ keys'.ask[d].now = keys.ask[d].now
      BY <1>2, <3>1, <3>3 DEF AccessCall, AccessInv
    <3>5. \A d \in Calls : d # c => keys'.ask[d].stage = keys.ask[d].stage
      BY <1>2, <3>1 DEF AccessCall, AccessInv
    <3>6. \A d \in Calls : AccessGood(d) => AccessGood(d)'
      BY <3>1, <3>4 DEF AccessGood, AccessPast
    <3>7. QED BY <1>2, <2>4, <3>1, <3>2, <3>3, <3>4, <3>5, <3>6 DEF AccessCall, AccessInv
  <2>5. ASSUME NEW c \in Calls, Keys!ReadRow(c) PROVE AccessInv'
    <3>1. keys.ask[c].stage = "asked" /\ keys.ask[c].key \in ApiKeys
      BY <1>2, <2>5 DEF AccessCall, AccessInv, Keys!ReadRow
    <3>2. CASE keys' = Keys!Answered(c, "refused")
      BY <3>1, <3>2, <2>4
    <3>3. CASE /\ keys' = Keys!Answered(c, "read") /\ keys.row[keys.ask[c].key].active
               /\ keys.row[keys.ask[c].key].revoked = Keys!Never
               /\ ~(keys.row[keys.ask[c].key].expires # Keys!Never /\ keys.ask[c].now > keys.row[keys.ask[c].key].expires)
      <4>1. AccessGood(c)
        <5>1. keys.row[keys.ask[c].key] # Keys!NoRow
          BY <3>3 DEF Keys!NoRow
        <5>2. keys.row[keys.ask[c].key] \in AccessRows /\ keys.ask[c].now \in Int
          BY <2>0, <3>1 DEF AccessAsks
        <5>3. keys.row[keys.ask[c].key].expires \in Int
          BY <5>2 DEF AccessRows
        <5>4. QED BY <3>3, <5>1, <5>2, <5>3 DEF AccessGood, AccessPast
      <4>2. QED BY <3>1, <3>3, <4>1, <2>4
    <3>4. QED BY <2>5, <3>2, <3>3 DEF Keys!ReadRow
  <2>6. ASSUME NEW c \in Calls, Keys!NoteUse(c) PROVE AccessInv'
    BY <1>2, <2>4, <2>6 DEF AccessCall, AccessInv, Keys!NoteUse
  <2>7. ASSUME NEW c \in Calls, Keys!DatabaseFails(c) PROVE AccessInv'
    BY <1>2, <2>4, <2>7 DEF AccessCall, AccessInv, Keys!DatabaseFails
  <2>8. ASSUME NEW c \in Calls, Keys!Reply(c) PROVE AccessInv'
    <3>1. /\ keys'.row = keys.row /\ keys'.time = keys.time /\ DOMAIN keys' = DOMAIN keys
          /\ keys'.ask = [keys.ask EXCEPT ![c] = Keys!NoAsk]
      BY <1>2, <2>8 DEF AccessCall, AccessInv, Keys!Reply
    <3>2. keys'.ask \in [Calls -> AccessAsks]
      BY <1>0, <2>0, <3>1
    <3>3. \A d \in Calls : d # c => keys'.ask[d] = keys.ask[d] /\ (AccessGood(d) => AccessGood(d)')
      BY <2>0, <3>1 DEF AccessGood, AccessPast
    <3>4. keys'.ask[c].stage = "none" /\ keys'.ask[c].now <= keys.time
      <4>1. keys'.ask[c] = Keys!NoAsk
        BY <2>0, <3>1
      <4>2. QED BY <2>0, <4>1, KeysNever, KeysNoAsk
    <3>5. ASSUME NEW d \in Calls
          PROVE  AccessCall(d)'
      <4>1. CASE d = c
        BY <2>0, <3>1, <3>4, <4>1 DEF AccessCall
      <4>2. CASE d # c
        BY <1>2, <3>1, <3>3, <4>2 DEF AccessCall, AccessInv
      <4>3. QED BY <4>1, <4>2
    <3>6. QED BY <2>0, <3>1, <3>2, <3>5 DEF AccessCall, AccessInv
  <2>9. CASE Keys!Pass
    <3>1. /\ keys'.row = keys.row /\ keys'.ask = keys.ask /\ keys'.time = keys.time + 1
          /\ DOMAIN keys' = DOMAIN keys
      BY <2>0, <2>9 DEF Keys!Pass
    <3>2. \A c \in Calls : AccessGood(c) => AccessGood(c)'
      BY <3>1 DEF AccessGood, AccessPast
    <3>3. \A c \in Calls : keys.ask[c].now \in Int
      BY <2>0 DEF AccessAsks
    <3>4. ASSUME NEW c \in Calls PROVE AccessCall(c)'
      <4>1. AccessCall(c) /\ keys.ask[c].now \in Int /\ keys.time \in Nat
        BY <1>2, <2>0, <3>3 DEF AccessInv
      <4>2. QED BY <3>1, <3>2, <4>1 DEF AccessCall
    <3>5. QED BY <2>0, <3>1, <3>4 DEF AccessInv
  <2>10. CASE UNCHANGED keys
    BY <1>2, <2>10 DEF AccessCall, AccessInv, AccessGood, AccessPast
  <2>11. QED
    BY <1>2, <2>1, <2>2, <2>3, <2>5, <2>6, <2>7, <2>8, <2>9, <2>10 DEF Keys!AccessNext
<1>3. AccessInv => Keys!RevokedStaysOut
  BY DEF AccessCall, AccessInv, AccessGood, AccessPast, Keys!RevokedStaysOut
<1>4. QED BY <1>1, <1>2, <1>3, PTL

-----------------------------------------------------------------------------
(* A message names a node of the committee, and is not signed with the absent address. *)
MessagesConstants == \A m \in Messages : m.node \in Nodes /\ m.signer # Keys!NoAddress

MessageStages == {"none", "signed", "refused", "heard"}
MessageCalls  == [stage : MessageStages, message : Messages \union {Keys!NoMessage}]

Had(n, a) == <<n, a>> \in keys.ever

AddressesKnown ==
  /\ {"address", "ever"} \subseteq DOMAIN keys
  /\ keys.address \in [Nodes -> Addresses \union {Keys!NoAddress}]
  /\ \A n \in Nodes : keys.address[n] # Keys!NoAddress => Had(n, keys.address[n])

Said(c)   == keys.call[c].message
IsHeard(c) == keys.call[c].stage = "heard"

(* The nonces seen are those of the calls heard, one each, and a call that passed the
   signature keeps what it was checked for. *)
MessagesInv ==
  /\ AddressesKnown
  /\ {"seen", "call"} \subseteq DOMAIN keys
  /\ keys.call \in [Calls -> MessageCalls]
  /\ \A c \in Calls : keys.call[c].stage = "signed" \/ IsHeard(c) => Had(Said(c).node, Said(c).signer)
  /\ \A c, d \in Calls : IsHeard(c) /\ IsHeard(d) /\ Keys!NonceKey(Said(c)) = Keys!NonceKey(Said(d)) => c = d
  /\ \A x : x \in keys.seen <=> \E c \in Calls : IsHeard(c) /\ x = Keys!NonceKey(Said(c))

LEMMA MessagesOnboard ==
  ASSUME AddressesKnown, NEW n \in Nodes, NEW a \in Addresses, Keys!RegisterNodeIdentity(n, a)
  PROVE  /\ AddressesKnown' /\ DOMAIN keys' = DOMAIN keys
         /\ \A m, b : Had(m, b) => Had(m, b)'
         /\ \A f \in DOMAIN keys : f # "address" /\ f # "ever" => keys'[f] = keys[f]
<1>1. /\ keys'.address = [keys.address EXCEPT ![n] = a] /\ keys'.ever = keys.ever \union {<<n, a>>}
      /\ DOMAIN keys' = DOMAIN keys
      /\ \A f \in DOMAIN keys : f # "address" /\ f # "ever" => keys'[f] = keys[f]
  BY DEF AddressesKnown, Keys!RegisterNodeIdentity
<1>2. \A m, b : Had(m, b) => Had(m, b)'
  BY <1>1 DEF Had
<1>3. Had(n, a)'
  BY <1>1 DEF Had
<1>4. keys'.address[n] = a /\ \A m \in Nodes \ {n} : keys'.address[m] = keys.address[m]
  BY <1>1 DEF AddressesKnown
<1>5. keys'.address \in [Nodes -> Addresses \union {Keys!NoAddress}]
  BY <1>1 DEF AddressesKnown
<1>6. QED BY <1>1, <1>2, <1>3, <1>4, <1>5 DEF AddressesKnown

(* MessagesHeardOnce of the node identities: a message accepted is from a node with that
   identity and is accepted once, whatever is replayed or forged. *)
THEOREM HeardOnce ==
  ASSUME MessagesConstants
  PROVE  Keys!IdentityInit /\ [][Keys!MessagesNext]_keys => []Keys!MessagesHeardOnce
<1>1. ASSUME Keys!IdentityInit PROVE MessagesInv
  <2>1. /\ keys.address = [n \in Nodes |-> Keys!NoAddress] /\ keys.seen = {}
        /\ keys.call = [c \in Calls |-> [stage |-> "none", message |-> Keys!NoMessage]]
        /\ {"address", "ever", "seen", "call"} \subseteq DOMAIN keys
    BY <1>1 DEF Keys!IdentityInit
  <2>2. [stage |-> "none", message |-> Keys!NoMessage] \in MessageCalls
    BY DEF MessageCalls, MessageStages
  <2>3. keys.call \in [Calls -> MessageCalls] /\ \A c \in Calls : keys.call[c].stage = "none"
    BY <2>1, <2>2
  <2>4. AddressesKnown
    BY <2>1 DEF AddressesKnown
  <2>5. QED BY <2>1, <2>3, <2>4 DEF MessagesInv, IsHeard
<1>2. ASSUME MessagesInv, [Keys!MessagesNext]_keys PROVE MessagesInv'
  <2>0. /\ AddressesKnown /\ {"seen", "call"} \subseteq DOMAIN keys
        /\ keys.call \in [Calls -> MessageCalls]
    BY <1>2 DEF MessagesInv
  <2>1. ASSUME NEW n \in Nodes, NEW a \in Addresses, Keys!RegisterNodeIdentity(n, a) PROVE MessagesInv'
    <3>1. /\ AddressesKnown' /\ DOMAIN keys' = DOMAIN keys
          /\ \A m, b : Had(m, b) => Had(m, b)'
          /\ \A f \in DOMAIN keys : f # "address" /\ f # "ever" => keys'[f] = keys[f]
      BY <2>0, <2>1, MessagesOnboard
    <3>2. keys'.seen = keys.seen /\ keys'.call = keys.call
      BY <2>0, <3>1
    <3>3. QED BY <1>2, <3>1, <3>2 DEF MessagesInv, Said, IsHeard
  <2>2. ASSUME NEW c \in Calls, NEW m \in Messages, Keys!VerifyMessage(c, m) PROVE MessagesInv'
    <3>1. PICK stage \in {"signed", "refused"} :
             /\ keys' = [keys EXCEPT !.call[c] = [message |-> m, stage |-> stage]]
             /\ stage = "signed" => keys.address[m.node] = m.signer
      BY <2>2 DEF Keys!VerifyMessage, Keys!SignedFor
    <3>2. /\ keys'.call = [keys.call EXCEPT ![c] = [message |-> m, stage |-> stage]]
          /\ keys'.seen = keys.seen /\ keys'.address = keys.address /\ keys'.ever = keys.ever
          /\ DOMAIN keys' = DOMAIN keys
      BY <2>0, <3>1 DEF AddressesKnown
    <3>3. [message |-> m, stage |-> stage] \in MessageCalls
      BY DEF MessageCalls, MessageStages
    <3>4. keys'.call \in [Calls -> MessageCalls]
      BY <2>0, <3>2, <3>3
    <3>5. keys.call[c].stage = "none"
      BY <2>2 DEF Keys!VerifyMessage
    <3>6. /\ \A d \in Calls : IsHeard(d)' <=> IsHeard(d)
          /\ \A d \in Calls : d # c => Said(d)' = Said(d) /\ keys'.call[d].stage = keys.call[d].stage
          /\ Said(c)' = m /\ keys'.call[c].stage = stage /\ ~IsHeard(c)
      BY <2>0, <3>2, <3>5 DEF IsHeard, Said
    <3>7. stage = "signed" => Had(m.node, m.signer)
      BY <2>0, <3>1 DEF MessagesConstants, AddressesKnown
    <3>8. AddressesKnown' /\ \A n, a : Had(n, a)' <=> Had(n, a)
      BY <2>0, <3>2 DEF AddressesKnown, Had
    <3>9. \A d \in Calls : keys'.call[d].stage = "signed" \/ IsHeard(d)' => Had(Said(d).node, Said(d).signer)'
      BY <1>2, <3>6, <3>7, <3>8 DEF MessagesInv
    <3>10. \A d, e \in Calls : IsHeard(d)' /\ IsHeard(e)' /\ Keys!NonceKey(Said(d)') = Keys!NonceKey(Said(e)') => d = e
      BY <1>2, <3>6 DEF MessagesInv
    <3>11. \A x : x \in keys'.seen <=> \E d \in Calls : IsHeard(d)' /\ x = Keys!NonceKey(Said(d)')
      BY <1>2, <3>2, <3>6 DEF MessagesInv
    <3>12. QED BY <2>0, <3>2, <3>4, <3>8, <3>9, <3>10, <3>11 DEF MessagesInv
  <2>3. ASSUME NEW c \in Calls, Keys!CheckAndRecord(c) PROVE MessagesInv'
    <3> DEFINE new == Keys!NonceKey(Said(c))
    <3>1. PICK stage \in {"refused", "heard"} :
             /\ keys' = [keys EXCEPT !.seen = @ \union {new}, !.call[c].stage = stage]
             /\ stage = "refused" <=> new \in keys.seen
      BY <2>3 DEF Keys!CheckAndRecord, Said
    <3>2. /\ keys'.call = [keys.call EXCEPT ![c] = [keys.call[c] EXCEPT !.stage = stage]]
          /\ keys'.seen = keys.seen \union {new} /\ keys'.address = keys.address /\ keys'.ever = keys.ever
          /\ DOMAIN keys' = DOMAIN keys
      BY <2>0, <3>1 DEF AddressesKnown
    <3>3. keys.call[c] \in MessageCalls /\ keys.call[c].stage = "signed"
      BY <2>0, <2>3 DEF Keys!CheckAndRecord
    <3>4. /\ [keys.call[c] EXCEPT !.stage = stage] \in MessageCalls
          /\ [keys.call[c] EXCEPT !.stage = stage].stage = stage
          /\ [keys.call[c] EXCEPT !.stage = stage].message = keys.call[c].message
      BY <3>3 DEF MessageCalls, MessageStages
    <3>5. keys'.call \in [Calls -> MessageCalls]
      BY <2>0, <3>2, <3>4
    <3>6. /\ \A d \in Calls : Said(d)' = Said(d)
          /\ \A d \in Calls : d # c => keys'.call[d].stage = keys.call[d].stage
          /\ keys'.call[c].stage = stage
      BY <2>0, <3>2, <3>4 DEF Said
    <3>7. /\ \A d \in Calls : d # c => (IsHeard(d)' <=> IsHeard(d))
          /\ IsHeard(c)' <=> new \notin keys.seen
          /\ ~IsHeard(c)
      BY <3>1, <3>3, <3>6 DEF IsHeard
    <3>8. AddressesKnown' /\ \A n, a : Had(n, a)' <=> Had(n, a)
      BY <2>0, <3>2 DEF AddressesKnown, Had
    <3>9. \A d \in Calls : keys'.call[d].stage = "signed" \/ IsHeard(d)' => Had(Said(d).node, Said(d).signer)'
      <4>1. Had(Said(c).node, Said(c).signer)
        BY <1>2, <3>3 DEF MessagesInv
      <4>2. QED BY <1>2, <4>1, <3>6, <3>7, <3>8 DEF MessagesInv
    <3> HIDE DEF new
    <3>10. /\ \A x : x \in keys.seen <=> \E d \in Calls : IsHeard(d) /\ x = Keys!NonceKey(Said(d))
           /\ \A d, e \in Calls : IsHeard(d) /\ IsHeard(e) /\ Keys!NonceKey(Said(d)) = Keys!NonceKey(Said(e)) => d = e
           /\ new = Keys!NonceKey(Said(c))
      BY <1>2 DEF MessagesInv, new
    <3>11. \A d, e \in Calls : IsHeard(d)' /\ IsHeard(e)' /\ Keys!NonceKey(Said(d)') = Keys!NonceKey(Said(e)') => d = e
      BY <3>6, <3>7, <3>10
    <3>12. \A x : x \in keys'.seen <=> \E d \in Calls : IsHeard(d)' /\ x = Keys!NonceKey(Said(d)')
      BY <3>2, <3>6, <3>7, <3>10
    <3>13. QED BY <2>0, <3>2, <3>5, <3>8, <3>9, <3>11, <3>12 DEF MessagesInv
  <2>4. CASE UNCHANGED keys
    BY <1>2, <2>4 DEF MessagesInv, AddressesKnown, Had, Said, IsHeard
  <2>5. QED BY <1>2, <2>1, <2>2, <2>3, <2>4 DEF Keys!MessagesNext, Keys!Onboard
<1>3. ASSUME MessagesInv PROVE Keys!MessagesHeardOnce
  BY <1>3 DEF MessagesInv, Keys!MessagesHeardOnce, Had, Said, IsHeard
<1>4. QED BY <1>1, <1>2, <1>3, PTL

-----------------------------------------------------------------------------
(* A share names a node of the committee, and is not signed with the absent address. *)
SharesConstants ==
  Threshold \in Int /\ \A s \in Shares : s.node \in Nodes /\ s.signer # Keys!NoAddress

Given == {keys.shares[i] : i \in DOMAIN keys.shares}

(* The valid shares are some of those submitted, signed by different nodes. *)
SharesInv ==
  /\ AddressesKnown
  /\ {"shares", "next", "nodes", "valid", "result"} \subseteq DOMAIN keys
  /\ keys.shares \in Seq(Shares) /\ keys.next \in Nat \ {0}
  /\ keys.valid \in Seq(Shares)
  /\ \A i \in DOMAIN keys.valid :
       /\ keys.valid[i] \in Given /\ keys.valid[i].node \in keys.nodes
       /\ keys.valid[i].ours /\ Had(keys.valid[i].node, keys.valid[i].signer)
  /\ \A i, j \in DOMAIN keys.valid : keys.valid[i].node = keys.valid[j].node => i = j
  /\ keys.result = "threshold" => Len(keys.valid) >= Threshold

(* The module's own instance of Cardinality is the one the library's facts are about. *)
LEMMA KeysCardinality ==
  ASSUME NEW S PROVE Keys!Cardinality(S) = Cardinality(S)
BY DEF Keys!Cardinality, Cardinality, Keys!IsFiniteSet, IsFiniteSet

LEMMA SharesOfNodes ==
  ASSUME SharesConstants, SharesInv, keys.result = "threshold"
  PROVE  Cardinality({s.node : s \in {x \in Given : x.ours /\ <<x.node, x.signer>> \in keys.ever}})
           >= Threshold
<1> DEFINE T == {s.node : s \in {x \in Given : x.ours /\ <<x.node, x.signer>> \in keys.ever}}
           n == Len(keys.valid)
           f == [i \in 1 .. n |-> keys.valid[i].node]
<1>1. n \in Nat /\ DOMAIN keys.valid = 1 .. n /\ n >= Threshold
  BY DEF SharesInv
<1>2. f \in Injection(1 .. n, T)
  <2>1. \A i \in 1 .. n : f[i] \in T
    BY <1>1 DEF SharesInv, Had
  <2>2. \A i, j \in 1 .. n : f[i] = f[j] => i = j
    BY <1>1 DEF SharesInv
  <2>3. QED BY <2>1, <2>2 DEF Injection, IsInjective
<1>3. IsFiniteSet(T)
  <2> DEFINE g == [i \in DOMAIN keys.shares |-> keys.shares[i].node]
             U == {g[i] : i \in DOMAIN keys.shares}
  <2>1. IsFiniteSet(DOMAIN keys.shares)
    BY FS_Interval DEF SharesInv
  <2>2. IsFiniteSet(U)
    <3> HIDE DEF g
    <3> QED BY <2>1, ImageFinite
  <2>3. T \in SUBSET U
    BY DEF Given
  <2>4. QED BY <2>2, <2>3, FS_Subset
<1>4. Cardinality(1 .. n) = n
  BY <1>1, FS_Interval
<1> HIDE DEF T, n, f
<1>5. Cardinality(1 .. n) <= Cardinality(T)
  BY <1>2, <1>3, FS_Injection
<1>6. Cardinality(T) \in Nat
  BY <1>3, FS_CardinalityType
<1>7. Cardinality(T) >= Threshold
  BY <1>1, <1>4, <1>5, <1>6 DEF SharesConstants
<1>8. QED BY <1>7 DEF T

LEMMA SharesOneMore ==
  ASSUME SharesInv, SharesConstants, Keys!VerifyShare
  PROVE  SharesInv'
<1> DEFINE s == keys.shares[keys.next]
<1>0. /\ AddressesKnown /\ keys.shares \in Seq(Shares) /\ keys.next \in Nat \ {0}
      /\ keys.valid \in Seq(Shares) /\ keys.next \in DOMAIN keys.shares
      /\ {"shares", "next", "nodes", "valid", "result"} \subseteq DOMAIN keys
  BY DEF SharesInv, Keys!VerifyShare
<1>1. PICK valid \in {keys.valid, Append(keys.valid, s)} :
         /\ keys' = [keys EXCEPT !.next = @ + 1, !.nodes = @ \union {s.node}, !.valid = valid]
         /\ valid # keys.valid =>
              /\ s.node \notin keys.nodes /\ keys.address[s.node] = s.address
              /\ s.signer = s.address /\ s.ours
  BY DEF Keys!VerifyShare, Keys!SignedFor
<1>2. /\ DOMAIN keys' = DOMAIN keys /\ keys'.next = keys.next + 1
      /\ keys'.nodes = keys.nodes \union {s.node} /\ keys'.valid = valid
      /\ keys'.shares = keys.shares /\ keys'.result = keys.result
      /\ keys'.address = keys.address /\ keys'.ever = keys.ever
  BY <1>0, <1>1 DEF AddressesKnown
<1>3. s \in Shares /\ s \in Given
  BY <1>0 DEF Given
<1>4. AddressesKnown' /\ Given' = Given /\ \A m, a : Had(m, a)' <=> Had(m, a)
  BY <1>0, <1>2 DEF AddressesKnown, Given, Had
<1> HIDE DEF s
<1>5. CASE valid = keys.valid
  BY <1>0, <1>2, <1>4, <1>5 DEF SharesInv
<1>6. CASE valid # keys.valid
  <2>1. /\ valid = Append(keys.valid, s) /\ s.node \notin keys.nodes /\ s.ours
        /\ Had(s.node, s.signer)
    <3>1. s.signer # Keys!NoAddress /\ s.node \in Nodes
      BY <1>3 DEF SharesConstants
    <3>2. QED BY <1>0, <1>1, <1>6, <3>1 DEF AddressesKnown
  <2> DEFINE n == Len(keys.valid)
  <2>2. /\ n \in Nat /\ DOMAIN keys.valid = 1 .. n /\ DOMAIN valid = 1 .. n + 1
        /\ valid \in Seq(Shares) /\ Len(valid) = n + 1 /\ valid[n + 1] = s
        /\ \A i \in 1 .. n : valid[i] = keys.valid[i]
    BY <1>0, <1>3, <2>1
  <2>3. /\ \A i \in 1 .. n :
             /\ keys.valid[i] \in Given /\ keys.valid[i].node \in keys.nodes
             /\ keys.valid[i].ours /\ Had(keys.valid[i].node, keys.valid[i].signer)
        /\ \A i, j \in 1 .. n : keys.valid[i].node = keys.valid[j].node => i = j
        /\ keys.result = "threshold" => n >= Threshold
    BY <2>2 DEF SharesInv
  <2> HIDE DEF n
  <2>4. \A i \in 1 .. n + 1 : i = n + 1 \/ i \in 1 .. n
    BY <2>2
  <2>5. \A i \in 1 .. n + 1 :
          /\ valid[i] \in Given /\ valid[i].node \in keys.nodes \union {s.node}
          /\ valid[i].ours /\ Had(valid[i].node, valid[i].signer)
    BY <1>3, <2>1, <2>2, <2>3, <2>4
  <2>6. \A i, j \in 1 .. n + 1 : valid[i].node = valid[j].node => i = j
    BY <2>1, <2>2, <2>3, <2>4
  <2>7. keys.result = "threshold" => n + 1 >= Threshold
    BY <2>2, <2>3 DEF SharesConstants
  <2>8. QED BY <1>0, <1>2, <1>4, <2>2, <2>5, <2>6, <2>7 DEF SharesInv
<1>7. QED BY <1>5, <1>6

(* QuorumReal of the settlements: one goes out as the committee's only when as many
   different nodes as the threshold says have signed that settlement. *)
THEOREM QuorumStaysReal ==
  ASSUME SharesConstants
  PROVE  Keys!IdentityInit /\ [][Keys!SharesNext]_keys => []Keys!QuorumReal
<1>1. ASSUME Keys!IdentityInit PROVE SharesInv
  <2>1. /\ keys.address = [n \in Nodes |-> Keys!NoAddress]
        /\ {"address", "ever", "shares", "next", "nodes", "valid", "result"} \subseteq DOMAIN keys
        /\ keys.shares = <<>> /\ keys.valid = <<>> /\ keys.next = 1 /\ keys.result = "none"
    BY <1>1 DEF Keys!IdentityInit
  <2>2. AddressesKnown
    BY <2>1 DEF AddressesKnown
  <2>3. QED BY <2>1, <2>2 DEF SharesInv
<1>2. ASSUME SharesInv, [Keys!SharesNext]_keys PROVE SharesInv'
  <2>0. /\ AddressesKnown /\ {"shares", "next", "nodes", "valid", "result"} \subseteq DOMAIN keys
    BY <1>2 DEF SharesInv
  <2>1. ASSUME NEW n \in Nodes, NEW a \in Addresses, Keys!RegisterNodeIdentity(n, a) PROVE SharesInv'
    <3>1. /\ AddressesKnown' /\ DOMAIN keys' = DOMAIN keys
          /\ \A m, b : Had(m, b) => Had(m, b)'
          /\ \A f \in DOMAIN keys : f # "address" /\ f # "ever" => keys'[f] = keys[f]
      BY <2>0, <2>1, MessagesOnboard
    <3>2. /\ keys'.shares = keys.shares /\ keys'.next = keys.next /\ keys'.nodes = keys.nodes
          /\ keys'.valid = keys.valid /\ keys'.result = keys.result
      BY <2>0, <3>1
    <3>3. QED BY <1>2, <3>1, <3>2 DEF SharesInv, Given
  <2>2. ASSUME NEW k \in 1 .. MaxShares, NEW shares \in [1 .. k -> Shares], Keys!Submit(shares)
        PROVE  SharesInv'
    <3>1. /\ keys'.shares = shares /\ keys'.next = keys.next /\ keys'.nodes = keys.nodes
          /\ keys'.valid = keys.valid /\ keys'.result = keys.result
          /\ keys'.address = keys.address /\ keys'.ever = keys.ever
          /\ DOMAIN keys' = DOMAIN keys /\ keys.shares = <<>>
      BY <2>0, <2>2 DEF Keys!Submit, AddressesKnown
    <3>2. AddressesKnown'
      <4>1. DOMAIN keys' = DOMAIN keys /\ keys'.address = keys.address /\ \A m, a : Had(m, a)' <=> Had(m, a)
        BY <3>1 DEF Had
      <4>2. QED BY <2>0, <4>1 DEF AddressesKnown
    <3>3. DOMAIN keys.valid = {}
      <4>1. Given = {} BY <3>1 DEF Given
      <4>2. QED BY <1>2, <4>1 DEF SharesInv
    <3>4. shares \in Seq(Shares)
      OBVIOUS
    <3>5. QED BY <1>2, <3>1, <3>2, <3>3, <3>4 DEF SharesInv
  <2>3. CASE Keys!VerifyShare
    BY <1>2, <2>3, SharesOneMore
  <2>4. CASE Keys!Decide
    <3>1. /\ keys'.shares = keys.shares /\ keys'.next = keys.next /\ keys'.nodes = keys.nodes
          /\ keys'.valid = keys.valid
          /\ keys'.address = keys.address /\ keys'.ever = keys.ever
          /\ DOMAIN keys' = DOMAIN keys
          /\ keys'.result = "threshold" => Len(keys.valid) >= Threshold
      BY <2>0, <2>4 DEF Keys!Decide, AddressesKnown
    <3>2. AddressesKnown'
      <4>1. DOMAIN keys' = DOMAIN keys /\ keys'.address = keys.address /\ \A m, a : Had(m, a)' <=> Had(m, a)
        BY <3>1 DEF Had
      <4>2. QED BY <2>0, <4>1 DEF AddressesKnown
    <3>3. Given' = Given /\ \A m, a : Had(m, a)' <=> Had(m, a)
      BY <3>1 DEF Given, Had
    <3>4. QED BY <1>2, <3>1, <3>2, <3>3 DEF SharesInv
  <2>5. CASE UNCHANGED keys
    BY <1>2, <2>5 DEF SharesInv, AddressesKnown, Given, Had
  <2>6. QED BY <1>2, <2>1, <2>2, <2>3, <2>4, <2>5 DEF Keys!SharesNext, Keys!Onboard
<1>3. ASSUME SharesInv PROVE Keys!QuorumReal
  <2>1. CASE keys.result = "threshold"
    <3>1. Cardinality({s.node : s \in {x \in Given : x.ours /\ <<x.node, x.signer>> \in keys.ever}})
            >= Threshold
      BY <1>3, <2>1, SharesOfNodes
    <3>2. QED BY <3>1, KeysCardinality DEF Keys!QuorumReal, Given
  <2>2. CASE keys.result # "threshold"
    BY <2>2 DEF Keys!QuorumReal
  <2>3. QED BY <2>1, <2>2
<1>4. QED BY <1>1, <1>2, <1>3, PTL

-----------------------------------------------------------------------------
(* Background tasks: the job queue, the rollout of circuits. *)
Queue == INSTANCE BackgroundTasks

(* Every job has a priority, one of an enumeration. *)
JobConstants == Priority \in [Jobs -> Int]

JobStages == [job : Jobs, stage : {"popped", "running"}] \union {Queue!Idle}

JobTypes ==
  /\ {"status", "retries", "pushing", "pending", "worker"} \subseteq DOMAIN jobs
  /\ jobs.status \in [Jobs -> Queue!Settled \union {"None", "Queued", "Retrying", "Processing"}]
  /\ jobs.retries \in [Jobs -> Nat]
  /\ jobs.pushing \in SUBSET Jobs
  /\ jobs.pending \in Seq(Jobs)
  /\ jobs.worker \in [Workers -> JobStages]

(* The places a job can be: on its way to the heap, in the heap, with a worker. *)
Waiting(j) == \E i \in DOMAIN jobs.pending : jobs.pending[i] = j
Held(j)    == \E w \in Workers : Queue!Holds(w, j)

JobOnce ==
  /\ \A j \in Jobs : jobs.status[j] = "None" => j \notin jobs.pushing /\ ~Waiting(j) /\ ~Held(j)
  /\ \A j \in jobs.pushing : ~Waiting(j) /\ ~Held(j)
  /\ \A j \in Jobs : ~(Waiting(j) /\ Held(j))
  /\ \A i, k \in DOMAIN jobs.pending : jobs.pending[i] = jobs.pending[k] => i = k
  /\ \A v, w \in Workers, j \in Jobs : Queue!Holds(v, j) /\ Queue!Holds(w, j) => v = w

JobInv == JobTypes /\ JobOnce

LEMMA QueueCardinality == \A S : Queue!Cardinality(S) = Cardinality(S)
BY DEF Queue!Cardinality, Cardinality, Queue!IsFiniteSet, IsFiniteSet

LEMMA JobRemoved ==
  ASSUME NEW S, NEW s \in Seq(S), NEW i \in DOMAIN s
  PROVE  /\ Queue!RemoveAt(s, i) \in Seq(S)
         /\ \A k \in DOMAIN Queue!RemoveAt(s, i) :
              /\ k \in Nat
              /\ k < i => k \in DOMAIN s /\ Queue!RemoveAt(s, i)[k] = s[k]
              /\ k >= i => k + 1 \in DOMAIN s /\ Queue!RemoveAt(s, i)[k] = s[k + 1]
<1> DEFINE a == SubSeq(s, 1, i - 1)
           b == SubSeq(s, i + 1, Len(s))
<1>1. Len(s) \in Nat /\ i \in 1 .. Len(s) /\ DOMAIN s = 1 .. Len(s) /\ \A k \in 1 .. Len(s) : s[k] \in S
  OBVIOUS
<1>2. a \in Seq(S) /\ Len(a) = i - 1 /\ \A k \in 1 .. (i - 1) : a[k] = s[k]
  BY <1>1
<1>3. b \in Seq(S) /\ Len(b) = Len(s) - i /\ \A k \in 1 .. (Len(s) - i) : b[k] = s[k + i]
  BY <1>1
<1> HIDE DEF a, b
<1>4. a \o b \in Seq(S) /\ Len(a \o b) = Len(s) - 1
  <2>1. a \o b \in Seq(S) /\ Len(a \o b) = Len(a) + Len(b)
    BY <1>2, <1>3, ConcatProperties
  <2>2. QED BY <1>1, <1>2, <1>3, <2>1
<1>5. Queue!RemoveAt(s, i) = a \o b
  BY DEF Queue!RemoveAt, a, b
<1>6. ASSUME NEW k \in DOMAIN (a \o b)
      PROVE  /\ k \in Nat
             /\ k < i => k \in DOMAIN s /\ (a \o b)[k] = s[k]
             /\ k >= i => k + 1 \in DOMAIN s /\ (a \o b)[k] = s[k + 1]
  <2>1. k \in 1 .. (Len(s) - 1)
    BY <1>4
  <2>2. CASE k < i
    <3>1. (a \o b)[k] = a[k]
      BY <1>1, <1>2, <1>3, <2>1, <2>2
    <3>2. QED BY <1>1, <1>2, <2>1, <2>2, <3>1
  <2>3. CASE k >= i
    <3>1. (a \o b)[k] = b[k - Len(a)]
      BY <1>1, <1>2, <1>3, <2>1, <2>3
    <3>2. k - Len(a) = (k - i) + 1 /\ (k - i) + 1 \in 1 .. (Len(s) - i) /\ (k - i) + 1 + i = k + 1
      BY <1>1, <1>2, <2>1, <2>3
    <3>3. b[(k - i) + 1] = s[k + 1]
      BY <1>3, <3>2
    <3>4. QED BY <1>1, <2>1, <2>3, <3>1, <3>2, <3>3, SMTT(30)
  <2>4. QED BY <1>1, <2>1, <2>2, <2>3
<1>7. QED BY <1>4, <1>5, <1>6

(* The heap that is not empty has a job to give. *)
LEMMA JobPopped ==
  ASSUME JobConstants, jobs.pending \in Seq(Jobs), jobs.pending # <<>>
  PROVE  Queue!Popped \in DOMAIN jobs.pending
<1> DEFINE places == DOMAIN jobs.pending
           f == [i \in places |-> Priority[jobs.pending[i]]]
           priority == {f[i] : i \in places}
<1>1. Len(jobs.pending) \in Nat /\ places = 1 .. Len(jobs.pending) /\ 1 \in places /\ \A i \in places : jobs.pending[i] \in Jobs
  OBVIOUS
<1>2. IsFiniteSet(places)
  BY <1>1, FS_Interval
<1>3. IsFiniteSet(priority)
  BY <1>2, ImageFinite
<1>4. priority \subseteq Int /\ priority # {}
  BY <1>1 DEF JobConstants
<1>5. PICK p \in priority : \A q \in priority : p <= q
  BY <1>3, <1>4, MinIn
<1> DEFINE first == {i \in places : Priority[jobs.pending[i]] = p}
<1>6. IsFiniteSet(first) /\ first # {} /\ first \subseteq Int
  <2>1. first \subseteq places /\ places \subseteq Int
    BY <1>1
  <2>2. IsFiniteSet(first)
    BY <1>2, <2>1, FS_Subset
  <2>3. PICK i \in places : p = f[i]
    BY <1>5
  <2>4. i \in first
    BY <2>3
  <2>5. QED BY <2>1, <2>2, <2>4
<1>7. PICK i \in first : \A k \in first : k <= i
  BY <1>6, MaxIn
<1>8. \A k \in places : k \in Int /\ Priority[jobs.pending[k]] \in Int
  BY <1>1 DEF JobConstants
<1>9. \A k \in places \ {i} :
        \/ Priority[jobs.pending[i]] < Priority[jobs.pending[k]]
        \/ Priority[jobs.pending[i]] = Priority[jobs.pending[k]] /\ i > k
  <2> SUFFICES ASSUME NEW k \in places \ {i}
               PROVE  \/ Priority[jobs.pending[i]] < Priority[jobs.pending[k]]
                      \/ Priority[jobs.pending[i]] = Priority[jobs.pending[k]] /\ i > k
    OBVIOUS
  <2>1. i \in places /\ Priority[jobs.pending[i]] = p /\ p <= Priority[jobs.pending[k]]
    BY <1>5, <1>7
  <2>2. CASE k \in first
    BY <1>7, <1>8, <2>1, <2>2
  <2>3. CASE k \notin first
    BY <1>8, <2>1, <2>3
  <2>4. QED BY <2>2, <2>3
<1>10. i \in places
  BY <1>7
<1>11. QED BY <1>9, <1>10 DEF Queue!Popped

LEMMA JobInit == ASSUME Queue!Init PROVE JobInv
BY DEF Queue!Init, JobInv, JobTypes, JobOnce, JobStages, Waiting, Held, Queue!Holds, Queue!Idle

(* Only the status of a job changes. *)
LEMMA JobStatus ==
  ASSUME JobInv, NEW j \in Jobs, NEW status \in Queue!Settled,
         jobs.status[j] # "None", jobs' = [jobs EXCEPT !.status[j] = status]
  PROVE  JobInv'
<1>1. /\ jobs'.pushing = jobs.pushing /\ jobs'.pending = jobs.pending
      /\ jobs'.worker = jobs.worker /\ jobs'.retries = jobs.retries
      /\ DOMAIN jobs' = DOMAIN jobs /\ jobs'.status = [jobs.status EXCEPT ![j] = status]
  BY DEF JobInv, JobTypes
<1>2. JobTypes'
  BY <1>1 DEF JobInv, JobTypes, JobStages, Queue!Settled
<1>3. \A k \in Jobs : jobs'.status[k] = "None" => jobs.status[k] = "None"
  BY <1>1 DEF JobInv, JobTypes, Queue!Settled
<1>4. QED BY <1>1, <1>2, <1>3 DEF JobInv, JobOnce, Waiting, Held, Queue!Holds

LEMMA JobEnqueued == ASSUME JobInv, NEW j \in Jobs, Queue!Enqueue(j) PROVE JobInv'
<1>1. /\ jobs'.pushing = jobs.pushing \union {j} /\ jobs'.pending = jobs.pending
      /\ jobs'.worker = jobs.worker /\ jobs'.retries = jobs.retries
      /\ DOMAIN jobs' = DOMAIN jobs /\ jobs'.status = [jobs.status EXCEPT ![j] = "Queued"]
      /\ jobs.status[j] = "None"
  BY DEF JobInv, JobTypes, Queue!Enqueue
<1>2. JobTypes'
  BY <1>1 DEF JobInv, JobTypes, JobStages
<1>3. \A k \in Jobs : jobs'.status[k] = "None" => jobs.status[k] = "None" /\ k # j
  BY <1>1 DEF JobInv, JobTypes
<1>4. QED BY <1>1, <1>2, <1>3 DEF JobInv, JobOnce, Waiting, Held, Queue!Holds

(* A job joins the heap that is nowhere else. *)
LEMMA JobAppended ==
  ASSUME JobTypes, JobOnce, NEW j \in Jobs, ~Waiting(j),
         jobs'.pending = Append(jobs.pending, j)
  PROVE  /\ jobs'.pending \in Seq(Jobs)
         /\ \A k \in Jobs : Waiting(k)' => Waiting(k) \/ k = j
         /\ \A i, k \in DOMAIN jobs'.pending : jobs'.pending[i] = jobs'.pending[k] => i = k
<1>1. jobs.pending \in Seq(Jobs)
  BY DEF JobTypes
<1>2. /\ jobs'.pending \in Seq(Jobs) /\ Len(jobs'.pending) = Len(jobs.pending) + 1
      /\ \A i \in DOMAIN jobs'.pending :
           \/ i \in DOMAIN jobs.pending /\ jobs'.pending[i] = jobs.pending[i]
           \/ i = Len(jobs.pending) + 1 /\ jobs'.pending[i] = j
  BY <1>1
<1>3. \A k \in Jobs : Waiting(k)' => Waiting(k) \/ k = j
  BY <1>2 DEF Waiting
<1>4. \A i \in DOMAIN jobs.pending : jobs.pending[i] # j
  BY DEF Waiting
<1>5. \A i, k \in DOMAIN jobs'.pending : jobs'.pending[i] = jobs'.pending[k] => i = k
  BY <1>2, <1>4 DEF JobOnce
<1>6. QED BY <1>2, <1>3, <1>5

LEMMA JobPushed == ASSUME JobInv, NEW j \in Jobs, Queue!Push(j) PROVE JobInv'
<1>1. /\ jobs'.pushing = jobs.pushing \ {j} /\ jobs'.pending = Append(jobs.pending, j)
      /\ jobs'.worker = jobs.worker /\ jobs'.retries = jobs.retries
      /\ DOMAIN jobs' = DOMAIN jobs /\ jobs'.status = jobs.status
      /\ j \in jobs.pushing
  BY DEF JobInv, JobTypes, Queue!Push
<1>2. ~Waiting(j) /\ ~Held(j) /\ jobs.status[j] # "None"
  BY <1>1 DEF JobInv, JobOnce
<1>3. /\ jobs'.pending \in Seq(Jobs)
      /\ \A k \in Jobs : Waiting(k)' => Waiting(k) \/ k = j
      /\ \A i, k \in DOMAIN jobs'.pending : jobs'.pending[i] = jobs'.pending[k] => i = k
  BY <1>1, <1>2, JobAppended DEF JobInv
<1>4. JobTypes'
  BY <1>1, <1>3 DEF JobInv, JobTypes, JobStages
<1>5. \A k \in Jobs : Held(k)' <=> Held(k)
  BY <1>1 DEF Held, Queue!Holds
<1>6. \A w \in Workers, k \in Jobs : Queue!Holds(w, k)' <=> Queue!Holds(w, k)
  BY <1>1 DEF Queue!Holds
<1>7. jobs.pushing \in SUBSET Jobs
  BY DEF JobInv, JobTypes
<1>8. QED BY <1>1, <1>2, <1>3, <1>4, <1>5, <1>6, <1>7 DEF JobInv, JobOnce

(* A worker that is done holds no job. *)
LEMMA JobReleased ==
  ASSUME JobTypes, NEW w \in Workers, jobs'.worker = [jobs.worker EXCEPT ![w] = Queue!Idle]
  PROVE  /\ jobs'.worker \in [Workers -> JobStages]
         /\ \A v \in Workers, j \in Jobs : Queue!Holds(v, j)' => Queue!Holds(v, j) /\ v # w
BY DEF JobTypes, JobStages, Queue!Idle, Queue!Holds

LEMMA JobSucceeded == ASSUME JobInv, NEW w \in Workers, Queue!Succeed(w) PROVE JobInv'
<1> DEFINE j == jobs.worker[w].job
<1>1. j \in Jobs /\ Queue!Holds(w, j)
  BY DEF JobInv, JobTypes, JobStages, Queue!Idle, Queue!Succeed, Queue!Holds
<1> HIDE DEF j
<1>2. jobs' = [jobs EXCEPT !.status[j] = "Completed", !.worker[w] = Queue!Idle]
  BY DEF Queue!Succeed, j
<1>3. /\ jobs'.pushing = jobs.pushing /\ jobs'.pending = jobs.pending
      /\ jobs'.worker = [jobs.worker EXCEPT ![w] = Queue!Idle] /\ jobs'.retries = jobs.retries
      /\ DOMAIN jobs' = DOMAIN jobs /\ jobs'.status = [jobs.status EXCEPT ![j] = "Completed"]
  BY <1>2 DEF JobInv, JobTypes
<1>4. /\ jobs'.worker \in [Workers -> JobStages]
      /\ \A v \in Workers, k \in Jobs : Queue!Holds(v, k)' => Queue!Holds(v, k) /\ v # w
  BY <1>3, JobReleased DEF JobInv
<1>5. JobTypes'
  BY <1>1, <1>3, <1>4 DEF JobInv, JobTypes, Queue!Settled
<1>6. \A k \in Jobs : jobs'.status[k] = "None" => jobs.status[k] = "None"
  BY <1>1, <1>3 DEF JobInv, JobTypes
<1>7. \A k \in Jobs : Held(k)' => Held(k)
  BY <1>4 DEF Held
<1>8. \A k \in Jobs : Waiting(k)' <=> Waiting(k)
  BY <1>3 DEF Waiting
<1>9. jobs.pushing \in SUBSET Jobs
  BY DEF JobInv, JobTypes
<1>10. QED BY <1>3, <1>4, <1>5, <1>6, <1>7, <1>8, <1>9 DEF JobInv, JobOnce

LEMMA JobFailed == ASSUME JobInv, NEW w \in Workers, Queue!Fail(w) PROVE JobInv'
<1>1. PICK j \in Jobs : j = jobs.worker[w].job /\ Queue!Holds(w, j)
  BY DEF JobInv, JobTypes, JobStages, Queue!Idle, Queue!Fail, Queue!Holds
<1> DEFINE again == jobs.retries[j] < MaxRetries
           status == IF again THEN "Retrying" ELSE "Failed"
           pending == IF again THEN Append(jobs.pending, j) ELSE jobs.pending
<1>2. jobs' = [jobs EXCEPT !.retries[j] = jobs.retries[j] + 1, !.status[j] = status,
                           !.pending = pending, !.worker[w] = Queue!Idle]
  BY <1>1 DEF Queue!Fail, JobInv, JobTypes
<1>3. status \in {"Retrying", "Failed"}
  OBVIOUS
<1>4. pending = jobs.pending \/ pending = Append(jobs.pending, j)
  OBVIOUS
<1> HIDE DEF again, status, pending
<1>5. /\ jobs'.pushing = jobs.pushing /\ jobs'.pending = pending
      /\ jobs'.worker = [jobs.worker EXCEPT ![w] = Queue!Idle]
      /\ jobs'.retries = [jobs.retries EXCEPT ![j] = jobs.retries[j] + 1]
      /\ DOMAIN jobs' = DOMAIN jobs /\ jobs'.status = [jobs.status EXCEPT ![j] = status]
  BY <1>2 DEF JobInv, JobTypes
<1>6. /\ jobs'.worker \in [Workers -> JobStages]
      /\ \A v \in Workers, k \in Jobs : Queue!Holds(v, k)' => Queue!Holds(v, k) /\ v # w
  BY <1>5, JobReleased DEF JobInv
<1>7. Held(j)
  BY <1>1 DEF Held
<1>8. ~Waiting(j) /\ j \notin jobs.pushing /\ jobs.status[j] # "None"
  BY <1>1, <1>7 DEF JobInv, JobOnce
<1>9. ~Held(j)'
  BY <1>1, <1>6 DEF Held, JobInv, JobOnce
<1>10. /\ jobs'.pending \in Seq(Jobs)
       /\ \A k \in Jobs : Waiting(k)' => Waiting(k) \/ k = j
       /\ \A i, k \in DOMAIN jobs'.pending : jobs'.pending[i] = jobs'.pending[k] => i = k
  <2>1. CASE pending = jobs.pending
    BY <1>5, <2>1 DEF JobInv, JobOnce, JobTypes, Waiting
  <2>2. CASE pending = Append(jobs.pending, j)
    BY <1>1, <1>5, <1>8, <2>2, JobAppended DEF JobInv
  <2>3. QED BY <1>4, <2>1, <2>2
<1>11. jobs'.retries \in [Jobs -> Nat]
  BY <1>1, <1>5 DEF JobInv, JobTypes
<1>12. jobs'.status \in [Jobs -> Queue!Settled \union {"None", "Queued", "Retrying", "Processing"}]
  BY <1>1, <1>3, <1>5 DEF JobInv, JobTypes, Queue!Settled
<1>13. JobTypes'
  BY <1>5, <1>6, <1>10, <1>11, <1>12 DEF JobInv, JobTypes
<1>14. \A k \in Jobs : jobs'.status[k] = "None" => jobs.status[k] = "None" /\ k # j
  BY <1>1, <1>3, <1>5 DEF JobInv, JobTypes
<1>15. \A k \in Jobs : Held(k)' => Held(k)
  BY <1>6 DEF Held
<1>16. jobs.pushing \in SUBSET Jobs
  BY DEF JobInv, JobTypes
<1>17. QED BY <1>5, <1>6, <1>8, <1>9, <1>10, <1>13, <1>14, <1>15, <1>16 DEF JobInv, JobOnce

LEMMA JobTaken == ASSUME JobConstants, JobInv, NEW w \in Workers, Queue!Pop(w) PROVE JobInv'
<1> DEFINE i == Queue!Popped
           j == jobs.pending[i]
           rest == Queue!RemoveAt(jobs.pending, i)
<1>1. jobs.pending \in Seq(Jobs) /\ jobs.pending # <<>>
  BY DEF JobInv, JobTypes, Queue!Pop
<1>2. i \in DOMAIN jobs.pending /\ j \in Jobs
  BY <1>1, JobPopped
<1>3. jobs' = [jobs EXCEPT !.worker[w] = [job |-> j, stage |-> "popped"], !.pending = rest]
  BY DEF Queue!Pop, JobInv, JobTypes
<1>4. jobs.worker[w] = Queue!Idle
  BY DEF Queue!Pop
<1> HIDE DEF i
<1>5. /\ rest \in Seq(Jobs)
      /\ \A k \in DOMAIN rest :
              /\ k \in Nat
              /\ k < i => k \in DOMAIN jobs.pending /\ rest[k] = jobs.pending[k]
              /\ k >= i => k + 1 \in DOMAIN jobs.pending /\ rest[k] = jobs.pending[k + 1]
  BY <1>1, <1>2, JobRemoved
<1>6. \A k \in DOMAIN jobs.pending : k \in Nat
  BY <1>1
<1> HIDE DEF rest
<1>7. \A k, m \in DOMAIN jobs.pending : jobs.pending[k] = jobs.pending[m] => k = m
  BY DEF JobInv, JobOnce
<1>8. \A k \in DOMAIN rest : rest[k] # j
  BY <1>2, <1>5, <1>6, <1>7
<1>9. \A k, m \in DOMAIN rest : rest[k] = rest[m] => k = m
  BY <1>2, <1>5, <1>6, <1>7, SMTT(30)
<1>10. Waiting(j)
  BY <1>2 DEF Waiting
<1> HIDE DEF j
<1>11. /\ jobs'.pushing = jobs.pushing /\ jobs'.pending = rest
       /\ jobs'.worker = [jobs.worker EXCEPT ![w] = [job |-> j, stage |-> "popped"]]
       /\ jobs'.retries = jobs.retries /\ DOMAIN jobs' = DOMAIN jobs /\ jobs'.status = jobs.status
  BY <1>3 DEF JobInv, JobTypes
<1>12. /\ jobs'.worker \in [Workers -> JobStages]
       /\ \A v \in Workers, k \in Jobs :
            Queue!Holds(v, k)' => (v # w /\ Queue!Holds(v, k)) \/ (v = w /\ k = j)
  BY <1>2, <1>4, <1>11 DEF JobInv, JobTypes, JobStages, Queue!Idle, Queue!Holds
<1>13. JobTypes'
  BY <1>5, <1>11, <1>12 DEF JobInv, JobTypes
<1>14. \A k \in Jobs : Waiting(k)' => Waiting(k) /\ k # j
  <2> SUFFICES ASSUME NEW k \in Jobs, NEW m \in DOMAIN jobs'.pending, jobs'.pending[m] = k
               PROVE  Waiting(k) /\ k # j
    BY DEF Waiting
  <2>1. m \in DOMAIN rest /\ rest[m] = k /\ m \in Nat /\ i \in Nat
    BY <1>2, <1>5, <1>6, <1>11
  <2>2. QED BY <1>5, <1>8, <2>1 DEF Waiting
<1>15. ~Held(j) /\ j \notin jobs.pushing /\ jobs.status[j] # "None"
  BY <1>2, <1>10 DEF JobInv, JobOnce
<1>16. \A k \in Jobs : Held(k)' => Held(k) \/ k = j
  BY <1>12 DEF Held
<1>17. \A v \in Workers : ~Queue!Holds(v, j)
  BY <1>15 DEF Held
<1>18. \A u, v \in Workers, k \in Jobs : Queue!Holds(u, k)' /\ Queue!Holds(v, k)' => u = v
  BY <1>12, <1>17 DEF JobInv, JobOnce
<1>19. jobs.pushing \in SUBSET Jobs
  BY DEF JobInv, JobTypes
<1>20. QED BY <1>9, <1>11, <1>13, <1>14, <1>15, <1>16, <1>18, <1>19 DEF JobInv, JobOnce

LEMMA JobStarted == ASSUME JobInv, NEW w \in Workers, Queue!Start(w) PROVE JobInv'
<1> DEFINE j == jobs.worker[w].job
<1>1. j \in Jobs /\ Queue!Holds(w, j) /\ jobs.worker[w] = [job |-> j, stage |-> "popped"]
  BY DEF JobInv, JobTypes, JobStages, Queue!Idle, Queue!Start, Queue!Holds
<1>2. \/ jobs' = [jobs EXCEPT !.worker[w] = Queue!Idle]
      \/ jobs' = [jobs EXCEPT !.status[j] = "Processing", !.worker[w].stage = "running"]
  BY DEF Queue!Start
<1> HIDE DEF j
<1>3. /\ jobs'.pushing = jobs.pushing /\ jobs'.pending = jobs.pending
      /\ jobs'.retries = jobs.retries /\ DOMAIN jobs' = DOMAIN jobs
      /\ \/ jobs'.status = jobs.status
         \/ jobs'.status = [jobs.status EXCEPT ![j] = "Processing"]
      /\ \/ jobs'.worker = [jobs.worker EXCEPT ![w] = Queue!Idle]
         \/ jobs'.worker = [jobs.worker EXCEPT ![w] = [job |-> j, stage |-> "running"]]
  <2>1. CASE jobs' = [jobs EXCEPT !.worker[w] = Queue!Idle]
    BY <2>1 DEF JobInv, JobTypes
  <2>2. CASE jobs' = [jobs EXCEPT !.status[j] = "Processing", !.worker[w].stage = "running"]
    BY <1>1, <2>2 DEF JobInv, JobTypes
  <2>3. QED BY <1>2, <2>1, <2>2
<1>4. /\ jobs'.worker \in [Workers -> JobStages]
      /\ \A v \in Workers, k \in Jobs : Queue!Holds(v, k)' => Queue!Holds(v, k)
  <2>1. CASE jobs'.worker = [jobs.worker EXCEPT ![w] = Queue!Idle]
    BY <2>1, JobReleased DEF JobInv
  <2>2. CASE jobs'.worker = [jobs.worker EXCEPT ![w] = [job |-> j, stage |-> "running"]]
    <3>1. jobs.worker \in [Workers -> JobStages] /\ [job |-> j, stage |-> "running"] \in JobStages
      BY <1>1 DEF JobInv, JobTypes, JobStages
    <3>2. jobs'.worker \in [Workers -> JobStages]
      BY <2>2, <3>1
    <3>3. \A v \in Workers, k \in Jobs : Queue!Holds(v, k)' => Queue!Holds(v, k)
      BY <1>1, <2>2, <3>1 DEF Queue!Holds
    <3>4. QED BY <3>2, <3>3
  <2>3. QED BY <1>3, <2>1, <2>2
<1>5. JobTypes'
  BY <1>1, <1>3, <1>4 DEF JobInv, JobTypes
<1>6. \A k \in Jobs : jobs'.status[k] = "None" => jobs.status[k] = "None"
  BY <1>1, <1>3 DEF JobInv, JobTypes
<1>7. \A k \in Jobs : Held(k)' => Held(k)
  BY <1>4 DEF Held
<1>8. \A k \in Jobs : Waiting(k)' <=> Waiting(k)
  BY <1>3 DEF Waiting
<1>9. jobs.pushing \in SUBSET Jobs
  BY DEF JobInv, JobTypes
<1>10. QED BY <1>3, <1>4, <1>5, <1>6, <1>7, <1>8, <1>9 DEF JobInv, JobOnce

LEMMA JobStep == ASSUME JobConstants, JobInv, [Queue!Next]_jobs PROVE JobInv'
<1>1. CASE \E j \in Jobs : Queue!Enqueue(j) \/ Queue!Push(j) \/ Queue!Cancel(j) \/ Queue!CompleteJob(j)
  <2>1. PICK j \in Jobs : Queue!Enqueue(j) \/ Queue!Push(j) \/ Queue!Cancel(j) \/ Queue!CompleteJob(j)
    BY <1>1
  <2>2. CASE Queue!Cancel(j) \/ Queue!CompleteJob(j)
    <3>1. PICK status \in Queue!Settled :
            jobs.status[j] # "None" /\ jobs' = [jobs EXCEPT !.status[j] = status]
      BY <2>2 DEF Queue!Cancel, Queue!CompleteJob, Queue!Settled
    <3>2. QED BY <3>1, JobStatus
  <2>3. QED BY <2>1, <2>2, JobEnqueued, JobPushed
<1>2. CASE \E w \in Workers : Queue!WorkerStep(w)
  BY <1>2, JobTaken, JobStarted, JobSucceeded, JobFailed DEF Queue!WorkerStep
<1>3. CASE jobs' = jobs
  BY <1>3 DEF JobInv, JobTypes, JobOnce, JobStages, Waiting, Held, Queue!Holds
<1>4. QED BY <1>1, <1>2, <1>3 DEF Queue!Next

LEMMA JobInvSuffices == ASSUME JobInv PROVE Queue!OneRunPerJob
<1> SUFFICES ASSUME NEW j \in Jobs
             PROVE  Queue!Cardinality({w \in Workers : Queue!Holds(w, j)})
                      + Queue!Cardinality({i \in DOMAIN jobs.pending : jobs.pending[i] = j}) <= 1
  BY DEF Queue!OneRunPerJob
<1> DEFINE runs == {w \in Workers : Queue!Holds(w, j)}
           waits == {i \in DOMAIN jobs.pending : jobs.pending[i] = j}
<1>1. runs = {} \/ \E w : runs = {w}
  BY DEF JobInv, JobOnce
<1>2. waits = {} \/ \E i : waits = {i}
  BY DEF JobInv, JobOnce
<1>3. runs = {} \/ waits = {}
  BY DEF JobInv, JobOnce, Waiting, Held
<1>4. Cardinality(runs) \in {0, 1} /\ (Cardinality(runs) = 1 => runs # {})
  BY <1>1, FS_EmptySet, FS_Singleton
<1>5. Cardinality(waits) \in {0, 1} /\ (Cardinality(waits) = 1 => waits # {})
  BY <1>2, FS_EmptySet, FS_Singleton
<1> HIDE DEF runs, waits
<1>6. Cardinality(runs) + Cardinality(waits) <= 1
  BY <1>3, <1>4, <1>5
<1>7. QED BY <1>6, QueueCardinality DEF runs, waits

(* OneRunPerJob of the background jobs: a job asked for twice, retried or cancelled is
   with one worker or waits once, in every interleaving of callers and workers. *)
THEOREM OneRunAtATime == ASSUME JobConstants PROVE Queue!Spec => []Queue!OneRunPerJob
<1>1. Queue!Init => JobInv
  BY JobInit
<1>2. JobInv /\ [Queue!Next]_jobs => JobInv'
  BY JobStep
<1>3. JobInv => Queue!OneRunPerJob
  BY JobInvSuffices
<1>4. QED BY <1>1, <1>2, <1>3, PTL DEF Queue!Spec
-----------------------------------------------------------------------------
(* The rollout of circuits, in the same module. *)
RolloutConstants == MinProbes \in Int /\ MinRate \in Int

Versions    == {"v1", "v2"}
StatTypes   == [probes : Nat, successes : Nat]
TaskTypes   == [policy : Nat, stats : Nat, promote : Nat]

RolloutTypes ==
  /\ {"pinned", "canary", "rolled", "stats", "tasks"} \subseteq DOMAIN rollout
  /\ rollout.pinned \in [Kinds -> {"v1", "v2", "none"}]
  /\ rollout.canary \in [Kinds -> {"v2", "none"}]
  /\ rollout.stats \in [Kinds -> [Versions -> StatTypes]]
  /\ rollout.tasks \in [Kinds -> TaskTypes]

(* A check that has come as far as to promote found enough proofs of the canary,
   and proofs are never uncounted. *)
RolloutInv ==
  /\ RolloutTypes
  /\ \A k \in Kinds : rollout.tasks[k].promote > 0 => rollout.stats[k]["v2"].probes >= MinProbes

LEMMA RolloutStarts ==
  ASSUME RolloutConstants, Queue!RolloutInit
  PROVE  RolloutInv
BY DEF RolloutConstants, Queue!RolloutInit, Queue!Fresh, RolloutInv, RolloutTypes, Versions, StatTypes, TaskTypes

(* A step that leaves the versions alone and changes one kind's checks. *)
TasksMove(r, k, t) ==
  /\ DOMAIN r = DOMAIN rollout
  /\ r.pinned = rollout.pinned /\ r.canary = rollout.canary /\ r.stats = rollout.stats
  /\ r.tasks = [rollout.tasks EXCEPT ![k] = t]

(* One that promotes a kind's canary. *)
CanaryPinned(r, k) ==
  /\ DOMAIN r = DOMAIN rollout
  /\ r.pinned = [rollout.pinned EXCEPT ![k] = rollout.canary[k]]
  /\ r.canary = [rollout.canary EXCEPT ![k] = "none"]
  /\ r.stats = rollout.stats

LEMMA TaskCounts ==
  ASSUME NEW r \in TaskTypes, NEW b \in {0, 1}
  PROVE  /\ r.policy > 0 => [policy |-> r.policy - 1, stats |-> r.stats + b, promote |-> r.promote] \in TaskTypes
         /\ r.stats > 0 => [policy |-> r.policy, stats |-> r.stats - 1, promote |-> r.promote + b] \in TaskTypes
         /\ [r EXCEPT !.policy = @ - 1, !.stats = @ + b]
              = [policy |-> r.policy - 1, stats |-> r.stats + b, promote |-> r.promote]
         /\ [r EXCEPT !.stats = @ - 1, !.promote = @ + b]
              = [policy |-> r.policy, stats |-> r.stats - 1, promote |-> r.promote + b]
<1>1. PICK x \in Nat, y \in Nat, z \in Nat : r = [policy |-> x, stats |-> y, promote |-> z]
  BY DEF TaskTypes
<1>2. r.policy = x /\ r.stats = y /\ r.promote = z
  BY <1>1
<1>3. /\ x > 0 => [policy |-> x - 1, stats |-> y + b, promote |-> z] \in TaskTypes
      /\ y > 0 => [policy |-> x, stats |-> y - 1, promote |-> z + b] \in TaskTypes
  BY DEF TaskTypes
<1> DEFINE p == [policy |-> x - 1, stats |-> y, promote |-> z]
           q == [policy |-> x, stats |-> y - 1, promote |-> z]
<1>7. [r EXCEPT !.policy = @ - 1] = p /\ [r EXCEPT !.stats = @ - 1] = q
  BY <1>1
<1>8. /\ [p EXCEPT !.stats = @ + b] = [policy |-> x - 1, stats |-> y + b, promote |-> z]
      /\ [q EXCEPT !.promote = @ + b] = [policy |-> x, stats |-> y - 1, promote |-> z + b]
  OBVIOUS
<1> HIDE DEF p, q
<1>5. /\ [r EXCEPT !.policy = @ - 1, !.stats = @ + b] = [policy |-> x - 1, stats |-> y + b, promote |-> z]
      /\ [r EXCEPT !.stats = @ - 1, !.promote = @ + b] = [policy |-> x, stats |-> y - 1, promote |-> z + b]
  BY <1>7, <1>8
<1>6. QED BY <1>2, <1>3, <1>5

LEMMA TasksMoveKeeps ==
  ASSUME RolloutInv, NEW k \in Kinds, NEW t \in TaskTypes, TasksMove(rollout', k, t),
         t.promote > 0 => rollout.stats[k]["v2"].probes >= MinProbes
  PROVE  RolloutInv' /\ Queue!PromotedOnMerit
<1>1. RolloutInv'
  BY DEF RolloutInv, RolloutTypes, TasksMove
<1>2. Queue!PromotedOnMerit
  BY DEF Queue!PromotedOnMerit, TasksMove
<1>3. QED BY <1>1, <1>2

LEMMA PinningKeeps ==
  ASSUME RolloutInv, NEW k \in Kinds, rollout.canary[k] # "none", CanaryPinned(rollout', k),
         \/ rollout'.tasks = rollout.tasks
         \/ /\ rollout.tasks[k].promote > 0
            /\ \E t \in TaskTypes : /\ rollout'.tasks = [rollout.tasks EXCEPT ![k] = t]
                                    /\ t.promote > 0 => rollout.tasks[k].promote > 0
  PROVE  RolloutInv' /\ Queue!PromotedOnMerit
<1>1. RolloutInv'
  <2>1. /\ rollout'.tasks \in [Kinds -> TaskTypes]
        /\ \A q \in Kinds : rollout'.tasks[q].promote > 0 => rollout.tasks[q].promote > 0
    <3>1. rollout.tasks \in [Kinds -> TaskTypes]
      BY DEF RolloutInv, RolloutTypes
    <3>2. CASE rollout'.tasks = rollout.tasks
      BY <3>1, <3>2
    <3>3. CASE rollout'.tasks # rollout.tasks
      <4>1. PICK t \in TaskTypes : /\ rollout'.tasks = [rollout.tasks EXCEPT ![k] = t]
                                   /\ t.promote > 0 => rollout.tasks[k].promote > 0
        BY <3>3
      <4>2. QED BY <3>1, <4>1
    <3>4. QED BY <3>2, <3>3
  <2>2. RolloutTypes'
    BY <2>1 DEF RolloutInv, RolloutTypes, CanaryPinned
  <2>3. QED BY <2>1, <2>2 DEF RolloutInv, CanaryPinned
<1>2. rollout.canary[k] = "v2"
  BY DEF RolloutInv, RolloutTypes
<1>3. rollout'.tasks # rollout.tasks => rollout.stats[k]["v2"].probes >= MinProbes
  BY DEF RolloutInv
<1>4. Queue!PromotedOnMerit
  BY <1>2, <1>3 DEF RolloutInv, RolloutTypes, Queue!PromotedOnMerit, Queue!None, CanaryPinned
<1>5. QED BY <1>1, <1>4

LEMMA RolloutKept ==
  ASSUME RolloutConstants, RolloutInv, [Queue!RolloutNext]_rollout
  PROVE  RolloutInv' /\ Queue!PromotedOnMerit
<1>0. /\ {"pinned", "canary", "rolled", "stats", "tasks"} \subseteq DOMAIN rollout
      /\ \A k \in Kinds : /\ k \in DOMAIN rollout.tasks /\ k \in DOMAIN rollout.stats
                          /\ k \in DOMAIN rollout.pinned /\ k \in DOMAIN rollout.canary
  BY DEF RolloutInv, RolloutTypes
<1>1. CASE UNCHANGED rollout
  BY <1>1 DEF RolloutInv, RolloutTypes, Queue!PromotedOnMerit
<1>2. ASSUME NEW k \in Kinds, Queue!ReadPolicy(k)
      PROVE  RolloutInv' /\ Queue!PromotedOnMerit
  <2>1. PICK b \in {0, 1} : rollout.tasks[k].policy > 0
              /\ rollout' = [rollout EXCEPT !.tasks[k].policy = @ - 1, !.tasks[k].stats = @ + b]
    BY <1>2 DEF Queue!ReadPolicy
  <2> DEFINE t == [rollout.tasks[k] EXCEPT !.policy = @ - 1, !.stats = @ + b]
  <2>2. TasksMove(rollout', k, t)
    BY <1>0, <2>1 DEF TasksMove
  <2>3. t \in TaskTypes /\ t.promote = rollout.tasks[k].promote
    <3>1. rollout.tasks[k] \in TaskTypes
      BY DEF RolloutInv, RolloutTypes
    <3>2. t = [policy  |-> rollout.tasks[k].policy - 1, stats |-> rollout.tasks[k].stats + b,
               promote |-> rollout.tasks[k].promote]
      BY <3>1, TaskCounts
    <3> HIDE DEF t
    <3>3. QED BY <2>1, <3>1, <3>2, TaskCounts
  <2> HIDE DEF t
  <2>4. t.promote > 0 => rollout.stats[k]["v2"].probes >= MinProbes
    BY <2>3 DEF RolloutInv
  <2>5. QED BY <2>2, <2>3, <2>4, TasksMoveKeeps
<1>3. ASSUME NEW k \in Kinds, Queue!ReadStats(k)
      PROVE  RolloutInv' /\ Queue!PromotedOnMerit
  <2>1. PICK b \in {0, 1} :
              /\ rollout.tasks[k].stats > 0
              /\ b = 1 => Queue!Earned(rollout.stats[k]["v2"])
              /\ rollout' = [rollout EXCEPT !.tasks[k].stats = @ - 1, !.tasks[k].promote = @ + b]
    <3> DEFINE c == IF Queue!Earned(rollout.stats[k]["v2"]) THEN 1 ELSE 0
    <3>1. /\ rollout.tasks[k].stats > 0
          /\ rollout' = [rollout EXCEPT !.tasks[k].stats = @ - 1, !.tasks[k].promote = @ + c]
      BY <1>3 DEF Queue!ReadStats
    <3>2. c \in {0, 1} /\ (c = 1 => Queue!Earned(rollout.stats[k]["v2"]))
      OBVIOUS
    <3> HIDE DEF c
    <3>3. QED BY <3>1, <3>2
  <2> DEFINE t == [rollout.tasks[k] EXCEPT !.stats = @ - 1, !.promote = @ + b]
  <2>2. TasksMove(rollout', k, t)
    BY <1>0, <2>1 DEF TasksMove
  <2>3. t \in TaskTypes /\ t.promote = rollout.tasks[k].promote + b
    <3>1. rollout.tasks[k] \in TaskTypes
      BY DEF RolloutInv, RolloutTypes
    <3>2. t = [policy  |-> rollout.tasks[k].policy, stats |-> rollout.tasks[k].stats - 1,
               promote |-> rollout.tasks[k].promote + b]
      BY <3>1, TaskCounts
    <3> HIDE DEF t
    <3>3. QED BY <2>1, <3>1, <3>2, TaskCounts
  <2> HIDE DEF t
  <2>4. b = 1 => rollout.stats[k]["v2"].probes >= MinProbes
    BY <2>1 DEF Queue!Earned
  <2>5. t.promote > 0 => rollout.stats[k]["v2"].probes >= MinProbes
    BY <2>3, <2>4 DEF RolloutInv, RolloutTypes, TaskTypes
  <2>6. QED BY <2>2, <2>3, <2>5, TasksMoveKeeps
<1>4. ASSUME NEW k \in Kinds, Queue!AutoPromotes(k)
      PROVE  RolloutInv' /\ Queue!PromotedOnMerit
  <2> DEFINE s == [rollout EXCEPT !.tasks[k].promote = @ - 1]
             t == [rollout.tasks[k] EXCEPT !.promote = @ - 1]
  <2>1. rollout.tasks[k].promote > 0 /\ rollout' = Queue!Promoted(s, k)
    BY <1>4 DEF Queue!AutoPromotes
  <2>2. TasksMove(s, k, t)
    BY <1>0 DEF TasksMove
  <2>3. t \in TaskTypes /\ (t.promote > 0 => rollout.tasks[k].promote > 0)
    BY <2>1 DEF RolloutInv, RolloutTypes, TaskTypes
  <2> HIDE DEF s, t
  <2>4. CASE rollout.canary[k] = "none"
    <3>1. rollout' = s
      BY <2>1, <2>2, <2>4 DEF TasksMove, Queue!Promoted, Queue!None
    <3>2. t.promote > 0 => rollout.stats[k]["v2"].probes >= MinProbes
      BY <2>3 DEF RolloutInv
    <3>3. QED BY <2>2, <2>3, <3>1, <3>2, TasksMoveKeeps
  <2>5. CASE rollout.canary[k] # "none"
    <3>1. /\ DOMAIN s = DOMAIN rollout
          /\ s.canary = rollout.canary /\ s.pinned = rollout.pinned /\ s.stats = rollout.stats
      BY <2>2 DEF TasksMove
    <3>2. rollout' = [s EXCEPT !.pinned[k] = s.canary[k], !.canary[k] = "none", !.rolled = @ \ {k}]
      BY <2>1, <2>5, <3>1 DEF Queue!Promoted, Queue!None
    <3>3. CanaryPinned(rollout', k) /\ rollout'.tasks = s.tasks
      BY <1>0, <2>2, <3>1, <3>2 DEF CanaryPinned
    <3>4. rollout'.tasks = [rollout.tasks EXCEPT ![k] = t]
      BY <2>2, <3>3 DEF TasksMove
    <3>5. QED BY <2>1, <2>3, <2>5, <3>3, <3>4, PinningKeeps
  <2>6. QED BY <2>4, <2>5
<1>5. ASSUME NEW k \in Kinds, Queue!AdminPromotes(k)
      PROVE  RolloutInv' /\ Queue!PromotedOnMerit
  <2>1. /\ rollout.canary[k] # "none"
        /\ rollout' = [rollout EXCEPT !.pinned[k] = rollout.canary[k], !.canary[k] = "none", !.rolled = @ \ {k}]
    BY <1>5 DEF Queue!AdminPromotes, Queue!Promoted, Queue!None
  <2>2. CanaryPinned(rollout', k) /\ rollout'.tasks = rollout.tasks
    BY <1>0, <2>1 DEF CanaryPinned
  <2>3. QED BY <2>1, <2>2, PinningKeeps
<1>6. ASSUME \/ Queue!RollbackAll
             \/ \E k \in Kinds : Queue!Rollback(k) \/ Queue!ClearRollback(k)
      PROVE  RolloutInv' /\ Queue!PromotedOnMerit
  <2>1. PICK R : rollout' = [rollout EXCEPT !.rolled = R]
    BY <1>6 DEF Queue!RollbackAll, Queue!Rollback, Queue!ClearRollback
  <2>2. /\ DOMAIN rollout' = DOMAIN rollout
        /\ rollout'.pinned = rollout.pinned /\ rollout'.canary = rollout.canary
        /\ rollout'.stats = rollout.stats /\ rollout'.tasks = rollout.tasks
    BY <1>0, <2>1
  <2>3. QED
    BY <2>2 DEF RolloutInv, RolloutTypes, Queue!PromotedOnMerit
<1>7. ASSUME NEW k \in Kinds, NEW v \in Versions, NEW good \in BOOLEAN, Queue!Record(k, v, good)
      PROVE  RolloutInv' /\ Queue!PromotedOnMerit
  <2> DEFINE c == [probes    |-> rollout.stats[k][v].probes + 1,
                   successes |-> rollout.stats[k][v].successes + IF good THEN 1 ELSE 0]
             t == [rollout.tasks[k] EXCEPT !.policy = @ + 1]
  <2>1. rollout' = [rollout EXCEPT !.stats[k][v] = c, !.tasks[k].policy = @ + 1]
    BY <1>7 DEF Queue!Record
  <2>2. c \in StatTypes /\ c.probes = rollout.stats[k][v].probes + 1
    BY DEF RolloutInv, RolloutTypes, StatTypes
  <2>3. t \in TaskTypes /\ t.promote = rollout.tasks[k].promote
    BY DEF RolloutInv, RolloutTypes, TaskTypes
  <2> HIDE DEF c
  <2>4. /\ DOMAIN rollout' = DOMAIN rollout
        /\ rollout'.pinned = rollout.pinned /\ rollout'.canary = rollout.canary
        /\ rollout'.stats = [rollout.stats EXCEPT ![k][v] = c]
        /\ rollout'.tasks = [rollout.tasks EXCEPT ![k] = t]
    BY <1>0, <2>1
  <2> HIDE DEF t
  <2>5. /\ rollout'.stats \in [Kinds -> [Versions -> StatTypes]]
        /\ \A q \in Kinds : rollout'.stats[q]["v2"].probes >= rollout.stats[q]["v2"].probes
    <3>1. rollout.stats \in [Kinds -> [Versions -> StatTypes]]
      BY DEF RolloutInv, RolloutTypes
    <3>2. \A q \in Kinds, u \in Versions : rollout.stats[q][u].probes \in Nat
      BY <3>1 DEF StatTypes
    <3>3. rollout'.stats \in [Kinds -> [Versions -> StatTypes]]
      BY <2>2, <2>4, <3>1
    <3>4. \A q \in Kinds, u \in Versions :
            rollout'.stats[q][u] = IF q = k /\ u = v THEN c ELSE rollout.stats[q][u]
      BY <2>4, <3>1
    <3>5. QED BY <2>2, <3>2, <3>3, <3>4 DEF Versions
  <2>6. /\ rollout'.tasks \in [Kinds -> TaskTypes]
        /\ \A q \in Kinds : rollout'.tasks[q].promote = rollout.tasks[q].promote
    BY <2>3, <2>4 DEF RolloutInv, RolloutTypes
  <2>7. \A q \in Kinds : /\ rollout.stats[q]["v2"].probes \in Int
                         /\ rollout'.stats[q]["v2"].probes \in Int
    BY <2>5 DEF RolloutInv, RolloutTypes, StatTypes, Versions
  <2>8. RolloutInv'
    BY <2>4, <2>5, <2>6, <2>7 DEF RolloutInv, RolloutTypes, RolloutConstants
  <2>9. Queue!PromotedOnMerit
    BY <2>4 DEF Queue!PromotedOnMerit
  <2>10. QED BY <2>8, <2>9
<1>8. QED
  BY <1>1, <1>2, <1>3, <1>4, <1>5, <1>6, <1>7 DEF Queue!RolloutNext, Versions

(* A canary is pinned on its own merit, whatever is switched and promoted in
   between the two locks of maybe_auto_promote: enough of its own proofs were
   counted before, and what was replaced does not come back. *)
THEOREM CanariesPromotedOnMerit ==
  ASSUME RolloutConstants
  PROVE  Queue!RolloutSpec => [][Queue!PromotedOnMerit]_rollout
<1>1. Queue!RolloutInit => RolloutInv
  BY RolloutStarts
<1>2. RolloutInv /\ [Queue!RolloutNext]_rollout => RolloutInv' /\ Queue!PromotedOnMerit
  BY RolloutKept
<1>3. QED
  BY <1>1, <1>2, PTL DEF Queue!RolloutSpec

-----------------------------------------------------------------------------
(* Decommission and scaling. *)
Fleet == INSTANCE CommitteeCapacity

DrainPlans == [node : Nodes \union {"none"}, replacement : Nodes \union {"none"},
               resume : BOOLEAN, sessions : SUBSET Sessions]

DrainTypes ==
  /\ {"phase", "elapsed", "pending", "plan"} \subseteq DOMAIN drain
  /\ drain.phase \in [Nodes -> {"Active", "Draining", "Reshuffling", "Decommissioned"}]
  /\ drain.pending \in [Nodes -> SUBSET Sessions]
  /\ drain.plan \in DrainPlans

(* The plan kept is the plan of the node that is reshuffled under it, and it has every
   session that the node still has. *)
PlanHolds ==
  \A n \in Nodes :
    drain.phase[n] = "Reshuffling" /\ drain.plan.node = n => drain.pending[n] \subseteq drain.plan.sessions

DrainInv == DrainTypes /\ PlanHolds

LEMMA DrainStarts == ASSUME Fleet!Init PROVE DrainInv
BY DEF Fleet!Init, Fleet!NoPlan, DrainInv, DrainTypes, DrainPlans, PlanHolds

LEMMA DrainTracked ==
  ASSUME DrainInv, NEW n \in Nodes, NEW s \in Sessions,
         Fleet!TrackSession(n, s) \/ Fleet!CompleteSession(n, s)
  PROVE  DrainInv'
<1> DEFINE held == drain.pending[n] \union {s}
           left == drain.pending[n] \ {s}
<1>1. /\ DOMAIN drain' = DOMAIN drain /\ drain'.phase = drain.phase /\ drain'.plan = drain.plan
      /\ \/ drain'.pending = [drain.pending EXCEPT ![n] = held] /\ drain.phase[n] = "Active"
         \/ drain'.pending = [drain.pending EXCEPT ![n] = left]
  BY DEF DrainInv, DrainTypes, Fleet!TrackSession, Fleet!CompleteSession
<1>2. held \in SUBSET Sessions /\ left \in SUBSET Sessions
  BY DEF DrainInv, DrainTypes
<1>3. DrainTypes'
  BY <1>1, <1>2 DEF DrainInv, DrainTypes, DrainPlans
<1>4. \A m \in Nodes : drain'.phase[m] = "Reshuffling" => drain'.pending[m] \subseteq drain.pending[m]
  BY <1>1 DEF DrainInv, DrainTypes
<1>5. PlanHolds'
  BY <1>1, <1>4 DEF DrainInv, PlanHolds
<1>6. QED BY <1>3, <1>5 DEF DrainInv

(* A node changes its phase, and is not reshuffled. *)
LEMMA DrainPhase ==
  ASSUME DrainInv, NEW n \in Nodes,
         Fleet!Begin(n) \/ Fleet!Cancel(n) \/ Fleet!EnactReshuffle(n)
  PROVE  DrainInv'
<1>1. PICK phase \in {"Active", "Draining", "Decommissioned"} :
         /\ drain'.phase = [drain.phase EXCEPT ![n] = phase]
         /\ DOMAIN drain' = DOMAIN drain /\ drain'.plan = drain.plan
         /\ \/ drain'.pending = drain.pending
            \/ drain'.pending = [drain.pending EXCEPT ![n] = {}]
  <2>1. CASE Fleet!Begin(n)
    BY <2>1 DEF DrainInv, DrainTypes, Fleet!Begin
  <2>2. CASE Fleet!Cancel(n)
    BY <2>2 DEF DrainInv, DrainTypes, Fleet!Cancel
  <2>3. CASE Fleet!EnactReshuffle(n)
    BY <2>3 DEF DrainInv, DrainTypes, Fleet!EnactReshuffle
  <2>4. QED BY <2>1, <2>2, <2>3
<1>2. DrainTypes'
  BY <1>1 DEF DrainInv, DrainTypes, DrainPlans
<1>3. \A m \in Nodes :
        /\ drain'.phase[m] = "Reshuffling" => drain.phase[m] = "Reshuffling"
        /\ drain'.pending[m] \subseteq drain.pending[m]
  BY <1>1 DEF DrainInv, DrainTypes
<1>4. PlanHolds'
  BY <1>1, <1>3 DEF DrainInv, PlanHolds
<1>5. QED BY <1>2, <1>4 DEF DrainInv

LEMMA DrainPlanned ==
  ASSUME DrainInv, NEW n \in Nodes, NEW r \in Nodes, NEW identity \in BOOLEAN,
         Fleet!PlanReshuffle(n, r, identity)
  PROVE  DrainInv'
<1> DEFINE plan == [node |-> n, replacement |-> r, resume |-> identity, sessions |-> drain.pending[n]]
<1>1. plan \in DrainPlans
  BY DEF DrainInv, DrainTypes, DrainPlans
<1>2. /\ DOMAIN drain' = DOMAIN drain /\ drain'.pending = drain.pending /\ drain'.plan = plan
      /\ drain'.phase = [drain.phase EXCEPT ![n] = "Reshuffling"]
  BY DEF DrainInv, DrainTypes, Fleet!PlanReshuffle
<1>3. DrainTypes'
  BY <1>1, <1>2 DEF DrainInv, DrainTypes
<1>4. PlanHolds'
  BY <1>2 DEF PlanHolds
<1>5. QED BY <1>3, <1>4 DEF DrainInv

LEMMA DrainStep == ASSUME DrainInv, [Fleet!Next]_drain PROVE DrainInv'
<1>1. CASE Fleet!Tick
  <2>1. /\ DOMAIN drain' = DOMAIN drain /\ drain'.phase = drain.phase
        /\ drain'.pending = drain.pending /\ drain'.plan = drain.plan
    BY <1>1 DEF Fleet!Tick, DrainInv, DrainTypes
  <2>2. QED BY <2>1 DEF DrainInv, DrainTypes, DrainPlans, PlanHolds
<1>2. CASE drain' = drain
  BY <1>2 DEF DrainInv, DrainTypes, DrainPlans, PlanHolds
<1>3. QED BY <1>1, <1>2, DrainTracked, DrainPhase, DrainPlanned DEF Fleet!Next

LEMMA DrainLeaves == ASSUME DrainInv, [Fleet!Next]_drain PROVE Fleet!LeavesAsPlanned
<1> SUFFICES ASSUME NEW n \in Nodes, drain.phase[n] # "Decommissioned",
                    drain'.phase[n] = "Decommissioned"
             PROVE  drain.plan.node = n /\ drain.pending[n] \subseteq drain.plan.sessions
  BY DEF Fleet!LeavesAsPlanned
<1>1. Fleet!EnactReshuffle(n)
  <2>1. CASE Fleet!Tick
    BY <2>1 DEF Fleet!Tick, DrainInv, DrainTypes
  <2>2. ASSUME NEW m \in Nodes, Fleet!Begin(m) \/ Fleet!Cancel(m) PROVE FALSE
    <3>1. PICK phase \in {"Active", "Draining"} : drain'.phase = [drain.phase EXCEPT ![m] = phase]
      BY <2>2 DEF Fleet!Begin, Fleet!Cancel, DrainInv, DrainTypes
    <3>2. QED BY <3>1 DEF DrainInv, DrainTypes
  <2>3. ASSUME NEW m \in Nodes, Fleet!EnactReshuffle(m) PROVE Fleet!EnactReshuffle(n)
    BY <2>3 DEF Fleet!EnactReshuffle, DrainInv, DrainTypes
  <2>4. ASSUME NEW m \in Nodes, NEW s \in Sessions, Fleet!TrackSession(m, s) \/ Fleet!CompleteSession(m, s)
        PROVE FALSE
    BY <2>4 DEF Fleet!TrackSession, Fleet!CompleteSession, DrainInv, DrainTypes
  <2>5. ASSUME NEW m \in Nodes, NEW r \in Nodes, NEW identity \in BOOLEAN,
               Fleet!PlanReshuffle(m, r, identity)
        PROVE FALSE
    BY <2>5 DEF Fleet!PlanReshuffle, DrainInv, DrainTypes
  <2>6. QED BY <2>1, <2>2, <2>3, <2>4, <2>5 DEF Fleet!Next
<1>2. QED BY <1>1 DEF Fleet!EnactReshuffle, DrainInv, PlanHolds

(* LeavesAsPlanned of the decommission: a node that is reshuffled leaves under a plan of
   its own that has every session it still holds. *)
THEOREM LeavesWithPlan ==
  Fleet!Init /\ [][Fleet!Next]_drain => [][Fleet!LeavesAsPlanned]_drain
<1>1. Fleet!Init => DrainInv
  BY DrainStarts
<1>2. DrainInv /\ [Fleet!Next]_drain => DrainInv'
  BY DrainStep
<1>3. DrainInv /\ [Fleet!Next]_drain => [Fleet!LeavesAsPlanned]_drain
  BY DrainLeaves
<1>4. QED BY <1>1, <1>2, <1>3, PTL

-----------------------------------------------------------------------------
(* The policy: there may be a committee, runs are not empty, and the threshold under
   which one is retired is at most half of the one over which one is added. *)
ScalePolicy ==
  /\ PerCommittee \in Nat \ {0} /\ UpThreshold \in Nat \ {0} /\ DownThreshold \in Nat
  /\ 2 * DownThreshold <= UpThreshold
  /\ MinCommittees \in Nat \ {0} /\ MaxCommittees \in Nat /\ MinCommittees <= MaxCommittees
  /\ UpSamples \in Nat \ {0} /\ DownSamples \in Nat \ {0}
  /\ Loads \subseteq Nat

ScaleSamples == [active : Nat, ready : Nat]

ScaleInv ==
  /\ {"active", "ready", "provisioning", "draining", "samples"} \subseteq DOMAIN scale
  /\ scale.active \in Nat /\ scale.ready \in Nat
  /\ scale.provisioning \in Nat /\ scale.draining \in Nat
  /\ scale.samples \in Seq(ScaleSamples)
  /\ scale.ready + scale.provisioning <= MaxCommittees

(* What a decision may be, after the sample `latest`. *)
MayGrow(samples, latest, provisioning, up) ==
  /\ up \in Nat /\ provisioning = 0 /\ latest.ready + up <= MaxCommittees
  /\ latest.ready > 0 =>
       \A i \in Len(samples) - UpSamples + 1 .. Len(samples) : i > 0 /\ Fleet!Above(samples[i])

MayShrink(latest, draining) ==
  Fleet!Below(latest) /\ latest.ready > MinCommittees /\ draining = 0

LEMMA ScaleClamped ==
  ASSUME ScalePolicy, NEW n \in Int
  PROVE  Fleet!Clamped(n) \in MinCommittees .. MaxCommittees
BY DEF ScalePolicy, Fleet!Clamped

LEMMA ScaleDesired ==
  ASSUME ScalePolicy, NEW sample \in ScaleSamples
  PROVE  Fleet!Desired(sample) \in MinCommittees .. MaxCommittees
<1>1. PerCommittee * UpThreshold \in Nat \ {0}
  BY DEF ScalePolicy
<1>2. 100 * sample.active + PerCommittee * UpThreshold - 1 \in Int
  BY <1>1 DEF ScaleSamples
<1>3. (100 * sample.active + PerCommittee * UpThreshold - 1) \div (PerCommittee * UpThreshold) \in Int
  BY <1>1, <1>2
<1>4. QED BY <1>3, ScaleClamped DEF Fleet!Desired

LEMMA ScaleDecided ==
  ASSUME ScalePolicy, NEW samples \in Seq(ScaleSamples), samples # <<>>,
         NEW provisioning \in Nat, NEW draining \in Nat,
         NEW latest, latest = samples[Len(samples)],
         latest.ready + provisioning <= MaxCommittees
  PROVE  \/ Fleet!Decide(samples, provisioning, draining) = Fleet!Hold
         \/ \E up : /\ Fleet!Decide(samples, provisioning, draining) = [Fleet!Hold EXCEPT !.up = up]
                    /\ MayGrow(samples, latest, provisioning, up)
         \/ /\ Fleet!Decide(samples, provisioning, draining) = [Fleet!Hold EXCEPT !.down = 1]
            /\ MayShrink(latest, draining)
<1> DEFINE missing == Fleet!Desired(latest) - latest.ready
           high == {i \in DOMAIN samples : Fleet!Above(samples[i])}
           low  == {i \in DOMAIN samples : Fleet!Below(samples[i])}
           up   == IF missing > 1 THEN missing ELSE 1
           grow == /\ Fleet!Above(latest) /\ latest.ready < MaxCommittees
                   /\ Fleet!Sustained(samples, UpSamples, high)
           shrink == /\ Fleet!Below(latest) /\ latest.ready > MinCommittees /\ draining = 0
                     /\ Fleet!Sustained(samples, DownSamples, low)
           decision == Fleet!Decide(samples, provisioning, draining)
<1>1. latest \in ScaleSamples /\ Fleet!Last(samples) = latest
  BY DEF Fleet!Last
<1>2. Fleet!Desired(latest) \in MinCommittees .. MaxCommittees
  BY <1>1, ScaleDesired
<1>3. latest.ready \in Nat
  BY <1>1 DEF ScaleSamples
<1>4. decision =
        IF ~Fleet!Served(latest)
        THEN IF latest.active > 0 /\ provisioning = 0
             THEN [Fleet!Hold EXCEPT !.up = Fleet!Desired(latest)] ELSE Fleet!Hold
        ELSE IF provisioning > 0 THEN Fleet!Hold
        ELSE IF grow THEN [Fleet!Hold EXCEPT !.up = up]
        ELSE IF shrink THEN [Fleet!Hold EXCEPT !.down = 1]
        ELSE Fleet!Hold
  BY <1>1 DEF Fleet!Decide
<1>5. ASSUME grow PROVE \A i \in Len(samples) - UpSamples + 1 .. Len(samples) : i > 0 /\ Fleet!Above(samples[i])
  BY <1>5 DEF Fleet!Sustained
<1>6. MinCommittees \in Nat /\ MaxCommittees \in Nat
  BY DEF ScalePolicy
<1> HIDE DEF grow, shrink, decision, high, low
<1>7. CASE ~Fleet!Served(latest) /\ latest.active > 0 /\ provisioning = 0
  <2>1. MayGrow(samples, latest, provisioning, Fleet!Desired(latest))
    <3>1. latest.ready = 0
      BY <1>7 DEF Fleet!Served
    <3>2. Fleet!Desired(latest) \in Nat /\ latest.ready + Fleet!Desired(latest) <= MaxCommittees
      BY <1>2, <1>6, <3>1
    <3>3. QED BY <1>7, <3>1, <3>2 DEF MayGrow
  <2>2. QED BY <1>4, <1>7, <2>1 DEF decision
<1>8. CASE Fleet!Served(latest) /\ ~(provisioning > 0) /\ grow
  <2>1. up \in Nat /\ latest.ready + up <= MaxCommittees
    BY <1>2, <1>3, <1>6, <1>8 DEF grow
  <2>2. MayGrow(samples, latest, provisioning, up)
    BY <1>5, <1>8, <2>1 DEF MayGrow
  <2>3. decision = [Fleet!Hold EXCEPT !.up = up]
    BY <1>4, <1>8
  <2>4. QED BY <2>2, <2>3 DEF decision
<1>9. CASE Fleet!Served(latest) /\ ~(provisioning > 0) /\ ~grow /\ shrink
  <2>1. MayShrink(latest, draining)
    BY <1>9 DEF shrink, MayShrink
  <2>2. decision = [Fleet!Hold EXCEPT !.down = 1]
    BY <1>4, <1>9
  <2>3. QED BY <2>1, <2>2 DEF decision
<1>10. QED BY <1>4, <1>7, <1>8, <1>9 DEF decision

(* What is left after a committee is retired has room for the sessions. *)
LEMMA ScaleRoom ==
  ASSUME ScalePolicy, NEW latest \in ScaleSamples, MayShrink(latest, 0)
  PROVE  100 * latest.active <= UpThreshold * PerCommittee * (latest.ready - 1)
<1> DEFINE r == latest.ready
           a == latest.active
<1>1. r \in Nat /\ a \in Nat /\ r >= 2
  BY DEF ScalePolicy, ScaleSamples, MayShrink
<1>2. 100 * a < DownThreshold * r * PerCommittee
  BY DEF MayShrink, Fleet!Below
<1> HIDE DEF r, a
<1>3. PerCommittee \in Nat /\ UpThreshold \in Nat /\ DownThreshold \in Nat /\ 2 * DownThreshold <= UpThreshold
  BY DEF ScalePolicy
<1>4. 2 * DownThreshold * r <= UpThreshold * r
  BY <1>1, <1>3
<1>5. UpThreshold * r <= UpThreshold * (2 * (r - 1))
  BY <1>1, <1>3
<1>6. DownThreshold * r <= UpThreshold * (r - 1)
  BY <1>1, <1>3, <1>4, <1>5
<1> DEFINE x == DownThreshold * r
           y == UpThreshold * (r - 1)
<1>7. x \in Int /\ y \in Int
  BY <1>1, <1>3
<1>8. x * PerCommittee <= y * PerCommittee
  <2> HIDE DEF x, y
  <2>1. x <= y
    BY <1>6 DEF x, y
  <2>2. QED BY <1>3, <1>7, <2>1
<1>9. y * PerCommittee = UpThreshold * PerCommittee * (r - 1)
  BY <1>1, <1>3
<1>10. QED BY <1>1, <1>2, <1>3, <1>8, <1>9 DEF r, a

(* A sample joins those kept, and is the last of them. *)
LEMMA ScaleSampled ==
  ASSUME ScalePolicy, ScaleInv, Fleet!Observe
  PROVE  /\ scale'.samples \in Seq(ScaleSamples) /\ scale'.samples # <<>>
         /\ scale'.samples[Len(scale'.samples)] = [active |-> scale.active, ready |-> scale.ready]
         /\ \E action : /\ action = Fleet!Decide(scale'.samples, scale.provisioning, scale.draining)
                        /\ scale'.provisioning = scale.provisioning + action.up
                        /\ scale'.ready = scale.ready - action.down
                        /\ scale'.draining = scale.draining + action.down
         /\ scale'.active = scale.active /\ DOMAIN scale' = DOMAIN scale
<1> DEFINE now == [active |-> scale.active, ready |-> scale.ready]
           longer == Append(scale.samples, now)
           recent == IF Len(longer) > Fleet!Longest THEN Tail(longer) ELSE longer
           action == Fleet!Decide(recent, scale.provisioning, scale.draining)
<1>1. now \in ScaleSamples
  BY DEF ScaleInv, ScaleSamples
<1>2. /\ longer \in Seq(ScaleSamples) /\ Len(longer) = Len(scale.samples) + 1
      /\ longer[Len(longer)] = now /\ Len(scale.samples) \in Nat
  BY <1>1 DEF ScaleInv
<1>3. Fleet!Longest \in Nat \ {0}
  BY DEF ScalePolicy, Fleet!Longest
<1>4. scale' = [scale EXCEPT !.samples = recent,
                             !.provisioning = scale.provisioning + action.up,
                             !.ready = scale.ready - action.down,
                             !.draining = scale.draining + action.down]
  BY DEF ScaleInv, Fleet!Observe
<1> HIDE DEF longer, now, action
<1>5. recent \in Seq(ScaleSamples) /\ recent # <<>> /\ recent[Len(recent)] = now
  <2>1. CASE Len(longer) > Fleet!Longest
    <3>1. Len(longer) >= 2 /\ longer # <<>>
      BY <1>2, <1>3, <2>1
    <3>2. Tail(longer) \in Seq(ScaleSamples) /\ Len(Tail(longer)) = Len(longer) - 1
      BY <1>2, <3>1
    <3>3. Tail(longer)[Len(longer) - 1] = longer[Len(longer)]
      BY <1>2, <3>1
    <3>4. QED BY <1>2, <2>1, <3>1, <3>2, <3>3
  <2>2. CASE ~(Len(longer) > Fleet!Longest)
    BY <1>2, <2>2
  <2>3. QED BY <2>1, <2>2
<1> HIDE DEF recent
<1>6. /\ scale'.samples = recent /\ scale'.active = scale.active /\ DOMAIN scale' = DOMAIN scale
      /\ scale'.provisioning = scale.provisioning + action.up
      /\ scale'.ready = scale.ready - action.down
      /\ scale'.draining = scale.draining + action.down
  BY <1>4 DEF ScaleInv
<1>7. action = Fleet!Decide(scale'.samples, scale.provisioning, scale.draining)
  BY <1>6 DEF action
<1>8. QED BY <1>5, <1>6, <1>7 DEF now

(* What a step of the scaler does, by what it decides. *)
LEMMA ScaleObserved ==
  ASSUME ScalePolicy, ScaleInv, Fleet!Observe
  PROVE  ScaleInv' /\ Fleet!ScalesWithCare
<1> DEFINE now == [active |-> scale.active, ready |-> scale.ready]
<1>1. /\ scale'.samples \in Seq(ScaleSamples) /\ scale'.samples # <<>>
      /\ scale'.samples[Len(scale'.samples)] = now
      /\ scale'.active = scale.active /\ DOMAIN scale' = DOMAIN scale
  BY ScaleSampled
<1>2. PICK action :
         /\ action = Fleet!Decide(scale'.samples, scale.provisioning, scale.draining)
         /\ scale'.provisioning = scale.provisioning + action.up
         /\ scale'.ready = scale.ready - action.down
         /\ scale'.draining = scale.draining + action.down
  BY ScaleSampled
<1>3. /\ scale.active \in Nat /\ scale.ready \in Nat /\ scale.provisioning \in Nat /\ scale.draining \in Nat
      /\ scale.ready + scale.provisioning <= MaxCommittees
      /\ MinCommittees \in Nat \ {0} /\ MaxCommittees \in Nat
  BY DEF ScaleInv, ScalePolicy
<1>4. now \in ScaleSamples /\ now.ready = scale.ready /\ now.active = scale.active
  BY <1>3 DEF ScaleSamples
<1> HIDE DEF now
<1>5. \/ action = Fleet!Hold
      \/ \E up : action = [Fleet!Hold EXCEPT !.up = up] /\ MayGrow(scale'.samples, now, scale.provisioning, up)
      \/ action = [Fleet!Hold EXCEPT !.down = 1] /\ MayShrink(now, scale.draining)
  <2>1. PICK samples, provisioning, draining :
          samples = scale'.samples /\ provisioning = scale.provisioning /\ draining = scale.draining
    OBVIOUS
  <2>2. /\ samples \in Seq(ScaleSamples) /\ samples # <<>> /\ now = samples[Len(samples)]
        /\ provisioning \in Nat /\ draining \in Nat /\ now.ready + provisioning <= MaxCommittees
    BY <1>1, <1>3, <1>4, <2>1
  <2>3. \/ Fleet!Decide(samples, provisioning, draining) = Fleet!Hold
        \/ \E up : /\ Fleet!Decide(samples, provisioning, draining) = [Fleet!Hold EXCEPT !.up = up]
                   /\ MayGrow(samples, now, provisioning, up)
        \/ /\ Fleet!Decide(samples, provisioning, draining) = [Fleet!Hold EXCEPT !.down = 1]
           /\ MayShrink(now, draining)
    BY <2>2, ScaleDecided
  <2>4. QED BY <1>2, <2>1, <2>3
<1>6. CASE action = Fleet!Hold
  <2>1. scale'.provisioning = scale.provisioning /\ scale'.ready = scale.ready /\ scale'.draining = scale.draining
    BY <1>2, <1>3, <1>6 DEF Fleet!Hold
  <2>2. ScaleInv'
    BY <1>1, <1>3, <2>1 DEF ScaleInv
  <2>3. QED BY <1>3, <2>1, <2>2 DEF Fleet!ScalesWithCare
<1>7. CASE \E up : action = [Fleet!Hold EXCEPT !.up = up] /\ MayGrow(scale'.samples, now, scale.provisioning, up)
  <2>1. PICK up : action = [Fleet!Hold EXCEPT !.up = up] /\ MayGrow(scale'.samples, now, scale.provisioning, up)
    BY <1>7
  <2>2. scale'.provisioning = scale.provisioning + up /\ scale'.ready = scale.ready /\ scale'.draining = scale.draining
    BY <1>2, <1>3, <2>1 DEF Fleet!Hold
  <2>3. /\ up \in Nat /\ scale.provisioning = 0 /\ scale.ready + up <= MaxCommittees
        /\ scale.ready > 0 =>
             \A i \in Len(scale'.samples) - UpSamples + 1 .. Len(scale'.samples) :
               i > 0 /\ Fleet!Above(scale'.samples[i])
    BY <1>4, <2>1 DEF MayGrow
  <2>4. ScaleInv'
    BY <1>1, <1>3, <2>2, <2>3 DEF ScaleInv
  <2>5. QED BY <1>3, <2>2, <2>3, <2>4 DEF Fleet!ScalesWithCare
<1>8. CASE action = [Fleet!Hold EXCEPT !.down = 1] /\ MayShrink(now, scale.draining)
  <2>1. scale'.provisioning = scale.provisioning /\ scale'.ready = scale.ready - 1 /\ scale'.draining = scale.draining + 1
    BY <1>2, <1>3, <1>8 DEF Fleet!Hold
  <2>2. scale.ready > MinCommittees /\ scale.draining = 0
    BY <1>4, <1>8 DEF MayShrink
  <2>3. 100 * scale.active <= UpThreshold * PerCommittee * scale'.ready
    BY <1>4, <1>8, <2>1, <2>2, ScaleRoom
  <2>4. ScaleInv'
    BY <1>1, <1>3, <2>1, <2>2 DEF ScaleInv
  <2>5. QED BY <1>3, <2>1, <2>2, <2>3, <2>4 DEF Fleet!ScalesWithCare
<1>9. QED BY <1>5, <1>6, <1>7, <1>8

LEMMA ScaleStep == ASSUME ScalePolicy, ScaleInv, [Fleet!ScaleNext]_scale PROVE ScaleInv'
<1>1. CASE Fleet!CeremonyEnds \/ Fleet!DrainEnds \/ Fleet!CommitteeLost
  <2>1. CASE Fleet!CeremonyEnds
    BY <2>1, SMTT(30) DEF Fleet!CeremonyEnds, ScaleInv, ScalePolicy
  <2>2. CASE Fleet!DrainEnds
    BY <2>2 DEF Fleet!DrainEnds, ScaleInv, ScalePolicy
  <2>3. CASE Fleet!CommitteeLost
    BY <2>3 DEF Fleet!CommitteeLost, ScaleInv, ScalePolicy
  <2>4. QED BY <1>1, <2>1, <2>2, <2>3
<1>2. CASE \E n \in Loads : Fleet!Demand(n)
  BY <1>2 DEF Fleet!Demand, ScaleInv, ScalePolicy
<1>3. CASE scale' = scale
  BY <1>3 DEF ScaleInv
<1>4. QED BY <1>1, <1>2, <1>3, ScaleObserved DEF Fleet!ScaleNext

(* ScalesWithCare of the autoscaler: committees begin and retire within the limits, after
   a whole run of samples that calls for it, and a retirement leaves room for the sessions
   there are. *)
THEOREM ScaledWithCare ==
  ASSUME ScalePolicy
  PROVE  Fleet!ScaleInit /\ [][Fleet!ScaleNext]_scale => [][Fleet!ScalesWithCare]_scale
<1>1. Fleet!ScaleInit => ScaleInv
  BY DEF Fleet!ScaleInit, ScaleInv, ScalePolicy
<1>2. ScaleInv /\ [Fleet!ScaleNext]_scale => ScaleInv'
  BY ScaleStep
<1>3. ScaleInv /\ [Fleet!ScaleNext]_scale => [Fleet!ScalesWithCare]_scale
  BY ScaleObserved DEF Fleet!ScalesWithCare
<1>4. QED BY <1>1, <1>2, <1>3, PTL

-----------------------------------------------------------------------------
(* The lobby and the cards. *)
Lobby == INSTANCE LobbySeats

LobbyFields ==
  {"seats", "phase", "hand", "owners", "lobby", "cached", "session", "request", "creating",
   "deck", "dealt", "read"}

ReadFields == {"by", "index", "committed", "hand", "rounds", "decks", "attempt"}

LobbyTypes ==
  /\ LobbyFields \subseteq DOMAIN lob
  /\ lob.phase \in {"Waiting", "Dealing", "Playing", "Settlement"}
  /\ lob.hand \in Nat /\ lob.deck \in Nat
  /\ {"order", "committed"} \subseteq DOMAIN lob.session /\ lob.session.committed \in Nat
  /\ ReadFields \subseteq DOMAIN lob.read /\ lob.read.committed \in Nat

(* A deck that is not committed yet is newer than every hand, and the players of the
   request are those it was dealt to. *)
DecksInOrder ==
  /\ lob.hand <= lob.deck /\ lob.session.committed <= lob.hand /\ lob.read.committed <= lob.hand
  /\ lob.request # <<>> => lob.hand < lob.deck /\ lob.request = lob.dealt
  /\ lob.phase = "Playing" => lob.hand > 0 /\ lob.request = <<>> /\ lob.seats = lob.owners

SessionHeld ==
  lob.phase = "Playing" /\ lob.session.committed = lob.hand =>
    \A i \in DOMAIN lob.session.order :
      lob.session.order[i] \in {lob.owners[i], lob.dealt[i]}

ReadHeld ==
  /\ lob.read.committed # 0 =>
       lob.read.hand \in {Lobby!Waiting, Lobby!Refused, lob.read.committed}
  /\ lob.phase = "Playing" /\ lob.read.committed = lob.hand =>
       lob.read.by \in {lob.owners[lob.read.index], lob.dealt[lob.read.index]}

LobbyInv == LobbyTypes /\ DecksInOrder /\ SessionHeld /\ ReadHeld

LEMMA LobbyInit == ASSUME Lobby!Init PROVE LobbyInv
BY DEF Lobby!Init, Lobby!NoSession, Lobby!NoRead, Lobby!Refused, Lobby!Waiting, LobbyInv, LobbyTypes,
  LobbyFields, ReadFields, DecksInOrder, SessionHeld, ReadHeld

(* What a step may do that leaves the hand, its cards and the reads of them alone. *)
LobbyAlone ==
  /\ DOMAIN lob' = DOMAIN lob
  /\ lob'.hand = lob.hand /\ lob'.deck = lob.deck /\ lob'.dealt = lob.dealt
  /\ lob'.session = lob.session /\ lob'.read = lob.read
  /\ lob'.request \in {lob.request, <<>>}
  /\ \/ lob'.phase = lob.phase /\ lob'.seats = lob.seats /\ lob'.owners = lob.owners
     \/ lob'.phase # "Playing" /\ lob'.phase \in {"Waiting", "Dealing", "Settlement"}

LEMMA LobbyKept == ASSUME LobbyInv, LobbyAlone PROVE LobbyInv'
<1>1. LobbyTypes'
  BY DEF LobbyInv, LobbyTypes, LobbyAlone
<1>2. DecksInOrder'
  BY DEF LobbyInv, LobbyTypes, DecksInOrder, LobbyAlone
<1>3. SessionHeld'
  BY DEF LobbyInv, SessionHeld, LobbyAlone
<1>4. ReadHeld'
  BY DEF LobbyInv, ReadHeld, LobbyAlone
<1>5. QED BY <1>1, <1>2, <1>3, <1>4 DEF LobbyInv

LEMMA LobbyOthers ==
  ASSUME LobbyInv,
         \/ \E w \in Wallets : Lobby!Sit(w) \/ Lobby!CreateSolo(w) \/ Lobby!JoinTable(w)
         \/ \E a, b : Lobby!Leave(a, b)
         \/ Lobby!HandEnds \/ Lobby!JoinCreator \/ Lobby!CreateFails
         \/ \E answered \in BOOLEAN : Lobby!JoinBot(answered)
         \/ Lobby!CacheView \/ Lobby!Expire \/ Lobby!DealFails
         \/ lob' = lob
  PROVE  LobbyAlone
<1> USE DEF LobbyInv, LobbyTypes, LobbyFields, LobbyAlone
<1>1. CASE \E w \in Wallets : Lobby!Sit(w)
  BY <1>1 DEF Lobby!Sit
<1>2. CASE \E w \in Wallets : Lobby!CreateSolo(w)
  BY <1>2 DEF Lobby!CreateSolo
<1>3. CASE \E w \in Wallets : Lobby!JoinTable(w)
  BY <1>3 DEF Lobby!JoinTable
<1>4. CASE \E a, b : Lobby!Leave(a, b)
  <2>1. PICK a, b : Lobby!Leave(a, b)
    BY <1>4
  <2>2. PICK seats : lob' = [lob EXCEPT !.seats = seats]
    BY <2>1 DEF Lobby!Leave
  <2>3. lob.phase \in {"Waiting", "Settlement"}
    BY <2>1 DEF Lobby!Leave
  <2>4. QED BY <2>2, <2>3
<1>5. CASE Lobby!HandEnds
  BY <1>5 DEF Lobby!HandEnds
<1>6. CASE Lobby!JoinCreator
  BY <1>6 DEF Lobby!JoinCreator, Lobby!JoinNextLocal
<1>7. CASE Lobby!CreateFails
  BY <1>7 DEF Lobby!CreateFails
<1>8. CASE \E answered \in BOOLEAN : Lobby!JoinBot(answered)
  BY <1>8 DEF Lobby!JoinBot, Lobby!JoinNextLocal
<1>9. CASE Lobby!CacheView \/ Lobby!Expire
  BY <1>9 DEF Lobby!CacheView, Lobby!Expire
<1>10. CASE Lobby!DealFails
  <2>1. lob.request # <<>>
    BY <1>10 DEF Lobby!DealFails, Lobby!Idle
  <2>2. lob.phase # "Playing"
    BY <2>1 DEF DecksInOrder
  <2>3. PICK phase \in {lob.phase, "Dealing"} : lob' = [lob EXCEPT !.request = <<>>, !.phase = phase]
    BY <1>10, <2>2 DEF Lobby!DealFails
  <2>4. QED BY <2>2, <2>3
<1>11. CASE lob' = lob
  BY <1>11
<1>12. QED BY <1>1, <1>2, <1>3, <1>4, <1>5, <1>6, <1>7, <1>8, <1>9, <1>10, <1>11

LEMMA LobbyRequested == ASSUME LobbyInv, Lobby!RequestDeal PROVE LobbyInv'
<1>1. PICK order : lob' = [lob EXCEPT !.request = order, !.dealt = order, !.deck = lob.deck + 1]
  BY DEF Lobby!RequestDeal, LobbyInv, LobbyTypes, LobbyFields
<1>2. lob.phase # "Playing"
  BY DEF Lobby!RequestDeal
<1>3. /\ DOMAIN lob' = DOMAIN lob /\ lob'.phase = lob.phase /\ lob'.hand = lob.hand
      /\ lob'.session = lob.session /\ lob'.read = lob.read
      /\ lob'.request = order /\ lob'.dealt = order /\ lob'.deck = lob.deck + 1
  BY <1>1 DEF LobbyInv, LobbyTypes, LobbyFields
<1>4. LobbyTypes'
  BY <1>3 DEF LobbyInv, LobbyTypes
<1>5. DecksInOrder'
  BY <1>2, <1>3 DEF LobbyInv, LobbyTypes, DecksInOrder
<1>6. QED BY <1>2, <1>3, <1>4, <1>5 DEF LobbyInv, SessionHeld, ReadHeld

LEMMA LobbyCommitted == ASSUME LobbyInv, Lobby!CommitDeal PROVE LobbyInv'
<1>1. /\ DOMAIN lob' = DOMAIN lob /\ lob'.phase = "Playing" /\ lob'.hand = lob.deck
      /\ lob'.session = [order |-> lob.request, committed |-> lob.deck]
      /\ lob'.read = lob.read /\ lob'.request = <<>> /\ lob'.owners = lob.seats
      /\ lob'.seats = lob.seats /\ lob'.dealt = lob.dealt /\ lob'.deck = lob.deck
  BY DEF Lobby!CommitDeal, LobbyInv, LobbyTypes, LobbyFields
<1>2. lob.request # <<>>
  BY DEF Lobby!CommitDeal, Lobby!Idle
<1>3. lob.hand < lob.deck /\ lob.request = lob.dealt
  BY <1>2 DEF LobbyInv, DecksInOrder
<1>4. LobbyTypes'
  BY <1>1 DEF LobbyInv, LobbyTypes
<1>5. DecksInOrder'
  BY <1>1, <1>3 DEF LobbyInv, LobbyTypes, DecksInOrder
<1>6. SessionHeld'
  BY <1>1, <1>3 DEF SessionHeld
<1>7. lob.read.committed # lob.deck
  BY <1>3 DEF LobbyInv, LobbyTypes, DecksInOrder
<1>8. ReadHeld'
  BY <1>1, <1>7 DEF LobbyInv, ReadHeld
<1>9. QED BY <1>4, <1>5, <1>6, <1>8 DEF LobbyInv

LEMMA LobbyRehydrated == ASSUME LobbyInv, Lobby!Rehydrate PROVE LobbyInv'
<1> DEFINE committed == IF lob.phase \in {"Playing", "Settlement"} THEN lob.hand ELSE 0
<1>1. /\ DOMAIN lob' = DOMAIN lob /\ lob'.phase = lob.phase /\ lob'.hand = lob.hand
      /\ lob'.session = [order |-> lob.seats, committed |-> committed]
      /\ lob'.read = lob.read /\ lob'.request = lob.request /\ lob'.owners = lob.owners
      /\ lob'.seats = lob.seats /\ lob'.dealt = lob.dealt /\ lob'.deck = lob.deck
  BY DEF Lobby!Rehydrate, LobbyInv, LobbyTypes, LobbyFields
<1>2. committed \in Nat /\ committed <= lob.hand
  BY DEF LobbyInv, LobbyTypes
<1> HIDE DEF committed
<1>3. LobbyTypes'
  BY <1>1, <1>2 DEF LobbyInv, LobbyTypes
<1>4. DecksInOrder'
  BY <1>1, <1>2 DEF LobbyInv, DecksInOrder
<1>5. SessionHeld'
  BY <1>1 DEF LobbyInv, DecksInOrder, SessionHeld
<1>6. ReadHeld'
  BY <1>1 DEF LobbyInv, ReadHeld
<1>7. QED BY <1>3, <1>4, <1>5, <1>6 DEF LobbyInv

(* Only the read changes. *)
LobbyReads ==
  /\ DOMAIN lob' = DOMAIN lob /\ lob'.phase = lob.phase /\ lob'.hand = lob.hand
  /\ lob'.session = lob.session /\ lob'.request = lob.request /\ lob'.owners = lob.owners
  /\ lob'.seats = lob.seats /\ lob'.dealt = lob.dealt /\ lob'.deck = lob.deck
  /\ ReadFields \subseteq DOMAIN lob'.read

LEMMA LobbyRead ==
  ASSUME LobbyInv, LobbyReads, lob'.read.committed \in Nat,
         lob'.read.committed <= lob.hand, ReadHeld'
  PROVE  LobbyInv'
<1>1. LobbyTypes'
  BY DEF LobbyInv, LobbyTypes, LobbyReads
<1>2. DecksInOrder'
  BY DEF LobbyInv, DecksInOrder, LobbyReads
<1>3. SessionHeld'
  BY DEF LobbyInv, SessionHeld, LobbyReads
<1>4. QED BY <1>1, <1>2, <1>3 DEF LobbyInv

LEMMA LobbyCards == ASSUME LobbyInv, NEW a, Lobby!RequestCards(a) PROVE LobbyInv'
<1>1. PICK i \in DOMAIN lob.session.order :
         /\ lob.session.order[i] = a
         /\ lob' = [lob EXCEPT !.read =
              [Lobby!NoRead EXCEPT !.by = a, !.index = i, !.committed = lob.session.committed,
                                   !.hand = Lobby!Waiting]]
  BY DEF Lobby!RequestCards
<1>2. LobbyReads
  BY <1>1 DEF LobbyInv, LobbyTypes, LobbyFields, LobbyReads, ReadFields, Lobby!NoRead
<1>3. /\ lob'.read.by = a /\ lob'.read.index = i /\ lob'.read.hand = Lobby!Waiting
      /\ lob'.read.committed = lob.session.committed
  BY <1>1 DEF LobbyInv, LobbyTypes, LobbyFields, Lobby!NoRead
<1>4. lob.session.committed \in Nat /\ lob.session.committed <= lob.hand
  BY DEF LobbyInv, LobbyTypes, DecksInOrder
<1>5. ReadHeld'
  BY <1>1, <1>2, <1>3 DEF LobbyInv, LobbyReads, SessionHeld, ReadHeld
<1>6. QED BY <1>2, <1>3, <1>4, <1>5, LobbyRead

(* The read goes on, or ends with an answer that fits the commitment or with none. *)
LEMMA LobbyAnswers ==
  ASSUME LobbyInv, Lobby!Lookup \/ Lobby!LookupFails \/ Lobby!ResolveCards
  PROVE  /\ LobbyReads
         /\ lob'.read.by = lob.read.by /\ lob'.read.index = lob.read.index
         /\ lob'.read.committed = lob.read.committed
         /\ lob.read.committed # 0 =>
              lob'.read.hand \in {lob.read.hand, Lobby!Refused, lob.read.committed}
<1> USE DEF LobbyInv, LobbyTypes, LobbyFields, LobbyReads, ReadFields
<1>1. CASE Lobby!Lookup
  BY <1>1 DEF Lobby!Lookup
<1>2. CASE Lobby!LookupFails
  BY <1>2 DEF Lobby!LookupFails, Lobby!Answered
<1>3. CASE Lobby!ResolveCards
  <2> DEFINE found == Lobby!Found(lob.read)
             again == [lob.read EXCEPT !.attempt = lob.read.attempt + 1, !.rounds = 0, !.decks = {}]
             answer == IF lob.read.committed \in {0, found} THEN Lobby!Answered(found)
                       ELSE IF lob.read.attempt < Attempts THEN again
                       ELSE Lobby!Answered(Lobby!Refused)
  <2>1. lob' = [lob EXCEPT !.read = answer]
    BY <1>3 DEF Lobby!ResolveCards
  <2> HIDE DEF found
  <2>2. /\ answer.by = lob.read.by /\ answer.index = lob.read.index
        /\ answer.committed = lob.read.committed /\ DOMAIN answer = DOMAIN lob.read
        /\ lob.read.committed # 0 => answer.hand \in {lob.read.hand, Lobby!Refused, lob.read.committed}
    BY DEF Lobby!Answered
  <2> HIDE DEF answer
  <2>3. QED BY <2>1, <2>2
<1>4. QED BY <1>1, <1>2, <1>3

LEMMA LobbyAnswered ==
  ASSUME LobbyInv, Lobby!Lookup \/ Lobby!LookupFails \/ Lobby!ResolveCards
  PROVE  LobbyInv'
<1>1. /\ LobbyReads
      /\ lob'.read.by = lob.read.by /\ lob'.read.index = lob.read.index
      /\ lob'.read.committed = lob.read.committed
      /\ lob.read.committed # 0 =>
           lob'.read.hand \in {lob.read.hand, Lobby!Refused, lob.read.committed}
  BY LobbyAnswers
<1>2. ReadHeld'
  BY <1>1 DEF LobbyInv, LobbyReads, ReadHeld
<1>3. lob.read.committed \in Nat /\ lob.read.committed <= lob.hand
  BY DEF LobbyInv, LobbyTypes, DecksInOrder
<1>4. QED BY <1>1, <1>2, <1>3, LobbyRead

LEMMA LobbyRestarts == ASSUME LobbyInv, Lobby!Restart PROVE LobbyInv'
<1>1. /\ DOMAIN lob' = DOMAIN lob /\ lob'.phase = lob.phase /\ lob'.hand = lob.hand
      /\ lob'.session = Lobby!NoSession
      /\ lob'.read = Lobby!NoRead /\ lob'.request = <<>> /\ lob'.owners = lob.owners
      /\ lob'.seats = lob.seats /\ lob'.dealt = lob.dealt /\ lob'.deck = lob.deck
  BY DEF Lobby!Restart, LobbyInv, LobbyTypes, LobbyFields
<1>2. LobbyTypes'
  BY <1>1 DEF LobbyInv, LobbyTypes, ReadFields, Lobby!NoSession, Lobby!NoRead
<1>3. DecksInOrder'
  BY <1>1 DEF LobbyInv, LobbyTypes, DecksInOrder, Lobby!NoSession, Lobby!NoRead
<1>4. SessionHeld'
  BY <1>1 DEF SessionHeld, Lobby!NoSession
<1>5. ReadHeld'
  BY <1>1 DEF LobbyInv, LobbyTypes, DecksInOrder, ReadHeld, Lobby!NoRead
<1>6. QED BY <1>2, <1>3, <1>4, <1>5 DEF LobbyInv

LEMMA LobbyStep == ASSUME LobbyInv, [Lobby!Next]_lob PROVE LobbyInv'
<1>1. CASE \/ Lobby!RequestDeal \/ Lobby!CommitDeal \/ Lobby!Rehydrate \/ Lobby!Restart
           \/ \E a \in Wallets : Lobby!RequestCards(a)
           \/ Lobby!Lookup \/ Lobby!LookupFails \/ Lobby!ResolveCards
  BY <1>1, LobbyRequested, LobbyCommitted, LobbyRehydrated, LobbyRestarts, LobbyCards, LobbyAnswered
<1>2. CASE \/ \E w \in Wallets : Lobby!Sit(w) \/ Lobby!CreateSolo(w) \/ Lobby!JoinTable(w)
           \/ \E a, b : Lobby!Leave(a, b)
           \/ Lobby!HandEnds \/ Lobby!JoinCreator \/ Lobby!CreateFails
           \/ \E answered \in BOOLEAN : Lobby!JoinBot(answered)
           \/ Lobby!CacheView \/ Lobby!Expire \/ Lobby!DealFails
           \/ lob' = lob
  BY <1>2, LobbyOthers, LobbyKept
<1>3. QED BY <1>1, <1>2 DEF Lobby!Next

(* CardsToOwner of the card lookups: the answer to a request, which read seats and
   session at different moments, has the cards of the current hand only for the player of
   their seat. *)
THEOREM CardsStayOwned == Lobby!Spec => []Lobby!CardsToOwner
<1>1. Lobby!Init => LobbyInv
  BY LobbyInit
<1>2. LobbyInv /\ [Lobby!Next]_lob => LobbyInv'
  BY LobbyStep
<1>3. LobbyInv => Lobby!CardsToOwner
  BY DEF LobbyInv, LobbyTypes, DecksInOrder, ReadHeld, Lobby!CardsToOwner, Lobby!Mixed, Lobby!Waiting, Lobby!Refused
<1>4. QED BY <1>1, <1>2, <1>3, PTL DEF Lobby!Spec

-----------------------------------------------------------------------------
(* Leaders among the instances. *)
Leaders == INSTANCE InstanceHandover

LeadFields == {"flag", "loop", "using", "answer"}

(* An instance that was given the lock, and knows it or is about to hear of it, has it
   as long as its session is open: nobody else is given the lock before the database
   has closed that session, and nobody else opens it. *)
LockGiven(i) ==
  inst.of[i].loop = "leading" \/ (inst.of[i].loop = "asked" /\ inst.of[i].answer)

LeadHeld(i) ==
  /\ LeadFields \subseteq DOMAIN inst.of[i]
  /\ inst.of[i].loop # "idle" => inst.of[i].using[1] = i
  /\ LockGiven(i) /\ inst.of[i].using \in inst.open => inst.lock = inst.of[i].using
  /\ inst.of[i].flag => inst.of[i].loop = "leading"

LeadInv ==
  /\ {"of", "open", "cut", "lock", "migrations"} \subseteq DOMAIN inst
  /\ Leaders!NoConn \notin inst.open
  /\ DOMAIN inst.of = Instances /\ inst.of = [i \in Instances |-> inst.of[i]]
  /\ \A i \in Instances : LeadHeld(i)

(* The election is left as it is. *)
LeadKept ==
  /\ DOMAIN inst' = DOMAIN inst
  /\ inst'.open = inst.open /\ inst'.lock = inst.lock
  /\ DOMAIN inst'.of = Instances /\ inst'.of = [i \in Instances |-> inst'.of[i]]
  /\ \A i \in Instances :
       /\ DOMAIN inst'.of[i] = DOMAIN inst.of[i]
       /\ inst'.of[i].flag = inst.of[i].flag /\ inst'.of[i].loop = inst.of[i].loop
       /\ inst'.of[i].using = inst.of[i].using /\ inst'.of[i].answer = inst.of[i].answer

LEMMA LeadStays == ASSUME LeadInv, LeadKept PROVE LeadInv'
<1>1. ASSUME NEW i \in Instances PROVE LeadHeld(i)'
  BY DEF LeadInv, LeadKept, LeadHeld, LockGiven
<1>2. QED BY <1>1 DEF LeadInv, LeadKept

(* One instance is set to a record with the same part in the election. *)
LEMMA LeadSet ==
  ASSUME LeadInv, NEW i \in Instances, NEW r, inst' = [inst EXCEPT !.of[i] = r],
         DOMAIN r = DOMAIN inst.of[i], r.flag = inst.of[i].flag, r.loop = inst.of[i].loop,
         r.using = inst.of[i].using, r.answer = inst.of[i].answer
  PROVE  LeadKept
BY DEF LeadInv, LeadKept

LEMMA LeadBegun ==
  ASSUME LeadInv, NEW i \in Instances
  PROVE  /\ DOMAIN Leaders!Begun(i) = DOMAIN inst.of[i]
         /\ Leaders!Begun(i).flag = inst.of[i].flag /\ Leaders!Begun(i).loop = inst.of[i].loop
         /\ Leaders!Begun(i).using = inst.of[i].using
         /\ Leaders!Begun(i).answer = inst.of[i].answer
BY DEF LeadInv, LeadHeld, LeadFields, Leaders!Begun, Leaders!Of

LEMMA LeadHandles ==
  ASSUME LeadInv, NEW i \in Instances, Leaders!Handle(i), ~Leaders!Exit(i)
  PROVE  LeadKept
<1> USE DEF Leaders!Of, Leaders!Set, LeadInv, LeadKept, LeadHeld, LeadFields
<1>1. CASE Leaders!Pass(i)
  BY <1>1 DEF Leaders!Pass
<1>2. CASE Leaders!BeginWork(i)
  BY <1>2 DEF Leaders!BeginWork
<1>3. CASE Leaders!EndWork(i) \/ Leaders!Turned(i)
  BY <1>3 DEF Leaders!EndWork, Leaders!Turned
<1>4. CASE Leaders!StopWaiting(i)
  BY <1>4 DEF Leaders!StopWaiting
<1>5. CASE Leaders!BeginDrain(i)
  BY <1>5, LeadBegun, LeadSet DEF Leaders!BeginDrain
<1>6. CASE Leaders!CancelDrain(i)
  BY <1>6 DEF Leaders!CancelDrain
<1>7. CASE Leaders!NoteTime(i, "begin") \/ Leaders!NoteTime(i, "cancel")
  <2>1. PICK what, started :
          inst' = [inst EXCEPT !.of[i] = [inst.of[i] EXCEPT !.pending = inst.of[i].pending \ {what},
                                                             !.started = started]]
    <3>1. CASE Leaders!NoteTime(i, "begin")
      BY <3>1 DEF Leaders!NoteTime
    <3>2. CASE Leaders!NoteTime(i, "cancel")
      BY <3>2 DEF Leaders!NoteTime
    <3>3. QED BY <1>7, <3>1, <3>2
  <2>2. QED BY <2>1
<1>8. CASE Leaders!Terminate(i)
  <2> DEFINE r == [Leaders!Begun(i) EXCEPT !.stopping = "draining", !.waited = 0]
  <2>1. inst' = [inst EXCEPT !.of[i] = r]
    BY <1>8 DEF Leaders!Terminate
  <2>2. /\ DOMAIN r = DOMAIN inst.of[i] /\ r.flag = inst.of[i].flag /\ r.loop = inst.of[i].loop
        /\ r.using = inst.of[i].using /\ r.answer = inst.of[i].answer
    BY LeadBegun
  <2> HIDE DEF r
  <2>3. QED BY <2>1, <2>2, LeadSet
<1>9. QED BY <1>1, <1>2, <1>3, <1>4, <1>5, <1>6, <1>7, <1>8 DEF Leaders!Handle

LEMMA LeadOthers ==
  ASSUME LeadInv,
         \/ \E i \in Instances, j \in Instances : Leaders!InitiateMigration(i, j)
         \/ \E m : Leaders!CompleteMigration(m) \/ Leaders!CancelMigration(m)
         \/ \E c : Leaders!Cut(c)
         \/ Leaders!Tick
         \/ inst' = inst
  PROVE  LeadKept
<1>1. CASE \E i \in Instances, j \in Instances : Leaders!InitiateMigration(i, j)
  BY <1>1 DEF Leaders!InitiateMigration, LeadInv, LeadKept
<1>2. CASE \E m : Leaders!CompleteMigration(m) \/ Leaders!CancelMigration(m)
  <2>1. PICK migrations : inst' = [inst EXCEPT !.migrations = migrations]
    BY <1>2 DEF Leaders!CompleteMigration, Leaders!CancelMigration, Leaders!UpdateMigrationStatus
  <2>2. QED BY <2>1 DEF LeadInv, LeadKept
<1>3. CASE \E c : Leaders!Cut(c)
  BY <1>3 DEF Leaders!Cut, LeadInv, LeadKept
<1>4. CASE Leaders!Tick
  <2> DEFINE Aged(i) ==
               [inst.of[i] EXCEPT !.started = Leaders!Later(inst.of[i].started),
                  !.waited = IF inst.of[i].stopping = "draining"
                             THEN Leaders!Later(inst.of[i].waited) ELSE inst.of[i].waited]
  <2>1. inst' = [inst EXCEPT !.of = [i \in Instances |-> Aged(i)]]
    BY <1>4 DEF Leaders!Tick, Leaders!Of
  <2>2. QED BY <2>1, ZenonT(30) DEF LeadInv, LeadKept, LeadHeld, LeadFields
<1>5. CASE inst' = inst
  BY <1>5 DEF LeadInv, LeadKept
<1>6. QED BY <1>1, <1>2, <1>3, <1>4, <1>5

(* One instance changes what it does in the election, the database stays. *)
LEMMA LeadTurn ==
  ASSUME LeadInv, NEW i \in Instances,
         DOMAIN inst' = DOMAIN inst, inst'.open \subseteq inst.open, inst'.lock = inst.lock,
         NEW r, inst'.of = [inst.of EXCEPT ![i] = r],
         LeadFields \subseteq DOMAIN r, r.loop # "idle" => r.using[1] = i,
         r.loop # "asked",
         r.loop = "leading" => LockGiven(i) /\ r.using = inst.of[i].using,
         r.flag => r.loop = "leading"
  PROVE  LeadInv'
<1>1. DOMAIN inst'.of = Instances /\ inst'.of = [j \in Instances |-> inst'.of[j]] /\ inst'.of[i] = r
  BY DEF LeadInv
<1>2. LeadHeld(i)'
  BY <1>1 DEF LeadInv, LeadHeld, LockGiven
<1>3. ASSUME NEW j \in Instances \ {i} PROVE LeadHeld(j)'
  <2>1. inst'.of[j] = inst.of[j]
    BY DEF LeadInv
  <2>2. QED BY <2>1 DEF LeadInv, LeadHeld, LockGiven
<1>4. QED BY <1>1, <1>2, <1>3 DEF LeadInv

LEMMA LeadFollows ==
  ASSUME LeadInv, NEW i \in Instances,
         Leaders!HearAnswer(i) \/ Leaders!NoConnection(i) \/ Leaders!KeepaliveFails(i)
           \/ Leaders!Crash(i) \/ Leaders!Start(i) \/ Leaders!Exit(i)
  PROVE  LeadInv'
<1> DEFINE follow == Leaders!Follow(i)
           leading == [inst.of[i] EXCEPT !.flag = TRUE, !.loop = "leading"]
           down == [Leaders!Fresh EXCEPT !.up = FALSE]
<1>1. /\ LeadFields \subseteq DOMAIN follow /\ follow.flag = FALSE /\ follow.loop = "idle"
      /\ LeadFields \subseteq DOMAIN leading /\ leading.loop = "leading"
      /\ leading.using = inst.of[i].using
      /\ LeadFields \subseteq DOMAIN down /\ down.flag = FALSE /\ down.loop = "idle"
      /\ LeadFields \subseteq DOMAIN Leaders!Fresh /\ Leaders!Fresh.flag = FALSE /\ Leaders!Fresh.loop = "idle"
  BY DEF LeadInv, LeadHeld, LeadFields, Leaders!Follow, Leaders!Of, Leaders!Fresh
<1>2. CASE \E r \in {follow, Leaders!Fresh} : inst' = Leaders!Set(i, r)
  <2>1. PICK r \in {follow, Leaders!Fresh} : inst' = [inst EXCEPT !.of[i] = r]
    BY <1>2 DEF Leaders!Set
  <2>2. /\ DOMAIN inst' = DOMAIN inst /\ inst'.open = inst.open /\ inst'.lock = inst.lock
        /\ inst'.of = [inst.of EXCEPT ![i] = r]
    BY <2>1 DEF LeadInv
  <2>3. LeadFields \subseteq DOMAIN r /\ r.flag = FALSE /\ r.loop = "idle"
    BY <1>1, <2>1
  <2>4. QED BY <2>2, <2>3, LeadTurn
<1>3. CASE Leaders!HearAnswer(i) /\ inst' = Leaders!Set(i, leading) /\ inst.of[i].answer
  <2>1. inst' = [inst EXCEPT !.of[i] = leading]
    BY <1>3 DEF Leaders!Set
  <2>2. inst.of[i].loop = "asked"
    BY <1>3 DEF Leaders!HearAnswer, Leaders!Of
  <2>3. LockGiven(i) /\ inst.of[i].using[1] = i
    BY <1>3, <2>2 DEF LockGiven, LeadInv, LeadHeld
  <2> HIDE DEF leading
  <2>4. /\ DOMAIN inst' = DOMAIN inst /\ inst'.open = inst.open /\ inst'.lock = inst.lock
        /\ inst'.of = [inst.of EXCEPT ![i] = leading]
    BY <2>1 DEF LeadInv
  <2>5. leading.using[1] = i
    BY <1>1, <2>3
  <2>6. QED BY <1>1, <2>3, <2>4, <2>5, LeadTurn
<1>4. CASE inst' = Leaders!Gone(i)
  <2>1. /\ DOMAIN inst' = DOMAIN inst /\ inst'.open = inst.open /\ inst'.lock = inst.lock
        /\ inst'.of = [inst.of EXCEPT ![i] = down]
    BY <1>4 DEF LeadInv, Leaders!Gone
  <2> HIDE DEF down
  <2>2. QED BY <1>1, <2>1, LeadTurn
<1>5. CASE Leaders!HearAnswer(i)
  BY <1>2, <1>3, <1>5 DEF Leaders!HearAnswer, Leaders!Of
<1>6. CASE Leaders!NoConnection(i) \/ Leaders!KeepaliveFails(i) \/ Leaders!Start(i)
  BY <1>2, <1>6 DEF Leaders!NoConnection, Leaders!KeepaliveFails, Leaders!Start
<1>7. CASE Leaders!Crash(i) \/ Leaders!Exit(i)
  BY <1>4, <1>7 DEF Leaders!Crash, Leaders!Exit
<1>8. QED BY <1>5, <1>6, <1>7

LEMMA LeadAsked ==
  ASSUME LeadInv, NEW c \in Leaders!Conns, Leaders!AskForLock(c[1], c)
  PROVE  LeadInv'
<1> DEFINE got == inst.lock \in {Leaders!NoConn, c}
           lock == IF got THEN c ELSE inst.lock
           asked == [inst.of[c[1]] EXCEPT !.loop = "asked", !.using = c, !.answer = got]
<1>1. PICK i \in Instances : i = c[1]
  BY DEF Leaders!Conns
<1>2. inst.of[i].loop = "idle"
  BY <1>1 DEF Leaders!AskForLock, Leaders!Of
<1>3. /\ DOMAIN inst' = DOMAIN inst /\ inst'.open = inst.open \cup {c} /\ inst'.lock = lock
      /\ inst'.of = [inst.of EXCEPT ![i] = asked]
  BY <1>1 DEF LeadInv, Leaders!AskForLock, Leaders!Of
<1>4. /\ LeadFields \subseteq DOMAIN asked /\ asked.loop = "asked" /\ asked.using = c
      /\ asked.answer = got /\ asked.flag = inst.of[i].flag
  BY <1>1 DEF LeadInv, LeadHeld, LeadFields
<1> HIDE DEF asked
<1>5. ~inst.of[i].flag
  BY <1>2 DEF LeadInv, LeadHeld
<1>6. DOMAIN inst'.of = Instances /\ inst'.of = [j \in Instances |-> inst'.of[j]] /\ inst'.of[i] = asked
  BY <1>3 DEF LeadInv
<1>7. LeadHeld(i)'
  BY <1>1, <1>3, <1>4, <1>5, <1>6 DEF LeadHeld, LockGiven
<1>8. ASSUME NEW j \in Instances \ {i} PROVE LeadHeld(j)'
  <2>1. inst'.of[j] = inst.of[j] /\ LeadHeld(j)
    BY <1>3 DEF LeadInv
  <2>2. ASSUME LockGiven(j), inst.of[j].using \in inst.open \cup {c} PROVE lock = inst.of[j].using
    <3>1. inst.of[j].using[1] = j
      BY <2>1, <2>2 DEF LeadHeld, LockGiven
    <3>2. inst.of[j].using # c
      BY <1>1, <3>1
    <3>3. inst.lock = inst.of[j].using
      BY <2>1, <2>2, <3>2 DEF LeadHeld
    <3>4. inst.lock # Leaders!NoConn
      BY <2>2, <3>2, <3>3 DEF LeadInv
    <3>5. QED BY <3>2, <3>3, <3>4
  <2>3. QED BY <1>3, <2>1, <2>2 DEF LeadHeld, LockGiven
<1>9. c # Leaders!NoConn
  <2>1. PICK x, y : c = <<x, y>>
    BY DEF Leaders!Conns
  <2>2. Len(<<x, y>>) = 2 /\ Len(<<>>) = 0
    OBVIOUS
  <2>3. QED BY <2>1, <2>2 DEF Leaders!NoConn
<1>10. QED BY <1>3, <1>6, <1>7, <1>8, <1>9 DEF LeadInv

LEMMA LeadClosed == ASSUME LeadInv, NEW c, Leaders!Close(c) PROVE LeadInv'
<1>1. /\ DOMAIN inst' = DOMAIN inst /\ inst'.open = inst.open \ {c} /\ inst'.of = inst.of
      /\ inst'.lock = IF inst.lock = c THEN Leaders!NoConn ELSE inst.lock
  BY DEF LeadInv, Leaders!Close
<1>2. ASSUME NEW i \in Instances PROVE LeadHeld(i)'
  BY <1>1 DEF LeadInv, LeadHeld, LockGiven
<1>3. QED BY <1>1, <1>2 DEF LeadInv

LEMMA LeadStep == ASSUME LeadInv, [Leaders!Next]_inst PROVE LeadInv'
<1>1. CASE \E i \in Instances : Leaders!HearAnswer(i) \/ Leaders!NoConnection(i) \/ Leaders!KeepaliveFails(i)
                                  \/ Leaders!Crash(i) \/ Leaders!Start(i) \/ Leaders!Exit(i)
  BY <1>1, LeadFollows
<1>2. CASE \E c \in Leaders!Conns : Leaders!AskForLock(c[1], c) \/ Leaders!Close(c)
  BY <1>2, LeadAsked, LeadClosed
<1>3. CASE \E i \in Instances : Leaders!Handle(i)
  BY <1>1, <1>3, LeadHandles, LeadStays
<1>4. CASE \/ \E i \in Instances, j \in Instances : Leaders!InitiateMigration(i, j)
           \/ \E m : Leaders!CompleteMigration(m) \/ Leaders!CancelMigration(m)
           \/ \E c : Leaders!Cut(c)
           \/ Leaders!Tick
           \/ inst' = inst
  BY <1>4, LeadOthers, LeadStays
<1>5. QED BY <1>1, <1>2, <1>3, <1>4 DEF Leaders!Next, Leaders!Elect

(* OneLeader of the instances: of those that take themselves for the leader, one has a
   connection that works; the others learn with the next keepalive that theirs is gone. *)
THEOREM LeadersAlone == Leaders!Spec => []Leaders!OneLeader
<1>1. Leaders!Init => LeadInv
  BY DEF Leaders!Init, Leaders!Fresh, LeadInv, LeadHeld, LeadFields, LockGiven
<1>2. LeadInv /\ [Leaders!Next]_inst => LeadInv'
  BY LeadStep
<1>3. LeadInv => Leaders!OneLeader
  BY DEF LeadInv, LeadHeld, LockGiven, Leaders!OneLeader, Leaders!Believes, Leaders!Usable, Leaders!Of
<1>4. QED BY <1>1, <1>2, <1>3, PTL DEF Leaders!Spec

-----------------------------------------------------------------------------
(* Proof sessions. *)
Proofs == INSTANCE ProofSessions

ProofConstants == IsFiniteSet(Nodes) /\ MaxRequests \in Nat

ProofFields ==
  {"request", "last", "answered", "root", "calls", "shares", "deck", "sets", "session", "tasks",
   "refresh", "draining", "restarts"}

ProofStatuses == {"none", "shares", "running", "complete", "failed"}

(* At most one fragment of each node. *)
OnePerNode(fragments) ==
  /\ \A f \in fragments : f.source \in Nodes
  /\ \A f, g \in fragments : f.source = g.source => f = g

WholeProof(used) ==
  {f.source : f \in used} = Nodes /\ \A f \in used : f.fits

SoundSession(s) ==
  /\ {"status", "fragments", "used"} \subseteq DOMAIN s
  /\ OnePerNode(s.fragments)
  /\ s.status = "complete" => WholeProof(s.used)

SoundCall(c)  == {"op", "node", "id"} \subseteq DOMAIN c /\ c.node \in Nodes /\ c.id \in Proofs!Ids
SoundShare(m) == m.from \in Nodes /\ m.to \in Nodes /\ m.id \in Proofs!Ids
SoundTask(task) == task.node \in Nodes /\ task.id \in Proofs!Ids /\ OnePerNode(task.input)

ProofTypes ==
  /\ ProofFields \subseteq DOMAIN mpc
  /\ mpc.last \in Nat
  /\ {"id", "kind", "stage"} \subseteq DOMAIN mpc.request
  /\ mpc.request.stage \in DOMAIN Proofs!Following => mpc.request.id \in Proofs!Ids
  /\ DOMAIN mpc.session = Nodes /\ mpc.session = [n \in Nodes |-> mpc.session[n]]
  /\ \A n \in Nodes :
       DOMAIN mpc.session[n] = Proofs!Ids /\ mpc.session[n] = [i \in Proofs!Ids |-> mpc.session[n][i]]

ProofInv ==
  /\ ProofTypes
  /\ \A c \in mpc.calls : SoundCall(c)
  /\ \A m \in mpc.shares : SoundShare(m)
  /\ \A task \in mpc.tasks : SoundTask(task)
  /\ \A n \in Nodes, i \in Proofs!Ids : SoundSession(mpc.session[n][i])

LEMMA ProofsCardinality == \A S : Proofs!Cardinality(S) = Cardinality(S)
BY DEF Proofs!Cardinality, Cardinality, Proofs!IsFiniteSet, IsFiniteSet

(* As many fragments as nodes, one of each at most: one of each. *)
LEMMA FragmentsWhole ==
  ASSUME ProofConstants, NEW fragments, OnePerNode(fragments),
         Cardinality(fragments) = Cardinality(Nodes)
  PROVE  {f.source : f \in fragments} = Nodes
<1> DEFINE source == [f \in fragments |-> f.source]
<1>1. source \in Injection(fragments, Nodes)
  BY DEF OnePerNode, Injection, IsInjective
<1>2. source \in Surjection(fragments, Nodes)
  BY <1>1, FS_Injection DEF ProofConstants
<1>3. QED BY <1>2 DEF Surjection

(* What most steps leave alone. *)
ProofKept ==
  /\ DOMAIN mpc' = DOMAIN mpc /\ mpc'.last = mpc.last /\ mpc'.session = mpc.session
  /\ mpc'.request = mpc.request /\ mpc'.tasks = mpc.tasks

LEMMA ProofStays ==
  ASSUME ProofInv, ProofKept,
         \A c \in mpc'.calls : SoundCall(c), \A m \in mpc'.shares : SoundShare(m)
  PROVE  ProofInv'
BY DEF ProofInv, ProofTypes, ProofKept

LEMMA ProofInit == ASSUME ProofConstants, Proofs!Init PROVE ProofInv
<1> DEFINE s == Proofs!NoSession
<1>1. SoundSession(s)
  BY DEF SoundSession, OnePerNode, Proofs!NoSession
<1>2. ProofTypes
  BY DEF Proofs!Init, ProofTypes, ProofFields, Proofs!NoRequest, Proofs!Following
<1>3. mpc.session = [n \in Nodes |-> [i \in Proofs!Ids |-> s]] /\ mpc.calls = {} /\ mpc.shares = {} /\ mpc.tasks = {}
  BY DEF Proofs!Init
<1>4. QED BY <1>1, <1>2, <1>3 DEF ProofInv

LEMMA ProofCallsTo ==
  ASSUME NEW op, NEW id \in Proofs!Ids, NEW kind, NEW c \in Proofs!CallsTo(op, id, kind)
  PROVE  SoundCall(c)
BY DEF Proofs!CallsTo, SoundCall

LEMMA ProofBegun == ASSUME ProofConstants, ProofInv, NEW kind, Proofs!Begin(kind) PROVE ProofInv'
<1> DEFINE id == mpc.last + 1
           request == [id |-> id, kind |-> kind, stage |-> "prepare"]
           calls == Proofs!CallsTo("prepare", id, kind)
<1>1. id \in Nat /\ id \in Proofs!Ids
  BY DEF Proofs!Begin, ProofConstants, ProofInv, ProofTypes, Proofs!Ids
<1>2. \A c \in calls : SoundCall(c)
  BY <1>1, ProofCallsTo
<1> HIDE DEF calls
<1>3. /\ DOMAIN mpc' = DOMAIN mpc /\ mpc'.last = id /\ mpc'.request = request
      /\ mpc'.session = mpc.session /\ mpc'.tasks = mpc.tasks /\ mpc'.shares = mpc.shares
      /\ mpc'.calls = mpc.calls \union calls
  BY DEF Proofs!Begin, ProofInv, ProofTypes, ProofFields, calls
<1>4. ProofTypes'
  BY <1>1, <1>3 DEF ProofInv, ProofTypes
<1>5. QED BY <1>2, <1>3, <1>4 DEF ProofInv

LEMMA ProofStaged == ASSUME ProofInv, Proofs!NextStage PROVE ProofInv'
<1> DEFINE next == Proofs!Following[mpc.request.stage]
           calls == Proofs!CallsTo(next, mpc.request.id, mpc.request.kind)
<1>1. mpc.request.id \in Proofs!Ids
  BY DEF Proofs!NextStage, ProofInv, ProofTypes
<1>2. \A c \in calls : SoundCall(c)
  BY <1>1, ProofCallsTo
<1> HIDE DEF calls, next
<1>3. /\ DOMAIN mpc' = DOMAIN mpc /\ mpc'.last = mpc.last
      /\ mpc'.request.id = mpc.request.id /\ DOMAIN mpc'.request = DOMAIN mpc.request
      /\ mpc'.session = mpc.session /\ mpc'.tasks = mpc.tasks /\ mpc'.shares = mpc.shares
      /\ mpc'.calls = mpc.calls \union calls
  BY DEF Proofs!NextStage, ProofInv, ProofTypes, ProofFields, calls, next
<1>4. ProofTypes'
  BY <1>1, <1>3 DEF ProofInv, ProofTypes
<1>5. QED BY <1>2, <1>3, <1>4 DEF ProofInv

LEMMA ProofEnded == ASSUME ProofInv, Proofs!CollectProof \/ Proofs!RequestFails PROVE ProofInv'
<1>1. /\ DOMAIN mpc' = DOMAIN mpc /\ mpc'.last = mpc.last /\ mpc'.request = Proofs!NoRequest
      /\ mpc'.session = mpc.session /\ mpc'.tasks = mpc.tasks /\ mpc'.shares = mpc.shares
      /\ mpc'.calls = mpc.calls
  BY DEF Proofs!CollectProof, Proofs!RequestFails, ProofInv, ProofTypes, ProofFields
<1>2. ProofTypes'
  BY <1>1 DEF ProofInv, ProofTypes, Proofs!NoRequest, Proofs!Following
<1>3. QED BY <1>1, <1>2 DEF ProofInv

LEMMA ProofSent ==
  ASSUME ProofInv, NEW c \in mpc.calls,
         \/ Proofs!CallLost(c) \/ Proofs!Dispatch(c)
         \/ \E answered : Proofs!Prepare(c, answered) \/ Proofs!Dispatched(c, answered)
  PROVE  ProofInv'
<1> USE DEF ProofTypes, ProofFields, ProofKept
<1>1. SoundCall(c) /\ ProofTypes
  BY DEF ProofInv
<1>2. CASE Proofs!Dispatch(c)
  <2> DEFINE sent == [c EXCEPT !.op = "dispatching"]
  <2>1. SoundCall(sent)
    BY <1>1 DEF SoundCall
  <2> HIDE DEF sent
  <2>2. PICK fits :
          mpc' = [mpc EXCEPT !.calls = (mpc.calls \ {c}) \union {sent},
            !.shares = mpc.shares \union [from : {c.node}, to : Nodes, id : {c.id}, fits : fits]]
    BY <1>1, <1>2 DEF Proofs!Dispatch, sent
  <2>3. \A m \in [from : {c.node}, to : Nodes, id : {c.id}, fits : fits] : SoundShare(m)
    BY <1>1 DEF SoundCall, SoundShare
  <2>4. /\ ProofKept /\ mpc'.calls = (mpc.calls \ {c}) \union {sent}
        /\ mpc'.shares = mpc.shares \union [from : {c.node}, to : Nodes, id : {c.id}, fits : fits]
    BY <1>1, <2>2
  <2>5. (\A d \in mpc'.calls : SoundCall(d)) /\ (\A m \in mpc'.shares : SoundShare(m))
    BY <2>1, <2>3, <2>4 DEF ProofInv
  <2> HIDE DEF ProofKept
  <2>6. QED BY <2>4, <2>5, ProofStays
<1>3. CASE Proofs!CallLost(c) \/ \E answered : Proofs!Prepare(c, answered) \/ Proofs!Dispatched(c, answered)
  <2>1. ProofKept /\ mpc'.calls = mpc.calls \ {c} /\ mpc'.shares = mpc.shares
    <3>1. CASE Proofs!CallLost(c)
      BY <1>1, <3>1 DEF Proofs!CallLost
    <3>2. CASE \E answered : Proofs!Prepare(c, answered)
      BY <1>1, <3>2 DEF Proofs!Prepare
    <3>3. CASE \E answered : Proofs!Dispatched(c, answered)
      BY <1>1, <3>3 DEF Proofs!Dispatched
    <3>4. QED BY <1>3, <3>1, <3>2, <3>3
  <2>2. (\A d \in mpc'.calls : SoundCall(d)) /\ (\A m \in mpc'.shares : SoundShare(m))
    BY <2>1 DEF ProofInv
  <2> HIDE DEF ProofKept
  <2>3. QED BY <2>1, <2>2, ProofStays
<1>4. QED BY <1>2, <1>3

(* A call that is tried again is a call to the same node. *)
LEMMA ProofRetried ==
  ASSUME NEW c, SoundCall(c), NEW d \in Proofs!Retried(c) PROVE SoundCall(d)
BY DEF Proofs!Retried, SoundCall

LEMMA ProofNotGenerated == ASSUME ProofInv, NEW c \in mpc.calls, Proofs!GenerateFails(c) PROVE ProofInv'
<1>1. SoundCall(c) /\ ProofTypes
  BY DEF ProofInv
<1>2. PICK calls \in {mpc.calls \ {c}, (mpc.calls \ {c}) \union Proofs!Retried(c)} :
        mpc' = [mpc EXCEPT !.calls = calls]
  BY <1>1 DEF Proofs!GenerateFails, ProofTypes, ProofFields
<1>3. ProofKept /\ mpc'.calls = calls /\ mpc'.shares = mpc.shares
  BY <1>1, <1>2 DEF ProofKept, ProofTypes, ProofFields
<1>4. \A d \in mpc'.calls : SoundCall(d)
  BY <1>1, <1>2, <1>3, ProofRetried DEF ProofInv
<1>5. \A m \in mpc'.shares : SoundShare(m)
  BY <1>3 DEF ProofInv
<1>6. QED BY <1>3, <1>4, <1>5, ProofStays

(* One session of one node becomes s. *)
ProofSession(n, i, s) ==
  /\ DOMAIN mpc' = DOMAIN mpc /\ mpc'.last = mpc.last /\ mpc'.request = mpc.request
  /\ n \in Nodes /\ i \in Proofs!Ids
  /\ mpc'.session = [mpc.session EXCEPT ![n] = [mpc.session[n] EXCEPT ![i] = s]]

LEMMA ProofSessionSet ==
  ASSUME ProofInv, NEW n, NEW i, NEW s, ProofSession(n, i, s), SoundSession(s),
         \A c \in mpc'.calls : SoundCall(c), \A m \in mpc'.shares : SoundShare(m),
         \A task \in mpc'.tasks : SoundTask(task)
  PROVE  ProofInv'
<1>1. ProofTypes'
  BY ZenonT(30) DEF ProofInv, ProofTypes, ProofSession
<1>2. \A m \in Nodes, k \in Proofs!Ids :
        mpc'.session[m][k] = s \/ mpc'.session[m][k] = mpc.session[m][k]
  <2> SUFFICES ASSUME NEW m \in Nodes, NEW k \in Proofs!Ids
               PROVE  mpc'.session[m][k] = s \/ mpc'.session[m][k] = mpc.session[m][k]
    OBVIOUS
  <2>1. CASE m = n
    <3>1. mpc'.session[m] = [mpc.session[m] EXCEPT ![i] = s]
      BY <2>1 DEF ProofInv, ProofTypes, ProofSession
    <3>2. DOMAIN mpc.session[m] = Proofs!Ids
      BY DEF ProofInv, ProofTypes
    <3>3. QED BY <3>1, <3>2
  <2>2. CASE m # n
    BY <2>2 DEF ProofInv, ProofTypes, ProofSession
  <2>3. QED BY <2>1, <2>2
<1>3. QED BY <1>1, <1>2 DEF ProofInv

LEMMA ProofReceived == ASSUME ProofInv, NEW m \in mpc.shares, Proofs!ReceiveShare(m) PROVE ProofInv'
<1> DEFINE old == mpc.session[m.to][m.id]
           fragments == {f \in old.fragments : f.source # m.from} \union {[source |-> m.from, fits |-> m.fits]}
           s == [old EXCEPT !.status = "shares", !.fragments = fragments]
<1>1. m.from \in Nodes /\ m.to \in Nodes /\ m.id \in Proofs!Ids /\ ProofTypes
  BY DEF ProofInv, SoundShare
<1>2. SoundSession(old)
  BY <1>1 DEF ProofInv
<1>3. OnePerNode(fragments)
  BY <1>1, <1>2 DEF SoundSession, OnePerNode
<1> HIDE DEF fragments
<1>4. SoundSession(s)
  BY <1>2, <1>3 DEF SoundSession
<1>5. /\ DOMAIN mpc' = DOMAIN mpc /\ mpc'.last = mpc.last /\ mpc'.request = mpc.request
      /\ mpc'.tasks = mpc.tasks /\ mpc'.calls = mpc.calls /\ mpc'.shares = mpc.shares \ {m}
      /\ mpc'.session = [mpc.session EXCEPT ![m.to] = [mpc.session[m.to] EXCEPT ![m.id] = s]]
  BY <1>1, <1>2, ZenonT(30) DEF Proofs!ReceiveShare, ProofTypes, ProofFields, SoundSession, fragments
<1> HIDE DEF s
<1>6. ProofSession(m.to, m.id, s)
  BY <1>1, <1>5 DEF ProofSession
<1>7. /\ \A c \in mpc'.calls : SoundCall(c)
      /\ \A x \in mpc'.shares : SoundShare(x)
      /\ \A task \in mpc'.tasks : SoundTask(task)
  BY <1>5 DEF ProofInv
<1>8. QED BY <1>4, <1>6, <1>7, ProofSessionSet

LEMMA ProofGenerated ==
  ASSUME ProofInv, NEW c \in mpc.calls, NEW answered, Proofs!Generate(c, answered)
  PROVE  ProofInv'
<1> DEFINE old == mpc.session[c.node][c.id]
           s == [old EXCEPT !.status = "running"]
           task == [node |-> c.node, id |-> c.id, input |-> old.fragments]
           made == Proofs!Generating(c)
           calls == IF answered THEN mpc.calls \ {c} ELSE (mpc.calls \ {c}) \union Proofs!Retried(c)
<1>1. c.node \in Nodes /\ c.id \in Proofs!Ids /\ ProofTypes /\ SoundCall(c)
  BY DEF ProofInv, SoundCall
<1>2. SoundSession(old)
  BY <1>1 DEF ProofInv
<1>3. SoundSession(s) /\ SoundTask(task)
  BY <1>1, <1>2 DEF SoundSession, SoundTask
<1>4. /\ DOMAIN made = DOMAIN mpc /\ made.last = mpc.last /\ made.request = mpc.request
      /\ made.tasks = mpc.tasks \union {task} /\ made.calls = mpc.calls /\ made.shares = mpc.shares
      /\ made.answered = mpc.answered
      /\ made.session = [mpc.session EXCEPT ![c.node] = [mpc.session[c.node] EXCEPT ![c.id] = s]]
  BY <1>1, <1>2 DEF Proofs!Generating, ProofTypes, ProofFields, SoundSession
<1> HIDE DEF s, task, made, old
<1>5. PICK heard : mpc' = [made EXCEPT !.calls = calls, !.answered = heard]
  BY <1>1, <1>4 DEF Proofs!Generate, made, ProofTypes, ProofFields
<1> HIDE DEF calls
<1>6. /\ DOMAIN mpc' = DOMAIN mpc /\ mpc'.last = mpc.last /\ mpc'.request = mpc.request
      /\ mpc'.tasks = mpc.tasks \union {task} /\ mpc'.calls = calls /\ mpc'.shares = mpc.shares
      /\ mpc'.session = [mpc.session EXCEPT ![c.node] = [mpc.session[c.node] EXCEPT ![c.id] = s]]
  BY <1>1, <1>4, <1>5 DEF ProofTypes, ProofFields
<1>7. ProofSession(c.node, c.id, s)
  BY <1>1, <1>6 DEF ProofSession
<1>8. \A d \in calls : SoundCall(d)
  BY <1>1, ProofRetried DEF ProofInv, calls
<1>9. /\ \A d \in mpc'.calls : SoundCall(d)
      /\ \A x \in mpc'.shares : SoundShare(x)
      /\ \A t \in mpc'.tasks : SoundTask(t)
  BY <1>3, <1>6, <1>8 DEF ProofInv
<1>10. QED BY <1>3, <1>7, <1>9, ProofSessionSet

LEMMA ProofTaskEnds ==
  ASSUME ProofConstants, ProofInv, NEW task \in mpc.tasks, Proofs!Finish(task) \/ Proofs!Fail(task)
  PROVE  ProofInv'
<1> DEFINE old == mpc.session[task.node][task.id]
           done == [old EXCEPT !.status = "complete", !.used = task.input]
           failed == [old EXCEPT !.status = "failed"]
<1>1. task.node \in Nodes /\ task.id \in Proofs!Ids /\ ProofTypes /\ OnePerNode(task.input)
  BY DEF ProofInv, SoundTask
<1>2. SoundSession(old)
  BY <1>1 DEF ProofInv
<1>3. SoundSession(failed)
  BY <1>2 DEF SoundSession
<1>4. ASSUME Proofs!Finish(task) PROVE SoundSession(done)
  <2>1. Cardinality(task.input) = Cardinality(Nodes) /\ \A f \in task.input : f.fits
    BY <1>4, ProofsCardinality DEF Proofs!Finish, Proofs!RunProofGeneration
  <2>2. WholeProof(task.input)
    BY <1>1, <2>1, FragmentsWhole DEF WholeProof
  <2>3. QED BY <1>2, <2>2 DEF SoundSession
<1>5. PICK s :
        /\ SoundSession(s)
        /\ DOMAIN mpc' = DOMAIN mpc /\ mpc'.last = mpc.last /\ mpc'.request = mpc.request
        /\ mpc'.tasks = mpc.tasks \ {task} /\ mpc'.calls = mpc.calls /\ mpc'.shares = mpc.shares
        /\ mpc'.session = [mpc.session EXCEPT ![task.node] = [mpc.session[task.node] EXCEPT ![task.id] = s]]
  <2>1. CASE Proofs!Finish(task)
    <3>1. /\ DOMAIN mpc' = DOMAIN mpc /\ mpc'.last = mpc.last /\ mpc'.request = mpc.request
          /\ mpc'.tasks = mpc.tasks \ {task} /\ mpc'.calls = mpc.calls /\ mpc'.shares = mpc.shares
          /\ mpc'.session = [mpc.session EXCEPT ![task.node] = [mpc.session[task.node] EXCEPT ![task.id] = done]]
      BY <1>1, <1>2, <2>1, ZenonT(30) DEF Proofs!Finish, ProofTypes, ProofFields, SoundSession
    <3>2. QED BY <1>4, <2>1, <3>1
  <2>2. CASE Proofs!Fail(task)
    <3>1. /\ DOMAIN mpc' = DOMAIN mpc /\ mpc'.last = mpc.last /\ mpc'.request = mpc.request
          /\ mpc'.tasks = mpc.tasks \ {task} /\ mpc'.calls = mpc.calls /\ mpc'.shares = mpc.shares
          /\ mpc'.session = [mpc.session EXCEPT ![task.node] = [mpc.session[task.node] EXCEPT ![task.id] = failed]]
      BY <1>1, <1>2, <2>2 DEF Proofs!Fail, ProofTypes, ProofFields, SoundSession
    <3>2. QED BY <1>3, <3>1
  <2>3. QED BY <2>1, <2>2
<1>6. ProofSession(task.node, task.id, s)
  BY <1>1, <1>5 DEF ProofSession
<1>7. /\ \A c \in mpc'.calls : SoundCall(c)
      /\ \A x \in mpc'.shares : SoundShare(x)
      /\ \A t \in mpc'.tasks : SoundTask(t)
  BY <1>5 DEF ProofInv
<1>8. QED BY <1>5, <1>6, <1>7, ProofSessionSet

LEMMA ProofRestarted == ASSUME ProofInv, NEW n \in Nodes, Proofs!RestartNode(n) PROVE ProofInv'
<1> DEFINE s == Proofs!NoSession
<1>1. ProofTypes
  BY DEF ProofInv
<1>2. /\ DOMAIN mpc' = DOMAIN mpc /\ mpc'.last = mpc.last /\ mpc'.request = mpc.request
      /\ mpc'.tasks \subseteq mpc.tasks /\ mpc'.calls \subseteq mpc.calls /\ mpc'.shares = mpc.shares
      /\ mpc'.session = [mpc.session EXCEPT ![n] = [i \in Proofs!Ids |-> s]]
  BY <1>1 DEF Proofs!RestartNode, ProofTypes, ProofFields
<1>3. SoundSession(s)
  BY DEF SoundSession, OnePerNode, Proofs!NoSession
<1> HIDE DEF s
<1>4. ProofTypes'
  BY <1>1, <1>2 DEF ProofTypes
<1>5. \A m \in Nodes, k \in Proofs!Ids :
        mpc'.session[m][k] = IF m = n THEN s ELSE mpc.session[m][k]
  BY <1>1, <1>2 DEF ProofTypes
<1>6. \A m \in Nodes, k \in Proofs!Ids : SoundSession(mpc'.session[m][k])
  BY <1>3, <1>5 DEF ProofInv
<1>7. QED BY <1>2, <1>4, <1>6 DEF ProofInv

LEMMA ProofOthers ==
  ASSUME ProofInv,
         \/ \E m \in mpc.shares : Proofs!ShareFails(m)
         \/ \E n \in Nodes, b \in BOOLEAN : Proofs!SetDraining(n, b)
         \/ \E n \in Nodes, reached \in SUBSET Nodes : Proofs!Refresh(n, reached)
         \/ mpc' = mpc
  PROVE  ProofInv'
<1>1. ProofKept /\ mpc'.calls \subseteq mpc.calls /\ mpc'.shares \subseteq mpc.shares
  BY DEF Proofs!ShareFails, Proofs!SetDraining, Proofs!Refresh, ProofInv, ProofTypes, ProofFields, ProofKept
<1>2. (\A c \in mpc'.calls : SoundCall(c)) /\ (\A m \in mpc'.shares : SoundShare(m))
  BY <1>1 DEF ProofInv
<1>3. QED BY <1>1, <1>2, ProofStays

LEMMA ProofStep == ASSUME ProofConstants, ProofInv, [Proofs!Next]_mpc PROVE ProofInv'
<1>1. CASE \E kind : Proofs!Begin(kind)
  BY <1>1, ProofBegun
<1>2. CASE Proofs!NextStage \/ Proofs!CollectProof \/ Proofs!RequestFails
  BY <1>2, ProofStaged, ProofEnded
<1>3. CASE \E c \in mpc.calls :
             \/ Proofs!CallLost(c) \/ Proofs!Dispatch(c) \/ Proofs!GenerateFails(c)
             \/ \E answered \in BOOLEAN :
                  Proofs!Prepare(c, answered) \/ Proofs!Dispatched(c, answered) \/ Proofs!Generate(c, answered)
  BY <1>3, ProofSent, ProofNotGenerated, ProofGenerated
<1>4. CASE \E m \in mpc.shares : Proofs!ReceiveShare(m)
  BY <1>4, ProofReceived
<1>5. CASE \E task \in mpc.tasks : Proofs!Finish(task) \/ Proofs!Fail(task)
  BY <1>5, ProofTaskEnds
<1>6. CASE \E n \in Nodes : Proofs!RestartNode(n)
  BY <1>6, ProofRestarted
<1>7. QED BY <1>1, <1>2, <1>3, <1>4, <1>5, <1>6, ProofOthers DEF Proofs!Next

(* ProofsWhole of the proof sessions: a finished proof was put together from one
   fragment of every node, all of the deck that was committed, after any lost, repeated or
   late calls and restarts of nodes. *)
THEOREM ProofsStayWhole == ASSUME ProofConstants PROVE Proofs!Spec => []Proofs!ProofsWhole
<1>1. Proofs!Init => ProofInv
  BY ProofInit
<1>2. ProofInv /\ [Proofs!Next]_mpc => ProofInv'
  BY ProofStep
<1>3. ProofInv => Proofs!ProofsWhole
  BY DEF ProofInv, SoundSession, WholeProof, Proofs!ProofsWhole
<1>4. QED BY <1>1, <1>2, <1>3, PTL DEF Proofs!Spec

-----------------------------------------------------------------------------
(* Gossip between the nodes. *)
Peers == INSTANCE Gossip

GossipConstants == SuspicionTimeout \in Nat

(* A record of a peer whose failed probes date from F ticks ago. *)
Grounded(r, F) ==
  \/ r = Peers!NoPeer
  \/ /\ {"state", "version", "age"} \subseteq DOMAIN r
     /\ r.version \in Nat /\ r.version > 0
     /\ r.age \in 0 .. SuspicionTimeout
     /\ r.state # "unknown"
     /\ r.state = "suspect" => r.age \in F
     /\ r.state = "faulty" => SuspicionTimeout \in F

ViewsGrounded(t, failed) == t = [p \in Nodes |-> t[p]] /\ \A p \in Nodes : Grounded(t[p], failed[p])

TablesSound(table, failed) ==
  /\ table = [n \in Nodes |-> table[n]]
  /\ \A n \in Nodes : ViewsGrounded(table[n], failed) /\ table[n][n] = Peers!NoPeer

MessageSound(m, failed) ==
  /\ {"kind", "from", "to", "body"} \subseteq DOMAIN m
  /\ m.from \in Nodes /\ m.to \in Nodes
  /\ m.kind # "digest" => ViewsGrounded(m.body, failed)

MailSound(mail, failed) == \A m \in mail : MessageSound(m, failed)

GossipInv ==
  /\ {"table", "mail", "failed"} \subseteq DOMAIN gossip
  /\ gossip.failed = [p \in Nodes |-> gossip.failed[p]]
  /\ TablesSound(gossip.table, gossip.failed)
  /\ MailSound(gossip.mail, gossip.failed)

LEMMA NoPeerIs == /\ Peers!NoPeer.state = "unknown" /\ Peers!NoPeer.version = 0
                  /\ \A F : Grounded(Peers!NoPeer, F)
BY DEF Peers!NoPeer, Grounded

LEMMA GossipStart == ASSUME Peers!Init PROVE GossipInv
<1>1. \A n \in Nodes : /\ gossip.table[n] = [p \in Nodes |-> Peers!NoPeer]
  BY DEF Peers!Init
<1>2. gossip.mail = {} /\ gossip.table = [n \in Nodes |-> [p \in Nodes |-> Peers!NoPeer]]
  BY DEF Peers!Init
<1>3. /\ {"table", "mail", "failed"} \subseteq DOMAIN gossip
      /\ gossip.failed = [p \in Nodes |-> gossip.failed[p]]
  BY DEF Peers!Init
<1>4. TablesSound(gossip.table, gossip.failed)
  BY <1>1, <1>2, NoPeerIs DEF TablesSound, ViewsGrounded
<1>5. QED BY <1>2, <1>3, <1>4 DEF GossipInv, MailSound

(* Failed probes are remembered: what was grounded stays so. *)
LEMMA GroundedMore ==
  ASSUME NEW F, NEW G, \A p \in Nodes : F[p] \subseteq G[p]
  PROVE  /\ \A r, p : p \in Nodes /\ Grounded(r, F[p]) => Grounded(r, G[p])
         /\ \A t : ViewsGrounded(t, F) => ViewsGrounded(t, G)
         /\ \A m : MessageSound(m, F) => MessageSound(m, G)
<1>1. ASSUME NEW r, NEW p \in Nodes, Grounded(r, F[p]) PROVE Grounded(r, G[p])
  BY <1>1 DEF Grounded
<1>2. ASSUME NEW t, ViewsGrounded(t, F) PROVE ViewsGrounded(t, G)
  BY <1>1, <1>2 DEF ViewsGrounded
<1>3. ASSUME NEW m, MessageSound(m, F) PROVE MessageSound(m, G)
  BY <1>2, <1>3 DEF MessageSound
<1>4. QED BY <1>1, <1>2, <1>3

(* The step of a view: what ViewsAdvance allows of one record. *)
Advances(was, is) == \/ is.version > was.version
                     \/ is.version = was.version /\ is.state = was.state

(* One node's view of one peer changes. *)
LEMMA ViewChanges ==
  ASSUME GossipInv, NEW n \in Nodes, NEW p \in Nodes, NEW r, NEW failed,
         DOMAIN gossip' = DOMAIN gossip, gossip'.mail = gossip.mail,
         gossip'.failed = failed, failed = [q \in Nodes |-> failed[q]],
         \A q \in Nodes : gossip.failed[q] \subseteq failed[q],
         gossip'.table = [gossip.table EXCEPT ![n][p] = r],
         Grounded(r, failed[p]), Advances(gossip.table[n][p], r), p = n => r = Peers!NoPeer
  PROVE  GossipInv' /\ Peers!ViewsAdvance
<1> DEFINE T == gossip.table
           U == gossip'.table
<1>1. /\ T = [k \in Nodes |-> T[k]] /\ U = [T EXCEPT ![n][p] = r]
      /\ \A k \in Nodes : T[k] = [q \in Nodes |-> T[k][q]]
  BY DEF GossipInv, TablesSound, ViewsGrounded
<1> HIDE DEF T, U
<1>2. U = [k \in Nodes |-> U[k]] /\ \A k \in Nodes : U[k] = IF k = n THEN [T[n] EXCEPT ![p] = r] ELSE T[k]
  <2>1. DOMAIN T = Nodes
    BY <1>1
  <2>2. QED BY <1>1, <2>1
<1>3. \A k \in Nodes : \A q \in Nodes : U[k][q] = IF k = n /\ q = p THEN r ELSE T[k][q]
  BY <1>1, <1>2
<1>4. \A k \in Nodes : U[k] = [q \in Nodes |-> U[k][q]]
  <2>1. ASSUME NEW k \in Nodes PROVE U[k] = [q \in Nodes |-> U[k][q]]
    <3>1. CASE k = n
      <4>1. U[k] = [T[n] EXCEPT ![p] = r] /\ T[n] = [q \in Nodes |-> T[n][q]]
        BY <1>1, <1>2, <3>1
      <4>2. QED BY <4>1
    <3>2. CASE k # n
      <4>1. U[k] = T[k] /\ T[k] = [q \in Nodes |-> T[k][q]]
        BY <1>1, <1>2, <3>2
      <4>2. QED BY <4>1
    <3>3. QED BY <3>1, <3>2
  <2>2. QED BY <2>1
<1>5. \A k \in Nodes : \A q \in Nodes :
        gossip'.table[k][q] = IF k = n /\ q = p THEN r ELSE gossip.table[k][q]
  BY <1>3 DEF T, U
<1>6. gossip'.table = [k \in Nodes |-> gossip'.table[k]]
  BY <1>2 DEF U
<1>7. \A k \in Nodes : gossip'.table[k] = [q \in Nodes |-> gossip'.table[k][q]]
  BY <1>4 DEF U
<1>8. \A k, q \in Nodes : Grounded(gossip.table[k][q], failed[q])
  <2>1. \A k \in Nodes : ViewsGrounded(gossip.table[k], gossip.failed)
    BY DEF GossipInv, TablesSound
  <2>2. \A k \in Nodes : ViewsGrounded(gossip.table[k], failed)
    BY <2>1, GroundedMore
  <2>3. QED BY <2>2 DEF ViewsGrounded
<1>9. \A k, q \in Nodes : Grounded(gossip'.table[k][q], failed[q])
  BY <1>5, <1>8
<1>10. \A k \in Nodes : gossip'.table[k][k] = Peers!NoPeer
  BY <1>5 DEF GossipInv, TablesSound
<1>11. TablesSound(gossip'.table, failed)
  BY <1>6, <1>7, <1>9, <1>10 DEF TablesSound, ViewsGrounded
<1>12. MailSound(gossip.mail, failed)
  BY GroundedMore DEF GossipInv, MailSound
<1>13. GossipInv'
  BY <1>11, <1>12 DEF GossipInv
<1>14. \A k, q \in Nodes : Advances(gossip.table[k][q], gossip'.table[k][q])
  BY <1>5 DEF Advances
<1>15. QED BY <1>13, <1>14 DEF Peers!ViewsAdvance, Advances

LEMMA Known ==
  ASSUME GossipInv, NEW n \in Nodes, NEW p \in Nodes
  PROVE  LET r == gossip.table[n][p] IN
         /\ Grounded(r, gossip.failed[p])
         /\ p = n => r = Peers!NoPeer
         /\ r # Peers!NoPeer =>
              /\ {"state", "version", "age"} \subseteq DOMAIN r
              /\ r.version \in Nat /\ r.version > 0 /\ r.age \in 0 .. SuspicionTimeout
         /\ r.version \in Nat
<1> DEFINE r == gossip.table[n][p]
<1>1. Grounded(r, gossip.failed[p])
  BY DEF GossipInv, TablesSound, ViewsGrounded
<1>2. p = n => r = Peers!NoPeer
  BY DEF GossipInv, TablesSound
<1> HIDE DEF r
<1>3. r # Peers!NoPeer =>
        /\ {"state", "version", "age"} \subseteq DOMAIN r
        /\ r.version \in Nat /\ r.version > 0 /\ r.age \in 0 .. SuspicionTimeout
  BY <1>1 DEF Grounded
<1>4. r.version \in Nat
  BY <1>3, NoPeerIs
<1>5. QED BY <1>1, <1>2, <1>3, <1>4 DEF r

LEMMA ProbesKept ==
  ASSUME GossipConstants, GossipInv, NEW n \in Nodes, NEW p \in Nodes,
         \/ Peers!Seed(n, p) \/ Peers!MarkAlive(n, p)
         \/ Peers!MarkSuspect(n, p) \/ Peers!MarkLeft(n, p)
  PROVE  GossipInv' /\ Peers!ViewsAdvance
<1> DEFINE r == gossip.table[n][p]
<1>1. /\ Grounded(r, gossip.failed[p])
      /\ p = n => r = Peers!NoPeer
      /\ r # Peers!NoPeer => r.version \in Nat /\ r.version > 0
      /\ r.version \in Nat
  BY Known
<1>2. gossip.failed = [q \in Nodes |-> gossip.failed[q]] /\ "table" \in DOMAIN gossip
  BY DEF GossipInv
<1>3. 0 \in 0 .. SuspicionTimeout
  BY DEF GossipConstants
<1> HIDE DEF r
<1>4. CASE Peers!Seed(n, p)
  <2> DEFINE new == Peers!NewPeer
  <2>1. /\ p # n /\ r = Peers!NoPeer
        /\ DOMAIN gossip' = DOMAIN gossip /\ gossip'.mail = gossip.mail
        /\ gossip'.failed = gossip.failed
        /\ gossip'.table = [gossip.table EXCEPT ![n][p] = new]
    BY <1>2, <1>4 DEF Peers!Seed, Peers!Knows, r
  <2>2. Grounded(new, gossip.failed[p])
    BY <1>3 DEF Peers!NewPeer, Grounded
  <2>3. new.version = 1
    BY DEF Peers!NewPeer
  <2> HIDE DEF new
  <2>4. Advances(gossip.table[n][p], new)
    BY <2>1, <2>3, NoPeerIs DEF Advances, r
  <2>5. QED BY <1>2, <2>1, <2>2, <2>4, ViewChanges
<1>5. CASE Peers!MarkAlive(n, p)
  <2> DEFINE version == IF r.state = "alive" THEN r.version ELSE r.version + 1
             new == [state |-> "alive", version |-> version, age |-> 0]
  <2>1. /\ r # Peers!NoPeer
        /\ DOMAIN gossip' = DOMAIN gossip /\ gossip'.mail = gossip.mail
        /\ gossip'.failed = gossip.failed
        /\ gossip'.table = [gossip.table EXCEPT ![n][p] = new]
    BY <1>2, <1>5 DEF Peers!MarkAlive, Peers!Knows, r
  <2>2. version \in Nat /\ version > 0
    BY <1>1, <2>1
  <2>3. Grounded(new, gossip.failed[p])
    <3> HIDE DEF version
    <3>1. QED BY <1>3, <2>2 DEF Grounded
  <2>4. new.version = version /\ new.state = "alive"
    <3> HIDE DEF version
    <3>1. QED OBVIOUS
  <2>5. version > r.version \/ (version = r.version /\ r.state = "alive")
    BY <1>1
  <2> HIDE DEF new, version
  <2>6. Advances(gossip.table[n][p], new)
    BY <2>4, <2>5 DEF Advances, r
  <2>7. p # n
    BY <1>1, <2>1
  <2>8. QED BY <1>2, <2>1, <2>3, <2>6, <2>7, ViewChanges
<1>6. CASE Peers!MarkSuspect(n, p)
  <2> DEFINE new == [state |-> "suspect", age |-> 0, version |-> r.version + 1]
             failed == [gossip.failed EXCEPT ![p] = @ \cup {0}]
  <2>1. /\ r # Peers!NoPeer
        /\ DOMAIN gossip' = DOMAIN gossip /\ gossip'.mail = gossip.mail
        /\ gossip'.failed = failed
        /\ gossip'.table = [gossip.table EXCEPT ![n][p] = new]
    BY <1>2, <1>6, NoPeerIs DEF Peers!MarkSuspect, GossipInv, r
  <2>2. /\ failed = [q \in Nodes |-> failed[q]] /\ 0 \in failed[p]
        /\ \A q \in Nodes : gossip.failed[q] \subseteq failed[q]
    BY <1>2
  <2>3. new.version > r.version /\ new.version \in Nat /\ new.version > 0
    BY <1>1, <2>1
  <2>4. Grounded(new, failed[p])
    <3> HIDE DEF failed
    <3>1. QED BY <1>3, <2>2, <2>3 DEF Grounded
  <2> HIDE DEF new, failed
  <2>5. Advances(gossip.table[n][p], new)
    BY <2>3 DEF Advances, r
  <2>6. p # n
    BY <1>1, <2>1
  <2>7. QED BY <2>1, <2>2, <2>4, <2>5, <2>6, ViewChanges
<1>7. CASE Peers!MarkLeft(n, p)
  <2> DEFINE new == [state |-> "left", age |-> 0, version |-> r.version + 1]
  <2>1. /\ r # Peers!NoPeer
        /\ DOMAIN gossip' = DOMAIN gossip /\ gossip'.mail = gossip.mail
        /\ gossip'.failed = gossip.failed
        /\ gossip'.table = [gossip.table EXCEPT ![n][p] = new]
    BY <1>2, <1>7 DEF Peers!MarkLeft, Peers!Knows, r
  <2>2. new.version > r.version /\ new.version \in Nat /\ new.version > 0
    BY <1>1, <2>1
  <2>3. Grounded(new, gossip.failed[p])
    BY <1>3, <2>2 DEF Grounded
  <2> HIDE DEF new
  <2>4. Advances(gossip.table[n][p], new)
    BY <2>2 DEF Advances, r
  <2>5. r # Peers!NoPeer /\ p # n
    BY <1>1, <1>7 DEF Peers!MarkLeft, Peers!Knows, r
  <2>6. QED BY <1>2, <2>1, <2>3, <2>4, <2>5, ViewChanges
<1>8. QED BY <1>4, <1>5, <1>6, <1>7

(* A node's whole table changes. *)
LEMMA TableChanges ==
  ASSUME GossipInv, NEW n \in Nodes, NEW t,
         DOMAIN gossip' = DOMAIN gossip, gossip'.failed = gossip.failed,
         gossip'.table = [gossip.table EXCEPT ![n] = t],
         ViewsGrounded(t, gossip.failed), t[n] = Peers!NoPeer,
         MailSound(gossip'.mail, gossip.failed),
         \/ \A p \in Nodes : t[p] = Peers!NoPeer
         \/ \A p \in Nodes : Advances(gossip.table[n][p], t[p])
  PROVE  GossipInv' /\ Peers!ViewsAdvance
<1>1. \A k \in Nodes : gossip'.table[k] = IF k = n THEN t ELSE gossip.table[k]
  BY DEF GossipInv, TablesSound
<1>2. gossip'.table = [k \in Nodes |-> gossip'.table[k]]
  BY DEF GossipInv, TablesSound
<1>3. TablesSound(gossip'.table, gossip.failed)
  BY <1>1, <1>2 DEF GossipInv, TablesSound
<1>4. GossipInv'
  BY <1>3 DEF GossipInv
<1>5. \A k \in Nodes : \/ \A p \in Nodes : gossip'.table[k][p] = Peers!NoPeer
                       \/ \A p \in Nodes : Advances(gossip.table[k][p], gossip'.table[k][p])
  <2>1. ASSUME NEW k \in Nodes, k # n
        PROVE  \A p \in Nodes : Advances(gossip.table[k][p], gossip'.table[k][p])
    BY <1>1, <2>1 DEF Advances
  <2>2. QED BY <1>1, <2>1
<1>6. QED BY <1>4, <1>5 DEF Peers!ViewsAdvance, Advances

LEMMA SuspectsExpire ==
  ASSUME GossipConstants, GossipInv, NEW n \in Nodes, Peers!ExpireSuspects(n)
  PROVE  GossipInv' /\ Peers!ViewsAdvance
<1> DEFINE t == gossip.table[n]
           over(p) == [t[p] EXCEPT !.state = "faulty", !.version = @ + 1]
           u == [p \in Nodes |-> IF Peers!Expired(t[p]) THEN over(p) ELSE t[p]]
<1>1. /\ DOMAIN gossip' = DOMAIN gossip /\ gossip'.failed = gossip.failed
      /\ gossip'.mail = gossip.mail /\ gossip'.table = [gossip.table EXCEPT ![n] = u]
  BY DEF GossipInv, Peers!ExpireSuspects
<1>2. ASSUME NEW p \in Nodes
      PROVE  Grounded(u[p], gossip.failed[p]) /\ Advances(t[p], u[p])
             /\ (p = n => u[p] = Peers!NoPeer)
  <2>1. CASE Peers!Expired(t[p])
    <3>1. t[p].state = "suspect" /\ t[p].age >= SuspicionTimeout /\ t[p] # Peers!NoPeer
      BY <2>1, NoPeerIs DEF Peers!Expired
    <3>2. /\ {"state", "version", "age"} \subseteq DOMAIN t[p] /\ p # n
          /\ t[p].version \in Nat /\ t[p].version > 0 /\ t[p].age \in 0 .. SuspicionTimeout
          /\ t[p].age \in gossip.failed[p]
      BY <3>1, Known DEF Grounded
    <3>3. t[p].age = SuspicionTimeout
      BY <3>1, <3>2 DEF GossipConstants
    <3>4. u[p] = over(p)
      BY <2>1
    <3>5. /\ {"state", "version", "age"} \subseteq DOMAIN over(p)
          /\ over(p).state = "faulty" /\ over(p).version = t[p].version + 1
          /\ over(p).age = t[p].age
      BY <3>2
    <3> HIDE DEF over, u, t
    <3>6. QED BY <3>2, <3>3, <3>4, <3>5 DEF Grounded, Advances
  <2>2. CASE ~ Peers!Expired(t[p])
    <3>1. u[p] = t[p]
      BY <2>2
    <3> HIDE DEF u
    <3>2. Grounded(t[p], gossip.failed[p]) /\ (p = n => t[p] = Peers!NoPeer)
      BY Known
    <3>3. QED BY <3>1, <3>2 DEF Advances
  <2>3. QED BY <2>1, <2>2
<1>3. u = [p \in Nodes |-> u[p]]
  OBVIOUS
<1> HIDE DEF u, over
<1>4. ViewsGrounded(u, gossip.failed)
  BY <1>2, <1>3 DEF ViewsGrounded
<1>5. MailSound(gossip'.mail, gossip.failed)
  BY <1>1 DEF GossipInv
<1>6. QED BY <1>1, <1>2, <1>4, <1>5, TableChanges

LEMMA NodeForgets ==
  ASSUME GossipInv, NEW n \in Nodes, Peers!Restart(n) PROVE GossipInv' /\ Peers!ViewsAdvance
<1> DEFINE u == [p \in Nodes |-> Peers!NoPeer]
<1>1. /\ DOMAIN gossip' = DOMAIN gossip /\ gossip'.failed = gossip.failed
      /\ gossip'.mail = gossip.mail /\ gossip'.table = [gossip.table EXCEPT ![n] = u]
  BY DEF GossipInv, Peers!Restart
<1>2. ViewsGrounded(u, gossip.failed) /\ \A p \in Nodes : u[p] = Peers!NoPeer
  BY NoPeerIs DEF ViewsGrounded
<1> HIDE DEF u
<1>3. MailSound(gossip'.mail, gossip.failed)
  BY <1>1 DEF GossipInv
<1>4. QED BY <1>1, <1>2, <1>3, TableChanges

LEMMA RecordsMerged ==
  ASSUME GossipConstants, GossipInv, NEW m, Peers!MergeAll(m)
  PROVE  GossipInv' /\ Peers!ViewsAdvance
<1> DEFINE n == m.to
           t == gossip.table[n]
           u == [p \in Nodes |-> Peers!Merge(n, p, m.body[p], t[p])]
<1>1. /\ DOMAIN gossip' = DOMAIN gossip /\ gossip'.failed = gossip.failed
      /\ gossip'.mail = gossip.mail \ {m} /\ gossip'.table = [gossip.table EXCEPT ![n] = u]
      /\ m \in gossip.mail /\ m.kind = "records"
  BY DEF GossipInv, Peers!MergeAll
<1>2. n \in Nodes /\ \A p \in Nodes : Grounded(m.body[p], gossip.failed[p])
  BY <1>1 DEF GossipInv, MailSound, MessageSound, ViewsGrounded
<1>3. ASSUME NEW p \in Nodes
      PROVE  /\ Grounded(u[p], gossip.failed[p]) /\ Advances(t[p], u[p])
             /\ p = n => u[p] = Peers!NoPeer
  <2>1. /\ Grounded(t[p], gossip.failed[p]) /\ t[p].version \in Nat
        /\ p = n => t[p] = Peers!NoPeer
    BY <1>2, Known
  <2>2. CASE u[p] = t[p]
    BY <2>1, <2>2 DEF Advances
  <2>3. CASE u[p] # t[p]
    <3>1. /\ p # n /\ u[p] = m.body[p] /\ m.body[p] # Peers!NoPeer
          /\ t[p] = Peers!NoPeer \/ m.body[p].version > t[p].version
      BY <2>3 DEF Peers!Merge, Peers!Supersedes
    <3> HIDE DEF u
    <3>2. m.body[p].version \in Nat /\ m.body[p].version > 0
      BY <1>2, <3>1 DEF Grounded
    <3>3. m.body[p].version > t[p].version
      BY <2>1, <3>1, <3>2, NoPeerIs
    <3>4. QED BY <1>2, <3>1, <3>3 DEF Advances
  <2>4. QED BY <2>2, <2>3
<1>4. u = [p \in Nodes |-> u[p]]
  OBVIOUS
<1> HIDE DEF u
<1>5. ViewsGrounded(u, gossip.failed)
  BY <1>3, <1>4 DEF ViewsGrounded
<1>6. MailSound(gossip'.mail, gossip.failed)
  BY <1>1 DEF GossipInv, MailSound
<1>7. QED BY <1>1, <1>2, <1>3, <1>5, <1>6, TableChanges

(* Only the mail changes. *)
LEMMA MailChanges ==
  ASSUME GossipInv, DOMAIN gossip' = DOMAIN gossip, gossip'.failed = gossip.failed,
         gossip'.table = gossip.table, MailSound(gossip'.mail, gossip.failed)
  PROVE  GossipInv' /\ Peers!ViewsAdvance
BY DEF GossipInv, Peers!ViewsAdvance

LEMMA RoundSent ==
  ASSUME GossipInv, NEW n \in Nodes, NEW seed, Peers!Round(n, seed)
  PROVE  GossipInv' /\ Peers!ViewsAdvance
<1> DEFINE asked == {[kind |-> "digest", from |-> n, to |-> p, body |-> Peers!Digest(n)]
                       : p \in Peers!SelectGossipTargets(n, seed)}
<1>1. /\ DOMAIN gossip' = DOMAIN gossip /\ gossip'.failed = gossip.failed
      /\ gossip'.table = gossip.table /\ gossip'.mail = gossip.mail \cup asked
  BY DEF GossipInv, Peers!Round
<1>2. Peers!SelectGossipTargets(n, seed) \subseteq Nodes
  BY DEF Peers!SelectGossipTargets
<1>3. ASSUME NEW m \in asked PROVE MessageSound(m, gossip.failed)
  <2>1. PICK p \in Nodes :
          m = [kind |-> "digest", from |-> n, to |-> p, body |-> Peers!Digest(n)]
    BY <1>2
  <2>2. QED BY <2>1 DEF MessageSound
<1> HIDE DEF asked
<1>4. MailSound(gossip'.mail, gossip.failed)
  BY <1>1, <1>3 DEF GossipInv, MailSound
<1>5. QED BY <1>1, <1>4, MailChanges

LEMMA DigestAnswered ==
  ASSUME GossipInv, NEW m, Peers!Answer(m) PROVE GossipInv' /\ Peers!ViewsAdvance
<1> DEFINE fresh == Peers!RecordsNewerThan(m.to, m.body)
           a == [kind |-> "records", from |-> m.to, to |-> m.from, body |-> fresh]
           b == [kind |-> "digest", from |-> m.to, to |-> m.from, body |-> Peers!Digest(m.to)]
<1>1. /\ DOMAIN gossip' = DOMAIN gossip /\ gossip'.failed = gossip.failed
      /\ gossip'.table = gossip.table /\ gossip'.mail \subseteq gossip.mail \cup {a, b}
      /\ m \in gossip.mail
  BY DEF GossipInv, Peers!Answer
<1>2. m.to \in Nodes /\ m.from \in Nodes
  BY <1>1 DEF GossipInv, MailSound, MessageSound
<1>3. ViewsGrounded(fresh, gossip.failed)
  <2>1. fresh = [p \in Nodes |-> fresh[p]]
    BY DEF Peers!RecordsNewerThan
  <2>2. \A p \in Nodes : fresh[p] \in {gossip.table[m.to][p], Peers!NoPeer}
    BY DEF Peers!RecordsNewerThan
  <2> HIDE DEF fresh
  <2>3. \A p \in Nodes : Grounded(gossip.table[m.to][p], gossip.failed[p])
    BY <1>2, Known
  <2>4. QED BY <2>1, <2>2, <2>3, NoPeerIs DEF ViewsGrounded
<1> HIDE DEF fresh
<1>4. MessageSound(a, gossip.failed) /\ MessageSound(b, gossip.failed)
  BY <1>2, <1>3 DEF MessageSound
<1> HIDE DEF a, b
<1>5. MailSound(gossip'.mail, gossip.failed)
  BY <1>1, <1>4 DEF GossipInv, MailSound
<1>6. QED BY <1>1, <1>5, MailChanges

LEMMA MailLost ==
  ASSUME GossipInv, NEW m, Peers!Lose(m) PROVE GossipInv' /\ Peers!ViewsAdvance
<1>1. /\ DOMAIN gossip' = DOMAIN gossip /\ gossip'.failed = gossip.failed
      /\ gossip'.table = gossip.table /\ gossip'.mail \subseteq gossip.mail
  BY DEF GossipInv, Peers!Lose
<1>2. MailSound(gossip'.mail, gossip.failed)
  BY <1>1 DEF GossipInv, MailSound
<1>3. QED BY <1>1, <1>2, MailChanges

(* A tick makes records and failed probes older alike. *)
LEMMA GroundedOlder ==
  ASSUME GossipConstants, NEW F, NEW r, Grounded(r, F)
  PROVE  /\ Grounded(Peers!Aged(r), {Peers!Older(a) : a \in F})
         /\ Advances(r, Peers!Aged(r)) /\ (r = Peers!NoPeer => Peers!Aged(r) = Peers!NoPeer)
<1> DEFINE s == Peers!Aged(r)
           x == Peers!Older(r.age)
           G == {Peers!Older(a) : a \in F}
<1>1. CASE r = Peers!NoPeer
  BY <1>1, NoPeerIs DEF Peers!Aged, Advances
<1>2. CASE r # Peers!NoPeer
  <2>1. /\ {"state", "version", "age"} \subseteq DOMAIN r
        /\ r.version \in Nat /\ r.version > 0 /\ r.age \in 0 .. SuspicionTimeout
        /\ r.state # "unknown"
        /\ r.state = "suspect" => r.age \in F
        /\ r.state = "faulty" => SuspicionTimeout \in F
    BY <1>2 DEF Grounded
  <2>2. s = [r EXCEPT !.age = x]
    BY <1>2 DEF Peers!Aged
  <2>3. x \in 0 .. SuspicionTimeout
    BY <2>1 DEF Peers!Older, GossipConstants
  <2>4. Peers!Older(SuspicionTimeout) = SuspicionTimeout
    BY DEF Peers!Older, GossipConstants
  <2>5. /\ r.state = "suspect" => x \in G
        /\ r.state = "faulty" => SuspicionTimeout \in G
    BY <2>1, <2>4
  <2> HIDE DEF x, G
  <2>6. /\ {"state", "version", "age"} \subseteq DOMAIN s
        /\ s.state = r.state /\ s.version = r.version /\ s.age = x
    BY <2>1, <2>2
  <2> HIDE DEF s
  <2>7. Grounded(s, G)
    BY <2>1, <2>3, <2>5, <2>6 DEF Grounded
  <2>8. Advances(r, s)
    BY <2>6 DEF Advances
  <2>9. QED BY <1>2, <2>7, <2>8 DEF s, G
<1>3. QED BY <1>1, <1>2

LEMMA Ticked ==
  ASSUME GossipConstants, GossipInv, Peers!Tick PROVE GossipInv' /\ Peers!ViewsAdvance
<1> DEFINE F == gossip.failed
           G == [p \in Nodes |-> {Peers!Older(a) : a \in F[p]}]
           table == [n \in Nodes |-> [p \in Nodes |-> Peers!Aged(gossip.table[n][p])]]
           older(m) == [m EXCEPT !.body = IF m.kind = "digest" THEN m.body
                                          ELSE [p \in Nodes |-> Peers!Aged(m.body[p])]]
<1>1. /\ DOMAIN gossip' = DOMAIN gossip /\ gossip'.failed = G /\ gossip'.table = table
      /\ gossip'.mail = {older(m) : m \in gossip.mail}
  BY DEF GossipInv, Peers!Tick
<1>2. \A p \in Nodes : G[p] = {Peers!Older(a) : a \in F[p]}
  OBVIOUS
<1>3. \A n, p \in Nodes : table[n][p] = Peers!Aged(gossip.table[n][p])
  OBVIOUS
<1>4. /\ table = [n \in Nodes |-> table[n]]
      /\ \A n \in Nodes : table[n] = [p \in Nodes |-> table[n][p]]
      /\ G = [p \in Nodes |-> G[p]]
  OBVIOUS
<1> HIDE DEF G, table, older
<1>5. \A n, p \in Nodes : /\ Grounded(table[n][p], G[p])
                          /\ Advances(gossip.table[n][p], table[n][p])
                          /\ gossip.table[n][p] = Peers!NoPeer => table[n][p] = Peers!NoPeer
  <2>1. ASSUME NEW n \in Nodes, NEW p \in Nodes
        PROVE  /\ Grounded(table[n][p], G[p])
               /\ Advances(gossip.table[n][p], table[n][p])
               /\ gossip.table[n][p] = Peers!NoPeer => table[n][p] = Peers!NoPeer
    <3>1. Grounded(gossip.table[n][p], F[p])
      BY Known
    <3>2. QED BY <1>2, <1>3, <3>1, GroundedOlder
  <2>2. QED BY <2>1
<1>6. TablesSound(table, G)
  BY <1>4, <1>5 DEF GossipInv, TablesSound, ViewsGrounded
<1>7. ASSUME NEW m \in gossip.mail PROVE MessageSound(older(m), G)
  <2> DEFINE v == [p \in Nodes |-> Peers!Aged(m.body[p])]
             w == IF m.kind = "digest" THEN m.body ELSE v
  <2>1. MessageSound(m, F)
    BY DEF GossipInv, MailSound
  <2>2. older(m) = [m EXCEPT !.body = w]
    BY DEF older
  <2>3. m.kind # "digest" => ViewsGrounded(w, G)
    <3>1. SUFFICES ASSUME m.kind # "digest" PROVE ViewsGrounded(v, G)
      OBVIOUS
    <3>2. \A p \in Nodes : v[p] = Peers!Aged(m.body[p])
      OBVIOUS
    <3>3. v = [p \in Nodes |-> v[p]]
      OBVIOUS
    <3> HIDE DEF v
    <3>4. \A p \in Nodes : Grounded(m.body[p], F[p])
      BY <2>1, <3>1 DEF MessageSound, ViewsGrounded
    <3>5. \A p \in Nodes : Grounded(v[p], G[p])
      BY <1>2, <3>2, <3>4, GroundedOlder
    <3>6. QED BY <3>3, <3>5 DEF ViewsGrounded
  <2> HIDE DEF w
  <2>4. /\ DOMAIN older(m) = DOMAIN m /\ older(m).kind = m.kind /\ older(m).body = w
        /\ older(m).from = m.from /\ older(m).to = m.to
    BY <2>1, <2>2 DEF MessageSound
  <2>5. QED BY <2>1, <2>3, <2>4 DEF MessageSound
<1>8. MailSound(gossip'.mail, G)
  BY <1>1, <1>7 DEF MailSound
<1>9. GossipInv'
  BY <1>1, <1>4, <1>6, <1>8 DEF GossipInv
<1>10. Peers!ViewsAdvance
  BY <1>1, <1>5 DEF Peers!ViewsAdvance, Advances
<1>11. QED BY <1>9, <1>10

LEMMA GossipKept ==
  ASSUME GossipConstants, GossipInv, Peers!Next PROVE GossipInv' /\ Peers!ViewsAdvance
<1>1. ASSUME NEW n \in Nodes \ Down,
             \/ \E p \in Nodes : \/ Peers!Seed(n, p) \/ Peers!MarkAlive(n, p)
                                 \/ Peers!MarkSuspect(n, p) \/ Peers!MarkLeft(n, p)
             \/ \E seed \in Nodes : Peers!Round(n, seed)
             \/ Peers!ExpireSuspects(n)
             \/ Peers!Restart(n)
      PROVE  GossipInv' /\ Peers!ViewsAdvance
  BY <1>1, ProbesKept, RoundSent, SuspectsExpire, NodeForgets
<1>2. ASSUME NEW m \in gossip.mail, Peers!Answer(m) \/ Peers!MergeAll(m) \/ Peers!Lose(m)
      PROVE  GossipInv' /\ Peers!ViewsAdvance
  BY <1>2, DigestAnswered, RecordsMerged, MailLost
<1>3. CASE Peers!Tick
  BY <1>3, Ticked
<1>4. QED BY <1>1, <1>2, <1>3 DEF Peers!Next

GossipSpec == Peers!Init /\ [][Peers!Next]_gossip

(* SuspicionDated of the gossip: through any exchange of records, lost, late or answered
   by a node that has restarted, a suspicion stays as old as a failed probe of that peer,
   and nobody is taken for faulty before the timeout has passed since one. *)
THEOREM SuspicionsStayDated ==
  ASSUME GossipConstants PROVE GossipSpec => []Peers!SuspicionDated
<1>1. Peers!Init => GossipInv
  BY GossipStart
<1>2. GossipInv /\ [Peers!Next]_gossip => GossipInv'
  <2>1. CASE UNCHANGED gossip
    BY <2>1 DEF GossipInv
  <2>2. QED BY <2>1, GossipKept
<1>3. GossipInv => Peers!SuspicionDated
  <2>1. SUFFICES ASSUME GossipInv PROVE Peers!SuspicionDated
    OBVIOUS
  <2>2. ASSUME NEW n \in Nodes, NEW p \in Nodes
        PROVE  /\ gossip.table[n][p].state = "suspect" =>
                    gossip.table[n][p].age \in gossip.failed[p]
               /\ gossip.table[n][p].state = "faulty" => SuspicionTimeout \in gossip.failed[p]
    BY <2>1, NoPeerIs, Known DEF Grounded
  <2>3. \A n \in Nodes : gossip.table[n][n] = Peers!NoPeer
    BY <2>1, Known
  <2>4. QED BY <2>2, <2>3 DEF Peers!SuspicionDated, Peers!Knows
<1>4. QED
  BY <1>1, <1>2, <1>3, PTL DEF GossipSpec

(* ViewsAdvance of the gossip: no record, however late it comes, takes a node back to an
   older view of a peer, or to another one of the same version. *)
THEOREM ViewsOnlyAdvance ==
  ASSUME GossipConstants PROVE GossipSpec => [][Peers!ViewsAdvance]_gossip
<1>1. Peers!Init => GossipInv
  BY GossipStart
<1>2. GossipInv /\ [Peers!Next]_gossip => GossipInv' /\ [Peers!ViewsAdvance]_gossip
  <2>1. CASE UNCHANGED gossip
    BY <2>1 DEF GossipInv
  <2>2. QED BY <2>1, GossipKept
<1>3. QED
  BY <1>1, <1>2, PTL DEF GossipSpec

-----------------------------------------------------------------------------
(* The prize pool of the tournaments: the contract. *)
Prizes == INSTANCE Tournaments

Counts == Seq(Nat)
Lists  == Seq(Int)

(* The buy-in is positive, and the splits are basis points that sum to the whole
   (create_tournament).  Nothing looks at the sign of the other fees, of the chips and
   prize tiers, or of custom payouts. *)
PrizeConstants ==
  /\ IsFiniteSet(Tournaments) /\ IsFiniteSet(Entrants) /\ BuyIn \in Nat
  /\ RakeFee \in [Tournaments -> Int] /\ Bounty \in [Tournaments -> Int]
  /\ Splits \in Counts /\ SumFunctionOnSet(Splits, DOMAIN Splits) = 10000
  /\ Stacks \subseteq Lists /\ Tiers \subseteq Lists

(* What is sent out for a list of amounts. *)
PaidTo(q) == SumFunctionOnSet([i \in DOMAIN q |-> Prizes!Positive(q[i])], DOMAIN q)

LEMMA PrizeBridge ==
  /\ \A f, S : Prizes!SumFunctionOnSet(f, S) = SumFunctionOnSet(f, S)
  /\ \A S : Prizes!Cardinality(S) = Cardinality(S)
  /\ \A s : Prizes!TotalOf(s) = SumFunctionOnSet(s, DOMAIN s)
  /\ \A s : Prizes!PaidOut(s) = PaidTo(s)
<1>1. \A f, S : Prizes!SumFunctionOnSet(f, S) = SumFunctionOnSet(f, S)
  BY SumIsFold DEF Prizes!SumFunctionOnSet, Prizes!FoldFunctionOnSet, Prizes!MapThenFoldSet,
                   Sum, IsSum, Pick
<1>2. \A S : Prizes!Cardinality(S) = Cardinality(S)
  BY DEF Prizes!Cardinality, Cardinality, Prizes!IsFiniteSet, IsFiniteSet
<1>3. \A s : Prizes!TotalOf(s) = SumFunctionOnSet(s, DOMAIN s)
  BY <1>1 DEF Prizes!TotalOf
<1>4. ASSUME NEW s PROVE Prizes!PaidOut(s) = PaidTo(s)
  <2> DEFINE f == [i \in DOMAIN s |-> Prizes!Positive(s[i])]
  <2>1. DOMAIN f = DOMAIN s
    OBVIOUS
  <2>2. Prizes!PaidOut(s) = Prizes!TotalOf(f) /\ PaidTo(s) = SumFunctionOnSet(f, DOMAIN s)
    BY DEF Prizes!PaidOut, PaidTo
  <2> HIDE DEF f
  <2>3. QED BY <1>3, <2>1, <2>2
<1>5. QED BY <1>1, <1>2, <1>3, <1>4

(* What is sent out is never less than the sum of the amounts, and no more if none of them
   is negative. *)
LEMMA PaidToBounds ==
  ASSUME NEW q \in Seq(Int)
  PROVE  /\ PaidTo(q) \in Nat /\ PaidTo(q) >= SumFunctionOnSet(q, DOMAIN q)
         /\ (\A i \in DOMAIN q : q[i] >= 0) => PaidTo(q) = SumFunctionOnSet(q, DOMAIN q)
<1> DEFINE S == DOMAIN q
           f == [i \in S |-> Prizes!Positive(q[i])]
<1>1. IsFiniteSet(S)
  <2>1. S = 1 .. Len(q) /\ Len(q) \in Int
    OBVIOUS
  <2>2. QED BY <2>1, FS_Interval
<1>2. \A i \in S : /\ q[i] \in Int /\ f[i] \in Nat /\ f[i] \in Int /\ q[i] <= f[i]
                   /\ q[i] >= 0 => f[i] = q[i]
  BY DEF Prizes!Positive
<1>3. PaidTo(q) = SumFunctionOnSet(f, S)
  BY DEF PaidTo
<1> HIDE DEF f, S
<1>4. SumFunctionOnSet(f, S) \in Nat
  BY <1>1, <1>2, SumNat
<1>5. SumFunctionOnSet(q, S) <= SumFunctionOnSet(f, S) /\ SumFunctionOnSet(q, S) \in Int
  <2>1. \A i \in S : q[i] \in Int /\ f[i] \in Int /\ q[i] <= f[i]
    BY <1>2
  <2>2. QED BY <1>1, <2>1, SumMonotone, SumInt
<1>6. (\A i \in S : q[i] >= 0) => SumFunctionOnSet(f, S) = SumFunctionOnSet(q, S)
  BY <1>1, <1>2, SumSame
<1>7. QED BY <1>3, <1>4, <1>5, <1>6 DEF S

-----------------------------------------------------------------------------
(* What a distribution pays. *)
LEMMA FloorTimes ==
  ASSUME NEW x \in Nat, NEW c \in Nat, c > 0
  PROVE  x \div c \in Nat /\ (x \div c) * c <= x
OBVIOUS

LEMMA Cancel == ASSUME NEW a \in Nat, NEW b \in Nat, NEW c \in Nat, c > 0, a * c <= b * c
                PROVE  a <= b
OBVIOUS

LEMMA TimesMonotone ==
  ASSUME NEW a \in Nat, NEW b \in Nat, NEW c \in Nat, a <= b
  PROVE  a * c <= b * c /\ a * c \in Nat /\ b * c \in Nat
OBVIOUS

(* Shares that are bounded in proportion to weights do not exceed what is shared out, even
   without the last. *)
InProportion(s, w, n, net, c) ==
  /\ n \in Nat /\ n > 0 /\ net \in Nat /\ c \in Nat /\ c > 0
  /\ SumFunctionOnSet(w, 1 .. n) = c
  /\ \A i \in 1 .. n : s[i] \in Nat /\ w[i] \in Nat /\ s[i] * c <= w[i] * net

LEMMA SharesFit ==
  ASSUME NEW s, NEW w, NEW n, NEW net, NEW c, InProportion(s, w, n, net, c)
  PROVE  SumFunctionOnSet(s, 1 .. n - 1) <= net
<1> DEFINE R == 1 .. n - 1
           sc == [i \in R |-> s[i] * c]
           wn == [i \in R |-> w[i] * net]
           x == SumFunctionOnSet(s, R)
           y == SumFunctionOnSet(w, R)
<1>0. /\ n \in Nat /\ n > 0 /\ net \in Nat /\ c \in Nat /\ c > 0
      /\ SumFunctionOnSet(w, 1 .. n) = c
      /\ \A i \in 1 .. n : s[i] \in Nat /\ w[i] \in Nat /\ s[i] * c <= w[i] * net
  BY DEF InProportion
<1>1. IsFiniteSet(R) /\ IsFiniteSet(1 .. n) /\ R \subseteq 1 .. n
  BY <1>0, FS_Interval
<1>2. \A i \in R : s[i] \in Nat /\ w[i] \in Nat /\ s[i] * c <= w[i] * net
  BY <1>0, <1>1
<1>3. \A i \in R : /\ sc[i] = s[i] * c /\ wn[i] = w[i] * net /\ s[i] \in Int /\ w[i] \in Int
                   /\ sc[i] \in Int /\ wn[i] \in Int /\ sc[i] <= wn[i]
  BY <1>0, <1>2
<1> HIDE DEF sc, wn, R
<1>4. SumFunctionOnSet(sc, R) = x * c
  <2>1. \A i \in R : s[i] \in Int /\ sc[i] = s[i] * c
    BY <1>3
  <2>2. c \in Int
    BY <1>0
  <2>3. QED BY <1>1, <2>1, <2>2, SumScale
<1>5. SumFunctionOnSet(wn, R) = y * net
  <2>1. \A i \in R : w[i] \in Int /\ wn[i] = w[i] * net
    BY <1>3
  <2>2. net \in Int
    BY <1>0
  <2>3. QED BY <1>1, <2>1, <2>2, SumScale
<1>6. SumFunctionOnSet(sc, R) <= SumFunctionOnSet(wn, R)
  BY <1>1, <1>3, SumMonotone
<1>7. x \in Nat /\ y \in Nat
  BY <1>1, <1>2, SumNat
<1>8. y <= c
  <2>1. \A i \in 1 .. n : w[i] \in Int
    BY <1>0
  <2>2. n \in 1 .. n
    BY <1>0
  <2>3. (1 .. n) \ {n} = R
    BY <1>0 DEF R
  <2>4. SumFunctionOnSet(w, 1 .. n) = w[n] + SumFunctionOnSet(w, (1 .. n) \ {n})
    BY <1>1, <2>1, <2>2, SumRemove
  <2>5. c = w[n] + y /\ w[n] \in Nat
    BY <1>0, <2>2, <2>3, <2>4
  <2> HIDE DEF y
  <2>6. QED BY <1>0, <1>7, <2>5
<1> HIDE DEF x, y
<1>9. y * net <= c * net
  BY <1>0, <1>7, <1>8, TimesMonotone
<1>10. x * c <= net * c
  <2>1. x * c <= y * net
    BY <1>4, <1>5, <1>6 DEF x, y
  <2>2. net * c = c * net /\ x * c \in Nat /\ y * net \in Nat /\ c * net \in Nat
    BY <1>0, <1>7
  <2>3. QED BY <1>0, <1>9, <2>1, <2>2
<1>11. x <= net
  BY <1>0, <1>7, <1>10, Cancel
<1>12. QED BY <1>11 DEF x, R

(* What a distribution sends out: at least the net pool; exactly that, and nobody less than
   nothing, if it was given no negative number. *)
Paid(q, net, negative) ==
  /\ q \in Seq(Int) /\ PaidTo(q) >= net
  /\ ~negative => PaidTo(q) = net /\ \A i \in DOMAIN q : q[i] >= 0

(* The shares before the last one are not negative and leave something for the last. *)
Fits(s, net) ==
  /\ \A i \in DOMAIN s : s[i] >= 0
  /\ SumFunctionOnSet(s, 1 .. Len(s) - 1) <= net

LEMMA LastTakesRestSound ==
  ASSUME NEW s \in Seq(Int), Len(s) > 0, NEW net \in Nat
  PROVE  Paid(Prizes!LastTakesRest(s, net), net, ~Fits(s, net))
<1> DEFINE n == Len(s)
           R == 1 .. n - 1
           f == SubSeq(s, 1, n - 1)
           ps == [i \in 1 .. n |-> Prizes!Positive(s[i])]
           pf == [i \in DOMAIN f |-> Prizes!Positive(f[i])]
           others == SumFunctionOnSet(ps, R)
           q == [s EXCEPT ![n] = net - others]
           pq == [i \in DOMAIN q |-> Prizes!Positive(q[i])]
<1>1. /\ n \in Nat /\ n > 0 /\ DOMAIN s = 1 .. n
      /\ \A i \in 1 .. n : s[i] \in Int
  OBVIOUS
<1>2. DOMAIN f = R /\ \A i \in R : f[i] = s[i]
  <2>1. 1 \in 1 .. n + 1 /\ n - 1 \in 1 - 1 .. n /\ (n - 1) - 1 + 1 = n - 1
    BY <1>1
  <2>2. /\ f \in Seq(Int) /\ Len(f) = (n - 1) - 1 + 1
        /\ \A i \in 1 .. (n - 1) - 1 + 1 : f[i] = s[1 + i - 1]
    BY <2>1, SubSeqProperties
  <2>3. \A i \in R : 1 + i - 1 = i
    BY <1>1
  <2> HIDE DEF f, n
  <2>4. DOMAIN f = R
    BY <1>1, <2>1, <2>2
  <2>5. \A i \in R : f[i] = s[i]
    BY <2>1, <2>2, <2>3
  <2>6. QED BY <2>4, <2>5
<1>3. IsFiniteSet(R) /\ IsFiniteSet(1 .. n) /\ R \subseteq 1 .. n /\ (1 .. n) \ {n} = R
  <2> HIDE DEF n, f
  <2>1. n \in Int /\ n - 1 \in Int
    BY <1>1
  <2>2. IsFiniteSet(R) /\ IsFiniteSet(1 .. n)
    <3>1. IsFiniteSet(1 .. n)
      BY <2>1, FS_Interval
    <3>2. R \subseteq 1 .. n
      BY <2>1
    <3>3. QED BY <3>1, <3>2, FS_Subset
  <2>3. R \subseteq 1 .. n /\ (1 .. n) \ {n} = R
    BY <1>1
  <2>4. QED BY <2>2, <2>3
<1>4. \A i \in 1 .. n : /\ ps[i] = Prizes!Positive(s[i]) /\ ps[i] \in Nat
                        /\ s[i] >= 0 => ps[i] = s[i]
  BY <1>1 DEF Prizes!Positive
<1>5. Prizes!PaidOut(f) = others
  <2>1. Prizes!PaidOut(f) = SumFunctionOnSet(pf, R)
    BY <1>2, PrizeBridge DEF PaidTo
  <2>2. \A i \in R : pf[i] = ps[i]
    BY <1>2, <1>3, <1>4
  <2> HIDE DEF f, pf, ps, R
  <2>3. QED BY <1>3, <2>1, <2>2, SumSame
<1> HIDE DEF f, ps
<1>6. Prizes!LastTakesRest(s, net) = q
  BY <1>5 DEF Prizes!LastTakesRest, f
<1>7. others \in Nat
  BY <1>3, <1>4, SumNat
<1> HIDE DEF others, n
<1>8. /\ DOMAIN q = 1 .. n /\ q[n] = net - others /\ \A i \in R : q[i] = s[i]
      /\ q \in Seq(Int)
  <2>1. net - others \in Int
    BY <1>7
  <2>2. DOMAIN q = 1 .. n /\ q[n] = net - others /\ \A i \in R : q[i] = s[i]
    BY <1>1
  <2>4. q = [i \in 1 .. n |-> q[i]] /\ \A i \in 1 .. n : q[i] \in Int
    BY <1>1, <2>1
  <2> HIDE DEF q
  <2>3. q \in Seq(Int)
    BY <1>1, <2>4
  <2>5. QED BY <2>2, <2>3
<1>9. /\ PaidTo(q) = SumFunctionOnSet(pq, 1 .. n)
      /\ \A i \in 1 .. n : pq[i] = Prizes!Positive(q[i])
  BY <1>8 DEF PaidTo
<1> HIDE DEF q, pq, R
<1>10. \A i \in R : pq[i] = ps[i]
  BY <1>3, <1>4, <1>8, <1>9
<1>11. pq[n] = IF net >= others THEN net - others ELSE 0
  BY <1>1, <1>7, <1>8, <1>9 DEF Prizes!Positive
<1>12. SumFunctionOnSet(pq, 1 .. n) = pq[n] + others
  <2>1. \A i \in 1 .. n : pq[i] \in Int
    <3>1. \A i \in 1 .. n : i = n \/ i \in R
      BY <1>3
    <3>2. QED BY <1>3, <1>4, <1>7, <1>10, <1>11, <3>1
  <2>2. n \in 1 .. n
    BY <1>1
  <2>3. SumFunctionOnSet(pq, 1 .. n) = pq[n] + SumFunctionOnSet(pq, R)
    BY <1>3, <2>1, <2>2, SumRemove
  <2>4. SumFunctionOnSet(pq, R) = others
    BY <1>3, <1>10, SumSame DEF others
  <2>5. QED BY <2>3, <2>4
<1>13. PaidTo(q) >= net /\ (net >= others => PaidTo(q) = net)
  BY <1>7, <1>9, <1>11, <1>12
<1>14. ASSUME Fits(s, net)
       PROVE  PaidTo(q) = net /\ \A i \in DOMAIN q : q[i] >= 0
  <2>1. SumFunctionOnSet(s, R) = others
    <3>1. \A i \in R : s[i] = ps[i]
      BY <1>1, <1>3, <1>4, <1>14 DEF Fits
    <3>2. QED BY <1>3, <3>1, SumSame DEF others
  <2>2. others <= net
    BY <1>14, <2>1 DEF Fits, R, n
  <2>3. \A i \in 1 .. n : i = n \/ i \in R
    BY <1>3
  <2>4. \A i \in 1 .. n : q[i] >= 0
    BY <1>1, <1>3, <1>7, <1>8, <1>14, <2>2, <2>3 DEF Fits
  <2>5. QED BY <1>7, <1>8, <1>13, <2>2, <2>4
<1>15. QED BY <1>6, <1>8, <1>13, <1>14 DEF Paid

LEMMA TopNPays ==
  ASSUME NEW splits \in Counts, SumFunctionOnSet(splits, DOMAIN splits) = 10000, NEW net \in Nat,
         NEW negative
  PROVE  Paid(Prizes!TopN(splits, net), net, negative)
<1> DEFINE n == Len(splits)
           s == [i \in DOMAIN splits |-> (net * splits[i]) \div 10000]
<1>0. /\ n \in Nat /\ DOMAIN splits = 1 .. n
      /\ \A i \in 1 .. n : splits[i] \in Nat
  BY DEF Counts
<1>1. /\ n \in Nat /\ n > 0 /\ DOMAIN splits = 1 .. n
      /\ \A i \in 1 .. n : splits[i] \in Nat
  <2>1. CASE n = 0
    <3>1. DOMAIN splits = {}
      BY <1>0, <2>1
    <3>2. SumFunctionOnSet(splits, {}) = 0
      BY SumEmpty
    <3>3. QED BY <3>1, <3>2
  <2>2. QED BY <1>0, <2>1
<1>2. \A i \in 1 .. n : s[i] \in Nat /\ s[i] * 10000 <= splits[i] * net
  <2>1. ASSUME NEW i \in 1 .. n PROVE s[i] \in Nat /\ s[i] * 10000 <= splits[i] * net
    <3>1. s[i] = (net * splits[i]) \div 10000 /\ splits[i] \in Nat
      BY <1>1
    <3>2. PICK x \in Nat : x = net * splits[i] /\ x = splits[i] * net
      BY <3>1
    <3>3. x \div 10000 \in Nat /\ (x \div 10000) * 10000 <= x
      BY FloorTimes
    <3>4. QED BY <3>1, <3>2, <3>3
  <2>2. QED BY <2>1
<1>3. s \in Seq(Nat) /\ Len(s) = n
  BY <1>1, <1>2
<1> HIDE DEF s, n
<1>4. SumFunctionOnSet(s, 1 .. n - 1) <= net
  <2>1. SumFunctionOnSet(splits, 1 .. n) = 10000
    BY <1>1
  <2>2. \A i \in 1 .. n : s[i] \in Nat /\ splits[i] \in Nat /\ s[i] * 10000 <= splits[i] * net
    BY <1>1, <1>2
  <2>3. InProportion(s, splits, n, net, 10000)
    BY <1>1, <2>1, <2>2 DEF InProportion
  <2>4. QED BY <2>3, SharesFit
<1>5. Paid(Prizes!LastTakesRest(s, net), net, negative)
  <2>1. s \in Seq(Int) /\ Fits(s, net)
    BY <1>3, <1>4 DEF Fits
  <2>2. Paid(Prizes!LastTakesRest(s, net), net, ~Fits(s, net))
    BY <1>1, <1>3, <2>1, LastTakesRestSound
  <2>3. QED BY <2>1, <2>2 DEF Paid
<1>6. Prizes!TopN(splits, net) = Prizes!LastTakesRest(s, net)
  BY DEF Prizes!TopN, s
<1>7. QED BY <1>5, <1>6 DEF Paid

(* Division towards zero of numbers of either sign. *)
LEMMA QuotientInt ==
  ASSUME NEW a \in Int, NEW b \in Int, b # 0 PROVE Prizes!Quotient(a, b) \in Int
<1>1. PICK x \in Nat, y \in Nat \ {0} : x = (IF a < 0 THEN -a ELSE a) /\ y = (IF b < 0 THEN -b ELSE b)
  OBVIOUS
<1>2. x \div y \in Int
  BY <1>1
<1>3. Prizes!Quotient(a, b) = IF (a < 0) = (b < 0) THEN x \div y ELSE -(x \div y)
  BY <1>1 DEF Prizes!Quotient
<1>4. QED BY <1>2, <1>3

LEMMA QuotientNat ==
  ASSUME NEW a \in Nat, NEW b \in Nat, b > 0
  PROVE  /\ Prizes!Quotient(a, b) = a \div b
         /\ Prizes!Quotient(a, b) \in Nat /\ Prizes!Quotient(a, b) * b <= a
<1>1. Prizes!Quotient(a, b) = a \div b
  BY DEF Prizes!Quotient
<1>2. QED BY <1>1, FloorTimes

(* The share of a stack, in two numbers made from it: the part in proportion to the chips,
   and the basis points of it. *)
TierShares(tiers, bps, weight) ==
  [k \in DOMAIN tiers |-> Prizes!Quotient(tiers[k] * bps * weight, 100000000)]

ShareOf(tiers, proportional, bps) ==
  IF Len(tiers) <= 1 THEN proportional
  ELSE Prizes!Quotient(Prizes!TotalOf(TierShares(tiers, bps, 10000 \div Len(tiers))) + proportional, 2)

LEMMA IcmShareIs ==
  ASSUME NEW stacks, NEW tiers, NEW i
  PROVE  Prizes!IcmShare(stacks, tiers, i) =
           ShareOf(tiers,
                   Prizes!Quotient(Prizes!TotalOf(tiers) * stacks[i], Prizes!TotalOf(stacks)),
                   Prizes!Quotient(stacks[i] * 10000, Prizes!TotalOf(stacks)))
BY SMT DEF Prizes!IcmShare, ShareOf, TierShares

(* The expected value of a stack, in proportion to the chips. *)
LEMMA EquityFits ==
  ASSUME NEW stacks \in Counts, NEW tiers \in Counts, NEW i \in 1 .. Len(stacks),
         NEW all, all = SumFunctionOnSet(tiers, DOMAIN tiers),
         NEW chips \in Nat, chips = SumFunctionOnSet(stacks, DOMAIN stacks), chips > 0
  PROVE  /\ Prizes!IcmShare(stacks, tiers, i) \in Nat
         /\ Prizes!IcmShare(stacks, tiers, i) * chips <= stacks[i] * all
<1> DEFINE si == stacks[i]
           m == Len(tiers)
           proportional == Prizes!Quotient(all * si, chips)
           bps == Prizes!Quotient(si * 10000, chips)
           weight == 10000 \div m
           e == TierShares(tiers, bps, weight)
           equity == SumFunctionOnSet(e, 1 .. m)
           share == Prizes!IcmShare(stacks, tiers, i)
<1>1. /\ si \in Nat /\ m \in Nat /\ DOMAIN tiers = 1 .. m
      /\ \A k \in 1 .. m : tiers[k] \in Nat
      /\ IsFiniteSet(1 .. m)
  <2>1. m \in Nat /\ si \in Nat /\ DOMAIN tiers = 1 .. m /\ \A k \in 1 .. m : tiers[k] \in Nat
    BY DEF Counts
  <2>2. IsFiniteSet(1 .. m)
    BY <2>1, FS_Interval
  <2>3. QED BY <2>1, <2>2
<1>2. all \in Nat
  BY <1>1, SumNat
<1>3. share = ShareOf(tiers, proportional, bps)
  <2>1. Prizes!TotalOf(tiers) = all /\ Prizes!TotalOf(stacks) = chips
    BY PrizeBridge
  <2>2. QED BY <2>1, IcmShareIs
<1> HIDE DEF si, share
<1>5. proportional \in Nat /\ proportional * chips <= all * si
  <2>1. PICK x \in Nat : x = all * si
    BY <1>1, <1>2
  <2>2. Prizes!Quotient(x, chips) \in Nat /\ Prizes!Quotient(x, chips) * chips <= x
    BY QuotientNat
  <2>3. QED BY <2>1, <2>2
<1>6. bps \in Nat /\ bps * chips <= si * 10000
  <2>1. PICK x \in Nat : x = si * 10000
    BY <1>1
  <2>2. Prizes!Quotient(x, chips) \in Nat /\ Prizes!Quotient(x, chips) * chips <= x
    BY QuotientNat
  <2>3. QED BY <2>1, <2>2
<1> HIDE DEF proportional, bps
<1>11. CASE m <= 1
  <2>1. share = proportional
    BY <1>3, <1>11 DEF ShareOf
  <2> HIDE DEF m
  <2>2. QED BY <1>1, <1>2, <1>5, <2>1 DEF si, share
<1>14. SUFFICES ASSUME ~ (m <= 1) PROVE share \in Nat /\ share * chips <= si * all
  BY <1>11 DEF si, share
<1>4. share = Prizes!Quotient(Prizes!TotalOf(e) + proportional, 2)
  BY <1>3, <1>14 DEF ShareOf
<1> HIDE DEF m
<1>7. weight \in Nat /\ weight <= 10000
  <2>1. weight \in Nat /\ weight * m <= 10000
    BY <1>1, <1>14, FloorTimes, SMTT(30)
  <2>2. QED BY <1>1, <1>14, <2>1
<1> HIDE DEF weight
<1>15. /\ DOMAIN e = 1 .. m
       /\ \A k \in 1 .. m : e[k] = Prizes!Quotient(tiers[k] * bps * weight, 100000000)
  BY <1>1, SMT DEF TierShares
<1> HIDE DEF e
<1>16. Prizes!TotalOf(e) = equity
  BY <1>15, PrizeBridge
<1>8. \A k \in 1 .. m : e[k] \in Nat /\ e[k] * 10000 <= tiers[k] * bps
  <2>1. ASSUME NEW k \in 1 .. m PROVE e[k] \in Nat /\ e[k] * 10000 <= tiers[k] * bps
    <3>1. PICK x \in Nat : x = tiers[k] * bps
      BY <1>1, <1>6
    <3>2. PICK y \in Nat : y = x * weight
      BY <1>7
    <3>3. PICK z \in Nat : z = 100000000
      BY SMT
    <3>4. z > 0 /\ e[k] = Prizes!Quotient(y, z)
      BY <1>15, <3>1, <3>2, <3>3, SMT
    <3>5. e[k] \in Nat /\ e[k] * z <= y
      BY <3>4, QuotientNat
    <3>6. y <= x * 10000
      BY <1>7, <3>2
    <3>7. QED BY <3>1, <3>3, <3>5, <3>6, SMT
  <2>2. QED BY <2>1
<1>9. equity \in Nat /\ equity * 10000 <= all * bps
  <2> DEFINE f == [k \in 1 .. m |-> e[k] * 10000]
             g == [k \in 1 .. m |-> tiers[k] * bps]
  <2>1. \A k \in 1 .. m : /\ f[k] = e[k] * 10000 /\ g[k] = tiers[k] * bps
                          /\ e[k] \in Int /\ tiers[k] \in Int
                          /\ f[k] \in Int /\ g[k] \in Int /\ f[k] <= g[k]
    BY <1>1, <1>6, <1>8
  <2> HIDE DEF f, g
  <2>2. SumFunctionOnSet(f, 1 .. m) = equity * 10000
    <3>1. \A k \in 1 .. m : e[k] \in Int /\ f[k] = e[k] * 10000
      BY <2>1
    <3>2. QED BY <1>1, <3>1, SumScale, SMTT(30)
  <2>3. SumFunctionOnSet(g, 1 .. m) = all * bps
    <3>1. \A k \in 1 .. m : tiers[k] \in Int /\ g[k] = tiers[k] * bps
      BY <2>1
    <3>2. bps \in Int
      BY <1>6
    <3>3. SumFunctionOnSet(g, 1 .. m) = SumFunctionOnSet(tiers, 1 .. m) * bps
      BY <1>1, <3>1, <3>2, SumScale
    <3>4. QED BY <1>1, <3>3
  <2>4. SumFunctionOnSet(f, 1 .. m) <= SumFunctionOnSet(g, 1 .. m)
    BY <1>1, <2>1, SumMonotone
  <2>5. equity \in Nat
    BY <1>1, <1>8, SumNat
  <2>6. QED BY <2>2, <2>3, <2>4, <2>5
<1> HIDE DEF equity
<1>10. equity * chips <= all * si
  <2>1. (equity * 10000) * chips <= (all * bps) * chips
    BY <1>2, <1>6, <1>9, TimesMonotone, SMTT(30)
  <2>2. all * (bps * chips) <= all * (si * 10000)
    BY <1>1, <1>2, <1>6
  <2>3. PICK x \in Nat, y \in Nat : x = equity * chips /\ y = all * si
    BY <1>1, <1>2, <1>9
  <2>4. PICK b \in Nat, c \in Nat, e1 \in Nat, a1 \in Nat, s1 \in Nat :
          b = bps /\ c = chips /\ e1 = equity /\ a1 = all /\ s1 = si
    <3>1. bps \in Nat /\ chips \in Nat
      BY <1>6
    <3>2. equity \in Nat /\ all \in Nat /\ si \in Nat
      BY <1>1, <1>2, <1>9
    <3>3. QED BY <3>1, <3>2
  <2>5. (e1 * 10000) * c <= (a1 * b) * c /\ a1 * (b * c) <= a1 * (s1 * 10000)
    BY <2>1, <2>2, <2>4
  <2>6. (e1 * 10000) * c = (e1 * c) * 10000
    OBVIOUS
  <2>7. (a1 * b) * c = a1 * (b * c)
    OBVIOUS
  <2>8. a1 * (s1 * 10000) = (a1 * s1) * 10000
    OBVIOUS
  <2>9. (e1 * c) * 10000 <= (a1 * s1) * 10000
    BY <2>5, <2>6, <2>7, <2>8
  <2>10. x * 10000 <= y * 10000
    BY <2>3, <2>4, <2>9
  <2>11. QED BY <2>3, <2>10
<1>12. share \in Nat /\ share * chips <= si * all
  <2>1. equity + proportional \in Nat
    BY <1>5, <1>9
  <2>2. share \in Nat /\ share * 2 <= equity + proportional
    <3>1. PICK w \in Nat : w = equity + proportional
      BY <2>1
    <3>2. Prizes!Quotient(w, 2) \in Nat /\ Prizes!Quotient(w, 2) * 2 <= w
      <4>1. 2 \in Nat /\ 2 > 0
        OBVIOUS
      <4>2. QED BY <4>1, QuotientNat
    <3>3. QED BY <1>4, <1>16, <3>1, <3>2
  <2>3. (share * 2) * chips <= (equity + proportional) * chips
    BY <2>1, <2>2, TimesMonotone
  <2>4. QED BY <1>1, <1>2, <1>5, <1>9, <1>10, <2>2, <2>3, SMTT(30)
<1>13. QED BY <1>12

(* A share is a number, whatever the signs of stacks and tiers. *)
LEMMA IcmShareInt ==
  ASSUME NEW stacks \in Lists, NEW tiers \in Lists, NEW i \in 1 .. Len(stacks),
         SumFunctionOnSet(stacks, DOMAIN stacks) # 0
  PROVE  Prizes!IcmShare(stacks, tiers, i) \in Int
<1> DEFINE m == Len(tiers)
           si == stacks[i]
           all == Prizes!TotalOf(tiers)
           chips == Prizes!TotalOf(stacks)
           proportional == Prizes!Quotient(all * si, chips)
           bps == Prizes!Quotient(si * 10000, chips)
           weight == 10000 \div m
           e == TierShares(tiers, bps, weight)
           share == Prizes!IcmShare(stacks, tiers, i)
<1>1. /\ si \in Int /\ m \in Nat /\ DOMAIN tiers = 1 .. m
      /\ DOMAIN stacks = 1 .. Len(stacks) /\ Len(stacks) \in Nat
      /\ \A k \in 1 .. m : tiers[k] \in Int
      /\ \A k \in 1 .. Len(stacks) : stacks[k] \in Int
  BY DEF Lists
<1>2. IsFiniteSet(1 .. m) /\ IsFiniteSet(1 .. Len(stacks))
  BY <1>1, FS_Interval
<1>3. all \in Int /\ chips \in Int /\ chips # 0
  BY <1>1, <1>2, PrizeBridge, SumInt
<1>4. share = ShareOf(tiers, proportional, bps)
  BY IcmShareIs
<1> HIDE DEF si, all, chips, share
<1>5. proportional \in Int
  <2>1. PICK x \in Int : x = all * si
    BY <1>1, <1>3
  <2>2. Prizes!Quotient(x, chips) \in Int
    BY <1>3, QuotientInt
  <2>3. QED BY <2>1, <2>2
<1>6. bps \in Int
  <2>1. PICK x \in Int : x = si * 10000
    BY <1>1
  <2>2. Prizes!Quotient(x, chips) \in Int
    BY <1>3, QuotientInt
  <2>3. QED BY <2>1, <2>2
<1> HIDE DEF proportional, bps
<1>7. CASE m <= 1
  BY <1>4, <1>5, <1>7 DEF ShareOf, share
<1>8. CASE ~ (m <= 1)
  <2>1. share = Prizes!Quotient(Prizes!TotalOf(e) + proportional, 2)
    BY <1>4, <1>8 DEF ShareOf
  <2> HIDE DEF m
  <2>2. weight \in Int
    BY <1>1, <1>8
  <2> HIDE DEF weight
  <2>3. /\ DOMAIN e = 1 .. m
        /\ \A k \in 1 .. m : e[k] = Prizes!Quotient(tiers[k] * bps * weight, 100000000)
    BY <1>1, SMT DEF TierShares
  <2> HIDE DEF e
  <2>4. ASSUME NEW k \in 1 .. m PROVE e[k] \in Int
    <3>1. PICK x \in Int : x = tiers[k] * bps
      BY <1>1, <1>6
    <3>2. PICK y \in Int : y = x * weight
      BY <2>2
    <3>3. PICK z \in Int : z = 100000000
      BY SMT
    <3>4. z # 0 /\ e[k] = Prizes!Quotient(y, z)
      BY <2>3, <3>1, <3>2, <3>3, SMT
    <3>5. QED BY <3>4, QuotientInt
  <2>5. Prizes!TotalOf(e) \in Int
    <3>1. Prizes!TotalOf(e) = SumFunctionOnSet(e, 1 .. m)
      BY <2>3, PrizeBridge
    <3>2. QED BY <1>2, <2>4, <3>1, SumInt
  <2>6. Prizes!TotalOf(e) + proportional \in Int /\ 2 \in Int /\ 2 # 0
    BY <1>5, <2>5
  <2>7. QED BY <2>1, <2>6, QuotientInt DEF share
<1>9. QED BY <1>7, <1>8

LEMMA IcmPays ==
  ASSUME NEW stacks \in Lists, NEW tiers \in Lists,
         NEW net \in Nat, net = SumFunctionOnSet(tiers, DOMAIN tiers),
         NEW chips, chips = SumFunctionOnSet(stacks, DOMAIN stacks), chips # 0
  PROVE  Paid(Prizes!Icm(stacks, tiers, net), net,
              Prizes!SomeNegative(stacks) \/ Prizes!SomeNegative(tiers))
<1> DEFINE n == Len(stacks)
           s == [i \in DOMAIN stacks |-> Prizes!IcmShare(stacks, tiers, i)]
<1>1. /\ n \in Nat /\ DOMAIN stacks = 1 .. n
      /\ \A i \in 1 .. n : stacks[i] \in Int
      /\ DOMAIN tiers = 1 .. Len(tiers) /\ Len(tiers) \in Nat
      /\ \A i \in 1 .. Len(tiers) : tiers[i] \in Int
  BY DEF Lists
<1>2. n > 0
  <2>1. CASE n = 0
    <3>1. DOMAIN stacks = {}
      BY <1>1, <2>1
    <3>2. QED BY <3>1, SumEmpty
  <2>2. QED BY <1>1, <2>1
<1>3. \A i \in 1 .. n : s[i] \in Int
  BY <1>1, IcmShareInt
<1>4. s \in Seq(Int) /\ Len(s) = n
  BY <1>1, <1>3
<1>5. Paid(Prizes!LastTakesRest(s, net), net, ~Fits(s, net))
  <2> HIDE DEF s, n
  <2>1. QED BY <1>2, <1>4, LastTakesRestSound
<1>6. ASSUME ~Prizes!SomeNegative(stacks), ~Prizes!SomeNegative(tiers)
      PROVE  Fits(s, net)
  <2>0. /\ \A i \in 1 .. n : stacks[i] \in Nat
        /\ \A i \in 1 .. Len(tiers) : tiers[i] \in Nat
    <3>1. /\ \A i \in 1 .. n : ~(stacks[i] < 0)
          /\ \A i \in 1 .. Len(tiers) : ~(tiers[i] < 0)
      BY <1>1, <1>6 DEF Prizes!SomeNegative
    <3>2. QED BY <1>1, <3>1
  <2>1. stacks \in Counts /\ tiers \in Counts
    <3>1. stacks = [i \in 1 .. n |-> stacks[i]] /\ tiers = [i \in 1 .. Len(tiers) |-> tiers[i]]
      BY DEF Lists
    <3> HIDE DEF n
    <3>2. stacks \in Seq(Nat)
      BY <1>1, <2>0, <3>1
    <3>3. tiers \in Seq(Nat)
      BY <1>1, <2>0, <3>1
    <3>4. QED BY <3>2, <3>3 DEF Counts
  <2>2. chips \in Nat /\ chips > 0
    <3>1. IsFiniteSet(1 .. n)
      BY <1>1, FS_Interval
    <3>2. chips \in Nat
      BY <1>1, <2>0, <3>1, SumNat
    <3>3. QED BY <3>2
  <2>3. \A i \in 1 .. n : s[i] \in Nat /\ s[i] * chips <= stacks[i] * net
    BY <1>1, <2>1, <2>2, EquityFits
  <2> HIDE DEF s
  <2>4. InProportion(s, stacks, n, net, chips)
    BY <1>1, <1>2, <2>0, <2>2, <2>3 DEF InProportion
  <2>5. SumFunctionOnSet(s, 1 .. n - 1) <= net
    BY <2>4, SharesFit
  <2>6. QED BY <1>4, <2>3, <2>5 DEF Fits
<1>7. Prizes!Icm(stacks, tiers, net) = Prizes!LastTakesRest(s, net)
  BY DEF Prizes!Icm, s
<1> HIDE DEF s
<1>8. QED BY <1>5, <1>6, <1>7 DEF Paid

-----------------------------------------------------------------------------
(* The common account. *)

(* The deposit of an entrant, and the bounty that goes out for one. *)
PrizeDeposit(t) == BuyIn + RakeFee[t] + Bounty[t]
BountyPaid(t)   == Prizes!Positive(Bounty[t])

(* What a tournament with this record and this rake sent out still holds. *)
BalanceOf(t, a, rake) ==
  LET spent == rake + BountyPaid(t) * a.eliminations + PaidTo(a.prizes)
  IN  IF a.status = "Cancelled" THEN -spent
      ELSE PrizeDeposit(t) * Cardinality(a.registered) - spent

(* The record of a tournament agrees with its status: it has paid its rake since the start
   and its net pool when it is completed. *)
PrizeTyped(a, rake) ==
  /\ {"status", "registered", "late", "eliminations", "prizes", "negative"} \subseteq DOMAIN a
  /\ a.registered \subseteq Entrants /\ a.eliminations \in Nat /\ rake \in Nat
  /\ PaidTo(a.prizes) \in Nat

PrizePaid(t, a, rake) ==
  LET n == Cardinality(a.registered)
      paid == PaidTo(a.prizes) IN
  /\ a.status \in {"none", "Registration", "Running", "Completed", "Cancelled"}
  /\ a.status \in {"none", "Registration"} => rake = 0 /\ a.eliminations = 0 /\ paid = 0
  /\ a.status \in {"Running", "Completed"} => rake = Prizes!Positive(RakeFee[t] * n)
  /\ a.status = "Running" => paid = 0
  /\ a.status = "Completed" => paid >= BuyIn * n
  /\ a.status = "Completed" /\ ~a.negative =>
       paid = BuyIn * n /\ \A i \in DOMAIN a.prizes : a.prizes[i] \in Nat

PrizeSound(t, a, rake) == PrizeTyped(a, rake) /\ PrizePaid(t, a, rake)

Balances == [t \in Tournaments |-> BalanceOf(t, prize.at[t], prize.rake[t])]

PrizeInv ==
  /\ {"at", "rake", "held"} \subseteq DOMAIN prize
  /\ prize.at = [t \in Tournaments |-> prize.at[t]]
  /\ prize.rake = [t \in Tournaments |-> prize.rake[t]]
  /\ prize.held = SumFunctionOnSet(Balances, Tournaments) /\ prize.held >= 0
  /\ \A t \in Tournaments : PrizeSound(t, prize.at[t], prize.rake[t])

LEMMA PositiveNat == \A x \in Int : Prizes!Positive(x) \in Nat /\ x <= Prizes!Positive(x)
BY DEF Prizes!Positive

LEMMA FeesInt ==
  ASSUME PrizeConstants, NEW t \in Tournaments
  PROVE  /\ BuyIn \in Nat /\ RakeFee[t] \in Int /\ Bounty[t] \in Int
         /\ PrizeDeposit(t) \in Int /\ BountyPaid(t) \in Nat
BY PositiveNat DEF PrizeConstants, PrizeDeposit, BountyPaid

LEMMA BalanceIs == ASSUME NEW t PROVE Prizes!Balance(t) = BalanceOf(t, prize.at[t], prize.rake[t])
BY PrizeBridge DEF Prizes!Balance, Prizes!Deposit, BalanceOf, PrizeDeposit, BountyPaid

LEMMA BalanceInt ==
  ASSUME PrizeConstants, NEW t \in Tournaments, NEW a, NEW rake, PrizeTyped(a, rake)
  PROVE  /\ BalanceOf(t, a, rake) \in Int
         /\ Cardinality(a.registered) \in Nat /\ IsFiniteSet(a.registered)
<1>1. IsFiniteSet(a.registered) /\ Cardinality(a.registered) \in Nat
  BY FS_Subset, FS_CardinalityType DEF PrizeConstants, PrizeTyped
<1>2. PICK n \in Nat, e \in Nat, p \in Nat, k \in Nat, b \in Nat, d \in Int :
        /\ n = Cardinality(a.registered) /\ e = a.eliminations /\ k = rake
        /\ b = BountyPaid(t) /\ d = PrizeDeposit(t) /\ p = PaidTo(a.prizes)
  BY <1>1, FeesInt DEF PrizeTyped
<1>3. BalanceOf(t, a, rake) = IF a.status = "Cancelled" THEN -(k + b * e + p)
                              ELSE d * n - (k + b * e + p)
  BY <1>2 DEF BalanceOf
<1>4. d * n \in Int /\ b * e \in Int
  OBVIOUS
<1>5. QED BY <1>1, <1>3, <1>4

LEMMA HeldInt == ASSUME PrizeConstants, PrizeInv PROVE prize.held \in Int
<1>1. \A t \in Tournaments : Balances[t] \in Int
  BY BalanceInt DEF PrizeInv, Balances, PrizeSound
<1>2. QED BY <1>1, SumInt DEF PrizeInv, PrizeConstants

(* One tournament and the account change together. *)
LEMMA OneTournament ==
  ASSUME PrizeConstants, PrizeInv, NEW t \in Tournaments, NEW a, NEW rake,
         DOMAIN prize' = DOMAIN prize, prize'.at = [prize.at EXCEPT ![t] = a],
         prize'.rake = [prize.rake EXCEPT ![t] = rake], PrizeSound(t, a, rake), prize'.held >= 0,
         prize'.held = prize.held - BalanceOf(t, prize.at[t], prize.rake[t]) + BalanceOf(t, a, rake)
  PROVE  PrizeInv'
<1>1. \A s \in Tournaments : /\ prize'.at[s] = IF s = t THEN a ELSE prize.at[s]
                             /\ prize'.rake[s] = IF s = t THEN rake ELSE prize.rake[s]
  BY DEF PrizeInv
<1>2. /\ prize'.at = [s \in Tournaments |-> prize'.at[s]]
      /\ prize'.rake = [s \in Tournaments |-> prize'.rake[s]]
  BY DEF PrizeInv
<1>3. \A s \in Tournaments : PrizeSound(s, prize'.at[s], prize'.rake[s])
  BY <1>1 DEF PrizeInv
<1> DEFINE f == Balances
           g == [s \in Tournaments |-> BalanceOf(s, prize'.at[s], prize'.rake[s])]
<1>4. \A s \in Tournaments : /\ f[s] = BalanceOf(s, prize.at[s], prize.rake[s])
                             /\ g[s] = BalanceOf(s, prize'.at[s], prize'.rake[s])
  BY DEF Balances
<1>5. Balances' = g
  BY DEF Balances
<1> HIDE DEF f, g
<1>6. \A s \in Tournaments : f[s] \in Int /\ g[s] \in Int /\ (s # t => g[s] = f[s])
  BY <1>1, <1>3, <1>4, BalanceInt DEF PrizeInv, PrizeSound
<1>7. SumFunctionOnSet(g, Tournaments) = SumFunctionOnSet(f, Tournaments) - f[t] + g[t]
  BY <1>6, SumChange DEF PrizeConstants
<1>8. /\ f[t] = BalanceOf(t, prize.at[t], prize.rake[t]) /\ g[t] = BalanceOf(t, a, rake)
      /\ prize.held = SumFunctionOnSet(f, Tournaments)
  BY <1>1, <1>4 DEF PrizeInv, f
<1>9. prize'.held = SumFunctionOnSet(Balances', Tournaments)
  BY <1>5, <1>7, <1>8
<1>10. QED BY <1>2, <1>3, <1>9 DEF PrizeInv

LEMMA PrizeStart == ASSUME PrizeConstants, Prizes!Init PROVE PrizeInv
<1> DEFINE a == Prizes!NotCreated
<1>1. /\ {"at", "rake", "held"} \subseteq DOMAIN prize
      /\ prize.at = [t \in Tournaments |-> a] /\ prize.rake = [t \in Tournaments |-> 0]
      /\ prize.held = 0
  BY DEF Prizes!Init
<1>2. /\ {"status", "registered", "late", "eliminations", "prizes", "negative"} \subseteq DOMAIN a
      /\ a.status = "none" /\ a.registered = {} /\ a.eliminations = 0 /\ a.prizes = <<>>
  BY DEF Prizes!NotCreated
<1> HIDE DEF a
<1>3. PaidTo(a.prizes) = 0
  <2>1. DOMAIN a.prizes = {}
    BY <1>2
  <2>2. QED BY <2>1, SumEmpty DEF PaidTo
<1>4. \A t \in Tournaments : PrizeSound(t, a, 0)
  BY <1>2, <1>3 DEF PrizeSound, PrizeTyped, PrizePaid
<1>5. ASSUME NEW t \in Tournaments PROVE BalanceOf(t, a, 0) = 0
  <2>1. Cardinality({}) = 0
    BY FS_EmptySet
  <2>2. PrizeDeposit(t) * 0 = 0 /\ BountyPaid(t) * 0 = 0
    BY FeesInt
  <2>3. QED BY <1>2, <1>3, <2>1, <2>2 DEF BalanceOf
<1>6. \A t \in Tournaments : Balances[t] = 0
  BY <1>1, <1>5 DEF Balances
<1>7. SumFunctionOnSet(Balances, Tournaments) = 0
  BY <1>6, SumZero DEF PrizeConstants
<1>8. QED BY <1>1, <1>4, <1>7 DEF PrizeInv

(* The balance in the numbers it is made of. *)
Figures(a, rake, n, e, p, k) ==
  /\ n \in Nat /\ n = Cardinality(a.registered) /\ e \in Nat /\ e = a.eliminations
  /\ p \in Nat /\ p = PaidTo(a.prizes) /\ k \in Nat /\ k = rake

LEMMA FiguresExist ==
  ASSUME PrizeConstants, PrizeInv, NEW t \in Tournaments
  PROVE  \E n, e, p, k : Figures(prize.at[t], prize.rake[t], n, e, p, k)
<1>1. PrizeTyped(prize.at[t], prize.rake[t])
  BY DEF PrizeInv, PrizeSound
<1>2. Cardinality(prize.at[t].registered) \in Nat
  BY <1>1, BalanceInt
<1>3. QED BY <1>1, <1>2 DEF PrizeTyped, Figures

LEMMA BalanceFigures ==
  ASSUME NEW t, NEW a, NEW rake, NEW n, NEW e, NEW p, NEW k, Figures(a, rake, n, e, p, k)
  PROVE  BalanceOf(t, a, rake) = IF a.status = "Cancelled" THEN -(k + BountyPaid(t) * e + p)
                                 ELSE PrizeDeposit(t) * n - (k + BountyPaid(t) * e + p)
BY DEF BalanceOf, Figures

(* Only the status or the closing of the registration changes. *)
LEMMA StatusChanges ==
  ASSUME PrizeConstants, PrizeInv, NEW t \in Tournaments,
         Prizes!CreateTournament(t) \/ Prizes!CloseRegistration(t)
  PROVE  PrizeInv'
<1> DEFINE r == prize.at[t]
           k == prize.rake[t]
           a == IF Prizes!CreateTournament(t) THEN [r EXCEPT !.status = "Registration"]
                ELSE [r EXCEPT !.late = TRUE]
<1>1. PrizeTyped(r, k) /\ PrizePaid(t, r, k)
  BY DEF PrizeInv, PrizeSound
<1>2. /\ DOMAIN prize' = DOMAIN prize /\ prize'.rake = prize.rake /\ prize'.held = prize.held
      /\ prize'.at = [prize.at EXCEPT ![t] = a]
      /\ r.status \in {"none", "Registration"}
  BY DEF Prizes!CreateTournament, Prizes!CloseRegistration, PrizeInv
<1>3. /\ DOMAIN a = DOMAIN r /\ a.registered = r.registered /\ a.prizes = r.prizes
      /\ a.eliminations = r.eliminations /\ a.status \in {r.status, "Registration"}
      /\ a.negative = r.negative
  BY <1>1 DEF PrizeTyped
<1> HIDE DEF a, r, k
<1>4. PrizeSound(t, a, k)
  BY <1>1, <1>2, <1>3 DEF PrizeSound, PrizeTyped, PrizePaid
<1>5. BalanceOf(t, a, k) = BalanceOf(t, r, k) /\ BalanceOf(t, r, k) \in Int
  BY <1>1, <1>2, <1>3, BalanceInt DEF BalanceOf
<1>6. prize'.rake = [prize.rake EXCEPT ![t] = k]
  BY <1>2 DEF PrizeInv, k
<1>7. prize.held \in Int /\ prize.held >= 0
  BY HeldInt DEF PrizeInv
<1>8. prize'.held = prize.held - BalanceOf(t, r, k) + BalanceOf(t, a, k) /\ prize'.held >= 0
  BY <1>2, <1>5, <1>7
<1>9. QED BY <1>2, <1>4, <1>6, <1>8, OneTournament DEF r, k

(* A player comes or goes, with her deposit. *)
EntrantsAre(t, S, c) ==
  /\ S \subseteq Entrants /\ Cardinality(S) = Cardinality(prize.at[t].registered) + c
  /\ Cardinality(S) \in Nat
  /\ DOMAIN prize' = DOMAIN prize /\ prize'.rake = prize.rake
  /\ prize'.at = [prize.at EXCEPT ![t] = [prize.at[t] EXCEPT !.registered = S]]
  /\ prize'.held = prize.held + c * PrizeDeposit(t) /\ prize'.held >= 0
  /\ prize.at[t].status = "Registration"

LEMMA EntrantMoves ==
  ASSUME PrizeConstants, PrizeInv, NEW t \in Tournaments, NEW q \in Entrants,
         Prizes!RegisterPlayer(t, q) \/ Prizes!UnregisterPlayer(t, q)
  PROVE  PrizeInv'
<1> DEFINE r == prize.at[t]
           k == prize.rake[t]
           D == PrizeDeposit(t)
<1>1. PrizeTyped(r, k) /\ PrizePaid(t, r, k)
  BY DEF PrizeInv, PrizeSound
<1>2. IsFiniteSet(r.registered) /\ Cardinality(r.registered) \in Nat
  BY <1>1, BalanceInt
<1>3. PICK S \in SUBSET Entrants, c \in {1, -1} : EntrantsAre(t, S, c)
  <2>1. ASSUME Prizes!RegisterPlayer(t, q)
        PROVE  \E S \in SUBSET Entrants : EntrantsAre(t, S, 1)
    <3> DEFINE S == r.registered \cup {q}
    <3> SUFFICES S \in SUBSET Entrants /\ EntrantsAre(t, S, 1)
      OBVIOUS
    <3>1. /\ DOMAIN prize' = DOMAIN prize /\ prize'.rake = prize.rake /\ q \notin r.registered
          /\ prize'.at = [prize.at EXCEPT ![t] = [r EXCEPT !.registered = S]]
          /\ prize'.held = prize.held + D /\ D >= 0
          /\ r.status = "Registration"
      BY <2>1 DEF Prizes!RegisterPlayer, Prizes!Deposit, PrizeDeposit, PrizeInv
    <3>2. Cardinality(S) = Cardinality(r.registered) + 1 /\ Cardinality(S) \in Nat
      <4>1. IsFiniteSet(S) /\ Cardinality(S) = Cardinality(r.registered) + 1
        BY <1>2, <3>1, FS_AddElement
      <4>2. QED BY <4>1, FS_CardinalityType
    <3>3. S \subseteq Entrants
      BY <1>1 DEF PrizeTyped
    <3>4. prize'.held = prize.held + 1 * D /\ prize'.held >= 0
      <4>1. D \in Int /\ prize.held \in Int /\ prize.held >= 0
        BY HeldInt, FeesInt DEF PrizeInv
      <4> HIDE DEF D
      <4>2. QED BY <3>1, <4>1
    <3> HIDE DEF S
    <3>5. QED BY <3>1, <3>2, <3>3, <3>4 DEF EntrantsAre
  <2>2. ASSUME Prizes!UnregisterPlayer(t, q)
        PROVE  \E S \in SUBSET Entrants : EntrantsAre(t, S, -1)
    <3> DEFINE S == r.registered \ {q}
    <3> SUFFICES S \in SUBSET Entrants /\ EntrantsAre(t, S, -1)
      OBVIOUS
    <3>1. /\ DOMAIN prize' = DOMAIN prize /\ prize'.rake = prize.rake /\ q \in r.registered
          /\ prize'.at = [prize.at EXCEPT ![t] = [r EXCEPT !.registered = S]]
          /\ prize'.held = prize.held - D /\ prize.held >= D
          /\ r.status = "Registration"
      BY <2>2 DEF Prizes!UnregisterPlayer, Prizes!Deposit, PrizeDeposit, PrizeInv
    <3>2. Cardinality(S) = Cardinality(r.registered) + (-1) /\ Cardinality(S) \in Nat
      <4>1. IsFiniteSet(S) /\ Cardinality(S) = Cardinality(r.registered) - 1
        BY <1>2, <3>1, FS_RemoveElement
      <4>2. Cardinality(S) \in Nat
        BY <4>1, FS_CardinalityType
      <4>3. QED BY <1>2, <4>1, <4>2
    <3>3. S \subseteq Entrants
      BY <1>1 DEF PrizeTyped
    <3>4. prize'.held = prize.held + (-1) * D /\ prize'.held >= 0
      <4>1. D \in Int /\ prize.held \in Int
        BY HeldInt, FeesInt
      <4> HIDE DEF D
      <4>2. QED BY <3>1, <4>1
    <3> HIDE DEF S
    <3>5. QED BY <3>1, <3>2, <3>3, <3>4 DEF EntrantsAre
  <2>3. QED BY <2>1, <2>2
<1> DEFINE a == [r EXCEPT !.registered = S]
<1>4. /\ DOMAIN a = DOMAIN r /\ a.registered = S /\ a.prizes = r.prizes
      /\ a.eliminations = r.eliminations /\ a.status = r.status
  BY <1>1 DEF PrizeTyped
<1>5. prize'.at = [prize.at EXCEPT ![t] = a] /\ prize'.rake = [prize.rake EXCEPT ![t] = k]
  BY <1>3 DEF PrizeInv, EntrantsAre
<1>6. /\ S \subseteq Entrants /\ Cardinality(S) = Cardinality(r.registered) + c
      /\ Cardinality(S) \in Nat /\ r.status = "Registration"
      /\ DOMAIN prize' = DOMAIN prize /\ prize'.held = prize.held + c * D
      /\ prize'.held >= 0
  BY <1>3 DEF EntrantsAre
<1>7. PICK n, e, p, l : Figures(r, k, n, e, p, l)
  BY FiguresExist
<1> HIDE DEF a, r, k
<1>8. PrizeSound(t, a, k)
  BY <1>1, <1>6, <1>4 DEF PrizeSound, PrizeTyped, PrizePaid
<1>9. Figures(a, k, n + c, e, p, l)
  BY <1>2, <1>6, <1>4, <1>7 DEF Figures
<1>10. BalanceOf(t, a, k) = BalanceOf(t, r, k) + c * D
  <2>1. /\ BalanceOf(t, r, k) = D * n - (l + BountyPaid(t) * e + p)
        /\ BalanceOf(t, a, k) = D * (n + c) - (l + BountyPaid(t) * e + p)
    BY <1>6, <1>4, <1>7, <1>9, BalanceFigures
  <2>2. PICK x \in Int : x = l + BountyPaid(t) * e + p
    <3>1. BountyPaid(t) \in Nat /\ l \in Nat /\ e \in Nat /\ p \in Nat
      BY <1>7, FeesInt DEF Figures
    <3>2. QED BY <3>1
  <2>3. D \in Int /\ n \in Nat
    BY <1>7, FeesInt DEF Figures
  <2> HIDE DEF D
  <2>4. D * (n + c) = D * n + c * D
    BY <1>3, <2>3
  <2>5. D * n \in Int /\ c * D \in Int
    BY <1>3, <2>3
  <2>6. QED BY <2>1, <2>2, <2>4, <2>5
<1>11. prize'.held = prize.held - BalanceOf(t, r, k) + BalanceOf(t, a, k)
  <2>1. BalanceOf(t, r, k) \in Int /\ prize.held \in Int /\ D \in Int
    BY <1>1, BalanceInt, HeldInt, FeesInt
  <2> HIDE DEF D
  <2>2. c * D \in Int
    BY <1>3, <2>1
  <2>3. QED BY <1>6, <1>10, <2>1, <2>2
<1>12. QED BY <1>6, <1>5, <1>8, <1>11, OneTournament DEF r, k

(* A tournament that is not cancelled spends: rake, bounties or prizes. *)
Spends(t, a, k, n, e, p, l, f, q, m) ==
  /\ Figures(prize.at[t], prize.rake[t], n, e, p, l) /\ Figures(a, k, n, f, q, m)
  /\ prize.at[t].status # "Cancelled" /\ a.status # "Cancelled"
  /\ DOMAIN prize' = DOMAIN prize
  /\ prize'.at = [prize.at EXCEPT ![t] = a] /\ prize'.rake = [prize.rake EXCEPT ![t] = k]
  /\ prize'.held = prize.held - ((m - l) + BountyPaid(t) * (f - e) + (q - p))
  /\ prize'.held >= 0

LEMMA SpendingKeeps ==
  ASSUME PrizeConstants, PrizeInv, NEW t \in Tournaments, NEW a, NEW k, PrizeSound(t, a, k),
         NEW n, NEW e, NEW p, NEW l, NEW f, NEW q, NEW m, Spends(t, a, k, n, e, p, l, f, q, m)
  PROVE  PrizeInv'
<1> DEFINE old == BalanceOf(t, prize.at[t], prize.rake[t])
           new == BalanceOf(t, a, k)
<1>1. /\ old = PrizeDeposit(t) * n - (l + BountyPaid(t) * e + p)
      /\ new = PrizeDeposit(t) * n - (m + BountyPaid(t) * f + q)
  BY BalanceFigures DEF Spends
<1>2. /\ n \in Nat /\ e \in Nat /\ p \in Nat /\ l \in Nat /\ f \in Nat /\ q \in Nat /\ m \in Nat
      /\ BountyPaid(t) \in Nat /\ PrizeDeposit(t) \in Int /\ prize.held \in Int
  BY HeldInt, FeesInt DEF Spends, Figures
<1>3. PICK x \in Int, y \in Int, z \in Int : /\ x = PrizeDeposit(t) * n /\ y = BountyPaid(t) * e
                                          /\ z = BountyPaid(t) * f /\ BountyPaid(t) * (f - e) = z - y
  <2>1. /\ PrizeDeposit(t) * n \in Int /\ BountyPaid(t) * e \in Int /\ BountyPaid(t) * f \in Int
        /\ BountyPaid(t) * (f - e) = BountyPaid(t) * f - BountyPaid(t) * e
    BY <1>2
  <2>2. QED BY <2>1
<1>4. prize'.held = prize.held - ((m - l) + BountyPaid(t) * (f - e) + (q - p))
  BY DEF Spends
<1> HIDE DEF old, new
<1>5. prize'.held = prize.held - old + new
  BY <1>1, <1>2, <1>3, <1>4
<1>6. /\ DOMAIN prize' = DOMAIN prize
      /\ prize'.at = [prize.at EXCEPT ![t] = a] /\ prize'.rake = [prize.rake EXCEPT ![t] = k]
      /\ prize'.held >= 0
  BY DEF Spends
<1>7. QED BY <1>5, <1>6, OneTournament DEF old, new

LEMMA StartKeeps ==
  ASSUME PrizeConstants, PrizeInv, NEW t \in Tournaments, Prizes!StartTournament(t)
  PROVE  PrizeInv'
<1> DEFINE r == prize.at[t]
           a == [r EXCEPT !.status = "Running"]
           x == Prizes!Positive(RakeFee[t] * Cardinality(r.registered))
<1>1. PICK n, e, p, l : Figures(r, prize.rake[t], n, e, p, l)
  BY FiguresExist
<1>2. PrizeTyped(r, prize.rake[t]) /\ PrizePaid(t, r, prize.rake[t])
  BY DEF PrizeInv, PrizeSound
<1>3. /\ DOMAIN a = DOMAIN r /\ a.registered = r.registered /\ a.prizes = r.prizes
      /\ a.eliminations = r.eliminations /\ a.status = "Running"
  BY <1>2 DEF PrizeTyped
<1>4. /\ r.status = "Registration" /\ DOMAIN prize' = DOMAIN prize
      /\ prize'.at = [prize.at EXCEPT ![t] = a]
      /\ prize'.rake = [prize.rake EXCEPT ![t] = x]
      /\ prize'.held = prize.held - x /\ prize.held >= x
  BY PrizeBridge DEF Prizes!StartTournament, PrizeInv
<1>5. x \in Nat /\ prize.held \in Int
  <2>1. RakeFee[t] * n \in Int
    BY <1>1, FeesInt DEF Figures
  <2>2. QED BY <1>1, <2>1, PositiveNat, HeldInt DEF Figures
<1>6. x = Prizes!Positive(RakeFee[t] * Cardinality(a.registered))
  BY <1>3
<1> HIDE DEF a, r, x
<1>7. PrizeSound(t, a, x)
  BY <1>2, <1>3, <1>4, <1>5, <1>6 DEF PrizeSound, PrizeTyped, PrizePaid
<1>8. Figures(a, x, n, e, p, x) /\ l = 0 /\ e \in Nat /\ p \in Nat
  BY <1>1, <1>2, <1>3, <1>4, <1>5 DEF Figures, PrizePaid
<1>9. (x - l) + BountyPaid(t) * (e - e) + (p - p) = x /\ prize.held - x >= 0
  <2>1. e - e = 0 /\ p - p = 0 /\ BountyPaid(t) * 0 = 0
    BY <1>8, FeesInt
  <2>2. QED BY <1>4, <1>5, <1>8, <2>1
<1>10. Spends(t, a, x, n, e, p, l, e, p, x)
  BY <1>1, <1>3, <1>4, <1>8, <1>9 DEF Spends, r
<1>11. QED BY <1>7, <1>10, SpendingKeeps

LEMMA EliminationKeeps ==
  ASSUME PrizeConstants, PrizeInv, NEW t \in Tournaments, NEW byHerself \in BOOLEAN,
         Prizes!RecordElimination(t, byHerself)
  PROVE  PrizeInv'
<1> DEFINE r == prize.at[t]
           k == prize.rake[t]
           d == IF byHerself THEN 0 ELSE 1
           b == IF byHerself THEN 0 ELSE BountyPaid(t)
           a == [r EXCEPT !.eliminations = r.eliminations + d]
<1>1. PICK n, e, p, l : Figures(r, k, n, e, p, l)
  BY FiguresExist
<1>2. PrizeTyped(r, k) /\ PrizePaid(t, r, k)
  BY DEF PrizeInv, PrizeSound
<1>3. /\ DOMAIN a = DOMAIN r /\ a.registered = r.registered /\ a.prizes = r.prizes
      /\ a.eliminations = r.eliminations + d /\ a.status = r.status
      /\ a.negative = r.negative
  BY <1>2 DEF PrizeTyped
<1>4. /\ r.status = "Running" /\ DOMAIN prize' = DOMAIN prize
      /\ prize'.at = [prize.at EXCEPT ![t] = a] /\ prize'.rake = prize.rake
      /\ prize'.held = prize.held - b /\ prize.held >= b
  BY DEF Prizes!RecordElimination, PrizeInv, BountyPaid
<1>5. prize'.rake = [prize.rake EXCEPT ![t] = k]
  BY <1>4 DEF PrizeInv
<1>6. d \in {0, 1} /\ BountyPaid(t) * d = b /\ b \in Nat /\ prize.held \in Int
  BY FeesInt, HeldInt
<1> HIDE DEF a, r, k, d, b
<1>7. PrizeSound(t, a, k)
  BY <1>2, <1>3, <1>4, <1>6 DEF PrizeSound, PrizeTyped, PrizePaid
<1>8. Figures(a, k, n, e + d, p, l)
  BY <1>1, <1>3, <1>6 DEF Figures
<1>9. /\ (l - l) + BountyPaid(t) * ((e + d) - e) + (p - p) = b
      /\ prize.held - b >= 0
  <2>1. l - l = 0 /\ p - p = 0 /\ (e + d) - e = d
    BY <1>1, <1>6 DEF Figures
  <2>2. QED BY <1>4, <1>6, <2>1
<1>10. Spends(t, a, k, n, e, p, l, e + d, p, l)
  BY <1>1, <1>3, <1>4, <1>5, <1>6, <1>8, <1>9 DEF Spends, r, k
<1>11. QED BY <1>7, <1>10, SpendingKeeps

LEMMA DistributeKeeps ==
  ASSUME PrizeConstants, PrizeInv, NEW t \in Tournaments, NEW prizes, NEW negative,
         Prizes!Distribute(t, prizes, negative), Paid(prizes, Prizes!NetPool(t), negative)
  PROVE  PrizeInv'
<1> DEFINE r == prize.at[t]
           k == prize.rake[t]
           x == PaidTo(prizes)
           a == [r EXCEPT !.status = "Completed", !.prizes = prizes, !.negative = negative]
<1>1. PICK n, e, p, l : Figures(r, k, n, e, p, l)
  BY FiguresExist
<1>2. PrizeTyped(r, k) /\ PrizePaid(t, r, k)
  BY DEF PrizeInv, PrizeSound
<1>3. /\ DOMAIN a = DOMAIN r /\ a.registered = r.registered /\ a.prizes = prizes
      /\ a.eliminations = r.eliminations /\ a.status = "Completed" /\ a.negative = negative
  BY <1>2 DEF PrizeTyped
<1>4. /\ x \in Nat /\ x >= BuyIn * n
      /\ ~negative => x = BuyIn * n /\ \A i \in DOMAIN prizes : prizes[i] \in Nat
  <2>1. Prizes!NetPool(t) = BuyIn * n
    BY <1>1, PrizeBridge DEF Prizes!NetPool, Figures
  <2>2. prizes \in Seq(Int)
    BY DEF Paid
  <2>3. \A i \in DOMAIN prizes : prizes[i] \in Int
    BY <2>2
  <2>4. QED BY <2>1, <2>2, <2>3, PaidToBounds DEF Paid
<1>5. /\ r.status = "Running" /\ DOMAIN prize' = DOMAIN prize
      /\ prize'.at = [prize.at EXCEPT ![t] = a] /\ prize'.rake = prize.rake
      /\ prize'.held = prize.held - x /\ prize.held >= x
  BY PrizeBridge DEF Prizes!Distribute, PrizeInv
<1>6. prize'.rake = [prize.rake EXCEPT ![t] = k]
  BY <1>5 DEF PrizeInv
<1>7. PaidTo(a.prizes) = x /\ Cardinality(a.registered) = n
  BY <1>1, <1>3 DEF Figures
<1> HIDE DEF a, r, k, x
<1>8. PrizeSound(t, a, k)
  <2>1. PrizeTyped(a, k)
    BY <1>2, <1>3, <1>4, <1>7 DEF PrizeTyped
  <2>2. k = Prizes!Positive(RakeFee[t] * n)
    BY <1>1, <1>2, <1>5 DEF PrizePaid, Figures
  <2>3. PrizePaid(t, a, k)
    BY <1>3, <1>4, <1>7, <2>2 DEF PrizePaid
  <2>4. QED BY <2>1, <2>3 DEF PrizeSound
<1>9. Figures(a, k, n, e, x, l) /\ p = 0 /\ e \in Nat /\ l \in Nat
  BY <1>1, <1>2, <1>3, <1>4, <1>5, <1>7 DEF Figures, PrizePaid
<1>10. (l - l) + BountyPaid(t) * (e - e) + (x - p) = x /\ prize.held - x >= 0
  <2>1. l - l = 0 /\ e - e = 0 /\ BountyPaid(t) * 0 = 0 /\ x - p = x
    BY <1>4, <1>9, FeesInt
  <2>2. QED BY <1>4, <1>5, <2>1, HeldInt
<1>11. Spends(t, a, k, n, e, p, l, e, x, l)
  BY <1>1, <1>3, <1>5, <1>6, <1>9, <1>10 DEF Spends, r, k
<1>12. QED BY <1>8, <1>11, SpendingKeeps

LEMMA CancelKeeps ==
  ASSUME PrizeConstants, PrizeInv, NEW t \in Tournaments, Prizes!CancelTournament(t)
  PROVE  PrizeInv'
<1> DEFINE r == prize.at[t]
           k == prize.rake[t]
           a == [r EXCEPT !.status = "Cancelled"]
<1>1. PICK n, e, p, l : Figures(r, k, n, e, p, l)
  BY FiguresExist
<1>2. PrizeTyped(r, k) /\ PrizePaid(t, r, k)
  BY DEF PrizeInv, PrizeSound
<1>3. /\ DOMAIN a = DOMAIN r /\ a.registered = r.registered /\ a.prizes = r.prizes
      /\ a.eliminations = r.eliminations /\ a.status = "Cancelled"
  BY <1>2 DEF PrizeTyped
<1>4. /\ r.status # "Cancelled" /\ DOMAIN prize' = DOMAIN prize
      /\ prize'.at = [prize.at EXCEPT ![t] = a] /\ prize'.rake = prize.rake
      /\ prize'.held = prize.held - PrizeDeposit(t) * n /\ prize.held >= PrizeDeposit(t) * n
  BY <1>1, PrizeBridge
  DEF Prizes!CancelTournament, Prizes!Deposit, PrizeDeposit, PrizeInv, Figures
<1>5. prize'.rake = [prize.rake EXCEPT ![t] = k]
  BY <1>4 DEF PrizeInv
<1> HIDE DEF a, r, k
<1>6. PrizeSound(t, a, k)
  BY <1>2, <1>3 DEF PrizeSound, PrizeTyped, PrizePaid
<1>7. Figures(a, k, n, e, p, l)
  BY <1>1, <1>3 DEF Figures
<1>8. /\ BalanceOf(t, r, k) = PrizeDeposit(t) * n - (l + BountyPaid(t) * e + p)
      /\ BalanceOf(t, a, k) = -(l + BountyPaid(t) * e + p)
  BY <1>1, <1>3, <1>4, <1>7, BalanceFigures
<1>9. l + BountyPaid(t) * e + p \in Int /\ PrizeDeposit(t) * n \in Int /\ prize.held \in Int
  BY <1>1, HeldInt, FeesInt DEF Figures
<1>10. prize'.held = prize.held - BalanceOf(t, r, k) + BalanceOf(t, a, k) /\ prize'.held >= 0
  BY <1>4, <1>8, <1>9
<1>11. QED BY <1>4, <1>5, <1>6, <1>10, OneTournament DEF r, k

(* Each way to distribute pays out at least the net pool. *)
LEMMA DistributionsKeep ==
  ASSUME PrizeConstants, PrizeInv, NEW t \in Tournaments,
         \/ Prizes!DistributeTopN(t)
         \/ \E s \in Stacks, tiers \in Tiers : Prizes!DistributeIcm(t, s, tiers)
         \/ \E payouts \in Tiers : Prizes!DistributeCustom(t, payouts)
  PROVE  PrizeInv'
<1> DEFINE net == Prizes!NetPool(t)
<1>1. net \in Nat
  <2>1. Cardinality(prize.at[t].registered) \in Nat
    BY BalanceInt DEF PrizeInv, PrizeSound
  <2>2. BuyIn \in Nat
    BY DEF PrizeConstants
  <2>3. QED BY <2>1, <2>2, PrizeBridge DEF Prizes!NetPool
<1> HIDE DEF net
<1>2. CASE Prizes!DistributeTopN(t)
  <2> PICK negative : negative = FALSE
    OBVIOUS
  <2>1. Paid(Prizes!TopN(Splits, net), net, negative)
    <3>1. Splits \in Counts /\ SumFunctionOnSet(Splits, DOMAIN Splits) = 10000
      BY DEF PrizeConstants
    <3>2. QED BY <1>1, <3>1, TopNPays
  <2>2. <<10000>> \in Counts /\ SumFunctionOnSet(<<10000>>, DOMAIN <<10000>>) = 10000
    <3> DEFINE whole == <<10000>>
    <3>1. whole \in Counts /\ DOMAIN whole = {1} /\ whole[1] = 10000
      BY DEF Counts
    <3> HIDE DEF whole
    <3>2. /\ IsFiniteSet({1}) /\ {1} \ {1} = {}
          /\ \A i \in {1} : whole[i] \in Int
      <4>1. IsFiniteSet({1})
        BY FS_Singleton
      <4>2. QED BY <3>1, <4>1
    <3>3. SumFunctionOnSet(whole, {}) = 0
      BY SumEmpty
    <3>4. SumFunctionOnSet(whole, {1}) = 10000
      <4>1. 1 \in {1}
        OBVIOUS
      <4>2. SumFunctionOnSet(whole, {1}) = whole[1] + SumFunctionOnSet(whole, {1} \ {1})
        BY <3>2, <4>1, SumRemove
      <4>3. QED BY <3>1, <3>2, <3>3, <4>2
    <3>5. QED BY <3>1, <3>4 DEF whole
  <2>3. Paid(Prizes!TopN(<<10000>>, net), net, negative)
    BY <1>1, <2>2, TopNPays
  <2>4. \/ Prizes!Distribute(t, Prizes!TopN(Splits, net), negative)
        \/ Prizes!Distribute(t, Prizes!TopN(<<10000>>, net), negative)
    <3> DEFINE Sent(q) ==
          /\ prize.at[t].status = "Running" /\ prize.held >= Prizes!PaidOut(q)
          /\ prize' = [prize EXCEPT !.at[t].status = "Completed", !.at[t].prizes = q,
                                    !.at[t].negative = FALSE,
                                    !.held = @ - Prizes!PaidOut(q)]
    <3>1. Sent(Prizes!TopN(Splits, net)) \/ Sent(Prizes!TopN(<<10000>>, net))
      BY <1>2 DEF Prizes!DistributeTopN, Prizes!Distribute, net
    <3>2. ASSUME NEW q, Sent(q) PROVE Prizes!Distribute(t, q, negative)
      BY <3>2 DEF Prizes!Distribute
    <3> HIDE DEF Sent
    <3>3. QED BY <3>1, <3>2
  <2>5. QED BY <2>1, <2>3, <2>4, DistributeKeeps DEF net
<1>3. CASE \E s \in Stacks, tiers \in Tiers : Prizes!DistributeIcm(t, s, tiers)
  <2>1. PICK s \in Stacks, tiers \in Tiers : Prizes!DistributeIcm(t, s, tiers)
    BY <1>3
  <2> DEFINE negative == Prizes!SomeNegative(s) \/ Prizes!SomeNegative(tiers)
  <2>2. /\ SumFunctionOnSet(tiers, DOMAIN tiers) = net
        /\ SumFunctionOnSet(s, DOMAIN s) # 0
        /\ Prizes!Distribute(t, Prizes!Icm(s, tiers, net), negative)
    BY <2>1, PrizeBridge DEF Prizes!DistributeIcm, net
  <2>3. s \in Lists /\ tiers \in Lists
    BY DEF PrizeConstants
  <2>4. Paid(Prizes!Icm(s, tiers, net), net, negative)
    BY <1>1, <2>2, <2>3, IcmPays
  <2> HIDE DEF negative
  <2>5. QED BY <2>2, <2>4, DistributeKeeps DEF net
<1>4. CASE \E payouts \in Tiers : Prizes!DistributeCustom(t, payouts)
  <2>1. PICK payouts \in Tiers : Prizes!DistributeCustom(t, payouts)
    BY <1>4
  <2> DEFINE negative == Prizes!SomeNegative(payouts)
  <2>2. /\ SumFunctionOnSet(payouts, DOMAIN payouts) = net
        /\ Prizes!Distribute(t, payouts, negative)
    BY <2>1, PrizeBridge DEF Prizes!DistributeCustom, net
  <2>3. payouts \in Seq(Int)
    BY DEF PrizeConstants, Lists
  <2>4. ~negative => \A i \in DOMAIN payouts : payouts[i] >= 0
    <3>1. \A i \in DOMAIN payouts : payouts[i] \in Int
      BY <2>3
    <3>2. ~negative => \A i \in DOMAIN payouts : ~(payouts[i] < 0)
      BY DEF Prizes!SomeNegative
    <3>3. QED BY <3>1, <3>2
  <2> HIDE DEF negative
  <2>5. Paid(payouts, net, negative)
    BY <2>2, <2>3, <2>4, PaidToBounds DEF Paid
  <2>6. QED BY <2>2, <2>5, DistributeKeeps DEF net
<1>5. QED BY <1>2, <1>3, <1>4

LEMMA PrizeStep == ASSUME PrizeConstants, PrizeInv, [Prizes!Next]_prize PROVE PrizeInv'
<1>1. CASE UNCHANGED prize
  BY <1>1 DEF PrizeInv, Balances
<1>2. CASE Prizes!Next
  <2>1. PICK t \in Tournaments :
          \/ Prizes!CreateTournament(t) \/ Prizes!CloseRegistration(t) \/ Prizes!StartTournament(t)
          \/ Prizes!DistributeTopN(t) \/ Prizes!CancelTournament(t)
          \/ \E p \in Entrants : Prizes!RegisterPlayer(t, p) \/ Prizes!UnregisterPlayer(t, p)
          \/ \E byHerself \in BOOLEAN : Prizes!RecordElimination(t, byHerself)
          \/ \E s \in Stacks, tiers \in Tiers : Prizes!DistributeIcm(t, s, tiers)
          \/ \E payouts \in Tiers : Prizes!DistributeCustom(t, payouts)
    BY <1>2 DEF Prizes!Next
  <2>2. CASE Prizes!CreateTournament(t) \/ Prizes!CloseRegistration(t)
    BY <2>2, StatusChanges
  <2>3. CASE Prizes!StartTournament(t)
    BY <2>3, StartKeeps
  <2>4. CASE Prizes!CancelTournament(t)
    BY <2>4, CancelKeeps
  <2>5. CASE \E p \in Entrants : Prizes!RegisterPlayer(t, p) \/ Prizes!UnregisterPlayer(t, p)
    BY <2>5, EntrantMoves
  <2>6. CASE \E byHerself \in BOOLEAN : Prizes!RecordElimination(t, byHerself)
    BY <2>6, EliminationKeeps
  <2>7. CASE \/ Prizes!DistributeTopN(t)
             \/ \E s \in Stacks, tiers \in Tiers : Prizes!DistributeIcm(t, s, tiers)
             \/ \E payouts \in Tiers : Prizes!DistributeCustom(t, payouts)
    BY <2>7, DistributionsKeep
  <2>8. QED BY <2>1, <2>2, <2>3, <2>4, <2>5, <2>6, <2>7
<1>3. QED BY <1>1, <1>2

(* Who has not been cancelled, recorded no more eliminations than players and uses no
   negative number is covered. *)
LEMMA OwnPoolSuffices ==
  ASSUME PrizeConstants, PrizeInv, NEW t \in Tournaments,
         prize.at[t].status # "Cancelled",
         ~(prize.at[t].eliminations > Cardinality(prize.at[t].registered)),
         RakeFee[t] >= 0, Bounty[t] >= 0, ~prize.at[t].negative
  PROVE  BalanceOf(t, prize.at[t], prize.rake[t]) >= 0
<1> DEFINE r == prize.at[t]
           k == prize.rake[t]
<1>1. PICK n, e, p, l : Figures(r, k, n, e, p, l)
  BY FiguresExist
<1>2. PrizePaid(t, r, k)
  BY DEF PrizeInv, PrizeSound
<1>3. /\ n \in Nat /\ e \in Nat /\ p \in Nat /\ l \in Nat /\ ~(e > n)
      /\ BuyIn \in Nat
  BY <1>1, FeesInt DEF Figures
<1>4. PICK f \in Nat, b \in Nat : f = RakeFee[t] /\ b = Bounty[t]
  BY FeesInt
<1>5. BountyPaid(t) = b /\ PrizeDeposit(t) = BuyIn + f + b
  BY <1>4 DEF BountyPaid, PrizeDeposit, Prizes!Positive
<1>6. BalanceOf(t, r, k) = (BuyIn + f + b) * n - (l + b * e + p)
  BY <1>1, <1>5, BalanceFigures
<1>7. PICK x \in Nat, y \in Nat, z \in Nat, w \in Nat :
        /\ x = BuyIn * n /\ y = f * n /\ z = b * n /\ w = b * e /\ w <= z
  <2>1. BuyIn * n \in Nat /\ f * n \in Nat /\ b * n = n * b /\ b * e = e * b
    BY <1>3
  <2>2. e * b <= n * b /\ e * b \in Nat /\ n * b \in Nat
    BY <1>3, TimesMonotone
  <2>3. QED BY <2>1, <2>2
<1>8. (BuyIn + f + b) * n = x + y + z
  BY <1>3, <1>7
<1>9. Prizes!Positive(RakeFee[t] * n) = y
  BY <1>4, <1>7 DEF Prizes!Positive
<1>10. l <= y /\ p <= x
  BY <1>1, <1>2, <1>3, <1>7, <1>9 DEF PrizePaid, Figures
<1> HIDE DEF r, k
<1>11. BalanceOf(t, r, k) = (x + y + z) - (l + w + p)
  BY <1>6, <1>7, <1>8
<1>12. QED BY <1>3, <1>7, <1>10, <1>11 DEF r, k

(* PrizesFromOwnPool of the tournaments' common account, whoever distributes, in whatever
   mode: it holds the balances of the tournaments and nothing else; a distribution pays at
   least the net pool, and the net pool to the last chip, nobody less than nothing, when it
   is given no negative number (calculate_icm_allocations rounds down, in the remainder's
   favour); and a tournament spends more than it took in only when it is cancelled, names
   more eliminations than players, charges a negative fee or is distributed by negative
   numbers. *)
THEOREM PrizesStayOwn ==
  ASSUME PrizeConstants PROVE Prizes!Spec => []Prizes!PrizesFromOwnPool
<1>1. Prizes!Init => PrizeInv
  BY PrizeStart
<1>2. PrizeInv /\ [Prizes!Next]_prize => PrizeInv'
  BY PrizeStep
<1>3. PrizeInv => Prizes!PrizesFromOwnPool
  <2> SUFFICES ASSUME PrizeInv PROVE Prizes!PrizesFromOwnPool
    OBVIOUS
  <2>1. prize.held = Prizes!SumFunctionOnSet([t \in Tournaments |-> Prizes!Balance(t)], Tournaments)
    <3>1. [t \in Tournaments |-> Prizes!Balance(t)] = Balances
      BY BalanceIs DEF Balances
    <3>2. QED BY <3>1, PrizeBridge DEF PrizeInv
  <2>2. ASSUME NEW t \in Tournaments
        PROVE  /\ prize.at[t].status = "Completed" =>
                    Prizes!PaidOut(prize.at[t].prizes) >= Prizes!NetPool(t)
               /\ prize.at[t].status = "Completed" /\ ~prize.at[t].negative =>
                    /\ Prizes!PaidOut(prize.at[t].prizes) = Prizes!NetPool(t)
                    /\ ~Prizes!SomeNegative(prize.at[t].prizes)
    <3> DEFINE r == prize.at[t]
    <3>1. PrizePaid(t, r, prize.rake[t])
      BY DEF PrizeInv, PrizeSound
    <3>2. Prizes!PaidOut(r.prizes) = PaidTo(r.prizes) /\ Prizes!NetPool(t) = BuyIn * Cardinality(r.registered)
      BY PrizeBridge DEF Prizes!NetPool
    <3>3. r.status = "Completed" => PaidTo(r.prizes) >= BuyIn * Cardinality(r.registered)
      BY <3>1 DEF PrizePaid
    <3>4. r.status = "Completed" /\ ~r.negative =>
            /\ PaidTo(r.prizes) = BuyIn * Cardinality(r.registered)
            /\ \A i \in DOMAIN r.prizes : r.prizes[i] \in Nat
      BY <3>1 DEF PrizePaid
    <3>5. (\A i \in DOMAIN r.prizes : r.prizes[i] \in Nat) => ~Prizes!SomeNegative(r.prizes)
      BY DEF Prizes!SomeNegative
    <3>6. QED BY <3>2, <3>3, <3>4, <3>5
  <2>3. ASSUME NEW t \in Tournaments, Prizes!Balance(t) < 0
        PROVE  \/ prize.at[t].status = "Cancelled"
               \/ prize.at[t].eliminations > Prizes!Cardinality(prize.at[t].registered)
               \/ RakeFee[t] < 0 \/ Bounty[t] < 0
               \/ prize.at[t].negative
    <3>1. /\ BalanceOf(t, prize.at[t], prize.rake[t]) < 0
          /\ BalanceOf(t, prize.at[t], prize.rake[t]) \in Int
          /\ RakeFee[t] \in Int /\ Bounty[t] \in Int
      BY <2>3, BalanceIs, BalanceInt, FeesInt DEF PrizeInv, PrizeSound
    <3>2. \/ prize.at[t].status = "Cancelled"
          \/ prize.at[t].eliminations > Cardinality(prize.at[t].registered)
          \/ ~(RakeFee[t] >= 0) \/ ~(Bounty[t] >= 0)
          \/ prize.at[t].negative
      <4>1. ~(BalanceOf(t, prize.at[t], prize.rake[t]) >= 0)
        BY <3>1
      <4>2. QED BY <4>1, OwnPoolSuffices
    <3>3. QED BY <3>1, <3>2, PrizeBridge
  <2>4. prize.held >= 0
    BY DEF PrizeInv
  <2>5. QED BY <2>1, <2>2, <2>3, <2>4 DEF Prizes!PrizesFromOwnPool
<1>4. QED BY <1>1, <1>2, <1>3, PTL DEF Prizes!Spec
=============================================================================
