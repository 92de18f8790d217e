------------------------------ MODULE TableDesk ------------------------------
(***************************************************************************)
(* What surrounds the betting of a hand at a poker table: the clock and    *)
(* the players' time banks, the sequence numbers and commitments of their  *)
(* actions, and the game hub that is told of every hand.  Chips are left   *)
(* out (HandRules has them): stacks are deep, nobody is ever all-in, and   *)
(* whether an action ends the betting round is a free choice.              *)
(***************************************************************************)
EXTENDS Integers, FiniteSets, FiniteSetsExt, SequencesExt

CONSTANTS
  Players, MaxPlayers,
  Timeout,             \* config.timeout_ledgers
  Banks,               \* time bank configurations the admin may choose
  Sizes,               \* of bets
  SeqSpace,            \* action sequence numbers are taken modulo this
  Stacks,              \* of the first two seats, as the hub hears of them
  Games,               \* games that players are promoted to
  MaxHands, MaxLedger, MaxPoints   \* bounds on hands, the clock, promoted points

VARIABLE desk

SecondsPerLedger == 5
NoConfig  == [initial |-> 0, max |-> 0, perHand |-> 0, perLedger |-> 0, extension |-> 0,
              extensions |-> 0]
NoBank    == [remaining |-> -1, replenished |-> 0, used |-> 0, active |-> 0]
NoCommit  == [hash |-> <<>>, said |-> <<>>]
NoShow    == [did |-> <<>>, said |-> <<>>]
NoSession == [players |-> <<>>, active |-> FALSE]
NoProfile == [played |-> 0, won |-> 0, points |-> 0]
NoPromo   == [points |-> 0, claimed |-> FALSE]
Kinds     == {"fold", "check", "bet"}

Init ==
  desk = [phase |-> "waiting", hand |-> 0, seats |-> <<>>, turn |-> 1, folded |-> {},
          now |-> 1, deadline |-> 0,
          config |-> NoConfig, bank |-> [p \in Players |-> NoBank],
          counter |-> [p \in Players |-> 0], commit |-> [p \in Players |-> NoCommit],
          session |-> [h \in 1 .. MaxHands |-> NoSession],
          profile |-> [p \in Players |-> NoProfile],
          promo |-> [p \in Players |-> [g \in Games |-> NoPromo]],
          (* what a reader of the history knows *)
          applied  |-> [p \in Players |-> 0],   \* actions processed, modulo SeqSpace
          shown    |-> NoShow,                  \* the last revealed action and its promise
          bought   |-> 0,                       \* until when the one to act has paid for
          reported |-> [p \in Players |-> 0], granted |-> [p \in Players |-> 0]]

Seated    == Range(desk.seats)
Between   == desk.phase \in {"waiting", "settlement"}
Contender(k) == desk.seats[k] \notin desk.folded
OnTurn(p) == desk.phase = "betting" /\ desk.seats[desk.turn] = p

-----------------------------------------------------------------------------
(* The game hub *)
Active(profile, p, points) ==
  [profile EXCEPT ![p].played = @ + 1, ![p].points = @ + points]

NotifyStart(d, stacks) ==
  LET one == d.seats[1]  two == d.seats[2] IN
  [d EXCEPT !.session[d.hand] = [players |-> <<one, two>>, active |-> TRUE],
            !.profile = Active(Active(d.profile, one, stacks[1]), two, stacks[2]),
            !.reported[one] = @ + stacks[1], !.reported[two] = @ + stacks[2]]

NotifyEnd(d, firstWon) ==
  LET winner == d.session[d.hand].players[IF firstWon THEN 1 ELSE 2] IN
  [d EXCEPT !.session[d.hand].active = FALSE, !.profile[winner].won = @ + 1]

RecordCrossPromo(p, g, points) ==
  /\ points > 0 /\ desk.granted[p] + points <= MaxPoints
  /\ desk' = [desk EXCEPT !.promo[p][g] = [points |-> points, claimed |-> FALSE],
                          !.granted[p] = @ + points]

ClaimCrossPromo(p, g) ==
  LET promo == desk.promo[p][g] IN
  /\ promo.points > 0 /\ ~promo.claimed
  /\ desk' = [desk EXCEPT !.promo[p][g].claimed = TRUE,
                          !.profile[p].points = @ + promo.points]

-----------------------------------------------------------------------------
(* Time banks *)
Enabled(config) == config.max > 0 /\ config.extension > 0

FreshBank(config) == [NoBank EXCEPT !.remaining = config.initial, !.replenished = desk.now]

Least(a, b) == IF a < b THEN a ELSE b

Replenished(bank, config) ==
  LET r1 == Least(bank.remaining + config.perHand, config.max)
      r2 == Least(r1 + (desk.now - bank.replenished) * config.perLedger, config.max) IN
  [remaining |-> r2, replenished |-> desk.now, used |-> 0, active |-> 0]

ReplenishAll(d) ==
  [d EXCEPT !.bank = [p \in Players |->
     IF ~Enabled(d.config) \/ p \notin Range(d.seats) THEN @[p]
     ELSE Replenished(IF @[p] = NoBank THEN FreshBank(d.config) ELSE @[p], d.config)]]

Configure(config) ==
  /\ Between /\ config.max <= 3600 /\ config.extension <= 300
  /\ desk' = [desk EXCEPT !.config = config]

ExtensionLedgers(seconds) == (seconds + SecondsPerLedger - 1) \div SecondsPerLedger

Later(a, b) == IF a > b THEN a ELSE b

UseTimeBank(p) ==
  LET c == desk.config
      b == IF desk.bank[p] = NoBank THEN FreshBank(c) ELSE desk.bank[p] IN
  /\ Enabled(c) /\ OnTurn(p)
  /\ b.used < c.extensions /\ b.remaining >= c.extension
  /\ desk' = [desk EXCEPT
       !.bank[p] = [b EXCEPT !.remaining = @ - c.extension, !.used = @ + 1,
                             !.active = c.extension],
       !.deadline = Later(@, desk.now) + ExtensionLedgers(c.extension),
       !.bought = Later(@, desk.now) + ExtensionLedgers(c.extension)]

-----------------------------------------------------------------------------
(* Seats and hands *)
Join(p) ==
  /\ desk.phase = "waiting" /\ p \notin Seated /\ Len(desk.seats) < MaxPlayers
  /\ desk' = [desk EXCEPT !.seats = Append(@, p),
       !.bank[p] = IF Enabled(desk.config) /\ @ = NoBank THEN FreshBank(desk.config) ELSE @]

Leave(p) ==
  /\ Between
  /\ \E k \in DOMAIN desk.seats :
       /\ desk.seats[k] = p
       /\ desk' = [desk EXCEPT !.seats = RemoveAt(@, k), !.turn = 1]

(* Commitments are filed under the hand's number: those of an earlier hand are out of
   reach. *)
StartHand(stacks) ==
  /\ Between /\ Len(desk.seats) >= 2 /\ desk.hand < MaxHands
  /\ desk' = NotifyStart(ReplenishAll(
       [desk EXCEPT !.hand = @ + 1, !.phase = "dealing", !.folded = {}, !.turn = 1,
                    !.deadline = 0, !.bought = 0,
                    !.commit = [p \in Players |-> NoCommit]]), stacks)

CommitDeal(k) ==
  /\ desk.phase = "dealing"
  /\ desk' = [desk EXCEPT !.phase = "betting", !.turn = k, !.bought = 0,
                          !.deadline = desk.now + Timeout]

(* The first to act on a later street has no deadline. *)
RevealBoard(k) ==
  /\ desk.phase = "reveal" /\ Contender(k)
  /\ desk' = [desk EXCEPT !.phase = "betting", !.turn = k, !.bought = 0]

Settle(d, k) == NotifyEnd([d EXCEPT !.phase = "settlement"], k = 1)

SubmitShowdown(k) ==
  /\ desk.phase = "reveal" /\ Contender(k)
  /\ desk' = Settle(desk, k)

(* cancel_hand tells the hub nothing. *)
CancelHand ==
  /\ ~Between
  /\ desk' = [desk EXCEPT !.phase = "settlement"]

-----------------------------------------------------------------------------
(* Betting *)
StillIn(d) == {k \in DOMAIN d.seats : d.seats[k] \notin d.folded}

NextAfter(d, k) ==
  LET n == Len(d.seats)
      ahead == {i \in 1 .. n : ((k - 1 + i) % n) + 1 \in StillIn(d)} IN
  ((k - 1 + Min(ahead)) % n) + 1

(* process_action: the player whose turn it is acts. *)
Acted(p, kind) ==
  LET d == [desk EXCEPT !.folded = IF kind = "fold" THEN @ \cup {p} ELSE @,
                        !.applied[p] = (@ + 1) % SeqSpace, !.bought = 0] IN
  IF Cardinality(StillIn(d)) = 1 THEN {Settle(d, CHOOSE k \in StillIn(d) : TRUE)}
  ELSE {[d EXCEPT !.turn = NextAfter(d, @), !.deadline = desk.now + Timeout],
        [d EXCEPT !.phase = "reveal", !.deadline = 0]}

MayAct(p) == OnTurn(p) /\ p \notin desk.folded

NextSeq(p) == (desk.counter[p] + 1) % SeqSpace

PlayerAction(p, seq, kind) ==
  /\ MayAct(p) /\ seq = NextSeq(p)
  /\ desk' \in {[d EXCEPT !.counter[p] = seq] : d \in Acted(p, kind)}

(* Only the amount named beside the action is hashed, not the action's own. *)
ActionHash(kind, amount) == IF kind = "bet" THEN <<kind, amount>> ELSE <<kind>>

CommitAction(p, kind, amount) ==
  /\ desk.phase = "betting" /\ p \in Seated /\ desk.commit[p] = NoCommit
  /\ desk' = [desk EXCEPT !.commit[p] =
       [hash |-> ActionHash(kind, amount), said |-> <<kind, desk.hand>>]]

RevealAction(p, seq, kind, amount) ==
  LET promised == desk.commit[p] IN
  /\ MayAct(p) /\ promised # NoCommit
  /\ promised.hash = ActionHash(kind, amount) /\ seq = NextSeq(p)
  /\ desk' \in {[d EXCEPT !.commit[p] = NoCommit, !.counter[p] = seq,
                          !.shown = [did |-> <<kind, desk.hand>>, said |-> promised.said]]
                  : d \in Acted(p, kind)}

-----------------------------------------------------------------------------
(* Timeouts *)
FoldByClock(deadline) ==
  LET p == desk.seats[desk.turn]
      d == [desk EXCEPT !.folded = @ \cup {p}, !.bought = 0] IN
  /\ desk.phase = "betting" /\ p \notin desk.folded
  /\ desk.deadline # 0 /\ desk.now >= desk.deadline
  /\ desk' = IF Cardinality(StillIn(d)) = 1
             THEN Settle(d, CHOOSE k \in StillIn(d) : TRUE)
             ELSE [d EXCEPT !.turn = NextAfter(d, @), !.deadline = deadline]

(* claim_timeout leaves the expired deadline to the next player; force_fold does not. *)
ProcessTimeout == FoldByClock(desk.deadline)

ForceFold == FoldByClock(desk.now + Timeout)

Tick ==
  /\ desk.now < MaxLedger
  /\ desk' = [desk EXCEPT !.now = @ + 1]

SeatsNext == \E p \in Players : Join(p) \/ Leave(p)

HandsNext ==
  \/ \E stacks \in Stacks : StartHand(stacks)
  \/ \E k \in DOMAIN desk.seats : CommitDeal(k) \/ RevealBoard(k) \/ SubmitShowdown(k)
  \/ \E p \in Players, kind \in Kinds, seq \in 0 .. SeqSpace - 1 : PlayerAction(p, seq, kind)
  \/ CancelHand

ClockNext ==
  \/ SeatsNext \/ HandsNext
  \/ \E config \in Banks : Configure(config)
  \/ \E p \in Players : UseTimeBank(p)
  \/ ProcessTimeout \/ ForceFold \/ Tick

PromiseNext ==
  \/ SeatsNext \/ HandsNext
  \/ \E p \in Players, kind \in Kinds, amount \in Sizes, seq \in 0 .. SeqSpace - 1 :
       CommitAction(p, kind, amount) \/ RevealAction(p, seq, kind, amount)

HubNext ==
  \/ SeatsNext \/ HandsNext
  \/ \E p \in Players, g \in Games, points \in 1 .. MaxPoints : RecordCrossPromo(p, g, points)
  \/ \E p \in Players, g \in Games : ClaimCrossPromo(p, g)

-----------------------------------------------------------------------------
(* While a hand is played under a configured time bank nobody has more banked than
   the maximum, and what she spent in the hand came out of it. *)
BanksWithinMax ==
  ~Between /\ Enabled(desk.config) =>
    \A p \in Seated :
      LET b == desk.bank[p] IN
      /\ b.used <= desk.config.extensions
      /\ b.remaining >= 0
      /\ b.remaining + b.used * desk.config.extension <= desk.config.max

(* Nobody is folded by the clock before the extensions she bought have run, counted
   from when she bought them, even under a deadline left over from another player. *)
BoughtTimeKept ==
  ProcessTimeout \/ ForceFold => desk.now >= desk.bought

(* Every sequence number a player used stands for one action that was processed,
   revealed or not; and a revealed action is of the kind promised for this hand. *)
ActionsNumbered ==
  /\ desk.applied = desk.counter
  /\ desk.shown.did = desk.shown.said

(* The hub credits one win for every hand it was told the end of, to one of the two
   players it knows of, and nobody has won more than she played; and points are what
   the tables reported and what was promised to the player, each promise paid once. *)
HubCountsAddUp ==
  /\ SumFunctionOnSet([p \in Players |-> desk.profile[p].won], Players)
       = Cardinality({h \in 1 .. desk.hand : desk.session[h] # NoSession
                                              /\ ~desk.session[h].active})
  /\ \A p \in Players :
       /\ desk.profile[p].won <= desk.profile[p].played
       /\ desk.profile[p].points <= desk.reported[p] + desk.granted[p]
=============================================================================
