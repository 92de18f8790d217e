--------------------------- MODULE JackpotVerifier ---------------------------
(***************************************************************************)
(* The contract that decides whether a hand earns a jackpot and notes who  *)
(* has claimed it.  A proof is what its checks find: well formed, and      *)
(* about this hand or not.  A score packs category and rank; here it is    *)
(* 16 times the category plus the rank.  What the categories mean is the   *)
(* card library's: it ranks the best five of a player's seven cards.       *)
(***************************************************************************)
EXTENDS Integers, Sequences, FiniteSets, FiniteSetsExt, SequencesExt

CONSTANTS
  Hands,            \* what a claim may say: [category, rank, losing]
  Kinds,            \* jackpots asked for: "BadBeat", "RoyalFlush", ... or "Custom"
  Claimants,
  Keys,             \* pairs of table and hand number
  Configs,          \* [category, rank, straightFlush, royal, score]
  Amounts, MaxFunded,
  Deals             \* [board, rest]: five cards on the board and some to be dealt

VARIABLE jackpot

Unclaimed == [by |-> "nobody", amount |-> 0]

Init ==
  \E c \in Configs :
    jackpot = [config   |-> c,
               pool     |-> 0,
               funded   |-> 0,                      \* bound: all that was ever added
               keys     |-> {},                     \* kinds with a verification key
               verified |-> {},
               claim    |-> [k \in Keys |-> Unclaimed],
               paused   |-> FALSE]

SetConfig(c)             == jackpot' = [jackpot EXCEPT !.config = c]
SetVerificationKey(kind) == jackpot' = [jackpot EXCEPT !.keys = @ \union {kind}]
SetPaused(yes)           == jackpot' = [jackpot EXCEPT !.paused = yes]

FundPool(amount) ==
  /\ jackpot.funded + amount <= MaxFunded
  /\ jackpot' = [jackpot EXCEPT !.pool = @ + amount, !.funded = @ + amount]

Score(category, rank) == 16 * category + rank

CategoryOf == [FourOfAKind |-> 7, FullHouse |-> 6, Flush |-> 5, Straight |-> 4]

(* evaluate_qualification. *)
Qualifies(h, kind) ==
  LET c == jackpot.config IN
  CASE kind = "BadBeat" ->
         /\ h.losing /\ h.category >= c.category
         /\ Score(h.category, h.rank) >= Score(c.category, c.rank)
         /\ h.category = c.category => h.rank >= c.rank
    [] kind = "RoyalFlush"    -> c.royal /\ h.category = 9 /\ h.rank = 12
    [] kind = "StraightFlush" -> h.category = 8 /\ h.category >= c.straightFlush
    [] kind = "Custom"        -> c.score > 0 /\ Score(h.category, h.rank) >= c.score
    [] OTHER                  -> h.category = CategoryOf[kind]

(* The public inputs must be about this hand; an empty proof and one of the right
   size pass, with a verification key as without one. *)
Verify(h, kind, wellFormed, aboutHand) ==
  /\ ~jackpot.paused /\ wellFormed /\ aboutHand
  /\ jackpot' = IF Qualifies(h, kind) THEN [jackpot EXCEPT !.verified = @ \union {h}]
                ELSE jackpot

(* Mutant: the pool is paid and not emptied. *)
Claim_KeepsPool(claimant, key, h, kind, wellFormed, aboutHand) ==
  /\ ~jackpot.paused /\ wellFormed /\ aboutHand /\ jackpot.claim[key] = Unclaimed
  /\ Qualifies(h, kind)
  /\ jackpot' = [jackpot EXCEPT !.verified = @ \union {h},
                                !.claim[key] = [by |-> claimant, amount |-> jackpot.pool]]

(* claim_jackpot: the claim is noted and the pool emptied, also of nothing. *)
Claim(claimant, key, h, kind, wellFormed, aboutHand) ==
  /\ ~jackpot.paused /\ wellFormed /\ aboutHand /\ jackpot.claim[key] = Unclaimed
  /\ Qualifies(h, kind)
  /\ jackpot' = [jackpot EXCEPT !.verified = @ \union {h},
                                !.claim[key] = [by |-> claimant, amount |-> jackpot.pool],
                                !.pool = 0]

Next ==
  \/ \E h \in Hands, kind \in Kinds, wellFormed, aboutHand \in BOOLEAN :
       \/ Verify(h, kind, wellFormed, aboutHand)
       \/ \E c \in Claimants, key \in Keys : Claim(c, key, h, kind, wellFormed, aboutHand)
  \/ \E c \in Configs : SetConfig(c)
  \/ \E kind \in Kinds : SetVerificationKey(kind)
  \/ \E a \in Amounts : FundPool(a)
  \/ \E yes \in BOOLEAN : SetPaused(yes)

Spec == Init /\ [][Next]_jackpot
-----------------------------------------------------------------------------
(* stellar-zk-cards.  A card is 13 times its suit plus its rank; two players are
   dealt their cards over one board. *)
Suit(card) == card \div 13
Rank(card) == card % 13

CardsInit == \E d \in Deals : jackpot = [board |-> d.board, rest |-> d.rest, holes |-> <<>>]

DealHole(a, b) ==
  /\ Len(jackpot.holes) < 2
  /\ jackpot' = [jackpot EXCEPT !.rest = @ \ {a, b}, !.holes = Append(@, {a, b})]

CardsNext == \E a \in jackpot.rest : \E b \in jackpot.rest \ {a} : DealHole(a, b)

Down(S) == [i \in 1 .. Cardinality(S) |-> CHOOSE x \in S : Cardinality({y \in S : y > x}) = i - 1]

RanksDown(hand) ==
  LET sorted == Down({4 * Rank(c) + Suit(c) : c \in hand}) IN [i \in 1 .. 5 |-> sorted[i] \div 4]

(* Digits of four bits, and the category above them: five digits at most. *)
Pack(category, digits) == FoldLeft(LAMBDA packed, d : 16 * packed + d, 0, digits) + 1048576 * category

(* evaluate_five: the first that fits. *)
EvaluateFive(hand) ==
  LET r        == RanksDown(hand)
      Of(n)    == {q \in ToSet(r) : Cardinality({i \in 1 .. 5 : r[i] = q}) = n}
      flush    == Cardinality({Suit(c) : c \in hand}) = 1
      straight == \A i \in 1 .. 4 : r[i] = r[i + 1] + 1
      wheel    == r = <<12, 3, 2, 1, 0>>
      top      == IF wheel THEN 3 ELSE r[1]
      Kickers  == SelectSeq(r, LAMBDA q : q \in Of(1))
      Pairs    == Down(Of(2))
      Triple   == CHOOSE q \in Of(3) : TRUE
      Quad     == CHOOSE q \in Of(4) : TRUE
  IN IF flush /\ straight /\ r[1] = 12        THEN Pack(9, <<r[1]>>)
     ELSE IF flush /\ (straight \/ wheel)     THEN Pack(8, <<top>>)
     ELSE IF Of(4) # {}                       THEN Pack(7, <<Quad>> \o Kickers)
     ELSE IF Of(3) # {} /\ Of(2) # {}         THEN Pack(6, <<Triple>> \o Pairs)
     ELSE IF flush                            THEN Pack(5, r)
     ELSE IF straight \/ wheel                THEN Pack(4, <<top>>)
     ELSE IF Of(3) # {}                       THEN Pack(3, <<Triple>> \o Kickers)
     ELSE Pack(Cardinality(Of(2)), Pairs \o Kickers)

(* The best of the 21 ways to leave two cards out. *)
Fives(cards) == {cards \ {a, b} : <<a, b>> \in {<<x, y>> \in cards \X cards : x < y}}

EvaluateHand(cards) == Max({EvaluateFive(hand) : hand \in Fives(cards)})
-----------------------------------------------------------------------------
RECURSIVE PaidTo(_)
PaidTo(keys) ==
  IF keys = {} THEN 0
  ELSE LET k == CHOOSE k \in keys : TRUE IN jackpot.claim[k].amount + PaidTo(keys \ {k})

(* What was ever added is in the pool or was awarded, each hand number once, and
   a claim needs a hand that qualified when it was shown. *)
JackpotsAccounted ==
  /\ jackpot.pool + PaidTo(Keys) = jackpot.funded
  /\ (\E k \in Keys : jackpot.claim[k] # Unclaimed) => jackpot.verified # {}

(* The rules of poker: what five cards hold, then their groups from the largest,
   the higher rank first; the ace of A-2-3-4-5 is low. *)
Worth(hand) ==
  LET ranks    == {Rank(c) : c \in hand}
      Count(q) == Cardinality({c \in hand : Rank(c) = q})
      weighed  == Down({16 * Count(q) + q : q \in ranks})
      sizes    == [i \in DOMAIN weighed |-> weighed[i] \div 16]
      groups   == [i \in DOMAIN weighed |-> weighed[i] % 16]
      low      == ranks = {0, 1, 2, 3, 12}
      run      == low \/ (Cardinality(ranks) = 5 /\ Max(ranks) - Min(ranks) = 4)
      suited   == \A c, d \in hand : Suit(c) = Suit(d)
      shapes   == <<<<1, 1, 1, 1, 1>>, <<2, 1, 1, 1>>, <<2, 2, 1>>, <<3, 1, 1>>, <<>>, <<>>,
                    <<3, 2>>, <<4, 1>>>>
      place    == CASE run /\ suited -> 9
                    [] run           -> 5
                    [] suited        -> 6
                    [] OTHER         -> CHOOSE i \in DOMAIN shapes : shapes[i] = sizes
  IN <<place>> \o (IF low THEN <<3, 2, 1, 0, -1>> ELSE groups)

Above(a, b) == \E i \in DOMAIN a : (\A j \in 1 .. i - 1 : a[j] = b[j]) /\ a[i] > b[i]

(* Of two players over one board the one with the better hand, by the rules, has the
   higher score, and equal hands have equal scores. *)
HandsRanked ==
  Len(jackpot.holes) = 2 =>
    LET Seven(i) == jackpot.board \union jackpot.holes[i]
        Best(i)  == LET worths == {Worth(h) : h \in Fives(Seven(i))}
                    IN CHOOSE w \in worths : \A v \in worths : ~Above(v, w)
    IN \A i, j \in 1 .. 2 :
         EvaluateHand(Seven(i)) > EvaluateHand(Seven(j)) <=> Above(Best(i), Best(j))
=============================================================================
