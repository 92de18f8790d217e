------------------------------- MODULE MCPots -------------------------------
(* Every showdown of four players over a few commitments, settled by
   the operators of Pots and compared with a definition of what each single
   chip may be won by. *)
EXTENDS Pots, TLC

CONSTANTS
  Seating,      \* the seated players, in seat order
  Commitments,  \* chips a player may have committed
  RakeBps       \* rake in basis points

ASSUME ShowdownAssumption ==
  /\ Seating \in Seq(Range(Seating)) /\ IsFiniteSet(Range(Seating))
  /\ Commitments \subseteq Nat /\ IsFiniteSet(Commitments)
  /\ RakeBps \in Nat /\ RakeBps <= 10000

VARIABLES hand, best, paid

MCSeating == <<"a", "b", "c", "d">>

vars == <<hand, best, paid>>

(* What betting leaves at a showdown: at least two contenders, of whom one has
   chips in; those not all-in have matched everybody. *)
Showdowns ==
  {h \in [seats     : {Seating},
          committed : [Range(Seating) -> Commitments],
          folded    : SUBSET Range(Seating),
          allIn     : SUBSET Range(Seating)] :
     /\ Cardinality(Live(h)) >= 2
     /\ TopLevel(h) > 0
     /\ h.allIn \subseteq {p \in Live(h) : h.committed[p] > 0}
     /\ \A p \in Live(h) \ h.allIn :
          \A q \in Range(Seating) : h.committed[q] <= h.committed[p]}

Unpaid == [p \in Range(Seating) |-> 0]

Init ==
  /\ hand \in Showdowns
  /\ best = {}
  /\ paid = Unpaid

(* settle_showdown's distribution, for any set of proved best hands that holds
   a contender. *)
Settle ==
  /\ best = {}
  /\ best' \in {ps \in SUBSET Range(Seating) : ps \cap Live(hand) # {}}
  /\ LET pots == ApplyRake(CalculateSidePots(hand), RakeBps)
     IN  paid' = [p \in Range(Seating) |-> PayoutTo(hand, pots, best', p)]
  /\ UNCHANGED hand

Next == Settle
Spec == Init /\ [][Next]_vars

-----------------------------------------------------------------------------
(* Reference: chip k of a player is contested by the contenders who have put in
   at least k chips, or by the deepest contenders when nobody has. *)
Contest(k) ==
  {p \in Live(hand) : hand.committed[p] >= Min({k, TopLevel(hand)})}

ChipsContestedBy(ps) ==
  LET chips(p) == {k \in 1 .. hand.committed[p] : Contest(k) = ps}
  IN  SumOver([p \in Range(Seating) |-> Cardinality(chips(p))], Range(Seating))

TypeOK ==
  /\ hand.committed \in [Range(Seating) -> Commitments]
  /\ best \subseteq Range(Seating)
  /\ paid \in [Range(Seating) -> Nat]

(* calculate_side_pots agrees with the chip-by-chip reference: for every group
   of contenders, the pots they contest hold exactly the chips they matched,
   and so no chip is orphaned or counted twice (pot.rs:97-113). *)
PotsMatchChips ==
  best = {} =>
    LET pots  == CalculateSidePots(hand)
        tiers == {Contest(k) : k \in 1 .. Max(Commitments)}
    IN  /\ \A b \in DOMAIN pots : pots[b].eligible \in tiers
        /\ \A ps \in tiers :
             ChipsContestedBy(ps) =
               SumOver([b \in DOMAIN pots |->
                          IF pots[b].eligible = ps THEN pots[b].amount ELSE 0],
                       DOMAIN pots)

(* Nobody wins chips she did not match: a contender below the top gets from
   each player at most what she herself put in, and a folded player gets
   nothing (pot.rs:319). *)
OnlyMatchedChipsWon ==
  best # {} => \A p \in Range(Seating) :
    /\ p \in hand.folded => paid[p] = 0
    /\ hand.committed[p] < TopLevel(hand) =>
         paid[p] <= SumOver([q \in Range(Seating) |->
                               Min({hand.committed[p], hand.committed[q]})],
                            Range(Seating))

(* After a settlement everything committed was paid out, less a rake that is
   at most the advertised share of the whole pot. *)
PaidInFull ==
  best # {} =>
    LET committed == SumOver(hand.committed, Range(Seating))
        out       == SumOver(paid, Range(Seating))
        raked     == TotalRake(CalculateSidePots(hand), RakeBps)
    IN  out + raked = committed /\ 10000 * raked <= committed * RakeBps

(* A sole proved winner who is a contender and has committed at least as much
   as everybody else takes the whole net pot. *)
DeepWinnerTakesAll ==
  best # {} =>
    \A p \in Live(hand) :
      (best = {p} /\ \A q \in Range(Seating) : hand.committed[q] <= hand.committed[p])
        => \A q \in Range(Seating) \ {p} : paid[q] = 0
=============================================================================
