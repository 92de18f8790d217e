-------------------------------- MODULE Pots --------------------------------
(***************************************************************************)
(* How the chips of a hand are split into pots and paid out (pot.rs).      *)
(*                                                                         *)
(* The operators take a table record t with at least the fields            *)
(*   seats       sequence of the seated players, in seat order             *)
(*   committed   chips each player has put into the hand                   *)
(*   folded      players who have folded                                   *)
(*   allIn       players who are marked all-in                             *)
(*                                                                         *)
(* The contract builds its pots as an ascending vector; here a pot is      *)
(* named by its upper bound, so the pots of a hand are a function from     *)
(* bounds.  The order in which pots are paid makes no difference.          *)
(***************************************************************************)
EXTENDS Integers, Sequences, FiniteSets, FiniteSetsExt, Functions

Seated(t) == Range(t.seats)

(* Contenders: the seated players who have not folded. *)
Live(t) == Seated(t) \ t.folded

SeatOf(t, p) == CHOOSE i \in DOMAIN t.seats : t.seats[i] = p

FirstSeat(t, ps) == CHOOSE p \in ps : \A q \in ps : SeatOf(t, p) <= SeatOf(t, q)

SumOver(f, ps) == SumFunctionOnSet(f, ps)

(* floor(amount * bps / 10000) without the product that could overflow. *)
MulBps(amount, bps) ==
  (amount \div 10000) * bps + ((amount % 10000) * bps) \div 10000

(* The highest amount any contender has committed. *)
TopLevel(t) == Max({0} \cup {t.committed[p] : p \in Live(t)})

(* A pot ends where an all-in contender can go no further, and at the top. *)
Bounds(t) ==
  ({t.committed[p] : p \in Live(t) \cap t.allIn} \cup {TopLevel(t)}) \ {0}

LowerBound(t, b) == Max({0} \cup {x \in Bounds(t) : x < b})

(* Mutants: the excess is not clamped at 0; every layer is cut at its bound. *)
PaidInto_Unclamped(t, b, p) ==
  (IF b = TopLevel(t) THEN t.committed[p] ELSE Min({t.committed[p], b}))
    - LowerBound(t, b)
PaidInto_Cut(t, b, p) == Max({0, Min({t.committed[p], b}) - LowerBound(t, b)})

(* What p has put between the lower bound of pot b and its upper bound.  The
   last pot has no upper bound: it also takes the dead money that folded
   players committed beyond every contender. *)
PaidInto(t, b, p) ==
  LET reach == IF b = TopLevel(t) THEN t.committed[p]
                                  ELSE Min({t.committed[p], b})
  IN  Max({0, reach - LowerBound(t, b)})

(* Mutant: folded players stay eligible. *)
CalculateSidePots_FoldedToo(t) ==
  [b \in Bounds(t) |->
     [amount   |-> SumOver([p \in Seated(t) |-> PaidInto(t, b, p)], Seated(t)),
      eligible |-> {p \in Seated(t) : t.committed[p] >= b}]]

(* Everybody pays into a pot; the contenders who reach its bound can win it. *)
CalculateSidePots(t) ==
  [b \in Bounds(t) |->
     [amount   |-> SumOver([p \in Seated(t) |-> PaidInto(t, b, p)], Seated(t)),
      eligible |-> {p \in Live(t) : t.committed[p] >= b}]]

(* Rake is taken from each pot on its own. *)
RakeOf(pot, bps) == MulBps(pot.amount, bps)
(* Mutant: the pots are paid out before the rake. *)
ApplyRake_Gross(pots, bps) == pots

ApplyRake(pots, bps) ==
  [b \in DOMAIN pots |-> [pots[b] EXCEPT !.amount = @ - RakeOf(pots[b], bps)]]
TotalRake(pots, bps) ==
  SumOver([b \in DOMAIN pots |-> RakeOf(pots[b], bps)], DOMAIN pots)
PotTotal(pots) == SumOver([b \in DOMAIN pots |-> pots[b].amount], DOMAIN pots)

(* House share and jackpot share of a rake. *)
SplitJackpotRake(rake, shareBps) ==
  LET jackpot == MulBps(rake, shareBps)
  IN  [house |-> rake - jackpot, jackpot |-> jackpot]

(* Mutants: the proved winners take every pot; the proof is ignored. *)
Recipients_AnyPot(t, pot, best) == best \cap Live(t)
Recipients_FirstEligible(t, pot, best) == {FirstSeat(t, pot.eligible)}

(* The proved best hands (the winner and those tied with her) share a pot if
   any of them can win it; otherwise it goes to the first seat that can. *)
Recipients(t, pot, best) ==
  LET tied == pot.eligible \cap best \cap Live(t)
  IN  IF tied # {} THEN tied ELSE {FirstSeat(t, pot.eligible)}

(* Mutant: the odd chips are dropped. *)
EqualShare_RoundedDown(t, amount, ps, p) ==
  IF p \in ps THEN amount \div Cardinality(ps) ELSE 0

(* Equal shares; the odd chips go one each to the earliest seats. *)
EqualShare(t, amount, ps, p) ==
  LET earlier == {q \in ps : SeatOf(t, q) < SeatOf(t, p)}
      odd     == IF Cardinality(earlier) < amount % Cardinality(ps) THEN 1 ELSE 0
  IN  IF p \in ps THEN amount \div Cardinality(ps) + odd ELSE 0

(* What p wins when the pots are distributed. *)
PayoutTo(t, pots, best, p) ==
  SumOver([b \in DOMAIN pots |->
             EqualShare(t, pots[b].amount, Recipients(t, pots[b], best), p)],
          DOMAIN pots)
=============================================================================
