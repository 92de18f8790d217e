------------------------------- MODULE TableNft -------------------------------
(***************************************************************************)
(* Tables as tokens: owned, transferred, approved, listed and leased, with *)
(* transfers that wait for the end of a hand.  Rent goes from the renter   *)
(* to the owner and is left out, as are rules and looks, which nothing     *)
(* here reads back.                                                        *)
(***************************************************************************)
EXTENDS Integers, FiniteSets

CONSTANTS
  Accounts, Tables,
  MaxRent,          \* longest lease, in ticks of the ledger's clock
  MaxBalance        \* bound on the balance a transfer to oneself inflates

VARIABLE nft

Nobody    == "nobody"
NoRental  == [renter |-> Nobody, left |-> 0]
NoPending == [from |-> Nobody, to |-> Nobody, by |-> Nobody]

Init ==
  nft = [owner     |-> [t \in Tables |-> Nobody],
         balance   |-> [a \in Accounts |-> 0],
         approved  |-> [t \in Tables |-> Nobody],
         operators |-> {},                       \* pairs of owner and operator
         listed    |-> {},
         rental    |-> [t \in Tables |-> NoRental],
         hand      |-> {},                       \* tables with a hand in progress
         pending   |-> [t \in Tables |-> NoPending],
         reporter  |-> FALSE]

Minted    == {t \in Tables : nft.owner[t] # Nobody}
Rented(t) == nft.rental[t].left > 0              \* is_rented: an expired lease stays stored

Mint(a, t) ==
  /\ t \notin Minted
  /\ nft' = [nft EXCEPT !.owner[t] = a, !.balance[a] = @ + 1]

Approve(c, a, t) ==
  /\ t \in Minted
  /\ c = nft.owner[t] \/ <<nft.owner[t], c>> \in nft.operators
  /\ nft' = [nft EXCEPT !.approved[t] = a]

SetApprovalForAll(a, operator, yes) ==
  nft' = [nft EXCEPT !.operators = IF yes THEN @ \union {<<a, operator>>} ELSE @ \ {<<a, operator>>}]

MayMove(c, t) ==
  /\ t \in Minted
  /\ c = nft.owner[t] \/ <<nft.owner[t], c>> \in nft.operators \/ nft.approved[t] = c

(* execute_transfer reads both balances before it writes either, so a transfer
   to oneself adds one. *)
Moved(s, from, to, t) ==
  [s EXCEPT !.owner[t] = to, !.approved[t] = Nobody, !.listed = @ \ {t},
            !.balance[from] = IF @ > 0 THEN @ - 1 ELSE 0, !.balance[to] = s.balance[to] + 1]

Transfer(c, to, t) ==
  /\ MayMove(c, t) /\ t \notin nft.hand /\ ~Rented(t) /\ nft.balance[to] < MaxBalance
  /\ nft' = Moved(nft, nft.owner[t], to, t)

SetHandReporter == nft' = [nft EXCEPT !.reporter = TRUE]

ReportHandStarted(t) ==
  /\ nft.reporter /\ t \in Minted \ nft.hand
  /\ nft' = [nft EXCEPT !.hand = @ \union {t}]

(* complete_hand executes what was queued. *)
CompleteHand(t) ==
  LET p == nft.pending[t]
      over == [nft EXCEPT !.hand = @ \ {t}, !.pending[t] = NoPending]
  IN  nft' = IF p = NoPending THEN over ELSE Moved(over, p.from, p.to, t)

ReportHandCompleted(t) == nft.reporter /\ t \in nft.hand /\ CompleteHand(t)
ForceClearHand(t)      == t \in nft.hand /\ CompleteHand(t)

QueueTransfer(c, to, t) ==
  /\ MayMove(c, t) /\ t \in nft.hand /\ ~Rented(t)
  /\ nft.pending[t] = NoPending /\ nft.balance[to] < MaxBalance
  /\ nft' = [nft EXCEPT !.pending[t] = [from |-> nft.owner[t], to |-> to, by |-> c]]

CancelQueuedTransfer(c, t) ==
  /\ nft.pending[t] # NoPending
  /\ c = nft.pending[t].by \/ MayMove(c, t)
  /\ nft' = [nft EXCEPT !.pending[t] = NoPending]

ListForRent(t) ==
  /\ t \in Minted /\ ~Rented(t)
  /\ nft' = [nft EXCEPT !.listed = @ \union {t}]

DelistRental(t) == t \in Minted /\ nft' = [nft EXCEPT !.listed = @ \ {t}]

Leased(renter, t, duration) ==
  nft' = [nft EXCEPT !.rental[t] = [renter |-> renter, left |-> duration]]

(* Mutant: a lease may begin while a transfer waits for the hand to end. *)
RentTable_Queued(renter, t, duration) ==
  /\ t \in nft.listed /\ renter # nft.owner[t] /\ ~Rented(t)
  /\ Leased(renter, t, duration)

RentTable(renter, t, duration) ==
  /\ t \in nft.listed /\ renter # nft.owner[t] /\ ~Rented(t)
  /\ nft.pending[t] = NoPending
  /\ Leased(renter, t, duration)

DirectLease(renter, t, duration) ==
  /\ t \in Minted /\ ~Rented(t) /\ nft.pending[t] = NoPending
  /\ Leased(renter, t, duration)

TerminateExpiredRental(t) ==
  /\ nft.rental[t] # NoRental /\ ~Rented(t)
  /\ nft' = [nft EXCEPT !.rental[t] = NoRental]

Tick ==
  LET Shorter(rental) == [rental EXCEPT !.left = IF @ > 0 THEN @ - 1 ELSE 0]
  IN  nft' = [nft EXCEPT !.rental = [t \in Tables |-> Shorter(@[t])]]

Next ==
  \/ \E t \in Tables :
       \/ ReportHandStarted(t) \/ ReportHandCompleted(t) \/ ForceClearHand(t)
       \/ ListForRent(t) \/ DelistRental(t) \/ TerminateExpiredRental(t)
       \/ \E a \in Accounts :
            \/ Mint(a, t) \/ CancelQueuedTransfer(a, t)
            \/ \E b \in Accounts \union {Nobody} : Approve(a, b, t)
            \/ \E to \in Accounts : Transfer(a, to, t) \/ QueueTransfer(a, to, t)
            \/ \E d \in 1 .. MaxRent : RentTable(a, t, d) \/ DirectLease(a, t, d)
  \/ \E a, b \in Accounts, yes \in BOOLEAN : SetApprovalForAll(a, b, yes)
  \/ SetHandReporter \/ Tick

Spec == Init /\ [][Next]_nft
-----------------------------------------------------------------------------
(* A queued transfer is one of the present owner, of a table with a hand in
   progress and without a lease. *)
QueuedIsSound ==
  \A t \in Tables : nft.pending[t] # NoPending =>
    t \in nft.hand /\ nft.pending[t].from = nft.owner[t] /\ ~Rented(t)

(* A table changes hands neither during a hand nor under a lease, and goes where
   a waiting transfer says. *)
LeasesKept ==
  \A t \in Minted : nft'.owner[t] # nft.owner[t] =>
    /\ t \notin nft'.hand /\ ~Rented(t)
    /\ nft.pending[t] # NoPending => nft'.owner[t] = nft.pending[t].to

(* Nobody's balance falls below the tables she has; a transfer to oneself raises
   it, so it may well be above. *)
BalancesCover ==
  \A a \in Accounts : nft.balance[a] >= Cardinality({t \in Tables : nft.owner[t] = a})
=============================================================================
