----------------------------- MODULE LobbySeats -----------------------------
(***************************************************************************)
(* Who sits where, as the coordinator has it, and whose cards it hands     *)
(* out.  A solo table is joined with identities the coordinator signs for, *)
(* and the lobby says which wallet plays for which of them.  A hand is     *)
(* dealt to the seats of a cached view of the table; a player reads her    *)
(* cards from the nodes after the lock on the sessions is released, and    *)
(* the commitment kept with the session says if they are hers.  One table; *)
(* a commitment is the number of the hand it was made for.                 *)
(***************************************************************************)
EXTENDS Integers, Sequences, FiniteSets, SequencesExt

CONSTANTS
  Wallets,       \* accounts of players
  Locals,        \* the identities the coordinator signs for, in the order it tries them
  MaxPlayers,
  Attempts,      \* MAX_RECONSTRUCTION_ATTEMPTS
  MaxHands       \* bound on the hands dealt

VARIABLE lob

NoSession == [order |-> <<>>, committed |-> 0]
Waiting   == 0     \* a read that is not answered yet
Refused   == -1
Mixed     == -2    \* cards that no deck has at those places
Nobody    == [by |-> "nobody", seat |-> "none"]
NoRead    == [by |-> "nobody", index |-> 0, committed |-> 0, hand |-> Refused,
              rounds |-> 0, decks |-> {}, attempt |-> 1]
Rounds    == 3

(* The nodes hold the deck of hand `deck`, dealt to the players `dealt`; `hand` is
   the last one committed on chain, to the seats `owners`.  `read` is the last
   request for cards: the calls made of the nodes, the decks that these had, and the
   hand it was answered with. *)
Init ==
  lob = [seats |-> <<>>, phase |-> "Waiting", hand |-> 0, owners |-> <<>>, lobby |-> {},
         cached |-> {}, session |-> NoSession, request |-> <<>>, creating |-> Nobody, deck |-> 0,
         dealt |-> <<>>, read |-> NoRead]

Seated(a) == a \in {lob.seats[i] : i \in DOMAIN lob.seats}
Idle      == lob.request = <<>>

Assigned(wallet, address) == {m \in lob.lobby : m[1] # wallet} \union {<<wallet, address>>}

-----------------------------------------------------------------------------
(* The table contract: wallets sit down before the first hand; whoever leaves
   between hands moves the later seats, and somebody who waits may take the place. *)
Sit(w) ==
  /\ lob.phase = "Waiting" /\ ~Seated(w) /\ Len(lob.seats) < MaxPlayers
  /\ lob' = [lob EXCEPT !.seats = Append(@, w)]

Leave(a, replacement) ==
  /\ lob.phase \in {"Waiting", "Settlement"} /\ Seated(a)
  /\ ~Seated(replacement) \/ replacement = a
  /\ LET rest == SelectSeq(lob.seats, LAMBDA s : s # a)
     IN  lob' = [lob EXCEPT !.seats = IF replacement = a THEN rest ELSE Append(rest, replacement)]

HandEnds ==
  /\ lob.phase = "Playing"
  /\ lob' = [lob EXCEPT !.phase = "Settlement", !.owners = <<>>]

-----------------------------------------------------------------------------
(* create_table in solo mode: two identities sit down, one after the other, and
   the lobby notes which of them the caller plays for. *)
Unseated == SelectSeq(Locals, LAMBDA l : ~Seated(l))

CreateSolo(w) ==
  /\ lob.creating = Nobody /\ lob.seats = <<>> /\ lob.phase = "Waiting"
  /\ lob' = [lob EXCEPT !.creating = [by |-> w, seat |-> "none"]]

JoinNextLocal ==
  lob.phase = "Waiting" /\ Unseated # <<>> /\ Len(lob.seats) < MaxPlayers

JoinCreator ==
  /\ lob.creating # Nobody /\ lob.creating.seat = "none" /\ JoinNextLocal
  /\ lob' = [lob EXCEPT !.seats = Append(@, Head(Unseated)), !.creating.seat = Head(Unseated)]

JoinBot(answered) ==
  /\ lob.creating.seat # "none" /\ JoinNextLocal
  /\ lob' = [lob EXCEPT
       !.seats = Append(@, Head(Unseated)), !.creating = Nobody,
       !.lobby = IF answered THEN Assigned(lob.creating.by, lob.creating.seat) ELSE @]

CreateFails ==
  /\ lob.creating # Nobody
  /\ lob' = [lob EXCEPT !.creating = Nobody]

-----------------------------------------------------------------------------
(* The cache in front of the chain; an entry is forgotten after a while. *)
CacheView == lob.cached = {} /\ lob' = [lob EXCEPT !.cached = {lob.seats}]
Expire    == lob.cached # {} /\ lob' = [lob EXCEPT !.cached = {}]
Views     == IF lob.cached = {} THEN {lob.seats} ELSE lob.cached

(* join_table: the caller has sat down on chain, in the view at hand. *)
JoinTable(w) ==
  /\ lob.phase = "Waiting"
  /\ \E view \in Views : w \in {view[i] : i \in DOMAIN view}
  /\ lob' = [lob EXCEPT !.lobby = Assigned(w, w)]

(* The players of the next hand: per seat whoever plays for it in the lobby (one
   of them, if there are several), or the seat's own address. *)
PlayersFor(address) ==
  IF \E m \in lob.lobby : m[2] = address THEN {m[1] : m \in {n \in lob.lobby : n[2] = address}}
  ELSE {address}

ResolveDealPlayers ==
  {order \in UNION {[DOMAIN view -> Wallets \union {Locals[i] : i \in DOMAIN Locals}] : view \in Views} :
     /\ Len(order) >= 2 /\ IsInjective(order)
     /\ \E view \in Views : \A i \in DOMAIN order : order[i] \in PlayersFor(view[i])}

(* request_deal: the nodes shuffle and deal a deck for the players ... *)
RequestDeal ==
  /\ Idle /\ lob.deck < MaxHands
  /\ lob.phase \in {"Waiting", "Settlement", "Dealing"}
  /\ \E order \in ResolveDealPlayers :
       lob' = [lob EXCEPT !.request = order, !.dealt = order, !.deck = @ + 1]

(* ... the contract starts the hand if need be, and takes as many commitments as
   it has players. *)
CommitDeal ==
  /\ ~Idle /\ lob.phase \in {"Waiting", "Settlement", "Dealing"}
  /\ Len(lob.request) = Len(lob.seats)
  /\ lob' = [lob EXCEPT !.request = <<>>, !.phase = "Playing", !.hand = lob.deck,
                        !.owners = lob.seats, !.cached = {},
                        !.session = [order |-> lob.request, committed |-> lob.deck]]

(* No answer, or a refusal of the commitments of a hand just started. *)
DealFails ==
  /\ ~Idle
  /\ \E phase \in {lob.phase, "Dealing"} :
       lob' = [lob EXCEPT !.request = <<>>, !.phase = IF lob.phase = "Playing" THEN @ ELSE phase]

-----------------------------------------------------------------------------
(* ensure_session_exists: the seats and the commitments on chain, which has none
   until the hand is dealt. *)
Rehydrate ==
  /\ Idle /\ lob.session = NoSession /\ Len(lob.seats) >= 2
  /\ lob' = [lob EXCEPT !.session =
       [order |-> lob.seats,
        committed |-> IF lob.phase \in {"Playing", "Settlement"} THEN lob.hand ELSE 0]]

(* get_player_cards, while it holds the lock ... *)
RequestCards(a) ==
  /\ Idle /\ lob.read.hand # Waiting
  /\ \E i \in DOMAIN lob.session.order :
       /\ lob.session.order[i] = a
       /\ lob' = [lob EXCEPT !.read =
            [NoRead EXCEPT !.by = a, !.index = i, !.committed = lob.session.committed,
                           !.hand = Waiting]]

(* ... and after that resolve_hole_cards: all nodes are asked for their salts and
   node 2 for the places in node 1's permutation, then node 1, then node 0.  A deck
   may be dealt between two of these calls. *)
Lookup ==
  /\ lob.read.hand = Waiting /\ lob.read.rounds < Rounds /\ lob.deck # 0
  /\ lob' = [lob EXCEPT !.read.rounds = @ + 1, !.read.decks = @ \union {lob.deck}]

(* The calls are over. *)
Answered(hand) ==
  [lob.read EXCEPT !.hand = hand, !.rounds = 0, !.decks = {}, !.attempt = 1]

LookupFails ==
  /\ lob.read.hand = Waiting
  /\ lob' = [lob EXCEPT !.read = Answered(Refused)]

Found(read) == IF Cardinality(read.decks) = 1 THEN CHOOSE d \in read.decks : TRUE ELSE Mixed

(* Mutant: what the nodes answer is not held against the commitment. *)
ResolveCards_Unvalidated ==
  /\ lob.read.hand = Waiting /\ lob.read.rounds = Rounds
  /\ lob' = [lob EXCEPT !.read = Answered(Found(lob.read))]

(* resolve_validated: cards that do not fit the commitment are asked for again, a few
   times; what nothing was committed to passes. *)
ResolveCards ==
  /\ lob.read.hand = Waiting /\ lob.read.rounds = Rounds
  /\ lob' = [lob EXCEPT !.read =
       IF @.committed \in {0, Found(@)} THEN Answered(Found(@))
       ELSE IF @.attempt < Attempts
            THEN [lob.read EXCEPT !.attempt = @ + 1, !.rounds = 0, !.decks = {}]
            ELSE Answered(Refused)]

-----------------------------------------------------------------------------
Restart ==
  lob' = [lob EXCEPT !.session = NoSession, !.lobby = {}, !.request = <<>>, !.creating = Nobody, !.cached = {}, !.read = NoRead]

Next ==
  \/ \E w \in Wallets : Sit(w) \/ CreateSolo(w) \/ JoinTable(w)
  \/ \E a \in {lob.seats[i] : i \in DOMAIN lob.seats} : \E b \in Wallets \union {a} : Leave(a, b)
  \/ \E a \in Wallets : RequestCards(a)
  \/ HandEnds \/ JoinCreator \/ CreateFails
  \/ \E answered \in BOOLEAN : JoinBot(answered)
  \/ CacheView \/ Expire
  \/ RequestDeal \/ CommitDeal \/ DealFails
  \/ Rehydrate \/ Lookup \/ LookupFails \/ ResolveCards
  \/ Restart

Spec == Init /\ [][Next]_lob
-----------------------------------------------------------------------------
(* While a hand is played, cards that the commitments vouch for go to whoever they
   were dealt to, or to whoever has the seat on chain, which is the same seat unless
   the hand was dealt for a view of the table that was out of date; and they are the
   cards of one deck, though the nodes are asked one after the other while the next
   hand may be dealt. *)
CardsToOwner ==
  lob.read.committed # 0 =>
    /\ lob.read.hand # Mixed
    /\ lob.phase = "Playing" /\ lob.read.hand = lob.hand =>
         lob.read.by \in {lob.owners[lob.read.index], lob.dealt[lob.read.index]}
=============================================================================
