--------------------------- MODULE HandCoordinator ---------------------------
(***************************************************************************)
(* The coordinator carries a hand from one phase of the contract to the    *)
(* next: it gets a proof from the MPC nodes, submits it and then notes the *)
(* new phase in its in-memory session of the table.  A request holds the   *)
(* lock on the sessions until it is answered.  One table; the session's    *)
(* cards are the hand they belong to.  The phases showdown_run1 and        *)
(* showdown_run2, which nothing ever sets, are left out, and so is the     *)
(* cached answer to a reveal, which only they could reach.                 *)
(***************************************************************************)
EXTENDS Integers

CONSTANTS
  HotReload,     \* the sessions are saved to a file now and then, and read at the start
  MaxHands       \* bound on the hands started on chain

VARIABLE co

Betting  == {"Preflop", "Flop", "Turn", "River"}
NextDeal == [Preflop |-> "DealingFlop", Flop |-> "DealingTurn", Turn |-> "DealingRiver",
             River |-> "Showdown"]
Streets  == {"flop", "turn", "river"}
Before   == [flop |-> "preflop", turn |-> "flop", river |-> "turn"]
(* The phase in which the contract takes the board of a street, and those it may
   enter then: with nobody left to act it goes straight on. *)
AwaitedIn   == [flop |-> "DealingFlop", turn |-> "DealingTurn", river |-> "DealingRiver"]
BoardOpened == [flop |-> {"Flop", "DealingTurn"}, turn |-> {"Turn", "DealingRiver"},
                river |-> {"River", "Showdown"}]

(* map_onchain_phase_to_local *)
Local ==
  [Waiting |-> "waiting", Dealing |-> "dealing", Preflop |-> "preflop",
   DealingFlop |-> "preflop", Flop |-> "flop", DealingTurn |-> "flop", Turn |-> "turn",
   DealingRiver |-> "turn", River |-> "river", Showdown |-> "river",
   Settlement |-> "settlement"]

NoSession == [phase |-> "none", hand |-> 0]
NoRequest == [kind |-> "none", stage |-> "none"]
Restored  == [phase |-> Local[co.phase], hand |-> co.hand]   \* build_session_from_onchain_state

Init ==
  co = [phase |-> "Waiting", hand |-> 0, session |-> NoSession,
        request |-> NoRequest, fetched |-> {}, saved |-> NoSession]

-----------------------------------------------------------------------------
(* The table contract, as the coordinator meets it: somebody may start a hand,
   the players bet, fold or run out of time, anybody may cancel a stuck hand. *)
HandStarted(state) == [state EXCEPT !.phase = "Dealing", !.hand = @ + 1]

StartHand ==
  /\ co.phase \in {"Waiting", "Settlement"} /\ co.hand < MaxHands
  /\ co' = HandStarted(co)

BettingEnds == co.phase \in Betting /\ co' = [co EXCEPT !.phase = NextDeal[@]]

HandEnds ==
  /\ co.phase \in Betting \union {"Dealing", "DealingFlop", "DealingTurn", "DealingRiver", "Showdown"}
  /\ co' = [co EXCEPT !.phase = "Settlement"]

-----------------------------------------------------------------------------
(* request_deal.  A table without a session gets a waiting one, whatever the
   contract says of the table. *)
MayDeal(session) == session.phase \in {"none", "waiting", "settlement"}

RequestDeal ==
  /\ co.request = NoRequest
  /\ MayDeal(co.session)
  /\ co' = [co EXCEPT !.session.phase = IF @ = "none" THEN "waiting" ELSE @,
                      !.request = [kind |-> "deal", stage |-> "proving"]]

(* maybe_start_hand_for_deal, when the proof is there. *)
PrepareDeal ==
  /\ co.request = [kind |-> "deal", stage |-> "proving"]
  /\ \/ /\ co.phase = "Dealing"
        /\ co' = [co EXCEPT !.request.stage = "submitting"]
     \/ /\ co.phase \in {"Waiting", "Settlement"} /\ co.hand < MaxHands
        /\ co' = [HandStarted(co) EXCEPT !.request.stage = "submitting"]

(* commit_deal is accepted and the answer arrives ... *)
CommitDeal ==
  /\ co.request = [kind |-> "deal", stage |-> "submitting"]
  /\ co.phase = "Dealing"
  /\ co' = [co EXCEPT !.phase = "Preflop", !.request = NoRequest,
                      !.session = [phase |-> "preflop", hand |-> co.hand]]

(* ... or it is lost and the request fails, the session as it was. *)
CommitDealUnanswered ==
  /\ co.request = [kind |-> "deal", stage |-> "submitting"]
  /\ co.phase = "Dealing"
  /\ co' = [co EXCEPT !.phase = "Preflop", !.request = NoRequest]

(* No proof, a node or the contract refuses, or the caller goes away. *)
RequestFails ==
  /\ co.request # NoRequest
  /\ co' = [co EXCEPT !.request = NoRequest]

-----------------------------------------------------------------------------
(* ensure_session_exists: the contract is read first, and the session made from
   what it said only if there is still none. *)
FetchTable ==
  /\ co.session = NoSession
  /\ co' = [co EXCEPT !.fetched = @ \union {Restored}]

Rehydrate ==
  \E s \in co.fetched :
    co' = [co EXCEPT !.fetched = @ \ {s}, !.session = IF @ = NoSession THEN s ELSE @]

(* Mutant: a refused submission is answered like an accepted one. *)
RequestReveal_Presumed(street) ==
  /\ co.request = NoRequest
  /\ co.session.phase = Before[street]
  /\ co' = [co EXCEPT !.session.phase = street]

(* request_reveal.  While the players still bet, maybe_auto_advance_betting
   calls player_action without its sequence number, which the contract refuses. *)
RequestReveal(street) ==
  /\ co.request = NoRequest
  /\ co.session.phase = Before[street]
  /\ co' = [co EXCEPT !.request = [kind |-> street, stage |-> "submitting"]]

Revealed(street, answered) ==
  /\ co.request = [kind |-> street, stage |-> "submitting"]
  /\ co.phase = AwaitedIn[street]
  /\ \E next \in BoardOpened[street] :
       co' = [co EXCEPT !.phase = next, !.request = NoRequest,
                        !.session.phase = IF answered THEN street ELSE @]

-----------------------------------------------------------------------------
(* request_showdown; a settled session answers from its record. *)
RequestShowdown ==
  /\ co.request = NoRequest
  /\ co.session.phase = "river"
  /\ co' = [co EXCEPT !.request = [kind |-> "showdown", stage |-> "submitting"]]

SubmitShowdown(answered) ==
  /\ co.request = [kind |-> "showdown", stage |-> "submitting"]
  /\ co.phase = "Showdown"
  /\ co' = [co EXCEPT !.phase = "Settlement",
                      !.request = IF answered THEN NoRequest
                                  ELSE [kind |-> "showdown", stage |-> "timeout"],
                      !.session.phase = IF answered THEN "settlement" ELSE @]

ShowdownRefused ==
  /\ co.request = [kind |-> "showdown", stage |-> "submitting"]
  /\ co' = [co EXCEPT !.request.stage = "timeout"]

(* claim_timeout, tried after every error.  The contract acts on a player who is
   late in a betting round; the hand may end, go on in the round or leave it.  The
   session is settled in any case. *)
TimeoutFallback ==
  /\ co.request = [kind |-> "showdown", stage |-> "timeout"]
  /\ co.phase \in Betting
  /\ \E next \in {co.phase, NextDeal[co.phase], "Settlement"} :
       co' = [co EXCEPT !.phase = next, !.request = NoRequest,
                        !.session.phase = "settlement"]

-----------------------------------------------------------------------------
(* write_snapshot waits for the request that holds the sessions. *)
Snapshot ==
  /\ HotReload /\ co.request = NoRequest
  /\ co' = [co EXCEPT !.saved = co.session]

(* Requests and answers on their way are lost; the sessions are those of the last
   snapshot, if one is kept. *)
Restart ==
  co' = [co EXCEPT !.session = co.saved, !.request = NoRequest, !.fetched = {}]

ChainStep == StartHand \/ BettingEnds \/ HandEnds
Deal      == RequestDeal \/ PrepareDeal \/ CommitDeal
Showdown  == RequestShowdown \/ SubmitShowdown(TRUE)
Reveal    == \E street \in Streets : RequestReveal(street) \/ Revealed(street, TRUE)
Fault ==
  \/ CommitDealUnanswered
  \/ RequestFails
  \/ \E street \in Streets : Revealed(street, FALSE)
  \/ SubmitShowdown(FALSE)
  \/ ShowdownRefused
  \/ TimeoutFallback
  \/ Restart

Next == ChainStep \/ Deal \/ Reveal \/ Showdown \/ FetchTable \/ Rehydrate \/ Snapshot \/ Fault

Spec == Init /\ [][Next]_co

(* Somebody keeps asking for the next deal, and a deal that may go through does. *)
Fair == Spec /\ WF_co(RequestDeal) /\ SF_co(PrepareDeal) /\ SF_co(CommitDeal)
-----------------------------------------------------------------------------
Rank(phase) ==
  CASE phase \in {"Waiting", "Dealing", "waiting", "dealing"}         -> 0
    [] phase \in {"Preflop", "DealingFlop", "preflop"}                -> 1
    [] phase \in {"Flop", "DealingTurn", "flop"}                      -> 2
    [] phase \in {"Turn", "DealingRiver", "turn"}                     -> 3
    [] phase \in {"River", "Showdown", "river"}                       -> 4
    [] OTHER                                                          -> 5

(* The session never shows a street of the hand on chain before the contract
   has its board, whatever requests fail, answers are lost or restarts happen. *)
StreetNotAhead ==
  co.session.phase \in {"preflop"} \union Streets =>
    \/ co.session.hand < co.hand
    \/ Rank(co.session.phase) <= Rank(co.phase)

(* A finished hand is followed by another while somebody keeps asking for one. *)
HandsGoOn ==
  \A h \in 1 .. MaxHands - 1 : (co.hand = h /\ co.phase = "Settlement") ~> co.hand > h
=============================================================================
