----------------------------- MODULE PlayerStats -----------------------------
(***************************************************************************)
(* What is worked out about players and tables: statistics counted from    *)
(* the contract's events, which one task polls, with an answer kept for a  *)
(* while; the figures shown beside a seat, counted from the actions that   *)
(* pass through; the pairs of players whose hands look like chips being    *)
(* handed over, by the coordinator's measure and by the contract's; and    *)
(* the table contract's own records of its hands and its rake.  Each is a  *)
(* part with its own initial state.                                        *)
(***************************************************************************)
EXTENDS Integers, FiniteSets, FiniteSetsExt, SequencesExt

CONSTANTS
  Players,
  Events, MaxEvents,    \* of the contract: [kind, player, amount]; bound on their number
  PageLimit,            \* events in one answer of the event server
  Ttl, TopN,            \* of the kept answer, in ticks; players on its leaderboard
  MinHands,             \* for a rating
  MaxPlayed,            \* bound on the hands of one player
  Outcomes,             \* settled hands: [winner, players, pot]
  Window, MinEncounters, MinChips,
  ZThreshold,           \* in hundredths
  Capacity,             \* HAND_HISTORY_CAPACITY
  MaxActions,           \* MAX_ACTIONS_PER_HAND
  Rates,                \* of rake
  MaxSeats, MaxHands, MaxChanges, MaxNow,  \* bounds on a table's records
  Losses                 \* amounts that may be lost in a hand

VARIABLE tally

Ratio   == 1000         \* a base rate this close to 0 or 1 is taken for it
NoCache == [built |-> FALSE, hands |-> 0, joined |-> 0, biggest |-> 0, board |-> <<>>, age |-> 0]

-----------------------------------------------------------------------------
(* Statistics from events. *)
NewStore ==
  [cursor |-> 0, hands |-> 0, joined |-> 0, biggest |-> 0,
   played |-> [p \in Players |-> 0], ratings |-> <<>>, cached |-> NoCache,
   poll |-> "idle", page |-> <<>>]

IndexInit == tally = [events |-> <<>>, store |-> NewStore]

Emit(e) ==
  /\ Len(tally.events) < MaxEvents
  /\ tally' = [tally EXCEPT !.events = Append(@, e)]

(* poll_once: the cursor is read, the server asked, its page counted under the lock. *)
Ask ==
  /\ tally.store.poll = "idle"
  /\ tally' = [tally EXCEPT !.store.poll = "asked"]

Receive ==
  LET first == tally.store.cursor + 1
      last  == IF Len(tally.events) < tally.store.cursor + PageLimit
               THEN Len(tally.events) ELSE tally.store.cursor + PageLimit IN
  /\ tally.store.poll = "asked"
  /\ tally' = IF last < first THEN [tally EXCEPT !.store.poll = "idle"]
              ELSE [tally EXCEPT !.store.poll = "received",
                                 !.store.page = SubSeq(tally.events, first, last)]

AskFails ==
  /\ tally.store.poll \in {"asked", "received"}
  /\ tally' = [tally EXCEPT !.store.poll = "idle", !.store.page = <<>>]

Counted(s, e) ==
  CASE e.kind = "hand_started"  -> [s EXCEPT !.hands = @ + 1]
    [] e.kind = "player_joined" ->
         [s EXCEPT !.joined = @ + 1,
                   !.played = [p \in Players |-> IF p = e.player THEN @[p] + 1 ELSE @[p]]]
    [] e.kind = "rake_withdrawn" -> [s EXCEPT !.biggest = IF e.amount > @ THEN e.amount ELSE @]
    [] OTHER -> s

Apply ==
  /\ tally.store.poll = "received"
  /\ tally' = [tally EXCEPT !.store =
                 [FoldLeft(Counted, tally.store, tally.store.page) EXCEPT
                    !.cursor = @ + Len(tally.store.page), !.cached = NoCache,
                    !.poll = "idle", !.page = <<>>]]

(* Of players with as many hands, any order; nobody is ever counted as a winner. *)
Boards(s) ==
  LET known == {p \in Players : s.played[p] > 0} IN
  {SubSeq(b, 1, IF Len(b) < TopN THEN Len(b) ELSE TopN) :
     b \in {q \in SetToSeqs(known) :
              \A i, j \in DOMAIN q : i < j => s.played[q[i]] >= s.played[q[j]]}}

(* An answer that was kept and is not too old is given again as it is. *)
GetStats ==
  LET s == tally.store IN
  /\ ~s.cached.built \/ s.cached.age >= Ttl
  /\ \E b \in Boards(s) :
       tally' = [tally EXCEPT !.store.cached =
                   [built |-> TRUE, hands |-> s.hands, joined |-> s.joined,
                    biggest |-> s.biggest, board |-> b, age |-> 0]]

Tick ==
  /\ tally.store.cached.built /\ tally.store.cached.age < Ttl
  /\ tally' = [tally EXCEPT !.store.cached.age = @ + 1]

DemoRating(s, p) == IF 1500 - 3 * s.played[p] < 100 THEN 100 ELSE 1500 - 3 * s.played[p]

(* Worked out once, from whoever had enough hands by then. *)
EnsureDemoRatings ==
  LET s == tally.store
      rated == {p \in Players : s.played[p] >= MinHands} IN
  /\ s.ratings = <<>>
  /\ \E q \in SetToSeqs(rated) :
       /\ \A i, j \in DOMAIN q : i < j => DemoRating(s, q[i]) >= DemoRating(s, q[j])
       /\ tally' = [tally EXCEPT !.store.ratings =
                      [i \in DOMAIN q |-> [player |-> q[i], rating |-> DemoRating(s, q[i])]]]

Restart == tally' = [tally EXCEPT !.store = NewStore]

IndexNext ==
  \/ \E e \in Events : Emit(e)
  \/ Ask \/ Receive \/ AskFails \/ Apply \/ GetStats \/ Tick \/ EnsureDemoRatings \/ Restart

-----------------------------------------------------------------------------
(* The figures beside a seat. *)
NoFigures ==
  [seen |-> 0, vpip |-> 0, pfr |-> 0, raises |-> 0, calls |-> 0,
   inHand |-> FALSE, voluntary |-> FALSE, raised |-> FALSE]

HudInit == tally = [p \in Players |-> NoFigures]

(* A hand begins for a player with her first action in it. *)
Entered(c) ==
  IF c.inHand THEN c
  ELSE [c EXCEPT !.seen = @ + 1, !.inHand = TRUE, !.voluntary = FALSE, !.raised = FALSE]

Played(c, act, preflop) ==
  LET paid   == act \in {"call", "raise"} /\ ~c.voluntary
      opened == preflop /\ act = "raise" /\ ~c.raised IN
  [c EXCEPT !.vpip = IF paid THEN @ + 1 ELSE @,   !.voluntary = @ \/ paid,
            !.pfr  = IF opened THEN @ + 1 ELSE @, !.raised = @ \/ opened,
            !.raises = IF act = "raise" THEN @ + 1 ELSE @,
            !.calls  = IF act = "call" THEN @ + 1 ELSE @]

(* "raise" stands for bets and all-ins too, "pass" for checks and folds. *)
RecordPlayerAction(p, act, preflop) ==
  /\ Entered(tally[p]).seen <= MaxPlayed /\ tally[p].raises + tally[p].calls <= MaxPlayed
  /\ tally' = [tally EXCEPT ![p] = Played(Entered(@), act, preflop)]

EndHandForPlayers(some) ==
  tally' = [p \in Players |->
              IF p \in some
              THEN [tally[p] EXCEPT !.inHand = FALSE, !.voluntary = FALSE, !.raised = FALSE]
              ELSE tally[p]]

HudNext ==
  \/ \E p \in Players, act \in {"raise", "call", "pass"}, preflop \in BOOLEAN :
       RecordPlayerAction(p, act, preflop)
  \/ \E some \in SUBSET Players : EndHandForPlayers(some)

-----------------------------------------------------------------------------
(* Chips handed over: the last hands settled by a showdown, and who lost to whom. *)
DumpingInit == tally = <<>>

Observe(h) ==
  tally' = IF Len(tally) = Window THEN Append(Tail(tally), h) ELSE Append(tally, h)

Shared(s, b)  == {i \in DOMAIN tally : {s, b} \subseteq Range(tally[i].players)}
Lost(s, b)    == {i \in Shared(s, b) : tally[i].winner = b}
Wins(b)       == Cardinality({i \in DOMAIN tally : tally[i].winner = b})
Donation(i)   == tally[i].pot \div (Len(tally[i].players) - 1)
Donated(s, b) == MapThenSumSet(Donation, Lost(s, b))

(* The distance from what b wins of all hands, z * sqrt(n w (H - w)) without the root. *)
Exceeds(k, n, w, total) ==
  IF Ratio * w <= total THEN k > 0
  ELSE IF Ratio * (total - w) <= total THEN k = n
  ELSE /\ k * total >= n * w
       /\ 10000 * (k * total - n * w) * (k * total - n * w)
            >= ZThreshold * ZThreshold * n * w * (total - w)

Reported(s, b) ==
  LET n == Cardinality(Shared(s, b)) IN
  /\ s # b /\ n > 0 /\ n >= MinEncounters
  /\ Donated(s, b) > 0 => Donated(s, b) >= MinChips
  /\ Exceeds(Cardinality(Lost(s, b)), n, Wins(b), Len(tally))

Reports == {<<s, b>> \in Players \X Players : Reported(s, b)}

DumpingNext == \E h \in Outcomes : Observe(h)

-----------------------------------------------------------------------------
(* The table contract's measure of a pair, TRACKING_WINDOW hands of it.  Nothing in
   the contract keeps these figures yet. *)
TrackingWindow == 20
NoInteraction  == [losses |-> 0, folds |-> 0, total |-> 0, avg |-> 0]

PairInit == tally = NoInteraction

WithOutcome(s, outcome, amount) ==
  LET n == s.losses + 1 IN
  CASE outcome = "won"    -> [s EXCEPT !.total = @ + 1]
    [] outcome = "folded" -> [s EXCEPT !.total = @ + 1, !.folds = @ + 1]
    [] outcome = "lost"   -> [s EXCEPT !.total = @ + 1, !.losses = n,
                                       !.avg = (@ * (n - 1) + amount) \div n]

(* Past the window, what was counted fades by a fifth with every hand. *)
Faded(s) ==
  IF s.total <= TrackingWindow THEN s
  ELSE [s EXCEPT !.losses = (@ * 80) \div 100, !.folds = (@ * 80) \div 100,
                 !.total = TrackingWindow]

RecordHandOutcome(outcome, amount) == tally' = Faded(WithOutcome(tally, outcome, amount))

FoldRate(s)    == IF s.total = 0 THEN 0 ELSE (s.folds * 100) \div s.total
SmallLosses(s) == s.losses > 3 /\ s.avg \in 1 .. 499

Confidence(s) ==
  (IF s.losses >= 5 THEN 40 ELSE 0) + (IF FoldRate(s) >= 80 THEN 35 ELSE 0)
    + (IF SmallLosses(s) THEN 25 ELSE 0)

DetectChipDumping(s) == Confidence(s) >= 50

PairNext ==
  \E outcome \in {"won", "folded", "lost"}, amount \in Losses : RecordHandOutcome(outcome, amount)

-----------------------------------------------------------------------------
(* The table contract's records.  A ring has the last hands that were settled; the
   log has every change of the rake, and a table from before there was a log gets its
   first entry, at time 0, with its first change. *)
NoRecord == [hand |-> 0, actions |-> 0, shown |-> FALSE]
NoReader == [offset |-> 0, seen |-> {}, due |-> {}, ended |-> FALSE]

RecordsInit ==
  \E rate \in Rates : \E log \in {<<>>, <<[bps |-> rate, at |-> 0]>>} :
    tally = [hand |-> 0, playing |-> FALSE, seats |-> 2, actions |-> 0,
             ring |-> [slot \in 0 .. Capacity - 1 |-> NoRecord],
             next |-> 0, stored |-> 0, total |-> 0,
             wins |-> [k \in 1 .. MaxSeats |-> 0], variance |-> 0,
             rate |-> rate, log |-> log, now |-> 0,
             reader |-> NoReader,
             (* what a reader of the history knows *)
             settled |-> <<>>,               \* numbers of the hands settled
             inForce |-> <<rate>>]           \* the rate at the end of time 0, 1, ...

StartTableHand(seats) ==
  /\ ~tally.playing /\ tally.hand < MaxHands
  /\ tally' = [tally EXCEPT !.hand = @ + 1, !.playing = TRUE, !.actions = 0, !.seats = seats]

RecordAction ==
  /\ tally.playing
  /\ tally' = [tally EXCEPT !.actions = IF @ < MaxActions THEN @ + 1 ELSE @]

Capped(n, most) == IF n < most THEN n ELSE most

ArchiveHand(t, shown) ==
  [t EXCEPT !.ring[t.next] = [hand |-> t.hand, actions |-> t.actions, shown |-> shown],
            !.next = (@ + 1) % Capacity, !.stored = Capped(@ + 1, Capacity),
            !.total = @ + 1, !.settled = Append(@, t.hand), !.playing = FALSE]

OutcomeVariance(wins, seats) ==
  LET hands == MapThenSumSet(LAMBDA k : wins[k], 1 .. MaxSeats)
      deviation(k) == wins[k] * seats - hands IN
  (10000 * MapThenSumSet(LAMBDA k : deviation(k) * deviation(k), 1 .. seats))
    \div (hands * hands * seats)

RecordOutcome(t, winner) ==
  LET wins == [t.wins EXCEPT ![winner] = @ + 1] IN
  [t EXCEPT !.wins = wins, !.variance = OutcomeVariance(wins, t.seats)]

SettleShowdown(winner) ==
  /\ tally.playing /\ winner \in 1 .. tally.seats
  /\ tally' = ArchiveHand(RecordOutcome(tally, winner), TRUE)

(* Everybody else folded, or the board was run twice: no outcome is counted. *)
SettleOtherwise(twice) == tally.playing /\ tally' = ArchiveHand(tally, twice)

(* Refunds: the hand is in no record. *)
EmergencyRefund == tally.playing /\ tally' = [tally EXCEPT !.playing = FALSE]

(* From `offset` behind the newest; the page of a ring is read backwards. *)
GetHistoryChunk(t, offset, limit) ==
  LET take == Capped(limit, t.stored - offset) IN
  IF offset >= t.stored THEN <<>>
  ELSE [i \in 1 .. take |-> t.ring[(t.next - offset - i) % Capacity].hand]

Stored(t) == ToSet(GetHistoryChunk(t, 0, Capacity))

(* Somebody reads all of it page by page, while hands are played. *)
BeginReading == tally' = [tally EXCEPT !.reader = [NoReader EXCEPT !.due = Stored(tally)]]

ReadPage ==
  LET page == GetHistoryChunk(tally, tally.reader.offset, PageLimit) IN
  /\ ~tally.reader.ended
  /\ tally' = [tally EXCEPT !.reader.offset = @ + Len(page), !.reader.seen = @ \cup ToSet(page),
                            !.reader.ended = page = <<>>]

HistoryNext ==
  \/ \E seats \in 2 .. MaxSeats : StartTableHand(seats)
  \/ \E winner \in 1 .. MaxSeats : SettleShowdown(winner)
  \/ \E twice \in BOOLEAN : SettleOtherwise(twice)
  \/ RecordAction \/ EmergencyRefund \/ BeginReading \/ ReadPage

(* A change to the same rate is none. *)
RecordChange(log, rate, new) ==
  IF new = rate THEN log
  ELSE Append(IF log = <<>> THEN <<[bps |-> rate, at |-> 0]>> ELSE log,
              [bps |-> new, at |-> tally.now])

SetRakeBps(new) ==
  /\ Len(tally.log) < MaxChanges
  /\ tally' = [tally EXCEPT !.rate = new, !.log = RecordChange(@, tally.rate, new),
                            !.inForce[Len(tally.inForce)] = new]

Later ==
  /\ tally.now < MaxNow
  /\ tally' = [tally EXCEPT !.now = @ + 1, !.inForce = Append(@, tally.rate)]

(* rake_bps_at: a binary search for the number of entries at or before `time`. *)
RakeBpsAt(time) ==
  LET search[lo \in 0 .. MaxChanges, hi \in 0 .. MaxChanges] ==
        LET mid == lo + (hi - lo) \div 2 IN
        IF lo >= hi THEN lo
        ELSE IF tally.log[mid + 1].at <= time THEN search[mid + 1, hi] ELSE search[lo, mid]
      n == search[0, Len(tally.log)]
  IN  IF n = 0 THEN -1 ELSE tally.log[n].bps

RakeNext == Later \/ \E rate \in Rates : SetRakeBps(rate)

-----------------------------------------------------------------------------
(* Whatever polls failed, and however the pages fell, every event up to the cursor is
   counted once, and an answer that is kept is what would be worked out now. *)
CountsMatchEvents ==
  LET s == tally.store
      Seen(kind) == {i \in 1 .. s.cursor : tally.events[i].kind = kind} IN
  /\ s.cursor <= Len(tally.events)
  /\ s.hands = Cardinality(Seen("hand_started"))
  /\ s.joined = Cardinality(Seen("player_joined"))
  /\ \A p \in Players :
       s.played[p] = Cardinality({i \in Seen("player_joined") : tally.events[i].player = p})
  /\ \A i \in Seen("rake_withdrawn") : tally.events[i].amount <= s.biggest
  /\ s.cached.built =>
       /\ <<s.cached.hands, s.cached.joined, s.cached.biggest>> = <<s.hands, s.joined, s.biggest>>
       /\ s.cached.board \in Boards(s)

(* Nobody raised before the flop in more hands than she paid for, or paid in more than
   she was seen in, or without as many bets and calls. *)
FiguresAreShares ==
  \A p \in Players :
    LET c == tally[p] IN
    c.pfr <= c.vpip /\ c.vpip <= c.seen /\ c.pfr <= c.raises /\ c.vpip <= c.raises + c.calls

(* Whoever is reported lost to the other more of their hands than the other wins of all,
   and what all players are said to have handed to one is no more than she won. *)
ReportsGrounded ==
  /\ \A r \in Reports :
       LET n == Cardinality(Shared(r[1], r[2])) IN
       /\ n \in MinEncounters .. Window
       /\ \/ Cardinality(Lost(r[1], r[2])) * Len(tally) > n * Wins(r[2])
          \/ Wins(r[2]) = Len(tally)
  /\ \A b \in Players :
       MapThenSumSet(LAMBDA s : Donated(s, b), Players \ {b})
         <= MapThenSumSet(LAMBDA i : tally[i].pot, {i \in DOMAIN tally : tally[i].winner = b})

(* The contract's measure counts no hand twice, whatever has faded, and a pair is not
   reported for folds alone: four hands of the window were lost. *)
FlagsGrounded ==
  /\ tally.losses + tally.folds <= tally.total /\ tally.total <= TrackingWindow
  /\ DetectChipDumping(tally) => tally.losses > 3

(* The ring has the last hands that were settled, newest first; who reads it page by
   page while hands are settled misses none that was there and still is; a seat that
   wins too often, or the players gone from the seats that won, can not take the
   variance past what all hands won by one seat would have. *)
HistoryTrue ==
  LET page == GetHistoryChunk(tally, 0, Capacity)
      n    == Len(tally.settled) IN
  /\ page = [i \in 1 .. Capped(n, Capacity) |-> tally.settled[n + 1 - i]]
  /\ tally.reader.ended => tally.reader.due \cap Stored(tally) \subseteq tally.reader.seen
  /\ tally.variance <= 10000 * (MaxSeats - 1)

(* What the log says of a time is the rate that was in force at the end of it. *)
RakeLogTrue ==
  tally.log # <<>> => \A time \in 0 .. tally.now : RakeBpsAt(time) = tally.inForce[time + 1]
=============================================================================
