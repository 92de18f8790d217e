----------------------------- MODULE PlayerRating -----------------------------
(***************************************************************************)
(* Ratings after every hand, the leaderboard they order, and the           *)
(* reputation of the players who have opted in.                            *)
(***************************************************************************)
EXTENDS Integers, Sequences, SequencesExt

CONSTANTS
  Players,
  InitialRating,
  Configs,          \* what set_config may choose: [minHands, k]
  Hands,            \* who may sit in one hand: sequences of two or more players
  MaxHands          \* bound on the hands recorded of one player

VARIABLE rating

NoRecord   == [rating |-> 0, hands |-> 0, won |-> 0]
NoOpinion  == [in |-> FALSE, score |-> 500, completed |-> 0, won |-> 0, timeouts |-> 0, streak |-> 0]

Init ==
  \E c \in Configs :
    rating = [record     |-> [p \in Players |-> NoRecord],
              board      |-> <<>>,
              reputation |-> [p \in Players |-> NoOpinion],
              config     |-> c,
              paused     |-> FALSE]

SetConfig(c)   == rating' = [rating EXCEPT !.config = c]
SetPaused(yes) == rating' = [rating EXCEPT !.paused = yes]

-----------------------------------------------------------------------------
(* elo_delta: the expected score in basis points, by the distance in rating, and
   k times the difference to the score; Rust's division rounds towards zero. *)
ExpectedBps(diff) ==
  CASE diff <= -400              -> 9000
    [] diff \in -399 .. -200     -> 7500
    [] diff \in -199 .. -100     -> 6400
    [] diff \in -99 .. 0         -> 5000 + (-diff * 14) \div 10
    [] diff \in 1 .. 100         -> 5000 - (diff * 14) \div 10
    [] diff \in 101 .. 200       -> 3600
    [] diff \in 201 .. 400       -> 2500
    [] OTHER                     -> 1000

EloDelta(player, opponent, won) ==
  IF won THEN (rating.config.k * (10000 - ExpectedBps(opponent - player))) \div 10000
         ELSE -((rating.config.k * ExpectedBps(opponent - player)) \div 10000)

ApplyDelta(r, delta) ==
  IF r + delta < 100 THEN 100 ELSE IF r + delta > 4000 THEN 4000 ELSE r + delta

(* get_or_create. *)
Known(p) == IF rating.record[p].hands = 0 THEN InitialRating ELSE rating.record[p].rating

TotalRating(seats) == FoldLeft(LAMBDA a, p : a + Known(p), 0, seats)

(* The winner plays against the mean of the others, each of the others against her. *)
Updated(seats, w) ==
  LET mean == (TotalRating(seats) - Known(seats[w])) \div (Len(seats) - 1)
  IN  [i \in DOMAIN seats |->
         LET p == seats[i] IN
         [rating |-> ApplyDelta(Known(p), IF i = w THEN EloDelta(Known(p), mean, TRUE)
                                          ELSE EloDelta(Known(p), Known(seats[w]), FALSE)),
          hands  |-> rating.record[p].hands + 1,
          won    |-> rating.record[p].won + IF i = w THEN 1 ELSE 0]]

(* Mutant: a player who has moved is only put in her new place. *)
Refreshed_Twice(board, record, p) ==
  LET above == SelectSeq(board, LAMBDA q : record[q].rating >= record[p].rating)
      below == SelectSeq(board, LAMBDA q : record[q].rating < record[p].rating)
  IN  IF record[p].hands < rating.config.minHands THEN board ELSE above \o <<p>> \o below

(* refresh_leaderboard_entry: out of the board, and in again in front of the
   first with a lower rating. *)
Refreshed(board, record, p) ==
  LET others == SelectSeq(board, LAMBDA q : q # p)
      lower  == {i \in DOMAIN others : record[others[i]].rating < record[p].rating}
  IN  IF record[p].hands < rating.config.minHands THEN others
      ELSE IF lower = {} THEN Append(others, p)
      ELSE InsertAt(others, CHOOSE i \in lower : \A j \in lower : i <= j, p)

(* The records are written, and the board refreshed, one participant after another. *)
RecordHand(seats, w) ==
  LET new == Updated(seats, w)
      Write(s, i) ==
        LET record == [s.record EXCEPT ![seats[i]] = new[i]]
        IN  [s EXCEPT !.record = record, !.board = Refreshed(s.board, record, seats[i])]
  IN  /\ ~rating.paused
      /\ \A i \in DOMAIN seats : rating.record[seats[i]].hands < MaxHands
      /\ rating' = FoldLeft(Write, rating, [i \in DOMAIN seats |-> i])

-----------------------------------------------------------------------------
OptIn(p)  == rating' = [rating EXCEPT !.reputation[p].in = TRUE]
OptOut(p) == rating' = [rating EXCEPT !.reputation[p].in = FALSE]

Least(a, b) == IF a < b THEN a ELSE b

(* calculate_reputation. *)
Score(completed, won, timeouts, streak) ==
  LET s == 500 + Least(completed * 2, 300) + Least(won * 3, 150) + Least(streak \div 5, 50)
             - timeouts * 50
  IN  IF s < 0 THEN 0 ELSE Least(s, 1000)

Judged(r, won, late) ==
  LET done   == r.completed + IF late THEN 0 ELSE 1
      wins   == r.won + IF won /\ ~late THEN 1 ELSE 0
      misses == r.timeouts + IF late THEN 1 ELSE 0
      streak == IF late THEN 0 ELSE r.streak + 1
  IN  [in |-> TRUE, completed |-> done, won |-> wins, timeouts |-> misses, streak |-> streak,
       score |-> Score(done, wins, misses, streak)]

(* `late` is a seat, or 0: nobody timed out.  A player at two seats is judged at
   the one and then at the other. *)
RecordHandReputation(seats, w, late) ==
  LET Judge(s, i) ==
        IF s[seats[i]].in THEN [s EXCEPT ![seats[i]] = Judged(@, i = w, i = late)] ELSE s
  IN  /\ ~rating.paused
      /\ \A i \in DOMAIN seats :
           rating.reputation[seats[i]].completed + rating.reputation[seats[i]].timeouts < MaxHands
      /\ rating' = [rating EXCEPT
           !.reputation = FoldLeft(Judge, @, [i \in DOMAIN seats |-> i])]

Next ==
  \/ \E seats \in Hands : \E w \in DOMAIN seats :
       RecordHand(seats, w) \/ \E late \in {0} \union DOMAIN seats : RecordHandReputation(seats, w, late)
  \/ \E p \in Players : OptIn(p) \/ OptOut(p)
  \/ \E c \in Configs : SetConfig(c)
  \/ \E yes \in BOOLEAN : SetPaused(yes)

Spec == Init /\ [][Next]_rating
-----------------------------------------------------------------------------
(* The leaderboard has nobody twice, nobody above a better player, and everybody
   on it has played as many hands as some configuration asked for. *)
BoardInOrder ==
  /\ IsInjective(rating.board)
  /\ \A i, j \in DOMAIN rating.board :
       i < j => rating.record[rating.board[i]].rating >= rating.record[rating.board[j]].rating
  /\ \A i \in DOMAIN rating.board : \E c \in Configs :
       rating.record[rating.board[i]].hands >= c.minHands
=============================================================================
