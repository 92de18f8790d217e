------------------------------ MODULE ChainRelay ------------------------------
(***************************************************************************)
(* Calls that the coordinator makes of the table contract on behalf of the *)
(* players whose keys it holds, and of the committee.  Each is simulated   *)
(* first, the outcome of a simulation is kept for a while, and a call that *)
(* failed on the way is made again.  A key stands for the whole invocation *)
(* of the CLI, as in the cache.                                            *)
(***************************************************************************)
EXTENDS Integers, FiniteSets

CONSTANTS
  Players,          \* in the order of the turns: 0 .. n - 1
  Identities,       \* those whose keys the coordinator holds
  Callers,          \* requests served at the same time
  Steps,            \* number of INSTRUCTION_LEEWAY_STEPS
  MaxRetries,       \* of invoke_contract_with_source_retries
  Ttl, MaxEntries,  \* of the cache of simulations
  MaxSeq            \* bound on a player's actions

VARIABLE relay

Act(p, seq)   == [call |-> "player_action", who |-> p, n |-> seq]
Claim(leeway) == [call |-> "claim_timeout", who |-> -1, n |-> leeway]
Rit(p, optIn) == [call |-> "rit_opt_in", who |-> p, n |-> IF optIn THEN 1 ELSE 0]
Transfer(p)   == [call |-> "transfer_chips", who |-> p, n |-> 0]

(* A call without --seq has 0 here: no action has that number. *)
Keys == {Act(p, s) : p \in Players, s \in 0 .. MaxSeq} \union {Claim(k) : k \in 1 .. Steps}
          \union {Rit(p, yes) : p \in Identities, yes \in BOOLEAN}
          \union {Transfer(p) : p \in Identities}

NoEntry == [ok |-> FALSE, age |-> -1]
NoCall  == [at |-> "idle", key |-> Claim(1), attempt |-> 0, answer |-> "", done |-> FALSE]

Init ==
  relay = [turn    |-> 0,                        \* current_turn of the table
           seq     |-> [p \in Players |-> 0],    \* PlayerActionCounter
           overdue |-> FALSE,                    \* the deadline of the turn has passed
           rit     |-> "none",                   \* is running it twice offered, or one for it
           cache   |-> [k \in Keys |-> NoEntry],
           calls   |-> [c \in Callers |-> NoCall],
           legal   |-> [k \in Keys |-> 0]]       \* ticks for which the contract would have taken it

Following(p) == (p + 1) % Cardinality(Players)

(* What the contract takes: the number after the player's last one, on her turn;
   a timeout when there is one; one answer to the offer to run it twice.  It has no
   function transfer_chips. *)
Takes(table, k) ==
  CASE k.call = "claim_timeout"  -> table.overdue
    [] k.call = "rit_opt_in"     -> table.rit = "offered"
    [] k.call = "transfer_chips" -> FALSE
    [] k.call = "player_action"  ->
         table.rit = "none" /\ table.turn = k.who /\ k.n = table.seq[k.who] + 1

(* The contract carries out a call: the turn goes on, or the offer is over, or it
   waits, with one player for it, until the time is up. *)
Apply(table, k) ==
  CASE k.call = "rit_opt_in" ->
         IF k.n = 1 THEN [table EXCEPT !.rit = "waiting"]
         ELSE [table EXCEPT !.rit = "none", !.overdue = FALSE]
    [] k.call = "claim_timeout" /\ table.rit # "none" ->
         [table EXCEPT !.rit = "none", !.overdue = FALSE]
    [] k.call = "claim_timeout" -> [table EXCEPT !.turn = Following(@), !.overdue = FALSE]
    [] k.call = "player_action" ->
         [table EXCEPT !.turn = Following(@), !.overdue = FALSE, !.seq[k.who] = k.n]

(* `legal` starts again for whatever the contract does not take now. *)
Aged(table) ==
  [table EXCEPT !.legal = [k \in Keys |-> IF Takes(table, k) THEN @[k] ELSE 0]]

-----------------------------------------------------------------------------
(* Requests. *)
Start(c, k) ==
  /\ relay.calls[c].at = "idle"
  /\ relay' = [relay EXCEPT !.calls[c] = [NoCall EXCEPT !.at = "simulate", !.key = k, !.attempt = 1]]

(* player_action of the API, for a player whose identity is configured; the number
   is the client's. *)
PlayerAction(c, p, seq) == p \in Identities /\ seq \in 1 .. MaxSeq /\ Start(c, Act(p, seq))

RitOptIn(c, p, optIn) == p \in Identities /\ Start(c, Rit(p, optIn))

(* transfer_chips of the API, once the views of both tables have the caller seated
   and show enough chips. *)
TransferChips(c, p) == p \in Identities /\ Start(c, Transfer(p))

(* claim_timeout of the coordinator, signed by the committee. *)
ClaimTimeout(c) == Start(c, Claim(1))

(* maybe_auto_advance_betting_if_phase reads whose turn it is and plays for her,
   with a call that has no sequence number. *)
AutoAdvance(c) == relay.turn \in Identities /\ Start(c, Act(relay.turn, 0))

Answer(c, r, text) == [r EXCEPT !.calls[c].at = "answered", !.calls[c].answer = text]

(* A call that failed: a player's call is made again after any trouble on the way,
   the committee's only when it ran out of instructions, with more of them, which
   makes it another key. *)
Fail(c, r, why) ==
  LET call == r.calls[c]
      again == \/ call.key.call # "claim_timeout" /\ why \in {"lost", "resources"}
                                                  /\ call.attempt < MaxRetries
               \/ call.key.call = "claim_timeout" /\ why = "resources" /\ call.attempt < Steps
      next == IF call.key.call = "claim_timeout" THEN Claim(call.attempt + 1) ELSE call.key
  IN  IF again
      THEN [r EXCEPT !.calls[c].at = "simulate", !.calls[c].key = next, !.calls[c].attempt = @ + 1]
      ELSE Answer(c, r, IF why = "refused" THEN "refused" ELSE "error")

-----------------------------------------------------------------------------
(* simulate_then_submit. *)
Fresh(k) == relay.cache[k] # NoEntry /\ relay.cache[k].age < Ttl

(* get: an entry that has expired is dropped on the way. *)
Hit(c) ==
  LET k == relay.calls[c].key IN
  /\ relay.calls[c].at = "simulate" /\ Fresh(k)
  /\ relay' = IF relay.cache[k].ok THEN [relay EXCEPT !.calls[c].at = "submit"]
              ELSE Fail(c, relay, "refused")

(* insert: when the cache is full the expired entries go, and if there are none
   the oldest. *)
Held(cache) == {k \in Keys : cache[k] # NoEntry}

Insert(cache, key, ok) ==
  LET new    == [ok |-> ok, age |-> 0]
      valid  == {k \in Held(cache) : cache[k].age < Ttl}
      oldest == {k \in valid : \A j \in valid : cache[j].age <= cache[k].age}
      Keep(kept) == [k \in Keys |-> IF k \in kept THEN cache[k] ELSE NoEntry]
  IN  IF Cardinality(Held(cache)) < MaxEntries THEN {[cache EXCEPT ![key] = new]}
      ELSE IF Cardinality(valid) < MaxEntries THEN {[Keep(valid) EXCEPT ![key] = new]}
      ELSE {[Keep(valid \ {k}) EXCEPT ![key] = new] : k \in oldest}

(* The simulation tells what the contract would do now; both outcomes are kept. *)
Simulate(c) ==
  LET k  == relay.calls[c].key
      ok == Takes(relay, k)
      missed == [relay.cache EXCEPT ![k] = NoEntry]
  IN  /\ relay.calls[c].at = "simulate" /\ ~Fresh(k)
      /\ \E kept \in Insert(missed, k, ok) :
           LET r == [relay EXCEPT !.cache = kept] IN
           relay' = IF ok THEN [r EXCEPT !.calls[c].at = "submit"] ELSE Fail(c, r, "refused")

(* Trouble on the way is not kept. *)
SimulateFails(c, why) ==
  LET k == relay.calls[c].key IN
  /\ relay.calls[c].at = "simulate" /\ ~Fresh(k)
  /\ relay' = Fail(c, [relay EXCEPT !.cache[k] = NoEntry], why)

Submit(c) ==
  LET k == relay.calls[c].key IN
  /\ relay.calls[c].at = "submit"
  /\ relay' = IF Takes(relay, k)
              THEN Aged(Answer(c, Apply([relay EXCEPT !.calls[c].done = TRUE], k), "applied"))
              ELSE Fail(c, relay, "refused")

(* The transaction goes through and its answer is lost, or it is lost itself. *)
SubmitFails(c, carriedOut) ==
  LET k == relay.calls[c].key IN
  /\ relay.calls[c].at = "submit"
  /\ carriedOut => Takes(relay, k)
  /\ relay' = Fail(c, IF carriedOut
                      THEN Aged(Apply([relay EXCEPT !.calls[c].done = TRUE], k)) ELSE relay, "lost")

(* The answer reaches the client. *)
Leave(c) == relay.calls[c].at = "answered" /\ relay' = [relay EXCEPT !.calls[c] = NoCall]

-----------------------------------------------------------------------------
(* A player acts with a wallet of her own. *)
WalletActs ==
  LET k == Act(relay.turn, relay.seq[relay.turn] + 1) IN
  k \in Keys /\ Takes(relay, k) /\ relay' = Aged(Apply(relay, k))

(* The last player who could act is all in: the offer is made, to two of them. *)
AllIn == relay.rit = "none" /\ relay' = Aged([relay EXCEPT !.rit = "offered", !.overdue = FALSE])

TurnRunsOut == ~relay.overdue /\ relay' = [relay EXCEPT !.overdue = TRUE]

Tick ==
  relay' = [relay EXCEPT
    !.cache = [k \in Keys |-> IF @[k] # NoEntry /\ @[k].age < Ttl
                              THEN [@[k] EXCEPT !.age = @ + 1] ELSE @[k]],
    !.legal = [k \in Keys |-> IF Takes(relay, k) /\ @[k] < Ttl THEN @[k] + 1 ELSE @[k]]]

Next ==
  \/ \E c \in Callers :
       \/ \E p \in Players, s \in 1 .. MaxSeq : PlayerAction(c, p, s)
       \/ ClaimTimeout(c) \/ AutoAdvance(c)
       \/ Hit(c) \/ Simulate(c) \/ Submit(c) \/ Leave(c)
       \/ \E why \in {"lost", "resources"} : SimulateFails(c, why)
       \/ \E yes \in BOOLEAN : SubmitFails(c, yes)
       \/ \E p \in Players : TransferChips(c, p) \/ \E yes \in BOOLEAN : RitOptIn(c, p, yes)
  \/ WalletActs \/ AllIn \/ TurnRunsOut \/ Tick

Spec == Init /\ [][Next]_relay
-----------------------------------------------------------------------------
(* A call that is answered "refused" was one that the contract would not have
   taken, a moment ago at most: nobody is kept waiting by the cache past its
   bound, however often she asks; and an action whose answer was lost is not
   carried out a second time by the retry. *)
RefusalsReal ==
  \A c \in Callers :
    relay.calls[c].at # "answered" /\ relay'.calls[c].at = "answered" =>
      /\ relay'.calls[c].answer = "refused" => relay.legal[relay.calls[c].key] < Ttl
      /\ relay'.calls[c].answer = "applied" /\ relay.calls[c].key.call = "player_action"
           => ~relay.calls[c].done
=============================================================================
