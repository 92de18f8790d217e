------------------------------ MODULE ChainClient ---------------------------
(***************************************************************************)
(* What the coordinator keeps of the chain, two machines.                  *)
(*                                                                         *)
(* chain_cache.rs: reads of tables on chain, cached for a while and fetched*)
(* in batches.  A request looks into the cache, queues, and starts the     *)
(* processor unless one runs, each under a lock of its own.  What the chain*)
(* holds of a table is a version that only grows.                          *)
(*                                                                         *)
(* submission_ledger.rs: the record of proofs already submitted, which is  *)
(* to keep a retry from submitting one twice, around the calls that use it.*)
(* Every request draws a new session id, so ids are numbered requests.     *)
(***************************************************************************)
EXTENDS Integers, FiniteSets

CONSTANTS
  Requests, TableOf,        \* the requests of a behaviour, and the table each asks for
  Ttl,                      \* a cached answer older than this many ticks is not used
  MaxVersion,
  MaxRequests,              \* bound on the requests that submit a proof
  MaxAge                    \* bound on the ledger's clock

VARIABLES chain, ledger

Tables  == {TableOf[r] : r \in Requests}
NoEntry == [version |-> -1, age |-> 0]
NoReply == -1

Init ==
  chain = [version |-> [t \in Tables |-> 0],
           cache   |-> [t \in Tables |-> NoEntry],
           at      |-> [r \in Requests |-> "new"],
           asked   |-> [r \in Requests |-> 0],    \* the version when the request missed
           reply   |-> [r \in Requests |-> NoReply],
           pending |-> {},
           batch   |-> {},                        \* requests the processor has taken
           results |-> [t \in Tables |-> NoReply],
           running |-> FALSE,                     \* batch_processor_running
           task    |-> "none"]                    \* the processor: where it is

(* get_table_state, first the cache, then the queue. *)
Hit(r) ==
  LET t == TableOf[r] IN
  /\ chain.at[r] = "new"
  /\ chain.cache[t] # NoEntry /\ chain.cache[t].age < Ttl
  /\ chain' = [chain EXCEPT !.at[r] = "answered", !.reply[r] = chain.cache[t].version]

Miss(r) ==
  LET t == TableOf[r] IN
  /\ chain.at[r] = "new"
  /\ chain.cache[t] = NoEntry \/ chain.cache[t].age >= Ttl
  /\ chain' = [chain EXCEPT !.at[r] = "missed", !.asked[r] = chain.version[t]]

Enqueue(r) ==
  /\ chain.at[r] = "missed"
  /\ chain' = [chain EXCEPT !.at[r] = "queued", !.pending = @ \union {r}]

(* spawn_batch_processor: a running processor is trusted to take the request. *)
SpawnBatchProcessor(r) ==
  /\ chain.at[r] = "queued"
  /\ chain' = IF chain.running THEN [chain EXCEPT !.at[r] = "waiting"]
              ELSE [chain EXCEPT !.at[r] = "waiting", !.running = TRUE, !.task = "sleep"]

-----------------------------------------------------------------------------
(* The spawned task.  After a batch that was empty it stops likewise. *)
Take ==
  /\ chain.task = "sleep"
  /\ chain' = [chain EXCEPT !.batch = chain.pending, !.pending = {},
                            !.task = IF chain.pending = {} THEN "release" ELSE "fetch"]

(* fetch_fn reads one table after another; a read may fail.  Unread is -1. *)
Unread == {t \in {TableOf[r] : r \in chain.batch} : chain.results[t] = NoReply}
Failed == -2

FetchOne(t, works) ==
  /\ chain.task = "fetch" /\ t \in Unread
  /\ chain' = [chain EXCEPT !.results[t] = IF works THEN chain.version[t] ELSE Failed]

(* Mutant: the answer is what the cache holds, when it holds something. *)
Store_OldFirst ==
  LET read == {t \in {TableOf[r] : r \in chain.batch} : chain.results[t] # Failed}
      ReplyTo(t) == IF chain.cache[t] # NoEntry THEN chain.cache[t].version ELSE chain.results[t]
  IN  /\ chain.task = "fetch" /\ Unread = {}
      /\ chain' = [chain EXCEPT
           !.cache   = [t \in Tables |-> IF t \in read
                                         THEN [version |-> chain.results[t], age |-> 0] ELSE @[t]],
           !.reply   = [r \in Requests |-> IF r \in chain.batch THEN ReplyTo(TableOf[r]) ELSE @[r]],
           !.at      = [r \in Requests |-> IF r \in chain.batch THEN "answered" ELSE @[r]],
           !.batch   = {}, !.results = [t \in Tables |-> NoReply], !.task = "release"]

(* One lock around all of it: what could be read is cached as if it were read now. *)
Store ==
  LET read == {t \in {TableOf[r] : r \in chain.batch} : chain.results[t] # Failed}
  IN  /\ chain.task = "fetch" /\ Unread = {}
      /\ chain' = [chain EXCEPT
           !.cache   = [t \in Tables |-> IF t \in read
                                         THEN [version |-> chain.results[t], age |-> 0] ELSE @[t]],
           !.reply   = [r \in Requests |-> IF r \in chain.batch
                                           THEN chain.results[TableOf[r]] ELSE @[r]],
           !.at      = [r \in Requests |-> IF r \in chain.batch THEN "answered" ELSE @[r]],
           !.batch   = {}, !.results = [t \in Tables |-> NoReply], !.task = "release"]

Release ==
  /\ chain.task = "release"
  /\ chain' = [chain EXCEPT !.running = FALSE, !.task = "none"]

Invalidate(t) == chain' = [chain EXCEPT !.cache[t] = NoEntry]
InvalidateAll == chain' = [chain EXCEPT !.cache = [t \in Tables |-> NoEntry]]

ChainMoves(t) ==
  /\ chain.version[t] < MaxVersion
  /\ chain' = [chain EXCEPT !.version[t] = @ + 1]

Tick ==
  chain' = [chain EXCEPT !.cache = [t \in Tables |->
              IF @[t] # NoEntry /\ @[t].age < Ttl THEN [@[t] EXCEPT !.age = @ + 1] ELSE @[t]]]

Request(r) == Hit(r) \/ Miss(r) \/ Enqueue(r) \/ SpawnBatchProcessor(r)

Processor ==
  \/ Take \/ Store \/ Release
  \/ \E t \in Tables, works \in BOOLEAN : FetchOne(t, works)

Next ==
  \/ \E r \in Requests : Request(r)
  \/ Processor
  \/ \E t \in Tables : Invalidate(t) \/ ChainMoves(t)
  \/ InvalidateAll \/ Tick

Spec == Init /\ [][Next]_chain

(* Tasks are polled: a request goes on until it waits, and so does the processor. *)
Fair == Spec /\ WF_chain(Processor) /\ \A r \in Requests : WF_chain(Request(r))
-----------------------------------------------------------------------------
(* A request that found nothing in the cache is answered with what the chain
   held then or later, and nobody who waits is forgotten by both the queue and
   the processor; the flag says whether there is a processor. *)
MissesReadTheChain ==
  /\ \A r \in Requests :
       /\ chain.at[r] = "answered" /\ chain.reply[r] >= 0 => chain.reply[r] >= chain.asked[r]
       /\ chain.at[r] = "waiting" => r \in chain.pending \union chain.batch
  /\ chain.running <=> chain.task # "none"

(* Whoever asks is answered, as get_table_state promises its callers. *)
RequestsAnswered == \A r \in Requests : chain.at[r] = "waiting" ~> chain.at[r] = "answered"

-----------------------------------------------------------------------------
(* The submission ledger. *)
Idle == [id |-> 0, at |-> "idle", hash |-> 0]

(* `request` is the request that holds the session of a table; `chain` the
   submissions the contract has taken; `durable` whether the database opened. *)
LedgerInit ==
  \E durable \in BOOLEAN :
    ledger = [request |-> [t \in Tables |-> Idle],
              entries |-> {},               \* records of id, hash and time
              chain   |-> {},               \* records of id and hash
              next    |-> 1,
              now     |-> 0,
              durable |-> durable]

(* A new request has a new id: uuid::Uuid::new_v4 in request_deal and in
   next_proof_session_id, checked against used_session_ids. *)
Begin(t) ==
  /\ ledger.request[t].at = "idle" /\ ledger.next <= MaxRequests
  /\ ledger' = [ledger EXCEPT !.request[t] = [id |-> ledger.next, at |-> "proved", hash |-> 0],
                              !.next = @ + 1]

Found(id) == {e \in ledger.entries : e.id = id}

(* check_already_submitted: a read error counts as "not found". *)
Check(t, readable) ==
  LET id == ledger.request[t].id IN
  /\ ledger.request[t].at = "proved"
  /\ ledger' = [ledger EXCEPT !.request[t] =
       IF readable /\ Found(id) # {}
       THEN [id |-> id, at |-> "done", hash |-> (CHOOSE e \in Found(id) : TRUE).hash]
       ELSE [@ EXCEPT !.at = "submitting"]]

Hash(id) == 100 + id

Submit(t) ==
  LET id == ledger.request[t].id IN
  /\ ledger.request[t].at = "submitting"
  /\ ledger' = [ledger EXCEPT !.request[t] = [id |-> id, at |-> "submitted", hash |-> Hash(id)],
                              !.chain = @ \union {[id |-> id, hash |-> Hash(id)]}]

(* The transaction may have been carried out although its answer is an error. *)
SubmitFails(t, carriedOut) ==
  LET id == ledger.request[t].id IN
  /\ ledger.request[t].at = "submitting"
  /\ ledger' = [ledger EXCEPT !.request[t] = Idle,
       !.chain = IF carriedOut THEN @ \union {[id |-> id, hash |-> Hash(id)]} ELSE @]

(* Mutant: an entry is made with the hash another request was given. *)
Record_AnyHash(t, written) ==
  LET r == ledger.request[t] IN
  /\ r.at = "submitted"
  /\ ledger' = [ledger EXCEPT !.request[t].at = "done",
       !.entries = IF written THEN @ \union {[id |-> r.id, hash |-> Hash(r.id - 1), at |-> ledger.now]}
                   ELSE @]

(* record_submission: INSERT OR IGNORE, and a failing write is ignored too. *)
Record(t, written) ==
  LET r == ledger.request[t] IN
  /\ r.at = "submitted"
  /\ ledger' = [ledger EXCEPT !.request[t].at = "done",
       !.entries = IF written /\ Found(r.id) = {}
                   THEN @ \union {[id |-> r.id, hash |-> r.hash, at |-> ledger.now]} ELSE @]

Answer(t) == ledger.request[t].at = "done" /\ ledger' = [ledger EXCEPT !.request[t] = Idle]

(* Without a file the ledger is in memory and starts empty. *)
Crash ==
  ledger' = [ledger EXCEPT !.request = [t \in Tables |-> Idle],
                           !.entries = IF ledger.durable THEN @ ELSE {}]

PurgeBefore(time) == ledger' = [ledger EXCEPT !.entries = {e \in @ : e.at >= time}]

LedgerTick == ledger.now < MaxAge /\ ledger' = [ledger EXCEPT !.now = @ + 1]

LedgerNext ==
  \/ \E t \in Tables :
       \/ Begin(t) \/ Submit(t) \/ Answer(t)
       \/ \E yes \in BOOLEAN : Check(t, yes) \/ SubmitFails(t, yes) \/ Record(t, yes)
  \/ Crash \/ LedgerTick \/ \E time \in 1 .. MaxAge : PurgeBefore(time)

LedgerSpec == LedgerInit /\ [][LedgerNext]_ledger
-----------------------------------------------------------------------------
(* An entry is of a submission the contract has taken, with its hash, and there
   is one of each; a request under way is not in the ledger yet. *)
EntriesAreSubmissions ==
  /\ \A e \in ledger.entries : [id |-> e.id, hash |-> e.hash] \in ledger.chain
  /\ \A e, f \in ledger.entries : e.id = f.id => e = f
  /\ \A t \in Tables :
       ledger.request[t].at \in {"proved", "submitting", "submitted"} =>
         Found(ledger.request[t].id) = {}
=============================================================================
