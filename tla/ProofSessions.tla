---------------------------- MODULE ProofSessions ----------------------------
(***************************************************************************)
(* How a proof is made.  For every request the coordinator asks all nodes  *)
(* to prepare a share set, then to dispatch it, a fragment to every node,  *)
(* then to generate, and polls one of them.  Its calls run in tasks of     *)
(* their own and go on when the request has failed or its caller has gone. *)
(* Nodes keep everything in memory and may restart.  One table.            *)
(***************************************************************************)
EXTENDS Integers, FiniteSets

CONSTANTS
  Nodes,
  ProofNode,        \* the node that is polled
  Capacity,         \* max_concurrent_sessions
  MaxTriggers,      \* TRIGGER_RETRY_ATTEMPTS
  MaxRequests,      \* bound on the requests
  MaxRestarts,      \* bound on the nodes' restarts
  Refreshing        \* whether SHARE_REFRESH_INTERVAL_SECONDS # 0

VARIABLE mpc

Ids == 1 .. MaxRequests
NoDeck == 0
NoRequest == [id |-> 0, kind |-> "none", stage |-> "idle"]
NoSession == [status |-> "none", fragments |-> {}, used |-> {}]

Init ==
  mpc = [request  |-> NoRequest, last |-> 0,
         answered |-> {},                 \* nodes that have answered this stage
         root     |-> NoDeck,             \* the deal that was proved last
         calls    |-> {}, shares |-> {},  \* on their way to a node
         deck     |-> [n \in Nodes |-> NoDeck],
         sets     |-> [n \in Nodes |-> {}],
         session  |-> [n \in Nodes |-> [i \in Ids |-> NoSession]],
         tasks    |-> {},
         refresh  |-> {},                 \* nodes with a session refresh-<table>
         draining |-> {}, restarts |-> 0]

CallsTo(op, id, kind) == [op : {op}, node : Nodes, id : {id}, kind : {kind}, try : {1}]

-----------------------------------------------------------------------------
(* The coordinator.  A reveal or a showdown uses the deck of the last deal. *)
Begin(kind) ==
  /\ mpc.request = NoRequest /\ mpc.last < MaxRequests
  /\ mpc.draining = {}
  /\ kind = "reveal" => mpc.root # NoDeck
  /\ mpc' = [mpc EXCEPT !.last = @ + 1, !.answered = {},
       !.request = [id |-> mpc.last + 1, kind |-> kind, stage |-> "prepare"],
       !.calls = @ \union CallsTo("prepare", mpc.last + 1, kind)]

Following == [prepare |-> "dispatch", dispatch |-> "generate"]

(* Every node has answered: the next stage, or the wait for the proof. *)
NextStage ==
  /\ mpc.answered = Nodes /\ mpc.request.stage \in DOMAIN Following
  /\ LET next == Following[mpc.request.stage] IN
     mpc' = [mpc EXCEPT !.request.stage = next, !.answered = {},
               !.calls = @ \union CallsTo(next, mpc.request.id, mpc.request.kind)]

CollectProof ==
  /\ mpc.answered = Nodes /\ mpc.request.stage = "generate"
  /\ mpc.session[ProofNode][mpc.request.id].status = "complete"
  /\ mpc' = [mpc EXCEPT !.request = NoRequest, !.answered = {},
                        !.root = IF mpc.request.kind = "deal" THEN mpc.request.id ELSE @]

(* An error, too many polls, or the caller goes away. *)
RequestFails ==
  /\ mpc.request # NoRequest
  /\ mpc' = [mpc EXCEPT !.request = NoRequest, !.answered = {}]

Answers(c) == IF c.id = mpc.request.id /\ c.op = mpc.request.stage THEN {c.node} ELSE {}

CallLost(c) ==
  /\ c.op # "generate"
  /\ mpc' = [mpc EXCEPT !.calls = @ \ {c}]

-----------------------------------------------------------------------------
(* The nodes.  prepare_deal replaces the node's part of the deck and every share
   set of the table; the others add one for the deck there is. *)
Prepare(c, answered) ==
  LET n == c.node
      deck == IF c.kind = "deal" THEN c.id ELSE mpc.deck[n]
      set == [id |-> c.id, fits |-> c.kind = "deal" \/ deck = mpc.root]
  IN /\ c.op = "prepare" /\ n \notin mpc.draining /\ deck # NoDeck
     /\ mpc' = [mpc EXCEPT !.calls = @ \ {c}, !.deck[n] = deck,
          !.sets[n] = IF c.kind = "deal" THEN {set} ELSE @ \union {set},
          !.answered = IF answered THEN @ \union Answers(c) ELSE @]

(* dispatch-shares sends at once, and answers when all the fragments are taken. *)
Dispatch(c) ==
  /\ c.op = "dispatch"
  /\ \E set \in mpc.sets[c.node] :
       /\ set.id = c.id
       /\ mpc' = [mpc EXCEPT !.calls = (@ \ {c}) \union {[c EXCEPT !.op = "dispatching"]},
            !.shares = @ \union [from : {c.node}, to : Nodes, id : {c.id}, fits : {set.fits}]]

Active(s) == s.status \in {"shares", "running"}
ActiveAt(n) == Cardinality({i \in Ids : Active(mpc.session[n][i])})
                 + Cardinality(mpc.refresh \intersect {n})
Admits(n) == n \notin mpc.draining /\ ActiveAt(n) < Capacity

ReceiveShare(m) ==
  LET s == mpc.session[m.to][m.id] IN
  /\ \/ s.status = "shares"
     \/ s.status = "none" /\ Admits(m.to)
  /\ mpc' = [mpc EXCEPT !.shares = @ \ {m},
       !.session[m.to][m.id].status = "shares",
       !.session[m.to][m.id].fragments =
         {f \in @ : f.source # m.from} \union {[source |-> m.from, fits |-> m.fits]}]

(* A fragment that is refused or lost fails the dispatch it belongs to. *)
ShareFails(m) ==
  mpc' = [mpc EXCEPT !.shares = @ \ {m},
            !.calls = {c \in @ : ~(c.op = "dispatching" /\ c.node = m.from /\ c.id = m.id)}]

Dispatched(c, answered) ==
  /\ c.op = "dispatching"
  /\ \A m \in mpc.shares : m.from # c.node \/ m.id # c.id
  /\ \E set \in mpc.sets[c.node] : set.id = c.id
  /\ mpc' = [mpc EXCEPT !.calls = @ \ {c},
       !.sets[c.node] = {set \in @ : set.id # c.id},
       !.answered = IF answered THEN @ \union Answers([c EXCEPT !.op = "dispatch"]) ELSE @]

(* post_generate starts a task with the fragments of the moment, whatever the
   session's status. *)
Generating(c) ==
  LET s == mpc.session[c.node][c.id] IN
  [mpc EXCEPT !.session[c.node][c.id].status = "running",
              !.tasks = @ \union {[node |-> c.node, id |-> c.id, input |-> s.fragments]}]

Retried(c) == IF c.try < MaxTriggers THEN {[c EXCEPT !.try = @ + 1]} ELSE {}

Generate(c, answered) ==
  /\ c.op = "generate" /\ mpc.session[c.node][c.id].fragments # {}
  /\ mpc' = [Generating(c) EXCEPT
       !.calls = IF answered THEN @ \ {c} ELSE (@ \ {c}) \union Retried(c),
       !.answered = IF answered THEN @ \union Answers(c) ELSE @]

(* No connection: tried again; no such session: an error at once. *)
GenerateFails(c) ==
  /\ c.op = "generate"
  /\ mpc' = [mpc EXCEPT !.calls =
       IF mpc.session[c.node][c.id].fragments = {} THEN @ \ {c} ELSE (@ \ {c}) \union Retried(c)]

(* Mutant: the fragments are merged without being counted. *)
RunProofGeneration_Uncounted(task) ==
  /\ \A f \in task.input : f.fits
  /\ \A n \in Nodes : mpc.session[n][task.id].status \in {"running", "complete"}

(* run_proof_generation: one fragment per node, all of the deck committed to,
   and all nodes at it. *)
RunProofGeneration(task) ==
  /\ Cardinality(task.input) = Cardinality(Nodes)
  /\ \A f \in task.input : f.fits
  /\ \A n \in Nodes : mpc.session[n][task.id].status \in {"running", "complete"}

Finish(task) ==
  /\ RunProofGeneration(task)
  /\ mpc' = [mpc EXCEPT !.tasks = @ \ {task},
       !.session[task.node][task.id].status = "complete",
       !.session[task.node][task.id].used = task.input]

(* A process fails or exceeds its time. *)
Fail(task) ==
  mpc' = [mpc EXCEPT !.tasks = @ \ {task}, !.session[task.node][task.id].status = "failed"]

(* refresh_all_shares: the masks become a share set that nobody asks for, and each
   peer reached opens a session for them, if it admits one, that stays. *)
MaskSet == [id |-> 0, fits |-> FALSE]
Refresh(n, reached) ==
  /\ Refreshing /\ mpc.deck[n] # NoDeck
  /\ mpc' = [mpc EXCEPT !.sets[n] = @ \union {MaskSet},
                        !.refresh = @ \union {peer \in reached : Admits(peer)}]

SetDraining(n, b) ==
  mpc' = [mpc EXCEPT !.draining = IF b THEN @ \union {n} ELSE @ \ {n}]

RestartNode(n) ==
  /\ mpc.restarts < MaxRestarts
  /\ mpc' = [mpc EXCEPT !.restarts = @ + 1, !.deck[n] = NoDeck, !.sets[n] = {},
       !.session[n] = [i \in Ids |-> NoSession], !.draining = @ \ {n}, !.refresh = @ \ {n},
       !.tasks = {task \in @ : task.node # n},
       !.calls = {c \in @ : ~(c.op = "dispatching" /\ c.node = n)}]

Next ==
  \/ \E kind \in {"deal", "reveal"} : Begin(kind)
  \/ NextStage \/ CollectProof \/ RequestFails
  \/ \E c \in mpc.calls :
       \/ CallLost(c) \/ Dispatch(c) \/ GenerateFails(c)
       \/ \E answered \in BOOLEAN :
            Prepare(c, answered) \/ Dispatched(c, answered) \/ Generate(c, answered)
  \/ \E m \in mpc.shares : ReceiveShare(m) \/ ShareFails(m)
  \/ \E task \in mpc.tasks : Finish(task) \/ Fail(task)
  \/ \E n \in Nodes : RestartNode(n) \/ (\E b \in BOOLEAN : SetDraining(n, b))
                      \/ \E reached \in SUBSET Nodes : Refresh(n, reached)

Spec == Init /\ [][Next]_mpc

-----------------------------------------------------------------------------
(* A finished proof has a fragment of every node in it, each of the deck that the
   table committed to, whatever was restarted, lost, repeated or dealt meanwhile. *)
ProofsWhole ==
  \A n \in Nodes, i \in Ids :
    mpc.session[n][i].status = "complete" =>
      /\ {f.source : f \in mpc.session[n][i].used} = Nodes
      /\ \A f \in mpc.session[n][i].used : f.fits
=============================================================================
