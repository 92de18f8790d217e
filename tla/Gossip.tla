------------------------------- MODULE Gossip -------------------------------
(***************************************************************************)
(* Peer discovery among the MPC nodes themselves: every node keeps a table *)
(* of what it thinks of the others, probes them, and exchanges digests and *)
(* records with the peers it picks, over a network that loses and delays.  *)
(* The clocks are taken to agree, which merge relies on and does not check *)
(* (last_seen_secs is the sender's).                                       *)
(***************************************************************************)
EXTENDS Integers, FiniteSets

CONSTANTS
  Nodes,              \* node ids, numbers
  Seeds,              \* [Nodes -> the peers it is configured with]
  Flaky,              \* nodes that may fail to answer a probe, or leave
  Down,               \* nodes that only the others' tables speak of
  SuspicionTimeout,   \* in ticks
  Fanout,
  MaxVersion,         \* bound on a record's version
  MaxMail             \* bound on the messages under way

VARIABLE gossip

PeerStates == {"alive", "suspect", "faulty", "left"}
NoPeer     == [state |-> "unknown", version |-> 0, age |-> 0]
NewPeer    == [state |-> "alive", version |-> 1, age |-> 0]   \* age: now - last_seen_secs
Ages       == 0 .. SuspicionTimeout

Init ==
  gossip = [table  |-> [n \in Nodes |-> [p \in Nodes |-> NoPeer]],
            mail   |-> {},
            failed |-> [p \in Nodes |-> {}]]    \* how long ago its failed probes were

Knows(n, p) == gossip.table[n][p] # NoPeer

-----------------------------------------------------------------------------
(* What a node makes of its own probes *)
Seed(n, p) ==
  /\ p \in Seeds[n] \ {n} /\ ~Knows(n, p)
  /\ gossip' = [gossip EXCEPT !.table[n][p] = NewPeer]

MarkAlive(n, p) ==
  LET r == gossip.table[n][p]
      version == IF r.state = "alive" THEN r.version ELSE r.version + 1 IN
  /\ Knows(n, p) /\ version <= MaxVersion
  /\ gossip' = [gossip EXCEPT !.table[n][p] =
       [state |-> "alive", version |-> version, age |-> 0]]

MarkSuspect(n, p) ==
  LET r == gossip.table[n][p] IN
  /\ p \in Flaky /\ r.state = "alive" /\ r.version < MaxVersion
  /\ gossip' = [gossip EXCEPT
       !.table[n][p] = [state |-> "suspect", age |-> 0, version |-> r.version + 1],
       !.failed[p] = @ \cup {0}]

MarkLeft(n, p) ==
  LET r == gossip.table[n][p] IN
  /\ p \in Flaky /\ Knows(n, p) /\ r.version < MaxVersion
  /\ gossip' = [gossip EXCEPT !.table[n][p] =
       [state |-> "left", age |-> 0, version |-> r.version + 1]]

Expired(r) == r.state = "suspect" /\ r.age >= SuspicionTimeout

ExpireSuspects(n) ==
  LET table == gossip.table[n] IN
  /\ \E p \in Nodes : Expired(table[p])
  /\ \A p \in Nodes : Expired(table[p]) => table[p].version < MaxVersion
  /\ gossip' = [gossip EXCEPT !.table[n] =
       [p \in Nodes |-> IF Expired(table[p])
                        THEN [table[p] EXCEPT !.state = "faulty", !.version = @ + 1]
                        ELSE table[p]]]

-----------------------------------------------------------------------------
(* Exchanges: a digest to each target, back what is newer *)
Digest(n) == [p \in Nodes |-> gossip.table[n][p].version]    \* 0: no record

RecordsNewerThan(n, digest) ==
  [p \in Nodes |-> IF gossip.table[n][p].version > digest[p] THEN gossip.table[n][p] ELSE NoPeer]

MissingFromLocal(n, digest) ==
  {p \in Nodes \ {n} : digest[p] > gossip.table[n][p].version}

(* In the order of their ids, from an offset that the seed gives. *)
SelectGossipTargets(n, seed) ==
  LET live == {p \in Nodes : gossip.table[n][p].state \in {"alive", "suspect"}}
      place(p) == Cardinality({q \in live : q < p}) IN
  {p \in live : (place(p) - seed) % Cardinality(live) < Fanout}

Supersedes(incoming, existing) == incoming.version > existing.version

Merge(n, p, incoming, existing) ==
  IF p = n \/ incoming = NoPeer THEN existing
  ELSE IF existing = NoPeer \/ Supersedes(incoming, existing) THEN incoming
  ELSE existing

Round(n, seed) ==
  LET asked == {[kind |-> "digest", from |-> n, to |-> p, body |-> Digest(n)]
                  : p \in SelectGossipTargets(n, seed)} IN
  /\ asked # {} /\ Cardinality(gossip.mail \cup asked) <= MaxMail
  /\ gossip' = [gossip EXCEPT !.mail = @ \cup asked]

(* The node that is asked sends what is newer and, where it lacks something, its own
   digest. *)
Answer(m) ==
  LET fresh   == RecordsNewerThan(m.to, m.body)
      records == {[kind |-> "records", from |-> m.to, to |-> m.from, body |-> fresh]}
      asks    == {[kind |-> "digest", from |-> m.to, to |-> m.from, body |-> Digest(m.to)]} IN
  /\ m \in gossip.mail /\ m.kind = "digest"
  /\ gossip' = [gossip EXCEPT !.mail = (@ \ {m})
       \cup (IF \E p \in Nodes : fresh[p] # NoPeer THEN records ELSE {})
       \cup (IF MissingFromLocal(m.to, m.body) # {} THEN asks ELSE {})]

MergeAll(m) ==
  /\ m \in gossip.mail /\ m.kind = "records"
  /\ gossip' = [gossip EXCEPT !.mail = @ \ {m},
       !.table[m.to] = [p \in Nodes |-> Merge(m.to, p, m.body[p], @[p])]]

Lose(m) ==
  /\ m \in gossip.mail
  /\ gossip' = [gossip EXCEPT !.mail = @ \ {m}]

Older(age) == IF age < SuspicionTimeout THEN age + 1 ELSE age

Aged(r) == IF r = NoPeer THEN r ELSE [r EXCEPT !.age = Older(@)]

Tick ==
  gossip' = [gossip EXCEPT
    !.table = [n \in Nodes |-> [p \in Nodes |-> Aged(@[n][p])]],
    !.mail = {[m EXCEPT !.body = IF m.kind = "digest" THEN @
                                 ELSE [p \in Nodes |-> Aged(@[p])]] : m \in @},
    !.failed = [p \in Nodes |-> {Older(a) : a \in @[p]}]]

(* A table is in memory. *)
Restart(n) == gossip' = [gossip EXCEPT !.table[n] = [p \in Nodes |-> NoPeer]]

Next ==
  \/ \E n \in Nodes \ Down :
       \/ \E p \in Nodes : Seed(n, p) \/ MarkAlive(n, p) \/ MarkSuspect(n, p) \/ MarkLeft(n, p)
       \/ \E seed \in Nodes : Round(n, seed)
       \/ ExpireSuspects(n)
       \/ Restart(n)
  \/ \E m \in gossip.mail : (m.to \notin Down /\ (Answer(m) \/ MergeAll(m))) \/ Lose(m)
  \/ Tick

-----------------------------------------------------------------------------
(* Wherever a suspicion has travelled, it is as old as a failed probe of that peer and
   no older, so nobody is called faulty before the timeout has passed since a probe
   of it failed; and no node has an opinion of itself. *)
SuspicionDated ==
  /\ \A n, p \in Nodes :
       LET r == gossip.table[n][p] IN
       /\ r.state = "suspect" => r.age \in gossip.failed[p]
       /\ r.state = "faulty" => SuspicionTimeout \in gossip.failed[p]
  /\ \A n \in Nodes : ~Knows(n, n)

(* An older view, or another one of the same version, never replaces what a node
   holds; only a restart makes it forget. *)
ViewsAdvance ==
  \A n, p \in Nodes :
    LET was == gossip.table[n][p]  is == gossip'.table[n][p] IN
    \/ is.version > was.version
    \/ is.version = was.version /\ is.state = was.state
    \/ \A q \in Nodes : gossip'.table[n][q] = NoPeer
=============================================================================
