------------------------------ MODULE NodeHealth ------------------------------
(***************************************************************************)
(* Which MPC nodes the coordinator believes in, and the committee that     *)
(* each table's hands are sent to: the registry of nodes that announce     *)
(* themselves, the health loop over the configured endpoints, attestations *)
(* of what the nodes run, the recovery from a node that failed, and the    *)
(* reports of nodes that cannot reach each other.                          *)
(***************************************************************************)
EXTENDS Integers, FiniteSets, SequencesExt

CONSTANTS
  Ids,               \* node ids, 1 .. the number of them
  Homes,             \* [Ids -> the endpoints a node may announce], disjoint
  Static,            \* configured endpoints; that of node i is Static[i]
  Dynamic,           \* dynamic_discovery_active
  Tables,
  Rank,              \* [Tables -> [endpoint -> hash]]: table affinity
  HeartbeatTimeout, StaleTtl, MaxAge, ReportTtl,   \* in ticks
  Strict,            \* MPC_ATTESTATION_STRICT
  Reports            \* sets of nodes that a report calls unreachable

VARIABLE node

MinHealthyNodes == 3
Endpoints == UNION {Homes[i] : i \in Ids} \cup {Static[k] : k \in DOMAIN Static}
NoNode    == [at |-> "", age |-> 0]
NoReport  == [unreachable |-> {}, age |-> -1]
NoAttest  == [built |-> -1, received |-> -1]
NoProbe   == [at |-> 0, found |-> ""]
Views     == {"up", "draining", "down"}

(* A coordinator's start: all it knows of the nodes is in memory. *)
Started(r) ==
  [r EXCEPT !.registry = [i \in Ids |-> NoNode], !.health = [k \in DOMAIN Static |-> "none"],
            !.probe = NoProbe, !.attested = [i \in Ids |-> NoAttest],
            !.committee = [t \in Tables |-> <<>>],
            !.report = [i \in Ids |-> NoReport], !.partitioned = {}]

Init ==
  node = Started([registry |-> <<>>, health |-> <<>>, probe |-> NoProbe, attested |-> <<>>,
                  committee |-> <<>>, report |-> <<>>, partitioned |-> {},
                  saved     |-> {},              \* tables with a row in the recovery database
                  documents |-> [i \in Ids |-> {}]])   \* ages of the attestations it signed

-----------------------------------------------------------------------------
(* NodeRegistry *)
Known(i)   == node.registry[i] # NoNode
Healthy    == {i \in Ids : Known(i) /\ node.registry[i].age <= HeartbeatTimeout}
Sorted(S)  == SetToSortSeq(S, <)
HealthyEndpoints == [k \in 1 .. Cardinality(Healthy) |-> node.registry[Sorted(Healthy)[k]].at]

Register(i, e) ==
  /\ Dynamic
  /\ node' = [node EXCEPT !.registry =
       [j \in Ids |-> IF j = i THEN [at |-> e, age |-> 0]
                      ELSE IF node.registry[j].age > StaleTtl THEN NoNode
                      ELSE node.registry[j]]]

Heartbeat(i) ==
  /\ Dynamic /\ Known(i)
  /\ node' = [node EXCEPT !.registry[i].age = 0]

Deregister(i) ==
  /\ Dynamic /\ Known(i)
  /\ node' = [node EXCEPT !.registry[i] = NoNode]

-----------------------------------------------------------------------------
(* The health loop asks one configured node after the other, whatever the registry
   has, and writes down what it found after the answer. *)
IsAttested(i) ==
  LET a == node.attested[i] IN
  ~Strict \/ (a # NoAttest /\ a.received <= MaxAge)

Probe(found) ==
  LET k == node.probe.at + 1 IN
  /\ node.probe.found = "" /\ k \in DOMAIN Static
  /\ node' = [node EXCEPT !.probe = [at |-> k, found |-> found]]

NoteHealth ==
  LET k == node.probe.at  found == node.probe.found IN
  /\ found # ""
  /\ node' = [node EXCEPT
       !.health[k] = IF found # "down" /\ ~IsAttested(k) THEN "down" ELSE found,
       !.probe = IF k = Len(Static) THEN NoProbe ELSE [at |-> k, found |-> ""]]

(* A node signs an attestation and sends it, or one that it sent before. *)
SignAttestation(i) ==
  /\ Strict /\ 0 \notin node.documents[i]
  /\ node' = [node EXCEPT !.documents[i] = @ \cup {0}]

SubmitAttestation(i, age) ==
  /\ age \in node.documents[i] /\ age <= MaxAge
  /\ node' = [node EXCEPT !.attested[i] = [built |-> age, received |-> 0]]

-----------------------------------------------------------------------------
(* select_mpc_nodes: three that are healthy, in the table's order. *)
ByAffinity(t, S) == SetToSortSeq(S, LAMBDA a, b : Rank[t][a] < Rank[t][b])
Connected == {Static[k] : k \in {j \in DOMAIN Static : node.health[j] \in {"up", "draining"}}}

Choice(t) ==
  IF Dynamic
  THEN IF Len(HealthyEndpoints) < MinHealthyNodes THEN <<>>
       ELSE ByAffinity(t, ToSet(SubSeq(HealthyEndpoints, 1, MinHealthyNodes)))
  ELSE IF Cardinality(Connected) < MinHealthyNodes THEN <<>>
       ELSE SubSeq(ByAffinity(t, Connected), 1, MinHealthyNodes)

(* create_table, or the first request for a table that was rebuilt from the chain. *)
Select(t) ==
  /\ node.committee[t] = <<>> /\ Choice(t) # <<>>
  /\ node' = [node EXCEPT !.committee[t] = Choice(t)]

(* recover_from_node_failure: all three are needed, so the node is replaced by the
   first that is no member; the others move up. *)
Candidates(old, offered) == SelectSeq(offered, LAMBDA e : e \notin ToSet(old))
Replaced(old, k, offered) == Append(RemoveAt(old, k), Head(Candidates(old, offered)))

(* The row has the session and not its committee; a restart reports the rows that
   there are, and nothing takes one up or deletes it. *)
Checkpoint(r, t) == [r EXCEPT !.saved = @ \cup {t}]

(* A request fails and its error names node k: attempt_partial_recovery. *)
Recover(t, k) ==
  LET old == node.committee[t]
      offered == IF Dynamic THEN HealthyEndpoints ELSE Static
  IN  /\ ~\E j \in DOMAIN Static : node.health[j] = "draining"
      /\ k \in DOMAIN old
      /\ node' = IF Candidates(old, offered) = <<>> THEN Checkpoint(node, t)
                 ELSE [Checkpoint(node, t) EXCEPT !.committee[t] = Replaced(old, k, offered)]

-----------------------------------------------------------------------------
(* submit_partition_report and recompute: of the reports that are still fresh, but
   for the candidate's own, half must say so. *)
Fresh(reports) == {i \in Ids : reports[i].age \in 0 .. ReportTtl}
Candidacies    == IF Static = <<>> THEN Healthy ELSE Ids

Report(i, unreachable) ==
  LET reports == [node.report EXCEPT ![i] = [unreachable |-> unreachable, age |-> 0]]
      others(c) == Fresh(reports) \ {c}
      against(c) == Cardinality({j \in others(c) : c \in reports[j].unreachable})
      heard   == {c \in Candidacies : others(c) # {}}
      cutOff  == {c \in heard : against(c) >= 1 /\ 2 * against(c) >= Cardinality(others(c))}
  IN  node' = [node EXCEPT
        !.report = [j \in Ids |-> IF j \in Fresh(reports) THEN reports[j] ELSE NoReport],
        !.partitioned = (@ \ heard) \cup cutOff]

-----------------------------------------------------------------------------
Restart == node' = Started(node)

Older(n, most) == IF n \in 0 .. most THEN n + 1 ELSE n

Tick ==
  node' = [node EXCEPT
    !.registry = [i \in Ids |-> IF Known(i) THEN [@[i] EXCEPT !.age = Older(@, StaleTtl)] ELSE NoNode],
    !.attested = [i \in Ids |-> [built    |-> Older(@[i].built, 2 * MaxAge + 1),
                                 received |-> Older(@[i].received, MaxAge)]],
    !.documents = [i \in Ids |-> {a + 1 : a \in {b \in @[i] : b <= MaxAge}}],
    !.report = [i \in Ids |-> [@[i] EXCEPT !.age = Older(@, ReportTtl)]]]

Serve ==
  \/ \E i \in Ids : Heartbeat(i) \/ Deregister(i) \/ \E e \in Homes[i] : Register(i, e)
  \/ \E t \in Tables : Select(t) \/ \E k \in 1 .. MinHealthyNodes : Recover(t, k)
  \/ Restart \/ Tick

Watch ==
  \/ NoteHealth \/ \E found \in Views : Probe(found)
  \/ \E i \in Ids : SignAttestation(i) \/ \E age \in 0 .. MaxAge : SubmitAttestation(i, age)

Listen == \E i \in Ids, S \in Reports : Report(i, S)

Next == Serve \/ Watch \/ Listen

Spec == Init /\ [][Next]_node
-----------------------------------------------------------------------------
(* A hand goes to three different nodes. *)
CommitteesWhole ==
  \A t \in Tables :
    LET c == node.committee[t] IN
    c # <<>> => Len(c) = MinHealthyNodes /\ Cardinality(ToSet(c)) = Len(c)

(* What a node was attested to run, it ran at most two lifetimes of an attestation
   ago: one until it arrived and one since. *)
AttestedLately ==
  \A i \in Ids : Strict /\ IsAttested(i) => node.attested[i].built <= 2 * MaxAge
=============================================================================
