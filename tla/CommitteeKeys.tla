--------------------------- MODULE CommitteeKeys -----------------------------
(***************************************************************************)
(* The keys of the committee.  The coordinator's own: a task rotates the   *)
(* active key when it is old, registers the new one with the registry on   *)
(* chain, and deregisters the retiring one.  The nodes': the API keys they *)
(* call the coordinator with, and the addresses that their messages and    *)
(* their shares of a settlement are signed for.                            *)
(***************************************************************************)
EXTENDS Integers, Sequences, FiniteSets

CONSTANTS
  MaxKeys,          \* bound on the keys generated
  Interval,         \* rotation_interval, in ticks
  Overlap,          \* overlap, in ticks
  Nodes, Addresses,
  ApiKeys, Lifetimes, MaxTime,
  Calls,            \* requests under way
  Messages,         \* [node, session, nonce, signer]
  Shares,           \* [node, address, signer, ours]: signed by signer, for this call or another
  MaxShares, Threshold, AllowFallback

VARIABLE keys

NoKey == 0

(* Key 1 is the configured one; age counts ticks since a key was issued. *)
Init ==
  keys = [active |-> 1, retiring |-> NoKey, generated |-> 1, registered |-> {1}, lost |-> {},
          activeAge |-> 0, retiringAge |-> 0, stage |-> "due"]

MaxTicks == IF Interval > Overlap THEN Interval ELSE Overlap
Older(age) == IF age < MaxTicks THEN age + 1 ELSE age

Tick == keys' = [keys EXCEPT !.activeAge = Older(@), !.retiringAge = Older(@)]

DueForRotation == keys.activeAge >= Interval

(* Mutant: a rotation replaces a key still waiting to be deregistered. *)
Rotate_Anyway ==
  /\ keys.stage = "due" /\ DueForRotation /\ keys.generated < MaxKeys
  /\ keys' = [keys EXCEPT !.generated = @ + 1, !.active = keys.generated + 1,
                          !.retiring = keys.active, !.retiringAge = keys.activeAge,
                          !.activeAge = 0, !.stage = "register"]

Rotate ==
  /\ keys.stage = "due" /\ DueForRotation /\ keys.generated < MaxKeys
  /\ keys.retiring = NoKey
  /\ keys' = [keys EXCEPT !.generated = @ + 1, !.active = keys.generated + 1,
                          !.retiring = keys.active, !.retiringAge = keys.activeAge,
                          !.activeAge = 0, !.stage = "register"]

NotRotated ==
  /\ keys.stage = "due"
  /\ ~DueForRotation \/ keys.retiring # NoKey
  /\ keys' = [keys EXCEPT !.stage = "retire"]

(* A failed registration is only logged. *)
Register(accepted) ==
  /\ keys.stage = "register"
  /\ keys' = [keys EXCEPT !.registered = IF accepted THEN @ \union {keys.active} ELSE @,
                          !.stage = "retire"]

(* retiring_expired counts from the issue of the key, not from its rotation. *)
RetiringExpired == keys.retiring # NoKey /\ keys.retiringAge >= Overlap

NothingToRetire ==
  /\ keys.stage = "retire" /\ ~RetiringExpired
  /\ keys' = [keys EXCEPT !.stage = "due"]

(* The registry refuses a key it does not know; an answer may be lost. *)
Deregister(answered) ==
  /\ keys.stage = "retire" /\ RetiringExpired
  /\ keys.retiring \in keys.registered
  /\ keys' = [keys EXCEPT !.registered = @ \ {keys.retiring},
                          !.retiring = IF answered THEN NoKey ELSE @, !.stage = "due"]

DeregisterFails ==
  /\ keys.stage = "retire" /\ RetiringExpired
  /\ keys' = [keys EXCEPT !.stage = "due"]

(* The process comes back with the configured key alone. *)
Restart ==
  keys' = [keys EXCEPT !.lost = @ \union ({keys.active, keys.retiring} \ {1, NoKey}),
                       !.active = 1, !.retiring = NoKey, !.activeAge = 0, !.retiringAge = 0,
                       !.stage = "due"]

Next ==
  \/ Tick \/ Rotate \/ NotRotated \/ NothingToRetire \/ DeregisterFails \/ Restart
  \/ \E ok \in BOOLEAN : Register(ok) \/ Deregister(ok)

Spec == Init /\ [][Next]_keys
-----------------------------------------------------------------------------
(* The API keys of the nodes: rows of a table, and requests that show one. *)
Never == -1
NoRow == [node |-> "nobody", expires |-> Never, active |-> FALSE, revoked |-> Never]
NoAsk == [stage |-> "none", key |-> "none", now |-> Never]

AccessInit ==
  keys = [row |-> [k \in ApiKeys |-> NoRow], ask |-> [c \in Calls |-> NoAsk], time |-> 0]

CreateApiKey(k, n, life) ==
  /\ keys.row[k] = NoRow
  /\ keys' = [keys EXCEPT !.row[k] =
                 [node |-> n, active |-> TRUE, revoked |-> Never,
                  expires |-> IF life = Never THEN Never ELSE keys.time + life]]

(* One UPDATE: a key that is inactive already keeps the time it was revoked at. *)
RevokeApiKey(k) ==
  /\ keys.row[k].active
  /\ keys' = [keys EXCEPT !.row[k].active = FALSE, !.row[k].revoked = keys.time]

Authenticate(c, k) ==
  /\ keys.ask[c].stage = "none"
  /\ keys' = [keys EXCEPT !.ask[c] = [stage |-> "asked", key |-> k, now |-> keys.time]]

Answered(c, stage) == [keys EXCEPT !.ask[c].stage = stage]

(* validate_api_key: the SELECT, against the time before it. *)
ReadRow(c) ==
  LET row == keys.row[keys.ask[c].key] IN
  /\ keys.ask[c].stage = "asked"
  /\ keys' = Answered(c, IF /\ row.active /\ row.revoked = Never
                            /\ ~(row.expires # Never /\ keys.ask[c].now > row.expires)
                         THEN "read" ELSE "refused")

(* Then the UPDATE of its last use; the database may fail at either. *)
NoteUse(c)        == keys.ask[c].stage = "read" /\ keys' = Answered(c, "admitted")
DatabaseFails(c)  == keys.ask[c].stage \in {"asked", "read"} /\ keys' = Answered(c, "refused")
Reply(c)          == /\ keys.ask[c].stage \in {"admitted", "refused"}
                     /\ keys' = [keys EXCEPT !.ask[c] = NoAsk]
Pass              == keys.time < MaxTime /\ keys' = [keys EXCEPT !.time = @ + 1]

AccessNext ==
  \/ \E k \in ApiKeys : RevokeApiKey(k) \/ \E n \in Nodes, life \in Lifetimes : CreateApiKey(k, n, life)
  \/ \E c \in Calls : \/ \E k \in ApiKeys : Authenticate(c, k)
                      \/ ReadRow(c) \/ NoteUse(c) \/ DatabaseFails(c) \/ Reply(c)
  \/ Pass
-----------------------------------------------------------------------------
(* Stellar addresses of the nodes: what they sign, and shares of a settlement. *)
NoAddress == "none"
NoMessage == [node |-> "nobody", session |-> "none", nonce |-> Never, signer |-> NoAddress]

IdentityInit ==
  keys = [address |-> [n \in Nodes |-> NoAddress],
          ever    |-> {},                           \* history: who had which address
          seen    |-> {},
          call    |-> [c \in Calls |-> [stage |-> "none", message |-> NoMessage]],
          shares  |-> <<>>, next |-> 1, nodes |-> {}, valid |-> <<>>, result |-> "none"]

(* A new address replaces the old one at once, for what is under way too. *)
RegisterNodeIdentity(n, a) ==
  keys' = [keys EXCEPT !.address[n] = a, !.ever = @ \union {<<n, a>>}]

(* verify_signature. *)
SignedFor(address, what) == what.signer = address

(* verify_session_message_with_tracker: under one lock the address, and with it the
   signature; under another the nonce. *)
VerifyMessage(c, m) ==
  /\ keys.call[c].stage = "none"
  /\ keys' = [keys EXCEPT !.call[c] =
       [message |-> m, stage |-> IF SignedFor(keys.address[m.node], m) THEN "signed" ELSE "refused"]]

NonceKey(m) == <<m.node, m.session, m.nonce>>

CheckAndRecord(c) ==
  LET new == NonceKey(keys.call[c].message) IN
  /\ keys.call[c].stage = "signed"
  /\ keys' = [keys EXCEPT !.seen = @ \union {new},
                          !.call[c].stage = IF new \in keys.seen THEN "refused" ELSE "heard"]

(* verify_collected_shares: one share after the other, each against the addresses of
   its time.  A node's first share counts, whether or not it is valid. *)
Submit(shares) ==
  /\ keys.shares = <<>>
  /\ keys' = [keys EXCEPT !.shares = shares]

VerifyShare ==
  LET s == keys.shares[keys.next] IN
  /\ keys.next \in DOMAIN keys.shares
  /\ keys' = [keys EXCEPT !.next = @ + 1, !.nodes = @ \union {s.node},
                          !.valid = IF /\ s.node \notin keys.nodes
                                       /\ keys.address[s.node] = s.address
                                       /\ SignedFor(s.address, s) /\ s.ours
                                    THEN Append(@, s) ELSE @]

Decide ==
  /\ keys.shares # <<>> /\ keys.next > Len(keys.shares) /\ keys.result = "none"
  /\ keys' = [keys EXCEPT !.result = IF Len(keys.valid) >= Threshold THEN "threshold"
                                     ELSE IF AllowFallback THEN "fallback" ELSE "refused"]

Onboard == \E n \in Nodes, a \in Addresses : RegisterNodeIdentity(n, a)

MessagesNext ==
  \/ Onboard
  \/ \E c \in Calls : CheckAndRecord(c) \/ \E m \in Messages : VerifyMessage(c, m)

SharesNext ==
  \/ Onboard
  \/ \E k \in 1 .. MaxShares : \E shares \in [1 .. k -> Shares] : Submit(shares)
  \/ VerifyShare \/ Decide
-----------------------------------------------------------------------------
(* A key that is registered on chain, with its stake, is one the coordinator still
   holds: only a restart loses keys. *)
NoKeyStranded == keys.registered \subseteq {1, keys.active, keys.retiring} \union keys.lost

(* Nobody is let in with a key that had expired or was revoked when the request came. *)
RevokedStaysOut ==
  \A c \in Calls : keys.ask[c].stage = "admitted" =>
    LET row     == keys.row[keys.ask[c].key]
        Past(t) == t # Never /\ t < keys.ask[c].now
    IN row # NoRow /\ ~Past(row.revoked) /\ ~Past(row.expires)

(* A message is heard once, and from who had the node's address; a nonce is spent by
   the message that was heard, and by no forgery of it. *)
MessagesHeardOnce ==
  LET heard  == {c \in Calls : keys.call[c].stage = "heard"}
      Of(c)  == keys.call[c].message
  IN /\ \A c \in heard : <<Of(c).node, Of(c).signer>> \in keys.ever
     /\ \A c, d \in heard : NonceKey(Of(c)) = NonceKey(Of(d)) => c = d
     /\ keys.seen = {NonceKey(Of(c)) : c \in heard}

(* A settlement goes out as the committee's when as many nodes as it takes signed
   this one; a node that sent several shares is one node. *)
QuorumReal ==
  LET signed == {s.node : s \in {x \in {keys.shares[i] : i \in DOMAIN keys.shares} :
                                   x.ours /\ <<x.node, x.signer>> \in keys.ever}}
  IN keys.result = "threshold" => Cardinality(signed) >= Threshold
=============================================================================
