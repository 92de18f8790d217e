----------------------------- MODULE ZkVerifier -----------------------------
(***************************************************************************)
(* The proof verifier: a verification key per circuit type and another one *)
(* per circuit id, which falls back to the type's; a switch for all of     *)
(* them; and the upgrade of the contract's own code by N of M signers      *)
(* after a delay.  A proof is a key it was made for and whether its public *)
(* inputs are what the caller expects; the mathematics is external.        *)
(***************************************************************************)
EXTENDS SignedUpgrade

CONSTANTS
  Types,          \* circuit ids that are also circuit types
  Ids,            \* all circuit ids
  Keys, MaxVersion,
  Signers, Wasms,
  Configs,        \* [signers, threshold, delay] the admin may configure
  MaxCount,       \* where a failure counter saturates
  MaxAge          \* ages of a proposal beyond this one are not told apart

VARIABLE zk

Proofs == [key : Keys, fits : BOOLEAN, sized : BOOLEAN]
NoKey == [key |-> "none", version |-> 0]

Init ==
  zk = [byType   |-> [c \in Types |-> NoKey],
        byId     |-> [c \in Ids |-> NoKey],
        status   |-> [c \in Ids |-> "Active"],
        paused   |-> FALSE,
        verified |-> {},                                   \* proofs recorded as verified
        failures |-> [r \in {"BadVk", "BadProof", "MalformedInputs"} |-> 0],
        config   |-> NoConfig,
        pending  |-> NoPending,
        endorsed |-> [w \in Wasms |-> {}],                 \* history: who proposed w
        code     |-> "original"]

SetPaused(b) == zk' = [zk EXCEPT !.paused = b]

-----------------------------------------------------------------------------
(* Keys. *)
SetVerificationKey(c, key, version) ==
  /\ version > zk.byType[c].version
  /\ zk' = [zk EXCEPT !.byType[c] = [key |-> key, version |-> version]]

LoadRawVkEntry(s, c) ==
  IF s.byId[c] # NoKey THEN s.byId[c] ELSE IF c \in Types THEN s.byType[c] ELSE NoKey

(* Mutant: the version is compared with the id's own key only. *)
UpdateVk_NoFallback(c, key, version) ==
  /\ version > zk.byId[c].version
  /\ zk' = [zk EXCEPT !.byId[c] = [key |-> key, version |-> version],
                      !.status[c] = "Active"]

UpdateVk(c, key, version) ==
  /\ version > LoadRawVkEntry(zk, c).version
  /\ zk' = [zk EXCEPT !.byId[c] = [key |-> key, version |-> version],
                      !.status[c] = "Active"]

SetCircuitStatus(c, status) ==
  /\ LoadRawVkEntry(zk, c) # NoKey
  /\ zk' = [zk EXCEPT !.status[c] = status]

DeprecateVk(c) == SetCircuitStatus(c, "Stale")

-----------------------------------------------------------------------------
(* Proofs. *)
RecordFailure(reason) ==
  zk' = [zk EXCEPT !.failures[reason] = IF @ < MaxCount THEN @ + 1 ELSE @]

Accept(p) == zk' = [zk EXCEPT !.verified = @ \union {p}]

(* verify_proof: failures return false, so that the counter survives. *)
VerifyProof(c, p) ==
  /\ ~zk.paused
  /\ IF ~p.sized THEN RecordFailure("BadProof")
     ELSE IF zk.byType[c] = NoKey THEN RecordFailure("BadVk")
     ELSE IF p.key # zk.byType[c].key THEN RecordFailure("BadProof")
     ELSE Accept(p)

(* verify_deal, verify_reveal, verify_showdown: the public inputs first. *)
VerifyByType(c, p) ==
  IF ~p.fits THEN RecordFailure("MalformedInputs") ELSE VerifyProof(c, p)

GetVkById(c) == IF zk.status[c] = "Active" THEN LoadRawVkEntry(zk, c) ELSE NoKey

(* verify_proof_by_id and its three callers: a failure is an error, and nothing
   is recorded. *)
VerifyProofById(c, p) ==
  /\ ~zk.paused /\ p.sized
  /\ GetVkById(c) # NoKey /\ p.key = GetVkById(c).key
  /\ Accept(p)

VerifyById(c, p) == p.fits /\ VerifyProofById(c, p)

-----------------------------------------------------------------------------
(* Upgrades. *)
ConfigureUpgradeGovernance(cfg) ==
  ValidConfig(cfg) /\ zk' = [zk EXCEPT !.config = cfg]

ProposeUpgrade(s, w) ==
  /\ MaySign(zk.config, zk.pending, s, w)
  /\ zk' = [zk EXCEPT !.pending = Signed(@, s, w), !.endorsed[w] = @ \union {s}]

ExecuteUpgrade ==
  /\ zk.config # NoConfig /\ CanExecute(zk.config, zk.pending)
  /\ zk' = [zk EXCEPT !.code = zk.pending.wasm, !.pending = NoPending,
                      !.endorsed[zk.pending.wasm] = {}]

(* A ledger closes while an upgrade waits. *)
Tick ==
  /\ zk.pending # NoPending
  /\ zk' = [zk EXCEPT !.pending = Older(@, MaxAge)]

Next ==
  \/ \E b \in BOOLEAN : SetPaused(b)
  \/ \E c \in Types, k \in Keys, v \in 1 .. MaxVersion : SetVerificationKey(c, k, v)
  \/ \E c \in Ids, k \in Keys, v \in 1 .. MaxVersion : UpdateVk(c, k, v)
  \/ \E c \in Ids : \/ DeprecateVk(c)
                    \/ \E s \in {"Active", "Stale", "Deprecated"} : SetCircuitStatus(c, s)
  \/ \E c \in Types, p \in Proofs : VerifyProof(c, p) \/ VerifyByType(c, p)
  \/ \E c \in Ids, p \in Proofs : VerifyProofById(c, p) \/ VerifyById(c, p)
  \/ \E cfg \in Configs : ConfigureUpgradeGovernance(cfg)
  \/ \E s \in Signers, w \in Wasms : ProposeUpgrade(s, w)
  \/ ExecuteUpgrade \/ Tick

Spec == Init /\ [][Next]_zk

-----------------------------------------------------------------------------
(* Replacing the key a circuit id resolves to, in its own slot or in that of
   the type it falls back to, always moves to a higher version: a retired key
   cannot come back under its old version. *)
KeysMoveForward ==
  \A c \in Ids :
    LoadRawVkEntry(zk', c) # LoadRawVkEntry(zk, c) =>
      LoadRawVkEntry(zk', c).version > LoadRawVkEntry(zk, c).version

(* The contract's code changes only to code that as many different signers as
   the threshold asks have each proposed themselves. *)
CodeChangesEndorsed ==
  zk'.code # zk.code =>
    Cardinality(zk.endorsed[zk'.code]) >= zk.config.threshold /\ zk.config.threshold > 0
=============================================================================
