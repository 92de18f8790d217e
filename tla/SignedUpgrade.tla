---------------------------- MODULE SignedUpgrade ----------------------------
(***************************************************************************)
(* Upgrades by N of M signers after a delay, as the verifier and the poker *)
(* table both keep them: one open proposal, which a proposal of other code *)
(* replaces.  Only values; the contracts that keep them are in ZkVerifier  *)
(* and TableUpgrades.                                                      *)
(***************************************************************************)
EXTENDS Integers, FiniteSets

NoConfig == [signers |-> {}, threshold |-> 0, delay |-> 0]
NoPending == [wasm |-> "none", approvals |-> {}, age |-> 0]

(* validate_governance_config; a list of signers without duplicates. *)
ValidConfig(cfg) == cfg.threshold \in 1 .. Cardinality(cfg.signers) /\ cfg.delay > 0

(* propose_upgrade: who may sign, and the proposal signed. *)
OpenFor(pending, w) == IF pending.wasm = w THEN pending ELSE [NoPending EXCEPT !.wasm = w]
MaySign(cfg, pending, s, w) == s \in cfg.signers /\ s \notin OpenFor(pending, w).approvals
Signed(pending, s, w) == [OpenFor(pending, w) EXCEPT !.approvals = @ \union {s}]

CanExecute(cfg, pending) ==
  /\ pending # NoPending
  /\ Cardinality(pending.approvals) >= cfg.threshold
  /\ pending.age >= cfg.delay

Older(pending, max) ==
  IF pending = NoPending \/ pending.age = max THEN pending ELSE [pending EXCEPT !.age = @ + 1]
=============================================================================
