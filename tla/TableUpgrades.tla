---------------------------- MODULE TableUpgrades ----------------------------
(***************************************************************************)
(* How the code of the poker-table contract changes.  Every table of the   *)
(* contract keeps two queues: the admin's own proposal, with a delay in    *)
(* seconds and a way back for a while, and the proposal of the table's     *)
(* signers.  The code itself is one, whichever table changes it.           *)
(***************************************************************************)
EXTENDS SignedUpgrade

CONSTANTS
  Tables, Signers, Wasms,
  Configs,       \* signers, thresholds and delays an admin may configure
  MinDelay,      \* MIN_UPGRADE_DELAY_SECONDS
  Window,        \* ROLLBACK_WINDOW_SECONDS
  MaxAge         \* ages of signers' proposals beyond this one are not told apart

VARIABLE upg

NoProposal == [wasm |-> "none", left |-> 0]
NoRecord == [previous |-> "none", new |-> "none", age |-> 0]

Init ==
  upg = [code     |-> "genesis",
         proposal |-> [t \in Tables |-> NoProposal],    \* UpgradeProposal
         last     |-> [t \in Tables |-> NoRecord],      \* LastUpgrade
         config   |-> [t \in Tables |-> NoConfig],
         pending  |-> [t \in Tables |-> NoPending],     \* PendingUpgrade
         prior    |-> [t \in Tables |-> "none"],        \* history: what execute_upgrade
         latest   |-> [t \in Tables |-> "none"]]        \* installed before, and last

Governed(t) == upg.config[t].signers # {}

-----------------------------------------------------------------------------
(* The admin's queue. *)
ProposeUpgrade(t, w, delay) ==
  /\ delay >= MinDelay
  /\ upg' = [upg EXCEPT !.proposal[t] = [wasm |-> w, left |-> delay]]

CancelUpgrade(t) ==
  /\ upg.proposal[t] # NoProposal
  /\ upg' = [upg EXCEPT !.proposal[t] = NoProposal]

ExecuteUpgrade(t) ==
  LET w == upg.proposal[t].wasm IN
  /\ upg.proposal[t] # NoProposal /\ upg.proposal[t].left = 0
  /\ upg' = [upg EXCEPT !.proposal[t] = NoProposal, !.code = w,
       !.last[t] = [previous |-> upg.last[t].new, new |-> w, age |-> 0],
       !.prior[t] = upg.latest[t], !.latest[t] = w]

RevertLastUpgrade(t) ==
  LET record == upg.last[t] IN
  /\ record # NoRecord /\ record.previous # "none" /\ record.age <= Window
  /\ upg' = [upg EXCEPT !.last[t] = NoRecord, !.code = record.previous,
                        !.latest[t] = upg.prior[t]]

-----------------------------------------------------------------------------
(* The signers' queue. *)
ConfigureUpgradeGovernance(t, cfg) ==
  ValidConfig(cfg) /\ upg' = [upg EXCEPT !.config[t] = cfg]

ProposeGovernanceUpgrade(t, s, w) ==
  /\ Governed(t) /\ MaySign(upg.config[t], upg.pending[t], s, w)
  /\ upg' = [upg EXCEPT !.pending[t] = Signed(@, s, w)]

CancelPendingUpgrade(t) == upg' = [upg EXCEPT !.pending[t] = NoPending]

ExecuteGovernanceUpgrade(t) ==
  /\ Governed(t) /\ CanExecute(upg.config[t], upg.pending[t])
  /\ upg' = [upg EXCEPT !.code = upg.pending[t].wasm, !.pending[t] = NoPending]

(* upgrade: at once for a table without signers, else like the above. *)
Upgrade(t, w) ==
  \/ ~Governed(t) /\ upg' = [upg EXCEPT !.code = w]
  \/ upg.pending[t].wasm = w /\ ExecuteGovernanceUpgrade(t)

Tick ==
  LET sooner(p) == IF p.left = 0 THEN p ELSE [p EXCEPT !.left = @ - 1]
      later(r) == IF r = NoRecord \/ r.age > Window THEN r ELSE [r EXCEPT !.age = @ + 1] IN
  upg' = [upg EXCEPT !.proposal = [t \in Tables |-> sooner(upg.proposal[t])],
                     !.last     = [t \in Tables |-> later(upg.last[t])],
                     !.pending  = [t \in Tables |-> Older(upg.pending[t], MaxAge)]]

Next ==
  \/ \E t \in Tables :
       \/ CancelUpgrade(t) \/ ExecuteUpgrade(t) \/ RevertLastUpgrade(t)
       \/ CancelPendingUpgrade(t) \/ ExecuteGovernanceUpgrade(t)
       \/ \E cfg \in Configs : ConfigureUpgradeGovernance(t, cfg)
       \/ \E w \in Wasms : \/ Upgrade(t, w) \/ ProposeUpgrade(t, w, MinDelay)
                           \/ \E s \in Signers : ProposeGovernanceUpgrade(t, s, w)
  \/ Tick

Spec == Init /\ [][Next]_upg

-----------------------------------------------------------------------------
(* ADR-006: a revert goes back one step, to what this table's execute_upgrade
   had installed before, never to code that was itself taken back, and only
   while the window is open. *)
RevertsOneStep ==
  \A t \in Tables :
    upg'.latest[t] # upg.latest[t] /\ upg'.proposal[t] = upg.proposal[t]
      => upg'.code = upg.prior[t] /\ upg.last[t].age <= Window
=============================================================================
