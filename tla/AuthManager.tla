----------------------------- MODULE AuthManager -----------------------------
(***************************************************************************)
(* Who may do what: roles and direct permissions that any admin grants and *)
(* revokes, calls between contracts, a pause, and actions that several     *)
(* admins approve and that then wait for a timelock.  Admins are only ever *)
(* added, and any one of them may change the threshold.                    *)
(***************************************************************************)
EXTENDS Integers, Sequences, FiniteSets

CONSTANTS
  Admin,            \* who initialised the contract
  Accounts,         \* accounts that may become admins or hold roles
  Roles, Permissions,
  Contracts,
  InitialThreshold,
  Delays,           \* timelocks, at least one second
  MaxProposals      \* bound on the proposals made

VARIABLE auth

Init ==
  auth = [admins    |-> {Admin},
          threshold |-> InitialThreshold,
          paused    |-> FALSE,
          role      |-> [r \in Roles |-> IF r = "admin" THEN Permissions ELSE {}],
          roles     |-> [a \in Accounts |-> IF a = Admin THEN {"admin"} ELSE {}],
          direct    |-> [a \in Accounts |-> {}],
          calls     |-> {},                       \* AuthorizedCaller
          proposal  |-> <<>>]

IsAdmin(a) == a \in auth.admins
May(a) == ~auth.paused /\ IsAdmin(a)

DefineRole(a, r, permissions) ==
  May(a) /\ auth' = [auth EXCEPT !.role[r] = permissions]

GrantRole(a, user, r) ==
  /\ May(a) /\ r \notin auth.roles[user]
  /\ auth' = [auth EXCEPT !.roles[user] = @ \union {r}]

RevokeRole(a, user, r) ==
  /\ May(a) /\ r \in auth.roles[user]
  /\ auth' = [auth EXCEPT !.roles[user] = @ \ {r}]

GrantPermission(a, user, p) ==
  May(a) /\ auth' = [auth EXCEPT !.direct[user] = @ \union {p}]
RevokePermission(a, user, p) ==
  May(a) /\ auth' = [auth EXCEPT !.direct[user] = @ \ {p}]

HasPermission(user, p) ==
  p \in auth.direct[user] \/ \E r \in auth.roles[user] : p \in auth.role[r]

(* A new admin's other roles are overwritten. *)
AddMultisigAdmin(a, new) ==
  /\ May(a) /\ new \notin auth.admins
  /\ auth' = [auth EXCEPT !.admins = @ \union {new}, !.roles[new] = {"admin"}]

SetThreshold(a, threshold) ==
  /\ May(a) /\ threshold \in 1 .. Cardinality(auth.admins)
  /\ auth' = [auth EXCEPT !.threshold = threshold]

AuthorizeContractCall(a, from, to, yes) ==
  /\ May(a)
  /\ auth' = [auth EXCEPT !.calls = IF yes THEN @ \union {<<from, to>>} ELSE @ \ {<<from, to>>}]

SetPaused(a, b) == IsAdmin(a) /\ auth' = [auth EXCEPT !.paused = b]

-----------------------------------------------------------------------------
ProposeAction(a, delay) ==
  /\ May(a) /\ Len(auth.proposal) < MaxProposals
  /\ auth' = [auth EXCEPT !.proposal =
       Append(@, [approvals |-> <<a>>, left |-> delay, executed |-> FALSE])]

Approvers(p) == {p.approvals[i] : i \in DOMAIN p.approvals}

ApproveAction(a, id) ==
  LET p == auth.proposal[id] IN
  /\ May(a) /\ ~p.executed /\ a \notin Approvers(p)
  /\ auth' = [auth EXCEPT !.proposal[id].approvals = Append(@, a)]

ExecuteAction(a, id) ==
  LET p == auth.proposal[id] IN
  /\ May(a) /\ ~p.executed /\ p.left = 0 /\ Len(p.approvals) >= auth.threshold
  /\ auth' = [auth EXCEPT !.proposal[id].executed = TRUE]

(* A second passes. *)
Tick ==
  LET aged(p) == [p EXCEPT !.left = IF p.left = 0 THEN 0 ELSE p.left - 1]
  IN  auth' = [auth EXCEPT !.proposal = [id \in DOMAIN @ |-> aged(@[id])]]

Next ==
  \/ \E a \in Accounts :
       \/ \E r \in Roles, ps \in SUBSET Permissions : DefineRole(a, r, ps)
       \/ \E u \in Accounts : \/ AddMultisigAdmin(a, u)
                              \/ \E r \in Roles : GrantRole(a, u, r) \/ RevokeRole(a, u, r)
                              \/ \E p \in Permissions :
                                   GrantPermission(a, u, p) \/ RevokePermission(a, u, p)
       \/ \E n \in 1 .. Cardinality(Accounts) : SetThreshold(a, n)
       \/ \E from, to \in Contracts, yes \in BOOLEAN : AuthorizeContractCall(a, from, to, yes)
       \/ \E b \in BOOLEAN : SetPaused(a, b)
       \/ \E d \in Delays : ProposeAction(a, d)
       \/ \E id \in DOMAIN auth.proposal : ApproveAction(a, id) \/ ExecuteAction(a, id)
  \/ Tick

Spec == Init /\ [][Next]_auth

-----------------------------------------------------------------------------
(* An action is executed with the approval of as many different admins as the
   threshold of that moment asks, after its timelock and not while paused. *)
ExecutedWithConsent ==
  \A id \in DOMAIN auth.proposal :
    auth'.proposal[id].executed /\ ~auth.proposal[id].executed =>
      /\ Cardinality(Approvers(auth.proposal[id]) \intersect auth.admins) >= auth.threshold
      /\ auth.proposal[id].left = 0 /\ ~auth.paused
=============================================================================
