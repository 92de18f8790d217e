-------------------------- MODULE CommitteeCapacity -------------------------
(***************************************************************************)
(* How the committees of MPC nodes grow and shrink.  A node is taken out:  *)
(* it drains, a plan says what becomes of the sessions still on it, and    *)
(* enacting the plan lets it go (a node the manager has not met counts as  *)
(* active without sessions).  And the number of committees follows demand: *)
(* a decision is taken from a run of samples, and the committees it starts *)
(* and retires take their time to come and go while sessions begin and     *)
(* end.  Thresholds are percentages, compared exactly.                     *)
(***************************************************************************)
EXTENDS Integers, SequencesExt

CONSTANTS
  Nodes, Sessions,
  DrainTimeout,             \* in ticks
  RequireIdentity           \* require_identity_equivalent_standby

CONSTANTS
  PerCommittee, UpThreshold, DownThreshold, MinCommittees, MaxCommittees,
  UpSamples, DownSamples,   \* the policy
  Loads                     \* the numbers of sessions there may be (bound)

VARIABLES
  drain,                    \* the nodes that leave
  scale                     \* the committees

NoPlan == [node |-> "none", replacement |-> "none", resume |-> FALSE, sessions |-> {}]

Init ==
  drain = [phase   |-> [n \in Nodes |-> "Active"],
           elapsed |-> [n \in Nodes |-> 0],
           pending |-> [n \in Nodes |-> {}],
           plan    |-> NoPlan]

Begin(n) ==
  /\ drain.phase[n] = "Active"
  /\ drain' = [drain EXCEPT !.phase[n] = "Draining", !.elapsed[n] = 0]

(* Mutant: a node takes new sessions until it is gone. *)
TrackSession_Late(n, s) ==
  /\ drain.phase[n] # "Decommissioned"
  /\ drain' = [drain EXCEPT !.pending[n] = @ \union {s}]

TrackSession(n, s) ==
  /\ drain.phase[n] = "Active"
  /\ drain' = [drain EXCEPT !.pending[n] = @ \union {s}]

CompleteSession(n, s) == drain' = [drain EXCEPT !.pending[n] = @ \ {s}]

Tick ==
  drain' = [drain EXCEPT !.elapsed =
              [n \in Nodes |-> IF drain.phase[n] = "Draining" /\ @[n] < DrainTimeout
                               THEN @[n] + 1 ELSE @[n]]]

(* drain_status: drained, or out of time. *)
DrainOver(n) == drain.pending[n] = {} \/ drain.elapsed[n] = DrainTimeout

PlanReshuffle(n, replacement, identity) ==
  /\ replacement # n
  /\ drain.phase[n] = "Draining" /\ DrainOver(n)
  /\ identity \/ ~RequireIdentity
  /\ drain' = [drain EXCEPT !.phase[n] = "Reshuffling",
                            !.plan = [node |-> n, replacement |-> replacement, resume |-> identity,
                                      sessions |-> drain.pending[n]]]

(* Only the last plan is kept: of two nodes being reshuffled at once, the first
   cannot be enacted any more. *)
EnactReshuffle(n) ==
  /\ drain.plan.node = n
  /\ drain.phase[n] = "Reshuffling"
  /\ drain' = [drain EXCEPT !.pending[n] = {}, !.phase[n] = "Decommissioned"]

Cancel(n) ==
  /\ drain.phase[n] # "Decommissioned"
  /\ drain' = [drain EXCEPT !.phase[n] = "Active", !.elapsed[n] = 0]

Next ==
  \/ \E n \in Nodes :
       \/ Begin(n) \/ EnactReshuffle(n) \/ Cancel(n)
       \/ \E s \in Sessions : TrackSession(n, s) \/ CompleteSession(n, s)
       \/ \E r \in Nodes, identity \in BOOLEAN : PlanReshuffle(n, r, identity)
  \/ Tick

-----------------------------------------------------------------------------
Longest == IF UpSamples > DownSamples THEN UpSamples ELSE DownSamples

Hold == [up |-> 0, down |-> 0]

ScaleInit ==
  scale = [active |-> 0, ready |-> MinCommittees, provisioning |-> 0, draining |-> 0,
           samples |-> <<>>]

-----------------------------------------------------------------------------
Served(sample) == sample.ready # 0

Above(sample) == Served(sample) /\
  100 * sample.active > UpThreshold * sample.ready * PerCommittee

Below(sample) == Served(sample) /\
  100 * sample.active < DownThreshold * sample.ready * PerCommittee

Clamped(n) ==
  IF n < MinCommittees THEN MinCommittees ELSE IF n > MaxCommittees THEN MaxCommittees ELSE n

(* Rounded up. *)
Desired(sample) ==
  Clamped((100 * sample.active + PerCommittee * UpThreshold - 1)
            \div (PerCommittee * UpThreshold))

(* Of the last `required` samples. *)
Sustained(samples, required, matching) ==
  /\ Len(samples) >= required
  /\ Len(samples) - required + 1 .. Len(samples) \subseteq matching

Decide(samples, provisioning, draining) ==
  LET latest  == Last(samples)
      missing == Desired(latest) - latest.ready
      high    == {i \in DOMAIN samples : Above(samples[i])}
      low     == {i \in DOMAIN samples : Below(samples[i])} IN
  IF ~Served(latest)
  THEN IF latest.active > 0 /\ provisioning = 0
       THEN [Hold EXCEPT !.up = Desired(latest)] ELSE Hold
  ELSE IF provisioning > 0 THEN Hold
  ELSE IF /\ Above(latest) /\ latest.ready < MaxCommittees
          /\ Sustained(samples, UpSamples, high)
  THEN [Hold EXCEPT !.up = IF missing > 1 THEN missing ELSE 1]
  ELSE IF /\ Below(latest) /\ latest.ready > MinCommittees /\ draining = 0
          /\ Sustained(samples, DownSamples, low)
  THEN [Hold EXCEPT !.down = 1]
  ELSE Hold

-----------------------------------------------------------------------------
(* A sample is taken and what was decided is begun.  Of a sample, the committees that
   come and go are read in the latest only. *)
Observe ==
  LET longer == Append(scale.samples, [active |-> scale.active, ready |-> scale.ready])
      recent == IF Len(longer) > Longest THEN Tail(longer) ELSE longer
      action == Decide(recent, scale.provisioning, scale.draining) IN
  scale' = [scale EXCEPT !.samples = recent,
                         !.provisioning = @ + action.up,
                         !.ready = @ - action.down, !.draining = @ + action.down]

(* A key ceremony ends, the last session of a draining committee ends, a committee is
   lost, sessions begin and end. *)
CeremonyEnds ==
  /\ scale.provisioning > 0
  /\ scale' = [scale EXCEPT !.provisioning = @ - 1, !.ready = @ + 1]

DrainEnds ==
  /\ scale.draining > 0
  /\ scale' = [scale EXCEPT !.draining = @ - 1]

CommitteeLost ==
  /\ scale.ready > 0
  /\ scale' = [scale EXCEPT !.ready = @ - 1]

Demand(n) == scale' = [scale EXCEPT !.active = n]

ScaleNext ==
  \/ Observe \/ CeremonyEnds \/ DrainEnds \/ CommitteeLost
  \/ \E n \in Loads : Demand(n)

-----------------------------------------------------------------------------
(* A node leaves only after a plan that says what becomes of every session it
   still had, also when it was called back and drained again. *)
LeavesAsPlanned ==
  \A n \in Nodes :
    drain.phase[n] # "Decommissioned" /\ drain'.phase[n] = "Decommissioned" =>
      drain.plan.node = n /\ drain.pending[n] \subseteq drain.plan.sessions

(* Ceremonies are begun one batch at a time and, save when nothing is ready, after a
   whole run of high samples; a committee is retired one at a time, after a whole run
   of low ones, when those left have room for all the sessions under the threshold at
   which more would be asked for; and neither leads past the limits, committees that
   still drain left out. *)
ScalesWithCare ==
  Observe =>
    LET up   == scale'.provisioning - scale.provisioning
        down == scale'.draining - scale.draining IN
    /\ scale.ready + scale'.provisioning <= MaxCommittees
    /\ up > 0 =>
         /\ scale.provisioning = 0
         /\ scale.ready > 0 => \A i \in Len(scale'.samples) - UpSamples + 1 .. Len(scale'.samples) :
                                  i > 0 /\ Above(scale'.samples[i])
    /\ down > 0 =>
         /\ down = 1 /\ scale.draining = 0 /\ scale'.ready >= MinCommittees
         /\ 100 * scale.active <= UpThreshold * PerCommittee * scale'.ready
         /\ up = 0
=============================================================================
