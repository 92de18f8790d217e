--------------------------- MODULE BackgroundTasks ---------------------------
(***************************************************************************)
(* What the coordinator does beside its requests, as tasks between whose   *)
(* steps others run.  The background jobs: a table of job states, a heap   *)
(* of the jobs to run and workers that pop one, run its handler and note   *)
(* the end.  The rollout of circuits: which compiled circuit a table is    *)
(* proved against, the pinned one or a canary, with promotion after enough *)
(* good proofs, and rollback; the policy is behind one lock and the        *)
(* statistics behind another, and maybe_auto_promote takes them one after  *)
(* the other.                                                              *)
(***************************************************************************)
EXTENDS Integers, Sequences, FiniteSets, SequencesExt

CONSTANTS
  Jobs,
  Priority,         \* of each job, 0 low .. 3 critical
  Workers,
  MaxRetries

CONSTANTS
  Kinds,            \* circuit kinds with a canary, pinned to "v1", "v2" as canary
  MinProbes, MinRate,       \* auto_promote: proofs served, successes in percent
  AutoPromote, GlobalRollback,      \* the environment of the process
  MaxProbes, MaxTasks       \* bounds on the proofs of one version, and on the checks under way

VARIABLES jobs, rollout

Idle    == [job |-> "none", stage |-> "idle"]
Settled == {"Completed", "Failed", "Cancelled"}

(* pending: the jobs to run in the order they were pushed; status "None" is a job
   nobody asked for yet. *)
Init ==
  jobs = [status  |-> [j \in Jobs |-> "None"],
          retries |-> [j \in Jobs |-> 0],
          pushing |-> {},                       \* in the table, not yet in the heap
          pending |-> <<>>,
          worker  |-> [w \in Workers |-> Idle]]

Enqueue(j) ==
  /\ jobs.status[j] = "None"
  /\ jobs' = [jobs EXCEPT !.status[j] = "Queued", !.pushing = @ \union {j}]

Push(j) ==
  /\ j \in jobs.pushing
  /\ jobs' = [jobs EXCEPT !.pushing = @ \ {j}, !.pending = Append(@, j)]

Cancel(j) ==
  /\ jobs.status[j] \in {"Queued", "Retrying", "Processing"}
  /\ jobs' = [jobs EXCEPT !.status[j] = "Cancelled"]

CompleteJob(j) ==
  /\ jobs.status[j] # "None"
  /\ jobs' = [jobs EXCEPT !.status[j] = "Completed"]

-----------------------------------------------------------------------------
(* What BinaryHeap::pop takes by JobEntry's order: the lowest priority, and of
   those the job pushed last. *)
Popped ==
  CHOOSE i \in DOMAIN jobs.pending :
    \A k \in DOMAIN jobs.pending \ {i} :
      \/ Priority[jobs.pending[i]] < Priority[jobs.pending[k]]
      \/ Priority[jobs.pending[i]] = Priority[jobs.pending[k]] /\ i > k

(* Mutant: the job stays in the heap while it runs. *)
Pop_Peek(w) ==
  /\ jobs.worker[w] = Idle /\ jobs.pending # <<>>
  /\ jobs' = [jobs EXCEPT !.worker[w] = [job |-> jobs.pending[Popped], stage |-> "popped"]]

Pop(w) ==
  /\ jobs.worker[w] = Idle /\ jobs.pending # <<>>
  /\ jobs' = [jobs EXCEPT !.worker[w] = [job |-> jobs.pending[Popped], stage |-> "popped"],
                          !.pending = RemoveAt(@, Popped)]

Start(w) ==
  LET j == jobs.worker[w].job
  IN  /\ jobs.worker[w].stage = "popped"
      /\ jobs' = IF jobs.status[j] = "Cancelled" THEN [jobs EXCEPT !.worker[w] = Idle]
                 ELSE [jobs EXCEPT !.status[j] = "Processing", !.worker[w].stage = "running"]

(* The handler's result is noted whatever became of the job meanwhile. *)
Succeed(w) ==
  /\ jobs.worker[w].stage = "running"
  /\ jobs' = [jobs EXCEPT !.status[jobs.worker[w].job] = "Completed", !.worker[w] = Idle]

(* Mutant: a job that is tried again is not put back. *)
Fail_NoPush(w) ==
  LET j == jobs.worker[w].job
  IN  /\ jobs.worker[w].stage = "running"
      /\ jobs' = [jobs EXCEPT !.retries[j] = @ + 1, !.worker[w] = Idle,
                              !.status[j] = IF jobs.retries[j] < MaxRetries THEN "Retrying" ELSE "Failed"]

(* An error or a panic of the handler. *)
Fail(w) ==
  LET j     == jobs.worker[w].job
      again == jobs.retries[j] < MaxRetries
  IN  /\ jobs.worker[w].stage = "running"
      /\ jobs' = [jobs EXCEPT !.retries[j] = @ + 1,
                              !.status[j]  = IF again THEN "Retrying" ELSE "Failed",
                              !.pending    = IF again THEN Append(@, j) ELSE @,
                              !.worker[w]  = Idle]

WorkerStep(w) == Pop(w) \/ Start(w) \/ Succeed(w) \/ Fail(w)

Next ==
  \/ \E j \in Jobs : Enqueue(j) \/ Push(j) \/ Cancel(j) \/ CompleteJob(j)
  \/ \E w \in Workers : WorkerStep(w)

Spec == Init /\ [][Next]_jobs
-----------------------------------------------------------------------------
Holds(w, j) == jobs.worker[w].stage # "idle" /\ jobs.worker[w].job = j

(* A job is with one worker, or waits once, never both: retries and cancellations
   do not make it run twice at a time. *)
OneRunPerJob ==
  \A j \in Jobs :
    Cardinality({w \in Workers : Holds(w, j)})
      + Cardinality({i \in DOMAIN jobs.pending : jobs.pending[i] = j}) <= 1

(* Every job asked for comes to an end, cancelled or not. *)
JobsSettle == \A j \in Jobs : jobs.status[j] = "Queued" ~> jobs.status[j] \in Settled

-----------------------------------------------------------------------------
(* The rollout of circuits. *)
None == "none"
Fresh == [probes |-> 0, successes |-> 0]

RolloutInit ==
  rollout = [pinned |-> [k \in Kinds |-> "v1"],
             canary |-> [k \in Kinds |-> "v2"],
             rolled |-> IF GlobalRollback THEN Kinds ELSE {},
             stats  |-> [k \in Kinds |-> [v \in {"v1", "v2"} |-> Fresh]],
             tasks  |-> [k \in Kinds |-> [policy |-> 0, stats |-> 0, promote |-> 0]]]

RolledBack(k) == GlobalRollback \/ k \in rollout.rolled

Tasks(k) == rollout.tasks[k].policy + rollout.tasks[k].stats + rollout.tasks[k].promote

(* select: which versions a table may be given, by its bucket. *)
Selected(k) ==
  IF rollout.canary[k] # None /\ ~RolledBack(k) THEN {rollout.pinned[k], rollout.canary[k]}
                                                ELSE {rollout.pinned[k]}

(* record: the proof is counted, and the check whether to promote begins.  A
   proof may end long after its version was selected. *)
Record(k, v, good) ==
  /\ rollout.stats[k][v].probes < MaxProbes /\ Tasks(k) < MaxTasks
  /\ rollout' = [rollout EXCEPT
       !.stats[k][v] = [probes |-> @.probes + 1, successes |-> @.successes + IF good THEN 1 ELSE 0],
       !.tasks[k].policy = @ + 1]

ReadPolicy(k) ==
  LET goOn == AutoPromote /\ ~RolledBack(k) /\ rollout.canary[k] # None
  IN  /\ rollout.tasks[k].policy > 0
      /\ rollout' = [rollout EXCEPT !.tasks[k].policy = @ - 1,
                                    !.tasks[k].stats = @ + IF goOn THEN 1 ELSE 0]

Earned(s) == s.probes >= MinProbes /\ 100 * s.successes >= MinRate * s.probes

(* Mutant: the pinned version's record stands in for the canary's. *)
ReadStats_OfPinned(k) ==
  /\ rollout.tasks[k].stats > 0
  /\ rollout' = [rollout EXCEPT !.tasks[k].stats = @ - 1,
       !.tasks[k].promote = @ + IF Earned(rollout.stats[k]["v1"]) THEN 1 ELSE 0]

ReadStats(k) ==
  /\ rollout.tasks[k].stats > 0
  /\ rollout' = [rollout EXCEPT !.tasks[k].stats = @ - 1,
       !.tasks[k].promote = @ + IF Earned(rollout.stats[k]["v2"]) THEN 1 ELSE 0]

(* promote looks at the policy anew: without a canary it does nothing, and a
   rollback that came in between is undone. *)
Promoted(s, k) ==
  IF s.canary[k] = None THEN s
  ELSE [s EXCEPT !.pinned[k] = s.canary[k], !.canary[k] = None, !.rolled = @ \ {k}]

AutoPromotes(k) ==
  /\ rollout.tasks[k].promote > 0
  /\ rollout' = Promoted([rollout EXCEPT !.tasks[k].promote = @ - 1], k)

AdminPromotes(k) == rollout.canary[k] # None /\ rollout' = Promoted(rollout, k)

(* One kind is noted whether it has a canary or not; with "*" only those that have. *)
Rollback(k)   == rollout' = [rollout EXCEPT !.rolled = @ \union {k}]
RollbackAll   ==
  rollout' = [rollout EXCEPT !.rolled = @ \union {k \in Kinds : rollout.canary[k] # None}]
ClearRollback(k) == rollout' = [rollout EXCEPT !.rolled = @ \ {k}]

RolloutNext ==
  \/ \E k \in Kinds :
       \/ ReadPolicy(k) \/ ReadStats(k) \/ AutoPromotes(k)
       \/ AdminPromotes(k) \/ Rollback(k) \/ ClearRollback(k)
       \/ \E v \in {"v1", "v2"}, good \in BOOLEAN : Record(k, v, good)
  \/ RollbackAll

RolloutSpec == RolloutInit /\ [][RolloutNext]_rollout
(* A version is pinned on its own merit, once: automatic promotion pins a canary
   that has served enough proofs, and no step brings an old version back. *)
PromotedOnMerit ==
  \A k \in Kinds :
    /\ rollout'.pinned[k] # rollout.pinned[k] =>
         /\ rollout'.pinned[k] = rollout.canary[k] /\ rollout'.canary[k] = None
         /\ rollout'.tasks # rollout.tasks => rollout.stats[k][rollout.canary[k]].probes >= MinProbes
    /\ rollout.canary[k] = None => rollout'.canary[k] = None
=============================================================================
