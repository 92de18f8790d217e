-------------------------- MODULE SessionPreemption --------------------------
(***************************************************************************)
(* The admission controller for MPC sessions: a slot for each of the first *)
(* MaxConcurrent requests, higher classes preempting lower ones, and a     *)
(* bound on the wait after which a request is promoted.  Waits are counted *)
(* in ticks and kept up to the bound, which is all the code asks of them.  *)
(***************************************************************************)
EXTENDS Integers, Sequences, FiniteSets, SequencesExt

CONSTANTS
  Sessions,
  Rank,             \* class of each session: 0 priority, 1 standard, 2 casual
  MaxConcurrent, MaxPreemptions, MaxQueued,
  MaxWait,          \* starvation bound of each rank, in ticks
  MaxAge            \* running times are told apart up to this bound

VARIABLE sched    \* queue, in the order of seq, and the running sessions

Init == sched = [queue |-> <<>>, running |-> [s \in {} |-> 0]]

Running(state) == DOMAIN state.running
Queued(state)  == {state.queue[i].id : i \in DOMAIN state.queue}
Request(s, preemptions) == [id |-> s, waited |-> 0, preemptions |-> preemptions]

MayEnqueue(s) == s \notin Running(sched) \union Queued(sched) /\ Len(sched.queue) < MaxQueued
Enqueued(s)   == [sched EXCEPT !.queue = Append(@, Request(s, 0))]
Enqueue(s)    == MayEnqueue(s) /\ sched' = Enqueued(s)

IsPromoted(req) == req.waited >= MaxWait[Rank[req.id]]

(* Mutant: promotion changes nothing. *)
Key_Unpromoted(queue, i) == <<0, Rank[queue[i].id], i>>

(* ordering_key: promoted requests first, then by class, then by arrival. *)
Key(queue, i) == <<IF IsPromoted(queue[i]) THEN 0 ELSE 1, Rank[queue[i].id], i>>

KeyLess(a, b) ==
  \E k \in 1 .. 3 : a[k] < b[k] /\ \A j \in 1 .. k - 1 : a[j] = b[j]

BestQueuedIndex(queue) ==
  CHOOSE i \in DOMAIN queue :
    \A j \in DOMAIN queue \ {i} : KeyLess(Key(queue, i), Key(queue, j))

(* Mutant: a session may be preempted again and again. *)
ShouldPreempt_Always(best, s, victim) ==
  ~victim.promoted /\ (IsPromoted(best) \/ Rank[best.id] < Rank[s])

ShouldPreempt(best, s, victim) ==
  /\ victim.preemptions < MaxPreemptions
  /\ ~victim.promoted
  /\ IsPromoted(best) \/ Rank[best.id] < Rank[s]

(* pick_victim: the lowest class, the latest started; equals in any order. *)
Victims(running, best) ==
  LET able == {s \in DOMAIN running : ShouldPreempt(best, s, running[s])}
      Over(s, t) == Rank[s] > Rank[t] \/ (Rank[s] = Rank[t] /\ running[s].age <= running[t].age)
  IN  {s \in able : \A t \in able : Over(s, t)}

Admitted(running, req) ==
  [s \in DOMAIN running \union {req.id} |->
     IF s = req.id THEN [age |-> 0, preemptions |-> req.preemptions, promoted |-> IsPromoted(req)]
     ELSE running[s]]
Without(running, s) == [t \in DOMAIN running \ {s} |-> running[t]]

(* The outcomes of schedule.  A preempted session joins the queue as if it had
   just arrived: it was never in the queue while it ran, so the arrival time
   looked up there is never found. *)
RECURSIVE Outcomes(_)
Outcomes(state) ==
  IF state.queue = <<>> THEN {state}
  ELSE LET i    == BestQueuedIndex(state.queue)
           best == state.queue[i]
           rest == RemoveAt(state.queue, i)
       IN  IF Cardinality(Running(state)) < MaxConcurrent
           THEN Outcomes([queue |-> rest, running |-> Admitted(state.running, best)])
           ELSE IF Victims(state.running, best) = {} THEN {state}
           ELSE UNION {Outcomes([queue   |-> Append(rest, Request(v, state.running[v].preemptions + 1)),
                                 running |-> Admitted(Without(state.running, v), best)])
                       : v \in Victims(state.running, best)}

Schedule == sched' \in Outcomes(sched)

Completed(s) == [sched EXCEPT !.running = Without(@, s)]
Complete(s)  == s \in Running(sched) /\ sched' = Completed(s)

Cancel(s) ==
  sched' = [queue   |-> SelectSeq(sched.queue, LAMBDA req : req.id # s),
            running |-> Without(sched.running, s)]

Least(a, b) == IF a < b THEN a ELSE b
Tick ==
  sched' = [queue   |-> [i \in DOMAIN sched.queue |->
                           [sched.queue[i] EXCEPT !.waited = Least(@ + 1, MaxWait[Rank[sched.queue[i].id]])]],
            running |-> [s \in Running(sched) |-> [sched.running[s] EXCEPT !.age = Least(@ + 1, MaxAge)]]]

Next ==
  \/ \E s \in Sessions : Enqueue(s) \/ Complete(s) \/ Cancel(s)
  \/ Schedule
  \/ Tick

Spec == Init /\ [][Next]_sched

(* Callers that run the controller at once after every arrival and every end;
   time passes and sessions finish. *)
Arrive(s) == MayEnqueue(s) /\ sched' \in Outcomes(Enqueued(s))
Finish(s) == s \in Running(sched) /\ sched' \in Outcomes(Completed(s))
PromptSpec ==
  /\ Init /\ [][Tick \/ \E s \in Sessions : Arrive(s) \/ Finish(s)]_sched
  /\ WF_sched(Tick) /\ \A s \in Sessions : WF_sched(Finish(s))
-----------------------------------------------------------------------------
(* Every slot has one session, a session waits or runs, and none is sent back to
   the queue more often than its protection allows. *)
SlotsRespected ==
  /\ Cardinality(Running(sched)) <= MaxConcurrent
  /\ Running(sched) \intersect Queued(sched) = {}
  /\ \A s \in Running(sched) : sched.running[s].preemptions <= MaxPreemptions
  /\ \A i \in DOMAIN sched.queue : sched.queue[i].preemptions <= MaxPreemptions

(* A request past its bound is not passed over for one that is not, even when
   the choice makes room by preempting. *)
NoOvertaking ==
  \A i, j \in DOMAIN sched.queue :
    LET late == sched.queue[i]  other == sched.queue[j]
    IN  /\ IsPromoted(late) /\ ~IsPromoted(other)
        /\ late.id \in Queued(sched') /\ other.id \in Running(sched')
        => FALSE

(* Whoever asked is admitted in the end. *)
NoStarvation ==
  \A s \in Sessions : s \in Queued(sched) ~> s \notin Queued(sched)
=============================================================================
