--------------------------- MODULE InstanceHandover ---------------------------
(***************************************************************************)
(* Several instances of the coordinator over one database: which of them   *)
(* leads, by an advisory lock that lives as long as a connection, how one  *)
(* drains and stops, and the migrations of tables between them.            *)
(***************************************************************************)
EXTENDS Integers, Sequences

CONSTANTS
  Instances,
  Pooled,            \* connections of an instance's pool
  MaxRequests,       \* requests in flight in an instance
  Grace,             \* DRAIN_TIMEOUT_SECS, in ticks
  MaxMigrations

VARIABLE inst

Conns  == Instances \X Pooled
NoConn == <<>>
Fresh  == [up |-> TRUE, flag |-> FALSE, loop |-> "idle", using |-> NoConn, answer |-> FALSE,
           draining |-> FALSE, started |-> -1, pending |-> {},
           passed |-> 0, active |-> 0, stopping |-> "no", waited |-> 0]

Init == inst = [of |-> [i \in Instances |-> Fresh],
                open |-> {},            \* sessions the database has
                cut |-> {},             \* of them, those the instance cannot use
                lock |-> NoConn,        \* the session that holds LEADER_LOCK_KEY
                migrations |-> <<>>]

Of(i)    == inst.of[i]
Set(i, r) == [inst EXCEPT !.of[i] = r]
Usable(c) == c \in inst.open \ inst.cut

-----------------------------------------------------------------------------
(* run_election_loop.  A connection of the pool, opened if need be, asks; a session
   that has the lock already is given it once more. *)
AskForLock(i, c) ==
  LET got == inst.lock \in {NoConn, c} IN
  /\ Of(i).up /\ Of(i).loop = "idle" /\ c[1] = i /\ c \notin inst.cut
  /\ inst' = [inst EXCEPT !.open = @ \cup {c}, !.lock = IF got THEN c ELSE @,
                          !.of[i].loop = "asked", !.of[i].using = c, !.of[i].answer = got]

Follow(i) == [Of(i) EXCEPT !.flag = FALSE, !.loop = "idle", !.using = NoConn]

(* The answer comes, or an error.  The connection goes back to the pool as it is. *)
HearAnswer(i) ==
  LET heard == Usable(Of(i).using) /\ Of(i).answer IN
  /\ Of(i).up /\ Of(i).loop = "asked"
  /\ inst' = Set(i, IF heard THEN [Of(i) EXCEPT !.flag = TRUE, !.loop = "leading"] ELSE Follow(i))

NoConnection(i) ==
  /\ Of(i).up /\ Of(i).loop = "idle" /\ inst' = Set(i, Follow(i))

(* The keepalive fails with the connection, or alone: then the session, back in
   the pool, keeps the lock. *)
KeepaliveFails(i) ==
  /\ Of(i).up /\ Of(i).loop = "leading"
  /\ inst' = Set(i, Follow(i))

(* The network: a connection is cut, and at some time the database notices. *)
Cut(c)   == c \in inst.open \ inst.cut /\ inst' = [inst EXCEPT !.cut = @ \cup {c}]
Close(c) == /\ c \in inst.open
            /\ inst' = [inst EXCEPT !.open = @ \ {c}, !.cut = @ \ {c},
                                    !.lock = IF @ = c THEN NoConn ELSE @]

-----------------------------------------------------------------------------
(* drain_middleware, then the handler up to the count of sessions. *)
Pass(i) ==
  /\ Of(i).up /\ Of(i).stopping # "closing" /\ ~Of(i).draining
  /\ Of(i).passed + Of(i).active < MaxRequests
  /\ inst' = [inst EXCEPT !.of[i].passed = @ + 1]

BeginWork(i) ==
  /\ Of(i).passed > 0
  /\ inst' = [inst EXCEPT !.of[i].passed = @ - 1, !.of[i].active = @ + 1]

EndWork(i) == Of(i).active > 0 /\ inst' = [inst EXCEPT !.of[i].active = @ - 1]
Turned(i)  == Of(i).passed > 0 /\ inst' = [inst EXCEPT !.of[i].passed = @ - 1]

(* begin and cancel flip the flag first and note the time under a lock later. *)
Begun(i) == [Of(i) EXCEPT !.draining = TRUE, !.pending = IF Of(i).draining THEN @ ELSE @ \cup {"begin"}]

BeginDrain(i) ==
  /\ Of(i).up /\ ~Of(i).draining /\ "begin" \notin Of(i).pending
  /\ inst' = Set(i, Begun(i))

CancelDrain(i) ==
  /\ Of(i).up /\ "cancel" \notin Of(i).pending
  /\ inst' = Set(i, [Of(i) EXCEPT !.draining = FALSE, !.pending = @ \cup {"cancel"}])

NoteTime(i, what) ==
  /\ what \in Of(i).pending
  /\ inst' = Set(i, [Of(i) EXCEPT !.pending = @ \ {what},
                                  !.started = IF what = "begin" THEN 0 ELSE -1])

(* SIGTERM: shutdown_signal begins the drain and waits in wait_for_sessions. *)
Terminate(i) ==
  /\ Of(i).up /\ Of(i).stopping = "no" /\ "begin" \notin Of(i).pending
  /\ inst' = Set(i, [Begun(i) EXCEPT !.stopping = "draining", !.waited = 0])

StopWaiting(i) ==
  /\ Of(i).stopping = "draining" /\ "begin" \notin Of(i).pending
  /\ Of(i).active = 0 \/ Of(i).waited >= Grace
  /\ inst' = [inst EXCEPT !.of[i].stopping = "closing"]

(* The server returns when the last request has its answer; its sessions close. *)
Gone(i) == [inst EXCEPT !.of[i] = [Fresh EXCEPT !.up = FALSE],
                        !.cut = @ \cup {c \in inst.open : c[1] = i}]

Exit(i)  == /\ Of(i).stopping = "closing" /\ Of(i).passed + Of(i).active = 0
            /\ inst' = Gone(i)
Crash(i) == Of(i).up /\ inst' = Gone(i)
Start(i) == ~Of(i).up /\ inst' = Set(i, Fresh)

Later(n) == IF n \in 0 .. Grace - 1 THEN n + 1 ELSE n

Tick ==
  LET Aged(i) == [Of(i) EXCEPT !.started = Later(@),
                               !.waited  = IF Of(i).stopping = "draining" THEN Later(@) ELSE @]
  IN  /\ \E i \in Instances : Of(i).stopping = "draining" \/ Of(i).started \in 0 .. Grace - 1
      /\ inst' = [inst EXCEPT !.of = [i \in Instances |-> Aged(i)]]

-----------------------------------------------------------------------------
(* The rows of session_migrations: neither completing nor cancelling one looks at
   its status, and nothing is taken over with them. *)
InitiateMigration(i, j) ==
  /\ Of(i).up /\ Len(inst.migrations) < MaxMigrations
  /\ inst' = [inst EXCEPT !.migrations =
                 Append(@, [from |-> i, to |-> j, status |-> "initiated"])]

UpdateMigrationStatus(m, status) ==
  /\ m \in DOMAIN inst.migrations /\ inst.migrations[m].status # status
  /\ inst' = [inst EXCEPT !.migrations[m].status = status]

CompleteMigration(m) == UpdateMigrationStatus(m, "complete")
CancelMigration(m)   == UpdateMigrationStatus(m, "failed")

-----------------------------------------------------------------------------
Elect ==
  \/ \E i \in Instances : HearAnswer(i) \/ NoConnection(i) \/ KeepaliveFails(i)
                            \/ Crash(i) \/ Start(i)
  \/ \E c \in Conns : AskForLock(c[1], c) \/ Cut(c) \/ Close(c)

Handle(i) ==
  \/ Pass(i) \/ BeginWork(i) \/ EndWork(i) \/ Turned(i)
  \/ BeginDrain(i) \/ CancelDrain(i) \/ NoteTime(i, "begin") \/ NoteTime(i, "cancel")
  \/ Terminate(i) \/ StopWaiting(i) \/ Exit(i)

Next ==
  \/ Elect
  \/ \E i \in Instances : Handle(i) \/ \E j \in Instances : InitiateMigration(i, j)
  \/ \E m \in 1 .. MaxMigrations : CompleteMigration(m) \/ CancelMigration(m)
  \/ Tick

Spec == Init /\ [][Next]_inst
-----------------------------------------------------------------------------
Believes(i) == Of(i).flag /\ Usable(Of(i).using)

(* Of the instances that say they lead, one has a connection that works: the others
   have lost theirs and learn it with the next keepalive. *)
OneLeader == \A i, j \in Instances : Believes(i) /\ Believes(j) => i = j
=============================================================================
