----------------------------- MODULE AuditChain -----------------------------
(***************************************************************************)
(* The coordinator's logs whose rows name the hash of the row before: the  *)
(* audit log, one chain, and the transcripts of the proofs, one chain per  *)
(* session.  An entry is written in two steps, reading the last hash and   *)
(* inserting a row, by a handler or by a task spawned for a denial.        *)
(***************************************************************************)
EXTENDS Integers, FiniteSets, SequencesExt

CONSTANTS
  Entries,          \* what may be logged, each at most once
  ChainOf,          \* the chain of an entry: the audit log or a session
  Denials,          \* the entries that are refused accesses
  MaxRecords,       \* of denials kept in memory
  HasDatabase

VARIABLE trail

Chains == {ChainOf[e] : e \in Entries}

(* A clock reading is a whole number of microseconds or not; the database keeps
   microseconds. *)
Stamps    == {"whole", "fraction"}
Stored(s) == "whole"

None == <<>>

RecordHash(chain, body, stamp, previous) == <<chain, body, stamp, previous>>

Init ==
  trail = [roll |-> <<>>, denied |-> 0, writers |-> {}, rows |-> <<>>, asked |-> {},
           written |-> <<>>,      \* every row as it was inserted
           overtaken |-> {}]      \* entries inserted behind a row they had not seen

RowsOf(rows, chain) == SelectSeq(rows, LAMBDA r : r.chain = chain)

LatestHash(chain) ==
  LET rs == RowsOf(trail.rows, chain) IN IF rs = <<>> THEN None ELSE Last(rs).hash

Writer(e) == [entry |-> e, stamp |-> "whole", read |-> FALSE, previous |-> None]

-----------------------------------------------------------------------------
(* A handler or the proof pipeline logs an entry. *)
LogEntry(e) ==
  /\ e \notin trail.asked \cup Denials
  /\ trail' = [trail EXCEPT !.asked = @ \cup {e},
                            !.writers = @ \cup IF HasDatabase THEN {Writer(e)} ELSE {}]

(* A denial joins the roll, which is drained at once, each record to a task of its
   own; without a database what was drained is dropped. *)
Recorded(roll, e) ==
  LET longer == Append(roll, e) IN
  IF Len(longer) > MaxRecords THEN Tail(longer) ELSE longer

RecordDenial(e) ==
  /\ e \in Denials \ trail.asked
  /\ trail' = [trail EXCEPT !.asked = @ \cup {e}, !.denied = @ + 1, !.roll = <<>>,
       !.writers = @ \cup IF HasDatabase THEN {Writer(d) : d \in Range(Recorded(trail.roll, e))}
                                         ELSE {}]

ReadLatest(w, stamp) ==
  /\ ~w.read
  /\ trail' = [trail EXCEPT !.writers = (@ \ {w}) \cup
       {[w EXCEPT !.read = TRUE, !.stamp = stamp, !.previous = LatestHash(ChainOf[w.entry])]}]

InsertRow(w) ==
  LET chain == ChainOf[w.entry]
      row == [chain |-> chain, body |-> w.entry, stamp |-> Stored(w.stamp),
              previous |-> w.previous,
              hash |-> RecordHash(chain, w.entry, w.stamp, w.previous)]
      late == {v.entry : v \in {v \in trail.writers \ {w} : v.read /\ ChainOf[v.entry] = chain}}
  IN
  /\ w.read
  /\ trail' = [trail EXCEPT !.rows = Append(@, row), !.written = Append(@, row),
                            !.writers = @ \ {w}, !.overtaken = @ \cup late]

(* The callers drop the error. *)
WriteFails(w) ==
  trail' = [trail EXCEPT !.writers = @ \ {w}]

(* The storage loses a row that others follow (nothing shows the loss of the newest), or
   damages one. *)
LoseRow(i) ==
  /\ \E k \in DOMAIN trail.rows : k > i /\ trail.rows[k].chain = trail.rows[i].chain
  /\ trail' = [trail EXCEPT !.rows = RemoveAt(@, i)]

DamageRow(i) == trail' = [trail EXCEPT !.rows[i].body = "damaged"]

Next ==
  \/ \E e \in Entries : LogEntry(e) \/ RecordDenial(e)
  \/ \E w \in trail.writers : \/ \E s \in Stamps : ReadLatest(w, s)
                              \/ InsertRow(w) \/ WriteFails(w)
  \/ \E i \in DOMAIN trail.rows : LoseRow(i) \/ DamageRow(i)

-----------------------------------------------------------------------------
Linked(row, previous) ==
  /\ row.hash = RecordHash(row.chain, row.body, row.stamp, previous)
  /\ row.previous = previous

VerifyChain(chain) ==
  LET rs == RowsOf(trail.rows, chain) IN
  \A i \in DOMAIN rs : Linked(rs[i], IF i = 1 THEN None ELSE rs[i - 1].hash)

(* A chain none of whose entries was overtaken while it was written verifies exactly
   when its rows are those first written, unchanged and none missing, and every one
   was stamped on a whole microsecond. *)
VerifiedIsIntact ==
  \A c \in Chains :
    LET rs == RowsOf(trail.rows, c) IN
    (\A e \in trail.overtaken : ChainOf[e] # c) =>
      (VerifyChain(c) <=>
         /\ rs = RowsOf(trail.written, c)
         /\ \A i \in DOMAIN rs : rs[i].hash[3] = "whole")
=============================================================================
