----------------------------- MODULE RequestGate -----------------------------
(***************************************************************************)
(* What a request passes on its way to a handler of the coordinator, layer *)
(* by layer, and what the process remembers of it: the limit per client,   *)
(* maintenance, drain, the answers kept for a repeated idempotency key,    *)
(* the limit per table, the nonce of the signature, the count of sessions. *)
(* All of it is in memory.                                                 *)
(***************************************************************************)
EXTENDS Integers, FiniteSets, Functions

CONSTANTS
  Calls,             \* requests as they arrive; a client that retries sends a copy
  Key,               \* [Calls -> idempotency key], "" for none
  Nonce,             \* [Calls -> what its signature is over: a nonce]
  Admin,             \* the calls that toggle maintenance; the others start a session
  Window,            \* of both limits, in ticks
  ClientLimit,       \* requests_per_min + burst_allowance
  TableLimit,        \* RATE_LIMIT_MAX_REQUESTS
  Skew,              \* a signature older than this is refused
  KeyTtl             \* IDEMPOTENCY_TTL_SECONDS

VARIABLE gate

Signer(c) == IF c \in Admin THEN "admin" ELSE "player"
Signers   == {"admin", "player"}
Keys      == {Key[c] : c \in Calls} \ {""}
NoAnswer  == [status |-> "", age |-> 0]

(* A client: calls not sent, under way at a layer, answered or given up. *)
NewCall == [at |-> "new", age |-> 0, status |-> "", saw |-> FALSE]

(* What a process starts with. *)
Started(r) ==
  [r EXCEPT !.client = [a \in 0 .. Window |-> 0], !.table = [a \in 0 .. Window |-> 0],
            !.maintenance = FALSE, !.draining = FALSE, !.active = 0,
            !.answers = [k \in Keys |-> NoAnswer],
            !.nonces = [s \in Signers |-> 0],
            !.accepted = [n \in {Nonce[c] : c \in Calls} |-> 0]]

Init ==
  gate = Started([calls |-> [c \in Calls |-> NewCall],
                  client |-> <<>>, table |-> <<>>,   \* requests let in, by their age
                  maintenance |-> FALSE,
                  draining |-> FALSE,                \* the coordinator's, of drain.rs
                  node |-> FALSE,                    \* some node reports that it drains
                  active |-> 0,                      \* active_mpc_sessions
                  answers |-> <<>>, nonces |-> <<>>,
                  accepted |-> <<>>])                \* how often a nonce was, in this process

At(c, place)  == gate.calls[c].at = place
To(c, place)  == [gate EXCEPT !.calls[c].at = place]
Answered(c, status) == [gate EXCEPT !.calls[c].at = "answered", !.calls[c].status = status]
Younger(counts, a) == FoldFunctionOnSet(+, 0, counts, 0 .. a)

-----------------------------------------------------------------------------
(* ip_rate_limit_middleware is the outermost: an entry of a full window's age is
   gone.  Within it maintenance and drain refuse what is not the administrators'. *)
Enter(c) ==
  LET limited == Younger(gate.client, Window - 1) >= ClientLimit
      let == [gate EXCEPT !.client[0] = @ + 1]
      refused == c \notin Admin /\ (gate.maintenance \/ gate.draining)
  IN  /\ At(c, "new")
      /\ gate' = IF limited THEN Answered(c, "429")
                 ELSE IF refused
                 THEN [let EXCEPT !.calls[c].at = "answered", !.calls[c].status = "503"]
                 ELSE [let EXCEPT !.calls[c].at = "layers"]

(* idempotency_middleware looks for an answer; the first that comes with a key, and
   whoever comes before it is answered, goes on to the handler. *)
LookUp(c) ==
  LET kept == gate.answers[Key[c]] IN
  /\ At(c, "layers")
  /\ gate' = IF Key[c] # "" /\ kept # NoAnswer /\ kept.age < KeyTtl
             THEN Answered(c, "replayed") ELSE To(c, "handler")

-----------------------------------------------------------------------------
(* The handler: its answer is not sent yet at "finish". *)
Refuse(c, status) == [gate EXCEPT !.calls[c].at = "finish", !.calls[c].status = status]

(* enforce_rate_limit keeps an entry of a full window's age. *)
LimitTable(c) ==
  /\ At(c, "handler")
  /\ gate' = IF c \in Admin THEN To(c, "signature")
             ELSE IF Younger(gate.table, Window) >= TableLimit THEN Refuse(c, "429")
             ELSE [gate EXCEPT !.calls[c].at = "signature", !.table[0] = @ + 1]

(* validate_signed_request and validate_admin_request, each with its own store:
   the compare and the insert are under one lock. *)
ValidateSigned(c) ==
  LET s == Signer(c) IN
  /\ At(c, "signature")
  /\ gate' = IF gate.calls[c].age > Skew THEN Refuse(c, "401")
             ELSE IF Nonce[c] <= gate.nonces[s] THEN Refuse(c, "409")
             ELSE [gate EXCEPT !.calls[c].at = "ready", !.nonces[s] = Nonce[c],
                               !.accepted[Nonce[c]] = @ + 1]

(* A session begins, SessionGuard::new, unless a node drains; a toggle reads the flag. *)
BeginWork(c) ==
  /\ At(c, "ready")
  /\ gate' = IF c \in Admin
             THEN [gate EXCEPT !.calls[c].at = "working", !.calls[c].saw = gate.maintenance]
             ELSE IF gate.node THEN Refuse(c, "503")
             ELSE [gate EXCEPT !.calls[c].at = "working", !.active = @ + 1]

Dropped(c, r) == IF c \notin Admin /\ At(c, "working") THEN [r EXCEPT !.active = @ - 1] ELSE r

(* The guard is dropped with the handler; a toggle stores what it read, negated. *)
EndWork(c, status) ==
  /\ At(c, "working") /\ (c \in Admin => status = "200")
  /\ gate' = Dropped(c, [Refuse(c, status) EXCEPT
                           !.maintenance = IF c \in Admin THEN ~gate.calls[c].saw ELSE @])

(* Back in idempotency_middleware: an answer that is not a server's error is kept,
   over whatever is there. *)
Finish(c) ==
  LET status == gate.calls[c].status IN
  /\ At(c, "finish")
  /\ gate' = [Answered(c, status) EXCEPT
       !.answers = IF Key[c] # "" /\ status \notin {"502", "503"}
                   THEN [@ EXCEPT ![Key[c]] = [status |-> status, age |-> 0]] ELSE @]

(* The client hangs up: what is under way for it is dropped where it waits. *)
HangUp(c) ==
  /\ gate.calls[c].at \in {"layers", "handler", "signature", "ready", "working", "finish"}
  /\ gate' = Dropped(c, To(c, "gone"))

-----------------------------------------------------------------------------
SetDraining(yes)   == gate.draining # yes /\ gate' = [gate EXCEPT !.draining = yes]
NodeDrains(yes)    == gate.node # yes /\ gate' = [gate EXCEPT !.node = yes]

(* The process starts again: what was under way is gone. *)
Restart ==
  gate' = Started([gate EXCEPT !.calls =
    [c \in Calls |-> IF @[c].at \in {"new", "answered"} THEN @[c] ELSE [@[c] EXCEPT !.at = "gone"]]])

Aged(counts) == [a \in 0 .. Window |-> IF a = 0 THEN 0 ELSE counts[a - 1]]

Tick ==
  gate' = [gate EXCEPT
    !.client = Aged(@), !.table = Aged(@),
    !.calls = [c \in Calls |-> IF @[c].age <= Skew THEN [@[c] EXCEPT !.age = @ + 1] ELSE @[c]],
    !.answers = [k \in Keys |-> IF @[k] # NoAnswer /\ @[k].age < KeyTtl
                                THEN [@[k] EXCEPT !.age = @ + 1] ELSE @[k]]]

(* spawn_gc_task *)
Sweep == gate' = [gate EXCEPT !.answers =
                    [k \in Keys |-> IF @[k].age >= KeyTtl THEN NoAnswer ELSE @[k]]]

Next ==
  \/ \E c \in Calls :
       \/ Enter(c) \/ LookUp(c) \/ LimitTable(c) \/ ValidateSigned(c) \/ BeginWork(c)
       \/ Finish(c) \/ HangUp(c)
       \/ \E status \in {"200", "502"} : EndWork(c, status)
  \/ \E yes \in BOOLEAN : SetDraining(yes) \/ NodeDrains(yes)
  \/ Restart \/ Tick \/ Sweep

Spec == Init /\ [][Next]_gate
-----------------------------------------------------------------------------
(* A signed request is carried out once by a process, however often and however
   late its copies come, and the sessions under way are counted, whichever way
   their requests end. *)
SignedOnce ==
  /\ \A n \in DOMAIN gate.accepted : gate.accepted[n] <= 1
  /\ gate.active = Cardinality({c \in Calls \ Admin : At(c, "working")})
=============================================================================
