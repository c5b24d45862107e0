------------------------------- MODULE Lease -------------------------------
(***************************************************************************)
(* The conversation lease table and the repository that guards it           *)
(* (persistence/repositories/leases.py).                                    *)
(*                                                                         *)
(* A client is one LeaseRepository object in use.  acquire() makes up to    *)
(* three separate steps, between which any other client may run: it reads   *)
(* the clock once, it SELECTs the active lease, and it writes (an upsert,   *)
(* or an UPDATE when the active lease is its own).  Every later step uses   *)
(* the clock value read at the start.  The write and the caller's commit    *)
(* are one step: a concurrent upsert of the row waits for the commit and    *)
(* re-evaluates its WHERE clause on the committed row.                      *)
(*                                                                         *)
(* Fencing tokens are fresh UUIDs.  A client holds at most one token, and a  *)
(* row that carries an older token of that client is overwritten before the *)
(* client can hold a new one, so the client itself stands for its token.    *)
(* A conversation that never had a lease has a row nobody holds that        *)
(* expired at time 0: the INSERT and the overtaking UPDATE write the same   *)
(* columns.                                                                 *)
(***************************************************************************)
EXTENDS Integers

CONSTANTS Client,     \* LeaseRepository objects
          Conv,       \* conversations (tenant_id, conversation_id)
          WorkerOf,   \* the worker_id each client was built with
          FreshWorker,\* worker_id left out: a UUID no other client has
          NoClient,   \* the token of a row that was never leased
          TTL,        \* lease_ttl_seconds
          MaxClock    \* bound on the clock

ASSUME LeaseAssumption ==
  /\ NoClient \notin Client
  /\ TTL \in Nat \ {0}
  /\ MaxClock \in Nat

VARIABLES clock,      \* wall-clock time
          row,        \* conversation_run_leases, one row per conversation
          pc,         \* where each client is in acquire() / release()
          conv,       \* the conversation each client works on
          now         \* the clock value its acquire() read (0 when it is over)

vars == <<clock, row, pc, conv, now>>

WorkerIds == {WorkerOf[w] : w \in Client} \cup {FreshWorker}

Row == [token: Client \cup {NoClient}, worker: WorkerIds, exp: Nat, released: BOOLEAN]

\* "began": the clock is read; "insert" and "refresh": the SELECT has answered and
\* chosen the write; "held": acquire() returned a token; "conflict": it raised
\* LeaseConflictError; "unleased": it raised anything else.
PC == {"idle", "began", "insert", "refresh", "held", "conflict", "unleased"}

TypeOK ==
  /\ clock \in Nat
  /\ row \in [Conv -> Row]
  /\ pc \in [Client -> PC]
  /\ conv \in [Client -> Conv]
  /\ now \in [Client -> Nat]

Init ==
  /\ clock = 0
  /\ row = [c \in Conv |-> [token |-> NoClient, worker |-> FreshWorker,
                            exp |-> 0, released |-> FALSE]]
  /\ pc = [w \in Client |-> "idle"]
  /\ conv \in [Client -> Conv]
  /\ now = [w \in Client |-> 0]

\* The end of the window acquire() asks for: now + lease_ttl_seconds.
Expiry(w) == now[w] + TTL

\* The WHERE clause of the SELECT: a lease not yet expired and not released.
Active(r, t) == r.exp > t /\ ~r.released

\* existing.worker_id == self._worker_id; a worker_id left out matches no row.
OwnRow(r, w) == WorkerOf[w] # FreshWorker /\ r.worker = WorkerOf[w]

-----------------------------------------------------------------------------
(* acquire()                                                               *)

\* The clock is read and the token drawn, before any query.
Begin(w, c) ==
  /\ pc[w] = "idle"
  /\ pc' = [pc EXCEPT ![w] = "began"]
  /\ conv' = [conv EXCEPT ![w] = c]
  /\ now' = [now EXCEPT ![w] = clock]
  /\ UNCHANGED <<clock, row>>

\* The SELECT: another worker's active lease is a conflict, our own is
\* refreshed, none means that a new lease is written.
Select(w) ==
  LET r == row[conv[w]]
      answer == IF ~Active(r, now[w]) THEN "insert"
                ELSE IF OwnRow(r, w) THEN "refresh" ELSE "conflict"
  IN /\ pc[w] = "began"
     /\ pc' = [pc EXCEPT ![w] = answer]
     /\ UNCHANGED <<clock, row, conv, now>>

\* A mutant of Upsert: the ON CONFLICT clause without its WHERE.
UpsertNoWhere(w) ==
  /\ pc[w] = "insert"
  /\ row' = [row EXCEPT ![conv[w]] =
               [token |-> w, worker |-> WorkerOf[w], exp |-> Expiry(w), released |-> FALSE]]
  /\ pc' = [pc EXCEPT ![w] = "held"]
  /\ UNCHANGED <<clock, conv, now>>

\* INSERT ... ON CONFLICT DO UPDATE ... WHERE expires_at <= now, and the commit.
\* rowcount 0 means that the row was not overtaken: a conflict.
Upsert(w) ==
  LET c == conv[w]
      overtakes == row[c].exp <= now[w]
  IN /\ pc[w] = "insert"
     /\ row' = IF overtakes
               THEN [row EXCEPT ![c] = [token |-> w, worker |-> WorkerOf[w],
                                        exp |-> Expiry(w), released |-> FALSE]]
               ELSE row
     /\ pc' = [pc EXCEPT ![w] = IF overtakes THEN "held" ELSE "conflict"]
     /\ UNCHANGED <<clock, conv, now>>

\* UPDATE ... WHERE id = existing.id, and the commit: the id is the row's, whoever
\* holds it by now; worker_id and released_at keep their values.
Refresh(w) ==
  LET c == conv[w]
  IN /\ pc[w] = "refresh"
     /\ row' = [row EXCEPT ![c] = [token |-> w, worker |-> row[c].worker,
                                  exp |-> Expiry(w), released |-> row[c].released]]
     /\ pc' = [pc EXCEPT ![w] = "held"]
     /\ UNCHANGED <<clock, conv, now>>

\* A query or the commit raises and nothing was written.  (A commit that takes
\* effect although its reply is lost leaves the caller with the token: that is
\* Upsert or Refresh.)
AcquireError(w) ==
  /\ pc[w] \in {"began", "insert", "refresh"}
  /\ pc' = [pc EXCEPT ![w] = "unleased"]
  /\ UNCHANGED <<clock, row, conv, now>>

-----------------------------------------------------------------------------
(* release() and the end of a client                                       *)

\* A mutant of Release: the UPDATE without the fencing_token condition.
ReleaseAnyToken(w) ==
  /\ pc[w] = "held"
  /\ row' = [row EXCEPT ![conv[w]].released = TRUE]
  /\ pc' = [pc EXCEPT ![w] = "idle"]
  /\ now' = [now EXCEPT ![w] = 0]
  /\ UNCHANGED <<clock, conv>>

\* UPDATE ... SET released_at WHERE fencing_token = ours, and the commit.
Release(w) ==
  LET c == conv[w]
  IN /\ pc[w] = "held"
     /\ row' = IF row[c].token = w THEN [row EXCEPT ![c].released = TRUE] ELSE row
     /\ pc' = [pc EXCEPT ![w] = "idle"]
     /\ now' = [now EXCEPT ![w] = 0]
     /\ UNCHANGED <<clock, conv>>

\* The client ends without a release: it has no token, its release() raised, or
\* its process died at any point.
Drop(w) ==
  /\ pc[w] # "idle"
  /\ pc' = [pc EXCEPT ![w] = "idle"]
  /\ now' = [now EXCEPT ![w] = 0]
  /\ UNCHANGED <<clock, row, conv>>

Tick ==
  /\ clock < MaxClock
  /\ clock' = clock + 1
  /\ UNCHANGED <<row, pc, conv, now>>

ClientStep(w) ==
  \/ \E c \in Conv : Begin(w, c)
  \/ Select(w)
  \/ Upsert(w)
  \/ Refresh(w)
  \/ AcquireError(w)
  \/ Release(w)
  \/ Drop(w)

Next == Tick \/ \E w \in Client : ClientStep(w)

Spec == Init /\ [][Next]_vars

-----------------------------------------------------------------------------
(* Properties                                                              *)

\* is_valid(): the token is in the row, not expired and not released.
IsValid(w) == LET r == row[conv[w]] IN r.token = w /\ Active(r, clock)

\* The client was given a lease and believes it still has it.
InWindow(w) == pc[w] = "held" /\ clock < Expiry(w)

\* "Only one worker can hold a lease for a conversation at a time" (leases.py):
\* two clients that were granted a lease on one conversation are never both
\* inside the window they were granted.  It takes the SELECT and the upsert of
\* both, a stale clock value, an expiry and a release to get this wrong.
WindowsExclusive ==
  \A v, w \in Client : InWindow(v) /\ InWindow(w) /\ conv[v] = conv[w] => v = w

\* is_valid() tells a holder exactly whether its window is still open: neither an
\* overtaking acquire() nor a stale worker's release() can invalidate the token
\* of an open window, and no token outlives its window.
TokenMatchesWindow ==
  \A w \in Client : pc[w] = "held" => (IsValid(w) <=> InWindow(w))

\* release() "prevents stale workers from releasing another worker's lease": a
\* row becomes released only in the step that ends the client whose token it has.
ReleaseOnlyOwn ==
  [][\A c \in Conv : row'[c].released /\ ~row[c].released =>
       \E w \in Client : /\ row[c].token = w /\ conv[w] = c
                         /\ pc[w] = "held" /\ pc'[w] = "idle"]_vars
=============================================================================
