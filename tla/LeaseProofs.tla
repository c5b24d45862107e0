---------------------------- MODULE LeaseProofs ----------------------------
(***************************************************************************)
(* For any number of clients and conversations and any time-to-live: the    *)
(* lease table grants a conversation to one client at a time, provided that *)
(* every client has a worker id of its own (which is how the job consumer   *)
(* builds them).                                                            *)
(***************************************************************************)
EXTENDS Lease, TLAPS

\* Every LeaseRepository is built without a worker_id.
AllFresh == \A w \in Client : WorkerOf[w] = FreshWorker

\* The strengthening.  Exclusivity alone is not inductive: the row must still
\* carry the token and the expiry of an open window, so that the upsert's WHERE
\* clause keeps others out; the clock value of an acquire() never lies in the
\* future, so that what it takes for expired is expired; and without a shared
\* worker id nothing is refreshed.
HolderBacked ==
  \A w \in Client : InWindow(w) =>
    /\ row[conv[w]].token = w
    /\ row[conv[w]].exp = Expiry(w)
    /\ ~row[conv[w]].released

\* A holder whose token is in the row knows the row's expiry.
TokenExpiry ==
  \A w \in Client : pc[w] = "held" /\ row[conv[w]].token = w =>
    row[conv[w]].exp = Expiry(w)

ClockRead == \A w \in Client : now[w] <= clock

NoRefresh == \A w \in Client : pc[w] # "refresh"

LeaseInv == TypeOK /\ ClockRead /\ NoRefresh /\ HolderBacked /\ TokenExpiry

-----------------------------------------------------------------------------

LEMMA LeaseTypeInit == Init => TypeOK
BY LeaseAssumption DEF Init, TypeOK, Row, PC, WorkerIds

LEMMA LeaseTypeStep == TypeOK /\ [Next]_vars => TypeOK'
<1> USE LeaseAssumption
<1> SUFFICES ASSUME TypeOK, [Next]_vars PROVE TypeOK'
  OBVIOUS
<1> USE DEF TypeOK, PC
<1>1. CASE Tick
  BY <1>1 DEF Tick
<1>2. ASSUME NEW w \in Client, NEW c \in Conv, Begin(w, c) PROVE TypeOK'
  BY <1>2 DEF Begin
<1>3. ASSUME NEW w \in Client, Select(w) PROVE TypeOK'
  BY <1>3 DEF Select
<1>4. ASSUME NEW w \in Client, Upsert(w) PROVE TypeOK'
  <2>1. Expiry(w) \in Nat
    BY DEF Expiry
  <2>2. [token |-> w, worker |-> WorkerOf[w], exp |-> Expiry(w), released |-> FALSE] \in Row
    BY <2>1 DEF Row, WorkerIds
  <2>3. QED
    BY <1>4, <2>2 DEF Upsert
<1>5. ASSUME NEW w \in Client, Refresh(w) PROVE TypeOK'
  <2>1. Expiry(w) \in Nat
    BY DEF Expiry
  <2>2. row[conv[w]].worker \in WorkerIds /\ row[conv[w]].released \in BOOLEAN
    BY DEF Row
  <2>3. [token |-> w, worker |-> row[conv[w]].worker, exp |-> Expiry(w),
         released |-> row[conv[w]].released] \in Row
    BY <2>1, <2>2 DEF Row
  <2>4. QED
    BY <1>5, <2>3 DEF Refresh
<1>6. ASSUME NEW w \in Client, AcquireError(w) PROVE TypeOK'
  BY <1>6 DEF AcquireError
<1>7. ASSUME NEW w \in Client, Release(w) PROVE TypeOK'
  <2>1. row[conv[w]] \in Row
    OBVIOUS
  <2>2. [row[conv[w]] EXCEPT !.released = TRUE] \in Row
    BY <2>1 DEF Row
  <2>3. QED
    BY <1>7, <2>2 DEF Release
<1>8. ASSUME NEW w \in Client, Drop(w) PROVE TypeOK'
  BY <1>8 DEF Drop
<1>9. CASE UNCHANGED vars
  BY <1>9 DEF vars
<1>10. QED
  BY <1>1, <1>2, <1>3, <1>4, <1>5, <1>6, <1>7, <1>8, <1>9 DEF Next, ClientStep

\* The state has its type, whatever the worker ids (the columns of the lease
\* table and the local variables of acquire()).
THEOREM LeaseTypeCorrect == Spec => []TypeOK
BY LeaseTypeInit, LeaseTypeStep, PTL DEF Spec

\* LeaseInv is inductive when all worker ids are fresh: the case that matters is
\* Upsert, whose WHERE clause must see every open window.
LEMMA LeaseInvStep ==
  ASSUME AllFresh, LeaseInv, TypeOK', [Next]_vars
  PROVE LeaseInv'
<1> USE LeaseAssumption DEF LeaseInv, ClockRead, NoRefresh
<1> DEFINE Good(u) == /\ InWindow(u) => /\ row[conv[u]].token = u
                                        /\ row[conv[u]].exp = Expiry(u)
                                        /\ ~row[conv[u]].released
                      /\ pc[u] = "held" /\ row[conv[u]].token = u =>
                           row[conv[u]].exp = Expiry(u)
<1>0. \A u \in Client : Good(u)
  BY DEF HolderBacked, TokenExpiry
<1>g. SUFFICES ClockRead' /\ NoRefresh' /\ \A u \in Client : Good(u)'
  BY DEF HolderBacked, TokenExpiry
<1>1. CASE Tick
  BY <1>0, <1>1 DEF Tick, InWindow, Expiry, TypeOK
<1>2. ASSUME NEW w \in Client, NEW c \in Conv, Begin(w, c)
      PROVE ClockRead' /\ NoRefresh' /\ \A u \in Client : Good(u)'
  BY <1>0, <1>2 DEF Begin, InWindow, Expiry, TypeOK
<1>3. ASSUME NEW w \in Client, Select(w)
      PROVE ClockRead' /\ NoRefresh' /\ \A u \in Client : Good(u)'
  <2>1. ~OwnRow(row[conv[w]], w)
    BY DEF OwnRow, AllFresh
  <2>2. QED
    BY <1>0, <1>3, <2>1 DEF Select, InWindow, Expiry, TypeOK
<1>4. ASSUME NEW w \in Client, Upsert(w)
      PROVE ClockRead' /\ NoRefresh' /\ \A u \in Client : Good(u)'
  <2>1. ClockRead' /\ NoRefresh'
    BY <1>4 DEF Upsert, TypeOK
  <2>2. ASSUME NEW u \in Client PROVE Good(u)'
    <3>1. CASE row[conv[w]].exp > now[w]
      BY <1>0, <1>4, <3>1 DEF Upsert, InWindow, Expiry, TypeOK, Row
    <3>2. CASE row[conv[w]].exp <= now[w] /\ conv[u] # conv[w]
      BY <1>0, <1>4, <3>2 DEF Upsert, InWindow, Expiry, TypeOK
    <3>3. CASE row[conv[w]].exp <= now[w] /\ conv[u] = conv[w] /\ u # w
      <4>1. ~InWindow(u)
        BY <1>0, <3>3 DEF InWindow, Expiry, TypeOK
      <4>2. ~InWindow(u)' /\ row'[conv'[u]].token # u
        BY <1>4, <3>3, <4>1 DEF Upsert, InWindow, Expiry, TypeOK
      <4>3. QED
        BY <4>2
    <3>4. CASE row[conv[w]].exp <= now[w] /\ u = w
      BY <1>4, <3>4 DEF Upsert, InWindow, Expiry, TypeOK
    <3>5. row[conv[w]].exp \in Nat /\ now[w] \in Nat
      BY DEF TypeOK, Row
    <3>6. QED
      BY <3>1, <3>2, <3>3, <3>4, <3>5
  <2>3. QED
    BY <2>1, <2>2
<1>5. ASSUME NEW w \in Client, Refresh(w)
      PROVE FALSE
  BY <1>5 DEF Refresh
<1>6. ASSUME NEW w \in Client, AcquireError(w)
      PROVE ClockRead' /\ NoRefresh' /\ \A u \in Client : Good(u)'
  BY <1>0, <1>6 DEF AcquireError, InWindow, Expiry, TypeOK
<1>7. ASSUME NEW w \in Client, Release(w)
      PROVE ClockRead' /\ NoRefresh' /\ \A u \in Client : Good(u)'
  <2>1. ClockRead' /\ NoRefresh'
    BY <1>7 DEF Release, TypeOK
  <2>2. ASSUME NEW u \in Client PROVE Good(u)'
    <3>1. row[conv[w]] \in Row
      BY DEF TypeOK
    <3>2. CASE u = w
      BY <1>7, <3>2 DEF Release, InWindow, TypeOK
    <3>3. CASE u # w /\ InWindow(u)
      BY <1>0, <1>7, <3>1, <3>3 DEF Release, InWindow, Expiry, TypeOK, Row
    <3>4. CASE u # w /\ ~InWindow(u)
      BY <1>0, <1>7, <3>1, <3>4 DEF Release, InWindow, Expiry, TypeOK, Row
    <3>5. QED
      BY <3>2, <3>3, <3>4
  <2>3. QED
    BY <2>1, <2>2
<1>8. ASSUME NEW w \in Client, Drop(w)
      PROVE ClockRead' /\ NoRefresh' /\ \A u \in Client : Good(u)'
  BY <1>0, <1>8 DEF Drop, InWindow, Expiry, TypeOK
<1>9. CASE UNCHANGED vars
  BY <1>0, <1>9 DEF vars, InWindow, Expiry
<1>10. QED
  BY <1>1, <1>2, <1>3, <1>4, <1>5, <1>6, <1>7, <1>8, <1>9 DEF Next, ClientStep

LEMMA LeaseInvInit == Init => LeaseInv
<1>1. Init => ClockRead /\ NoRefresh /\ HolderBacked /\ TokenExpiry
  BY DEF Init, ClockRead, NoRefresh, HolderBacked, TokenExpiry, InWindow
<1>2. QED
  BY <1>1, LeaseTypeInit DEF LeaseInv

LEMMA LeaseInvHolds ==
  ASSUME AllFresh
  PROVE Spec => []LeaseInv
<1>1. LeaseInv /\ TypeOK' /\ [Next]_vars => LeaseInv'
  BY LeaseInvStep
<1>2. QED
  BY <1>1, LeaseInvInit, LeaseTypeCorrect, PTL DEF Spec

\* "Only one worker can hold a lease for a conversation at a time": two clients
\* are never both inside a window they were granted on one conversation, for any
\* number of clients, conversations and any time-to-live.
THEOREM LeaseExclusive ==
  ASSUME AllFresh
  PROVE Spec => []WindowsExclusive
<1>1. LeaseInv => WindowsExclusive
  BY DEF LeaseInv, HolderBacked, WindowsExclusive
<1>2. QED
  BY <1>1, LeaseInvHolds, PTL

\* is_valid() answers a holder exactly whether its window is open.
THEOREM LeaseTokenMatchesWindow ==
  ASSUME AllFresh
  PROVE Spec => []TokenMatchesWindow
<1>1. LeaseInv => TokenMatchesWindow
  <2> SUFFICES ASSUME LeaseInv, NEW w \in Client, pc[w] = "held"
               PROVE IsValid(w) <=> InWindow(w)
    BY DEF TokenMatchesWindow
  <2>1. row[conv[w]].exp \in Nat /\ Expiry(w) \in Nat /\ clock \in Nat
    BY LeaseAssumption DEF LeaseInv, TypeOK, Row, Expiry
  <2>2. ASSUME InWindow(w) PROVE IsValid(w)
    BY <2>1, <2>2 DEF LeaseInv, HolderBacked, IsValid, Active, InWindow
  <2>3. ASSUME IsValid(w) PROVE InWindow(w)
    BY <2>1, <2>3 DEF LeaseInv, TokenExpiry, IsValid, Active, InWindow
  <2>4. QED
    BY <2>2, <2>3
<1>2. QED
  BY <1>1, LeaseInvHolds, PTL

-----------------------------------------------------------------------------
(* release() is fenced                                                     *)

\* Only release() sets released_at, and only in the row that carries its token.
LEMMA ReleaseStep ==
  TypeOK /\ [Next]_vars =>
    [\A c \in Conv : row'[c].released /\ ~row[c].released =>
       \E w \in Client : /\ row[c].token = w /\ conv[w] = c
                         /\ pc[w] = "held" /\ pc'[w] = "idle"]_vars
<1> SUFFICES ASSUME TypeOK, [Next]_vars, NEW c \in Conv, row'[c].released, ~row[c].released
             PROVE  \E w \in Client : /\ row[c].token = w /\ conv[w] = c
                                      /\ pc[w] = "held" /\ pc'[w] = "idle"
  OBVIOUS
<1>1. row # row'
  OBVIOUS
<1>2. PICK w \in Client : Upsert(w) \/ Refresh(w) \/ Release(w)
  BY <1>1 DEF Next, ClientStep, Tick, Begin, Select, AcquireError, Drop, vars
<1>3. ~Upsert(w)
  BY DEF Upsert, TypeOK
<1>4. ~Refresh(w)
  BY DEF Refresh, TypeOK
<1>5. Release(w)
  BY <1>2, <1>3, <1>4
<1>6. row[conv[w]].token = w /\ row' = [row EXCEPT ![conv[w]].released = TRUE]
  BY <1>1, <1>5 DEF Release
<1>7. conv[w] = c
  BY <1>6 DEF TypeOK
<1>8. pc[w] = "held" /\ pc'[w] = "idle"
  BY <1>5 DEF Release, TypeOK
<1>9. QED
  BY <1>6, <1>7, <1>8

\* release() "prevents stale workers from releasing another worker's lease": whatever
\* worker ids the clients share, a row becomes released only in the step in which the
\* client whose token it carries gives it back.
THEOREM LeaseReleaseOnlyOwn == Spec => ReleaseOnlyOwn
BY ReleaseStep, LeaseTypeCorrect, PTL DEF Spec, ReleaseOnlyOwn
=============================================================================
