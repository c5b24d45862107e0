----------------------- MODULE ConfigPublishingProofs -----------------------
(***************************************************************************)
(* Proofs about configuration publishing, for any numbers of drafts,        *)
(* publications, rollbacks and database errors.                            *)
(***************************************************************************)
EXTENDS ConfigPublishing, TLAPS

\* Every action keeps the types; past its SELECT, a writer's target is a publication.
LEMMA PublishingTypeInductive ==
  TypeOK /\ [Next]_vars => TypeOK'
<1> SUFFICES ASSUME TypeOK, [Next]_vars PROVE TypeOK'
  OBVIOUS
<1> USE PublishingAssumption DEF TypeOK, Stage, Writer
<1>1. ASSUME NEW d \in Draft, CreateSelect(d) PROVE TypeOK'
  BY <1>1 DEF CreateSelect, tables
<1>2. ASSUME NEW d \in Draft, CreateCommit(d) PROVE TypeOK'
  <2>1. profile' = profile \/ profile' = TRUE
    BY <1>2 DEF CreateCommit
  <2>2. profile' \in BOOLEAN
    BY <2>1, Zenon DEF TypeOK
  <2>3. version' \in [Draft -> {"absent", "draft", "published"}] /\ faults' \in Nat
    BY <1>2 DEF CreateCommit, Fault
  <2>4. create' \in [Draft -> {"idle", "selected", "created"}]
    BY <1>2 DEF CreateCommit
  <2>. QED
    BY <1>2, <2>2, <2>3, <2>4 DEF CreateCommit
<1>3. ASSUME NEW p \in Publication, NEW d \in Draft, Publish(p, d) PROVE TypeOK'
  BY <1>3 DEF Publish, Opens, Refuses, Open, tables
<1>4. ASSUME NEW b \in Rollback, NEW p \in Publication, RollbackSelect(b, p) PROVE TypeOK'
  BY <1>4 DEF RollbackSelect, Opens, Refuses, Open, tables
<1>5. ASSUME NEW w \in Writer, UpdateStart(w) PROVE TypeOK'
  BY <1>5 DEF UpdateStart, tables
<1>6. ASSUME NEW w \in Writer, UpdateRows(w) PROVE TypeOK'
  BY <1>6 DEF UpdateRows, tables
<1>7. ASSUME NEW w \in Writer, Commit(w) PROVE TypeOK'
  BY <1>7 DEF Commit, Activated, Published, Fault
<1>8. ASSUME NEW w \in Writer, TransactionFails(w) PROVE TypeOK'
  BY <1>8 DEF TransactionFails, Open, Fault, tables
<1>9. CASE UNCHANGED vars
  BY <1>9 DEF vars
<1>. QED
  BY <1>1, <1>2, <1>3, <1>4, <1>5, <1>6, <1>7, <1>8, <1>9 DEF Next

\* Type correctness of the publishing service, its requests and its tables.
THEOREM PublishingTypeCorrect == Spec => []TypeOK
<1>1. Init => TypeOK
  <2>1. Init => profile \in BOOLEAN
    BY Zenon DEF Init
  <2>. QED
    BY <2>1, PublishingAssumption DEF Init, TypeOK, Stage, Writer
<1>. QED
  BY <1>1, PublishingTypeInductive, PTL DEF Spec

-----------------------------------------------------------------------------

\* Nothing but a commit touches a publication, and a commit activates one: a lock
\* taken on a row, a failure or a racing writer never leaves the tenant without.
THEOREM PublishingNeverDark == Spec => []NeverDark
<1>1. Init => NeverDark
  BY DEF Init, NeverDark
<1>2. TypeOK /\ NeverDark /\ [Next]_vars => NeverDark'
  <2> SUFFICES ASSUME TypeOK, NeverDark, [Next]_vars PROVE NeverDark'
    OBVIOUS
  <2>1. ASSUME NEW w \in Writer, Commit(w) PROVE NeverDark'
    <3>1. target[w] \in Publication
      BY <2>1 DEF Commit, TypeOK
    <3>2. pub'[target[w]] = "active"
      BY <2>1, <3>1 DEF Commit, Activated
    <3>. QED
      BY <3>1, <3>2 DEF NeverDark, Active
  <2>2. ASSUME UNCHANGED <<pub, last>> PROVE NeverDark'
    BY <2>2 DEF NeverDark, Active
  <2>. QED
    BY <2>1, <2>2 DEF Next, vars, tables, CreateSelect, CreateCommit, Publish,
      RollbackSelect, UpdateStart, UpdateRows, TransactionFails
<1>. QED
  BY <1>1, <1>2, PublishingTypeCorrect, PTL DEF Spec

-----------------------------------------------------------------------------

\* A request that may still find the tenant without a profile is among those that
\* saw none; a profile is there because one of those stored its draft with it.
ProfileInv ==
  /\ \A d \in Draft : create[d] = "selected" /\ ~profile => d \in fresh
  /\ profile => \E d \in Draft : d \in fresh /\ version[d] # "absent"

\* A stored draft stays stored.
Kept == \A d \in Draft : version[d] # "absent" => version'[d] # "absent"

\* Publishing changes the status of a stored draft and deletes none.
LEMMA CommitKeepsDrafts ==
  ASSUME TypeOK, NEW w \in Writer, Commit(w)
  PROVE  Kept
BY DEF TypeOK, Commit, Published, Kept

\* A step that leaves the requests alone and keeps the drafts keeps the invariant.
LEMMA DraftInvFrame ==
  ASSUME TypeOK, ProfileInv, AckedDraftIsStored, Kept,
         UNCHANGED <<profile, create, fresh>>, faults' \in Nat, faults' >= faults
  PROVE  ProfileInv' /\ AckedDraftIsStored'
<1>1. ProfileInv'
  BY DEF ProfileInv, Kept
<1>2. ASSUME NEW d \in Draft, create'[d] = "created", version'[d] = "absent"
      PROVE  \/ d \in Unknown \/ faults' > 0
             \/ \E e \in Draft \ {d} : /\ version'[e] # "absent"
                                       /\ Tag[e] = Tag[d] \/ {d, e} \subseteq fresh'
  BY <1>2 DEF AckedDraftIsStored, Kept, TypeOK
<1>. QED
  BY <1>1, <1>2 DEF AckedDraftIsStored

\* The insert of a draft keeps the invariant: if it collides, the colliding draft is
\* the one the property names.
LEMMA DraftInvCreate ==
  ASSUME TypeOK, ProfileInv, AckedDraftIsStored, NEW d \in Draft, CreateCommit(d)
  PROVE  ProfileInv' /\ AckedDraftIsStored'
<1>1. fresh' = fresh /\ create[d] = "selected"
      /\ create' = [create EXCEPT ![d] = "created"]
  BY DEF CreateCommit
<1>2. CASE ~Unstorable(d) /\ profile' = TRUE /\ UNCHANGED faults
           /\ version' = [version EXCEPT ![d] = "draft"]
  <2>1. Kept /\ version'[d] # "absent"
    BY <1>2 DEF Kept, TypeOK
  <2>2. \E e \in Draft : e \in fresh /\ version'[e] # "absent"
    BY <1>1, <2>1 DEF ProfileInv, Kept
  <2>3. ASSUME NEW c \in Draft, create'[c] = "created", version'[c] = "absent"
        PROVE  \/ c \in Unknown \/ faults' > 0
               \/ \E e \in Draft \ {c} : /\ version'[e] # "absent"
                                         /\ Tag[e] = Tag[c] \/ {c, e} \subseteq fresh'
    <3>1. c # d /\ create[c] = "created" /\ version[c] = "absent"
      BY <1>1, <1>2, <2>1, <2>3 DEF TypeOK
    <3>. QED
      BY <1>1, <1>2, <2>1, <3>1 DEF AckedDraftIsStored, Kept
  <2>. QED
    BY <1>1, <1>2, <2>2, <2>3 DEF ProfileInv, AckedDraftIsStored
<1>3. CASE Unstorable(d) /\ UNCHANGED <<profile, version, faults>>
  <2>1. ProfileInv'
    BY <1>1, <1>3 DEF ProfileInv, TypeOK
  <2>2. ASSUME version[d] = "absent", d \notin Unknown
        PROVE  \E e \in Draft \ {d} : /\ version[e] # "absent"
                                      /\ Tag[e] = Tag[d] \/ {d, e} \subseteq fresh
    <3>1. CASE d \in fresh /\ profile
      BY <2>2, <3>1 DEF ProfileInv
    <3>2. CASE \E e \in Draft : version[e] # "absent" /\ Tag[e] = Tag[d]
      BY <2>2, <3>2
    <3>. QED
      BY <1>3, <2>2, <3>1, <3>2 DEF Unstorable
  <2>. QED
    BY <1>1, <1>3, <2>1, <2>2 DEF AckedDraftIsStored, TypeOK
<1>4. CASE Fault /\ UNCHANGED <<profile, version>>
  <2>1. ProfileInv'
    BY <1>1, <1>4 DEF ProfileInv, TypeOK
  <2>2. faults' > 0
    BY <1>4 DEF Fault, TypeOK
  <2>. QED
    BY <2>1, <2>2 DEF AckedDraftIsStored
<1>. QED
  BY <1>2, <1>3, <1>4 DEF CreateCommit

\* A draft id answered with 201 names a stored draft but for the named causes:
\* what an INSERT of create_draft collides with is a row that some other request stored.
THEOREM PublishingAckedDraftIsStored == Spec => []AckedDraftIsStored
<1>1. Init => ProfileInv /\ AckedDraftIsStored
  BY DEF Init, ProfileInv, AckedDraftIsStored
<1>2. TypeOK /\ ProfileInv /\ AckedDraftIsStored /\ [Next]_vars
        => ProfileInv' /\ AckedDraftIsStored'
  <2> SUFFICES ASSUME TypeOK, ProfileInv, AckedDraftIsStored, [Next]_vars
               PROVE  ProfileInv' /\ AckedDraftIsStored'
    OBVIOUS
  <2>1. ASSUME NEW d \in Draft, CreateSelect(d)
        PROVE  ProfileInv' /\ AckedDraftIsStored'
    <3>1. UNCHANGED <<profile, version, faults>> /\ create[d] = "idle"
          /\ create' = [create EXCEPT ![d] = "selected"]
          /\ fresh' = IF profile THEN fresh ELSE fresh \cup {d}
      BY <2>1 DEF CreateSelect, tables
    <3>2. fresh \subseteq fresh' /\ (~profile => d \in fresh')
      BY <3>1
    <3>3. ProfileInv'
      BY <3>1, <3>2 DEF ProfileInv, TypeOK
    <3>4. ASSUME NEW c \in Draft, create'[c] = "created", version'[c] = "absent"
          PROVE  \/ c \in Unknown \/ faults' > 0
                 \/ \E e \in Draft \ {c} : /\ version'[e] # "absent"
                                           /\ Tag[e] = Tag[c] \/ {c, e} \subseteq fresh'
      BY <3>1, <3>2, <3>4 DEF AckedDraftIsStored, TypeOK
    <3>. QED
      BY <3>3, <3>4 DEF AckedDraftIsStored
  <2>2. ASSUME NEW d \in Draft, CreateCommit(d)
        PROVE  ProfileInv' /\ AckedDraftIsStored'
    BY <2>2, DraftInvCreate
  <2>3. ASSUME NEW w \in Writer, Commit(w)
        PROVE  ProfileInv' /\ AckedDraftIsStored'
    <3>1. Kept
      BY <2>3, CommitKeepsDrafts
    <3>2. UNCHANGED <<profile, create, fresh>> /\ faults' \in Nat /\ faults' >= faults
      BY <2>3 DEF Commit, Fault, TypeOK
    <3>. QED
      BY <3>1, <3>2, DraftInvFrame
  <2>4. ASSUME UNCHANGED <<profile, version, create, fresh>>,
               faults' \in Nat, faults' >= faults
        PROVE  ProfileInv' /\ AckedDraftIsStored'
    BY <2>4, DraftInvFrame DEF Kept
  <2>5. ASSUME NEW w \in Writer, TransactionFails(w)
        PROVE  ProfileInv' /\ AckedDraftIsStored'
    BY <2>4, <2>5 DEF TransactionFails, Fault, TypeOK, tables
  <2>6. CASE UNCHANGED <<profile, version, create, fresh, faults>>
    BY <2>4, <2>6 DEF TypeOK
  <2>. QED
    BY <2>1, <2>2, <2>3, <2>5, <2>6 DEF Next, vars, tables, Publish, RollbackSelect,
      UpdateStart, UpdateRows
<1>. QED
  BY <1>1, <1>2, PublishingTypeCorrect, PTL DEF Spec

-----------------------------------------------------------------------------

\* A writer that met no other is the only one under way, and the rows of its UPDATE
\* are those its WHERE clause still selects: nobody changes the table under it.
SoloInv ==
  \A w \in Open \ met :
    /\ Open = {w}
    /\ stage[w] \in {"updating", "locked"} => rows[w] = {p \in Publication : Selects(w, p)}

\* A request that answers at its SELECT, or that opens a transaction: from then on
\* either it is alone, or all that are under way have met.
LEMMA SoloInvOpens ==
  ASSUME TypeOK, SoloInv, NEW w \in Writer, NEW p \in Publication, stage[w] = "idle",
         Refuses(w) \/ Opens(w, p), UNCHANGED <<pub, rows>>
  PROVE  SoloInv'
<1>1. CASE Refuses(w)
  <2>1. Open' = Open /\ met' = met /\ \A v \in Open : stage'[v] = stage[v]
    BY <1>1 DEF Refuses, Open, TypeOK
  <2>. QED
    BY <2>1 DEF SoloInv, Selects
<1>2. CASE Opens(w, p)
  <2>1. Open' = Open \cup {w} /\ stage'[w] = "selected"
    BY <1>2 DEF Opens, Open, TypeOK
  <2>2. CASE Open = {}
    BY <2>1, <2>2 DEF SoloInv
  <2>3. CASE Open # {}
    BY <1>2, <2>1, <2>3 DEF SoloInv, Opens
  <2>. QED
    BY <2>2, <2>3
<1>. QED
  BY <1>1, <1>2

\* The end of a transaction, whatever it wrote: those still under way had met it.
LEMMA SoloInvCloses ==
  ASSUME TypeOK, SoloInv, NEW w \in Open, NEW to \in {"done", "refused"},
         stage' = [stage EXCEPT ![w] = to], UNCHANGED met
  PROVE  SoloInv'
<1>1. Open' = Open \ {w}
  BY DEF Open, TypeOK
<1>. QED
  BY <1>1 DEF SoloInv

\* An undisturbed writer's transaction stays the only one until its end.
LEMMA SoloInvInductive ==
  TypeOK /\ SoloInv /\ [Next]_vars => SoloInv'
<1> SUFFICES ASSUME TypeOK, SoloInv, [Next]_vars PROVE SoloInv'
  OBVIOUS
<1>1. CASE UNCHANGED <<pub, stage, rows, met>>
  BY <1>1 DEF SoloInv, Open, Selects
<1>2. ASSUME NEW p \in Publication, NEW d \in Draft, Publish(p, d) PROVE SoloInv'
  BY <1>2, SoloInvOpens DEF Publish, tables, Writer
<1>3. ASSUME NEW b \in Rollback, NEW p \in Publication, RollbackSelect(b, p)
      PROVE  SoloInv'
  BY <1>3, SoloInvOpens DEF RollbackSelect, tables, Writer
<1>4. ASSUME NEW w \in Writer, UpdateStart(w) PROVE SoloInv'
  <2>1. w \in Open /\ Open' = Open /\ UNCHANGED <<pub, met>>
    BY <1>4 DEF UpdateStart, Open, TypeOK, tables
  <2>2. rows'[w] = {p \in Publication : Selects(w, p)}
    BY <1>4 DEF UpdateStart, TypeOK
  <2>. QED
    BY <2>1, <2>2 DEF SoloInv, Selects
<1>5. ASSUME NEW w \in Writer, UpdateRows(w) PROVE SoloInv'
  <2>1. w \in Open /\ Open' = Open /\ UNCHANGED <<pub, met>>
    BY <1>5 DEF UpdateRows, Open, TypeOK, tables
  <2>2. rows'[w] = {p \in rows[w] : Selects(w, p)}
    BY <1>5 DEF UpdateRows, TypeOK
  <2>3. w \notin met => rows[w] = {p \in Publication : Selects(w, p)}
    BY <1>5, <2>1 DEF UpdateRows, SoloInv
  <2>. QED
    BY <2>1, <2>2, <2>3 DEF SoloInv, Selects
<1>6. ASSUME NEW w \in Writer, Commit(w) PROVE SoloInv'
  <2>1. w \in Open /\ UNCHANGED met
    BY <1>6 DEF Commit, Open
  <2>2. \E to \in {"done", "refused"} : stage' = [stage EXCEPT ![w] = to]
    BY <1>6 DEF Commit
  <2>. QED
    BY <2>1, <2>2, SoloInvCloses
<1>7. ASSUME NEW w \in Writer, TransactionFails(w) PROVE SoloInv'
  BY <1>7, SoloInvCloses DEF TransactionFails
<1>. QED
  BY <1>1, <1>2, <1>3, <1>4, <1>5, <1>6, <1>7 DEF Next, vars, CreateSelect, CreateCommit,
    tables

\* The commit of a writer that met no other deactivates every other active row: also
\* those that an earlier race had left behind.
LEMMA SoloCommitServes ==
  ASSUME TypeOK, SoloInv, NEW w \in Writer, Commit(w), w \notin met
  PROVE  Active' = {target[w]}
<1>1. target[w] \in Publication /\ w \in Open /\ stage[w] = "locked"
  BY DEF Commit, TypeOK, Open
<1>2. rows[w] = {p \in Publication : Selects(w, p)}
  BY <1>1 DEF SoloInv
<1>3. pub' = Activated(w)
  BY DEF Commit
<1>4. ASSUME NEW p \in Publication
      PROVE  pub'[p] = "active" <=> p = target[w]
  <2>1. pub[p] = "active" => p \in rows[w]
    BY <1>2 DEF Selects
  <2>. QED
    BY <1>3, <2>1 DEF Activated
<1>. QED
  BY <1>1, <1>4 DEF Active

\* Of one active row the read finds that row, whatever its time.
LEMMA SingleActiveIsRead ==
  ASSUME stamp \in [Publication -> Nat], NEW p \in Publication, Active = {p}
  PROVE  ActivePublication = {p}
BY DEF ActivePublication

\* A publish or rollback that no other writer overlapped leaves its publication as
\* the only active one and the one served, for any history of races before it.
THEOREM PublishingSoloWriterIsServed == Spec => []SoloWriterIsServed
<1> DEFINE Served == last # NoWriter /\ last \notin met => Active = {target[last]}
           Closed == last # NoWriter => stage[last] \in {"done", "refused"}
           Inv == SoloInv /\ Served /\ Closed
<1>1. Init => Inv
  BY DEF Init, SoloInv, Open
<1>2. TypeOK /\ Inv /\ [Next]_vars => Inv'
  <2> SUFFICES ASSUME TypeOK, SoloInv, Served, Closed, [Next]_vars PROVE Inv'
    OBVIOUS
  <2>1. SoloInv'
    BY SoloInvInductive
  <2>2. ASSUME NEW w \in Writer, Commit(w) PROVE Served' /\ Closed'
    <3>1. last' = w /\ met' = met /\ target' = target /\ stage'[w] \in {"done", "refused"}
      BY <2>2 DEF Commit, TypeOK
    <3>. QED
      BY <2>2, <3>1, SoloCommitServes
  <2>3. ASSUME UNCHANGED <<pub, last>>, met \subseteq met', NEW w \in Writer,
               stage[w] \notin {"done", "refused"},
               \A v \in Writer \ {w} : stage'[v] = stage[v] /\ target'[v] = target[v]
        PROVE  Served' /\ Closed'
    BY <2>3 DEF Active, TypeOK
  <2>4. ASSUME NEW p \in Publication, NEW d \in Draft, Publish(p, d)
        PROVE  Served' /\ Closed'
    <3>1. p \in Writer /\ UNCHANGED <<pub, last>> /\ met \subseteq met' /\ stage[p] = "idle"
      BY <2>4 DEF Publish, Opens, Refuses, tables, Writer
    <3>2. \A v \in Writer \ {p} : stage'[v] = stage[v] /\ target'[v] = target[v]
      BY <2>4 DEF Publish, Opens, Refuses, TypeOK
    <3>. QED
      BY <2>3, <3>1, <3>2
  <2>5. ASSUME NEW b \in Rollback, NEW p \in Publication, RollbackSelect(b, p)
        PROVE  Served' /\ Closed'
    <3>1. b \in Writer /\ UNCHANGED <<pub, last>> /\ met \subseteq met' /\ stage[b] = "idle"
      BY <2>5 DEF RollbackSelect, Opens, Refuses, tables, Writer
    <3>2. \A v \in Writer \ {b} : stage'[v] = stage[v] /\ target'[v] = target[v]
      BY <2>5 DEF RollbackSelect, Opens, Refuses, TypeOK
    <3>. QED
      BY <2>3, <3>1, <3>2
  <2>6. ASSUME NEW w \in Writer, UpdateStart(w) \/ UpdateRows(w) \/ TransactionFails(w)
        PROVE  Served' /\ Closed'
    <3>1. UNCHANGED <<pub, last, met, target>> /\ stage[w] \notin {"done", "refused"}
      BY <2>6 DEF UpdateStart, UpdateRows, TransactionFails, Open, tables
    <3>2. \A v \in Writer \ {w} : stage'[v] = stage[v]
      BY <2>6 DEF UpdateStart, UpdateRows, TransactionFails, TypeOK
    <3>. QED
      BY <2>3, <3>1, <3>2
  <2>7. ASSUME UNCHANGED <<pub, stage, target, last, met>> PROVE Served' /\ Closed'
    BY <2>7 DEF Active
  <2>8. ASSUME NEW d \in Draft, CreateSelect(d) \/ CreateCommit(d)
        PROVE  UNCHANGED <<pub, stage, target, last, met>>
    BY <2>8 DEF CreateSelect, CreateCommit, tables
  <2>9. ASSUME UNCHANGED vars PROVE Served' /\ Closed'
    BY <2>7, <2>9 DEF vars
  <2> HIDE DEF Served, Closed
  <2>10. Served' /\ Closed'
    BY <2>2, <2>4, <2>5, <2>6, <2>7, <2>8, <2>9 DEF Next
  <2>. QED
    BY <2>1, <2>10
<1>3. TypeOK /\ Inv => SoloWriterIsServed
  <2> SUFFICES ASSUME TypeOK, Served, last # NoWriter, last \notin met
               PROVE  Active = {target[last]} /\ ActivePublication = {target[last]}
    BY DEF SoloWriterIsServed
  <2>1. Active = {target[last]}
    OBVIOUS
  <2>2. target[last] \in Publication /\ stamp \in [Publication -> Nat]
    BY <2>1 DEF Active, TypeOK
  <2>. QED
    BY <2>1, <2>2, SingleActiveIsRead
<1>. QED
  BY <1>1, <1>2, <1>3, PublishingTypeCorrect, PTL DEF Spec

=============================================================================
