-------------------------- MODULE ConfigPublishing --------------------------
(***************************************************************************)
(* Configuration publishing of one tenant: the service                      *)
(* (config_publishing/publisher.py), its endpoints (api/routers/config.py)  *)
(* and the tables agent_profiles, agent_config_versions and                 *)
(* config_publications (persistence/models.py).                             *)
(*                                                                         *)
(* The endpoints build a service per request, so its in-memory fallback is   *)
(* empty when a request starts and is dropped when it ends: after a database *)
(* error create_draft keeps the draft there and answers 201, while publish  *)
(* and rollback find nothing there and raise ConfigPublishError.            *)
(*                                                                         *)
(* Transactions run at READ COMMITTED.  An UPDATE works on the rows its      *)
(* statement snapshot selects, waits for those another transaction has      *)
(* updated, and checks its WHERE clause again on what that one committed.   *)
(***************************************************************************)
EXTENDS Naturals, FiniteSets

CONSTANTS Draft,        \* create requests; each makes a draft of the same name
          Tag,          \* version_tag of each draft, given or generated
          Empty,        \* drafts with an empty config_data
          Unknown,      \* drafts whose tenant id is not a UUID or has no row in tenants
          Publication,  \* publish requests; each makes a publication
          Rollback,     \* rollback requests
          NoWriter,
          MaxFaults     \* bound on database errors

Writer == Publication \cup Rollback

ASSUME PublishingAssumption ==
  /\ IsFiniteSet(Draft) /\ IsFiniteSet(Publication) /\ IsFiniteSet(Rollback)
  /\ Publication \cap Rollback = {} /\ NoWriter \notin Writer
  /\ Empty \subseteq Draft /\ Unknown \subseteq Draft
  /\ DOMAIN Tag = Draft /\ MaxFaults \in Nat

VARIABLES profile,   \* the tenant has a row in agent_profiles
          version,   \* status of each row of agent_config_versions
          pub,       \* each row of config_publications
          stamp,     \* its published_at, as the order in which now was read
          clock,     \* times now was read
          create,    \* where each create request is
          fresh,     \* create requests that saw no profile
          stage,     \* where each writer's transaction is
          target,    \* the publication a writer activates
          rows,      \* the rows its UPDATE works on
          source,    \* the draft of each publication
          faults,
          last,      \* the writer whose commit was the last
          met        \* writers that overlapped another

tables == <<profile, version, pub>>
vars == <<profile, version, pub, stamp, clock, create, fresh, stage, target, rows, source,
          faults, last, met>>

Stage == {"idle", "selected", "updating", "locked", "done", "refused"}

Active == {p \in Publication : pub[p] = "active"}

Open == {w \in Writer : stage[w] \in {"selected", "updating", "locked"}}

TypeOK ==
  /\ profile \in BOOLEAN
  /\ version \in [Draft -> {"absent", "draft", "published"}]
  /\ pub \in [Publication -> {"absent", "inactive", "active"}]
  /\ stamp \in [Publication -> Nat] /\ clock \in Nat
  /\ create \in [Draft -> {"idle", "selected", "created"}] /\ fresh \subseteq Draft
  /\ stage \in [Writer -> Stage]
  /\ target \in [Writer -> Publication \cup {NoWriter}]
  /\ \A w \in Writer : stage[w] \notin {"idle", "refused"} => target[w] \in Publication
  /\ rows \in [Writer -> SUBSET Publication]
  /\ source \in [Publication -> SUBSET Draft]
  /\ faults \in Nat
  /\ last \in Writer \cup {NoWriter} /\ met \subseteq Writer

Init ==
  /\ profile = FALSE
  /\ version = [d \in Draft |-> "absent"]
  /\ pub = [p \in Publication |-> "absent"]
  /\ stamp = [p \in Publication |-> 0] /\ clock = 0
  /\ create = [d \in Draft |-> "idle"] /\ fresh = {}
  /\ stage = [w \in Writer |-> "idle"]
  /\ target = [w \in Writer |-> NoWriter]
  /\ rows = [w \in Writer |-> {}]
  /\ source = [p \in Publication |-> {}]
  /\ faults = 0 /\ last = NoWriter /\ met = {}

Fault == faults < MaxFaults /\ faults' = faults + 1

-----------------------------------------------------------------------------
(* Drafts                                                                  *)

\* create_draft selects the tenant's profile.
CreateSelect(d) ==
  /\ create[d] = "idle"
  /\ create' = [create EXCEPT ![d] = "selected"]
  /\ fresh' = IF profile THEN fresh ELSE fresh \cup {d}
  /\ UNCHANGED <<tables, stamp, clock, stage, target, rows, source, faults, last, met>>

\* A tenant id that does not parse, the foreign key to tenants, and the unique
\* constraints on the profile's tenant and on the version's tag.  An INSERT waits for
\* an uncommitted row with its key, so only committed ones count.
Unstorable(d) ==
  \/ d \in Unknown
  \/ d \in fresh /\ profile
  \/ \E e \in Draft : version[e] # "absent" /\ Tag[e] = Tag[d]

\* A mutant of CreateCommit: the fallback is taken for every request.
CreateInMemory(d) ==
  /\ create[d] = "selected"
  /\ create' = [create EXCEPT ![d] = "created"]
  /\ UNCHANGED <<tables, stamp, clock, fresh, stage, target, rows, source, faults, last, met>>

\* The profile, if none was seen, and the version are inserted.  When that raises,
\* the draft is kept by the request's service alone; the answer is 201 either way.
CreateCommit(d) ==
  /\ create[d] = "selected"
  /\ \/ /\ ~Unstorable(d)
        /\ profile' = TRUE
        /\ version' = [version EXCEPT ![d] = "draft"]
        /\ UNCHANGED faults
     \/ Unstorable(d) /\ UNCHANGED <<profile, version, faults>>
     \/ Fault /\ UNCHANGED <<profile, version>>
  /\ create' = [create EXCEPT ![d] = "created"]
  /\ UNCHANGED <<pub, stamp, clock, fresh, stage, target, rows, source, last, met>>

-----------------------------------------------------------------------------
(* Publishing and rolling back                                             *)

\* A writer's transaction is under way.
Opens(w, p) ==
  /\ stage' = [stage EXCEPT ![w] = "selected"]
  /\ target' = [target EXCEPT ![w] = p]
  /\ met' = IF Open = {} THEN met ELSE met \cup Open \cup {w}

Refuses(w) ==
  /\ stage' = [stage EXCEPT ![w] = "refused"]
  /\ UNCHANGED <<target, met>>

\* publish reads now and selects the version; the client has its draft id from a
\* 201.  No row, or an empty config_data, is a ConfigPublishError (422).
Publish(p, d) ==
  /\ stage[p] = "idle" /\ create[d] = "created"
  /\ clock' = clock + 1
  /\ stamp' = [stamp EXCEPT ![p] = clock + 1]
  /\ source' = [source EXCEPT ![p] = {d}]
  /\ IF version[d] = "absent" \/ d \in Empty THEN Refuses(p) ELSE Opens(p, p)
  /\ UNCHANGED <<tables, create, fresh, rows, faults, last>>

\* rollback selects the publication to reactivate; 404 when there is no such row.
RollbackSelect(b, p) ==
  /\ stage[b] = "idle"
  /\ IF pub[p] = "absent" THEN Refuses(b) ELSE Opens(b, p)
  /\ UNCHANGED <<tables, stamp, clock, create, fresh, rows, source, faults, last>>

\* A mutant of Selects: no row has to be deactivated.
SelectsNone(w, p) == FALSE

\* The WHERE clause of the deactivating UPDATE: publish selects the active rows,
\* rollback every row of the tenant.
Selects(w, p) ==
  IF w \in Publication THEN pub[p] = "active" ELSE pub[p] # "absent"

\* The statement's snapshot.
UpdateStart(w) ==
  /\ stage[w] = "selected"
  /\ rows' = [rows EXCEPT ![w] = {p \in Publication : Selects(w, p)}]
  /\ stage' = [stage EXCEPT ![w] = "updating"]
  /\ UNCHANGED <<tables, stamp, clock, create, fresh, target, source, faults, last, met>>

\* The rows are locked once no other transaction has them, and checked again.
UpdateRows(w) ==
  /\ stage[w] = "updating"
  /\ \A v \in Writer \ {w} : stage[v] = "locked" => rows[v] \cap rows[w] = {}
  /\ rows' = [rows EXCEPT ![w] = {p \in @ : Selects(w, p)}]
  /\ stage' = [stage EXCEPT ![w] = "locked"]
  /\ UNCHANGED <<tables, stamp, clock, create, fresh, target, source, faults, last, met>>

\* The publications once the transaction has committed: publish inserts its row,
\* rollback updates its target a second time.
Activated(w) == [p \in Publication |->
  IF p = target[w] THEN "active" ELSE IF p \in rows[w] THEN "inactive" ELSE pub[p]]

\* publish marks the version it publishes.
Published(w) == [d \in Draft |->
  IF w \in Publication /\ d \in source[w] THEN "published" ELSE version[d]]

\* The commit.  When it takes effect and raises, the answer is that of a failure.
Commit(w) ==
  /\ stage[w] = "locked"
  /\ pub' = Activated(w)
  /\ version' = Published(w)
  /\ last' = w
  /\ \/ stage' = [stage EXCEPT ![w] = "done"] /\ UNCHANGED faults
     \/ stage' = [stage EXCEPT ![w] = "refused"] /\ Fault
  /\ UNCHANGED <<profile, stamp, clock, create, fresh, target, rows, source, met>>

\* A statement or the commit raises (the connection is lost, or the transaction is
\* chosen to break a deadlock): rolled back, and nothing is found in memory.
TransactionFails(w) ==
  /\ w \in Open /\ Fault
  /\ stage' = [stage EXCEPT ![w] = "refused"]
  /\ UNCHANGED <<tables, stamp, clock, create, fresh, target, rows, source, last, met>>

\* get_active_publication: the active row with the highest published_at.
ActivePublication ==
  {p \in Active : \A q \in Active : stamp[q] <= stamp[p]}

Next ==
  \/ \E d \in Draft : CreateSelect(d) \/ CreateCommit(d)
  \/ \E p \in Publication, d \in Draft : Publish(p, d)
  \/ \E b \in Rollback, p \in Publication : RollbackSelect(b, p)
  \/ \E w \in Writer : UpdateStart(w) \/ UpdateRows(w) \/ Commit(w) \/ TransactionFails(w)

Spec == Init /\ [][Next]_vars

-----------------------------------------------------------------------------
(* Properties                                                              *)

\* "Previous publications are deactivated but not deleted" (publish_draft): once a
\* configuration is published the tenant always has an active one, whatever publishes
\* and rollbacks run at a time and whichever of them fail.
NeverDark == last # NoWriter => Active # {}

\* "Once published, the runtime uses this config for all new runs" (publish_draft): a
\* publish or rollback that no other writer overlapped leaves its publication as the
\* only active one and the one served, even if earlier races had left several: neither
\* of two racing writers sees the row the other inserts.
SoloWriterIsServed ==
  last # NoWriter /\ last \notin met =>
    Active = {target[last]} /\ ActivePublication = {target[last]}

\* A draft id answered with 201 names a stored draft, except for an unknown tenant, and
\* after a database error, a version tag that was taken, or a first draft of the tenant
\* made at the same time.
AckedDraftIsStored ==
  \A d \in Draft : create[d] = "created" /\ version[d] = "absent" =>
    \/ d \in Unknown \/ faults > 0
    \/ \E e \in Draft \ {d} : /\ version[e] # "absent"
                              /\ Tag[e] = Tag[d] \/ {d, e} \subseteq fresh

=============================================================================
