---------------------------- MODULE WebhookIntake ----------------------------
(***************************************************************************)
(* The webhook endpoint (api/routers/webhooks.py): the eligibility rules     *)
(* (eligibility/decision.py), the idempotency ledger and the debounce window *)
(* (persistence/repositories/idempotency.py, debounce.py), and the           *)
(* background task that publishes a conversation job.                        *)
(*                                                                         *)
(* A request is one call of the endpoint; calls run concurrently, in one API *)
(* process or in several.  The provider may deliver an event more than once. *)
(* A request that fails before the eligibility check (unknown tenant, bad    *)
(* JSON, normalization error) answers with an error and changes nothing; it  *)
(* is left out.  So is the environment without a database, where every       *)
(* request takes the degraded path.                                          *)
(***************************************************************************)
EXTENDS Integers, FiniteSets

CONSTANTS Request,        \* concurrent calls of the endpoint
          Event,          \* provider events, one per idempotency key
          ConvOf,         \* the conversation of each event
          Attr,           \* what normalize() found in each event
          Conv,
          NoEvent,        \* an idle request's event
          Debounce,       \* iara_debounce_seconds
          MaxClock,       \* bound on the clock
          MaxDeliveries,  \* bound on the deliveries of one event
          MaxFaults       \* bound on crashes, database and broker errors

MessageTypes == {"none", "incoming", "outgoing", "activity", "template"}
SenderTypes == {"none", "contact", "user", "agent_bot", "system"}
EventAttr == [accountMatches: BOOLEAN, messageType: MessageTypes,
              senderType: SenderTypes, private: BOOLEAN]

ASSUME IntakeAssumption ==
  /\ ConvOf \in [Event -> Conv]
  /\ Attr \in [Event -> EventAttr]
  /\ NoEvent \notin Event
  /\ IsFiniteSet(Request)
  /\ Debounce \in Nat /\ MaxClock \in Nat /\ MaxDeliveries \in Nat /\ MaxFaults \in Nat

VARIABLES clock,
          receipts,     \* idempotency keys in event_receipts
          lockedUntil,  \* locked_until of each conversation (0: no row)
          event,        \* the event each request handles
          at,           \* where the request is
          answer,       \* what the provider was last told about each event
          deliveries,   \* deliveries of each event so far
          published,    \* conversation jobs published for each event
          faults

vars == <<clock, receipts, lockedUntil, event, at, answer, deliveries, published, faults>>

TypeOK ==
  /\ clock \in Nat
  /\ receipts \subseteq Event
  /\ lockedUntil \in [Conv -> Nat]
  /\ event \in [Request -> Event \cup {NoEvent}]
  /\ at \in [Request -> {"idle", "received", "unseen", "eligible", "publish"}]
  /\ answer \in [Event -> {"none", "accepted", "ineligible", "duplicate", "debounce"}]
  /\ deliveries \in [Event -> Nat]
  /\ published \in [Event -> Nat]
  /\ faults \in Nat

Init ==
  /\ clock = 0
  /\ receipts = {}
  /\ lockedUntil = [c \in Conv |-> 0]
  /\ event = [r \in Request |-> NoEvent]
  /\ at = [r \in Request |-> "idle"]
  /\ answer = [e \in Event |-> "none"]
  /\ deliveries = [e \in Event |-> 0]
  /\ published = [e \in Event |-> 0]
  /\ faults = 0

\* Rules 1 to 6 of EligibilityChecker.check, those that need no database: the
\* account is the tenant's, the message has a type and is neither outgoing nor an
\* activity nor a template, the sender is no bot or system, it is no private note.
Eligible(e) ==
  /\ Attr[e].accountMatches
  /\ Attr[e].messageType \notin {"none", "outgoing", "activity", "template"}
  /\ Attr[e].senderType \notin {"agent_bot", "system"}
  /\ ~Attr[e].private

\* is_duplicate(): SELECT from the ledger.
IsDuplicate(e) == e \in receipts

\* is_debouncing(): locked_until > now.
IsDebouncing(c) == lockedUntil[c] > clock

\* record(): INSERT ... ON CONFLICT DO NOTHING; its answer is not looked at.
Record(e) == receipts' = receipts \cup {e}

\* set_debounce(): the window of the conversation starts over from now.
SetDebounce(c) == lockedUntil' = [lockedUntil EXCEPT ![c] = clock + Debounce]

\* The request is over with the given answer to the provider.
Rejected(r, why) ==
  /\ answer' = [answer EXCEPT ![event[r]] = why]
  /\ at' = [at EXCEPT ![r] = "idle"]
  /\ event' = [event EXCEPT ![r] = NoEvent]

Accepted(r) ==
  /\ answer' = [answer EXCEPT ![event[r]] = "accepted"]
  /\ at' = [at EXCEPT ![r] = "publish"]
  /\ UNCHANGED event

Ends(r) ==
  /\ at' = [at EXCEPT ![r] = "idle"]
  /\ event' = [event EXCEPT ![r] = NoEvent]

Fault == faults < MaxFaults /\ faults' = faults + 1

-----------------------------------------------------------------------------
(* The endpoint                                                            *)

\* The provider delivers an event, for the first time or again.
Receive(r, e) ==
  /\ at[r] = "idle" /\ deliveries[e] < MaxDeliveries
  /\ at' = [at EXCEPT ![r] = "received"]
  /\ event' = [event EXCEPT ![r] = e]
  /\ deliveries' = [deliveries EXCEPT ![e] = @ + 1]
  /\ UNCHANGED <<clock, receipts, lockedUntil, answer, published, faults>>

\* Rules 1 to 6, then the SELECT of rule 7.
CheckDuplicate(r) ==
  /\ at[r] = "received"
  /\ \/ ~Eligible(event[r]) /\ Rejected(r, "ineligible")
     \/ Eligible(event[r]) /\ IsDuplicate(event[r]) /\ Rejected(r, "duplicate")
     \/ /\ Eligible(event[r]) /\ ~IsDuplicate(event[r])
        /\ at' = [at EXCEPT ![r] = "unseen"]
        /\ UNCHANGED <<event, answer>>
  /\ UNCHANGED <<clock, receipts, lockedUntil, deliveries, published, faults>>

\* The SELECT of rule 8.
CheckDebounce(r) ==
  /\ at[r] = "unseen"
  /\ IF IsDebouncing(ConvOf[event[r]])
     THEN Rejected(r, "debounce")
     ELSE /\ at' = [at EXCEPT ![r] = "eligible"]
          /\ UNCHANGED <<event, answer>>
  /\ UNCHANGED <<clock, receipts, lockedUntil, deliveries, published, faults>>

\* A mutant of RecordAccepted: the receipt is not stored.
RecordDebounceOnly(r) ==
  /\ at[r] = "eligible"
  /\ SetDebounce(ConvOf[event[r]])
  /\ Accepted(r)
  /\ UNCHANGED <<clock, receipts, deliveries, published, faults>>

\* record() and set_debounce() in one transaction; the answer to the provider; the
\* job is left to a background task.
RecordAccepted(r) ==
  /\ at[r] = "eligible"
  /\ Record(event[r])
  /\ SetDebounce(ConvOf[event[r]])
  /\ Accepted(r)
  /\ UNCHANGED <<clock, deliveries, published, faults>>

\* A mutant of Publish: the background task does not publish.
PublishNothing(r) ==
  /\ at[r] = "publish"
  /\ Ends(r)
  /\ UNCHANGED <<clock, receipts, lockedUntil, answer, deliveries, published, faults>>

\* _queue_processing_job() in the background task.
Publish(r) ==
  /\ at[r] = "publish"
  /\ published' = [published EXCEPT ![event[r]] = @ + 1]
  /\ Ends(r)
  /\ UNCHANGED <<clock, receipts, lockedUntil, answer, deliveries, faults>>

-----------------------------------------------------------------------------
(* Faults and time                                                         *)

\* A mutant of Degrade: the degraded path accepts every event.
DegradeAcceptsAll(r) ==
  /\ Fault
  /\ at[r] \in {"received", "unseen", "eligible"}
  /\ Accepted(r)
  /\ UNCHANGED <<clock, receipts, lockedUntil, deliveries, published>>

\* The database raises anywhere in the eligibility block: the event is checked
\* again by rules 1 to 6 only.  (A commit that took effect although it raised is
\* RecordAccepted.)
Degrade(r) ==
  /\ Fault
  /\ at[r] \in {"received", "unseen", "eligible"}
  /\ IF Eligible(event[r]) THEN Accepted(r) ELSE Rejected(r, "ineligible")
  /\ UNCHANGED <<clock, receipts, lockedUntil, deliveries, published>>

\* The job is not published: there is no broker connection, the publication raises
\* and the error is only logged, or the API process dies before it.
PublishLost(r) ==
  /\ Fault
  /\ at[r] = "publish"
  /\ Ends(r)
  /\ UNCHANGED <<clock, receipts, lockedUntil, answer, deliveries, published>>

Tick ==
  /\ clock < MaxClock
  /\ clock' = clock + 1
  /\ UNCHANGED <<receipts, lockedUntil, event, at, answer, deliveries, published, faults>>

Step(r) ==
  \/ CheckDuplicate(r)
  \/ CheckDebounce(r)
  \/ RecordAccepted(r)
  \/ Publish(r)

Next ==
  \/ \E r \in Request, e \in Event : Receive(r, e)
  \/ \E r \in Request : Step(r) \/ Degrade(r) \/ PublishLost(r)
  \/ Tick

Spec == Init /\ [][Next]_vars

-----------------------------------------------------------------------------
(* Properties                                                              *)

InFlight(e) == \E r \in Request : event[r] = e

\* No bot, system, outgoing, private or foreign-account event starts the agent,
\* also when the database is down and the endpoint degrades.
IneligibleNeverPublished == \A e \in Event : published[e] > 0 => Eligible(e)

\* An event leads to as many jobs as there are requests that can check it before
\* one of them records it, and one more for each database error: the ledger stops
\* every later redelivery.
DuplicateJobsBounded == \A e \in Event : published[e] <= Cardinality(Request) + faults

\* Every recorded event has its job or still has a request working on it, apart
\* from one event for each fault; the ledger would reject a redelivery of it.
ReceiptsAccountedFor ==
  Cardinality({e \in receipts : published[e] = 0 /\ ~InFlight(e)}) <= faults

\* A message is dropped for the debounce window only in favour of a message of its
\* conversation that was recorded and is processed, unless a fault lost that one.
DebouncedYields ==
  \A e \in Event : answer[e] = "debounce" =>
    \E f \in receipts : /\ ConvOf[f] = ConvOf[e]
                        /\ published[f] > 0 \/ InFlight(f) \/ faults > 0
=============================================================================
