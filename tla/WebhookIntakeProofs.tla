------------------------ MODULE WebhookIntakeProofs ------------------------
(***************************************************************************)
(* For any number of concurrent requests, events, redeliveries and faults:  *)
(* only an event that passes rules 1 to 6 becomes a conversation job; a      *)
(* recorded event has its job, or a request about to publish it, or a fault  *)
(* to show for it; the debounce window drops a message only in favour of a   *)
(* recorded one; and the jobs of one event are bounded by the requests that  *)
(* can race past the ledger and the faults.                                  *)
(***************************************************************************)
EXTENDS WebhookIntake, FiniteSetTheorems, TLAPS

\* The strengthening: a request that got past the rules handles an eligible event,
\* whether the database answered or the endpoint degraded.
PastRulesEligible ==
  \A r \in Request : at[r] \in {"unseen", "eligible", "publish"} => Eligible(event[r])

\* A request at work has an event.
HasEvent == \A r \in Request : at[r] # "idle" => event[r] \in Event

IntakeInv == TypeOK /\ HasEvent

-----------------------------------------------------------------------------

LEMMA IntakeInit == Init => IntakeInv
BY IntakeAssumption DEF Init, IntakeInv, TypeOK, HasEvent

LEMMA IntakeStep == IntakeInv /\ [Next]_vars => IntakeInv'
<1> SUFFICES ASSUME IntakeInv, [Next]_vars PROVE IntakeInv'
  OBVIOUS
<1> USE IntakeAssumption
<1>1. ASSUME NEW r \in Request, NEW e \in Event, Receive(r, e) PROVE IntakeInv'
  BY <1>1 DEF Receive, IntakeInv, TypeOK, HasEvent
<1>2. ASSUME NEW r \in Request, CheckDuplicate(r) PROVE IntakeInv'
  <2>1. event[r] \in Event
    BY <1>2 DEF CheckDuplicate, IntakeInv, HasEvent
  <2>2. \/ Rejected(r, "ineligible") \/ Rejected(r, "duplicate")
        \/ at' = [at EXCEPT ![r] = "unseen"] /\ UNCHANGED <<event, answer>>
    BY <1>2 DEF CheckDuplicate
  <2>3. QED
    BY <1>2, <2>1, <2>2 DEF CheckDuplicate, Rejected, IntakeInv, TypeOK, HasEvent
<1>3. ASSUME NEW r \in Request, CheckDebounce(r) PROVE IntakeInv'
  <2>1. event[r] \in Event
    BY <1>3 DEF CheckDebounce, IntakeInv, HasEvent
  <2>2. QED
    BY <1>3, <2>1 DEF CheckDebounce, Rejected, IntakeInv, TypeOK, HasEvent
<1>4. ASSUME NEW r \in Request, RecordAccepted(r) PROVE IntakeInv'
  <2>1. event[r] \in Event /\ ConvOf[event[r]] \in Conv
    BY <1>4 DEF RecordAccepted, IntakeInv, HasEvent
  <2>2. receipts' \subseteq Event /\ lockedUntil' \in [Conv -> Nat]
    BY <1>4, <2>1 DEF RecordAccepted, Record, SetDebounce, IntakeInv, TypeOK
  <2>3. QED
    BY <1>4, <2>1, <2>2 DEF RecordAccepted, Accepted, IntakeInv, TypeOK, HasEvent
<1>5. ASSUME NEW r \in Request, Publish(r) PROVE IntakeInv'
  BY <1>5 DEF Publish, Ends, IntakeInv, TypeOK, HasEvent
<1>6. ASSUME NEW r \in Request, Degrade(r) PROVE IntakeInv'
  <2>1. event[r] \in Event
    BY <1>6 DEF Degrade, IntakeInv, HasEvent
  <2>2. Accepted(r) \/ Rejected(r, "ineligible")
    BY <1>6 DEF Degrade
  <2>3. QED
    BY <1>6, <2>1, <2>2 DEF Degrade, Fault, Accepted, Rejected, IntakeInv, TypeOK, HasEvent
<1>7. ASSUME NEW r \in Request, PublishLost(r) PROVE IntakeInv'
  BY <1>7 DEF PublishLost, Fault, Ends, IntakeInv, TypeOK, HasEvent
<1>8. ASSUME Tick \/ UNCHANGED vars PROVE IntakeInv'
  BY <1>8 DEF Tick, vars, IntakeInv, TypeOK, HasEvent
<1>9. QED
  BY <1>1, <1>2, <1>3, <1>4, <1>5, <1>6, <1>7, <1>8 DEF Next, Step

\* Requests, ledger and windows keep their types, also when the database fails.
THEOREM IntakeTypeCorrect == Spec => []TypeOK
<1>1. IntakeInv => TypeOK
  BY DEF IntakeInv
<1>2. QED
  BY <1>1, IntakeInit, IntakeStep, PTL DEF Spec

-----------------------------------------------------------------------------
(* Only eligible events become jobs                                        *)

LEMMA EligibleStep ==
  IntakeInv /\ PastRulesEligible /\ IneligibleNeverPublished /\ [Next]_vars
    => PastRulesEligible' /\ IneligibleNeverPublished'
<1> SUFFICES ASSUME IntakeInv, PastRulesEligible, IneligibleNeverPublished, [Next]_vars
             PROVE  PastRulesEligible' /\ IneligibleNeverPublished'
  OBVIOUS
<1> USE DEF Eligible
<1>1. ASSUME NEW r \in Request, CheckDuplicate(r) \/ CheckDebounce(r) \/ RecordAccepted(r) \/ Degrade(r)
      PROVE  /\ UNCHANGED published
             /\ at'[r] \in {"unseen", "eligible", "publish"} => Eligible(event'[r])
             /\ \A q \in Request \ {r} : at'[q] = at[q] /\ event'[q] = event[q]
  <2>1. CASE CheckDuplicate(r)
    BY <2>1 DEF CheckDuplicate, Rejected, IntakeInv, TypeOK
  <2>2. CASE CheckDebounce(r)
    BY <2>2 DEF CheckDebounce, Rejected, IntakeInv, TypeOK, PastRulesEligible
  <2>3. CASE RecordAccepted(r)
    BY <2>3 DEF RecordAccepted, Accepted, IntakeInv, TypeOK, PastRulesEligible
  <2>4. CASE Degrade(r)
    BY <2>4 DEF Degrade, Accepted, Rejected, IntakeInv, TypeOK
  <2>5. QED
    BY <1>1, <2>1, <2>2, <2>3, <2>4
<1>2. ASSUME NEW r \in Request, Publish(r) \/ PublishLost(r)
      PROVE  PastRulesEligible' /\ IneligibleNeverPublished'
  <2>1. PastRulesEligible'
    BY <1>2 DEF Publish, PublishLost, Ends, PastRulesEligible, IntakeInv, TypeOK
  <2>2. Publish(r) => Eligible(event[r])
    BY DEF Publish, PastRulesEligible
  <2>3. IneligibleNeverPublished'
    BY <1>2, <2>2 DEF Publish, PublishLost, IneligibleNeverPublished, IntakeInv, TypeOK
  <2>4. QED
    BY <2>1, <2>3
<1>3. ASSUME NEW r \in Request, NEW e \in Event, Receive(r, e)
      PROVE  PastRulesEligible' /\ IneligibleNeverPublished'
  BY <1>3 DEF Receive, PastRulesEligible, IneligibleNeverPublished, IntakeInv, TypeOK
<1>4. ASSUME Tick \/ UNCHANGED vars PROVE PastRulesEligible' /\ IneligibleNeverPublished'
  BY <1>4 DEF Tick, vars, PastRulesEligible, IneligibleNeverPublished
<1>5. ASSUME NEW r \in Request, CheckDuplicate(r) \/ CheckDebounce(r) \/ RecordAccepted(r) \/ Degrade(r)
      PROVE  PastRulesEligible' /\ IneligibleNeverPublished'
  BY <1>1, <1>5 DEF PastRulesEligible, IneligibleNeverPublished
<1>6. QED
  BY <1>2, <1>3, <1>4, <1>5 DEF Next, Step

\* No bot, system, outgoing, private or foreign-account event is ever published as a
\* job, for any number of requests in flight and with the database failing at any
\* point of the eligibility block (receive_chatwoot_webhook).
THEOREM IntakeIneligibleNeverPublished == Spec => []IneligibleNeverPublished
<1>1. Init => PastRulesEligible /\ IneligibleNeverPublished
  BY DEF Init, PastRulesEligible, IneligibleNeverPublished
<1>2. QED
  BY <1>1, IntakeInit, IntakeStep, EligibleStep, PTL DEF Spec

-----------------------------------------------------------------------------
(* What a step does to the ledger, the windows and the jobs                *)

\* Some background task is about to publish a job for e.
AtPublish(e) == \E r \in Request : event[r] = e /\ at[r] = "publish"

\* A step of request r before its background task: it stays in front of it, ends
\* with a refusal, or hands its event to the task.
LEMMA BeforePublish ==
  ASSUME IntakeInv, NEW r \in Request,
         CheckDuplicate(r) \/ CheckDebounce(r) \/ RecordAccepted(r) \/ Degrade(r)
  PROVE  /\ event[r] \in Event
         /\ at[r] \in {"received", "unseen", "eligible"}
         /\ UNCHANGED <<deliveries, published, clock>>
         /\ \A q \in Request \ {r} : at'[q] = at[q] /\ event'[q] = event[q]
         /\ \/ at'[r] = "idle" /\ event'[r] = NoEvent
            \/ at'[r] \in {"unseen", "eligible", "publish"} /\ event'[r] = event[r]
<1>1. event[r] \in Event /\ at[r] \in {"received", "unseen", "eligible"}
  BY DEF CheckDuplicate, CheckDebounce, RecordAccepted, Degrade, IntakeInv, HasEvent
<1>2. CASE CheckDuplicate(r)
  BY <1>1, <1>2 DEF CheckDuplicate, Rejected, IntakeInv, TypeOK
<1>3. CASE CheckDebounce(r)
  BY <1>1, <1>3 DEF CheckDebounce, Rejected, IntakeInv, TypeOK
<1>4. CASE RecordAccepted(r)
  BY <1>1, <1>4 DEF RecordAccepted, Accepted, IntakeInv, TypeOK
<1>5. CASE Degrade(r)
  BY <1>1, <1>5 DEF Degrade, Accepted, Rejected, IntakeInv, TypeOK
<1>6. QED
  BY <1>2, <1>3, <1>4, <1>5

\* The background task is over: its request is idle, all others are where they were.
LEMMA AfterPublish ==
  ASSUME IntakeInv, NEW r \in Request, Publish(r) \/ PublishLost(r)
  PROVE  /\ event[r] \in Event /\ at[r] = "publish"
         /\ at'[r] = "idle" /\ event'[r] = NoEvent
         /\ \A q \in Request \ {r} : at'[q] = at[q] /\ event'[q] = event[q]
         /\ UNCHANGED <<receipts, lockedUntil, answer>>
         /\ Publish(r) => /\ published' = [published EXCEPT ![event[r]] = @ + 1]
                          /\ faults' = faults
         /\ PublishLost(r) => published' = published /\ faults' = faults + 1
<1>1. CASE Publish(r)
  BY <1>1 DEF Publish, PublishLost, Ends, IntakeInv, TypeOK, HasEvent
<1>2. CASE PublishLost(r)
  BY <1>2 DEF Publish, PublishLost, Fault, Ends, IntakeInv, TypeOK, HasEvent
<1>3. QED
  BY <1>1, <1>2

\* The ledger, the jobs and the faults only grow, and a recorded event that has a job or
\* a task about to publish it keeps one of them unless the step is a fault.
LEMMA StepEffects ==
  ASSUME IntakeInv, [Next]_vars
  PROVE  /\ receipts \subseteq receipts' /\ faults <= faults'
         /\ \A e \in Event : published[e] <= published'[e]
         /\ \A e \in Event : published[e] > 0 \/ AtPublish(e)
              => published'[e] > 0 \/ AtPublish(e)' \/ faults' > faults
<1> USE IntakeAssumption
<1>1. ASSUME NEW r \in Request, NEW e \in Event, Receive(r, e)
      PROVE  /\ receipts \subseteq receipts' /\ faults <= faults'
             /\ published' = published /\ \A f \in Event : AtPublish(f) => AtPublish(f)'
  <2>1. at[r] = "idle" /\ UNCHANGED <<receipts, published, faults>>
    BY <1>1 DEF Receive
  <2>2. \A q \in Request \ {r} : at'[q] = at[q] /\ event'[q] = event[q]
    BY <1>1 DEF Receive, IntakeInv, TypeOK
  <2>3. QED
    BY <2>1, <2>2 DEF AtPublish, IntakeInv, TypeOK
<1>2. ASSUME NEW r \in Request, CheckDuplicate(r) \/ CheckDebounce(r) \/ RecordAccepted(r) \/ Degrade(r)
      PROVE  /\ receipts \subseteq receipts' /\ faults <= faults'
             /\ published' = published /\ \A f \in Event : AtPublish(f) => AtPublish(f)'
  <2>1. receipts \subseteq receipts'
    BY <1>2 DEF CheckDuplicate, CheckDebounce, RecordAccepted, Record, Degrade
  <2>2. faults <= faults'
    BY <1>2 DEF CheckDuplicate, CheckDebounce, RecordAccepted, Degrade, Fault, IntakeInv, TypeOK
  <2>3. QED
    BY <1>2, <2>1, <2>2, BeforePublish DEF AtPublish
<1>3. ASSUME NEW r \in Request, Publish(r) \/ PublishLost(r)
      PROVE  /\ receipts \subseteq receipts' /\ faults <= faults'
             /\ \A e \in Event : published[e] <= published'[e]
             /\ \A e \in Event : published[e] > 0 \/ AtPublish(e)
                  => published'[e] > 0 \/ AtPublish(e)' \/ faults' > faults
  <2>1. \A e \in Event : published[e] <= published'[e]
    BY <1>3, AfterPublish DEF IntakeInv, TypeOK
  <2>2. receipts \subseteq receipts' /\ faults <= faults'
    BY <1>3, AfterPublish DEF IntakeInv, TypeOK
  <2>3. Publish(r) => published'[event[r]] > 0
    BY AfterPublish DEF IntakeInv, TypeOK
  <2>4. PublishLost(r) => faults' > faults
    BY AfterPublish DEF IntakeInv, TypeOK
  <2>5. ASSUME NEW e \in Event, e # event[r], AtPublish(e) PROVE AtPublish(e)'
    BY <1>3, <2>5, AfterPublish DEF AtPublish
  <2>6. ASSUME NEW e \in Event, published[e] > 0 PROVE published'[e] > 0
    BY <2>1, <2>6, IntakeStep DEF IntakeInv, TypeOK
  <2>7. QED
    BY <1>3, <2>1, <2>2, <2>3, <2>4, <2>5, <2>6
<1>4. ASSUME Tick \/ UNCHANGED vars
      PROVE  /\ receipts \subseteq receipts' /\ faults <= faults'
             /\ published' = published /\ \A f \in Event : AtPublish(f) => AtPublish(f)'
  BY <1>4 DEF Tick, vars, AtPublish, IntakeInv, TypeOK
<1>5. ASSUME published' = published, \A f \in Event : AtPublish(f) => AtPublish(f)'
      PROVE  /\ \A e \in Event : published[e] <= published'[e]
             /\ \A e \in Event : published[e] > 0 \/ AtPublish(e)
                  => published'[e] > 0 \/ AtPublish(e)' \/ faults' > faults
  BY <1>5 DEF IntakeInv, TypeOK
<1>6. QED
  BY <1>1, <1>2, <1>3, <1>4, <1>5 DEF Next, Step

-----------------------------------------------------------------------------
(* The debounce window yields to a recorded message                        *)

\* A recorded message of the conversation is processed, or a fault may have lost it.
Backed(c) ==
  \E f \in receipts : /\ ConvOf[f] = c
                      /\ published[f] > 0 \/ AtPublish(f) \/ faults > 0

\* The strengthening: a window is opened only together with a receipt, and what it is
\* opened for stays in sight for as long as anyone may be refused because of it.
WindowsBacked == \A c \in Conv : lockedUntil[c] > 0 => Backed(c)

RefusedBacked == \A e \in Event : answer[e] = "debounce" => Backed(ConvOf[e])

LEMMA BackedKept ==
  ASSUME IntakeInv, [Next]_vars, NEW c, Backed(c)
  PROVE  Backed(c)'
<1>1. PICK f \in receipts : ConvOf[f] = c /\ (published[f] > 0 \/ AtPublish(f) \/ faults > 0)
  BY DEF Backed
<1>2. f \in Event /\ f \in receipts' /\ faults \in Nat /\ faults' \in Nat
  BY StepEffects, IntakeStep DEF IntakeInv, TypeOK
<1>3. published'[f] > 0 \/ AtPublish(f)' \/ faults' > 0
  BY <1>1, <1>2, StepEffects
<1>4. QED
  BY <1>1, <1>2, <1>3 DEF Backed

LEMMA DebounceStep ==
  IntakeInv /\ WindowsBacked /\ RefusedBacked /\ [Next]_vars => WindowsBacked' /\ RefusedBacked'
<1> SUFFICES ASSUME IntakeInv, WindowsBacked, RefusedBacked, [Next]_vars
             PROVE  WindowsBacked' /\ RefusedBacked'
  OBVIOUS
<1> USE IntakeAssumption
<1>1. ASSUME NEW c \in Conv, lockedUntil'[c] > 0, ~(lockedUntil[c] > 0) PROVE Backed(c)'
  <2>1. PICK r \in Request : RecordAccepted(r)
    BY <1>1 DEF Next, Step, Receive, CheckDuplicate, CheckDebounce, Publish, Degrade,
      PublishLost, Tick, vars
  <2>2. event[r] \in Event /\ event'[r] = event[r] /\ at'[r] = "publish"
    BY <2>1 DEF RecordAccepted, Accepted, IntakeInv, TypeOK, HasEvent
  <2>3. c = ConvOf[event[r]]
    BY <1>1, <2>1, <2>2 DEF RecordAccepted, SetDebounce, IntakeInv, TypeOK
  <2>4. PICK e \in Event : e = event[r]
    BY <2>2
  <2>5. e \in receipts' /\ AtPublish(e)'
    BY <2>1, <2>2, <2>4 DEF RecordAccepted, Record, AtPublish
  <2>6. QED
    BY <2>3, <2>4, <2>5 DEF Backed
<1>2. ASSUME NEW e \in Event, answer'[e] = "debounce", answer[e] # "debounce"
      PROVE  Backed(ConvOf[e])
  <2>1. PICK r \in Request : CheckDuplicate(r) \/ CheckDebounce(r) \/ RecordAccepted(r) \/ Degrade(r)
    BY <1>2 DEF Next, Step, Receive, Publish, PublishLost, Tick, vars
  <2>2. event[r] \in Event
    BY <2>1, BeforePublish
  <2>3. CheckDebounce(r) /\ IsDebouncing(ConvOf[event[r]]) /\ e = event[r]
    BY <1>2, <2>1, <2>2 DEF CheckDuplicate, CheckDebounce, RecordAccepted, Degrade, Rejected,
      Accepted, IntakeInv, TypeOK
  <2>4. lockedUntil[ConvOf[e]] > 0 /\ ConvOf[e] \in Conv
    BY <2>3 DEF IsDebouncing, IntakeInv, TypeOK
  <2>5. QED
    BY <2>4 DEF WindowsBacked
<1>3. WindowsBacked'
  BY <1>1, BackedKept DEF WindowsBacked
<1>4. RefusedBacked'
  BY <1>2, BackedKept DEF RefusedBacked
<1>5. QED
  BY <1>3, <1>4

\* A message refused for the debounce window (rule 8) gave way to a recorded message of
\* its conversation that has its job or a request at work on it, unless a fault lost it:
\* for any interleaving of requests, whose SELECTs all read before any of them writes.
THEOREM IntakeDebouncedYields == Spec => []DebouncedYields
<1>1. Init => WindowsBacked /\ RefusedBacked
  BY DEF Init, WindowsBacked, RefusedBacked
<1>2. RefusedBacked => DebouncedYields
  <2> SUFFICES ASSUME NEW e \in Event, Backed(ConvOf[e])
               PROVE  \E f \in receipts : /\ ConvOf[f] = ConvOf[e]
                                          /\ published[f] > 0 \/ InFlight(f) \/ faults > 0
    BY DEF RefusedBacked, DebouncedYields
  <2>1. QED
    BY DEF Backed, AtPublish, InFlight
<1>3. QED
  BY <1>1, <1>2, IntakeInit, IntakeStep, DebounceStep, PTL DEF Spec

-----------------------------------------------------------------------------
(* Recorded events and their jobs                                          *)

\* The recorded events that will get no job.  A request that handles a redelivery of
\* one of them does not count: the ledger makes it refuse.
Missing == {e \in receipts : published[e] = 0 /\ ~AtPublish(e)}

MissingFaulted == IsFiniteSet(Missing) /\ Cardinality(Missing) <= faults

LEMMA MissingStep == IntakeInv /\ MissingFaulted /\ [Next]_vars => MissingFaulted'
<1> SUFFICES ASSUME IntakeInv, MissingFaulted, [Next]_vars PROVE MissingFaulted'
  OBVIOUS
<1>1. IntakeInv' /\ faults \in Nat /\ faults' \in Nat /\ faults <= faults'
  BY IntakeStep, StepEffects DEF IntakeInv, TypeOK
<1>2. ASSUME NEW r \in Request, RecordAccepted(r) PROVE Missing' \subseteq Missing
  <2>1. event[r] \in Event /\ event'[r] = event[r] /\ at'[r] = "publish"
    BY <1>2 DEF RecordAccepted, Accepted, IntakeInv, TypeOK, HasEvent
  <2>2. \A e \in Event : e = event[r] => AtPublish(e)'
    BY <2>1 DEF AtPublish
  <2>3. receipts' = receipts \cup {event[r]} /\ published' = published /\ faults' = faults
    BY <1>2 DEF RecordAccepted, Record
  <2>4. \A e \in receipts : AtPublish(e) => AtPublish(e)'
    BY <1>2, BeforePublish DEF AtPublish
  <2>5. QED
    BY <2>1, <2>2, <2>3, <2>4 DEF Missing
<1>3. ASSUME NEW r \in Request, PublishLost(r)
      PROVE  Missing' \subseteq Missing \cup {event[r]} /\ faults' = faults + 1
  BY <1>3, AfterPublish DEF Missing, AtPublish
<1>4. ASSUME receipts' = receipts, ~\E r \in Request : PublishLost(r)
      PROVE  Missing' \subseteq Missing
  <2> SUFFICES ASSUME NEW e \in receipts, published'[e] = 0, ~AtPublish(e)'
               PROVE  published[e] = 0 /\ ~AtPublish(e)
    BY <1>4 DEF Missing
  <2>1. e \in Event /\ published[e] \in Nat
    BY DEF IntakeInv, TypeOK
  <2>2. published[e] = 0
    BY <2>1, StepEffects
  <2>3. SUFFICES ASSUME AtPublish(e) PROVE FALSE
    BY <2>2
  <2>4. PICK q \in Request : event[q] = e /\ at[q] = "publish"
    BY <2>3 DEF AtPublish
  <2>5. ~(event'[q] = e /\ at'[q] = "publish")
    BY DEF AtPublish
  <2>6. Publish(q)
    <3>1. ASSUME NEW r \in Request, CheckDuplicate(r) \/ CheckDebounce(r) \/ RecordAccepted(r) \/ Degrade(r)
          PROVE  FALSE
      BY <2>4, <2>5, <3>1, BeforePublish
    <3>2. ASSUME NEW r \in Request, NEW f \in Event, Receive(r, f) PROVE FALSE
      BY <2>4, <2>5, <3>2 DEF Receive, IntakeInv, TypeOK
    <3>3. ASSUME NEW r \in Request, Publish(r), r # q PROVE FALSE
      BY <2>4, <2>5, <3>3, AfterPublish
    <3>4. ~(Tick \/ UNCHANGED vars)
      BY <2>4, <2>5 DEF Tick, vars
    <3>5. QED
      BY <1>4, <3>1, <3>2, <3>3, <3>4 DEF Next, Step
  <2>7. QED
    BY <2>1, <2>2, <2>4, <2>6, AfterPublish DEF IntakeInv, TypeOK
<1>5. \/ Missing' \subseteq Missing
      \/ \E x : Missing' \subseteq Missing \cup {x} /\ faults' = faults + 1
  <2>1. \/ receipts' = receipts
        \/ \E r \in Request : RecordAccepted(r)
    BY DEF Next, Step, Receive, CheckDuplicate, CheckDebounce, Publish, Degrade, PublishLost,
      Tick, vars
  <2>2. QED
    BY <1>2, <1>3, <1>4, <2>1
<1>6. CASE Missing' \subseteq Missing
  <2>1. IsFiniteSet(Missing') /\ Cardinality(Missing') <= Cardinality(Missing)
    BY <1>6, FS_Subset DEF MissingFaulted
  <2>2. Cardinality(Missing) \in Nat /\ Cardinality(Missing') \in Nat
    BY <2>1, FS_CardinalityType DEF MissingFaulted
  <2>3. QED
    BY <1>1, <2>1, <2>2 DEF MissingFaulted
<1>7. ASSUME NEW x, Missing' \subseteq Missing \cup {x}, faults' = faults + 1
      PROVE  MissingFaulted'
  <2>1. /\ IsFiniteSet(Missing \cup {x}) /\ Cardinality(Missing) \in Nat
        /\ Cardinality(Missing \cup {x}) \in Nat
        /\ Cardinality(Missing \cup {x}) <= Cardinality(Missing) + 1
    BY FS_AddElement, FS_CardinalityType DEF MissingFaulted
  <2>2. IsFiniteSet(Missing') /\ Cardinality(Missing') <= Cardinality(Missing \cup {x})
    BY <1>7, <2>1, FS_Subset
  <2>3. Cardinality(Missing') \in Nat
    BY <2>2, FS_CardinalityType
  <2>4. QED
    BY <1>1, <1>7, <2>1, <2>2, <2>3 DEF MissingFaulted
<1>8. QED
  BY <1>5, <1>6, <1>7

\* The ledger refuses every redelivery of a recorded event, so a job it never published
\* is lost: at most one for each fault (receive_chatwoot_webhook answers before the
\* background task publishes).
THEOREM IntakeReceiptsAccountedFor == Spec => []ReceiptsAccountedFor
<1>1. Init => MissingFaulted
  <2>1. Init => Missing = {}
    BY DEF Init, Missing
  <2>2. QED
    BY <2>1, FS_EmptySet DEF Init, MissingFaulted
<1>2. IntakeInv /\ MissingFaulted => ReceiptsAccountedFor
  <2> SUFFICES ASSUME IntakeInv, MissingFaulted PROVE ReceiptsAccountedFor
    OBVIOUS
  <2> DEFINE Unpublished == {e \in receipts : published[e] = 0 /\ ~InFlight(e)}
  <2>1. Unpublished \subseteq Missing
    BY DEF Missing, AtPublish, InFlight
  <2>2. IsFiniteSet(Unpublished) /\ Cardinality(Unpublished) <= Cardinality(Missing)
    BY <2>1, FS_Subset DEF MissingFaulted
  <2>3. Cardinality(Unpublished) \in Nat /\ Cardinality(Missing) \in Nat /\ faults \in Nat
    BY <2>2, FS_CardinalityType DEF MissingFaulted, IntakeInv, TypeOK
  <2>4. QED
    BY <2>2, <2>3 DEF MissingFaulted, ReceiptsAccountedFor
<1>3. QED
  BY <1>1, <1>2, IntakeInit, IntakeStep, MissingStep, PTL DEF Spec

-----------------------------------------------------------------------------
(* The jobs of one event                                                   *)

\* The requests whose task is about to publish a job for e, and all that the ledger let
\* pass with e.
Publishing(e) == {r \in Request : event[r] = e /\ at[r] = "publish"}

Passed(e) == {r \in Request : event[r] = e /\ at[r] \in {"unseen", "eligible", "publish"}}

\* The strengthening.  Before e is recorded only a degraded request can have reached
\* its task, and each of them took a fault.  From then on the ledger lets nobody else
\* pass: the requests that passed before are at most all, and only a fault adds one.
JobsBounded ==
  \A e \in Event :
    /\ e \notin receipts => published[e] + Cardinality(Publishing(e)) <= faults
    /\ e \in receipts => published[e] + Cardinality(Passed(e)) <= Cardinality(Request) + faults

\* A request counts once: subsets of Request are finite and no larger.
LEMMA RequestsFinite ==
  ASSUME NEW S \in SUBSET Request
  PROVE  /\ IsFiniteSet(S) /\ Cardinality(S) \in Nat /\ Cardinality(Request) \in Nat
         /\ Cardinality(S) <= Cardinality(Request)
         /\ \A T \in SUBSET S : Cardinality(T) \in Nat /\ Cardinality(T) <= Cardinality(S)
BY IntakeAssumption, FS_Subset, FS_CardinalityType

\* What a step means for one event: nobody new passes with it; or a fault lets one
\* request pass; or the task of a request that passed publishes; or it is recorded.
LEMMA StepForEvent ==
  ASSUME IntakeInv, [Next]_vars, NEW e \in Event
  PROVE  \/ /\ e \in receipts' <=> e \in receipts
            /\ published'[e] = published[e] /\ faults <= faults'
            /\ e \notin receipts => Publishing(e)' \subseteq Publishing(e)
            /\ e \in receipts => Passed(e)' \subseteq Passed(e)
         \/ /\ e \in receipts' <=> e \in receipts
            /\ published'[e] = published[e] /\ faults' = faults + 1
            /\ \E r \in Request : /\ Publishing(e)' \subseteq Publishing(e) \cup {r}
                                  /\ Passed(e)' \subseteq Passed(e) \cup {r}
         \/ /\ e \in receipts' <=> e \in receipts
            /\ published'[e] = published[e] + 1 /\ faults' = faults
            /\ \E r \in Publishing(e) : /\ Publishing(e)' \subseteq Publishing(e) \ {r}
                                        /\ Passed(e)' \subseteq Passed(e) \ {r}
         \/ /\ e \notin receipts /\ e \in receipts'
            /\ published'[e] = published[e] /\ faults' = faults
<1> USE DEF Publishing, Passed
<1>1. ASSUME NEW r \in Request, NEW f \in Event, Receive(r, f)
      PROVE  /\ UNCHANGED <<receipts, published, faults>>
             /\ Publishing(e)' \subseteq Publishing(e) /\ Passed(e)' \subseteq Passed(e)
  BY <1>1 DEF Receive, IntakeInv, TypeOK
<1>2. ASSUME NEW r \in Request, CheckDuplicate(r)
      PROVE  /\ UNCHANGED <<receipts, published, faults>>
             /\ Publishing(e)' \subseteq Publishing(e)
             /\ e \in receipts => Passed(e)' \subseteq Passed(e)
  <2>1. UNCHANGED <<receipts, published, faults>> /\ at'[r] # "publish"
    BY <1>2 DEF CheckDuplicate, Rejected, IntakeInv, TypeOK
  <2>2. at'[r] = "idle" \/ event[r] \notin receipts
    BY <1>2 DEF CheckDuplicate, Rejected, IsDuplicate, IntakeInv, TypeOK
  <2>3. QED
    BY <1>2, <2>1, <2>2, BeforePublish
<1>3. ASSUME NEW r \in Request, CheckDebounce(r)
      PROVE  /\ UNCHANGED <<receipts, published, faults>>
             /\ Publishing(e)' \subseteq Publishing(e) /\ Passed(e)' \subseteq Passed(e)
  <2>1. UNCHANGED <<receipts, published, faults>> /\ at'[r] # "publish" /\ at[r] = "unseen"
    BY <1>3 DEF CheckDebounce, Rejected, IntakeInv, TypeOK
  <2>2. QED
    BY <1>3, <2>1, BeforePublish DEF IntakeInv, TypeOK
<1>4. ASSUME NEW r \in Request, RecordAccepted(r)
      PROVE  \/ /\ e \in receipts' <=> e \in receipts
                /\ UNCHANGED <<published, faults>>
                /\ e \notin receipts => Publishing(e)' \subseteq Publishing(e)
                /\ Passed(e)' \subseteq Passed(e)
             \/ e \notin receipts /\ e \in receipts' /\ UNCHANGED <<published, faults>>
  <2>1. /\ receipts' = receipts \cup {event[r]} /\ UNCHANGED <<published, faults>>
        /\ at[r] = "eligible"
    BY <1>4 DEF RecordAccepted, Record
  <2>2. Passed(e)' \subseteq Passed(e)
    BY <1>4, <2>1, BeforePublish DEF IntakeInv, TypeOK, HasEvent
  <2>3. e # event[r] => Publishing(e)' \subseteq Publishing(e)
    BY <1>4, <2>1, BeforePublish DEF IntakeInv, TypeOK, HasEvent
  <2>4. QED
    BY <2>1, <2>2, <2>3
<1>5. ASSUME NEW r \in Request, Degrade(r)
      PROVE  /\ UNCHANGED <<receipts, published>> /\ faults' = faults + 1
             /\ Publishing(e)' \subseteq Publishing(e) \cup {r}
             /\ Passed(e)' \subseteq Passed(e) \cup {r}
  <2>1. UNCHANGED <<receipts, published>> /\ faults' = faults + 1
    BY <1>5 DEF Degrade, Fault
  <2>2. QED
    BY <1>5, <2>1, BeforePublish
<1>6. ASSUME NEW r \in Request, PublishLost(r)
      PROVE  /\ UNCHANGED <<receipts, published>> /\ faults' = faults + 1
             /\ Publishing(e)' \subseteq Publishing(e) /\ Passed(e)' \subseteq Passed(e)
  BY <1>6, AfterPublish
<1>7. ASSUME NEW r \in Request, Publish(r)
      PROVE  /\ UNCHANGED <<receipts, faults>>
             /\ Publishing(e)' \subseteq Publishing(e) \ {r} /\ Passed(e)' \subseteq Passed(e) \ {r}
             /\ IF e = event[r] THEN published'[e] = published[e] + 1 /\ r \in Publishing(e)
                ELSE published'[e] = published[e]
  <2>1. UNCHANGED <<receipts, faults>>
    BY <1>7, AfterPublish
  <2>2. Publishing(e)' \subseteq Publishing(e) \ {r} /\ Passed(e)' \subseteq Passed(e) \ {r}
    BY <1>7, AfterPublish
  <2>3. IF e = event[r] THEN published'[e] = published[e] + 1 /\ r \in Publishing(e)
        ELSE published'[e] = published[e]
    BY <1>7, AfterPublish DEF IntakeInv, TypeOK
  <2>4. QED
    BY <2>1, <2>2, <2>3
<1>8. ASSUME Tick \/ UNCHANGED vars
      PROVE  /\ UNCHANGED <<receipts, published, faults>>
             /\ Publishing(e)' \subseteq Publishing(e) /\ Passed(e)' \subseteq Passed(e)
  BY <1>8 DEF Tick, vars
<1>9. faults \in Nat
  BY DEF IntakeInv, TypeOK
<1> HIDE DEF Publishing, Passed
<1>10. QED
  <2>1. ASSUME NEW r \in Request, Step(r) \/ Degrade(r) \/ PublishLost(r)
        PROVE  \/ CheckDuplicate(r) \/ CheckDebounce(r) \/ RecordAccepted(r) \/ Degrade(r)
               \/ Publish(r) \/ PublishLost(r)
    BY <2>1 DEF Step
  <2>2. CASE \E r \in Request : CheckDuplicate(r) \/ CheckDebounce(r)
    BY <1>2, <1>3, <1>9, <2>2
  <2>3. CASE \E r \in Request : RecordAccepted(r)
    BY <1>4, <1>9, <2>3
  <2>4. CASE \E r \in Request : Degrade(r) \/ PublishLost(r)
    BY <1>5, <1>6, <1>9, <2>4
  <2>5. CASE \E r \in Request : Publish(r)
    BY <1>7, <1>9, <2>5
  <2>6. CASE Tick \/ UNCHANGED vars \/ \E r \in Request, f \in Event : Receive(r, f)
    BY <1>1, <1>8, <1>9, <2>6
  <2>7. QED
    BY <2>1, <2>2, <2>3, <2>4, <2>5, <2>6 DEF Next

LEMMA JobsBoundedStep == IntakeInv /\ JobsBounded /\ [Next]_vars => JobsBounded'
<1> SUFFICES ASSUME IntakeInv, JobsBounded, [Next]_vars, NEW e \in Event
             PROVE  /\ e \notin receipts' =>
                         published'[e] + Cardinality(Publishing(e)') <= faults'
                    /\ e \in receipts' =>
                         published'[e] + Cardinality(Passed(e)') <= Cardinality(Request) + faults'
  BY DEF JobsBounded
<1> DEFINE P == Publishing(e)  PN == Publishing(e)'
           Q == Passed(e)      QN == Passed(e)'
           NReq == Cardinality(Request)
<1>1. /\ published[e] \in Nat /\ faults \in Nat /\ published'[e] \in Nat /\ faults' \in Nat
      /\ e \notin receipts => published[e] + Cardinality(P) <= faults
      /\ e \in receipts => published[e] + Cardinality(Q) <= NReq + faults
  BY IntakeStep DEF IntakeInv, TypeOK, JobsBounded
<1>2. P \in SUBSET Request /\ Q \in SUBSET Request /\ PN \in SUBSET Request /\ QN \in SUBSET Request
  BY DEF Publishing, Passed
<1>3. /\ Cardinality(P) \in Nat /\ Cardinality(Q) \in Nat /\ Cardinality(PN) \in Nat
      /\ Cardinality(QN) \in Nat /\ NReq \in Nat /\ Cardinality(QN) <= NReq
      /\ IsFiniteSet(P) /\ IsFiniteSet(Q)
  BY <1>2, RequestsFinite
<1>4. P \subseteq Q
  BY DEF Publishing, Passed
<1>5. \A S, T \in SUBSET Request : S \subseteq T => Cardinality(S) <= Cardinality(T)
  BY RequestsFinite
<1>6. ASSUME NEW S \in SUBSET Request, NEW r \in Request
      PROVE  /\ Cardinality(S \cup {r}) <= Cardinality(S) + 1
             /\ r \in S => Cardinality(S \ {r}) = Cardinality(S) - 1
  <2>1. IsFiniteSet(S) /\ Cardinality(S) \in Nat
    BY RequestsFinite
  <2>2. Cardinality(S \cup {r}) \in {Cardinality(S), Cardinality(S) + 1}
    BY <2>1, FS_AddElement
  <2>3. r \in S => Cardinality(S \ {r}) = Cardinality(S) - 1
    BY <2>1, FS_RemoveElement
  <2>4. QED
    BY <2>1, <2>2, <2>3
<1> HIDE DEF P, Q, PN, QN, NReq
<1>7. CASE /\ e \in receipts' <=> e \in receipts
           /\ published'[e] = published[e] /\ faults <= faults'
           /\ e \notin receipts => PN \subseteq P
           /\ e \in receipts => QN \subseteq Q
  <2>1. e \notin receipts => Cardinality(PN) <= Cardinality(P)
    BY <1>2, <1>5, <1>7
  <2>2. e \in receipts => Cardinality(QN) <= Cardinality(Q)
    BY <1>2, <1>5, <1>7
  <2>3. QED
    BY <1>1, <1>3, <1>7, <2>1, <2>2 DEF PN, QN, NReq
<1>8. ASSUME NEW r \in Request, e \in receipts' <=> e \in receipts,
             published'[e] = published[e], faults' = faults + 1,
             PN \subseteq P \cup {r}, QN \subseteq Q \cup {r}
      PROVE  /\ e \notin receipts' => published'[e] + Cardinality(PN) <= faults'
             /\ e \in receipts' => published'[e] + Cardinality(QN) <= NReq + faults'
  <2>1. /\ Cardinality(P \cup {r}) \in Nat /\ Cardinality(Q \cup {r}) \in Nat
        /\ Cardinality(P \cup {r}) <= Cardinality(P) + 1
        /\ Cardinality(Q \cup {r}) <= Cardinality(Q) + 1
    BY <1>2, <1>6, RequestsFinite
  <2>2. Cardinality(PN) <= Cardinality(P \cup {r}) /\ Cardinality(QN) <= Cardinality(Q \cup {r})
    BY <1>2, <1>5, <1>8
  <2>3. QED
    BY <1>1, <1>3, <1>8, <2>1, <2>2
<1>9. ASSUME NEW r \in P, e \in receipts' <=> e \in receipts,
             published'[e] = published[e] + 1, faults' = faults,
             PN \subseteq P \ {r}, QN \subseteq Q \ {r}
      PROVE  /\ e \notin receipts' => published'[e] + Cardinality(PN) <= faults'
             /\ e \in receipts' => published'[e] + Cardinality(QN) <= NReq + faults'
  <2>1. r \in Request /\ r \in Q
    BY <1>2, <1>4
  <2>2. Cardinality(P \ {r}) = Cardinality(P) - 1 /\ Cardinality(Q \ {r}) = Cardinality(Q) - 1
    BY <1>2, <1>6, <2>1
  <2>3. Cardinality(PN) <= Cardinality(P \ {r}) /\ Cardinality(QN) <= Cardinality(Q \ {r})
    BY <1>2, <1>5, <1>9
  <2>4. QED
    BY <1>1, <1>3, <1>9, <2>2, <2>3
<1>10. CASE e \notin receipts /\ e \in receipts' /\ published'[e] = published[e] /\ faults' = faults
  BY <1>1, <1>3, <1>10 DEF QN, NReq
<1>11. QED
  <2>1. \/ /\ e \in receipts' <=> e \in receipts
           /\ published'[e] = published[e] /\ faults <= faults'
           /\ e \notin receipts => PN \subseteq P
           /\ e \in receipts => QN \subseteq Q
        \/ /\ e \in receipts' <=> e \in receipts
           /\ published'[e] = published[e] /\ faults' = faults + 1
           /\ \E r \in Request : PN \subseteq P \cup {r} /\ QN \subseteq Q \cup {r}
        \/ /\ e \in receipts' <=> e \in receipts
           /\ published'[e] = published[e] + 1 /\ faults' = faults
           /\ \E r \in P : PN \subseteq P \ {r} /\ QN \subseteq Q \ {r}
        \/ /\ e \notin receipts /\ e \in receipts'
           /\ published'[e] = published[e] /\ faults' = faults
    BY StepForEvent DEF P, PN, Q, QN
  <2>2. QED
    BY <1>7, <1>8, <1>9, <1>10, <2>1 DEF PN, QN, NReq

\* The ledger is read in one transaction and written in another, so requests that
\* handle the same event can all pass: but no more than there are requests, whatever
\* the number of redeliveries, and one more for each fault.
THEOREM IntakeDuplicateJobsBounded == Spec => []DuplicateJobsBounded
<1>1. Init => JobsBounded
  <2> SUFFICES ASSUME Init, NEW e \in Event
               PROVE  e \notin receipts /\ published[e] + Cardinality(Publishing(e)) <= faults
    BY DEF JobsBounded
  <2>1. Publishing(e) = {}
    BY DEF Init, Publishing
  <2>2. QED
    BY <2>1, FS_EmptySet DEF Init
<1>2. IntakeInv /\ JobsBounded => DuplicateJobsBounded
  <2> SUFFICES ASSUME IntakeInv, JobsBounded, NEW e \in Event
               PROVE  published[e] <= Cardinality(Request) + faults
    BY DEF DuplicateJobsBounded
  <2>1. Cardinality(Publishing(e)) \in Nat /\ Cardinality(Passed(e)) \in Nat /\ Cardinality(Request) \in Nat
    BY RequestsFinite DEF Publishing, Passed
  <2>2. QED
    BY <2>1 DEF IntakeInv, TypeOK, JobsBounded
<1>3. QED
  BY <1>1, <1>2, IntakeInit, IntakeStep, JobsBoundedStep, PTL DEF Spec
=============================================================================
