---------------------- MODULE ConversationGraphProofs ----------------------
(***************************************************************************)
(* Proofs about the conversational graph, for any messages, deployments,    *)
(* attachments, texts, tool calls and faults.                               *)
(***************************************************************************)
EXTENDS ConversationGraph, TLAPS

-----------------------------------------------------------------------------
(* The state of a thread                                                   *)

\* A node that completes counts its step and keeps every other key.
LEMMA CountedKeeps ==
  ASSUME NEW s \in GraphState
  PROVE  /\ Counted(s) \in GraphState
         /\ Counted(s).step = s.step + 1
         /\ Counted(s).run = s.run /\ Counted(s).lastUser = s.lastUser
         /\ Counted(s).eligible = s.eligible /\ Counted(s).admin = s.admin
         /\ Counted(s).media = s.media /\ Counted(s).prompt = s.prompt
         /\ Counted(s).response = s.response /\ Counted(s).pending = s.pending
         /\ Counted(s).sent = s.sent /\ Counted(s).error = s.error
         /\ Counted(s).hitl = s.hitl /\ Counted(s).history = s.history
BY DEF Counted, GraphState

\* The history never outgrows its window.
LEMMA RememberKeeps ==
  ASSUME NEW h \in Seq(Replies \cup {NoText}), Len(h) <= LoopWindow,
         NEW t \in Replies \cup {NoText}
  PROVE  Remember(h, t) \in Seq(Replies \cup {NoText}) /\ Len(Remember(h, t)) <= LoopWindow
<1> DEFINE R == Replies \cup {NoText}
           l == Append(h, t)
<1>1. l \in Seq(R) /\ Len(l) = Len(h) + 1 /\ Len(h) \in Nat
  OBVIOUS
<1>2. CASE Len(l) > LoopWindow
  <2>1. l # <<>> /\ Tail(l) \in Seq(R) /\ Len(Tail(l)) = Len(l) - 1
    BY <1>1
  <2>. QED
    BY <1>1, <1>2, <2>1, GraphAssumption DEF Remember
<1>3. CASE ~(Len(l) > LoopWindow)
  BY <1>1, <1>3, GraphAssumption DEF Remember
<1>. QED
  BY <1>2, <1>3

-----------------------------------------------------------------------------
(* The inductive invariant: types and control                              *)

ThreadOK == thread \in GraphState /\ Len(thread.history) <= LoopWindow

PlaceOK ==
  /\ deployment \in Deployments
  /\ node \in Node
  /\ job \in Job \cup {NoJob}
  /\ todo \in SUBSET Call
  /\ queue \in [Job -> {"ready", "working", "done", "dead"}]

FollowUpRow(n) ==
  [job: Job, run: 1..n, asked: 0..23, due: 0..47, at: Nat, optedOut: BOOLEAN]

TablesOK ==
  /\ Responses \subseteq [kind: {"response"}, job: Job, run: 1..runs, text: Replies]
  /\ ToolCommands \subseteq [kind: {"tool"}, job: Job, run: 1..runs, call: Call, at: Nat]
  /\ outbox = Responses \cup ToolCommands
  /\ followUps \subseteq FollowUpRow(runs)
  /\ holds \subseteq 1..runs
  /\ facts \in [FactKey -> 0..runs]
  /\ runs \in Nat /\ llmCalls \in Nat /\ mute \subseteq Job /\ faults \in Nat

LEMMA TypeParts == TypeOK <=> ThreadOK /\ PlaceOK /\ TablesOK
BY DEF TypeOK, ThreadOK, PlaceOK, TablesOK, FollowUpRow

\* A run in progress has a message and the run id it was given.
AtWork == node # "idle" => job \in Job /\ thread.run \in 1..runs

\* The nodes after the agent are not reached with an error, and those that write only
\* without a hold: the edges look at both flags, which no node clears.
PastAgent ==
  /\ node \in {"tool_executor", "guardrails", "hitl", "command_dispatch", "dispatched",
               "memory_writer"} => ~thread.error
  /\ node \in {"tool_executor", "guardrails", "command_dispatch", "dispatched",
               "memory_writer"} => ~thread.hitl

GraphInv == TypeOK /\ AtWork /\ PastAgent

\* What a worker finds when the checkpoint is gone is a state of the graph too.
LEMMA SurvivingTyped ==
  /\ NewThread \in GraphState /\ Len(NewThread.history) <= LoopWindow
  /\ ThreadOK => Surviving \in GraphState /\ Len(Surviving.history) <= LoopWindow
<1>1. NewThread \in GraphState /\ Len(NewThread.history) <= LoopWindow
  BY GraphAssumption DEF NewThread, GraphState, Replies
<1>. QED
  BY <1>1 DEF Surviving, ThreadOK

-----------------------------------------------------------------------------
(* What a node does to the thread                                          *)

\* What every node does: it counts its step and keeps the run and the messages.
Stepped(s, t) ==
  t \in GraphState /\ t.step = s.step + 1 /\ t.run = s.run /\ t.lastUser = s.lastUser

\* What most nodes leave alone.
SameFlags(s, t) == t.sent = s.sent /\ t.error = s.error /\ t.hitl = s.hitl
SameMedia(s, t) == t.media = s.media /\ t.prompt = s.prompt

\* The node ends with the state s and the edge leads to n: the run goes on there, or
\* it is over and its message acked.
LEMMA GotoMoves ==
  ASSUME PlaceOK, job \in Job, NEW s, NEW n \in (Node \ {"idle"}) \cup {"end"},
         Goto(s, n), UNCHANGED deployment
  PROVE  /\ PlaceOK' /\ thread' = s
         /\ n # "end" => node' = n /\ job' = job /\ queue' = queue /\ todo' = todo
         /\ n = "end" => node' = "idle" /\ job' = NoJob
                         /\ queue' = [queue EXCEPT ![job] = "done"] /\ todo' = {}
<1>1. CASE n = "end"
  BY <1>1 DEF Goto, RunEnds, PlaceOK, Node
<1>2. CASE n # "end"
  BY <1>2 DEF Goto, PlaceOK
<1>. QED
  BY <1>1, <1>2

\* eligibility_node: a command goes to the assistant or nowhere, anything else on.
LEMMA EligibilityDoes ==
  ASSUME TypeOK, AtWork, Eligibility
  PROVE  /\ PlaceOK' /\ Stepped(thread, thread') /\ thread'.history = thread.history
         /\ SameFlags(thread, thread') /\ SameMedia(thread, thread')
         /\ node' \in {"idle", "command_assistant", "media_understanding"}
         /\ node' = "media_understanding" => thread.lastUser # "command"
         /\ node' = "idle" => thread.lastUser = "command"
                              /\ queue' = [queue EXCEPT ![job] = "done"]
         /\ node' # "idle" => job' = job /\ queue' = queue
<1> DEFINE c == Counted(thread)
           s == [c EXCEPT !.eligible = ~IsCommand \/ Authorized, !.admin = IsCommand /\ Authorized]
<1>1. c \in GraphState /\ Stepped(thread, c) /\ SameFlags(thread, c) /\ SameMedia(thread, c)
      /\ c.history = thread.history
  BY CountedKeeps DEF TypeOK, Stepped, SameFlags, SameMedia
<1> HIDE DEF c
<1>2. (~IsCommand \/ Authorized) \in BOOLEAN /\ (IsCommand /\ Authorized) \in BOOLEAN
  OBVIOUS
<1>3. /\ Stepped(thread, s) /\ SameFlags(thread, s) /\ SameMedia(thread, s)
      /\ s.history = thread.history
      /\ s.eligible = (~IsCommand \/ Authorized) /\ s.admin = (IsCommand /\ Authorized)
  BY <1>1, <1>2 DEF GraphState, Stepped, SameFlags, SameMedia
<1>4. Goto(s, AfterEligibility(s)) /\ UNCHANGED deployment /\ node = "eligibility"
  BY DEF Eligibility, c
<1> HIDE DEF s
<1>5. /\ AfterEligibility(s) \in {"end", "command_assistant", "media_understanding"}
      /\ AfterEligibility(s) = "media_understanding" => ~IsCommand
      /\ AfterEligibility(s) = "end" => IsCommand
  BY <1>3 DEF AfterEligibility
<1>6. PlaceOK /\ job \in Job
  BY <1>4, TypeParts DEF AtWork
<1>7. PlaceOK' /\ thread' = s
      /\ (AfterEligibility(s) # "end" => node' = AfterEligibility(s) /\ job' = job /\ queue' = queue)
      /\ (AfterEligibility(s) = "end" => node' = "idle" /\ queue' = [queue EXCEPT ![job] = "done"])
  BY <1>4, <1>5, <1>6, GotoMoves DEF Node
<1>. QED
  BY <1>3, <1>5, <1>7 DEF IsCommand

\* The rest of this section is about nodes in the same way.  A node that counts its
\* step, as all do, starts from such a state.
LEMMA CountedSteps ==
  ASSUME TypeOK
  PROVE  /\ Counted(thread) \in GraphState /\ Stepped(thread, Counted(thread))
         /\ SameFlags(thread, Counted(thread)) /\ SameMedia(thread, Counted(thread))
         /\ Counted(thread).history = thread.history
         /\ Counted(thread).response = thread.response
BY CountedKeeps DEF TypeOK, Stepped, SameFlags, SameMedia

\* command_assistant: the answer is marked as sent, and the run ends.
LEMMA CommandAssistantDoes ==
  ASSUME TypeOK, AtWork, CommandAssistant
  PROVE  /\ PlaceOK' /\ Stepped(thread, thread') /\ thread'.history = thread.history
         /\ SameMedia(thread, thread') /\ thread'.sent
         /\ thread'.error = thread.error /\ thread'.hitl = thread.hitl
         /\ node' = "idle" /\ queue' = [queue EXCEPT ![job] = "done"]
<1> DEFINE c == Counted(thread)
<1>1. c \in GraphState /\ Stepped(thread, c) /\ SameFlags(thread, c) /\ SameMedia(thread, c)
      /\ c.history = thread.history
  BY CountedSteps
<1>2. PICK t \in Text : Goto([c EXCEPT !.response = t, !.sent = TRUE], "end")
  BY DEF CommandAssistant
<1> HIDE DEF c
<1> DEFINE s == [c EXCEPT !.response = t, !.sent = TRUE]
<1>3. Stepped(thread, s) /\ SameMedia(thread, s) /\ s.history = thread.history /\ s.sent
      /\ s.error = thread.error /\ s.hitl = thread.hitl
  BY <1>1 DEF GraphState, Stepped, SameFlags, SameMedia, Replies
<1>4. PlaceOK /\ job \in Job /\ UNCHANGED deployment
  BY TypeParts DEF AtWork, CommandAssistant
<1>5. Goto(s, "end")
  BY <1>2
<1> HIDE DEF s
<1>6. PlaceOK' /\ thread' = s /\ node' = "idle" /\ queue' = [queue EXCEPT ![job] = "done"]
  BY <1>4, <1>5, GotoMoves
<1>. QED
  BY <1>3, <1>6

\* What an attachment needs before the prompt quotes it: the model that reads it.
Readable(m, a) ==
  /\ "audio" \in {a.type, a.mime} => m.key /\ m.audio
  /\ "image" \in {a.type, a.mime} /\ "audio" \notin {a.type, a.mime} => m.key /\ m.vision

OwnMedia(p, j) == {a \in Attached[j] : Readable(Settings[p], a)}

\* process_attachment: a text comes from a model that is switched on and has its key.
LEMMA TextNeedsItsModel ==
  ASSUME NEW m \in MediaSettings, NEW a \in AttachmentDict,
         NEW x \in ProcessFromDict(m, a), InPrompt(x)
  PROVE  Readable(m, a)
<1>1. a.url /\ x \in ProcessByType(m, a)
  BY DEF ProcessFromDict, InPrompt, Failed, Context
<1>2. CASE "audio" \in {a.type, a.mime}
  BY <1>1, <1>2 DEF ProcessByType, ProcessAudio, InPrompt, Unsupported, Context, Readable
<1>3. CASE "image" \in {a.type, a.mime} /\ "audio" \notin {a.type, a.mime}
  BY <1>1, <1>3 DEF ProcessByType, ProcessImage, InPrompt, Unsupported, Context, Readable
<1>. QED
  BY <1>2, <1>3 DEF Readable

\* media_understanding: only the job's own attachments get a context.
LEMMA MediaUnderstandingDoes ==
  ASSUME TypeOK, AtWork, MediaUnderstanding
  PROVE  /\ PlaceOK' /\ Stepped(thread, thread') /\ thread'.history = thread.history
         /\ SameFlags(thread, thread')
         /\ thread'.media \subseteq thread.media \cup OwnMedia(deployment, job)
         /\ node' \in {"idle", "context_builder"}
         /\ node' = "idle" => thread'.error /\ queue' = [queue EXCEPT ![job] = "done"]
         /\ node' # "idle" => job' = job /\ queue' = queue
<1> DEFINE c == Counted(thread)
<1>1. c \in GraphState /\ Stepped(thread, c) /\ SameFlags(thread, c) /\ SameMedia(thread, c)
      /\ c.history = thread.history
  BY CountedSteps
<1>2. PlaceOK /\ job \in Job /\ UNCHANGED deployment
  BY TypeParts DEF AtWork, MediaUnderstanding
<1>3. PICK contexts \in [Attached[job] -> {Context(s, t) : s \in MediaStatus, t \in BOOLEAN}] :
        /\ \A a \in Attached[job] : contexts[a] \in ProcessFromDict(Settings[deployment], a)
        /\ Goto(Understood(contexts), AfterMedia(Understood(contexts)))
  BY DEF MediaUnderstanding
<1> DEFINE u == Understood(contexts)
<1>4. Attached[job] \in SUBSET AttachmentDict /\ Settings[deployment] \in MediaSettings
  BY <1>2, GraphAssumption DEF PlaceOK
<1>5. {a \in Attached[job] : InPrompt(contexts[a])} \subseteq OwnMedia(deployment, job)
  BY <1>3, <1>4, TextNeedsItsModel DEF OwnMedia
<1>6. Stepped(thread, u) /\ SameFlags(thread, u) /\ u.history = thread.history
      /\ u.media \subseteq thread.media \cup OwnMedia(deployment, job)
  <2>1. CASE Attached[job] = {}
    BY <1>1, <2>1 DEF Understood, SameMedia
  <2>2. CASE Attached[job] # {}
    <3> DEFINE M == {a \in Attached[job] : InPrompt(contexts[a])}
    <3>1. M \in SUBSET AttachmentDict
      BY <1>4
    <3>2. u = [c EXCEPT !.media = M]
      BY <2>2 DEF Understood
    <3> HIDE DEF c, M, u
    <3>3. Stepped(thread, u) /\ SameFlags(thread, u) /\ u.history = thread.history /\ u.media = M
      BY <1>1, <3>1, <3>2 DEF GraphState, Stepped, SameFlags
    <3>. QED
      BY <1>5, <3>3 DEF M
  <2>. QED
    BY <2>1, <2>2
<1>7. Goto(u, AfterMedia(u))
  BY <1>3
<1> HIDE DEF u, c
<1>8. AfterMedia(u) \in {"end", "context_builder"} /\ (AfterMedia(u) = "end" => u.error)
  BY DEF AfterMedia
<1>9. PlaceOK' /\ thread' = u
      /\ (AfterMedia(u) # "end" => node' = AfterMedia(u) /\ job' = job /\ queue' = queue)
      /\ (AfterMedia(u) = "end" => node' = "idle" /\ queue' = [queue EXCEPT ![job] = "done"])
  BY <1>2, <1>7, <1>8, GotoMoves DEF Node
<1>. QED
  BY <1>6, <1>8, <1>9

\* context_builder: the prompt quotes what the metadata has.
LEMMA ContextBuilderDoes ==
  ASSUME TypeOK, AtWork, ContextBuilder
  PROVE  /\ PlaceOK' /\ Stepped(thread, thread') /\ thread'.history = thread.history
         /\ SameFlags(thread, thread') /\ thread'.prompt = thread.media
         /\ node' \in {"idle", "agent"}
         /\ node' = "idle" => thread'.error /\ queue' = [queue EXCEPT ![job] = "done"]
         /\ node' # "idle" => job' = job /\ queue' = queue
<1> DEFINE c == Counted(thread)
           s == [c EXCEPT !.prompt = thread.media]
<1>1. c \in GraphState /\ Stepped(thread, c) /\ SameFlags(thread, c) /\ SameMedia(thread, c)
      /\ c.history = thread.history
  BY CountedSteps
<1>2. PlaceOK /\ job \in Job /\ UNCHANGED deployment /\ Goto(s, AfterContext(s))
  BY TypeParts DEF AtWork, ContextBuilder
<1>3. thread.media \in SUBSET AttachmentDict
  BY DEF TypeOK, GraphState
<1> HIDE DEF c
<1>4. Stepped(thread, s) /\ SameFlags(thread, s) /\ s.history = thread.history
      /\ s.prompt = thread.media
  BY <1>1, <1>3 DEF GraphState, Stepped, SameFlags
<1> HIDE DEF s
<1>5. AfterContext(s) \in {"end", "agent"} /\ (AfterContext(s) = "end" => s.error)
  BY DEF AfterContext
<1>6. PlaceOK' /\ thread' = s
      /\ (AfterContext(s) # "end" => node' = AfterContext(s) /\ job' = job /\ queue' = queue)
      /\ (AfterContext(s) = "end" => node' = "idle" /\ queue' = [queue EXCEPT ![job] = "done"])
  BY <1>2, <1>5, GotoMoves DEF Node
<1>. QED
  BY <1>4, <1>5, <1>6

\* The edge after the agent: on to the tools or the guardrails only without an error
\* and without a hold.
LEMMA AfterAgentLeads ==
  ASSUME NEW s \in GraphState
  PROVE  /\ AfterAgent(s) \in {"end", "tool_executor", "guardrails"}
         /\ AfterAgent(s) = "end" <=> s.error \/ s.hitl
         /\ AfterAgent(s) = "tool_executor" => s.pending # {}
BY DEF AfterAgent, GraphState

\* agent_node: the model's answer, or the apology once the steps are used up.
LEMMA AgentDoes ==
  ASSUME TypeOK, AtWork, AgentAnswers \/ AgentGivesUp
  PROVE  /\ PlaceOK' /\ Stepped(thread, thread') /\ thread'.history = thread.history
         /\ SameFlags(thread, thread') /\ SameMedia(thread, thread')
         /\ thread'.response \in Text \cup {Apology, NoText}
         /\ node' \in {"idle", "tool_executor", "guardrails"}
         /\ node' = "idle" => (thread'.error \/ thread'.hitl)
                              /\ queue' = [queue EXCEPT ![job] = "done"]
         /\ node' # "idle" => ~thread'.error /\ ~thread'.hitl /\ job' = job /\ queue' = queue
<1> DEFINE c == Counted(thread)
<1>1. c \in GraphState /\ Stepped(thread, c) /\ SameFlags(thread, c) /\ SameMedia(thread, c)
      /\ c.history = thread.history
  BY CountedSteps
<1>2. PICK t \in Text \cup {Apology, NoText}, cs \in SUBSET Call :
        Goto([c EXCEPT !.response = t, !.pending = cs],
             AfterAgent([c EXCEPT !.response = t, !.pending = cs]))
  <2>1. CASE AgentAnswers
    BY <2>1 DEF AgentAnswers
  <2>2. CASE AgentGivesUp
    BY <2>2 DEF AgentGivesUp
  <2>. QED
    BY <2>1, <2>2
<1>3. PlaceOK /\ job \in Job /\ UNCHANGED deployment
  BY TypeParts DEF AtWork, AgentAnswers, AgentGivesUp
<1> HIDE DEF c
<1> DEFINE s == [c EXCEPT !.response = t, !.pending = cs]
<1>4. Stepped(thread, s) /\ SameFlags(thread, s) /\ SameMedia(thread, s)
      /\ s.history = thread.history /\ s.response = t
  BY <1>1 DEF GraphState, Stepped, SameFlags, SameMedia, Replies
<1>5. Goto(s, AfterAgent(s))
  BY <1>2
<1> HIDE DEF s
<1>6. /\ AfterAgent(s) \in {"end", "tool_executor", "guardrails"}
      /\ AfterAgent(s) = "end" <=> s.error \/ s.hitl
  BY <1>4, AfterAgentLeads DEF Stepped
<1>7. PlaceOK' /\ thread' = s
      /\ (AfterAgent(s) # "end" => node' = AfterAgent(s) /\ job' = job /\ queue' = queue)
      /\ (AfterAgent(s) = "end" => node' = "idle" /\ queue' = [queue EXCEPT ![job] = "done"])
  BY <1>3, <1>5, <1>6, GotoMoves DEF Node
<1>. QED
  BY <1>4, <1>6, <1>7

\* agent_node whose model call fails: the error stays in the thread.
LEMMA AgentFailsDoes ==
  ASSUME TypeOK, AtWork, AgentFails
  PROVE  /\ PlaceOK' /\ Stepped(thread, thread') /\ thread'.history = thread.history
         /\ SameMedia(thread, thread') /\ thread'.error
         /\ thread'.sent = thread.sent /\ thread'.hitl = thread.hitl
         /\ node' = "idle" /\ queue' = [queue EXCEPT ![job] = "done"]
<1> DEFINE c == Counted(thread)
           s == [c EXCEPT !.error = TRUE]
<1>1. c \in GraphState /\ Stepped(thread, c) /\ SameFlags(thread, c) /\ SameMedia(thread, c)
      /\ c.history = thread.history
  BY CountedSteps
<1>2. PlaceOK /\ job \in Job /\ UNCHANGED deployment /\ Goto(s, "end")
  BY TypeParts DEF AtWork, AgentFails
<1> HIDE DEF c
<1>3. Stepped(thread, s) /\ SameMedia(thread, s) /\ s.history = thread.history /\ s.error
      /\ s.sent = thread.sent /\ s.hitl = thread.hitl
  BY <1>1 DEF GraphState, Stepped, SameFlags, SameMedia
<1> HIDE DEF s
<1>4. PlaceOK' /\ thread' = s /\ node' = "idle" /\ queue' = [queue EXCEPT ![job] = "done"]
  BY <1>2, GotoMoves
<1>. QED
  BY <1>3, <1>4

\* tool_executor: nothing of the thread changes until the last call, which leads back
\* to the agent.
LEMMA ToolCallDoes ==
  ASSUME TypeOK, AtWork, PastAgent, NEW c \in Call, ToolCall(c)
  PROVE  /\ PlaceOK' /\ job' = job /\ queue' = queue
         /\ \/ thread' = thread /\ node' = node
            \/ /\ Stepped(thread, thread') /\ thread'.history = thread.history
               /\ SameFlags(thread, thread') /\ SameMedia(thread, thread')
               /\ node' = "agent"
<1> DEFINE d == Counted(thread)
           s == [d EXCEPT !.pending = {}]
<1>1. d \in GraphState /\ Stepped(thread, d) /\ SameFlags(thread, d) /\ SameMedia(thread, d)
      /\ d.history = thread.history
  BY CountedSteps
<1>2. PlaceOK /\ UNCHANGED <<deployment, job, queue>> /\ node = "tool_executor"
  BY TypeParts DEF ToolCall
<1>3. CASE todo # {c}
  BY <1>2, <1>3 DEF ToolCall, PlaceOK
<1>4. CASE todo = {c}
  <2>1. todo' = {} /\ thread' = s /\ node' = AfterTools(s)
    BY <1>4 DEF ToolCall
  <2> HIDE DEF d
  <2>2. Stepped(thread, s) /\ s.history = thread.history /\ SameFlags(thread, s)
        /\ SameMedia(thread, s)
    BY <1>1 DEF GraphState, Stepped, SameFlags, SameMedia
  <2> HIDE DEF s
  <2>3. ~s.error
    BY <1>2, <2>2 DEF PastAgent, SameFlags
  <2>4. node' = "agent"
    BY <2>1, <2>3 DEF AfterTools
  <2>. QED
    BY <1>2, <2>1, <2>2, <2>4 DEF PlaceOK, Node
<1>. QED
  BY <1>3, <1>4

\* What OnlyVettedText asks of a text in the outbox.
Passed(t) ==
  \/ t \in {BlockedResponse, Escalation}
  \/ /\ \E x \in Text \cup {Apology} : t = Strip[x]
     /\ t \notin Banned \cup Unsure \cup {NoText}

\* What guardrails is given: the agent's words, before any check.
Raw(t) == t \in Text \cup {Apology, NoText}

\* The state the guardrails leave: they hold the turn or let a text pass.
LEMMA VettedGives ==
  ASSUME TypeOK
  PROVE  /\ Stepped(thread, Vetted) /\ Len(Vetted.history) <= LoopWindow
         /\ SameMedia(thread, Vetted)
         /\ Vetted.sent = thread.sent /\ Vetted.error = thread.error
         /\ Vetted.hitl = thread.hitl \/ Vetted.hitl = TRUE
         /\ Raw(thread.response) /\ ~Vetted.hitl /\ Vetted.response # NoText
              => Passed(Vetted.response)
<1> DEFINE c == Counted(thread)
           clean == Strip[thread.response]
           R == Replies \cup {NoText}
<1>1. c \in GraphState /\ Stepped(thread, c) /\ SameFlags(thread, c) /\ SameMedia(thread, c)
      /\ c.history = thread.history /\ c.response = thread.response
  BY CountedSteps
<1>2. thread.history \in Seq(R) /\ Len(thread.history) <= LoopWindow /\ thread.response \in R
      /\ c.history \in Seq(R)
  BY <1>1 DEF TypeOK, GraphState
<1>3. CASE thread.response = NoText
  BY <1>1, <1>2, <1>3 DEF Vetted, SameFlags
<1>4. CASE thread.response # NoText
  <2>1. thread.response \in Replies /\ clean \in R
    BY <1>2, <1>4, GraphAssumption
  <2>2. Remember(c.history, clean) \in Seq(R) /\ Len(Remember(c.history, clean)) <= LoopWindow
    BY <1>1, <1>2, <2>1, RememberKeeps
  <2>3. Raw(thread.response) => clean \in Text \cup {Apology, NoText}
                                /\ \E x \in Text \cup {Apology} : clean = Strip[x]
    BY <1>4, GraphAssumption DEF Raw
  <2>4. CASE clean \in Banned
    <3> DEFINE s == [c EXCEPT !.response = BlockedResponse]
    <3>1. Vetted = s
      BY <1>4, <2>4 DEF Vetted
    <3> HIDE DEF c
    <3>2. Stepped(thread, s) /\ SameFlags(thread, s) /\ SameMedia(thread, s)
          /\ s.history = thread.history /\ s.response = BlockedResponse
      BY <1>1 DEF GraphState, Stepped, SameFlags, SameMedia, Replies
    <3> HIDE DEF s
    <3>. QED
      BY <1>2, <3>1, <3>2 DEF Passed, SameFlags
  <2>5. CASE clean \notin Banned /\ (IsLooping(clean) \/ clean \in Unsure)
    <3> DEFINE h == Remember(c.history, clean)
               s == [c EXCEPT !.response = Escalation, !.hitl = TRUE, !.history = h]
    <3>1. Vetted = s
      BY <1>4, <2>5 DEF Vetted, Held
    <3>2. h \in Seq(R) /\ Len(h) <= LoopWindow
      BY <2>2
    <3> HIDE DEF c, h
    <3>3. Stepped(thread, s) /\ SameMedia(thread, s) /\ s.sent = thread.sent
          /\ s.error = thread.error /\ s.hitl = TRUE /\ s.history = h
      BY <1>1, <3>2 DEF GraphState, Stepped, SameFlags, SameMedia, Replies
    <3> HIDE DEF s
    <3>. QED
      BY <3>1, <3>2, <3>3
  <2>6. CASE clean \notin Banned /\ ~(IsLooping(clean) \/ clean \in Unsure)
    <3> DEFINE h == Remember(c.history, clean)
               s == [c EXCEPT !.response = clean, !.history = h]
    <3>1. Vetted = s
      BY <1>4, <2>6 DEF Vetted
    <3>2. h \in Seq(R) /\ Len(h) <= LoopWindow
      BY <2>2
    <3> HIDE DEF c, h
    <3>3. Stepped(thread, s) /\ SameMedia(thread, s) /\ SameFlags(thread, s)
          /\ s.history = h /\ s.response = clean
      BY <1>1, <2>1, <3>2 DEF GraphState, Stepped, SameFlags, SameMedia
    <3> HIDE DEF s
    <3>4. Raw(thread.response) /\ clean # NoText => Passed(clean)
      BY <2>3, <2>6, GraphAssumption DEF Passed
    <3>. QED
      BY <3>1, <3>2, <3>3, <3>4 DEF SameFlags
  <2>. QED
    BY <2>4, <2>5, <2>6
<1>. QED
  BY <1>3, <1>4

\* guardrails_node and its edge: dispatch only what passed, without a hold.
LEMMA GuardrailsDoes ==
  ASSUME TypeOK, AtWork, PastAgent, Guardrails
  PROVE  /\ PlaceOK' /\ Stepped(thread, thread') /\ Len(thread'.history) <= LoopWindow
         /\ SameMedia(thread, thread')
         /\ thread'.sent = thread.sent /\ ~thread'.error
         /\ node' \in {"hitl", "command_dispatch"} /\ job' = job /\ queue' = queue
         /\ thread'.hitl <=> node' = "hitl"
         /\ node' = "command_dispatch" /\ Raw(thread.response) /\ thread'.response # NoText
              => Passed(thread'.response)
<1>1. PlaceOK /\ job \in Job /\ UNCHANGED deployment /\ ~thread.error /\ ~thread.hitl
      /\ Goto(Vetted, AfterGuardrails(Vetted))
  BY TypeParts DEF AtWork, PastAgent, Guardrails
<1>2. /\ AfterGuardrails(Vetted) \in {"hitl", "command_dispatch"}
      /\ AfterGuardrails(Vetted) = "hitl" <=> Vetted.hitl
  BY <1>1, VettedGives DEF AfterGuardrails
<1>3. PlaceOK' /\ thread' = Vetted /\ node' = AfterGuardrails(Vetted) /\ job' = job /\ queue' = queue
  BY <1>1, <1>2, GotoMoves DEF Node
<1>. QED
  BY <1>1, <1>2, <1>3, VettedGives

\* hitl_node: the run ends with the hold in the thread, registered or not.
LEMMA HitlDoes ==
  ASSUME TypeOK, AtWork, Hitl \/ HitlUnsaved
  PROVE  /\ PlaceOK' /\ Stepped(thread, thread') /\ thread'.history = thread.history
         /\ SameMedia(thread, thread') /\ thread'.hitl
         /\ thread'.sent = thread.sent /\ thread'.error = thread.error
         /\ node' = "idle" /\ queue' = [queue EXCEPT ![job] = "done"]
<1> DEFINE c == Counted(thread)
           s == [c EXCEPT !.hitl = TRUE]
<1>1. c \in GraphState /\ Stepped(thread, c) /\ SameFlags(thread, c) /\ SameMedia(thread, c)
      /\ c.history = thread.history
  BY CountedSteps
<1>2. PlaceOK /\ job \in Job /\ UNCHANGED deployment /\ Goto(s, "end")
  BY TypeParts DEF AtWork, Hitl, HitlUnsaved
<1> HIDE DEF c
<1>3. Stepped(thread, s) /\ SameMedia(thread, s) /\ s.history = thread.history /\ s.hitl
      /\ s.sent = thread.sent /\ s.error = thread.error
  BY <1>1 DEF GraphState, Stepped, SameFlags, SameMedia
<1> HIDE DEF s
<1>4. PlaceOK' /\ thread' = s /\ node' = "idle" /\ queue' = [queue EXCEPT ![job] = "done"]
  BY <1>2, GotoMoves
<1>. QED
  BY <1>3, <1>4

\* command_dispatch_node without a row to write.
LEMMA DispatchSkipDoes ==
  ASSUME TypeOK, AtWork, CommandDispatchSkip
  PROVE  /\ PlaceOK' /\ Stepped(thread, thread') /\ thread'.history = thread.history
         /\ SameFlags(thread, thread') /\ SameMedia(thread, thread')
         /\ node' = "memory_writer" /\ job' = job /\ queue' = queue
<1>1. PlaceOK /\ job \in Job /\ UNCHANGED deployment /\ Goto(Counted(thread), "memory_writer")
  BY TypeParts DEF AtWork, CommandDispatchSkip
<1>2. PlaceOK' /\ thread' = Counted(thread) /\ node' = "memory_writer" /\ job' = job /\ queue' = queue
  BY <1>1, GotoMoves DEF Node
<1>. QED
  BY <1>2, CountedSteps

\* command_dispatch_node after its row is committed.
LEMMA DispatchRecordedDoes ==
  ASSUME TypeOK, AtWork, DispatchRecorded
  PROVE  /\ PlaceOK' /\ Stepped(thread, thread') /\ thread'.history = thread.history
         /\ SameMedia(thread, thread') /\ thread'.sent
         /\ thread'.error = thread.error /\ thread'.hitl = thread.hitl
         /\ node' = "memory_writer" /\ job' = job /\ queue' = queue
<1> DEFINE c == Counted(thread)
           s == [c EXCEPT !.sent = TRUE]
<1>1. c \in GraphState /\ Stepped(thread, c) /\ SameFlags(thread, c) /\ SameMedia(thread, c)
      /\ c.history = thread.history
  BY CountedSteps
<1>2. PlaceOK /\ job \in Job /\ UNCHANGED deployment /\ Goto(s, "memory_writer")
  BY TypeParts DEF AtWork, DispatchRecorded
<1> HIDE DEF c
<1>3. Stepped(thread, s) /\ SameMedia(thread, s) /\ s.history = thread.history /\ s.sent
      /\ s.error = thread.error /\ s.hitl = thread.hitl
  BY <1>1 DEF GraphState, Stepped, SameFlags, SameMedia
<1> HIDE DEF s
<1>4. PlaceOK' /\ thread' = s /\ node' = "memory_writer" /\ job' = job /\ queue' = queue
  BY <1>2, GotoMoves DEF Node
<1>. QED
  BY <1>3, <1>4

\* memory_writer: the last node, whatever it could store.
LEMMA MemoryWriterDoes ==
  ASSUME TypeOK, AtWork, MemoryWriter
  PROVE  /\ PlaceOK' /\ Stepped(thread, thread') /\ thread'.history = thread.history
         /\ SameFlags(thread, thread') /\ SameMedia(thread, thread')
         /\ node' = "idle" /\ queue' = [queue EXCEPT ![job] = "done"]
<1>1. PlaceOK /\ job \in Job /\ UNCHANGED deployment /\ Goto(Counted(thread), "end")
  BY TypeParts DEF AtWork, MemoryWriter
<1>2. PlaceOK' /\ thread' = Counted(thread) /\ node' = "idle"
      /\ queue' = [queue EXCEPT ![job] = "done"]
  BY <1>1, GotoMoves
<1>. QED
  BY <1>2, CountedSteps

\* The start of a run: a new run id, no metadata, and all other keys as they were.
LEMMA BeginDoes ==
  ASSUME TypeOK, NEW j \in Job, Begin(j)
  PROVE  /\ PlaceOK' /\ thread' \in GraphState /\ thread'.history = thread.history
         /\ SameFlags(thread, thread') /\ thread'.step = thread.step
         /\ thread'.media = {} /\ thread'.run = runs + 1
         /\ thread'.lastUser = IF Content[j] = "none" THEN thread.lastUser ELSE Content[j]
         /\ node' = "eligibility" /\ job' = j /\ queue' = [queue EXCEPT ![j] = "working"]
<1> DEFINE user == IF Content[j] = "none" THEN thread.lastUser ELSE Content[j]
           fresh == runs + 1
           s == [thread EXCEPT !.run = fresh, !.eligible = FALSE, !.media = {}, !.prompt = {},
                               !.lastUser = user]
<1>1. thread \in GraphState /\ PlaceOK /\ runs \in Nat
  BY TypeParts DEF TypeOK
<1>2. user \in {"text", "command", "none"} /\ fresh \in Nat
  BY <1>1, GraphAssumption DEF GraphState
<1>3. thread' = s /\ node' = "eligibility" /\ job' = j
      /\ queue' = [queue EXCEPT ![j] = "working"] /\ UNCHANGED <<deployment, todo>>
  BY DEF Begin, InitialState
<1> HIDE DEF user, fresh
<1>4. s \in GraphState
  BY <1>1, <1>2 DEF GraphState
<1>5. /\ s.history = thread.history /\ SameFlags(thread, s) /\ s.step = thread.step
      /\ s.media = {} /\ s.run = fresh /\ s.lastUser = user
  BY <1>1 DEF GraphState, SameFlags
<1> HIDE DEF s
<1>6. PlaceOK'
  BY <1>1, <1>3 DEF PlaceOK, Node
<1>. QED
  BY <1>3, <1>4, <1>5, <1>6 DEF user, fresh

-----------------------------------------------------------------------------
(* What a step does to the tables                                          *)

\* A row more in the outbox is one more of its kind and none of the other.
LEMMA ResponseRowAdded ==
  ASSUME NEW j, NEW r, NEW t, outbox' = outbox \cup {ResponseRow(j, r, t)}
  PROVE  Responses' = Responses \cup {ResponseRow(j, r, t)} /\ ToolCommands' = ToolCommands
BY DEF Responses, ToolCommands, ResponseRow

LEMMA ToolRowAdded ==
  ASSUME NEW j, NEW r, NEW c, NEW n, outbox' = outbox \cup {ToolRow(j, r, c, n)}
  PROVE  Responses' = Responses /\ ToolCommands' = ToolCommands \cup {ToolRow(j, r, c, n)}
BY DEF Responses, ToolCommands, ToolRow

LEMMA OutboxKept ==
  ASSUME UNCHANGED outbox
  PROVE  Responses' = Responses /\ ToolCommands' = ToolCommands
BY DEF Responses, ToolCommands

\* Counters move, the tables do not.
LEMMA CountersOnly ==
  ASSUME TablesOK, UNCHANGED tables, runs' \in {runs, runs + 1},
         llmCalls' \in Nat, mute' \subseteq Job, faults' \in Nat
  PROVE  TablesOK'
<1>1. 1..runs \subseteq 1..runs' /\ 0..runs \subseteq 0..runs' /\ runs' \in Nat
  BY DEF TablesOK
<1>2. Responses' = Responses /\ ToolCommands' = ToolCommands
  BY OutboxKept DEF tables
<1>3. Responses' \subseteq [kind: {"response"}, job: Job, run: 1..runs', text: Replies]
  BY <1>1, <1>2 DEF TablesOK
<1>4. ToolCommands' \subseteq [kind: {"tool"}, job: Job, run: 1..runs', call: Call, at: Nat]
  BY <1>1, <1>2 DEF TablesOK
<1>5. followUps' \subseteq FollowUpRow(runs')
  BY <1>1 DEF TablesOK, FollowUpRow, tables
<1>6. facts' \in [FactKey -> 0..runs']
  BY <1>1 DEF TablesOK, tables
<1>. QED
  BY <1>1, <1>2, <1>3, <1>4, <1>5, <1>6 DEF TablesOK, tables

\* What a tool call may add: a command, or a follow-up.
ToolWrote(c, r) ==
  /\ outbox' = IF r.effect # "outbox" THEN outbox
               ELSE outbox \cup {ToolRow(job, thread.run, c, thread.step)}
  /\ followUps' = IF r.effect # "follow_up" THEN followUps
                  ELSE followUps \cup {[job |-> job, run |-> thread.run,
                         asked |-> c.hour, due |-> NextNonQuietTime(c.hour),
                         at |-> thread.step, optedOut |-> c.optedOut]}

\* What NoUnapprovedWrite asks of the time of a follow-up.
Allowed(asked, due) == due >= asked /\ due % 24 >= 8 /\ due % 24 < 22

\* _next_non_quiet_time: not an earlier time, and one outside the quiet hours.
LEMMA QuietHoursAvoided ==
  ASSUME NEW h \in 0..23
  PROVE  NextNonQuietTime(h) \in 0..47 /\ Allowed(h, NextNonQuietTime(h))
BY DEF NextNonQuietTime, IsQuietHour, QuietStart, QuietEnd, Allowed

LEMMA ToolWritesTyped ==
  ASSUME TypeOK, job \in Job, thread.run \in 1..runs, NEW c \in Call,
         NEW r, ToolWrote(c, r), UNCHANGED <<holds, facts, counters>>
  PROVE  TablesOK'
<1>1. TablesOK /\ thread.step \in Nat
  BY TypeParts DEF TypeOK, GraphState
<1>2. /\ Responses' \subseteq [kind: {"response"}, job: Job, run: 1..runs, text: Replies]
      /\ ToolCommands' \subseteq [kind: {"tool"}, job: Job, run: 1..runs, call: Call, at: Nat]
      /\ outbox' = Responses' \cup ToolCommands'
  <2>1. CASE r.effect # "outbox"
    BY <1>1, <2>1, OutboxKept DEF ToolWrote, TablesOK
  <2>2. CASE r.effect = "outbox"
    <3> DEFINE row == ToolRow(job, thread.run, c, thread.step)
    <3>1. outbox' = outbox \cup {row}
      BY <2>2 DEF ToolWrote
    <3>2. row \in [kind: {"tool"}, job: Job, run: 1..runs, call: Call, at: Nat]
      BY <1>1 DEF ToolRow
    <3>3. Responses' = Responses /\ ToolCommands' = ToolCommands \cup {row}
      BY <3>1, ToolRowAdded
    <3> HIDE DEF row
    <3>. QED
      BY <1>1, <3>1, <3>2, <3>3 DEF TablesOK
  <2>. QED
    BY <2>1, <2>2
<1>3. followUps' \subseteq FollowUpRow(runs)
  <2> DEFINE due == NextNonQuietTime(c.hour)
             item == [job |-> job, run |-> thread.run, asked |-> c.hour, due |-> due,
                      at |-> thread.step, optedOut |-> c.optedOut]
  <2>1. c.hour \in 0..23 /\ due \in 0..47 /\ c.optedOut \in BOOLEAN
    BY QuietHoursAvoided, GraphAssumption
  <2>2. followUps' \subseteq followUps \cup {item}
    BY DEF ToolWrote
  <2> HIDE DEF due
  <2>3. item \in FollowUpRow(runs)
    BY <1>1, <2>1 DEF FollowUpRow
  <2>. QED
    BY <1>1, <2>2, <2>3 DEF TablesOK
<1>. QED
  BY <1>1, <1>2, <1>3 DEF TablesOK, counters

LEMMA ToolCallWrites ==
  ASSUME NEW c \in Call, ToolCall(c)
  PROVE  \E r \in Invocations(deployment, c) : ToolWrote(c, r)
BY DEF ToolCall, ToolWrote

-----------------------------------------------------------------------------
(* Types and control are kept                                              *)

LEMMA GraphInvInit == Init => GraphInv
<1> SUFFICES ASSUME Init PROVE GraphInv
  OBVIOUS
<1>1. thread \in GraphState /\ Len(thread.history) <= LoopWindow
  BY SurvivingTyped DEF Init
<1>2. PlaceOK
  BY DEF Init, PlaceOK, Node
<1>3. Responses = {} /\ ToolCommands = {}
  BY DEF Init, Responses, ToolCommands
<1>4. TablesOK
  BY <1>3 DEF Init, TablesOK, FactKey
<1>. QED
  BY <1>1, <1>2, <1>4, TypeParts DEF Init, GraphInv, AtWork, PastAgent, ThreadOK

LEMMA TypePartsNext == TypeOK' <=> ThreadOK' /\ PlaceOK' /\ TablesOK'
BY DEF TypeOK, ThreadOK, PlaceOK, TablesOK, FollowUpRow

\* The parts of the invariant, from what a node did to the thread.
LEMMA StepKeepsInv ==
  ASSUME GraphInv, PlaceOK', TablesOK', Stepped(thread, thread'),
         Len(thread'.history) <= LoopWindow, runs' = runs,
         node' # "idle" => job' = job /\ node # "idle", PastAgent'
  PROVE  GraphInv'
<1>1. ThreadOK'
  BY DEF ThreadOK, Stepped
<1>2. AtWork'
  BY DEF GraphInv, AtWork, Stepped
<1>. QED
  BY <1>1, <1>2, TypePartsNext DEF GraphInv

LEMMA GraphInvStep == GraphInv /\ [Next]_vars => GraphInv'
<1> SUFFICES ASSUME GraphInv, [Next]_vars PROVE GraphInv'
  OBVIOUS
<1>a. TypeOK /\ AtWork /\ PastAgent /\ ThreadOK /\ PlaceOK /\ TablesOK
  BY TypeParts DEF GraphInv
<1>b. llmCalls \in Nat /\ mute \subseteq Job /\ faults \in Nat /\ runs \in Nat
      /\ thread \in GraphState /\ Len(thread.history) <= LoopWindow
  BY <1>a DEF TablesOK, ThreadOK
<1>c. UNCHANGED <<tables, counters>> => TablesOK'
  BY <1>a, <1>b, CountersOnly DEF counters
<1>1. ASSUME NEW j \in Job, Begin(j) PROVE GraphInv'
  <2>1. TablesOK'
    BY <1>1, <1>a, <1>b, CountersOnly DEF Begin
  <2>2. /\ PlaceOK' /\ thread' \in GraphState /\ thread'.history = thread.history
        /\ thread'.run = runs + 1 /\ node' = "eligibility" /\ job' = j
    BY <1>1, <1>a, BeginDoes
  <2>3. runs' = runs + 1
    BY <1>1 DEF Begin
  <2>4. ThreadOK' /\ AtWork' /\ PastAgent'
    BY <1>b, <2>2, <2>3 DEF ThreadOK, AtWork, PastAgent
  <2>. QED
    BY <2>1, <2>2, <2>4, TypePartsNext DEF GraphInv
<1>2. CASE Eligibility
  <2>1. TablesOK' /\ runs' = runs /\ node # "idle"
    BY <1>2, <1>c DEF Eligibility, counters
  <2>. QED
    BY <1>2, <1>a, <1>b, <2>1, EligibilityDoes, StepKeepsInv DEF PastAgent
<1>3. CASE CommandAssistant
  <2>1. TablesOK' /\ runs' = runs
    BY <1>3, <1>c DEF CommandAssistant, counters
  <2>. QED
    BY <1>3, <1>a, <1>b, <2>1, CommandAssistantDoes, StepKeepsInv DEF PastAgent
<1>4. CASE MediaUnderstanding
  <2>1. TablesOK' /\ runs' = runs /\ node # "idle"
    BY <1>4, <1>c DEF MediaUnderstanding, counters
  <2>. QED
    BY <1>4, <1>a, <1>b, <2>1, MediaUnderstandingDoes, StepKeepsInv DEF PastAgent
<1>5. CASE ContextBuilder
  <2>1. TablesOK' /\ runs' = runs /\ node # "idle"
    BY <1>5, <1>c DEF ContextBuilder, counters
  <2>. QED
    BY <1>5, <1>a, <1>b, <2>1, ContextBuilderDoes, StepKeepsInv DEF PastAgent
<1>6. CASE AgentAnswers \/ AgentGivesUp
  <2>1. TablesOK' /\ runs' = runs /\ node # "idle"
    <3>1. CASE AgentAnswers
      BY <1>a, <1>b, <3>1, CountersOnly DEF AgentAnswers
    <3>2. CASE AgentGivesUp
      BY <1>c, <3>2 DEF AgentGivesUp, counters
    <3>. QED
      BY <1>6, <3>1, <3>2
  <2>2. PastAgent'
    BY <1>6, <1>a, AgentDoes DEF PastAgent
  <2>. QED
    BY <1>6, <1>a, <1>b, <2>1, <2>2, AgentDoes, StepKeepsInv
<1>7. CASE AgentFails
  <2>1. TablesOK' /\ runs' = runs
    BY <1>7, <1>a, <1>b, CountersOnly DEF AgentFails
  <2>. QED
    BY <1>7, <1>a, <1>b, <2>1, AgentFailsDoes, StepKeepsInv DEF PastAgent
<1>8. CASE ToolsStart
  <2>1. TablesOK' /\ UNCHANGED <<deployment, thread, node, job, queue, runs>>
    BY <1>8, <1>c DEF ToolsStart, counters
  <2>2. todo' \in SUBSET Call
    BY <1>8, <1>b DEF ToolsStart, GraphState
  <2>3. PlaceOK' /\ ThreadOK' /\ AtWork' /\ PastAgent'
    BY <1>a, <2>1, <2>2 DEF PlaceOK, ThreadOK, AtWork, PastAgent
  <2>. QED
    BY <2>1, <2>3, TypePartsNext DEF GraphInv
<1>9. ASSUME NEW c \in Call, ToolCall(c) PROVE GraphInv'
  <2>1. node = "tool_executor" /\ UNCHANGED <<holds, facts, counters>> /\ runs' = runs
    BY <1>9 DEF ToolCall, counters
  <2>2. TablesOK'
    BY <1>9, <1>a, <2>1, ToolCallWrites, ToolWritesTyped DEF AtWork
  <2>3. /\ PlaceOK' /\ job' = job
        /\ \/ thread' = thread /\ node' = node
           \/ /\ Stepped(thread, thread') /\ thread'.history = thread.history
              /\ node' = "agent"
    BY <1>9, <1>a, ToolCallDoes
  <2>4. CASE thread' = thread /\ node' = node
    <3>1. ThreadOK' /\ AtWork' /\ PastAgent'
      BY <1>a, <2>1, <2>3, <2>4 DEF ThreadOK, AtWork, PastAgent
    <3>. QED
      BY <2>2, <2>3, <3>1, TypePartsNext DEF GraphInv
  <2>5. CASE Stepped(thread, thread') /\ thread'.history = thread.history /\ node' = "agent"
    BY <1>b, <2>1, <2>2, <2>3, <2>5, StepKeepsInv DEF PastAgent
  <2>. QED
    BY <2>3, <2>4, <2>5
<1>10. CASE Guardrails
  <2>1. TablesOK' /\ runs' = runs /\ node # "idle"
    BY <1>10, <1>c DEF Guardrails, counters
  <2>2. PastAgent'
    BY <1>10, <1>a, GuardrailsDoes DEF PastAgent
  <2>. QED
    BY <1>10, <1>a, <1>b, <2>1, <2>2, GuardrailsDoes, StepKeepsInv
<1>11. CASE Hitl
  <2>1. runs' = runs /\ TablesOK'
    <3>1. UNCHANGED <<outbox, followUps, facts, counters>> /\ holds' = holds \cup {thread.run}
          /\ thread.run \in 1..runs
      BY <1>11, <1>a DEF Hitl, AtWork
    <3>. QED
      BY <1>a, <3>1, OutboxKept DEF TablesOK, counters
  <2>. QED
    BY <1>11, <1>a, <1>b, <2>1, HitlDoes, StepKeepsInv DEF PastAgent
<1>12. CASE HitlUnsaved
  <2>1. TablesOK' /\ runs' = runs
    BY <1>12, <1>a, <1>b, CountersOnly DEF HitlUnsaved
  <2>. QED
    BY <1>12, <1>a, <1>b, <2>1, HitlDoes, StepKeepsInv DEF PastAgent
<1>13. CASE CommandDispatchSkip
  <2>1. runs' = runs /\ node # "idle" /\ node = "command_dispatch" /\ job \in Job
    BY <1>13, <1>a DEF CommandDispatchSkip, AtWork
  <2>2. TablesOK'
    BY <1>13, <1>a, <1>b, <2>1, CountersOnly DEF CommandDispatchSkip
  <2>3. PastAgent'
    BY <1>13, <1>a, <2>1, DispatchSkipDoes DEF PastAgent, SameFlags
  <2>. QED
    BY <1>13, <1>a, <1>b, <2>1, <2>2, <2>3, DispatchSkipDoes, StepKeepsInv
<1>14. CASE CommandDispatch
  <2> DEFINE row == ResponseRow(job, thread.run, thread.response)
  <2>1. /\ node = "command_dispatch" /\ node' = "dispatched" /\ outbox' = outbox \cup {row}
        /\ UNCHANGED <<deployment, thread, job, todo, queue, followUps, holds, facts, counters>>
        /\ thread.response # NoText
    BY <1>14 DEF CommandDispatch, DispatchSkips
  <2>2. row \in [kind: {"response"}, job: Job, run: 1..runs, text: Replies]
    BY <1>a, <1>b, <2>1 DEF ResponseRow, AtWork, GraphState
  <2>3. Responses' = Responses \cup {row} /\ ToolCommands' = ToolCommands
    BY <2>1, ResponseRowAdded
  <2> HIDE DEF row
  <2>4. TablesOK'
    BY <1>a, <2>1, <2>2, <2>3 DEF TablesOK, counters
  <2>5. PlaceOK' /\ ThreadOK' /\ AtWork' /\ PastAgent'
    BY <1>a, <2>1 DEF PlaceOK, ThreadOK, AtWork, PastAgent, Node, counters
  <2>. QED
    BY <2>4, <2>5, TypePartsNext DEF GraphInv
<1>15. CASE DispatchRecorded
  <2>1. TablesOK' /\ runs' = runs /\ node # "idle" /\ node = "dispatched"
    BY <1>15, <1>c DEF DispatchRecorded, counters
  <2>2. PastAgent'
    BY <1>15, <1>a, <2>1, DispatchRecordedDoes DEF PastAgent
  <2>. QED
    BY <1>15, <1>a, <1>b, <2>1, <2>2, DispatchRecordedDoes, StepKeepsInv
<1>16. CASE CommandDispatchFails \/ Crash
  <2>1. TablesOK' /\ UNCHANGED <<deployment, runs>> /\ node' = "idle" /\ job' = NoJob
        /\ todo' = {} /\ \E a \in {"ready", "dead"} : queue' = [queue EXCEPT ![job] = a]
    BY <1>16, <1>a, <1>b, CountersOnly DEF CommandDispatchFails, Crash, RunEnds
  <2>2. thread' = thread \/ thread' = Surviving
    BY <1>16 DEF CommandDispatchFails, Crash
  <2>3. ThreadOK'
    BY <1>a, <2>2, SurvivingTyped DEF ThreadOK
  <2>4. PlaceOK' /\ AtWork' /\ PastAgent'
    BY <1>a, <2>1 DEF PlaceOK, AtWork, PastAgent, Node
  <2>. QED
    BY <2>1, <2>3, <2>4, TypePartsNext DEF GraphInv
<1>17. CASE MemoryWriter
  <2>1. runs' = runs /\ TablesOK'
    <3>1. UNCHANGED <<outbox, followUps, holds, counters>> /\ \E n \in 0..MaxFacts : facts' = Stored(n)
      BY <1>17 DEF MemoryWriter
    <3>2. thread.run \in 1..runs
      BY <1>17, <1>a DEF MemoryWriter, AtWork
    <3>3. facts' \in [FactKey -> 0..runs]
      BY <1>a, <1>b, <3>1, <3>2 DEF TablesOK, Stored
    <3>. QED
      BY <1>a, <3>1, <3>3, OutboxKept DEF TablesOK, counters
  <2>. QED
    BY <1>17, <1>a, <1>b, <2>1, MemoryWriterDoes, StepKeepsInv DEF PastAgent
<1>18. CASE Restart
  <2>1. TablesOK' /\ UNCHANGED <<deployment, node, job, todo, queue, runs>> /\ node = "idle"
        /\ thread' = Surviving
    BY <1>18, <1>a, <1>b, CountersOnly DEF Restart
  <2>2. ThreadOK'
    BY <1>a, <2>1, SurvivingTyped DEF ThreadOK
  <2>3. PlaceOK' /\ AtWork' /\ PastAgent'
    BY <1>a, <2>1 DEF PlaceOK, AtWork, PastAgent
  <2>. QED
    BY <2>1, <2>2, <2>3, TypePartsNext DEF GraphInv
<1>19. CASE UNCHANGED vars
  <2>1. TablesOK' /\ UNCHANGED <<deployment, thread, node, job, todo, queue, runs>>
    BY <1>19, <1>c DEF vars, tables, counters
  <2>2. PlaceOK' /\ ThreadOK' /\ AtWork' /\ PastAgent'
    BY <1>a, <2>1 DEF PlaceOK, ThreadOK, AtWork, PastAgent
  <2>. QED
    BY <2>1, <2>2, TypePartsNext DEF GraphInv
<1>. QED
  BY <1>1, <1>2, <1>3, <1>4, <1>5, <1>6, <1>7, <1>8, <1>9, <1>10, <1>11, <1>12, <1>13,
     <1>14, <1>15, <1>16, <1>17, <1>18, <1>19 DEF Next, RunStep

\* The types of the thread, of the run in progress and of every table hold for any
\* number of turns, redeliveries and faults.
THEOREM GraphTypeCorrect == Spec => []TypeOK
<1>1. GraphInv => TypeOK
  BY DEF GraphInv
<1>. QED
  BY <1>1, GraphInvInit, GraphInvStep, PTL DEF Spec

LEMMA GraphInvariant == Spec => []GraphInv
BY GraphInvInit, GraphInvStep, PTL DEF Spec

-----------------------------------------------------------------------------
(* Which step leads to a node, and which step writes                       *)

\* The edges of the graph, read backwards.
LEMMA Arrivals ==
  ASSUME GraphInv, Next
  PROVE  /\ node' = "eligibility" => \E j \in Job : Begin(j)
         /\ node' = "media_understanding" => Eligibility
         /\ node' = "context_builder" => MediaUnderstanding
         /\ node' = "agent" => ContextBuilder \/ \E c \in Call : ToolCall(c)
         /\ node' = "tool_executor" => AgentAnswers \/ AgentGivesUp \/ ToolsStart
                                       \/ \E c \in Call : ToolCall(c)
         /\ node' = "guardrails" => AgentAnswers \/ AgentGivesUp
         /\ node' \in {"hitl", "command_dispatch"} => Guardrails
         /\ node' = "dispatched" => CommandDispatch
         /\ node' = "memory_writer" => CommandDispatchSkip \/ DispatchRecorded
<1>a. TypeOK /\ AtWork /\ PastAgent
  BY DEF GraphInv
<1>1. ASSUME NEW j \in Job, Begin(j) PROVE node' = "eligibility"
  BY <1>1 DEF Begin
<1>2. CASE Eligibility
  BY <1>2, <1>a, EligibilityDoes
<1>3. CASE CommandAssistant
  BY <1>3, <1>a, CommandAssistantDoes
<1>4. CASE MediaUnderstanding
  BY <1>4, <1>a, MediaUnderstandingDoes
<1>5. CASE ContextBuilder
  BY <1>5, <1>a, ContextBuilderDoes
<1>6. CASE AgentAnswers \/ AgentGivesUp
  BY <1>6, <1>a, AgentDoes
<1>7. CASE AgentFails
  BY <1>7, <1>a, AgentFailsDoes
<1>8. CASE ToolsStart
  BY <1>8 DEF ToolsStart
<1>9. ASSUME NEW c \in Call, ToolCall(c) PROVE node' \in {"tool_executor", "agent"}
  <2>1. node = "tool_executor"
    BY <1>9 DEF ToolCall
  <2>. QED
    BY <1>9, <1>a, <2>1, ToolCallDoes
<1>10. CASE Guardrails
  BY <1>10, <1>a, GuardrailsDoes
<1>11. CASE Hitl \/ HitlUnsaved
  BY <1>11, <1>a, HitlDoes
<1>12. CASE CommandDispatchSkip
  BY <1>12, <1>a, DispatchSkipDoes
<1>13. CASE CommandDispatch
  BY <1>13 DEF CommandDispatch
<1>14. CASE DispatchRecorded
  BY <1>14, <1>a, DispatchRecordedDoes
<1>15. CASE CommandDispatchFails \/ Crash
  BY <1>15 DEF CommandDispatchFails, Crash, RunEnds
<1>16. CASE MemoryWriter
  BY <1>16, <1>a, MemoryWriterDoes
<1>17. CASE Restart
  BY <1>17 DEF Restart
<1>. QED
  BY <1>1, <1>2, <1>3, <1>4, <1>5, <1>6, <1>7, <1>8, <1>9, <1>10, <1>11, <1>12, <1>13,
     <1>14, <1>15, <1>16, <1>17 DEF Next, RunStep

\* Three nodes write outside the thread; the other steps leave those tables alone, and
\* no step changes the modes of the process.
LEMMA WhoWrites ==
  ASSUME [Next]_vars
  PROVE  /\ UNCHANGED deployment
         /\ \/ UNCHANGED <<outbox, followUps, facts>>
            \/ \E c \in Call : ToolCall(c) /\ UNCHANGED facts
            \/ CommandDispatch /\ UNCHANGED <<followUps, facts>>
            \/ MemoryWriter /\ UNCHANGED <<outbox, followUps>>
<1>1. ASSUME NEW j \in Job, Begin(j) PROVE UNCHANGED <<deployment, outbox, followUps, facts>>
  BY <1>1 DEF Begin, tables
<1>2. CASE Eligibility \/ CommandAssistant \/ MediaUnderstanding \/ ContextBuilder
  <2>1. CASE Eligibility \/ ContextBuilder
    BY <2>1 DEF Eligibility, ContextBuilder, tables
  <2>2. CASE CommandAssistant
    BY <2>2 DEF CommandAssistant, tables
  <2>3. CASE MediaUnderstanding
    BY <2>3 DEF MediaUnderstanding, tables
  <2>. QED
    BY <1>2, <2>1, <2>2, <2>3
<1>3. CASE AgentAnswers \/ AgentGivesUp \/ AgentFails
  BY <1>3 DEF AgentAnswers, AgentGivesUp, AgentFails, tables
<1>4. CASE ToolsStart \/ Guardrails \/ HitlUnsaved \/ CommandDispatchSkip
  BY <1>4 DEF ToolsStart, Guardrails, HitlUnsaved, CommandDispatchSkip, tables
<1>5. CASE DispatchRecorded \/ CommandDispatchFails \/ Crash \/ Restart \/ Hitl
  BY <1>5 DEF DispatchRecorded, CommandDispatchFails, Crash, Restart, Hitl, tables
<1>6. ASSUME NEW c \in Call, ToolCall(c) PROVE UNCHANGED <<deployment, facts>>
  BY <1>6 DEF ToolCall
<1>7. CASE CommandDispatch
  BY <1>7 DEF CommandDispatch
<1>8. CASE MemoryWriter
  BY <1>8 DEF MemoryWriter
<1>9. CASE UNCHANGED vars
  BY <1>9 DEF vars
<1>. QED
  BY <1>1, <1>2, <1>3, <1>4, <1>5, <1>6, <1>7, <1>8, <1>9 DEF Next, RunStep

-----------------------------------------------------------------------------
(* Only vetted text is sent                                                *)

\* Between the agent and the outbox: guardrails sees the agent's own words, whatever
\* an earlier run left in agent_response, and dispatch only what guardrails passed.
VetInv ==
  /\ OnlyVettedText
  /\ node = "guardrails" => Raw(thread.response)
  /\ node = "command_dispatch" /\ thread.response # NoText => Passed(thread.response)

LEMMA VetInvStep == GraphInv /\ VetInv /\ [Next]_vars => VetInv'
<1> SUFFICES ASSUME GraphInv, VetInv, [Next]_vars PROVE VetInv'
  OBVIOUS
<1>a. TypeOK /\ AtWork /\ PastAgent
  BY DEF GraphInv
<1>1. OnlyVettedText'
  <2>1. CASE UNCHANGED outbox
    BY <2>1, OutboxKept DEF VetInv, OnlyVettedText
  <2>2. ASSUME NEW c \in Call, ToolCall(c) PROVE Responses' = Responses
    <3>1. PICK r \in Invocations(deployment, c) : ToolWrote(c, r)
      BY <2>2, ToolCallWrites
    <3>. QED
      BY <3>1, OutboxKept, ToolRowAdded DEF ToolWrote
  <2>3. CASE CommandDispatch
    <3> DEFINE row == ResponseRow(job, thread.run, thread.response)
    <3>1. node = "command_dispatch" /\ thread.response # NoText /\ outbox' = outbox \cup {row}
      BY <2>3 DEF CommandDispatch, DispatchSkips
    <3>2. Responses' = Responses \cup {row}
      BY <3>1, ResponseRowAdded
    <3>3. Passed(row.text)
      BY <3>1 DEF VetInv, ResponseRow
    <3> HIDE DEF row
    <3>. QED
      BY <3>2, <3>3 DEF VetInv, OnlyVettedText, Passed
  <2>. QED
    BY <2>1, <2>2, <2>3, WhoWrites DEF VetInv, OnlyVettedText
<1>2. CASE Next
  <2>1. node' = "guardrails" => Raw(thread'.response)
    BY <1>2, <1>a, Arrivals, AgentDoes DEF Raw
  <2>2. node' = "command_dispatch" /\ thread'.response # NoText => Passed(thread'.response)
    <3> SUFFICES ASSUME node' = "command_dispatch", thread'.response # NoText
                 PROVE  Passed(thread'.response)
      OBVIOUS
    <3>1. Guardrails
      BY <1>2, Arrivals
    <3>2. Raw(thread.response)
      BY <3>1 DEF VetInv, Guardrails
    <3>. QED
      BY <1>a, <3>1, <3>2, GuardrailsDoes
  <2>. QED
    BY <1>1, <2>1, <2>2 DEF VetInv, Passed, Raw
<1>3. CASE UNCHANGED vars
  BY <1>1, <1>3 DEF vars, VetInv, Passed, Raw
<1>. QED
  BY <1>2, <1>3

\* No text reaches a contact that the guardrails did not pass in that form, over any
\* number of turns, crashes and redeliveries of one conversation.
THEOREM ContactsReadVettedText == Spec => []OnlyVettedText
<1>1. Init => VetInv
  BY DEF Init, VetInv, OnlyVettedText, Responses
<1>2. VetInv => OnlyVettedText
  BY DEF VetInv
<1>. QED
  BY <1>1, <1>2, VetInvStep, GraphInvariant, PTL DEF Spec

-----------------------------------------------------------------------------
(* The model is told of the message's own attachments                      *)

\* From the initial state, whose metadata is empty, through the two nodes that fill
\* the metadata and the prompt.
MediaInv ==
  /\ node \in {"eligibility", "media_understanding"} => thread.media = {}
  /\ node = "context_builder" => thread.media \subseteq OwnMedia(deployment, job)
  /\ node \in {"agent", "tool_executor"} => thread.prompt \subseteq OwnMedia(deployment, job)

LEMMA MediaInvStep == GraphInv /\ MediaInv /\ [Next]_vars => MediaInv'
<1> SUFFICES ASSUME GraphInv, MediaInv, [Next]_vars PROVE MediaInv'
  OBVIOUS
<1>a. TypeOK /\ AtWork /\ PastAgent
  BY DEF GraphInv
<1>b. deployment' = deployment
  BY WhoWrites
<1>1. CASE Next
  <2>1. node' = "eligibility" => thread'.media = {}
    BY <1>1, <1>a, Arrivals, BeginDoes
  <2>2. node' = "media_understanding" => thread'.media = {}
    BY <1>1, <1>a, Arrivals, EligibilityDoes DEF MediaInv, Eligibility, SameMedia
  <2>3. node' = "context_builder" => thread'.media \subseteq OwnMedia(deployment, job')
    <3> SUFFICES ASSUME node' = "context_builder" PROVE thread'.media \subseteq OwnMedia(deployment, job')
      OBVIOUS
    <3>1. MediaUnderstanding /\ node = "media_understanding"
      BY <1>1, Arrivals DEF MediaUnderstanding
    <3>2. thread'.media \subseteq OwnMedia(deployment, job) /\ job' = job
      BY <1>a, <3>1, MediaUnderstandingDoes DEF MediaInv
    <3>. QED
      BY <3>2
  <2>4. node' \in {"agent", "tool_executor"} => thread'.prompt \subseteq OwnMedia(deployment, job')
    <3> SUFFICES ASSUME node' \in {"agent", "tool_executor"}
                 PROVE  thread'.prompt \subseteq OwnMedia(deployment, job')
      OBVIOUS
    <3>1. CASE ContextBuilder
      <4>1. node = "context_builder"
        BY <3>1 DEF ContextBuilder
      <4>2. thread'.prompt \subseteq OwnMedia(deployment, job) /\ job' = job
        BY <1>a, <3>1, <4>1, ContextBuilderDoes DEF MediaInv
      <4>. QED
        BY <4>1, <4>2
    <3>2. CASE AgentAnswers \/ AgentGivesUp
      <4>1. node = "agent"
        BY <3>2 DEF AgentAnswers, AgentGivesUp
      <4>2. thread'.prompt = thread.prompt /\ job' = job
        BY <1>a, <3>2, AgentDoes DEF SameMedia
      <4>. QED
        BY <4>1, <4>2 DEF MediaInv
    <3>3. ASSUME NEW c \in Call, ToolCall(c)
          PROVE  thread'.prompt \subseteq OwnMedia(deployment, job')
      <4>1. node = "tool_executor"
        BY <3>3 DEF ToolCall
      <4>2. thread'.prompt = thread.prompt /\ job' = job
        BY <1>a, <3>3, ToolCallDoes DEF SameMedia
      <4>. QED
        BY <4>1, <4>2 DEF MediaInv
    <3>4. CASE ToolsStart
      <4>1. node = "tool_executor" /\ UNCHANGED <<thread, job>>
        BY <3>4 DEF ToolsStart
      <4>. QED
        BY <4>1 DEF MediaInv
    <3>. QED
      BY <1>1, <3>1, <3>2, <3>3, <3>4, Arrivals
  <2>. QED
    BY <1>b, <2>1, <2>2, <2>3, <2>4 DEF MediaInv
<1>2. CASE UNCHANGED vars
  BY <1>2 DEF vars, MediaInv
<1>. QED
  BY <1>1, <1>2

\* The prompt quotes the attachments of the message it answers and of no earlier one,
\* each read by a model the deployment has.
THEOREM PromptsHaveOwnMedia == Spec => []PromptHasOwnMedia
<1>1. Init => MediaInv
  BY DEF Init, MediaInv
<1>2. MediaInv => PromptHasOwnMedia
  BY DEF MediaInv, PromptHasOwnMedia, OwnMedia, Readable
<1>. QED
  BY <1>1, <1>2, MediaInvStep, GraphInvariant, PTL DEF Spec

-----------------------------------------------------------------------------
(* What only grows                                                         *)

\* Where the checkpoint survives the worker, no node clears a flag or takes a step
\* back, and Begin keeps both.
LEMMA ThreadGrows ==
  ASSUME GraphInv, [Next]_vars, deployment \in Durable
  PROVE  /\ thread'.step >= thread.step /\ thread'.step \in Nat
         /\ thread.sent => thread'.sent
         /\ thread.error => thread'.error
         /\ thread.hitl => thread'.hitl
         /\ thread'.lastUser = thread.lastUser \/ \E j \in Job : Begin(j)
<1>a. TypeOK /\ AtWork /\ PastAgent /\ thread.step \in Nat
  BY DEF GraphInv, TypeOK, GraphState
<1>b. thread'.step \in Nat
  BY GraphInvStep DEF GraphInv, TypeOK, GraphState
<1>1. ASSUME NEW j \in Job, Begin(j) PROVE thread'.step = thread.step /\ SameFlags(thread, thread')
  BY <1>1, <1>a, BeginDoes
<1>2. CASE Eligibility
  BY <1>2, <1>a, <1>b, EligibilityDoes DEF Stepped, SameFlags
<1>3. CASE CommandAssistant
  BY <1>3, <1>a, <1>b, CommandAssistantDoes DEF Stepped
<1>4. CASE MediaUnderstanding
  BY <1>4, <1>a, <1>b, MediaUnderstandingDoes DEF Stepped, SameFlags
<1>5. CASE ContextBuilder
  BY <1>5, <1>a, <1>b, ContextBuilderDoes DEF Stepped, SameFlags
<1>6. CASE AgentAnswers \/ AgentGivesUp
  BY <1>6, <1>a, <1>b, AgentDoes DEF Stepped, SameFlags
<1>7. CASE AgentFails
  BY <1>7, <1>a, <1>b, AgentFailsDoes DEF Stepped
<1>8. CASE ToolsStart \/ CommandDispatch \/ CommandDispatchFails \/ Crash \/ Restart
           \/ UNCHANGED vars
  <2>1. thread' = thread
    BY <1>8 DEF ToolsStart, CommandDispatch, CommandDispatchFails, Crash, Restart, Surviving,
                vars
  <2>. QED
    BY <1>a, <2>1
<1>9. ASSUME NEW c \in Call, ToolCall(c)
      PROVE  thread'.step >= thread.step /\ SameFlags(thread, thread')
             /\ thread'.lastUser = thread.lastUser
  BY <1>9, <1>a, <1>b, ToolCallDoes DEF Stepped, SameFlags
<1>10. CASE Guardrails
  <2>1. ~thread.error /\ ~thread.hitl
    BY <1>10, <1>a DEF Guardrails, PastAgent
  <2>. QED
    BY <1>10, <1>a, <1>b, <2>1, GuardrailsDoes DEF Stepped
<1>11. CASE Hitl \/ HitlUnsaved
  BY <1>11, <1>a, <1>b, HitlDoes DEF Stepped
<1>12. CASE CommandDispatchSkip
  BY <1>12, <1>a, <1>b, DispatchSkipDoes DEF Stepped, SameFlags
<1>13. CASE DispatchRecorded
  BY <1>13, <1>a, <1>b, DispatchRecordedDoes DEF Stepped
<1>14. CASE MemoryWriter
  BY <1>14, <1>a, <1>b, MemoryWriterDoes DEF Stepped, SameFlags
<1>. QED
  BY <1>a, <1>b, <1>1, <1>2, <1>3, <1>4, <1>5, <1>6, <1>7, <1>8, <1>9, <1>10, <1>11, <1>12,
     <1>13, <1>14 DEF Next, RunStep, SameFlags

\* Rows, holds and the marks of what happened stay, and only the agent node asks the
\* model.
LEMMA TablesGrow ==
  ASSUME GraphInv, [Next]_vars
  PROVE  /\ outbox \subseteq outbox' /\ holds \subseteq holds' /\ mute \subseteq mute'
         /\ faults' >= faults /\ faults' \in Nat
         /\ \/ llmCalls' = llmCalls
            \/ (AgentAnswers \/ AgentFails) /\ llmCalls' = llmCalls + 1
<1>a. faults \in Nat
  BY DEF GraphInv, TypeOK
<1>1. ASSUME NEW j \in Job, Begin(j)
      PROVE  UNCHANGED <<outbox, holds, mute, faults, llmCalls>>
  BY <1>1 DEF Begin, tables
<1>2. CASE Eligibility \/ ContextBuilder \/ ToolsStart \/ Guardrails
  BY <1>2, <1>a DEF Eligibility, ContextBuilder, ToolsStart, Guardrails, tables, counters
<1>3. CASE CommandAssistant
  BY <1>3, <1>a DEF CommandAssistant, tables, counters
<1>4. CASE MediaUnderstanding
  BY <1>4, <1>a DEF MediaUnderstanding, tables, counters
<1>5. CASE AgentAnswers
  <2>1. UNCHANGED <<outbox, holds, mute, faults>> /\ llmCalls' = llmCalls + 1
    BY <1>5 DEF AgentAnswers, tables
  <2>. QED
    BY <1>5, <1>a, <2>1
<1>6. CASE AgentGivesUp \/ DispatchRecorded
  BY <1>6, <1>a DEF AgentGivesUp, DispatchRecorded, tables, counters
<1>7. CASE AgentFails
  BY <1>7, <1>a DEF AgentFails, tables
<1>8. ASSUME NEW c \in Call, ToolCall(c)
      PROVE  outbox \subseteq outbox' /\ UNCHANGED <<holds, mute, faults, llmCalls>>
  BY <1>8 DEF ToolCall, counters
<1>9. CASE Hitl \/ HitlUnsaved
  BY <1>9, <1>a DEF Hitl, HitlUnsaved, tables, counters
<1>10. CASE CommandDispatchSkip
  BY <1>10, <1>a DEF CommandDispatchSkip, tables
<1>11. CASE CommandDispatch \/ CommandDispatchFails \/ Crash \/ Restart
  BY <1>11, <1>a DEF CommandDispatch, CommandDispatchFails, Crash, Restart, tables, counters
<1>12. CASE MemoryWriter
  BY <1>12, <1>a DEF MemoryWriter, counters
<1>13. CASE UNCHANGED vars
  BY <1>13, <1>a DEF vars
<1>. QED
  BY <1>a, <1>1, <1>2, <1>3, <1>4, <1>5, <1>6, <1>7, <1>8, <1>9, <1>10, <1>11, <1>12,
     <1>13 DEF Next, RunStep

-----------------------------------------------------------------------------
(* The budget of model calls                                               *)

\* The steps a run has counted since the last model call of the conversation: the
\* nodes on the way to the agent each count one.
StepsAhead(n) ==
  CASE n = "media_understanding" -> 1
    [] n \in {"context_builder", "tool_executor"} -> 2
    [] n = "agent" -> 3
    [] OTHER -> 0

\* Every model call costs two steps at least, three before the first of a run, as long
\* as the thread keeps its count.
BudgetInv ==
  deployment \in Durable =>
    LlmBudget /\ thread.step >= 2 * llmCalls + StepsAhead(node)

LEMMA BudgetInvStep == GraphInv /\ BudgetInv /\ [Next]_vars => BudgetInv'
<1> SUFFICES ASSUME GraphInv, BudgetInv, [Next]_vars PROVE BudgetInv'
  OBVIOUS
<1>d. deployment' = deployment
  BY WhoWrites
<1> SUFFICES ASSUME deployment \in Durable PROVE BudgetInv'
  BY <1>d DEF BudgetInv
<1>a. TypeOK /\ AtWork /\ PastAgent /\ thread.step \in Nat /\ llmCalls \in Nat
  BY DEF GraphInv, TypeOK, GraphState
<1>b. thread'.step \in Nat /\ thread'.step >= thread.step
  BY ThreadGrows
<1>c. MaxToolIterations \in Nat
  BY GraphAssumption
<1>1. CASE AgentAnswers \/ AgentFails
  <2>1. node = "agent" /\ thread.step < 2 * MaxToolIterations /\ llmCalls' = llmCalls + 1
    <3>1. node = "agent" /\ ~StepsUsedUp /\ llmCalls' = llmCalls + 1
      BY <1>1 DEF AgentAnswers, AgentFails
    <3>. QED
      BY <1>a, <1>c, <3>1 DEF StepsUsedUp
  <2>2. thread.step >= 2 * llmCalls + 3
    BY <2>1 DEF BudgetInv, StepsAhead
  <2>3. node' \in {"idle", "tool_executor", "guardrails"} /\ thread'.step = thread.step + 1
    BY <1>1, <1>a, AgentDoes, AgentFailsDoes DEF Stepped
  <2>4. StepsAhead(node') \in 0..2
    BY <2>3 DEF StepsAhead
  <2>5. thread'.step >= 2 * llmCalls' + StepsAhead(node')
    BY <1>a, <2>1, <2>2, <2>3, <2>4
  <2>6. LlmBudget'
    BY <1>a, <1>c, <2>1, <2>2 DEF LlmBudget
  <2>. QED
    BY <2>5, <2>6 DEF BudgetInv
<1>2. CASE ~(AgentAnswers \/ AgentFails)
  <2>1. llmCalls' = llmCalls
    BY <1>2, TablesGrow
  <2>2. LlmBudget'
    BY <2>1 DEF BudgetInv, LlmBudget
  <2>3. CASE Next
    <3>1. CASE node' = "media_understanding"
      <4>1. node = "eligibility" /\ thread'.step = thread.step + 1
        BY <1>a, <2>3, <3>1, Arrivals, EligibilityDoes DEF Eligibility, Stepped
      <4>. QED
        BY <1>a, <2>1, <2>2, <3>1, <4>1 DEF BudgetInv, StepsAhead
    <3>2. CASE node' = "context_builder"
      <4>1. node = "media_understanding" /\ thread'.step = thread.step + 1
        BY <1>a, <2>3, <3>2, Arrivals, MediaUnderstandingDoes DEF MediaUnderstanding, Stepped
      <4>. QED
        BY <1>a, <2>1, <2>2, <3>2, <4>1 DEF BudgetInv, StepsAhead
    <3>3. CASE node' = "agent"
      <4>1. node \in {"context_builder", "tool_executor"} /\ thread'.step = thread.step + 1
        <5>1. CASE ContextBuilder
          BY <1>a, <5>1, ContextBuilderDoes DEF ContextBuilder, Stepped
        <5>2. ASSUME NEW c \in Call, ToolCall(c)
              PROVE  node = "tool_executor" /\ thread'.step = thread.step + 1
          <6>1. node = "tool_executor"
            BY <5>2 DEF ToolCall
          <6>. QED
            BY <1>a, <3>3, <5>2, <6>1, ToolCallDoes DEF Stepped
        <5>. QED
          BY <2>3, <3>3, <5>1, <5>2, Arrivals
      <4>. QED
        BY <1>a, <2>1, <2>2, <3>3, <4>1 DEF BudgetInv, StepsAhead
    <3>4. CASE node' = "tool_executor"
      <4>1. node \in {"tool_executor", "agent"}
        BY <2>3, <3>4, Arrivals DEF AgentAnswers, AgentGivesUp, ToolsStart, ToolCall
      <4>2. thread.step >= 2 * llmCalls + 2
        BY <1>a, <4>1 DEF BudgetInv, StepsAhead
      <4>. QED
        BY <1>a, <1>b, <2>1, <2>2, <3>4, <4>2 DEF BudgetInv, StepsAhead
    <3>5. CASE node' \notin {"media_understanding", "context_builder", "agent", "tool_executor"}
      <4>1. StepsAhead(node') = 0 /\ StepsAhead(node) \in 0..3
        BY <3>5 DEF StepsAhead
      <4>. QED
        BY <1>a, <1>b, <2>1, <2>2, <4>1 DEF BudgetInv
    <3>. QED
      BY <3>1, <3>2, <3>3, <3>4, <3>5
  <2>4. CASE UNCHANGED vars
    BY <2>2, <2>4 DEF vars, BudgetInv
  <2>. QED
    BY <2>3, <2>4
<1>. QED
  BY <1>1, <1>2

\* Where the checkpointer is Postgres, the agent node asks the model at most
\* MAX_TOOL_ITERATIONS - 1 times over the whole life of a conversation, whatever it answers and however often a message is redelivered.
THEOREM ModelCallsBounded == Spec => []LlmBudget
<1>1. Init => BudgetInv
  BY GraphAssumption DEF Init, NewThread, BudgetInv, LlmBudget, StepsAhead
<1>2. BudgetInv => LlmBudget
  BY DEF BudgetInv, LlmBudget
<1>. QED
  BY <1>1, <1>2, BudgetInvStep, GraphInvariant, PTL DEF Spec

-----------------------------------------------------------------------------
(* Tools write only what the deployment's modes permit                     *)

\* What may come of one invocation of the gateway: an outbox command takes a mode that
\* permits that tool's writes, a follow-up a contact that did not opt out.
LEMMA InvocationEffects ==
  ASSUME NEW p \in Deployment, NEW c, NEW r \in Invocations(p, c)
  PROVE  /\ r.effect = "outbox" =>
              \/ c.tool \in KanbanWrites /\ p.kanban = "write_confirmed"
              \/ c.tool \in CampaignWrites /\ p.campaign = "approved_send"
         /\ r.effect = "follow_up" => ~c.optedOut
<1> DEFINE pol == Policy(p, c.tool)
<1>1. CASE r \in Execute(p, c, pol) /\ c.tool \in Registered /\ pol.approved
  <2>1. CASE c.tool \in FollowUpTools
    BY <1>1, <2>1 DEF Execute, ExecuteFollowUp, Result
  <2>2. CASE c.tool \notin FollowUpTools /\ c.tool \notin SideEffecting
    BY <1>1, <2>2 DEF Execute, ExecuteRead, Result
  <2>3. CASE /\ c.tool \notin FollowUpTools /\ c.tool \in SideEffecting
             /\ pol.draft \/ pol.mode \in {"draft_only", "suggest_only", "dry_run"}
    BY <1>1, <2>3 DEF Execute, ExecuteDraft, Result
  <2>4. CASE /\ c.tool \notin FollowUpTools /\ c.tool \in SideEffecting
             /\ ~(pol.draft \/ pol.mode \in {"draft_only", "suggest_only", "dry_run"})
    <3>1. r.effect # "follow_up"
      BY <1>1, <2>4 DEF Execute, ExecuteWithOutbox, Result
    <3>2. ASSUME c.tool \in KanbanWrites PROVE p.kanban = "write_confirmed"
      <4>1. pol = CheckKanban(p)
        BY <3>2 DEF Policy, KanbanWrites, CampaignWrites, ReadOnlyTools
      <4>2. p.kanban \in {"suggest_only", "write_confirmed"}
        BY DEF Deployment
      <4> HIDE DEF pol
      <4>3. p.kanban = "suggest_only" => pol.draft
        BY <4>1 DEF CheckKanban, Allow
      <4>. QED
        BY <2>4, <4>2, <4>3
    <3>3. ASSUME c.tool \in CampaignWrites PROVE p.campaign = "approved_send"
      <4>1. pol = CheckCampaign(p, c.tool)
        BY <3>3 DEF Policy, KanbanWrites, CampaignWrites, ReadOnlyTools
      <4>2. p.campaign \in {"draft_only", "dry_run", "sandbox", "approved_send"}
        BY DEF Deployment
      <4> HIDE DEF pol
      <4>3. p.campaign \in {"draft_only", "dry_run"} => pol.draft \/ ~pol.approved
        BY <4>1 DEF CheckCampaign, Allow, Deny
      <4>4. p.campaign = "sandbox" => ~pol.approved
        BY <4>1 DEF CheckCampaign, Deny
      <4>. QED
        BY <1>1, <2>4, <4>2, <4>3, <4>4
    <3>4. c.tool \in KanbanWrites \cup CampaignWrites
      BY <2>4 DEF Policy, CheckHighRisk, Allow, SideEffecting, ReadOnlyTools, SchedulingTools,
                  KanbanWrites, CampaignWrites, FollowUpTools
    <3>. QED
      BY <3>1, <3>2, <3>3, <3>4
  <2>. QED
    BY <2>1, <2>2, <2>3, <2>4
<1>2. CASE r.effect = "none"
  BY <1>2
<1>3. (r \in Execute(p, c, pol) /\ c.tool \in Registered /\ pol.approved) \/ r.effect = "none"
  BY GatewayAssumption DEF Invocations, Result
<1>. QED
  BY <1>1, <1>2, <1>3

\* Every command a tool put into the outbox was permitted, and every follow-up is due
\* outside the quiet hours, for a contact that did not opt out.
THEOREM ToolWritesApproved == Spec => []NoUnapprovedWrite
<1>1. Init => NoUnapprovedWrite
  BY DEF Init, NoUnapprovedWrite, ToolCommands
<1>2. GraphInv /\ NoUnapprovedWrite /\ [Next]_vars => NoUnapprovedWrite'
  <2> SUFFICES ASSUME GraphInv, NoUnapprovedWrite, [Next]_vars PROVE NoUnapprovedWrite'
    OBVIOUS
  <2>a. deployment' = deployment /\ deployment \in Deployment
    BY WhoWrites, GraphAssumption DEF GraphInv, TypeOK
  <2>1. CASE UNCHANGED <<outbox, followUps>>
    BY <2>1, <2>a, OutboxKept DEF NoUnapprovedWrite
  <2>2. ASSUME NEW c \in Call, ToolCall(c) PROVE NoUnapprovedWrite'
    <3>1. PICK r \in Invocations(deployment, c) : ToolWrote(c, r)
      BY <2>2, ToolCallWrites
    <3>2. /\ r.effect = "outbox" =>
               \/ c.tool \in KanbanWrites /\ deployment.kanban = "write_confirmed"
               \/ c.tool \in CampaignWrites /\ deployment.campaign = "approved_send"
          /\ r.effect = "follow_up" => ~c.optedOut
      BY <2>a, <3>1, InvocationEffects
    <3>3. \A o \in ToolCommands' :
            \/ o.call.tool \in KanbanWrites /\ deployment.kanban = "write_confirmed"
            \/ o.call.tool \in CampaignWrites /\ deployment.campaign = "approved_send"
      <4>1. CASE r.effect # "outbox"
        BY <3>1, <4>1, OutboxKept DEF ToolWrote, NoUnapprovedWrite
      <4>2. CASE r.effect = "outbox"
        <5> DEFINE row == ToolRow(job, thread.run, c, thread.step)
        <5>1. ToolCommands' = ToolCommands \cup {row}
          BY <3>1, <4>2, ToolRowAdded DEF ToolWrote
        <5>2. row.call = c
          BY DEF ToolRow
        <5> HIDE DEF row
        <5>. QED
          BY <3>2, <4>2, <5>1, <5>2 DEF NoUnapprovedWrite
      <4>. QED
        BY <4>1, <4>2
    <3>4. \A f \in followUps' : Allowed(f.asked, f.due) /\ ~f.optedOut
      <4>1. CASE r.effect # "follow_up"
        BY <3>1, <4>1 DEF ToolWrote, NoUnapprovedWrite, Allowed
      <4>2. CASE r.effect = "follow_up"
        <5> DEFINE due == NextNonQuietTime(c.hour)
                   item == [job |-> job, run |-> thread.run, asked |-> c.hour, due |-> due,
                            at |-> thread.step, optedOut |-> c.optedOut]
        <5>1. followUps' = followUps \cup {item}
          BY <3>1, <4>2 DEF ToolWrote
        <5>2. Allowed(c.hour, due) /\ ~c.optedOut
          BY <3>2, <4>2, QuietHoursAvoided, GraphAssumption
        <5> HIDE DEF due
        <5>3. item.asked = c.hour /\ item.due = due /\ item.optedOut = c.optedOut
          OBVIOUS
        <5> HIDE DEF item
        <5>. QED
          BY <5>1, <5>2, <5>3 DEF NoUnapprovedWrite, Allowed
      <4>. QED
        BY <4>1, <4>2
    <3>. QED
      BY <2>a, <3>3, <3>4 DEF NoUnapprovedWrite, Allowed
  <2>3. CASE CommandDispatch /\ UNCHANGED followUps
    <3>1. ToolCommands' = ToolCommands
      BY <2>3, ResponseRowAdded DEF CommandDispatch
    <3>. QED
      BY <2>3, <2>a, <3>1 DEF NoUnapprovedWrite
  <2>. QED
    BY <2>1, <2>2, <2>3, WhoWrites
<1>. QED
  BY <1>1, <1>2, GraphInvariant, PTL DEF Spec

-----------------------------------------------------------------------------
(* Commands stay out of the conversation                                   *)

\* The nodes that answer a message as conversation.
AgentPath ==
  {"media_understanding", "context_builder", "agent", "tool_executor", "guardrails", "hitl",
   "command_dispatch", "dispatched", "memory_writer"}

\* They are entered through eligibility_node only, and a run keeps its message.
LEMMA AgentPathEntered ==
  ASSUME GraphInv, Next, node' \in AgentPath
  PROVE  job' = job /\ (Eligibility \/ node \in AgentPath)
<1>a. TypeOK /\ AtWork /\ PastAgent
  BY DEF GraphInv
<1>1. CASE Eligibility
  BY <1>1, <1>a, EligibilityDoes DEF AgentPath
<1>2. CASE MediaUnderstanding
  BY <1>2, <1>a, MediaUnderstandingDoes DEF AgentPath, MediaUnderstanding
<1>3. CASE ContextBuilder
  BY <1>3, <1>a, ContextBuilderDoes DEF AgentPath, ContextBuilder
<1>4. ASSUME NEW c \in Call, ToolCall(c) PROVE job' = job /\ node \in AgentPath
  BY <1>4 DEF AgentPath, ToolCall
<1>5. CASE AgentAnswers \/ AgentGivesUp
  <2>1. node = "agent"
    BY <1>5 DEF AgentAnswers, AgentGivesUp
  <2>. QED
    BY <1>5, <1>a, <2>1, AgentDoes DEF AgentPath
<1>6. CASE ToolsStart \/ CommandDispatch
  BY <1>6 DEF AgentPath, ToolsStart, CommandDispatch
<1>7. CASE Guardrails
  BY <1>7, <1>a, GuardrailsDoes DEF AgentPath, Guardrails
<1>8. CASE CommandDispatchSkip
  BY <1>8, <1>a, DispatchSkipDoes DEF AgentPath, CommandDispatchSkip
<1>9. CASE DispatchRecorded
  BY <1>9, <1>a, DispatchRecordedDoes DEF AgentPath, DispatchRecorded
<1>. QED
  BY <1>1, <1>2, <1>3, <1>4, <1>5, <1>6, <1>7, <1>8, <1>9, Arrivals DEF AgentPath

\* What eligibility_node is given: the guard reads the last user message of the thread,
\* which is this message's unless it has no content.
UserInv ==
  node = "eligibility" => Content[job] = "none" \/ thread.lastUser = Content[job]

LEMMA UserInvStep == GraphInv /\ UserInv /\ [Next]_vars => UserInv'
<1> SUFFICES ASSUME GraphInv, UserInv, [Next]_vars PROVE UserInv'
  OBVIOUS
<1>1. CASE Next
  BY <1>1, Arrivals, BeginDoes DEF UserInv, GraphInv
<1>2. CASE UNCHANGED vars
  BY <1>2 DEF vars, UserInv
<1>. QED
  BY <1>1, <1>2

\* A message on the agent's path is not a command.
CommandInv ==
  /\ CommandsNeverReachTheAgent
  /\ UserInv
  /\ node \in AgentPath => Content[job] # "command"

LEMMA CommandInvStep == GraphInv /\ CommandInv /\ [Next]_vars => CommandInv'
<1> SUFFICES ASSUME GraphInv, CommandInv, [Next]_vars PROVE CommandInv'
  OBVIOUS
<1>a. TypeOK /\ AtWork /\ PastAgent
  BY DEF GraphInv
<1>1. CommandsNeverReachTheAgent'
  <2>1. CASE UNCHANGED <<outbox, followUps>>
    BY <2>1 DEF CommandInv, CommandsNeverReachTheAgent
  <2>2. ASSUME NEW c \in Call, ToolCall(c) PROVE CommandsNeverReachTheAgent'
    <3>1. Content[job] # "command"
      BY <2>2 DEF CommandInv, ToolCall, AgentPath
    <3>2. PICK r \in Invocations(deployment, c) : ToolWrote(c, r)
      BY <2>2, ToolCallWrites
    <3>3. \A o \in outbox' \cup followUps' : o \in outbox \cup followUps \/ o.job = job
      BY <3>2 DEF ToolWrote, ToolRow
    <3>. QED
      BY <3>1, <3>3 DEF CommandInv, CommandsNeverReachTheAgent
  <2>3. CASE CommandDispatch /\ UNCHANGED followUps
    <3>1. Content[job] # "command"
      BY <2>3 DEF CommandInv, CommandDispatch, AgentPath
    <3>2. \A o \in outbox' : o \in outbox \/ o.job = job
      BY <2>3 DEF CommandDispatch, ResponseRow
    <3>. QED
      BY <2>3, <3>1, <3>2 DEF CommandInv, CommandsNeverReachTheAgent
  <2>. QED
    BY <2>1, <2>2, <2>3, WhoWrites
<1>2. UserInv'
  BY UserInvStep DEF CommandInv
<1>3. node' \in AgentPath => Content[job'] # "command"
  <2> SUFFICES ASSUME node' \in AgentPath PROVE Content[job'] # "command"
    OBVIOUS
  <2>1. CASE Next
    <3>1. job' = job /\ (Eligibility \/ node \in AgentPath)
      BY <2>1, AgentPathEntered
    <3>2. CASE Eligibility
      <4>1. node = "eligibility" /\ thread.lastUser # "command"
        BY <1>a, <3>2, EligibilityDoes DEF AgentPath, Eligibility
      <4>. QED
        BY <3>1, <4>1 DEF CommandInv, UserInv
    <3>. QED
      BY <3>1, <3>2 DEF CommandInv
  <2>2. CASE UNCHANGED vars
    BY <2>2 DEF vars, CommandInv
  <2>. QED
    BY <2>1, <2>2
<1>. QED
  BY <1>1, <1>2, <1>3 DEF CommandInv

\* An operator command is never answered as conversation: no response, tool command or
\* follow-up carries it, also when it is redelivered or comes from someone who may not
\* issue commands.
THEOREM CommandsStayOut == Spec => []CommandsNeverReachTheAgent
<1>1. Init => CommandInv
  BY DEF Init, CommandInv, CommandsNeverReachTheAgent, UserInv, AgentPath
<1>2. CommandInv => CommandsNeverReachTheAgent
  BY DEF CommandInv
<1>. QED
  BY <1>1, <1>2, CommandInvStep, GraphInvariant, PTL DEF Spec

-----------------------------------------------------------------------------
(* A message without a response is explained                               *)

\* The node hitl is left by registering the hold, or by a fault.
LEMMA HitlLeft ==
  ASSUME Next, node = "hitl"
  PROVE  Hitl \/ HitlUnsaved \/ Crash
<1>1. \A j \in Job : ~Begin(j)
  BY DEF Begin
<1>2. ~Eligibility /\ ~CommandAssistant /\ ~MediaUnderstanding /\ ~ContextBuilder
  BY DEF Eligibility, CommandAssistant, MediaUnderstanding, ContextBuilder
<1>3. ~AgentAnswers /\ ~AgentGivesUp /\ ~AgentFails /\ ~ToolsStart /\ \A c \in Call : ~ToolCall(c)
  BY DEF AgentAnswers, AgentGivesUp, AgentFails, ToolsStart, ToolCall
<1>4. ~Guardrails /\ ~CommandDispatchSkip /\ ~CommandDispatch /\ ~DispatchRecorded
      /\ ~CommandDispatchFails /\ ~MemoryWriter
  BY DEF Guardrails, CommandDispatchSkip, CommandDispatch, DispatchRecorded,
         CommandDispatchFails, MemoryWriter
<1>5. ~Restart
  BY DEF Restart
<1>. QED
  BY <1>1, <1>2, <1>3, <1>4, <1>5 DEF Next, RunStep

\* A hold is requested by guardrails_node, whose edge leads to hitl_node.
LEMMA HoldRaised ==
  ASSUME GraphInv, Next, ~thread.hitl, thread'.hitl
  PROVE  node' = "hitl" \/ Hitl \/ HitlUnsaved
<1>a. TypeOK /\ AtWork /\ PastAgent
  BY DEF GraphInv
<1>1. ASSUME NEW j \in Job, Begin(j) PROVE FALSE
  BY <1>1, <1>a, BeginDoes DEF SameFlags
<1>2. CASE Eligibility
  BY <1>2, <1>a, EligibilityDoes DEF SameFlags
<1>3. CASE CommandAssistant
  BY <1>3, <1>a, CommandAssistantDoes
<1>4. CASE MediaUnderstanding
  BY <1>4, <1>a, MediaUnderstandingDoes DEF SameFlags
<1>5. CASE ContextBuilder
  BY <1>5, <1>a, ContextBuilderDoes DEF SameFlags
<1>6. CASE AgentAnswers \/ AgentGivesUp
  BY <1>6, <1>a, AgentDoes DEF SameFlags
<1>7. CASE AgentFails
  BY <1>7, <1>a, AgentFailsDoes
<1>8. CASE ToolsStart \/ CommandDispatch \/ CommandDispatchFails \/ Crash \/ Restart
  <2>1. thread' = thread \/ thread' = NewThread
    BY <1>8 DEF ToolsStart, CommandDispatch, CommandDispatchFails, Crash, Restart, Surviving
  <2>. QED
    BY <2>1 DEF NewThread
<1>9. ASSUME NEW c \in Call, ToolCall(c) PROVE FALSE
  BY <1>9, <1>a, ToolCallDoes DEF SameFlags
<1>10. CASE Guardrails
  BY <1>10, <1>a, GuardrailsDoes
<1>11. CASE CommandDispatchSkip
  BY <1>11, <1>a, DispatchSkipDoes DEF SameFlags
<1>12. CASE DispatchRecorded
  BY <1>12, <1>a, DispatchRecordedDoes
<1>13. CASE MemoryWriter
  BY <1>13, <1>a, MemoryWriterDoes DEF SameFlags
<1>. QED
  BY <1>1, <1>2, <1>3, <1>4, <1>5, <1>6, <1>7, <1>8, <1>9, <1>10, <1>11, <1>12, <1>13
     DEF Next, RunStep

\* What the thread and the tables say of a message whose run is over.
Explained(j) ==
  \/ \E o \in Responses : o.job = j
  \/ thread.sent \/ thread.error \/ j \in mute
  \/ thread.hitl /\ (holds # {} \/ faults > 0)
  \/ Content[j] = "command"
  \/ Content[j] = "none" /\ \E k \in Job : Content[k] = "command"

\* A hold in the thread is in the table or about to be, unless a fault came between;
\* a command in the thread came with a message; and a run is at the memory writer after
\* a response, or with nothing to say.  All of it where the checkpoint survives.
DoneInv ==
  deployment \in Durable =>
    /\ DoneIsAccountedFor
    /\ UserInv
    /\ thread.lastUser = "command" => \E k \in Job : Content[k] = "command"
    /\ thread.hitl => holds # {} \/ faults > 0 \/ node = "hitl"
    /\ node = "memory_writer" => thread.sent \/ job \in mute

LEMMA ExplainedStays ==
  ASSUME GraphInv, [Next]_vars, deployment \in Durable, NEW j \in Job, Explained(j)
  PROVE  Explained(j)'
<1>1. Responses \subseteq Responses' /\ holds \subseteq holds' /\ mute \subseteq mute'
      /\ (faults > 0 => faults' > 0)
  <2>1. faults \in Nat
    BY DEF GraphInv, TypeOK
  <2>. QED
    BY <2>1, TablesGrow DEF Responses
<1>2. /\ thread.sent => thread'.sent
      /\ thread.error => thread'.error
      /\ thread.hitl => thread'.hitl
  BY ThreadGrows
<1>. QED
  BY <1>1, <1>2 DEF Explained

\* The step that acks a message leaves its explanation behind.
LEMMA AckedIsExplained ==
  ASSUME GraphInv, DoneInv, Next, deployment \in Durable,
         NEW j \in Job, queue'[j] = "done", queue[j] # "done"
  PROVE  Explained(j)'
<1>a. TypeOK /\ AtWork /\ PastAgent /\ queue \in [Job -> {"ready", "working", "done", "dead"}]
  BY DEF GraphInv, TypeOK
<1>b. node # "idle" => job \in Job
  BY <1>a DEF AtWork
<1>1. ASSUME NEW k \in Job, Begin(k) PROVE FALSE
  BY <1>1, <1>a DEF Begin
<1>2. CASE Eligibility
  <2>1. node' = "idle" /\ thread.lastUser = "command" /\ queue' = [queue EXCEPT ![job] = "done"]
    BY <1>2, <1>a, EligibilityDoes
  <2>2. j = job /\ node = "eligibility"
    BY <1>2, <1>a, <2>1 DEF Eligibility
  <2>. QED
    BY <2>1, <2>2 DEF DoneInv, UserInv, Explained
<1>3. CASE CommandAssistant
  BY <1>3, <1>a, CommandAssistantDoes DEF Explained
<1>4. CASE MediaUnderstanding
  BY <1>4, <1>a, MediaUnderstandingDoes DEF Explained
<1>5. CASE ContextBuilder
  BY <1>5, <1>a, ContextBuilderDoes DEF Explained
<1>6. CASE AgentAnswers \/ AgentGivesUp
  <2>1. node = "agent" /\ UNCHANGED holds
    BY <1>6 DEF AgentAnswers, AgentGivesUp, tables
  <2>2. thread'.error \/ (thread'.hitl /\ thread.hitl)
    BY <1>6, <1>a, AgentDoes DEF SameFlags
  <2>3. faults \in Nat /\ faults' >= faults /\ faults' \in Nat
    BY <1>a, TablesGrow DEF TypeOK
  <2>4. thread.hitl => holds' # {} \/ faults' > 0
    BY <2>1, <2>3 DEF DoneInv
  <2>. QED
    BY <2>2, <2>4 DEF Explained
<1>7. CASE AgentFails
  BY <1>7, <1>a, AgentFailsDoes DEF Explained
<1>8. CASE ToolsStart \/ CommandDispatch \/ Restart
  BY <1>8 DEF ToolsStart, CommandDispatch, Restart
<1>9. ASSUME NEW c \in Call, ToolCall(c) PROVE FALSE
  BY <1>9 DEF ToolCall
<1>10. CASE Guardrails
  BY <1>10, <1>a, GuardrailsDoes
<1>11. CASE Hitl
  <2>1. holds' # {}
    BY <1>11 DEF Hitl
  <2>. QED
    BY <1>11, <1>a, <2>1, HitlDoes DEF Explained
<1>12. CASE HitlUnsaved
  <2>1. faults' > 0
    BY <1>12, <1>a DEF HitlUnsaved, TypeOK
  <2>. QED
    BY <1>12, <1>a, <2>1, HitlDoes DEF Explained
<1>13. CASE CommandDispatchSkip
  BY <1>13, <1>a, DispatchSkipDoes
<1>14. CASE DispatchRecorded
  BY <1>14, <1>a, DispatchRecordedDoes
<1>15. CASE CommandDispatchFails \/ Crash
  <2>1. \E x \in {"ready", "dead"} : queue' = [queue EXCEPT ![job] = x]
    BY <1>15 DEF CommandDispatchFails, Crash, RunEnds
  <2>. QED
    BY <1>a, <2>1
<1>16. CASE MemoryWriter
  <2>1. node = "memory_writer" /\ UNCHANGED mute
    BY <1>16 DEF MemoryWriter, counters
  <2>2. thread'.sent = thread.sent /\ queue' = [queue EXCEPT ![job] = "done"]
    BY <1>16, <1>a, MemoryWriterDoes DEF SameFlags
  <2>3. j = job
    BY <1>a, <2>2
  <2>. QED
    BY <2>1, <2>2, <2>3 DEF DoneInv, Explained
<1>. QED
  BY <1>1, <1>2, <1>3, <1>4, <1>5, <1>6, <1>7, <1>8, <1>9, <1>10, <1>11, <1>12, <1>13,
     <1>14, <1>15, <1>16 DEF Next, RunStep

LEMMA DoneInvStep == GraphInv /\ DoneInv /\ [Next]_vars => DoneInv'
<1> SUFFICES ASSUME GraphInv, DoneInv, [Next]_vars PROVE DoneInv'
  OBVIOUS
<1>d. deployment' = deployment
  BY WhoWrites
<1> SUFFICES ASSUME deployment \in Durable PROVE DoneInv'
  BY <1>d DEF DoneInv
<1>a. TypeOK /\ AtWork /\ PastAgent
  BY DEF GraphInv
<1>b. faults \in Nat /\ faults' \in Nat /\ faults' >= faults /\ holds \subseteq holds'
  BY <1>a, TablesGrow DEF TypeOK
<1>1. DoneIsAccountedFor'
  <2>1. ASSUME NEW j \in Job, queue'[j] = "done" PROVE Explained(j)'
    <3>1. CASE queue[j] = "done"
      <4>1. Explained(j)
        BY <3>1 DEF DoneInv, DoneIsAccountedFor, Explained
      <4>. QED
        BY <4>1, ExplainedStays
    <3>2. CASE queue[j] # "done" /\ Next
      BY <2>1, <3>2, AckedIsExplained
    <3>3. CASE queue[j] # "done" /\ UNCHANGED vars
      BY <2>1, <3>3 DEF vars
    <3>. QED
      BY <3>1, <3>2, <3>3
  <2>. QED
    BY <2>1 DEF DoneIsAccountedFor, Explained
<1>2. UserInv'
  BY UserInvStep DEF DoneInv
<1>3. thread'.lastUser = "command" => \E k \in Job : Content[k] = "command"
  BY <1>a, ThreadGrows, BeginDoes DEF DoneInv
<1>4. thread'.hitl => holds' # {} \/ faults' > 0 \/ node' = "hitl"
  <2>1. CASE UNCHANGED vars
    BY <2>1 DEF vars, DoneInv
  <2>2. CASE Next /\ holds = {} /\ faults = 0 /\ thread.hitl
    <3>1. node = "hitl"
      BY <2>2 DEF DoneInv
    <3>2. Hitl \/ HitlUnsaved \/ Crash
      BY <2>2, <3>1, HitlLeft
    <3>. QED
      BY <1>b, <2>2, <3>2 DEF Hitl, HitlUnsaved, Crash
  <2>3. CASE Next /\ ~thread.hitl
    <3>1. Hitl \/ HitlUnsaved => holds' # {} \/ faults' > 0
      BY <1>b DEF Hitl, HitlUnsaved
    <3>. QED
      BY <2>3, <3>1, HoldRaised
  <2>. QED
    BY <1>b, <2>1, <2>2, <2>3
<1>5. node' = "memory_writer" => thread'.sent \/ job' \in mute'
  <2>1. CASE UNCHANGED vars
    BY <2>1 DEF vars, DoneInv
  <2>2. CASE Next /\ node' = "memory_writer"
    <3>1. CASE CommandDispatchSkip
      <4>1. job' = job /\ thread'.sent = thread.sent
        BY <1>a, <3>1, DispatchSkipDoes DEF SameFlags
      <4>2. thread.sent \/ mute' = mute \cup {job}
        BY <3>1 DEF CommandDispatchSkip, DispatchSkips
      <4>. QED
        BY <4>1, <4>2
    <3>2. CASE DispatchRecorded
      BY <1>a, <3>2, DispatchRecordedDoes
    <3>. QED
      BY <2>2, <3>1, <3>2, Arrivals
  <2>. QED
    BY <2>1, <2>2
<1>. QED
  BY <1>1, <1>2, <1>3, <1>4, <1>5 DEF DoneInv

\* Where the checkpointer is Postgres, every acked message has a response of its own,
\* or the thread and the tables say why it has none.
THEOREM AckedIsAccountedFor == Spec => []DoneIsAccountedFor
<1>1. Init => DoneInv
  BY DEF Init, NewThread, DoneInv, DoneIsAccountedFor, UserInv
<1>2. DoneInv => DoneIsAccountedFor
  BY DEF DoneInv, DoneIsAccountedFor
<1>. QED
  BY <1>1, <1>2, DoneInvStep, GraphInvariant, PTL DEF Spec
=============================================================================
