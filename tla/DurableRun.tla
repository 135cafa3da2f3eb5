------------------------------ MODULE DurableRun ------------------------------
(***************************************************************************)
(* One agent session on a durable store: run() of agents/src/run.ts, the   *)
(* ReAct loop of agents/src/loop/react-loop.ts and the sqlite and D1       *)
(* stores.  A run is a sequence of awaits in one process; the process may  *)
(* die at any of them, and a later run() resumes the session from what the *)
(* store holds.  Two runs of one session at a time are excluded, as the    *)
(* design leaves serialising them to the caller.                           *)
(***************************************************************************)
EXTENDS Naturals, Sequences, FiniteSets

CONSTANTS
  Calls,            \* tool calls the LLM provider can issue, each at most once
  SafeToRetry,      \* calls of tools declared safeToRetry: true
  Parallel,         \* calls of tools declared parallel: true
  Anonymous,        \* calls the provider returned without an id
  Users,            \* authenticated callers of run()
  NoUser,           \* userId null
  Absent,           \* the session row does not exist
  Unset,            \* an option that was not given
  MaxTurns,         \* bound: how many times run() is called
  MaxCallsPerStep,  \* bound: tool calls in one LLM response
  MaxIterations,    \* loop.maxIterations
  StuckThreshold,   \* loop.stuckThreshold, 0 to switch it off
  MaxConcurrency,   \* loop.maxToolConcurrency
  MaxStored,        \* maxStoredMessages, or Unset
  Compression       \* TRUE iff loop.contextCompression is configured

ASSUME CallsAssumption == /\ SafeToRetry \subseteq Calls
                          /\ Parallel \subseteq Calls
                          /\ Anonymous \subseteq Calls
ASSUME UsersAssumption == /\ NoUser \notin Users
                          /\ Absent \notin Users \cup {NoUser}
ASSUME BoundsAssumption == /\ MaxTurns \in Nat
                           /\ MaxCallsPerStep \in Nat \ {0}
                           /\ MaxIterations \in Nat \ {0}
                           /\ StuckThreshold \in Nat
                           /\ MaxConcurrency \in Nat \ {0}
                           /\ MaxStored \in Nat \cup {Unset}
                           /\ Compression \in BOOLEAN

VARIABLES
  \* The store: survives a crash.
  owner,          \* Absent, or user_id of the session row
  rows,           \* agent_messages of the session in seq order
  \* Locals of run() and reactLoop(): lost in a crash.
  pc,             \* the await the run is at
  caller,         \* options.userId
  messages,       \* the conversation without its system prompts
  prevLen,        \* previousMessages.length
  written,        \* writtenByLoop
  userPersisted,
  iteration,
  noProgress,     \* consecutiveNoProgress
  status,         \* result.status
  step,           \* tool calls of the assistant message being answered
  chunk,          \* calls whose handlers run concurrently right now
  outcome,        \* outcome[c]: what executeToolCall returned for c of chunk
  results,        \* toolResultsThisStep, or resumeResults
  \* The world outside, and history that only properties read.
  turn,           \* runs started so far
  issued,         \* calls the provider has ever issued
  effects,        \* effects[c]: how often the handler of c took effect
  requested,      \* calls whose request was ever committed
  answered,       \* calls whose tool row was ever committed
  returned        \* <<turn, status>> of runs that returned without an error

store    == <<owner, rows>>
locals   == <<caller, messages, prevLen, written, userPersisted, iteration,
              noProgress, status>>
dispatch == <<step, chunk, outcome, results>>
history  == <<requested, answered>>
vars     == <<owner, rows, pc, caller, messages, prevLen, written, userPersisted,
              iteration, noProgress, status, step, chunk, outcome, results,
              turn, issued, effects, requested, answered, returned>>

(***************************************************************************)
(* Messages                                                                *)
(***************************************************************************)
UserRow(t)     == [role |-> "user", turn |-> t]
TextRow(t)     == [role |-> "text", turn |-> t]      \* assistant, no tool calls
CallsRow(s)    == [role |-> "calls", calls |-> s]    \* assistant with toolCalls
ToolRow(c, k)  == [role |-> "tool", call |-> c, kind |-> k]

\* What the content of a tool row says: the tool's value, an error of the
\* framework or the handler, or a ToolDurabilityError.
Kinds == {"ok", "error", "durability"}

Turns    == 1..MaxTurns
ToolRows == [role : {"tool"}, call : Calls, kind : Kinds]
Rows     == [role : {"user", "text"}, turn : Turns]
              \cup [role : {"calls"}, calls : Seq(Calls)]
              \cup ToolRows

Elems(s) == {s[i] : i \in DOMAIN s}
From(s, k) == SubSeq(s, k, Len(s))

\* Row i asks for tools and only tool rows follow it.
IsTailRequest(r, i) == /\ r[i].role = "calls"
                       /\ \A j \in (i + 1)..Len(r) : r[j].role = "tool"

NothingMissing(r) == {}
\* findOrphanAssistantWithToolCalls: the identified calls of the last request
\* that no later tool row answers.
Missing(r) ==
  {c \in Calls \ Anonymous :
     \E i \in DOMAIN r : /\ IsTailRequest(r, i)
                         /\ c \in Elems(r[i].calls)
                         /\ \A j \in (i + 1)..Len(r) : r[j].call # c}

(***************************************************************************)
(* The store                                                               *)
(***************************************************************************)
\* appendMessagesAtomic: one transaction upserts the session row, which takes
\* the caller's user id, and inserts the batch at the next sequence numbers.
Commit(batch) ==
  /\ rows' = rows \o batch
  /\ owner' = caller
  /\ requested' = requested \cup
       UNION {Elems(batch[i].calls) : i \in {j \in DOMAIN batch : batch[j].role = "calls"}}
  /\ answered' = answered \cup
       {batch[i].call : i \in {j \in DOMAIN batch : batch[j].role = "tool"}}

\* pruneMessages(sessionId, keepCount): only the newest keepCount rows stay.
Pruned(r, keep) == IF Len(r) <= keep THEN r ELSE From(r, Len(r) - keep + 1)

(***************************************************************************)
(* Start, end and crash of a run                                           *)
(***************************************************************************)
NoOutcome == [c \in Calls |-> "none"]

IdleLocals ==
  /\ pc = "idle" /\ caller = NoUser /\ messages = <<>> /\ prevLen = 0
  /\ written = 0 /\ userPersisted = FALSE /\ iteration = 0 /\ noProgress = 0
  /\ status = "none" /\ step = <<>> /\ chunk = <<>> /\ outcome = NoOutcome
  /\ results = <<>>

Init == /\ owner = Absent /\ rows = <<>>
        /\ IdleLocals
        /\ turn = 0 /\ issued = {} /\ effects = [c \in Calls |-> 0]
        /\ requested = {} /\ answered = {} /\ returned = {}

\* The run is over, by returning, throwing or dying: its locals are gone.
EndRun ==
  /\ pc' = "idle" /\ caller' = NoUser /\ messages' = <<>> /\ prevLen' = 0
  /\ written' = 0 /\ userPersisted' = FALSE /\ iteration' = 0 /\ noProgress' = 0
  /\ status' = "none" /\ step' = <<>> /\ chunk' = <<>> /\ outcome' = NoOutcome
  /\ results' = <<>>

MayAccessAlways(u) == TRUE

\* The ownership check of run(): a session with an owner is its owner's.
MayAccess(u) == owner \in Users => u = owner

\* run(): load the session or create one, then look for an orphan.
StartRun(u) ==
  /\ pc = "idle" /\ turn < MaxTurns
  /\ MayAccess(u)
  /\ turn' = turn + 1
  /\ caller' = u
  /\ prevLen' = Len(rows)
  /\ IF Missing(rows) = {}
       THEN /\ pc' = "loop"
            /\ messages' = Append(rows, UserRow(turn + 1))
            /\ step' = <<>>
       ELSE /\ pc' = "resume"
            /\ messages' = rows
            /\ \E i \in DOMAIN rows : /\ IsTailRequest(rows, i)
                                      /\ step' = rows[i].calls
  /\ UNCHANGED <<store, written, userPersisted, iteration, noProgress, status,
                 chunk, outcome, results, issued, effects, history, returned>>

\* The process dies, or a store call, a hook or compress() throws out of run().
Crash == /\ pc # "idle"
         /\ EndRun
         /\ UNCHANGED <<store, turn, issued, effects, history, returned>>

(***************************************************************************)
(* Resume: every missing call of the orphan gets a tool row                *)
(***************************************************************************)
\* executeToolCall: an unknown tool, a tool without handler and invalid input
\* are errors that never reach the handler; a handler that threw, or returned
\* what its output schema rejects, has had its effect.
Executes(c, kind) ==
  \/ kind \in {"ok", "error"} /\ effects' = [effects EXCEPT ![c] = @ + 1]
  \/ kind = "error" /\ UNCHANGED effects

\* The missing calls in the order of the request.
NextMissing(c) ==
  LET todo == Missing(messages \o results)
  IN  \E i \in DOMAIN step : /\ step[i] = c
                             /\ c \in todo
                             /\ \A j \in 1..(i - 1) : step[j] \notin todo

ReplaysAny(c) == TRUE
Replays(c) == c \in SafeToRetry

ResumeCall(c) ==
  /\ pc = "resume"
  /\ NextMissing(c)
  /\ \/ /\ Replays(c)
        /\ \E kind \in {"ok", "error"} : /\ Executes(c, kind)
                                         /\ results' = Append(results, ToolRow(c, kind))
     \/ /\ ~Replays(c)
        /\ results' = Append(results, ToolRow(c, "durability"))
        /\ UNCHANGED effects
  /\ UNCHANGED <<store, pc, locals, step, chunk, outcome, turn, issued, history, returned>>

ResumePersist ==
  /\ pc = "resume"
  /\ Missing(messages \o results) = {}
  /\ Commit(results)
  /\ messages' = Append(messages \o results, UserRow(turn))
  /\ prevLen' = Len(messages) + Len(results)
  /\ pc' = "loop" /\ step' = <<>> /\ results' = <<>>
  /\ UNCHANGED <<caller, written, userPersisted, iteration, noProgress, status,
                 chunk, outcome, turn, issued, effects, returned>>


(***************************************************************************)
(* One iteration of the ReAct loop                                         *)
(***************************************************************************)
LoopContinuesForever == TRUE
LoopContinues == iteration < MaxIterations

\* compress() may keep any newest part of the conversation, never none of it.
BeginIteration ==
  /\ pc = "loop" /\ LoopContinues
  /\ iteration' = iteration + 1
  /\ \/ UNCHANGED messages
     \/ /\ Compression
        /\ \E k \in 2..Len(messages) : messages' = From(messages, k)
  /\ pc' = "chat"
  /\ UNCHANGED <<store, caller, prevLen, written, userPersisted, noProgress, status,
                 dispatch, turn, issued, effects, history, returned>>

Stop(s) == pc' = "finish" /\ status' = s

IterationsExceeded ==
  /\ pc = "loop" /\ ~LoopContinues
  /\ Stop("stopped")
  /\ UNCHANGED <<store, caller, messages, prevLen, written, userPersisted, iteration,
                 noProgress, dispatch, turn, issued, effects, history, returned>>

\* llm.chat rejects: status "error", and run() persists nothing more.
ChatFails == /\ pc = "chat"
             /\ EndRun
             /\ UNCHANGED <<store, turn, issued, effects, history, returned>>

\* Token budget or diminishing returns: the text, if any, is kept and the tool
\* calls of the response are dropped.  Without tool calls the loop is complete.
ChatEnds(s) ==
  /\ pc = "chat"
  /\ \/ messages' = Append(messages, TextRow(turn))
     \/ s = "stopped" /\ UNCHANGED messages
  /\ Stop(s)
  /\ UNCHANGED <<store, caller, prevLen, written, userPersisted, iteration,
                 noProgress, dispatch, turn, issued, effects, history, returned>>

\* Requests of the provider: distinct calls that it has never issued before.
Responses == {s \in UNION {[1..n -> Calls \ issued] : n \in 1..MaxCallsPerStep} :
                \A i, j \in DOMAIN s : s[i] = s[j] => i = j}

ChatRequests ==
  /\ pc = "chat"
  /\ \E s \in Responses : /\ step' = s
                          /\ issued' = issued \cup Elems(s)
                          /\ messages' = Append(messages, CallsRow(s))
  /\ pc' = "request"
  /\ UNCHANGED <<store, caller, prevLen, written, userPersisted, iteration, noProgress,
                 status, chunk, outcome, results, turn, effects, history, returned>>

BatchWithoutUser(new) == new
\* persistStep of run(): the first batch of a turn carries the user message.
Batch(new) == IF userPersisted THEN new ELSE <<UserRow(turn)>> \o new

PersistStep(new) == /\ Commit(Batch(new))
                    /\ userPersisted' = TRUE
                    /\ written' = written + Len(Batch(new))

RequestedNothing == <<>>
RequestBatch == <<CallsRow(step)>>

\* Phase A: the request is durable before any handler is dispatched.
PersistRequest ==
  /\ pc = "request"
  /\ PersistStep(RequestBatch)
  /\ pc' = "act"
  /\ UNCHANGED <<caller, messages, prevLen, iteration, noProgress, status, dispatch,
                 turn, issued, effects, returned>>

ChunkTooShort(k, n) == /\ k + n - 1 < Len(step) /\ n <= MaxConcurrency
                       /\ n = 1 \/ \A i \in k..(k + n - 1) : step[i] \in Parallel

\* n calls from k on may run together: one call, or neighbours that are all
\* parallel, at most MaxConcurrency of them.
IsChunk(k, n) == /\ k + n - 1 <= Len(step) /\ n <= MaxConcurrency
                 /\ n = 1 \/ \A i \in k..(k + n - 1) : step[i] \in Parallel

\* partitionToolCalls and runConcurrentBatch: the next chunk is the longest.
LaunchChunk ==
  /\ pc = "act" /\ chunk = <<>>
  /\ LET k == Len(results) + 1
     IN  \E n \in 1..Len(step) : /\ IsChunk(k, n) /\ ~IsChunk(k, n + 1)
                                 /\ chunk' = SubSeq(step, k, k + n - 1)
  /\ UNCHANGED <<store, pc, locals, step, outcome, results, turn, issued, effects,
                 history, returned>>

\* A call of the chunk returns.  Results join the conversation in call order
\* when the whole chunk has returned.
HandlerReturns(c) ==
  /\ pc = "act" /\ c \in Elems(chunk) /\ outcome[c] = "none"
  /\ \E kind \in {"ok", "error"} :
       LET got == [outcome EXCEPT ![c] = kind]
       IN  /\ Executes(c, kind)
           /\ IF \E d \in Elems(chunk) : got[d] = "none"
                THEN outcome' = got /\ UNCHANGED <<chunk, results>>
                ELSE /\ results' = results \o
                          [i \in DOMAIN chunk |-> ToolRow(chunk[i], got[chunk[i]])]
                     /\ chunk' = <<>> /\ outcome' = NoOutcome
  /\ UNCHANGED <<store, pc, locals, step, turn, issued, history, returned>>

\* Phase B: all results of the step in one batch; then stuck detection.
PersistResults ==
  /\ pc = "act" /\ chunk = <<>> /\ Len(results) = Len(step)
  /\ PersistStep(results)
  /\ messages' = messages \o results
  /\ noProgress' = IF \E i \in DOMAIN results : results[i].kind = "ok"
                     THEN 0 ELSE noProgress + 1
  /\ IF StuckThreshold # 0 /\ noProgress' >= StuckThreshold
       THEN Stop("stopped") ELSE pc' = "loop" /\ UNCHANGED status
  /\ step' = <<>> /\ results' = <<>>
  /\ UNCHANGED <<caller, prevLen, iteration, chunk, outcome, turn, issued, effects,
                 returned>>

(***************************************************************************)
(* End of a turn                                                           *)
(***************************************************************************)
\* The output schema rejects a complete answer: run() returns "error" early.
FinishRejectsOutput == /\ pc = "finish" /\ status = "complete"
                       /\ EndRun
                       /\ UNCHANGED <<store, turn, issued, effects, history, returned>>

NewSinceResume == From(messages, prevLen + 1)

TailWithoutUser == IF userPersisted THEN From(NewSinceResume, written + 2)
                                    ELSE From(NewSinceResume, 2)
\* alreadyPersisted is writtenByLoop plus one once the user message is stored,
\* although writtenByLoop counts that message too.
UnpersistedTail == IF userPersisted THEN From(NewSinceResume, written + 2) ELSE NewSinceResume

Finish ==
  /\ pc = "finish"
  /\ Commit(UnpersistedTail)
  /\ IF MaxStored = Unset
       THEN EndRun /\ returned' = returned \cup {<<turn, status>>}
       ELSE pc' = "prune" /\ UNCHANGED <<locals, dispatch, returned>>
  /\ UNCHANGED <<turn, issued, effects>>

Prune == /\ pc = "prune"
         /\ rows' = Pruned(rows, MaxStored)
         /\ EndRun
         /\ returned' = returned \cup {<<turn, status>>}
         /\ UNCHANGED <<owner, turn, issued, effects, history>>

(***************************************************************************)
(* Specification                                                           *)
(***************************************************************************)
RunStep == \/ \E c \in Calls : ResumeCall(c) \/ HandlerReturns(c)
           \/ ResumePersist \/ BeginIteration \/ IterationsExceeded
           \/ ChatFails \/ ChatEnds("stopped") \/ ChatEnds("complete") \/ ChatRequests
           \/ PersistRequest \/ LaunchChunk \/ PersistResults
           \/ FinishRejectsOutput \/ Finish \/ Prune

Next == \/ \E u \in Users \cup {NoUser} : StartRun(u)
        \/ RunStep
        \/ Crash

Spec == Init /\ [][Next]_vars

\* The event loop keeps running a started run, providers and handlers settle
\* their promises: nothing makes the next run start, or the process crash.
FairSpec == Spec /\ WF_vars(RunStep)


(***************************************************************************)
(* Properties                                                              *)
(***************************************************************************)
PcValues == {"idle", "resume", "loop", "chat", "request", "act", "finish", "prune"}

\* Every variable has its type, and the loop never passes its iteration limit.
TypeOK ==
  /\ owner \in Users \cup {NoUser, Absent}
  /\ rows \in Seq(Rows) /\ messages \in Seq(Rows)
  /\ pc \in PcValues
  /\ caller \in Users \cup {NoUser}
  /\ prevLen \in Nat /\ written \in Nat /\ userPersisted \in BOOLEAN
  /\ iteration \in 0..MaxIterations
  /\ noProgress \in Nat
  /\ status \in {"none", "complete", "stopped"}
  /\ step \in Seq(Calls) /\ chunk \in Seq(Calls)
  /\ outcome \in [Calls -> {"none", "ok", "error"}]
  /\ results \in Seq(ToolRows)
  /\ turn \in 0..MaxTurns
  /\ issued \subseteq Calls
  /\ effects \in [Calls -> Nat]
  /\ requested \subseteq Calls /\ answered \subseteq Calls
  /\ returned \subseteq Turns \X {"complete", "stopped"}

\* At most once: whatever crashes and resumes happen, a handler that is not
\* declared safeToRetry never takes effect twice for one tool call.
AtMostOnce == \A c \in Calls \ SafeToRetry : effects[c] <= 1

\* Row i of a conversation requests tools, and all its identified calls are
\* answered by the tool rows directly after it.
IsAnswered(r, i) ==
  \A c \in Elems(r[i].calls) \ Anonymous :
    \E j \in (i + 1)..Len(r) : /\ r[j].role = "tool" /\ r[j].call = c
                               /\ \A k \in (i + 1)..j : r[k].role = "tool"

\* Row j holds a tool result whose request precedes it within the same step.
HasRequest(r, j) ==
  \E i \in 1..(j - 1) : /\ r[i].role = "calls" /\ r[j].call \in Elems(r[i].calls)
                        /\ \A k \in (i + 1)..j : r[k].role = "tool"

\* A conversation is structurally sound when no request lacks an answer and no
\* tool result lacks its request: providers reject anything else.
Sound(r) == \A i \in DOMAIN r : /\ r[i].role = "calls" => IsAnswered(r, i)
                                /\ r[i].role = "tool" => HasRequest(r, i)

\* Every conversation sent to the LLM is structurally sound, also the first one
\* after a crash left a step half done.
LLMSeesSoundHistory == pc = "chat" => Sound(messages)

\* What the LLM is shown is exactly what a resume would show it: all of it is in
\* the store, but for the user message of a turn that has persisted no step yet.
StoreMirrorsHistory ==
  pc = "chat" =>
    messages = rows \o (IF userPersisted THEN <<>> ELSE <<UserRow(turn)>>)

\* A turn that returned without an error left its user message in the store.
TurnStored == \A t \in returned : UserRow(t[1]) \in Elems(rows)

\* A turn that completed left its final answer in the store ("plus any trailing
\* text-only assistant response", run.ts:466).
AnswerStored ==
  \A t \in returned : t[2] = "complete" => TextRow(t[1]) \in Elems(rows)

\* The conversation a turn ends with, compressed or not, is in the store ("the
\* compressed messages are what gets persisted", agents-loop-improvements.md:216).
ConversationStored == pc = "prune" => Elems(messages) \subseteq Elems(rows)

\* Pruning removes whole interaction rounds, so the stored conversation is
\* structurally sound between runs (plans/agent-persistence-layer.md:421-426).
PruningKeepsSound == pc = "idle" => Missing(rows) # {} \/ Sound(rows)

\* Once a session has an owner, no run of another user changes it.
OwnerFixed == [][(owner \in Users) => (owner' = owner)]_vars

\* Every started run ends: it returns, throws or dies, and never hangs on a step
\* whose calls are never all launched or collected.
RunEnds == pc # "idle" ~> pc = "idle"

\* The phase of a call in the abstract journal.
Phase == [c \in Calls |-> IF c \in answered THEN "answered"
                          ELSE IF c \in requested THEN "requested" ELSE "new"]

Journal == INSTANCE ToolJournal WITH phase <- Phase

\* The run implements the journal of tool calls: request, effect, answer.
ImplementsJournal == Journal!JSpec

================================================================================
