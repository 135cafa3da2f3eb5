------------------------------ MODULE ToolJournal ------------------------------
(***************************************************************************)
(* What durable agent runs promise about tool calls, without saying how:   *)
(* the abstract specification that DurableRun implements.                  *)
(*                                                                         *)
(* A tool call is first put on durable record, its external effect may     *)
(* then happen, and finally one durable answer closes it.  The answer is   *)
(* the tool's own result or the notice that the result was lost.           *)
(***************************************************************************)
EXTENDS Naturals, FiniteSets

CONSTANTS
  Calls,        \* identities of tool calls an LLM provider may issue
  SafeToRetry,  \* calls of tools declared safeToRetry: true
  Anonymous     \* calls the provider sent without an id

VARIABLES
  phase,        \* phase[c]: "new", "requested" (on record) or "answered"
  effects       \* effects[c]: how often the handler of c took effect outside

jvars == <<phase, effects>>

InPhase(p) == {c \in Calls : phase[c] = p}

\* Requested calls that recovery can still recognise as unanswered.
Open == InPhase("requested") \ Anonymous

JInit == /\ phase = [c \in Calls |-> "new"]
         /\ effects = [c \in Calls |-> 0]

\* A step of the conversation starts only once no earlier call is open.
Request(C) ==
  /\ Open = {}
  /\ C \subseteq InPhase("new")
  /\ phase' = [c \in Calls |-> IF c \in C THEN "requested" ELSE phase[c]]
  /\ UNCHANGED effects

\* An effect follows its request, precedes its answer, and happens at most once
\* unless the tool says a repeat is harmless.
Effect(c) ==
  /\ phase[c] = "requested"
  /\ c \in SafeToRetry \/ effects[c] = 0
  /\ effects' = [effects EXCEPT ![c] = @ + 1]
  /\ UNCHANGED phase

\* All open calls are answered together: a reader never sees half a step.
Answer(C) ==
  /\ Open \subseteq C
  /\ C \subseteq InPhase("requested")
  /\ phase' = [c \in Calls |-> IF c \in C THEN "answered" ELSE phase[c]]
  /\ UNCHANGED effects

JNext == \/ \E C \in SUBSET Calls : Request(C) \/ Answer(C)
         \/ \E c \in Calls : Effect(c)

JSpec == JInit /\ [][JNext]_jvars

(***************************************************************************)
(* At most once: a handler that is not safe to retry never takes effect    *)
(* twice for the same call.                                                *)
(***************************************************************************)
EffectAtMostOnce == \A c \in Calls \ SafeToRetry : effects[c] <= 1
================================================================================
