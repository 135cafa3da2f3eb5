----------------------------- MODULE SignalGraph -----------------------------
(***************************************************************************)
(* The reactive runtime of the UI: signals, computeds and effects of       *)
(* ui/src/runtime/signal.ts, batches and the flush of scheduler.ts.  All of *)
(* it runs on one call stack, and calls nest: reading a computed runs its  *)
(* body, a write outside a batch flushes, and a flush runs effects that    *)
(* write, create and dispose in their turn.  The model is that call stack. *)
(*                                                                         *)
(* A body reads its sources in order and stops at the first that is FALSE, *)
(* as `a && b` does, so its dependencies change from run to run.           *)
(***************************************************************************)
EXTENDS Naturals, Sequences, FiniteSets, SequencesExt

CONSTANTS
  Signals, Computeds, Effects,
  Sources,   \* Sources[n]: what the body of n reads, in order
  Target,    \* Target[e]: the signal that e copies its value to, or NoSignal
  NoSignal,
  MaxDepth,  \* bound: batches that the program nests
  MaxThrows  \* bound: exceptions thrown by bodies

Subscribers == Computeds \cup Effects
Readable    == Signals \cup Computeds

\* Computeds depend on each other without cycles: along some order of them.
Acyclic == \E order \in [Computeds -> 1..Cardinality(Computeds)] :
             \A c \in Computeds : \A d \in Range(Sources[c]) \cap Computeds :
               order[d] < order[c]

ASSUME GraphAssumption ==
  /\ Signals \cap Subscribers = {} /\ Computeds \cap Effects = {}
  /\ Sources \in [Subscribers -> Seq(Readable)]
  /\ \A n \in Subscribers : Sources[n] # <<>>
  /\ NoSignal \notin Signals /\ Target \in [Effects -> Signals \cup {NoSignal}]
  /\ IsFiniteSet(Computeds) /\ Acyclic
  /\ MaxDepth \in Nat /\ MaxThrows \in Nat

VARIABLES
  value,    \* value[s]: the value of signal s
  cached,   \* cached[c]: the cached value of computed c
  state,    \* state[c]: "clean", "dirty" or "computing"
  subs,     \* <<source, subscriber>> pairs: _subscribers and _sources
  life,     \* life[e]: "new", "creating", "live" or "disposed"
  pending,  \* pendingEffects
  stack,    \* the call stack, innermost call last
  \* History that only properties read.
  seen,     \* seen[e]: what e showed last, FALSE when e is excused
  excused,  \* effects that ran inside a run of their own, that are disposed of, or
            \* that were there when an exception was thrown
  broken,   \* computeds whose last run was cut short by an exception
  throws    \* exceptions thrown so far

graph == <<value, cached, state>>
vars  == <<value, cached, state, subs, life, pending, stack, seen, excused, broken, throws>>

(***************************************************************************)
(* The call stack                                                          *)
(***************************************************************************)
BatchFrame  == [kind |-> "batch"]                 \* batch(fn), fn is running
FlushFrame(q) == [kind |-> "flush", queue |-> q]  \* flush(), q is left to run
\* The body of n is to read its next-th source; it has read acc so far.  The
\* first run of an effect is part of creating it.
Frame(kind, n) == [kind |-> kind, who |-> n, next |-> 1, acc |-> TRUE]
RunFrame(n)    == Frame("run", n)
IsBody(f)      == f.kind \in {"run", "create"}

Top       == Last(stack)
Under     == Front(stack)
Push(f)   == stack' = Append(stack, f)
Pop       == stack' = Under
Become(f) == stack' = Append(Under, f)

IsTop(kind)  == stack # <<>> /\ Top.kind = kind
Running(n)   == stack # <<>> /\ IsBody(Top) /\ Top.who = n
HasRead(n)   == Running(n) /\ Top.next > Len(Sources[n])
HasWritten(n) == Running(n) /\ Top.next > Len(Sources[n]) + 1
IsRunning(n) == \E i \in DOMAIN stack : IsBody(stack[i]) /\ stack[i].who = n
InBatch      == \E i \in DOMAIN stack : stack[i].kind = "batch"

\* User code is in control: the program itself, or the body of an effect.
Program  == stack = <<>> \/ IsTop("batch")
InEffect == \E e \in Effects : Running(e)

(***************************************************************************)
(* Subscriptions and notification                                          *)
(***************************************************************************)
Init == /\ value = [s \in Signals |-> FALSE]
        /\ cached = [c \in Computeds |-> FALSE] /\ state = [c \in Computeds |-> "dirty"]
        /\ subs = {} /\ life = [e \in Effects |-> "new"]
        /\ pending = {} /\ stack = <<>>
        /\ seen = [e \in Effects |-> FALSE] /\ excused = {} /\ broken = {} /\ throws = 0

\* From now on the properties ask nothing of what the effects in E show.
Excuse(E) == /\ excused' = excused \cup E
             /\ seen' = [e \in Effects |-> seen[e] /\ e \notin E]

Show(e, v) == seen' = [seen EXCEPT ![e] = v /\ e \notin excused]

\* _clearSources.
Without(n) == {p \in subs : p[2] # n}

OneLevel(N, s) == \A p \in subs : p[1] = s => p[2] \in N

\* N has the subscribers of s, and those of every computed in N that is not
\* dirty: a dirty one has told its own already.
Closed(N, s) ==
  /\ \A p \in subs : p[1] = s => p[2] \in N
  /\ \A p \in subs : p[1] \in N /\ state[p[1]] # "dirty" => p[2] \in N

\* The subscribers that a notification from s reaches.
Reached(s) == {n \in Subscribers : \A N \in SUBSET Subscribers : Closed(N, s) => n \in N}

QueuedAll(s)    == Reached(s)
QueuedDirect(s) == {e \in Effects : <<s, e>> \in subs}

\* scheduleNotify: computeds are notified at once, effects wait.
Queued(s) == Reached(s) \cap Effects

\* _notifySubscribers: dirtiness goes through the computeds at once, effects
\* wait for the outermost batch to end, which may be that of the write itself.
Notify(s, frames) ==
  /\ state' = [c \in Computeds |-> IF c \in Reached(s) THEN "dirty" ELSE state[c]]
  /\ IF InBatch \/ Queued(s) = {}
       THEN pending' = pending \cup Queued(s) /\ stack' = frames
       ELSE pending' = {} /\ stack' = Append(frames, FlushFrame(pending \cup Queued(s)))

(***************************************************************************)
(* What the program does                                                   *)
(***************************************************************************)
\* A write of the value that the signal has already does nothing.
Write(s) == /\ Program
            /\ value' = [value EXCEPT ![s] = ~@]
            /\ Notify(s, stack)
            /\ UNCHANGED <<cached, subs, life, seen, excused, broken, throws>>

\* Signal.notify(), after a mutation in place.
Touch(s) == /\ Program
            /\ Notify(s, stack)
            /\ UNCHANGED <<value, cached, subs, life, seen, excused, broken, throws>>

BatchBegins == /\ Program /\ Len(stack) < MaxDepth
               /\ Push(BatchFrame)
               /\ UNCHANGED <<graph, subs, life, pending, seen, excused, broken, throws>>

BatchEnds ==
  /\ IsTop("batch")
  /\ IF Len(stack) > 1 \/ pending = {}
       THEN Pop /\ UNCHANGED pending
       ELSE stack' = <<FlushFrame(pending)>> /\ pending' = {}
  /\ UNCHANGED <<graph, subs, life, seen, excused, broken, throws>>

\* A read of a computed outside any body, or peek().
Peek(c) == /\ Program /\ state[c] = "dirty"
           /\ state' = [state EXCEPT ![c] = "computing"]
           /\ subs' = Without(c)
           /\ Push(RunFrame(c))
           /\ UNCHANGED <<value, cached, life, pending, seen, excused, broken, throws>>

\* domEffect and lifecycleEffect run the effect before they return.
Create(e) == /\ Program \/ InEffect
             /\ life[e] = "new"
             /\ life' = [life EXCEPT ![e] = "creating"]
             /\ Push(Frame("create", e))
             /\ UNCHANGED <<graph, subs, pending, seen, excused, broken, throws>>

\* The dispose function exists when the effect has been created.
Dispose(e) == /\ Program \/ InEffect
              /\ life[e] = "live"
              /\ life' = [life EXCEPT ![e] = "disposed"]
              /\ subs' = Without(e)
              /\ Excuse({e})
              /\ UNCHANGED <<graph, pending, stack, broken, throws>>

(***************************************************************************)
(* Bodies                                                                  *)
(***************************************************************************)
\* The body goes on with what it has read, or stops at the first FALSE.
Goes(n, v) == Become([Top EXCEPT !.acc = v,
                                 !.next = IF v THEN @ + 1 ELSE Len(Sources[n]) + 1])

ReadValue(n) ==
  /\ Running(n) /\ Top.next <= Len(Sources[n])
  /\ LET x == Sources[n][Top.next]
     IN  /\ subs' = subs \cup {<<x, n>>}
         /\ \/ x \in Signals /\ Goes(n, value[x])
            \/ x \in Computeds /\ state[x] = "clean" /\ Goes(n, cached[x])
  /\ UNCHANGED <<graph, life, pending, seen, excused, broken, throws>>

\* A computed that is not clean runs its body first; then ReadValue reads it.
ReadComputes(n) ==
  /\ Running(n) /\ Top.next <= Len(Sources[n])
  /\ LET x == Sources[n][Top.next]
     IN  /\ x \in Computeds /\ state[x] # "clean"
         /\ state' = [state EXCEPT ![x] = "computing"]
         /\ subs' = Without(x) \cup {<<x, n>>}
         /\ Push(RunFrame(x))
  /\ UNCHANGED <<value, cached, life, pending, seen, excused, broken, throws>>

ComputeReturns(c) ==
  /\ HasRead(c)
  /\ cached' = [cached EXCEPT ![c] = Top.acc]
  /\ state' = [state EXCEPT ![c] = "clean"]
  /\ broken' = broken \ {c}
  /\ Pop
  /\ UNCHANGED <<value, subs, life, pending, seen, excused, throws>>

\* An effect shows what it has read, then it may copy it to a signal.
Copies(e) == Target[e] # NoSignal /\ ~HasWritten(e)

EffectWrites(e) ==
  /\ HasRead(e) /\ Copies(e) /\ value[Target[e]] # Top.acc
  /\ Show(e, Top.acc)
  /\ value' = [value EXCEPT ![Target[e]] = Top.acc]
  /\ Notify(Target[e], Append(Under, [Top EXCEPT !.next = @ + 1]))
  /\ UNCHANGED <<cached, subs, life, excused, broken, throws>>

EffectReturns(e) ==
  /\ HasRead(e) /\ (Copies(e) => value[Target[e]] = Top.acc)
  /\ IF HasWritten(e) THEN UNCHANGED seen ELSE Show(e, Top.acc)
  /\ life' = IF Top.kind = "create" THEN [life EXCEPT ![e] = "live"] ELSE life
  /\ Pop
  /\ UNCHANGED <<graph, subs, pending, excused, broken, throws>>

(***************************************************************************)
(* The flush                                                               *)
(***************************************************************************)
RestAll(q, e) == q
RestNone(q, e) == {}
Rest(q, e) == q \ {e}

AlwaysLive(e) == TRUE
StillLive(e) == life[e] # "disposed"

\* The queue is run in any order, where the code has one.
FlushNext(e) ==
  /\ IsTop("flush") /\ e \in Top.queue
  /\ LET rest == FlushFrame(Rest(Top.queue, e))
     IN  IF StillLive(e)
           THEN subs' = Without(e) /\ stack' = Under \o <<rest, RunFrame(e)>>
           ELSE Become(rest) /\ UNCHANGED subs
  /\ Excuse(IF IsRunning(e) THEN {e} ELSE {})
  /\ UNCHANGED <<graph, life, pending, broken, throws>>

\* Once more, if effects were scheduled meanwhile.
FlushAgain == /\ IsTop("flush") /\ Top.queue = {}
              /\ IF pending = {} THEN Pop ELSE Become(FlushFrame(pending))
              /\ pending' = {}
              /\ UNCHANGED <<graph, subs, life, seen, excused, broken, throws>>

(***************************************************************************)
(* Exceptions                                                              *)
(***************************************************************************)
\* Computeds whose bodies run above the k-th frame.
Interrupted(k) == {stack[i].who : i \in {j \in (k + 1)..Len(stack) : IsBody(stack[j])}}

\* A body throws.  The program catches inside its k-th batch, or outside all of
\* them: the outermost then flushes on the way out.  A flush that is unwound
\* drops the rest of its queue; a computed that is unwound becomes clean.
Throw(k) ==
  /\ stack # <<>> /\ IsBody(Top)
  /\ throws < MaxThrows /\ throws' = throws + 1
  /\ \A i \in 1..k : stack[i].kind = "batch"
  /\ state' = [c \in Computeds |-> IF c \in Interrupted(k) THEN "clean" ELSE state[c]]
  /\ broken' = broken \cup (Interrupted(k) \cap Computeds)
  /\ IF k = 0 /\ InBatch /\ pending # {}
       THEN stack' = <<FlushFrame(pending)>> /\ pending' = {}
       ELSE stack' = SubSeq(stack, 1, k) /\ UNCHANGED pending
  /\ Excuse({e \in Effects : life[e] # "new"})
  /\ UNCHANGED <<value, cached, subs, life>>

(***************************************************************************)
(* Specification                                                           *)
(***************************************************************************)
Operation == \/ \E s \in Signals : Write(s) \/ Touch(s)
             \/ BatchBegins
             \/ \E c \in Computeds : Peek(c)
             \/ \E e \in Effects : Create(e) \/ Dispose(e)

Runtime == \/ \E n \in Subscribers : ReadValue(n) \/ ReadComputes(n)
           \/ \E c \in Computeds : ComputeReturns(c)
           \/ \E e \in Effects : EffectReturns(e) \/ EffectWrites(e) \/ FlushNext(e)
           \/ FlushAgain
           \/ \E k \in 0..Len(stack) : Throw(k)

Next == Operation \/ BatchEnds \/ Runtime

Spec == Init /\ [][Next]_vars

\* Every call of the runtime returns to the program; the program does what it wants.
FairSpec == Spec /\ WF_vars(Runtime)

(***************************************************************************)
(* Properties                                                              *)
(***************************************************************************)
Frames == {BatchFrame} \cup {FlushFrame(q) : q \in SUBSET Effects}
            \cup [kind : {"run", "create"}, who : Subscribers, next : Nat \ {0}, acc : BOOLEAN]

\* Every variable has its type.
TypeOK ==
  /\ value \in [Signals -> BOOLEAN]
  /\ cached \in [Computeds -> BOOLEAN]
  /\ state \in [Computeds -> {"clean", "dirty", "computing"}]
  /\ subs \subseteq Readable \X Subscribers
  /\ life \in [Effects -> {"new", "creating", "live", "disposed"}]
  /\ pending \subseteq Effects
  /\ stack \in Seq(Frames)
  /\ seen \in [Effects -> BOOLEAN] /\ excused \subseteq Effects
  /\ broken \subseteq Computeds /\ throws \in 0..MaxThrows

\* What a body computes from the signals as they are now.
Truth[x \in Readable] ==
  IF x \in Signals THEN value[x]
  ELSE \A i \in DOMAIN Sources[x] : Truth[Sources[x][i]]

\* x, or a computed it reads, keeps an old value because its body threw.
Tainted[x \in Readable] ==
  x \in Computeds /\ (x \in broken \/ \E i \in DOMAIN Sources[x] : Tainted[Sources[x][i]])

\* A computed that is not recomputed when it is read has the value that its body
\* would compute: no reader ever sees a stale one, in the middle of a flush or not.
\* Only the bodies that threw, and what reads them, are excepted.
CleanIsFresh == \A c \in Computeds : state[c] = "clean" /\ ~Tainted[c] => cached[c] = Truth[c]

\* Effects that a running flush or a batch has still to run.
Awaited == pending \cup UNION {stack[i].queue : i \in {j \in DOMAIN stack : stack[j].kind = "flush"}}

\* When control is back at the program outside any batch, every effect has seen the
\* current values: no update is lost, whatever was written, created and disposed.
\* Excused are an effect that ran anew inside its own run, which then goes on with
\* what it read before, and the effects that an exception may have left behind.
EffectsSettled ==
  stack = <<>> => \A e \in Effects \ excused :
    life[e] = "live" /\ (\A i \in DOMAIN Sources[e] : ~Tainted[Sources[e][i]]) =>
      seen[e] = (\A i \in DOMAIN Sources[e] : Truth[Sources[e][i]])

\* "Already dirty, no need to re-propagate" (signal.ts:182): the subscribers of a
\* dirty computed have been told, and the effects among them are still to run.
DirtyHasTold ==
  \A p \in subs : p[1] \in Computeds /\ state[p[1]] = "dirty" =>
    IF p[2] \in Computeds THEN state[p[2]] = "dirty"
                          ELSE p[2] \in Awaited \/ life[p[2]] = "disposed"

\* As long as no body has thrown, they have, whatever nests: it is sound to stop at
\* a dirty computed then.
ToldUntilThrow == throws = 0 => DirtyHasTold

\* A disposed effect leaves no subscription behind ("Remove from all
\* signal/computed subscriber sets").
DisposedUnsubscribed == \A p \in subs : p[2] \in Effects => life[p[2]] # "disposed"

\* Once disposed, and out of its last run, an effect never runs again, even when it
\* was queued before.
DisposedStaysQuiet ==
  [][\A e \in Effects : life[e] = "disposed" /\ ~IsRunning(e) => ~IsRunning(e)']_vars

\* Every call into the runtime returns: flushes that run effects that write do end.
ControlReturns == ~Program ~> Program
================================================================================
