-------------------------- MODULE SignalGraphProofs --------------------------
(***************************************************************************)
(* Proofs about SignalGraph, for all graphs, depths and exceptions.        *)
(***************************************************************************)
EXTENDS SignalGraph, SequenceTheorems, FiniteSetTheorems, TLAPS

(***************************************************************************)
(* Frames and stacks                                                       *)
(***************************************************************************)
BodyFrames == [kind : {"run", "create"}, who : Subscribers, next : Nat \ {0}, acc : BOOLEAN]

LEMMA FramesOK ==
  /\ BatchFrame \in Frames /\ ~IsBody(BatchFrame)
  /\ \A q \in SUBSET Effects : FlushFrame(q) \in Frames /\ ~IsBody(FlushFrame(q))
  /\ \A n \in Subscribers, k \in {"run", "create"} :
       Frame(k, n) \in BodyFrames /\ IsBody(Frame(k, n)) /\ Frame(k, n).who = n
  /\ BodyFrames \subseteq Frames
<1>1. BatchFrame.kind = "batch" /\ \A q : FlushFrame(q).kind = "flush"
  BY DEF BatchFrame, FlushFrame
<1>2. ~IsBody(BatchFrame) /\ \A q : ~IsBody(FlushFrame(q))
  BY <1>1 DEF IsBody
<1>3. BatchFrame \in Frames /\ (\A q \in SUBSET Effects : FlushFrame(q) \in Frames)
  BY DEF Frames
<1>4. BodyFrames \subseteq Frames
  BY DEF Frames, BodyFrames
<1>5. \A n \in Subscribers, k \in {"run", "create"} :
        Frame(k, n) \in BodyFrames /\ IsBody(Frame(k, n)) /\ Frame(k, n).who = n
  BY DEF Frame, BodyFrames, IsBody
<1> QED BY <1>2, <1>3, <1>4, <1>5

\* What the kind of a frame says about it.
LEMMA FrameKinds ==
  ASSUME NEW f \in Frames
  PROVE  /\ IsBody(f) => f \in BodyFrames
         /\ f.kind = "flush" => f.queue \in SUBSET Effects
<1>1. CASE f = BatchFrame
  BY <1>1 DEF BatchFrame, IsBody
<1>2. CASE \E q \in SUBSET Effects : f = FlushFrame(q)
  BY <1>2 DEF FlushFrame, IsBody
<1>3. CASE f \in BodyFrames
  BY <1>3 DEF BodyFrames
<1> QED BY <1>1, <1>2, <1>3 DEF Frames, BodyFrames

\* The bodies that run on a stack.
Bodies(s) == {s[i].who : i \in {j \in DOMAIN s : IsBody(s[j])}}

LEMMA RunningIsBody == \A n : IsRunning(n) <=> n \in Bodies(stack)
BY DEF IsRunning, Bodies

\* A push adds its own body, if it is the frame of one.
LEMMA PushBodies ==
  ASSUME NEW s \in Seq(Frames), NEW f \in Frames
  PROVE  /\ Append(s, f) \in Seq(Frames)
         /\ \A n \in Bodies(Append(s, f)) : n \in Bodies(s) \/ (IsBody(f) /\ n = f.who)
<1>1. /\ Append(s, f) \in Seq(Frames) /\ DOMAIN Append(s, f) = 1..(Len(s) + 1)
      /\ Len(s) \in Nat /\ DOMAIN s = 1..Len(s)
      /\ \A i \in 1..Len(s) : Append(s, f)[i] = s[i]
      /\ Append(s, f)[Len(s) + 1] = f
  BY AppendProperties, LenProperties
<1>2. ASSUME NEW n \in Bodies(Append(s, f))
      PROVE  n \in Bodies(s) \/ (IsBody(f) /\ n = f.who)
  <2>1. PICK i \in 1..(Len(s) + 1) : IsBody(Append(s, f)[i]) /\ n = Append(s, f)[i].who
    BY <1>1, <1>2 DEF Bodies
  <2>2. CASE i = Len(s) + 1
    BY <1>1, <2>1, <2>2
  <2>3. CASE i # Len(s) + 1
    <3>1. i \in DOMAIN s /\ Append(s, f)[i] = s[i]
      BY <1>1, <2>3
    <3> QED BY <2>1, <3>1 DEF Bodies
  <2> QED BY <2>2, <2>3
<1> QED BY <1>1, <1>2

\* The lower part of a stack runs nothing more.
LEMMA LowerBodies ==
  ASSUME NEW s \in Seq(Frames), NEW k \in 0..Len(s)
  PROVE  /\ SubSeq(s, 1, k) \in Seq(Frames)
         /\ Bodies(SubSeq(s, 1, k)) \subseteq Bodies(s)
<1>1. Len(s) \in Nat /\ DOMAIN s = 1..Len(s)
  BY LenProperties
<1>2. /\ SubSeq(s, 1, k) \in Seq(Frames) /\ DOMAIN SubSeq(s, 1, k) = 1..k
      /\ \A i \in 1..k : SubSeq(s, 1, k)[i] = s[i]
  <2>1. \A i \in 1..k : s[i] \in Frames
    BY <1>1, ElementOfSeq
  <2>2. SubSeq(s, 1, k) = [i \in 1..k |-> s[i]]
    BY <1>1
  <2>3. [i \in 1..k |-> s[i]] \in Seq(Frames)
    BY <1>1, <2>1, IsASeq
  <2> QED BY <2>2, <2>3
<1> QED BY <1>1, <1>2 DEF Bodies

\* The stack below its top, and the top.
LEMMA TopAndUnder ==
  ASSUME stack \in Seq(Frames), stack # <<>>
  PROVE  /\ Top \in Frames /\ Under \in Seq(Frames)
         /\ Bodies(Under) \subseteq Bodies(stack)
         /\ IsBody(Top) => Top.who \in Bodies(stack)
<1>1. Len(stack) \in Nat \ {0} /\ DOMAIN stack = 1..Len(stack)
  BY LenProperties, EmptySeq
<1>2. Top = stack[Len(stack)] /\ Under = SubSeq(stack, 1, Len(stack) - 1)
  BY DEF Top, Under, Last, Front
<1>3. Len(stack) - 1 \in 0..Len(stack) /\ Len(stack) \in DOMAIN stack
  BY <1>1
<1>4. Top \in Frames
  BY <1>1, <1>2, <1>3, ElementOfSeq
<1> QED BY <1>2, <1>3, <1>4, LowerBodies DEF Bodies

\* Replacing the top of the stack.
LEMMA BecomeBodies ==
  ASSUME stack \in Seq(Frames), stack # <<>>, NEW f \in Frames,
         IsBody(f) => f.who \in Bodies(stack)
  PROVE  /\ Append(Under, f) \in Seq(Frames)
         /\ Bodies(Append(Under, f)) \subseteq Bodies(stack)
BY TopAndUnder, PushBodies

\* The body on top goes on with a next source and a value.
LEMMA TopGoesOn ==
  ASSUME stack \in Seq(Frames), NEW n, Running(n), NEW v \in BOOLEAN, NEW k \in Nat \ {0}
  PROVE  LET f == [Top EXCEPT !.acc = v, !.next = k]
         IN  f \in Frames /\ IsBody(f) /\ f.who \in Bodies(stack)
<1>1. stack # <<>> /\ IsBody(Top)
  BY DEF Running
<1>2. Top \in BodyFrames /\ Top.who \in Bodies(stack)
  BY <1>1, TopAndUnder, FrameKinds
<1> DEFINE f == [Top EXCEPT !.acc = v, !.next = k]
<1>3. f \in BodyFrames /\ f.kind = Top.kind /\ f.who = Top.who
  BY <1>2 DEF BodyFrames
<1> QED BY <1>1, <1>2, <1>3, FramesOK DEF IsBody

\* A notification marks computeds, and runs no body itself.
LEMMA NotifyOK ==
  ASSUME TypeOK, NEW s, NEW frames \in Seq(Frames), Notify(s, frames)
  PROVE  /\ state' \in [Computeds -> {"clean", "dirty", "computing"}]
         /\ pending' \subseteq Effects
         /\ stack' \in Seq(Frames)
         /\ Bodies(stack') \subseteq Bodies(frames)
<1>1. state' \in [Computeds -> {"clean", "dirty", "computing"}]
  BY DEF TypeOK, Notify
<1>2. Queued(s) \subseteq Effects /\ pending \subseteq Effects
  BY DEF Queued, TypeOK
<1>3. CASE InBatch \/ Queued(s) = {}
  BY <1>1, <1>2, <1>3 DEF Notify
<1>4. CASE ~(InBatch \/ Queued(s) = {})
  <2> DEFINE f == FlushFrame(pending \cup Queued(s))
  <2>1. f \in Frames /\ ~IsBody(f)
    BY <1>2, FramesOK
  <2>2. pending' = {} /\ stack' = Append(frames, f)
    BY <1>4 DEF Notify
  <2> QED BY <1>1, <2>1, <2>2, PushBodies
<1> QED BY <1>3, <1>4

(***************************************************************************)
(* Steps                                                                   *)
(***************************************************************************)
\* What every step does to the stack: it runs no effect anew that is disposed of.
StackStep ==
  /\ stack' \in Seq(Frames)
  /\ \A e \in Effects : e \in Bodies(stack') => e \in Bodies(stack) \/ life[e] # "disposed"

\* Type correctness of what is not on the stack.
RestOK ==
  /\ value \in [Signals -> BOOLEAN]
  /\ cached \in [Computeds -> BOOLEAN]
  /\ state \in [Computeds -> {"clean", "dirty", "computing"}]
  /\ subs \subseteq Readable \X Subscribers
  /\ life \in [Effects -> {"new", "creating", "live", "disposed"}]
  /\ pending \subseteq Effects
  /\ seen \in [Effects -> BOOLEAN] /\ excused \subseteq Effects
  /\ broken \subseteq Computeds /\ throws \in 0..MaxThrows

\* No effect is a computed.
LEMMA EffectsAreNot == \A e \in Effects : e \notin Computeds
BY GraphAssumption

LEMMA TypeIsRest == TypeOK <=> RestOK /\ stack \in Seq(Frames)
BY DEF TypeOK, RestOK

LEMMA TypeIsRestNext == TypeOK' <=> RestOK' /\ stack' \in Seq(Frames)
BY DEF TypeOK, RestOK

\* Calls of the program that start no body.
LEMMA ProgramStep ==
  ASSUME TypeOK,
         \/ \E s \in Signals : Write(s) \/ Touch(s)
         \/ BatchBegins \/ BatchEnds
         \/ \E e \in Effects : Dispose(e)
  PROVE  RestOK' /\ StackStep
<1> USE TypeIsRest
<1>1. CASE \E s \in Signals : Write(s) \/ Touch(s)
  <2>1. PICK s \in Signals : Write(s) \/ Touch(s)
    BY <1>1
  <2>2. /\ Notify(s, stack)
        /\ value' \in [Signals -> BOOLEAN]
        /\ UNCHANGED <<cached, subs, life, seen, excused, broken, throws>>
    BY <2>1 DEF Write, Touch, RestOK
  <2> QED BY <2>2, NotifyOK DEF RestOK, StackStep
<1>2. CASE BatchBegins
  <2>1. stack' = Append(stack, BatchFrame)
    BY <1>2 DEF BatchBegins, Push
  <2>2. UNCHANGED <<graph, subs, life, pending, seen, excused, broken, throws>>
    BY <1>2 DEF BatchBegins
  <2> QED BY <2>1, <2>2, PushBodies, FramesOK DEF RestOK, StackStep, graph
<1>3. CASE BatchEnds
  <2>1. stack # <<>> /\ UNCHANGED <<graph, subs, life, seen, excused, broken, throws>>
    BY <1>3 DEF BatchEnds, IsTop
  <2>2. CASE Len(stack) > 1 \/ pending = {}
    <3>1. stack' = Under /\ pending' = pending
      BY <1>3, <2>2 DEF BatchEnds, Pop
    <3> QED BY <2>1, <3>1, TopAndUnder DEF RestOK, StackStep, graph
  <2>3. CASE ~(Len(stack) > 1 \/ pending = {})
    <3>1. stack' = <<FlushFrame(pending)>> /\ pending' = {}
      BY <1>3, <2>3 DEF BatchEnds
    <3>2. FlushFrame(pending) \in Frames /\ ~IsBody(FlushFrame(pending))
      BY FramesOK DEF RestOK
    <3>3. stack' \in Seq(Frames) /\ Bodies(stack') = {}
      BY <3>1, <3>2 DEF Bodies
    <3> QED BY <2>1, <3>1, <3>3 DEF RestOK, StackStep, graph
  <2> QED BY <2>2, <2>3
<1>4. CASE \E e \in Effects : Dispose(e)
  <2>1. PICK e \in Effects : Dispose(e)
    BY <1>4
  <2>2. /\ life' = [life EXCEPT ![e] = "disposed"]
        /\ subs' \subseteq subs
        /\ excused' = excused \cup {e}
        /\ seen' \in [Effects -> BOOLEAN]
        /\ UNCHANGED <<graph, pending, stack, broken, throws>>
    BY <2>1 DEF Dispose, Without, Excuse
  <2> QED BY <2>2 DEF RestOK, StackStep, graph
<1> QED BY <1>1, <1>2, <1>3, <1>4

\* Calls that run a body: a computed that is not clean, a new effect.
LEMMA CallStep ==
  ASSUME TypeOK,
         \/ \E c \in Computeds : Peek(c)
         \/ \E n \in Subscribers : ReadComputes(n)
         \/ \E e \in Effects : Create(e)
  PROVE  RestOK' /\ StackStep
<1> USE TypeIsRest
<1>0. \A n \in Computeds : n \in Subscribers /\ n \in Readable /\ n \notin Effects
  BY GraphAssumption DEF Subscribers, Readable
<1>1. CASE \E c \in Computeds : Peek(c)
  <2>1. PICK c \in Computeds : Peek(c)
    BY <1>1
  <2>2. RunFrame(c) \in Frames /\ RunFrame(c).who = c
    BY <1>0, FramesOK DEF RunFrame
  <2>3. /\ stack' = Append(stack, RunFrame(c))
        /\ state' = [state EXCEPT ![c] = "computing"] /\ subs' \subseteq subs
        /\ UNCHANGED <<value, cached, life, pending, seen, excused, broken, throws>>
    BY <2>1 DEF Peek, Push, Without
  <2> QED BY <1>0, <2>2, <2>3, PushBodies DEF RestOK, StackStep
<1>2. CASE \E n \in Subscribers : ReadComputes(n)
  <2>1. PICK n \in Subscribers : ReadComputes(n)
    BY <1>2
  <2> DEFINE c == Sources[n][Top.next]
  <2>2. /\ c \in Computeds
        /\ stack' = Append(stack, RunFrame(c))
        /\ state' = [state EXCEPT ![c] = "computing"] /\ subs' = Without(c) \cup {<<c, n>>}
        /\ UNCHANGED <<value, cached, life, pending, seen, excused, broken, throws>>
    BY <2>1 DEF ReadComputes, Push
  <2> HIDE DEF c
  <2>3. RunFrame(c) \in Frames /\ RunFrame(c).who = c
    BY <1>0, <2>2, FramesOK DEF RunFrame
  <2>4. subs' \subseteq Readable \X Subscribers
    BY <1>0, <2>1, <2>2 DEF Without, RestOK
  <2> QED BY <1>0, <2>2, <2>3, <2>4, PushBodies DEF RestOK, StackStep
<1>3. CASE \E e \in Effects : Create(e)
  <2>1. PICK e \in Effects : Create(e)
    BY <1>3
  <2>2. Frame("create", e) \in Frames /\ Frame("create", e).who = e
    BY FramesOK DEF Subscribers
  <2>3. /\ stack' = Append(stack, Frame("create", e))
        /\ life[e] = "new" /\ life' = [life EXCEPT ![e] = "creating"]
        /\ UNCHANGED <<graph, subs, pending, seen, excused, broken, throws>>
    BY <2>1 DEF Create, Push
  <2> QED BY <2>2, <2>3, PushBodies DEF RestOK, StackStep, graph
<1> QED BY <1>1, <1>2, <1>3

\* What is on top when a body is to act.
LEMMA RunningTop ==
  ASSUME TypeOK, NEW n, Running(n)
  PROVE  /\ stack \in Seq(Frames) /\ stack # <<>>
         /\ Top \in BodyFrames /\ IsBody(Top) /\ Top.who = n
         /\ n \in Subscribers /\ Top.acc \in BOOLEAN /\ Top.next \in Nat \ {0}
<1>1. stack \in Seq(Frames) /\ stack # <<>> /\ IsBody(Top) /\ Top.who = n
  BY DEF TypeOK, Running
<1>2. Top \in BodyFrames
  BY <1>1, TopAndUnder, FrameKinds
<1> QED BY <1>1, <1>2 DEF BodyFrames

LEMMA GoesOK ==
  ASSUME TypeOK, NEW n, Running(n), NEW v \in BOOLEAN, Goes(n, v)
  PROVE  StackStep
<1> DEFINE k == IF v THEN Top.next + 1 ELSE Len(Sources[n]) + 1
           f == [Top EXCEPT !.acc = v, !.next = k]
<1>1. stack \in Seq(Frames) /\ stack # <<>> /\ Top \in BodyFrames
      /\ n \in Subscribers /\ Top.next \in Nat
  BY RunningTop
<1>2. Len(Sources[n]) \in Nat
  BY <1>1, GraphAssumption, LenProperties
<1>3. k \in Nat \ {0}
  BY <1>1, <1>2
<1>4. stack' = Append(Under, f)
  BY DEF Goes, Become
<1> HIDE DEF k
<1>5. f \in Frames /\ IsBody(f) /\ f.who \in Bodies(stack)
  BY <1>1, <1>3, TopGoesOn
<1> HIDE DEF f
<1> QED BY <1>1, <1>4, <1>5, BecomeBodies DEF StackStep

\* Steps of a body.
LEMMA BodyStep ==
  ASSUME TypeOK,
         \/ \E n \in Subscribers : ReadValue(n)
         \/ \E c \in Computeds : ComputeReturns(c)
         \/ \E e \in Effects : EffectReturns(e) \/ EffectWrites(e)
  PROVE  RestOK' /\ StackStep
<1> USE TypeIsRest
<1>1. CASE \E n \in Subscribers : ReadValue(n)
  <2>1. PICK n \in Subscribers : ReadValue(n)
    BY <1>1
  <2> DEFINE x == Sources[n][Top.next]
  <2>2. /\ Running(n) /\ Top.next <= Len(Sources[n]) /\ subs' = subs \cup {<<x, n>>}
        /\ \/ x \in Signals /\ Goes(n, value[x])
           \/ x \in Computeds /\ Goes(n, cached[x])
        /\ UNCHANGED <<graph, life, pending, seen, excused, broken, throws>>
    BY <2>1 DEF ReadValue
  <2> HIDE DEF x
  <2>3. x \in Readable
    BY <2>2 DEF Readable
  <2>4. StackStep
    BY <2>2, GoesOK DEF RestOK
  <2> QED BY <2>2, <2>3, <2>4 DEF RestOK, graph
<1>2. CASE \E c \in Computeds : ComputeReturns(c)
  <2>1. PICK c \in Computeds : ComputeReturns(c)
    BY <1>2
  <2>2. Running(c)
    BY <2>1 DEF ComputeReturns, HasRead
  <2>3. stack' = Under /\ Top.acc \in BOOLEAN /\ stack # <<>>
    BY <2>1, <2>2, RunningTop DEF ComputeReturns, Pop
  <2>4. StackStep
    BY <2>3, TopAndUnder DEF StackStep
  <2>5. /\ cached' \in [Computeds -> BOOLEAN]
        /\ state' \in [Computeds -> {"clean", "dirty", "computing"}]
        /\ broken' \subseteq broken
        /\ UNCHANGED <<value, subs, life, pending, seen, excused, throws>>
    BY <2>1, <2>3 DEF ComputeReturns, RestOK
  <2> QED BY <2>4, <2>5 DEF RestOK
<1>3. CASE \E e \in Effects : EffectReturns(e)
  <2>1. PICK e \in Effects : EffectReturns(e)
    BY <1>3
  <2>2. Running(e)
    BY <2>1 DEF EffectReturns, HasRead
  <2>3. stack' = Under /\ stack # <<>>
    BY <2>1, <2>2, RunningTop DEF EffectReturns, Pop
  <2>4. StackStep
    BY <2>3, TopAndUnder DEF StackStep
  <2>5. seen' \in [Effects -> BOOLEAN]
    <3>1. seen' = seen \/ seen' = [seen EXCEPT ![e] = Top.acc /\ e \notin excused]
      BY <2>1 DEF EffectReturns, Show
    <3>2. (Top.acc /\ e \notin excused) \in BOOLEAN
      OBVIOUS
    <3> QED BY <3>1, <3>2 DEF RestOK
  <2>6. life' \in [Effects -> {"new", "creating", "live", "disposed"}]
    BY <2>1 DEF EffectReturns, RestOK
  <2>7. UNCHANGED <<graph, subs, pending, excused, broken, throws>>
    BY <2>1 DEF EffectReturns
  <2> QED BY <2>4, <2>5, <2>6, <2>7 DEF RestOK, graph
<1>4. CASE \E e \in Effects : EffectWrites(e)
  <2>1. PICK e \in Effects : EffectWrites(e)
    BY <1>4
  <2>2. Running(e)
    BY <2>1 DEF EffectWrites, HasRead
  <2> DEFINE f == [Top EXCEPT !.next = Top.next + 1]
  <2>3. /\ Top \in BodyFrames /\ Top.acc \in BOOLEAN /\ Top.next \in Nat
        /\ stack \in Seq(Frames) /\ stack # <<>>
    BY <2>2, RunningTop
  <2>4. f = [Top EXCEPT !.acc = Top.acc, !.next = Top.next + 1]
    BY <2>3 DEF BodyFrames
  <2>5. f \in Frames /\ IsBody(f) /\ f.who \in Bodies(stack)
    <3>1. Top.next + 1 \in Nat \ {0}
      BY <2>3
    <3> QED BY <2>2, <2>3, <2>4, <3>1, TopGoesOn
  <2>6. Notify(Target[e], Append(Under, f))
    BY <2>1 DEF EffectWrites
  <2> HIDE DEF f
  <2>7. Append(Under, f) \in Seq(Frames) /\ Bodies(Append(Under, f)) \subseteq Bodies(stack)
    BY <2>3, <2>5, BecomeBodies
  <2>8. /\ state' \in [Computeds -> {"clean", "dirty", "computing"}]
        /\ pending' \subseteq Effects /\ StackStep
    BY <2>6, <2>7, NotifyOK DEF StackStep
  <2>9. value' \in [Signals -> BOOLEAN]
    BY <2>1, <2>3 DEF EffectWrites, RestOK
  <2>10. seen' \in [Effects -> BOOLEAN]
    <3>1. seen' = [seen EXCEPT ![e] = Top.acc /\ e \notin excused]
      BY <2>1 DEF EffectWrites, Show
    <3>2. (Top.acc /\ e \notin excused) \in BOOLEAN
      OBVIOUS
    <3> QED BY <3>1, <3>2 DEF RestOK
  <2>11. UNCHANGED <<cached, subs, life, excused, broken, throws>>
    BY <2>1 DEF EffectWrites
  <2> QED BY <2>8, <2>9, <2>10, <2>11 DEF RestOK
<1> QED BY <1>1, <1>2, <1>3, <1>4

\* The flush runs effects that are not disposed of.
LEMMA FlushStep ==
  ASSUME TypeOK, FlushAgain \/ \E e \in Effects : FlushNext(e)
  PROVE  RestOK' /\ StackStep
<1> USE TypeIsRest
<1>0. \A q \in SUBSET Effects : FlushFrame(q) \in Frames /\ ~IsBody(FlushFrame(q))
  BY FramesOK
<1>1. CASE \E e \in Effects : FlushNext(e)
  <2>1. PICK e \in Effects : FlushNext(e)
    BY <1>1
  <2>2. stack # <<>> /\ Top.kind = "flush"
    BY <2>1 DEF FlushNext, IsTop
  <2> DEFINE rest == FlushFrame(Rest(Top.queue, e))
  <2>3. rest \in Frames /\ ~IsBody(rest)
    BY <1>0, <2>2, TopAndUnder, FrameKinds DEF Rest
  <2>4. subs' \subseteq subs
    BY <2>1 DEF FlushNext, Without
  <2>5. /\ excused' \subseteq excused \cup {e} /\ seen' \in [Effects -> BOOLEAN]
        /\ UNCHANGED <<graph, life, pending, broken, throws>>
    BY <2>1 DEF FlushNext, Excuse
  <2>6. CASE StillLive(e)
    <3>1. stack' = Under \o <<rest, RunFrame(e)>>
      BY <2>1, <2>6 DEF FlushNext
    <3> HIDE DEF rest
    <3>2. /\ RunFrame(e) \in Frames /\ RunFrame(e).who = e
      BY FramesOK DEF RunFrame, Subscribers
    <3>3. Append(Under, rest) \in Seq(Frames) /\ Bodies(Append(Under, rest)) \subseteq Bodies(stack)
      BY <2>2, <2>3, BecomeBodies
    <3>4. stack' = Append(Append(Under, rest), RunFrame(e))
      BY <2>2, <2>3, <3>1, <3>2, TopAndUnder
    <3>5. StackStep
      BY <2>6, <3>2, <3>3, <3>4, PushBodies DEF StackStep, StillLive
    <3> QED BY <2>4, <2>5, <3>5 DEF RestOK, graph
  <2>7. CASE ~StillLive(e)
    <3>1. stack' = Append(Under, rest)
      BY <2>1, <2>7 DEF FlushNext, Become
    <3> HIDE DEF rest
    <3>2. StackStep
      BY <2>2, <2>3, <3>1, BecomeBodies DEF StackStep
    <3> QED BY <2>4, <2>5, <3>2 DEF RestOK, graph
  <2> QED BY <2>6, <2>7
<1>2. CASE FlushAgain
  <2>1. /\ stack # <<>> /\ pending' = {}
        /\ UNCHANGED <<graph, subs, life, seen, excused, broken, throws>>
    BY <1>2 DEF FlushAgain, IsTop
  <2>2. stack' = Under \/ stack' = Append(Under, FlushFrame(pending))
    BY <1>2 DEF FlushAgain, Pop, Become
  <2>3. FlushFrame(pending) \in Frames /\ ~IsBody(FlushFrame(pending))
    BY <1>0 DEF RestOK
  <2>4. StackStep
    BY <2>1, <2>2, <2>3, TopAndUnder, BecomeBodies DEF StackStep
  <2> QED BY <2>1, <2>4 DEF RestOK, graph
<1> QED BY <1>1, <1>2

\* An exception unwinds the stack.
LEMMA ThrowStep ==
  ASSUME TypeOK, NEW k \in 0..Len(stack), Throw(k)
  PROVE  RestOK' /\ StackStep
<1> USE TypeIsRest
<1>1. /\ state' \in [Computeds -> {"clean", "dirty", "computing"}]
      /\ broken' \subseteq Computeds /\ throws' \in 0..MaxThrows
      /\ UNCHANGED <<value, cached, subs, life>>
  <2>1. throws \in 0..MaxThrows /\ MaxThrows \in Nat /\ throws < MaxThrows /\ throws' = throws + 1
    BY GraphAssumption DEF Throw, RestOK
  <2> QED BY <2>1 DEF Throw, RestOK
<1>2. excused' \subseteq Effects /\ seen' \in [Effects -> BOOLEAN]
  BY DEF Throw, Excuse, RestOK
<1>3. pending' \subseteq Effects
  BY DEF Throw, RestOK
<1>4. StackStep
  <2>1. CASE stack' = SubSeq(stack, 1, k)
    BY <2>1, LowerBodies DEF StackStep
  <2>2. CASE stack' = <<FlushFrame(pending)>>
    <3>1. FlushFrame(pending) \in Frames /\ ~IsBody(FlushFrame(pending))
      BY FramesOK DEF RestOK
    <3> QED BY <2>2, <3>1 DEF StackStep, Bodies
  <2> QED BY <2>1, <2>2 DEF Throw
<1> QED BY <1>1, <1>2, <1>3, <1>4 DEF RestOK

LEMMA NextStep ==
  ASSUME TypeOK, Next
  PROVE  TypeOK' /\ StackStep
<1>1. RestOK' /\ StackStep
  BY ProgramStep, CallStep, BodyStep, FlushStep, ThrowStep DEF Next, Operation, Runtime
<1> QED BY <1>1, TypeIsRestNext DEF StackStep

(***************************************************************************)
(* Theorems                                                                *)
(***************************************************************************)
\* Every variable has its type, whatever the graph and the program.
THEOREM TypeCorrect == Spec => []TypeOK
<1>1. Init => TypeOK
  <2> SUFFICES ASSUME Init PROVE TypeOK
    OBVIOUS
  <2>1. stack \in Seq(Frames)
    BY DEF Init
  <2>2. RestOK
    BY GraphAssumption DEF Init, RestOK
  <2> QED BY <2>1, <2>2, TypeIsRest
<1>2. TypeOK /\ UNCHANGED vars => TypeOK'
  BY DEF TypeOK, vars
<1>3. TypeOK /\ [Next]_vars => TypeOK'
  BY <1>2, NextStep
<1> QED BY <1>1, <1>3, PTL DEF Spec

\* An effect that was disposed of, and has left its last run, never runs again: not
\* from the queue of a flush that began before, not by a later write.
THEOREM DisposedEffectsStayQuiet == Spec => DisposedStaysQuiet
<1> DEFINE Quiet == \A e \in Effects : life[e] = "disposed" /\ ~IsRunning(e) => ~IsRunning(e)'
<1>1. TypeOK /\ Next => Quiet
  <2> SUFFICES ASSUME TypeOK, Next, NEW e \in Effects, life[e] = "disposed", ~IsRunning(e)
               PROVE  ~IsRunning(e)'
    OBVIOUS
  <2>1. e \notin Bodies(stack)
    BY RunningIsBody
  <2>2. e \notin Bodies(stack')
    BY <2>1, NextStep DEF StackStep
  <2> QED BY <2>2 DEF IsRunning, Bodies
<1>2. TypeOK /\ [Next]_vars => [Quiet]_vars
  BY <1>1
<1>3. Spec => []TypeOK
  BY TypeCorrect
<1> QED BY <1>2, <1>3, PTL DEF Spec, DisposedStaysQuiet

(***************************************************************************)
(* What has been told about dirty computeds                                *)
(***************************************************************************)
ComputedFrame(f) == IsBody(f) /\ f.who \in Computeds

\* Only computeds run on top of a computed: a computed does nothing but read.
ComputedsOnTop(s) ==
  \A i, j \in DOMAIN s : i < j /\ ComputedFrame(s[i]) => ComputedFrame(s[j])

NoComputeds(s) == \A i \in DOMAIN s : ~ComputedFrame(s[i])

\* What the running computeds have read so far is not dirty.
ReadsFresh == \A p \in subs : p[2] \in Bodies(stack) \cap Computeds /\ p[1] \in Computeds =>
                state[p[1]] # "dirty"

\* An effect is created once, and not disposed of meanwhile.
IsCreate(f) == f.kind = "create" /\ f.who \in Effects
CreatesOnce ==
  /\ \A i \in DOMAIN stack : IsCreate(stack[i]) => life[stack[i].who] = "creating"
  /\ \A i, j \in DOMAIN stack :
       IsCreate(stack[i]) /\ IsCreate(stack[j]) /\ i # j => stack[i].who # stack[j].who

\* The flushes on a stack have e still to run.
Waits(e, s) == \E i \in DOMAIN s : s[i].kind = "flush" /\ e \in s[i].queue

\* The inductive invariant of notification.
ToldInv == /\ ComputedsOnTop(stack) /\ CreatesOnce
           /\ throws = 0 => ReadsFresh /\ DirtyHasTold

LEMMA AwaitedIs == \A e : e \in Awaited <=> e \in pending \/ Waits(e, stack)
BY DEF Awaited, Waits

LEMMA AwaitedIsNext == \A e : e \in Awaited' <=> e \in pending' \/ Waits(e, stack')
BY DEF Awaited, Waits

\* The indices of a stack after a push and below its top.
LEMMA PushIndices ==
  ASSUME NEW s \in Seq(Frames), NEW f \in Frames
  PROVE  /\ Len(s) \in Nat /\ DOMAIN s = 1..Len(s)
         /\ Append(s, f) \in Seq(Frames)
         /\ DOMAIN Append(s, f) = 1..(Len(s) + 1)
         /\ \A i \in 1..Len(s) : Append(s, f)[i] = s[i]
         /\ Append(s, f)[Len(s) + 1] = f
BY AppendProperties, LenProperties

LEMMA UnderIndices ==
  ASSUME stack \in Seq(Frames), stack # <<>>
  PROVE  /\ Len(stack) \in Nat \ {0} /\ DOMAIN stack = 1..Len(stack)
         /\ Under \in Seq(Frames) /\ Len(Under) = Len(stack) - 1
         /\ DOMAIN Under = 1..(Len(stack) - 1)
         /\ \A i \in 1..(Len(stack) - 1) : Under[i] = stack[i]
         /\ Top = stack[Len(stack)]
<1>1. Len(stack) \in Nat \ {0} /\ DOMAIN stack = 1..Len(stack)
  BY LenProperties, EmptySeq
<1>2. Top = stack[Len(stack)] /\ Under = SubSeq(stack, 1, Len(stack) - 1)
  BY DEF Top, Under, Last, Front
<1>3. Under = [i \in 1..(Len(stack) - 1) |-> stack[i]]
  BY <1>1, <1>2
<1>4. Under \in Seq(Frames)
  BY TopAndUnder
<1>5. Len(Under) = Len(stack) - 1
  BY <1>1, <1>3, <1>4, LenProperties
<1> QED BY <1>1, <1>2, <1>3, <1>4, <1>5

\* Below a top that is not a computed there is none.
LEMMA NoComputedBelow ==
  ASSUME stack \in Seq(Frames), ComputedsOnTop(stack),
         stack = <<>> \/ ~ComputedFrame(Top)
  PROVE  /\ NoComputeds(stack)
         /\ Bodies(stack) \cap Computeds = {}
<1>1. NoComputeds(stack)
  <2>1. CASE stack = <<>>
    BY <2>1, EmptySeq DEF NoComputeds
  <2>2. CASE stack # <<>>
    BY <2>2, UnderIndices DEF ComputedsOnTop, NoComputeds
  <2> QED BY <2>1, <2>2
<1> QED BY <1>1 DEF Bodies, ComputedFrame, NoComputeds

\* A push keeps computeds on top, unless it covers one with something else.
LEMMA PushOnTop ==
  ASSUME NEW s \in Seq(Frames), NEW f \in Frames, ComputedsOnTop(s),
         ComputedFrame(f) \/ NoComputeds(s)
  PROVE  ComputedsOnTop(Append(s, f))
BY PushIndices DEF ComputedsOnTop, NoComputeds

LEMMA PushNoComputed ==
  ASSUME NEW s \in Seq(Frames), NEW f \in Frames, NoComputeds(s), ~ComputedFrame(f)
  PROVE  NoComputeds(Append(s, f))
BY PushIndices DEF NoComputeds

LEMMA UnderOnTop ==
  ASSUME stack \in Seq(Frames), stack # <<>>, ComputedsOnTop(stack)
  PROVE  ComputedsOnTop(Under)
BY UnderIndices DEF ComputedsOnTop

LEMMA BecomeOnTop ==
  ASSUME stack \in Seq(Frames), stack # <<>>, ComputedsOnTop(stack), NEW f \in Frames,
         ComputedFrame(f) <=> ComputedFrame(Top)
  PROVE  ComputedsOnTop(Append(Under, f))
<1>1. CASE ComputedFrame(f)
  BY <1>1, UnderIndices, UnderOnTop, PushOnTop
<1>2. CASE ~ComputedFrame(f)
  <2>1. NoComputeds(stack)
    BY <1>2, NoComputedBelow
  <2>2. NoComputeds(Under)
    BY <2>1, UnderIndices DEF NoComputeds
  <2> QED BY <2>2, UnderIndices, UnderOnTop, PushOnTop
<1> QED BY <1>1, <1>2

\* Who waits, after a push and below the top.
LEMMA PushWaits ==
  ASSUME NEW s \in Seq(Frames), NEW f \in Frames
  PROVE  /\ \A e : Waits(e, s) => Waits(e, Append(s, f))
         /\ f.kind = "flush" => \A e \in f.queue : Waits(e, Append(s, f))
BY PushIndices DEF Waits

LEMMA UnderWaits ==
  ASSUME stack \in Seq(Frames), stack # <<>>
  PROVE  \A e : Waits(e, stack) => Waits(e, Under) \/ (Top.kind = "flush" /\ e \in Top.queue)
BY UnderIndices DEF Waits

\* The creations on s are among those on the stack.
FewerCreates(s) ==
  \A i \in DOMAIN s : IsCreate(s[i]) =>
    i \in DOMAIN stack /\ IsCreate(stack[i]) /\ s[i].who = stack[i].who

LEMMA FewerCreatesKept ==
  ASSUME CreatesOnce, FewerCreates(stack'),
         \A e \in Effects : life[e] = "creating" => life'[e] = "creating"
  PROVE  CreatesOnce'
BY DEF CreatesOnce, FewerCreates, IsCreate

LEMMA FewerPush ==
  ASSUME NEW s \in Seq(Frames), NEW f \in Frames, FewerCreates(s), f.kind # "create"
  PROVE  FewerCreates(Append(s, f))
BY PushIndices DEF FewerCreates, IsCreate

LEMMA FewerUnder ==
  ASSUME stack \in Seq(Frames), stack # <<>>
  PROVE  FewerCreates(Under)
BY UnderIndices DEF FewerCreates

LEMMA FewerBecome ==
  ASSUME stack \in Seq(Frames), stack # <<>>, NEW f \in Frames,
         IsCreate(f) => IsCreate(Top) /\ f.who = Top.who
  PROVE  FewerCreates(Append(Under, f))
<1>1. /\ Under \in Seq(Frames) /\ Len(Under) = Len(stack) - 1 /\ Len(stack) \in Nat \ {0}
      /\ Top = stack[Len(stack)] /\ DOMAIN stack = 1..Len(stack)
      /\ \A i \in 1..(Len(stack) - 1) : Under[i] = stack[i]
  BY UnderIndices
<1>2. /\ DOMAIN Append(Under, f) = 1..Len(stack)
      /\ \A i \in 1..(Len(stack) - 1) : Append(Under, f)[i] = stack[i]
      /\ Append(Under, f)[Len(stack)] = f
  BY <1>1, PushIndices
<1> QED BY <1>1, <1>2 DEF FewerCreates

\* Notification goes through a computed that is not dirty to its subscribers.
LEMMA ReachedCloses ==
  ASSUME NEW s, NEW p \in subs, p[2] \in Subscribers,
         p[1] \in Reached(s), state[p[1]] # "dirty"
  PROVE  p[2] \in Reached(s)
BY DEF Reached, Closed

\* A notification under which no computed runs keeps the invariant.
LEMMA NotifyTold ==
  ASSUME TypeOK, ToldInv, NEW s, NEW frames \in Seq(Frames), Notify(s, frames),
         UNCHANGED <<subs, life, throws>>,
         NoComputeds(frames), FewerCreates(frames), \A e : Waits(e, stack) => Waits(e, frames)
  PROVE  ToldInv'
<1> DEFINE f == FlushFrame(pending \cup Queued(s))
<1>1. f \in Frames /\ ~IsBody(f) /\ f.kind = "flush" /\ f.queue = pending \cup Queued(s)
  <2>1. pending \cup Queued(s) \in SUBSET Effects
    BY DEF TypeOK, Queued
  <2>2. f.kind = "flush" /\ f.queue = pending \cup Queued(s)
    BY DEF FlushFrame
  <2> QED BY <2>1, <2>2, FramesOK
<1>2. \/ stack' = frames /\ pending' = pending \cup Queued(s)
      \/ stack' = Append(frames, f)
  BY DEF Notify
<1> HIDE DEF f
<1>3. ComputedsOnTop(stack')
  <2>1. ComputedsOnTop(frames)
    BY DEF ComputedsOnTop, NoComputeds
  <2> QED BY <1>1, <1>2, <2>1, PushOnTop
<1>4. CreatesOnce'
  <2>1. FewerCreates(stack')
    BY <1>1, <1>2, FewerPush
  <2> QED BY <2>1, FewerCreatesKept DEF ToldInv
<1>5. ReadsFresh'
  <2>1. Bodies(stack') \subseteq Bodies(frames)
    BY NotifyOK
  <2>2. Bodies(frames) \cap Computeds = {}
    BY DEF Bodies, ComputedFrame, NoComputeds
  <2> QED BY <2>1, <2>2 DEF ReadsFresh
<1>6. ASSUME NEW e, e \in Queued(s) \/ e \in Awaited PROVE e \in Awaited'
  <2>1. e \in pending \cup Queued(s) \/ Waits(e, stack)
    BY <1>6, AwaitedIs
  <2>2. e \in pending' \/ Waits(e, stack')
    BY <1>1, <1>2, <2>1, PushWaits
  <2> QED BY <2>2, AwaitedIsNext
<1>7. ASSUME throws = 0 PROVE DirtyHasTold'
  <2> SUFFICES ASSUME NEW p \in subs, p[1] \in Computeds, state'[p[1]] = "dirty"
               PROVE  IF p[2] \in Computeds THEN state'[p[2]] = "dirty"
                      ELSE p[2] \in Awaited' \/ life[p[2]] = "disposed"
    BY DEF DirtyHasTold
  <2>1. DirtyHasTold /\ p[2] \in Subscribers
    BY <1>7 DEF ToldInv, TypeOK
  <2>2. state' = [c \in Computeds |-> IF c \in Reached(s) THEN "dirty" ELSE state[c]]
    BY DEF Notify
  <2>3. CASE state[p[1]] = "dirty"
    BY <1>6, <2>1, <2>2, <2>3 DEF DirtyHasTold
  <2>4. CASE state[p[1]] # "dirty"
    <3>1. p[2] \in Reached(s)
      BY <2>1, <2>2, <2>4, ReachedCloses
    <3>2. p[2] \notin Computeds => p[2] \in Queued(s)
      BY <2>1, <3>1 DEF Queued, Subscribers
    <3> QED BY <1>6, <2>2, <3>1, <3>2
  <2> QED BY <2>3, <2>4
<1> QED BY <1>3, <1>4, <1>5, <1>7 DEF ToldInv

\* Any other step: what is dirty afterwards, and has a subscriber, was so before, and
\* its subscriber is as dirty or as awaited as before.
LEMMA OtherTold ==
  ASSUME ToldInv, ComputedsOnTop(stack'), CreatesOnce', throws' = throws,
         throws = 0 => \A p \in subs' : p[1] \in Computeds /\ state'[p[1]] = "dirty" =>
           /\ p \in subs /\ state[p[1]] = "dirty"
           /\ p[2] \in Computeds => /\ state'[p[2]] = state[p[2]]
                                    /\ p[2] \in Bodies(stack') => p[2] \in Bodies(stack)
           /\ p[2] \in Awaited => p[2] \in Awaited' \/ life'[p[2]] = "disposed"
           /\ life[p[2]] = "disposed" => life'[p[2]] = "disposed"
  PROVE  ToldInv'
<1>1. ASSUME throws = 0 PROVE ReadsFresh' /\ DirtyHasTold'
  <2>1. ReadsFresh /\ DirtyHasTold
    BY <1>1 DEF ToldInv
  <2>2. ReadsFresh'
    BY <1>1, <2>1 DEF ReadsFresh
  <2>3. DirtyHasTold'
    BY <1>1, <2>1 DEF DirtyHasTold
  <2> QED BY <2>2, <2>3
<1> QED BY <1>1 DEF ToldInv

LEMMA WriteTold ==
  ASSUME TypeOK, ToldInv, NEW s \in Signals, Write(s) \/ Touch(s)
  PROVE  ToldInv'
<1>1. Notify(s, stack) /\ UNCHANGED <<subs, life, throws>> /\ Program
  BY DEF Write, Touch
<1>2. stack \in Seq(Frames)
  BY DEF TypeOK
<1>3. NoComputeds(stack)
  BY <1>1, <1>2, NoComputedBelow DEF ToldInv, Program, IsTop, ComputedFrame, IsBody
<1>4. FewerCreates(stack)
  BY DEF FewerCreates
<1> QED BY <1>1, <1>2, <1>3, <1>4, NotifyTold

LEMMA BatchTold ==
  ASSUME TypeOK, ToldInv, BatchBegins \/ BatchEnds
  PROVE  ToldInv'
<1>1. stack \in Seq(Frames) /\ ComputedsOnTop(stack) /\ CreatesOnce
  BY DEF TypeOK, ToldInv
<1>2. CASE BatchBegins
  <2>1. stack' = Append(stack, BatchFrame) /\ Program
    BY <1>2 DEF BatchBegins, Push
  <2>2. UNCHANGED <<state, subs, life, pending, throws>>
    BY <1>2 DEF BatchBegins, graph
  <2>3. BatchFrame \in Frames /\ BatchFrame.kind = "batch" /\ ~IsBody(BatchFrame)
    BY FramesOK DEF BatchFrame
  <2> HIDE DEF BatchFrame
  <2>4. NoComputeds(stack)
    BY <1>1, <2>1, NoComputedBelow DEF Program, IsTop, ComputedFrame, IsBody
  <2>5. ComputedsOnTop(stack')
    BY <1>1, <2>1, <2>3, <2>4, PushOnTop
  <2>6. FewerCreates(stack')
    BY <1>1, <2>1, <2>3, FewerPush DEF FewerCreates
  <2>7. CreatesOnce'
    BY <1>1, <2>2, <2>6, FewerCreatesKept
  <2>8. \A n \in Bodies(stack') : n \in Bodies(stack)
    BY <1>1, <2>1, <2>3, PushBodies
  <2>9. \A e : e \in Awaited => e \in Awaited'
    BY <1>1, <2>1, <2>2, <2>3, PushWaits, AwaitedIs, AwaitedIsNext
  <2> QED BY <2>2, <2>5, <2>7, <2>8, <2>9, OtherTold
<1>3. CASE BatchEnds
  <2>1. stack # <<>> /\ Top.kind = "batch" /\ UNCHANGED <<state, subs, life, throws>>
    BY <1>3 DEF BatchEnds, IsTop, graph
  <2>2. CASE Len(stack) > 1 \/ pending = {}
    <3>1. stack' = Under /\ pending' = pending
      BY <1>3, <2>2 DEF BatchEnds, Pop
    <3>2. ComputedsOnTop(stack')
      BY <1>1, <2>1, <3>1, UnderOnTop
    <3>3. CreatesOnce'
      BY <1>1, <2>1, <3>1, FewerUnder, FewerCreatesKept
    <3>4. \A n \in Bodies(stack') : n \in Bodies(stack)
      BY <1>1, <2>1, <3>1, TopAndUnder
    <3>5. \A e : e \in Awaited => e \in Awaited'
      BY <1>1, <2>1, <3>1, UnderWaits, AwaitedIs, AwaitedIsNext
    <3> QED BY <2>1, <3>2, <3>3, <3>4, <3>5, OtherTold
  <2>3. CASE ~(Len(stack) > 1 \/ pending = {})
    <3> DEFINE f == FlushFrame(pending)
    <3>1. stack' = <<f>>
      BY <1>3, <2>3 DEF BatchEnds
    <3>2. f.kind = "flush" /\ f.queue = pending /\ ~IsBody(f) /\ ~IsCreate(f)
      BY DEF FlushFrame, IsBody, IsCreate
    <3> HIDE DEF f
    <3>3. DOMAIN stack' = {1} /\ stack'[1] = f
      BY <3>1
    <3>4. ComputedsOnTop(stack') /\ CreatesOnce' /\ Bodies(stack') = {}
      BY <3>2, <3>3 DEF ComputedsOnTop, CreatesOnce, Bodies
    <3>5. \A e : ~Waits(e, Under)
      <4>1. Len(stack) = 1
        BY <1>1, <2>1, <2>3, UnderIndices
      <4> QED BY <1>1, <2>1, <4>1, UnderIndices DEF Waits
    <3>6. \A e : e \in pending => Waits(e, stack')
      BY <3>2, <3>3 DEF Waits
    <3>7. \A e : e \in Awaited => e \in Awaited'
      BY <1>1, <2>1, <3>5, <3>6, UnderWaits, AwaitedIs, AwaitedIsNext
    <3> QED BY <2>1, <3>4, <3>7, OtherTold
  <2> QED BY <2>2, <2>3
<1> QED BY <1>2, <1>3

\* A computed is run again: nobody reads what it has read before.
LEMMA ComputeTold ==
  ASSUME TypeOK, ToldInv,
         (\E c \in Computeds : Peek(c)) \/ (\E n \in Subscribers : ReadComputes(n))
  PROVE  ToldInv'
<1>1. stack \in Seq(Frames) /\ ComputedsOnTop(stack) /\ CreatesOnce
  BY DEF TypeOK, ToldInv
<1>2. PICK c \in Computeds :
        /\ stack' = Append(stack, RunFrame(c)) /\ state' = [state EXCEPT ![c] = "computing"]
        /\ subs' = Without(c) \/ \E n : subs' = Without(c) \cup {<<c, n>>}
        /\ UNCHANGED <<life, pending, throws>>
  BY DEF Peek, ReadComputes, Push
<1>3. /\ RunFrame(c) \in Frames /\ RunFrame(c).kind = "run" /\ RunFrame(c).who = c
      /\ ComputedFrame(RunFrame(c))
  <2>1. c \in Subscribers
    BY DEF Subscribers
  <2>2. RunFrame(c).kind = "run"
    BY DEF RunFrame, Frame
  <2> QED BY <2>1, <2>2, FramesOK DEF RunFrame, ComputedFrame
<1>4. ComputedsOnTop(stack')
  BY <1>1, <1>2, <1>3, PushOnTop
<1>5. FewerCreates(stack')
  BY <1>1, <1>2, <1>3, FewerPush DEF FewerCreates
<1>6. CreatesOnce'
  BY <1>1, <1>2, <1>5, FewerCreatesKept
<1>7. \A n \in Bodies(stack') : n \in Bodies(stack) \/ n = c
  BY <1>1, <1>2, <1>3, PushBodies
<1>8. \A e : e \in Awaited => e \in Awaited'
  BY <1>1, <1>2, <1>3, PushWaits, AwaitedIs, AwaitedIsNext
<1>9. ASSUME NEW p \in subs', p[1] \in Computeds, state'[p[1]] = "dirty"
      PROVE  /\ p \in subs /\ p[2] # c /\ state[p[1]] = "dirty"
             /\ p[2] \in Computeds => state'[p[2]] = state[p[2]]
  <2>1. state \in [Computeds -> {"clean", "dirty", "computing"}]
    BY DEF TypeOK
  <2>2. p[1] # c /\ state[p[1]] = "dirty"
    BY <1>2, <1>9, <2>1
  <2>3. p \in Without(c)
    BY <1>2, <1>9, <2>2
  <2> QED BY <1>2, <2>1, <2>2, <2>3 DEF Without
<1> QED BY <1>2, <1>4, <1>6, <1>7, <1>8, <1>9, OtherTold

\* Effects come and go.
LEMMA LifeTold ==
  ASSUME TypeOK, ToldInv, NEW e \in Effects, Create(e) \/ Dispose(e)
  PROVE  ToldInv'
<1>1. stack \in Seq(Frames) /\ ComputedsOnTop(stack) /\ CreatesOnce
  BY DEF TypeOK, ToldInv
<1>2. e \notin Computeds /\ life \in [Effects -> {"new", "creating", "live", "disposed"}]
  BY EffectsAreNot DEF TypeOK
<1>3. stack = <<>> \/ ~ComputedFrame(Top)
  BY EffectsAreNot
  DEF Create, Dispose, Program, IsTop, InEffect, Running, ComputedFrame, IsBody
<1>4. CASE Create(e)
  <2> DEFINE f == Frame("create", e)
  <2>1. f \in Frames /\ f.kind = "create" /\ f.who = e /\ ~ComputedFrame(f)
    <3>1. f \in Frames /\ f.who = e
      BY FramesOK DEF Subscribers
    <3>2. f.kind = "create"
      BY DEF Frame
    <3> QED BY <1>2, <3>1, <3>2 DEF ComputedFrame
  <2>2. /\ stack' = Append(stack, f) /\ life[e] = "new" /\ life' = [life EXCEPT ![e] = "creating"]
        /\ UNCHANGED <<state, subs, pending, throws>>
    BY <1>4 DEF Create, Push, graph
  <2> HIDE DEF f
  <2>3. ComputedsOnTop(stack')
    BY <1>1, <1>3, <2>1, <2>2, NoComputedBelow, PushOnTop
  <2>4. CreatesOnce'
    <3>1. /\ Len(stack) \in Nat /\ DOMAIN stack = 1..Len(stack)
          /\ DOMAIN stack' = 1..(Len(stack) + 1) /\ stack'[Len(stack) + 1] = f
          /\ \A i \in 1..Len(stack) : stack'[i] = stack[i]
      BY <1>1, <2>1, <2>2, PushIndices
    <3>2. \A i \in DOMAIN stack : IsCreate(stack[i]) =>
            stack[i].who # e /\ life'[stack[i].who] = "creating"
      BY <1>1, <1>2, <2>2 DEF CreatesOnce, IsCreate
    <3>3. life'[e] = "creating"
      BY <1>2, <2>2
    <3> QED BY <1>1, <2>1, <3>1, <3>2, <3>3 DEF CreatesOnce
  <2>5. \A n \in Computeds : n \in Bodies(stack') => n \in Bodies(stack)
    BY <1>1, <1>2, <2>1, <2>2, PushBodies
  <2>6. \A d : d \in Awaited => d \in Awaited'
    BY <1>1, <2>1, <2>2, PushWaits, AwaitedIs, AwaitedIsNext
  <2>7. \A d : life[d] = "disposed" => life'[d] = "disposed"
    BY <1>2, <2>2
  <2> QED BY <2>2, <2>3, <2>4, <2>5, <2>6, <2>7, OtherTold
<1>5. CASE Dispose(e)
  <2>1. /\ life[e] = "live" /\ life' = [life EXCEPT ![e] = "disposed"]
        /\ subs' \subseteq subs /\ UNCHANGED <<state, pending, stack, throws>>
    BY <1>5 DEF Dispose, Without, graph
  <2>2. CreatesOnce'
    <3>1. FewerCreates(stack')
      BY <2>1 DEF FewerCreates
    <3> QED BY <1>1, <1>2, <2>1, <3>1, FewerCreatesKept
  <2>3. \A d : d \in Awaited => d \in Awaited'
    BY <2>1 DEF Awaited
  <2>4. \A d : life[d] = "disposed" => life'[d] = "disposed"
    BY <1>2, <2>1
  <2> QED BY <1>1, <2>1, <2>2, <2>3, <2>4, OtherTold
<1> QED BY <1>4, <1>5

\* A body reads a source that is not dirty.
LEMMA ReadTold ==
  ASSUME TypeOK, ToldInv, NEW n \in Subscribers, ReadValue(n)
  PROVE  ToldInv'
<1>1. stack \in Seq(Frames) /\ ComputedsOnTop(stack) /\ CreatesOnce /\ Running(n)
  BY DEF TypeOK, ToldInv, ReadValue
<1>2. /\ stack # <<>> /\ Top \in BodyFrames /\ IsBody(Top)
      /\ Top.who = n /\ Top.next \in Nat \ {0}
  BY <1>1, RunningTop
<1>3. PICK x \in Readable, v \in BOOLEAN :
        /\ subs' = subs \cup {<<x, n>>} /\ Goes(n, v)
        /\ x \in Computeds => state[x] = "clean"
        /\ UNCHANGED <<state, life, pending, throws>>
  <2>1. value \in [Signals -> BOOLEAN] /\ cached \in [Computeds -> BOOLEAN]
    BY DEF TypeOK
  <2>2. UNCHANGED <<state, life, pending, throws>>
    BY DEF ReadValue, graph
  <2> DEFINE x == Sources[n][Top.next]
  <2>3. /\ subs' = subs \cup {<<x, n>>}
        /\ \/ x \in Signals /\ Goes(n, value[x])
           \/ x \in Computeds /\ state[x] = "clean" /\ Goes(n, cached[x])
    BY DEF ReadValue
  <2> HIDE DEF x
  <2>4. CASE x \in Signals /\ Goes(n, value[x])
    <3>1. x \in Readable /\ x \notin Computeds /\ value[x] \in BOOLEAN
      BY <2>1, <2>4, GraphAssumption DEF Subscribers, Readable
    <3> QED BY <2>2, <2>3, <2>4, <3>1
  <2>5. CASE x \in Computeds /\ state[x] = "clean" /\ Goes(n, cached[x])
    <3>1. x \in Readable /\ cached[x] \in BOOLEAN
      BY <2>1, <2>5 DEF Readable
    <3> QED BY <2>2, <2>3, <2>5, <3>1
  <2> QED BY <2>3, <2>4, <2>5
<1> DEFINE k == IF v THEN Top.next + 1 ELSE Len(Sources[n]) + 1
           f == [Top EXCEPT !.acc = v, !.next = k]
<1>4. stack' = Append(Under, f)
  BY <1>3 DEF Goes, Become
<1>5. k \in Nat \ {0}
  <2>1. Len(Sources[n]) \in Nat
    BY GraphAssumption, LenProperties
  <2> QED BY <1>2, <2>1
<1> HIDE DEF k
<1>6. f \in Frames /\ f.kind = Top.kind /\ f.who = Top.who
  <2>1. f \in Frames
    BY <1>1, <1>5, TopGoesOn
  <2> QED BY <1>2, <2>1 DEF BodyFrames
<1> HIDE DEF f
<1>7. ComputedFrame(f) <=> ComputedFrame(Top)
  BY <1>6 DEF ComputedFrame, IsBody
<1>8. ComputedsOnTop(stack')
  BY <1>1, <1>2, <1>4, <1>6, <1>7, BecomeOnTop
<1>9. CreatesOnce'
  <2>1. FewerCreates(stack')
    BY <1>1, <1>2, <1>4, <1>6, FewerBecome DEF IsCreate
  <2> QED BY <1>1, <1>3, <2>1, FewerCreatesKept
<1>10. \A m \in Bodies(stack') : m \in Bodies(stack)
  <2>1. f.who \in Bodies(stack)
    BY <1>1, <1>2, <1>6, TopAndUnder
  <2> QED BY <1>1, <1>2, <1>4, <1>6, <2>1, BecomeBodies
<1>11. \A e : e \in Awaited => e \in Awaited'
  <2>1. Top.kind # "flush" /\ Under \in Seq(Frames)
    BY <1>1, <1>2, TopAndUnder DEF IsBody
  <2> QED BY <1>1, <1>2, <1>3, <1>4, <1>6, <2>1, UnderWaits, PushWaits, AwaitedIs, AwaitedIsNext
<1>12. ASSUME NEW p \in subs', p[1] \in Computeds, state'[p[1]] = "dirty" PROVE p \in subs
  BY <1>3, <1>12
<1> QED BY <1>3, <1>8, <1>9, <1>10, <1>11, <1>12, OtherTold

\* A body ends.
LEMMA ReturnTold ==
  ASSUME TypeOK, ToldInv,
         (\E c \in Computeds : ComputeReturns(c)) \/ (\E e \in Effects : EffectReturns(e))
  PROVE  ToldInv'
<1>1. PICK n \in Subscribers :
        /\ Running(n) /\ stack' = Under
        /\ \/ ComputeReturns(n) /\ n \in Computeds
           \/ EffectReturns(n) /\ n \in Effects
  BY DEF ComputeReturns, EffectReturns, HasRead, Pop, Subscribers
<1>2. /\ stack \in Seq(Frames) /\ ComputedsOnTop(stack) /\ CreatesOnce
      /\ stack # <<>> /\ IsBody(Top) /\ Top.who = n
  BY <1>1 DEF TypeOK, ToldInv, Running
<1>3. ComputedsOnTop(stack')
  BY <1>1, <1>2, UnderOnTop
<1>4. \A m \in Bodies(stack') : m \in Bodies(stack)
  BY <1>1, <1>2, TopAndUnder
<1>5. n \in Bodies(stack)
  BY <1>2, TopAndUnder
<1>6. UNCHANGED <<subs, pending, throws>>
  BY <1>1 DEF ComputeReturns, EffectReturns
<1>7. \A e : e \in Awaited => e \in Awaited'
  BY <1>1, <1>2, <1>6, UnderWaits, AwaitedIs, AwaitedIsNext DEF IsBody
<1>8. CASE ComputeReturns(n) /\ n \in Computeds
  <2>1. life' = life /\ state' = [state EXCEPT ![n] = "clean"]
    BY <1>8 DEF ComputeReturns
  <2>2. CreatesOnce'
    BY <1>1, <1>2, <2>1, FewerUnder, FewerCreatesKept
  <2>3. ASSUME throws = 0, NEW p \in subs, p[1] \in Computeds, state'[p[1]] = "dirty"
        PROVE  p[2] # n /\ state[p[1]] = "dirty" /\ (p[2] \in Computeds => state'[p[2]] = state[p[2]])
    <3>1. state \in [Computeds -> {"clean", "dirty", "computing"}] /\ ReadsFresh
      BY <2>3 DEF TypeOK, ToldInv
    <3>2. state[p[1]] = "dirty"
      BY <1>8, <2>1, <2>3, <3>1
    <3>3. p[2] # n
      BY <1>5, <1>8, <2>3, <3>1, <3>2 DEF ReadsFresh
    <3> QED BY <2>1, <3>1, <3>2, <3>3
  <2> QED BY <1>3, <1>4, <1>6, <1>7, <2>1, <2>2, <2>3, OtherTold
<1>9. CASE EffectReturns(n) /\ n \in Effects
  <2>1. state' = state /\ life' = IF Top.kind = "create" THEN [life EXCEPT ![n] = "live"] ELSE life
    BY <1>9 DEF EffectReturns, graph
  <2>2. life \in [Effects -> {"new", "creating", "live", "disposed"}]
    BY DEF TypeOK
  <2>3. /\ Len(stack) \in Nat \ {0} /\ DOMAIN stack = 1..Len(stack)
        /\ DOMAIN stack' = 1..(Len(stack) - 1) /\ Top = stack[Len(stack)]
        /\ \A i \in 1..(Len(stack) - 1) : stack'[i] = stack[i]
    BY <1>1, <1>2, UnderIndices
  <2>4. CreatesOnce' /\ (\A e : life[e] = "disposed" => life'[e] = "disposed")
    <3>1. CASE Top.kind # "create"
      BY <1>1, <1>2, <2>1, <3>1, FewerUnder, FewerCreatesKept
    <3>2. CASE Top.kind = "create"
      <4>1. IsCreate(Top) /\ life[n] = "creating"
        BY <1>2, <1>9, <2>3, <3>2 DEF CreatesOnce, IsCreate
      <4>2. \A i \in DOMAIN stack' : IsCreate(stack'[i]) =>
              stack[i].who # n /\ IsCreate(stack[i]) /\ i \in DOMAIN stack
        BY <1>2, <2>3, <4>1 DEF CreatesOnce
      <4>3. \A i \in DOMAIN stack' : IsCreate(stack'[i]) => life'[stack'[i].who] = "creating"
        BY <1>2, <2>1, <2>2, <2>3, <4>2 DEF CreatesOnce, IsCreate
      <4>4. CreatesOnce'
        BY <1>2, <2>3, <4>2, <4>3 DEF CreatesOnce
      <4> QED BY <2>1, <2>2, <3>2, <4>1, <4>4
    <3> QED BY <3>1, <3>2
  <2> QED BY <1>3, <1>4, <1>6, <1>7, <2>1, <2>4, OtherTold
<1> QED BY <1>1, <1>8, <1>9

\* An effect writes in the middle of its run.
LEMMA EffectWriteTold ==
  ASSUME TypeOK, ToldInv, NEW e \in Effects, EffectWrites(e)
  PROVE  ToldInv'
<1>1. Running(e)
  BY DEF EffectWrites, HasRead
<1>2. /\ stack \in Seq(Frames) /\ stack # <<>> /\ ComputedsOnTop(stack)
      /\ Top \in BodyFrames /\ IsBody(Top) /\ Top.who = e
      /\ Top.acc \in BOOLEAN /\ Top.next \in Nat \ {0}
  BY <1>1, RunningTop DEF ToldInv
<1> DEFINE f == [Top EXCEPT !.next = Top.next + 1]
<1>3. f \in Frames /\ f.kind = Top.kind /\ f.who = e
  <2>1. f \in BodyFrames /\ f.kind = Top.kind /\ f.who = Top.who
    BY <1>2 DEF BodyFrames
  <2> QED BY <1>2, <2>1, FramesOK
<1>4. Notify(Target[e], Append(Under, f)) /\ UNCHANGED <<subs, life, throws>>
  BY DEF EffectWrites
<1> HIDE DEF f
<1>5. ~ComputedFrame(Top) /\ ~ComputedFrame(f)
  BY <1>2, <1>3, EffectsAreNot DEF ComputedFrame
<1>6. Under \in Seq(Frames) /\ NoComputeds(Under)
  <2>1. NoComputeds(stack)
    BY <1>2, <1>5, NoComputedBelow
  <2> QED BY <1>2, <2>1, UnderIndices DEF NoComputeds
<1>7. Append(Under, f) \in Seq(Frames) /\ NoComputeds(Append(Under, f))
  BY <1>3, <1>5, <1>6, PushIndices, PushNoComputed
<1>8. FewerCreates(Append(Under, f))
  BY <1>2, <1>3, FewerBecome DEF IsCreate
<1>9. \A d : Waits(d, stack) => Waits(d, Append(Under, f))
  BY <1>2, <1>3, <1>6, UnderWaits, PushWaits DEF IsBody
<1> QED BY <1>4, <1>7, <1>8, <1>9, NotifyTold

\* A flush takes an effect from its queue, or ends.
LEMMA FlushTold ==
  ASSUME TypeOK, ToldInv, FlushAgain \/ \E e \in Effects : FlushNext(e)
  PROVE  ToldInv'
<1>1. stack # <<>> /\ Top.kind = "flush"
  BY DEF FlushAgain, FlushNext, IsTop
<1>2. stack \in Seq(Frames) /\ ComputedsOnTop(stack) /\ CreatesOnce /\ pending \subseteq Effects
  BY DEF TypeOK, ToldInv
<1>3. /\ Top \in Frames /\ Top.queue \in SUBSET Effects /\ Under \in Seq(Frames)
      /\ ~ComputedFrame(Top)
  BY <1>1, <1>2, TopAndUnder, FrameKinds DEF ComputedFrame, IsBody
<1>4. ASSUME NEW q \in SUBSET Effects
      PROVE  LET f == FlushFrame(q)
             IN  /\ f \in Frames /\ f.kind = "flush" /\ f.queue = q
                 /\ ~IsBody(f) /\ ~ComputedFrame(f) /\ ~IsCreate(f)
  BY FramesOK DEF FlushFrame, ComputedFrame, IsCreate
<1>5. CASE FlushAgain
  <2>1. /\ UNCHANGED <<state, subs, life, throws>>
        /\ \/ stack' = Under /\ Top.queue = {} /\ pending = {}
           \/ stack' = Append(Under, FlushFrame(pending)) /\ Top.queue = {}
    BY <1>5 DEF FlushAgain, Pop, Become, graph
  <2> DEFINE f == FlushFrame(pending)
  <2>2. /\ f \in Frames /\ f.kind = "flush" /\ f.queue = pending
        /\ ~IsBody(f) /\ ~ComputedFrame(f) /\ ~IsCreate(f)
    BY <1>2, <1>4
  <2>3. stack' = Under \/ stack' = Append(Under, f)
    BY <2>1
  <2> HIDE DEF f
  <2>4. ComputedsOnTop(stack')
    BY <1>1, <1>2, <1>3, <2>2, <2>3, UnderOnTop, BecomeOnTop
  <2>5. CreatesOnce'
    <3>1. FewerCreates(stack')
      BY <1>1, <1>2, <2>2, <2>3, FewerUnder, FewerBecome
    <3> QED BY <1>2, <2>1, <3>1, FewerCreatesKept
  <2>6. \A n \in Bodies(stack') : n \in Bodies(stack)
    BY <1>1, <1>2, <2>2, <2>3, TopAndUnder, BecomeBodies
  <2>7. \A e : e \in Awaited => e \in Awaited'
    <3>1. \A e : e \in Awaited => e \in pending \/ Waits(e, Under)
      BY <1>1, <1>2, <2>1, AwaitedIs, UnderWaits
    <3>2. \A e : e \in pending \/ Waits(e, Under) => Waits(e, stack')
      BY <1>3, <2>1, <2>2, PushWaits DEF f
    <3> QED BY <3>1, <3>2, AwaitedIsNext
  <2> QED BY <2>1, <2>4, <2>5, <2>6, <2>7, OtherTold
<1>6. CASE \E e \in Effects : FlushNext(e)
  <2>1. PICK e \in Effects : FlushNext(e)
    BY <1>6
  <2> DEFINE f == FlushFrame(Rest(Top.queue, e))
  <2>2. /\ f \in Frames /\ f.kind = "flush" /\ f.queue = Top.queue \ {e}
        /\ ~IsBody(f) /\ ~ComputedFrame(f) /\ ~IsCreate(f)
    BY <1>3, <1>4 DEF Rest
  <2>3. /\ UNCHANGED <<state, life, pending, throws>> /\ subs' \subseteq subs
        /\ \/ life[e] # "disposed" /\ subs' = Without(e) /\ stack' = Under \o <<f, RunFrame(e)>>
           \/ life[e] = "disposed" /\ stack' = Append(Under, f)
    BY <2>1 DEF FlushNext, StillLive, Become, Without, graph
  <2> HIDE DEF f
  <2> DEFINE s == Append(Under, f)
             g == RunFrame(e)
  <2>4. /\ g \in Frames /\ g.kind = "run" /\ g.who = e /\ ~ComputedFrame(g)
    <3>1. g \in Frames /\ g.who = e
      BY FramesOK DEF RunFrame, Subscribers
    <3>2. g.kind = "run"
      BY DEF RunFrame, Frame
    <3> QED BY <3>1, <3>2, EffectsAreNot DEF ComputedFrame
  <2> HIDE DEF g
  <2>5. s \in Seq(Frames) /\ (stack' = s \/ stack' = Append(s, g))
    <3>1. Under \o <<f, g>> = Append(Append(Under, f), g)
      BY <1>3, <2>2, <2>4
    <3> QED BY <1>3, <2>2, <2>3, <3>1, PushIndices DEF g
  <2>6. ComputedsOnTop(stack')
    <3>1. NoComputeds(Under)
      <4>1. NoComputeds(stack)
        BY <1>1, <1>2, <1>3, NoComputedBelow
      <4> QED BY <1>1, <1>2, <4>1, UnderIndices DEF NoComputeds
    <3>2. NoComputeds(s)
      BY <1>3, <2>2, <3>1, PushNoComputed
    <3>3. NoComputeds(stack')
      BY <2>4, <2>5, <3>2, PushNoComputed
    <3> QED BY <3>3 DEF ComputedsOnTop, NoComputeds
  <2>7. FewerCreates(s)
    BY <1>1, <1>2, <2>2, FewerBecome
  <2>8. \A n \in Bodies(s) : n \in Bodies(stack)
    BY <1>1, <1>2, <2>2, BecomeBodies
  <2>9. \A d : d \in Awaited /\ d # e => d \in pending \/ Waits(d, s)
    <3>1. \A d : d \in Awaited => d \in pending \/ Waits(d, Under) \/ d \in Top.queue
      BY <1>1, <1>2, AwaitedIs, UnderWaits
    <3>2. \A d : Waits(d, Under) \/ (d \in Top.queue /\ d # e) => Waits(d, s)
      BY <1>3, <2>2, PushWaits
    <3> QED BY <3>1, <3>2
  <2> HIDE DEF s
  <2>10. CreatesOnce'
    <3>1. FewerCreates(stack')
      BY <2>4, <2>5, <2>7, FewerPush
    <3> QED BY <1>2, <2>3, <3>1, FewerCreatesKept
  <2>11. \A n \in Computeds : n \in Bodies(stack') => n \in Bodies(stack)
    BY <2>4, <2>5, <2>8, EffectsAreNot, PushBodies
  <2>12. \A d : d \in Awaited /\ d # e => d \in Awaited'
    BY <2>3, <2>4, <2>5, <2>9, PushWaits, AwaitedIsNext
  <2>13. \A p \in subs' : p[2] = e => life[e] = "disposed"
    BY <2>3 DEF Without
  <2> QED BY <2>3, <2>6, <2>10, <2>11, <2>12, <2>13, OtherTold
<1> QED BY <1>5, <1>6

\* After an exception only the shape of the stack is left of the invariant.
LEMMA ThrowTold ==
  ASSUME TypeOK, ToldInv, NEW k \in 0..Len(stack), Throw(k)
  PROVE  ToldInv'
<1>1. stack \in Seq(Frames) /\ ComputedsOnTop(stack) /\ CreatesOnce
  BY DEF TypeOK, ToldInv
<1>2. throws' # 0 /\ life' = life
  BY DEF Throw, TypeOK
<1>3. CASE stack' = SubSeq(stack, 1, k)
  <2>1. Len(stack) \in Nat /\ DOMAIN stack = 1..Len(stack)
    BY <1>1, LenProperties
  <2>2. DOMAIN stack' = 1..k /\ \A i \in 1..k : i \in DOMAIN stack /\ stack'[i] = stack[i]
    BY <1>3, <2>1
  <2>3. ComputedsOnTop(stack') /\ FewerCreates(stack')
    BY <1>1, <2>2 DEF ComputedsOnTop, FewerCreates
  <2> QED BY <1>1, <1>2, <2>3, FewerCreatesKept DEF ToldInv
<1>4. CASE stack' = <<FlushFrame(pending)>>
  <2> DEFINE f == FlushFrame(pending)
  <2>1. ~IsBody(f) /\ ~IsCreate(f)
    BY DEF FlushFrame, IsBody, IsCreate
  <2> HIDE DEF f
  <2>2. DOMAIN stack' = {1} /\ stack'[1] = f
    BY <1>4 DEF f
  <2>3. ComputedsOnTop(stack') /\ CreatesOnce'
    BY <2>1, <2>2 DEF ComputedsOnTop, CreatesOnce
  <2> QED BY <1>2, <2>3 DEF ToldInv
<1> QED BY <1>3, <1>4 DEF Throw

LEMMA NextTold ==
  ASSUME TypeOK, ToldInv, Next
  PROVE  ToldInv'
BY WriteTold, BatchTold, ComputeTold, LifeTold, ReadTold, ReturnTold, EffectWriteTold,
   FlushTold, ThrowTold DEF Next, Operation, Runtime

\* Until a body throws, what reads a dirty computed is dirty itself or is still to
\* run, so that a notification may stop there: for all graphs, however batches,
\* flushes and creations nest.
THEOREM DirtyHasToldUntilThrow == Spec => []ToldUntilThrow
<1>1. Init => ToldInv
  <2> SUFFICES ASSUME Init PROVE ToldInv
    OBVIOUS
  <2>1. DOMAIN stack = {} /\ subs = {}
    BY DEF Init
  <2> QED BY <2>1 DEF ToldInv, ComputedsOnTop, CreatesOnce, ReadsFresh, DirtyHasTold
<1>2. TypeOK /\ ToldInv /\ UNCHANGED vars => ToldInv'
  BY DEF vars, ToldInv, ComputedsOnTop, CreatesOnce, ReadsFresh, DirtyHasTold, Awaited, Bodies
<1>3. TypeOK /\ ToldInv /\ [Next]_vars => ToldInv'
  BY <1>2, NextTold
<1>4. ToldInv => ToldUntilThrow
  BY DEF ToldInv, ToldUntilThrow
<1>5. Spec => []TypeOK
  BY TypeCorrect
<1> QED BY <1>1, <1>3, <1>4, <1>5, PTL DEF Spec

(***************************************************************************)
(* No stale value                                                          *)
(***************************************************************************)
\* What x shows now, without running its body.
Shown(x) == IF x \in Signals THEN value[x] ELSE cached[x]

\* n has subscribed to x, which is up to date.
Holds(n, x) == <<x, n>> \in subs /\ (x \in Computeds => state[x] = "clean")

\* v is what the body of n would compute, by sources that n holds.
Right(n, v) ==
  IF v THEN \A i \in DOMAIN Sources[n] : Holds(n, Sources[n][i]) /\ Shown(Sources[n][i])
  ELSE \E i \in DOMAIN Sources[n] : Holds(n, Sources[n][i]) /\ ~Shown(Sources[n][i])

\* So is what the frame f has read so far.
RightSoFar(f) ==
  IF f.acc THEN \A i \in DOMAIN Sources[f.who] :
                  i < f.next => Holds(f.who, Sources[f.who][i]) /\ Shown(Sources[f.who][i])
  ELSE /\ f.next > Len(Sources[f.who])
       /\ \E i \in DOMAIN Sources[f.who] :
            Holds(f.who, Sources[f.who][i]) /\ ~Shown(Sources[f.who][i])

\* An order along which computeds depend on each other.
Follows(order) ==
  \A c \in Computeds : \A d \in Range(Sources[c]) \cap Computeds : order[d] < order[c]
Rank == CHOOSE order \in [Computeds -> 1..Cardinality(Computeds)] : Follows(order)

\* Each computed on a stack runs for one that depends on it.
Descends(s) ==
  \A i, j \in DOMAIN s : i < j /\ ComputedFrame(s[i]) /\ ComputedFrame(s[j]) =>
    Rank[s[j].who] < Rank[s[i].who]

RunningComputes == \A i \in DOMAIN stack : ComputedFrame(stack[i]) => state[stack[i].who] = "computing"
RunningRight == \A i \in DOMAIN stack : ComputedFrame(stack[i]) => RightSoFar(stack[i])
CleanRight == \A c \in Computeds : state[c] = "clean" /\ c \notin broken => Right(c, cached[c])

\* The inductive invariant of what computeds show.
ValueInv == /\ ComputedsOnTop(stack) /\ Descends(stack)
            /\ RunningComputes /\ RunningRight /\ CleanRight

\* A computed that another one reads comes before it.
LEMMA RankFalls ==
  /\ Rank \in [Computeds -> Nat]
  /\ \A c, d \in Computeds : \A i \in DOMAIN Sources[c] : Sources[c][i] = d => Rank[d] < Rank[c]
<1>1. \E order \in [Computeds -> 1..Cardinality(Computeds)] : Follows(order)
  BY GraphAssumption DEF Acyclic, Follows
<1>2. Rank \in [Computeds -> 1..Cardinality(Computeds)] /\ Follows(Rank)
  BY <1>1, Zenon DEF Rank
<1>3. Cardinality(Computeds) \in Nat
  BY GraphAssumption, FS_CardinalityType
<1>4. Rank \in [Computeds -> Nat]
  BY <1>2, <1>3
<1>5. ASSUME NEW c \in Computeds, NEW d \in Computeds, NEW i \in DOMAIN Sources[c], Sources[c][i] = d
      PROVE  Rank[d] < Rank[c]
  <2>1. d \in Range(Sources[c])
    BY <1>5 DEF Range
  <2> QED BY <1>2, <2>1 DEF Follows
<1> QED BY <1>4, <1>5

\* The step leaves n what it holds.
Kept(n) ==
  \A x : Holds(n, x) =>
    /\ <<x, n>> \in subs'
    /\ x \in Computeds => state'[x] = "clean"
    /\ IF x \in Signals THEN value'[x] = value[x] ELSE cached'[x] = cached[x]

\* A step after which no computed runs.
LEMMA QuietRight ==
  ASSUME ValueInv, NoComputeds(stack'), UNCHANGED cached,
         \A c \in Computeds : state'[c] = "clean" /\ c \notin broken' =>
           state[c] = "clean" /\ c \notin broken /\ Kept(c)
  PROVE  ValueInv'
<1>1. CleanRight'
  <2> SUFFICES ASSUME NEW c \in Computeds, state'[c] = "clean", c \notin broken'
               PROVE  Right(c, cached[c])'
    BY DEF CleanRight
  <2>1. Right(c, cached[c]) /\ Kept(c)
    BY DEF ValueInv, CleanRight
  <2> QED BY <2>1 DEF Kept, Right, Holds, Shown
<1> QED BY <1>1 DEF ValueInv, ComputedsOnTop, Descends, RunningComputes, RunningRight, NoComputeds

\* A notification leaves what it does not reach what it holds.
LEMMA NotifyKeeps ==
  ASSUME TypeOK, NEW s \in Signals, NEW frames, Notify(s, frames),
         UNCHANGED <<cached, subs>>, \A x \in Signals \ {s} : value'[x] = value[x]
  PROVE  /\ \A n \in Subscribers \ Reached(s) : Kept(n)
         /\ \A c \in Computeds : state'[c] = "clean" => state[c] = "clean" /\ c \notin Reached(s)
<1>1. state' = [c \in Computeds |-> IF c \in Reached(s) THEN "dirty" ELSE state[c]]
  BY DEF Notify
<1>2. ASSUME NEW n \in Subscribers \ Reached(s), NEW x, Holds(n, x)
      PROVE  x # s /\ (x \in Computeds => x \notin Reached(s))
  <2>1. PICK N \in SUBSET Subscribers : Closed(N, s) /\ n \notin N
    BY DEF Reached
  <2>2. <<x, n>> \in subs /\ (x \in Computeds => state[x] # "dirty")
    BY <1>2 DEF Holds
  <2>3. x # s /\ (x \in Computeds => x \notin N)
    BY <2>1, <2>2 DEF Closed
  <2> QED BY <2>1, <2>3 DEF Reached
<1>3. \A n \in Subscribers \ Reached(s) : Kept(n)
  BY <1>1, <1>2 DEF Kept, Holds
<1> QED BY <1>1, <1>3

\* It only pushes a flush.
LEMMA NotifyQuiet ==
  ASSUME TypeOK, NEW s, NEW frames \in Seq(Frames), NoComputeds(frames), Notify(s, frames)
  PROVE  NoComputeds(stack')
<1>1. pending \cup Queued(s) \in SUBSET Effects
  BY DEF TypeOK, Queued
<1> DEFINE f == FlushFrame(pending \cup Queued(s))
<1>2. f \in Frames /\ ~ComputedFrame(f)
  BY <1>1, FramesOK DEF ComputedFrame
<1>3. stack' = frames \/ stack' = Append(frames, f)
  BY DEF Notify
<1> HIDE DEF f
<1> QED BY <1>2, <1>3, PushNoComputed

\* A write, or a mutation in place, by the program.
LEMMA WriteRight ==
  ASSUME TypeOK, ValueInv, NEW s \in Signals, Write(s) \/ Touch(s)
  PROVE  ValueInv'
<1>1. /\ Program /\ Notify(s, stack) /\ UNCHANGED <<cached, subs, broken>>
      /\ \A x \in Signals \ {s} : value'[x] = value[x]
  BY DEF Write, Touch, TypeOK
<1>2. stack \in Seq(Frames) /\ NoComputeds(stack)
  <2>1. stack \in Seq(Frames) /\ (stack = <<>> \/ ~ComputedFrame(Top))
    BY <1>1 DEF TypeOK, Program, IsTop, ComputedFrame, IsBody
  <2> QED BY <2>1, NoComputedBelow DEF ValueInv
<1>3. NoComputeds(stack')
  BY <1>1, <1>2, NotifyQuiet
<1> QED BY <1>1, <1>3, NotifyKeeps, QuietRight DEF Subscribers

\* A step that changes no value and no state, under which no computed runs.
LEMMA SameRight ==
  ASSUME ValueInv, NoComputeds(stack'), UNCHANGED graph, broken \subseteq broken',
         \A p \in subs : p[2] \in Computeds => p \in subs'
  PROVE  ValueInv'
<1>1. \A c \in Computeds : Kept(c)
  BY DEF Kept, Holds, graph
<1> QED BY <1>1, QuietRight DEF graph

\* Below the top there is no computed either.
LEMMA QuietUnder ==
  ASSUME stack \in Seq(Frames), stack # <<>>, NoComputeds(stack)
  PROVE  Under \in Seq(Frames) /\ NoComputeds(Under)
BY UnderIndices DEF NoComputeds

\* A write by an effect: the flush it pushes runs no computed yet.
LEMMA EffectWriteRight ==
  ASSUME TypeOK, ValueInv, NEW e \in Effects, EffectWrites(e)
  PROVE  ValueInv'
<1>1. Running(e)
  BY DEF EffectWrites, HasRead
<1>2. /\ stack \in Seq(Frames) /\ stack # <<>> /\ ComputedsOnTop(stack)
      /\ Top \in BodyFrames /\ IsBody(Top) /\ Top.who = e
      /\ Top.acc \in BOOLEAN /\ Top.next \in Nat \ {0}
  BY <1>1, RunningTop DEF ValueInv
<1> DEFINE f == [Top EXCEPT !.next = Top.next + 1]
<1>3. f \in Frames /\ f.kind = Top.kind /\ f.who = e
  <2>1. f \in BodyFrames /\ f.kind = Top.kind /\ f.who = Top.who
    BY <1>2 DEF BodyFrames
  <2> QED BY <1>2, <2>1, FramesOK
<1>4. /\ Notify(Target[e], Append(Under, f)) /\ UNCHANGED <<cached, subs, broken>>
      /\ value' = [value EXCEPT ![Target[e]] = Top.acc]
  BY DEF EffectWrites
<1> HIDE DEF f
<1>5. ~ComputedFrame(Top) /\ ~ComputedFrame(f)
  BY <1>2, <1>3, EffectsAreNot DEF ComputedFrame
<1>6. Under \in Seq(Frames) /\ NoComputeds(Under)
  BY <1>2, <1>5, NoComputedBelow, QuietUnder
<1>7. Append(Under, f) \in Seq(Frames) /\ NoComputeds(Append(Under, f))
  BY <1>3, <1>5, <1>6, PushIndices, PushNoComputed
<1>8. NoComputeds(stack')
  BY <1>4, <1>7, NotifyQuiet
<1>9. Target[e] \in Signals
  BY GraphAssumption DEF EffectWrites, Copies
<1>10. \A x \in Signals \ {Target[e]} : value'[x] = value[x]
  BY <1>4 DEF TypeOK
<1> QED BY <1>4, <1>8, <1>9, <1>10, NotifyKeeps, QuietRight DEF Subscribers

\* A batch begins or ends.
LEMMA BatchRight ==
  ASSUME TypeOK, ValueInv, BatchBegins \/ BatchEnds
  PROVE  ValueInv'
<1>1. stack \in Seq(Frames) /\ NoComputeds(stack)
  <2>1. stack \in Seq(Frames) /\ (stack = <<>> \/ ~ComputedFrame(Top))
    BY DEF TypeOK, BatchBegins, BatchEnds, Program, IsTop, ComputedFrame, IsBody
  <2> QED BY <2>1, NoComputedBelow DEF ValueInv
<1>2. NoComputeds(stack')
  <2>1. CASE BatchBegins
    <3>1. stack' = Append(stack, BatchFrame)
      BY <2>1 DEF BatchBegins, Push
    <3> QED BY <1>1, <3>1, FramesOK, PushNoComputed DEF ComputedFrame
  <2>2. CASE BatchEnds
    <3>1. stack # <<>> /\ (stack' = Under \/ stack' = <<FlushFrame(pending)>>)
      BY <2>2 DEF BatchEnds, IsTop, Pop
    <3>2. ~ComputedFrame(FlushFrame(pending))
      BY FramesOK DEF TypeOK, ComputedFrame
    <3> QED BY <1>1, <3>1, <3>2, QuietUnder DEF NoComputeds
  <2> QED BY <2>1, <2>2
<1>3. UNCHANGED <<graph, subs, broken>>
  BY DEF BatchBegins, BatchEnds
<1> QED BY <1>2, <1>3, SameRight

\* An effect is created, which runs it, or disposed of.
LEMMA LifeRight ==
  ASSUME TypeOK, ValueInv, NEW e \in Effects, Create(e) \/ Dispose(e)
  PROVE  ValueInv'
<1>1. stack \in Seq(Frames) /\ NoComputeds(stack)
  <2>1. stack \in Seq(Frames) /\ (stack = <<>> \/ ~ComputedFrame(Top))
    BY EffectsAreNot
    DEF TypeOK, Create, Dispose, Program, InEffect, IsTop, Running, ComputedFrame, IsBody
  <2> QED BY <2>1, NoComputedBelow DEF ValueInv
<1>2. NoComputeds(stack')
  <2>1. CASE Create(e)
    <3> DEFINE f == Frame("create", e)
    <3>1. stack' = Append(stack, f)
      BY <2>1 DEF Create, Push
    <3>2. f \in Frames /\ ~ComputedFrame(f)
      BY FramesOK, EffectsAreNot DEF ComputedFrame, Subscribers
    <3> QED BY <1>1, <3>1, <3>2, PushNoComputed
  <2>2. CASE Dispose(e)
    BY <1>1, <2>2 DEF Dispose
  <2> QED BY <2>1, <2>2
<1>3. UNCHANGED <<graph, broken>> /\ \A p \in subs : p[2] \in Computeds => p \in subs'
  BY EffectsAreNot DEF Create, Dispose, Without
<1> QED BY <1>2, <1>3, SameRight

\* A flush runs an effect, starts anew or ends.
LEMMA FlushRight ==
  ASSUME TypeOK, ValueInv, FlushAgain \/ \E e \in Effects : FlushNext(e)
  PROVE  ValueInv'
<1>1. stack # <<>> /\ Top.kind = "flush" /\ stack \in Seq(Frames) /\ pending \subseteq Effects
  BY DEF FlushAgain, FlushNext, IsTop, TypeOK
<1>2. Top.queue \in SUBSET Effects /\ NoComputeds(stack)
  BY <1>1, TopAndUnder, FrameKinds, NoComputedBelow DEF ValueInv, ComputedFrame, IsBody
<1>3. Under \in Seq(Frames) /\ NoComputeds(Under)
  BY <1>1, <1>2, QuietUnder
<1>4. \A q \in SUBSET Effects : FlushFrame(q) \in Frames /\ ~ComputedFrame(FlushFrame(q))
  BY FramesOK DEF ComputedFrame
<1>5. CASE FlushAgain
  <2>1. stack' = Under \/ stack' = Append(Under, FlushFrame(pending))
    BY <1>5 DEF FlushAgain, Pop, Become
  <2>2. NoComputeds(stack')
    BY <1>1, <1>3, <1>4, <2>1, PushNoComputed
  <2> QED BY <1>5, <2>2, SameRight DEF FlushAgain
<1>6. CASE \E e \in Effects : FlushNext(e)
  <2>1. PICK e \in Effects : FlushNext(e)
    BY <1>6
  <2> DEFINE f == FlushFrame(Rest(Top.queue, e))
             g == RunFrame(e)
  <2>2. f \in Frames /\ ~ComputedFrame(f)
    BY <1>2, <1>4 DEF Rest
  <2>3. g \in Frames /\ ~ComputedFrame(g)
    BY FramesOK, EffectsAreNot DEF RunFrame, Subscribers, ComputedFrame
  <2>4. stack' = Append(Under, f) \/ stack' = Under \o <<f, g>>
    BY <2>1 DEF FlushNext, Become
  <2>5. UNCHANGED <<graph, broken>> /\ \A p \in subs : p[2] \in Computeds => p \in subs'
    BY <2>1, EffectsAreNot DEF FlushNext, Without
  <2> HIDE DEF f, g
  <2>6. Append(Under, f) \in Seq(Frames) /\ NoComputeds(Append(Under, f))
    BY <1>3, <2>2, PushIndices, PushNoComputed
  <2>7. Under \o <<f, g>> = Append(Append(Under, f), g)
    BY <1>3, <2>2, <2>3
  <2>8. NoComputeds(stack')
    BY <2>3, <2>4, <2>6, <2>7, PushNoComputed
  <2> QED BY <2>5, <2>8, SameRight
<1> QED BY <1>5, <1>6

\* An effect returns.
LEMMA EffectReturnRight ==
  ASSUME TypeOK, ValueInv, NEW e \in Effects, EffectReturns(e)
  PROVE  ValueInv'
<1>1. Running(e) /\ stack' = Under /\ UNCHANGED <<graph, subs, broken>>
  BY DEF EffectReturns, HasRead, Pop
<1>2. stack \in Seq(Frames) /\ stack # <<>> /\ ~ComputedFrame(Top)
  BY <1>1, RunningTop, EffectsAreNot DEF ComputedFrame
<1>3. NoComputeds(stack')
  BY <1>1, <1>2, NoComputedBelow, QuietUnder DEF ValueInv
<1> QED BY <1>1, <1>3, SameRight

\* A body throws: the computeds that it interrupts are broken.
LEMMA ThrowRight ==
  ASSUME TypeOK, ValueInv, NEW k \in 0..Len(stack), Throw(k)
  PROVE  ValueInv'
<1>1. stack \in Seq(Frames) /\ Len(stack) \in Nat /\ DOMAIN stack = 1..Len(stack)
  BY LenProperties DEF TypeOK
<1>2. NoComputeds(stack')
  <2>1. CASE stack' = SubSeq(stack, 1, k)
    <3>1. DOMAIN stack' = 1..k /\ \A i \in 1..k : stack'[i] = stack[i] /\ stack[i].kind = "batch"
      BY <1>1, <2>1 DEF Throw
    <3> QED BY <3>1 DEF NoComputeds, ComputedFrame, IsBody
  <2>2. CASE stack' = <<FlushFrame(pending)>>
    <3>1. ~ComputedFrame(FlushFrame(pending))
      BY FramesOK DEF TypeOK, ComputedFrame
    <3> QED BY <2>2, <3>1 DEF NoComputeds
  <2> QED BY <2>1, <2>2 DEF Throw
<1>3. /\ UNCHANGED <<value, cached, subs>>
      /\ state' = [c \in Computeds |-> IF c \in Interrupted(k) THEN "clean" ELSE state[c]]
      /\ broken' = broken \cup (Interrupted(k) \cap Computeds)
  BY DEF Throw
<1>4. \A c \in Computeds : Kept(c)
  BY <1>3 DEF Kept, Holds
<1>5. \A c \in Computeds : state'[c] = "clean" /\ c \notin broken' => state[c] = "clean" /\ c \notin broken
  BY <1>3
<1> QED BY <1>2, <1>3, <1>4, <1>5, QuietRight

\* A frame that stays in place.
LEMMA KeptBelow ==
  ASSUME NEW i, stack'[i] = stack[i], Kept(stack[i].who), RightSoFar(stack[i])
  PROVE  RightSoFar(stack[i])'
BY DEF Kept, RightSoFar, Holds, Shown

\* n has read its k-th source, which shows v, and goes on as f.
ReadsTo(n, f, v, k) ==
  LET x == Sources[n][k]
  IN  /\ stack' = Append(Under, f) /\ f.kind = Top.kind /\ f.who = n /\ f.acc = v
      /\ f.next = IF v THEN k + 1 ELSE Len(Sources[n]) + 1
      /\ k = Top.next /\ subs' = subs \cup {<<x, n>>}
      /\ x \in Signals \cup Computeds /\ (x \in Computeds => state[x] = "clean")
      /\ Shown(x) = v

\* What a read adds to what the body has read so far.
LEMMA ReadGoes ==
  ASSUME TypeOK, NEW n \in Subscribers, ReadValue(n)
  PROVE  \E f \in Frames, v \in BOOLEAN, k \in DOMAIN Sources[n] :
           ReadsTo(n, f, v, k)
<1>1. /\ Top \in BodyFrames /\ Top.who = n /\ Top.next \in Nat \ {0} /\ Running(n)
      /\ stack \in Seq(Frames)
  BY RunningTop DEF ReadValue
<1> DEFINE x == Sources[n][Top.next]
<1>2. /\ Top.next <= Len(Sources[n]) /\ subs' = subs \cup {<<x, n>>}
      /\ \/ x \in Signals /\ Goes(n, value[x])
         \/ x \in Computeds /\ state[x] = "clean" /\ Goes(n, cached[x])
  BY DEF ReadValue
<1>3. Len(Sources[n]) \in Nat /\ DOMAIN Sources[n] = 1..Len(Sources[n])
  BY GraphAssumption, LenProperties
<1>4. Top.next \in DOMAIN Sources[n]
  BY <1>1, <1>2, <1>3
<1> HIDE DEF x
<1>5. PICK v \in BOOLEAN : /\ x \in Signals \cup Computeds /\ (x \in Computeds => state[x] = "clean")
                          /\ Goes(n, v) /\ Shown(x) = v
  <2>1. CASE x \in Signals /\ Goes(n, value[x])
    <3>1. x \notin Computeds /\ value[x] \in BOOLEAN
      BY <2>1, GraphAssumption DEF TypeOK, Subscribers
    <3> QED BY <2>1, <3>1 DEF Shown
  <2>2. CASE x \in Computeds /\ state[x] = "clean" /\ Goes(n, cached[x])
    <3>1. x \notin Signals /\ cached[x] \in BOOLEAN
      BY <2>2, GraphAssumption DEF TypeOK, Subscribers
    <3> QED BY <2>2, <3>1 DEF Shown
  <2> QED BY <1>2, <2>1, <2>2
<1> DEFINE k == IF v THEN Top.next + 1 ELSE Len(Sources[n]) + 1
           f == [Top EXCEPT !.acc = v, !.next = k]
<1>6. stack' = Append(Under, f)
  BY <1>5 DEF Goes, Become
<1>7. k \in Nat \ {0}
  BY <1>1, <1>3
<1> HIDE DEF k
<1>8. f \in Frames /\ f.kind = Top.kind /\ f.who = n /\ f.acc = v /\ f.next = k
  BY <1>1, <1>7, TopGoesOn DEF BodyFrames
<1> HIDE DEF f
<1>9. f.next = IF v THEN Top.next + 1 ELSE Len(Sources[n]) + 1
  BY <1>8 DEF k
<1> QED BY <1>2, <1>4, <1>5, <1>6, <1>8, <1>9 DEF x, ReadsTo

\* What it has read is right, if what it had read before was.
LEMMA ReadFrameRight ==
  ASSUME TypeOK, NEW n \in Subscribers, ReadValue(n), RightSoFar(Top),
         NEW f \in Frames, NEW v \in BOOLEAN, NEW k \in DOMAIN Sources[n], ReadsTo(n, f, v, k)
  PROVE  RightSoFar(f)'
<1>1. Top.who = n /\ Top.next \in Nat \ {0} /\ Top.acc \in BOOLEAN
  BY RunningTop DEF ReadValue
<1>2. UNCHANGED graph /\ \A m : Kept(m)
  BY DEF ReadValue, ReadsTo, Kept, Holds, graph
<1>3. /\ f.who = n /\ f.acc = v /\ f.next = IF v THEN k + 1 ELSE Len(Sources[n]) + 1
      /\ k = Top.next
  BY DEF ReadsTo
<1>4. Holds(n, Sources[n][k])' /\ Shown(Sources[n][k])' = v
  BY <1>2 DEF ReadsTo, Holds, Shown, graph
<1>5. RightSoFar(f)'
  <2>1. CASE v = FALSE
    <3>1. f.next > Len(Sources[n])
      BY <1>3, <2>1, GraphAssumption, LenProperties
    <3> QED BY <1>3, <1>4, <2>1, <3>1 DEF RightSoFar
  <2>2. CASE v = TRUE
    <3>1. Top.acc = TRUE
      <4>1. Top.next <= Len(Sources[n])
        BY <1>3, GraphAssumption, LenProperties
      <4> QED BY <1>1, <4>1, GraphAssumption, LenProperties DEF RightSoFar
    <3>2. \A i \in DOMAIN Sources[n] : i < k => Holds(n, Sources[n][i]) /\ Shown(Sources[n][i])
      BY <1>1, <1>3, <3>1 DEF RightSoFar
    <3>3. \A i \in DOMAIN Sources[n] : i < k => Holds(n, Sources[n][i])' /\ Shown(Sources[n][i])'
      BY <1>2, <3>2 DEF Kept, Holds, Shown
    <3>4. \A i \in DOMAIN Sources[n] : i < k + 1 => Holds(n, Sources[n][i])' /\ Shown(Sources[n][i])'
      <4> SUFFICES ASSUME NEW i \in DOMAIN Sources[n], i < k + 1
                   PROVE  Holds(n, Sources[n][i])' /\ Shown(Sources[n][i])'
        OBVIOUS
      <4>1. i < k \/ i = k
        BY GraphAssumption, LenProperties
      <4>2. CASE i < k
        BY <3>3, <4>2
      <4>3. CASE i = k
        BY <1>4, <2>2, <4>3
      <4> QED BY <4>1, <4>2, <4>3
    <3>5. f.who = n /\ f.acc /\ f.next = k + 1
      BY <1>3, <2>2
    <3> QED BY <3>4, <3>5 DEF RightSoFar
  <2> QED BY <2>1, <2>2
<1> QED BY <1>5

\* A body reads what is up to date.
LEMMA ReadRight ==
  ASSUME TypeOK, ValueInv, NEW n \in Subscribers, ReadValue(n)
  PROVE  ValueInv'
<1>1. /\ stack \in Seq(Frames) /\ stack # <<>> /\ Top \in BodyFrames /\ IsBody(Top) /\ Top.who = n
      /\ Top.next \in Nat \ {0} /\ Top.acc \in BOOLEAN
  BY RunningTop DEF ReadValue
<1>2. UNCHANGED <<graph, broken>>
  BY DEF ReadValue
<1>3. PICK f \in Frames, v \in BOOLEAN, k \in DOMAIN Sources[n] :
        ReadsTo(n, f, v, k)
  BY ReadGoes
<1>3a. stack' = Append(Under, f) /\ f.kind = Top.kind /\ f.who = n
  BY <1>3 DEF ReadsTo
<1>4. CASE n \notin Computeds
  <2>1. ~ComputedFrame(Top) /\ ~ComputedFrame(f)
    BY <1>1, <1>3a, <1>4 DEF ComputedFrame
  <2>2. NoComputeds(stack')
    BY <1>1, <1>3a, <2>1, NoComputedBelow, QuietUnder, PushNoComputed DEF ValueInv
  <2> QED BY <1>2, <1>3, <2>2, SameRight DEF ReadsTo
<1>5. CASE n \in Computeds
  <2>1. \A m : Kept(m)
    BY <1>2, <1>3 DEF Kept, Holds, graph, ReadsTo
  <2>2. ComputedFrame(Top) /\ ComputedFrame(f)
    BY <1>1, <1>3a, <1>5 DEF ComputedFrame, IsBody
  <2>3. PICK top \in Nat \ {0} :
          /\ DOMAIN stack = 1..top /\ Top = stack[top]
          /\ DOMAIN stack' = 1..top /\ stack'[top] = f
          /\ \A i \in 1..(top - 1) : stack'[i] = stack[i]
    <3>1. /\ Len(stack) \in Nat \ {0} /\ DOMAIN stack = 1..Len(stack) /\ Top = stack[Len(stack)]
          /\ Under \in Seq(Frames) /\ Len(Under) = Len(stack) - 1
          /\ \A i \in 1..(Len(stack) - 1) : Under[i] = stack[i]
      BY <1>1, UnderIndices
    <3>2. /\ DOMAIN stack' = 1..(Len(Under) + 1) /\ stack'[Len(Under) + 1] = f
          /\ \A i \in 1..Len(Under) : stack'[i] = Under[i]
      BY <1>3a, <3>1, PushIndices
    <3>3. Len(Under) + 1 = Len(stack) /\ Len(Under) = Len(stack) - 1
      BY <3>1
    <3> QED BY <3>1, <3>2, <3>3
  <2>4. ComputedsOnTop(stack')
    BY <1>1, <1>3a, <2>2, BecomeOnTop DEF ValueInv
  <2>5. \A i \in DOMAIN stack' : /\ i \in DOMAIN stack /\ stack'[i].who = stack[i].who
                                 /\ ComputedFrame(stack'[i]) <=> ComputedFrame(stack[i])
    <3> SUFFICES ASSUME NEW i \in 1..top
                 PROVE  /\ stack'[i].who = stack[i].who
                        /\ ComputedFrame(stack'[i]) <=> ComputedFrame(stack[i])
      BY <2>3
    <3>1. CASE i = top
      BY <1>1, <1>3a, <2>2, <2>3, <3>1
    <3>2. CASE i # top
      <4>1. i \in 1..(top - 1)
        BY <2>3, <3>2
      <4>2. stack'[i] = stack[i]
        BY <2>3, <4>1
      <4> QED BY <4>2 DEF ComputedFrame, IsBody
    <3> QED BY <3>1, <3>2
  <2>6a. Descends(stack')
    <3> SUFFICES ASSUME NEW i \in DOMAIN stack', NEW j \in DOMAIN stack', i < j,
                        ComputedFrame(stack'[i]), ComputedFrame(stack'[j])
                 PROVE  Rank[stack'[j].who] < Rank[stack'[i].who]
      BY DEF Descends
    <3>1. /\ i \in DOMAIN stack /\ j \in DOMAIN stack
          /\ ComputedFrame(stack[i]) /\ ComputedFrame(stack[j])
          /\ stack'[i].who = stack[i].who /\ stack'[j].who = stack[j].who
      BY <2>5
    <3> QED BY <3>1 DEF ValueInv, Descends
  <2>6. RunningComputes'
    <3> SUFFICES ASSUME NEW i \in DOMAIN stack', ComputedFrame(stack'[i])
                 PROVE  state'[stack'[i].who] = "computing"
      BY DEF RunningComputes
    <3>1. i \in DOMAIN stack /\ ComputedFrame(stack[i]) /\ stack'[i].who = stack[i].who
      BY <2>5
    <3> QED BY <1>2, <3>1 DEF ValueInv, RunningComputes, graph
  <2>7. CleanRight'
    <3> SUFFICES ASSUME NEW c \in Computeds, state'[c] = "clean", c \notin broken'
                 PROVE  Right(c, cached[c])'
      BY DEF CleanRight
    <3>1. Right(c, cached[c]) /\ Kept(c) /\ UNCHANGED cached
      BY <1>2, <2>1 DEF ValueInv, CleanRight, graph
    <3> QED BY <3>1 DEF Kept, Right, Holds, Shown
  <2>8. RightSoFar(Top)
    BY <1>1, <2>2, <2>3 DEF ValueInv, RunningRight
  <2>10. RightSoFar(f)'
    BY <1>3, <2>8, ReadFrameRight
  <2>11. RunningRight'
    <3> SUFFICES ASSUME NEW i \in DOMAIN stack', ComputedFrame(stack'[i])
                 PROVE  RightSoFar(stack[i])'
      BY DEF RunningRight
    <3>1. CASE i = top
      <4>1. stack'[i] = f
        BY <2>3, <3>1
      <4> QED BY <2>10, <4>1 DEF RightSoFar, Holds, Shown
    <3>2. CASE i # top
      <4>1. i \in 1..(top - 1)
        BY <2>3, <3>2
      <4>2. stack'[i] = stack[i] /\ i \in DOMAIN stack /\ ComputedFrame(stack[i])
        BY <2>3, <2>5, <4>1
      <4> QED BY <2>1, <4>2, KeptBelow DEF ValueInv, RunningRight
    <3> QED BY <3>1, <3>2
  <2> QED BY <2>4, <2>6a, <2>6, <2>7, <2>11 DEF ValueInv
<1> QED BY <1>4, <1>5, GraphAssumption

\* A computed begins to run: none that is up to date reads it, and it does not
\* run already.
LEMMA ComputeRight ==
  ASSUME TypeOK, ValueInv,
         (\E c \in Computeds : Peek(c)) \/ (\E n \in Subscribers : ReadComputes(n))
  PROVE  ValueInv'
<1>1. stack \in Seq(Frames) /\ ComputedsOnTop(stack) /\ Descends(stack)
  BY DEF TypeOK, ValueInv
<1>2. PICK x \in Computeds :
        /\ stack' = Append(stack, RunFrame(x)) /\ state[x] # "clean"
        /\ state' = [state EXCEPT ![x] = "computing"]
        /\ \A p \in subs : p[2] # x => p \in subs'
        /\ \A i \in DOMAIN stack : ComputedFrame(stack[i]) => Rank[x] < Rank[stack[i].who]
  <2>1. CASE \E c \in Computeds : Peek(c)
    <3>1. PICK c \in Computeds : Peek(c)
      BY <2>1
    <3>2. stack = <<>> \/ ~ComputedFrame(Top)
      BY <3>1 DEF Peek, Program, IsTop, ComputedFrame, IsBody
    <3>3. NoComputeds(stack)
      BY <1>1, <3>2, NoComputedBelow
    <3> QED BY <3>1, <3>3 DEF Peek, Push, Without, NoComputeds
  <2>2. CASE \E n \in Subscribers : ReadComputes(n)
    <3>1. PICK n \in Subscribers : ReadComputes(n)
      BY <2>2
    <3>2. /\ stack # <<>> /\ Top \in BodyFrames /\ IsBody(Top) /\ Top.who = n
          /\ Top.next \in Nat \ {0}
      BY <3>1, RunningTop DEF ReadComputes
    <3> DEFINE x == Sources[n][Top.next]
    <3>3. /\ x \in Computeds /\ state[x] # "clean" /\ Top.next <= Len(Sources[n])
          /\ state' = [state EXCEPT ![x] = "computing"]
          /\ subs' = Without(x) \cup {<<x, n>>} /\ stack' = Append(stack, RunFrame(x))
      BY <3>1 DEF ReadComputes, Push
    <3>4. Top.next \in DOMAIN Sources[n]
      BY <3>2, <3>3, GraphAssumption, LenProperties
    <3>5. ASSUME NEW i \in DOMAIN stack, ComputedFrame(stack[i])
          PROVE  Rank[x] < Rank[stack[i].who]
      <4>1. n \in Computeds
        <5> SUFFICES ASSUME n \notin Computeds PROVE FALSE
          OBVIOUS
        <5>1. NoComputeds(stack)
          BY <1>1, <3>2, NoComputedBelow DEF ComputedFrame
        <5> QED BY <3>5, <5>1 DEF NoComputeds
      <4>2. Rank[x] < Rank[n] /\ Rank[x] \in Nat /\ Rank[n] \in Nat
        BY <3>3, <3>4, <4>1, RankFalls
      <4>3. PICK top \in Nat : DOMAIN stack = 1..top /\ Top = stack[top] /\ top \in DOMAIN stack
        BY <1>1, <3>2, UnderIndices
      <4>4. CASE i = top
        BY <3>2, <4>2, <4>3, <4>4
      <4>5. CASE i # top
        <5>1. i < top
          BY <4>3, <4>5
        <5>2. ComputedFrame(stack[top]) /\ stack[top].who = n
          BY <3>2, <4>1, <4>3 DEF ComputedFrame
        <5>3. Rank[n] < Rank[stack[i].who]
          BY <1>1, <3>5, <4>3, <5>1, <5>2 DEF Descends
        <5>4. stack[i].who \in Computeds
          BY <3>5 DEF ComputedFrame
        <5>5. Rank[stack[i].who] \in Nat
          BY <5>4, RankFalls
        <5> QED BY <4>2, <5>3, <5>5
      <4> QED BY <4>4, <4>5
    <3> HIDE DEF x
    <3> QED BY <3>3, <3>5 DEF Without
  <2> QED BY <2>1, <2>2
<1> DEFINE f == RunFrame(x)
<1>3. /\ f \in Frames /\ ComputedFrame(f) /\ f.who = x /\ f.acc = TRUE /\ f.next = 1
  BY FramesOK DEF RunFrame, Frame, Subscribers, ComputedFrame
<1>4. UNCHANGED <<value, cached, broken>>
  BY DEF Peek, ReadComputes
<1> HIDE DEF f
<1>5. PICK top \in Nat : /\ DOMAIN stack = 1..top /\ DOMAIN stack' = 1..(top + 1)
                         /\ \A i \in 1..top : stack'[i] = stack[i]
                         /\ stack'[top + 1] = f
  BY <1>1, <1>2, <1>3, PushIndices DEF f
<1>6. \A n : n # x => Kept(n)
  BY <1>2, <1>4 DEF Kept, Holds, TypeOK
<1>7. \A i \in DOMAIN stack' : i # top + 1 => i \in DOMAIN stack /\ stack'[i] = stack[i]
  BY <1>5
<1>8. \A i \in DOMAIN stack : ComputedFrame(stack[i]) => stack[i].who # x
  <2> SUFFICES ASSUME NEW i \in DOMAIN stack, ComputedFrame(stack[i]), stack[i].who = x PROVE FALSE
    OBVIOUS
  <2>1. Rank[x] < Rank[x] /\ Rank[x] \in Nat
    BY <1>2, RankFalls
  <2> QED BY <2>1
<1>9. ComputedsOnTop(stack')
  BY <1>1, <1>2, <1>3, PushOnTop DEF f
<1>10. Descends(stack')
  <2> SUFFICES ASSUME NEW i \in DOMAIN stack', NEW j \in DOMAIN stack', i < j,
                      ComputedFrame(stack'[i]), ComputedFrame(stack'[j])
               PROVE  Rank[stack'[j].who] < Rank[stack'[i].who]
    BY DEF Descends
  <2>1. i \in DOMAIN stack /\ stack'[i] = stack[i] /\ ComputedFrame(stack[i])
    <3>1. i # top + 1
      BY <1>5
    <3>2. i \in DOMAIN stack /\ stack'[i] = stack[i]
      BY <1>7, <3>1
    <3> QED BY <3>2 DEF ComputedFrame, IsBody
  <2>2. CASE j = top + 1
    BY <1>2, <1>3, <1>5, <2>1, <2>2
  <2>3. CASE j # top + 1
    <3>1. j \in DOMAIN stack /\ stack'[j] = stack[j]
      BY <1>7, <2>3
    <3>2. ComputedFrame(stack[j])
      BY <3>1 DEF ComputedFrame, IsBody
    <3> QED BY <1>1, <2>1, <3>1, <3>2 DEF Descends
  <2> QED BY <2>2, <2>3
<1>11. RunningComputes' /\ RunningRight'
  <2> SUFFICES ASSUME NEW i \in DOMAIN stack', ComputedFrame(stack'[i])
               PROVE  state'[stack'[i].who] = "computing" /\ RightSoFar(stack[i])'
    BY DEF RunningComputes, RunningRight
  <2>1. CASE i = top + 1
    <3>1. stack'[i] = f /\ state'[x] = "computing"
      BY <1>2, <1>5, <2>1 DEF TypeOK
    <3>2. \A k \in DOMAIN Sources[x] : ~ (k < 1)
      BY GraphAssumption, LenProperties DEF Subscribers
    <3> QED BY <1>3, <3>1, <3>2 DEF RightSoFar
  <2>2. CASE i # top + 1
    <3>1. i \in DOMAIN stack /\ stack'[i] = stack[i]
      BY <1>7, <2>2
    <3>2. ComputedFrame(stack[i])
      BY <3>1 DEF ComputedFrame, IsBody
    <3>3. stack[i].who # x /\ state[stack[i].who] = "computing" /\ RightSoFar(stack[i])
      BY <1>8, <3>1, <3>2 DEF ValueInv, RunningComputes, RunningRight
    <3>4. Kept(stack[i].who)
      BY <1>6, <3>3
    <3>5. stack[i].who \in Computeds
      BY <3>2 DEF ComputedFrame
    <3> QED BY <1>2, <3>1, <3>3, <3>4, <3>5, KeptBelow DEF TypeOK
  <2> QED BY <2>1, <2>2
<1>12. CleanRight'
  <2> SUFFICES ASSUME NEW c \in Computeds, state'[c] = "clean", c \notin broken'
               PROVE  Right(c, cached[c])'
    BY DEF CleanRight
  <2>1. c # x /\ state[c] = "clean" /\ c \notin broken
    BY <1>2, <1>4 DEF TypeOK
  <2>2. Right(c, cached[c]) /\ Kept(c)
    BY <1>6, <2>1 DEF ValueInv, CleanRight
  <2> QED BY <1>4, <2>2 DEF Kept, Right, Holds, Shown
<1> QED BY <1>9, <1>10, <1>11, <1>12 DEF ValueInv

\* A computed returns: its value is right, and only what is not up to date reads it.
LEMMA ReturnRight ==
  ASSUME TypeOK, ValueInv, NEW c \in Computeds, ComputeReturns(c)
  PROVE  ValueInv'
<1>1. /\ stack \in Seq(Frames) /\ stack # <<>> /\ Top \in BodyFrames /\ IsBody(Top) /\ Top.who = c
      /\ Top.acc \in BOOLEAN /\ Top.next \in Nat \ {0}
  BY RunningTop DEF ComputeReturns, HasRead
<1>2. /\ Top.next > Len(Sources[c]) /\ stack' = Under
      /\ cached' = [cached EXCEPT ![c] = Top.acc] /\ state' = [state EXCEPT ![c] = "clean"]
      /\ broken' = broken \ {c} /\ UNCHANGED <<value, subs>>
  BY DEF ComputeReturns, HasRead, Pop
<1>3. PICK top \in Nat \ {0} : /\ DOMAIN stack = 1..top /\ Top = stack[top]
                              /\ DOMAIN stack' = 1..(top - 1)
                              /\ \A i \in 1..(top - 1) : stack'[i] = stack[i]
  BY <1>1, <1>2, UnderIndices
<1>4. ComputedFrame(stack[top]) /\ stack[top].who = c /\ top \in DOMAIN stack
  BY <1>1, <1>3 DEF ComputedFrame
<1>5. state[c] = "computing" /\ RightSoFar(Top)
  BY <1>3, <1>4 DEF ValueInv, RunningComputes, RunningRight
<1>6. \A n : Kept(n)
  <2> SUFFICES ASSUME NEW n, NEW x, Holds(n, x)
               PROVE  /\ <<x, n>> \in subs'
                      /\ x \in Computeds => state'[x] = "clean"
                      /\ IF x \in Signals THEN value'[x] = value[x] ELSE cached'[x] = cached[x]
    BY DEF Kept
  <2>1. x # c
    BY <1>5 DEF Holds
  <2>2. x \in Computeds => state'[x] = "clean"
    BY <1>2 DEF Holds, TypeOK
  <2> QED BY <1>2, <2>1, <2>2 DEF Holds, TypeOK
<1>7. \A i \in DOMAIN stack' : i \in DOMAIN stack /\ stack'[i] = stack[i] /\ i < top
  BY <1>3
<1>8. ComputedsOnTop(stack')
  BY <1>1, <1>2, UnderOnTop DEF ValueInv
<1>9. Descends(stack')
  <2> SUFFICES ASSUME NEW i \in DOMAIN stack', NEW j \in DOMAIN stack', i < j,
                      ComputedFrame(stack'[i]), ComputedFrame(stack'[j])
               PROVE  Rank[stack'[j].who] < Rank[stack'[i].who]
    BY DEF Descends
  <2>1. /\ i \in DOMAIN stack /\ stack'[i] = stack[i]
        /\ j \in DOMAIN stack /\ stack'[j] = stack[j]
    BY <1>7
  <2>2. ComputedFrame(stack[i]) /\ ComputedFrame(stack[j])
    BY <2>1 DEF ComputedFrame, IsBody
  <2> QED BY <2>1, <2>2 DEF ValueInv, Descends
<1>10. RunningComputes' /\ RunningRight'
  <2> SUFFICES ASSUME NEW i \in DOMAIN stack', ComputedFrame(stack'[i])
               PROVE  state'[stack'[i].who] = "computing" /\ RightSoFar(stack[i])'
    BY DEF RunningComputes, RunningRight
  <2>1. i \in DOMAIN stack /\ stack'[i] = stack[i] /\ i < top
    BY <1>7
  <2>2. ComputedFrame(stack[i])
    BY <2>1 DEF ComputedFrame, IsBody
  <2>3. stack[i].who \in Computeds /\ Rank[c] < Rank[stack[i].who] /\ Rank[c] \in Nat
    BY <1>4, <2>1, <2>2, RankFalls DEF ValueInv, Descends, ComputedFrame
  <2>4. stack[i].who # c
    BY <2>3
  <2>5. state[stack[i].who] = "computing" /\ RightSoFar(stack[i])
    BY <2>1, <2>2 DEF ValueInv, RunningComputes, RunningRight
  <2> QED BY <1>2, <1>6, <2>1, <2>3, <2>4, <2>5, KeptBelow DEF TypeOK
<1>11. CleanRight'
  <2> SUFFICES ASSUME NEW d \in Computeds, state'[d] = "clean", d \notin broken'
               PROVE  Right(d, cached[d])'
    BY DEF CleanRight
  <2>1. CASE d # c
    <3>1. state[d] = "clean" /\ d \notin broken /\ cached'[d] = cached[d]
      BY <1>2, <2>1 DEF TypeOK
    <3>2. Right(d, cached[d]) /\ Kept(d)
      BY <1>6, <3>1 DEF ValueInv, CleanRight
    <3> QED BY <3>1, <3>2 DEF Kept, Right, Holds, Shown
  <2>2. CASE d = c
    <3>1. cached'[c] = Top.acc
      BY <1>2 DEF TypeOK
    <3>2. Right(c, Top.acc)
      <4>1. \A i \in DOMAIN Sources[c] : i < Top.next
        BY <1>1, <1>2, GraphAssumption, LenProperties DEF Subscribers
      <4> QED BY <1>1, <1>5, <4>1 DEF RightSoFar, Right
    <3> QED BY <1>6, <2>2, <3>1, <3>2 DEF Kept, Right, Holds, Shown
  <2> QED BY <2>1, <2>2
<1> QED BY <1>8, <1>9, <1>10, <1>11 DEF ValueInv

\* Every step keeps the values right.
LEMMA NextRight ==
  ASSUME TypeOK, ValueInv, [Next]_vars
  PROVE  ValueInv'
<1>1. CASE UNCHANGED vars
  BY <1>1 DEF vars, graph, ValueInv, ComputedsOnTop, Descends, RunningComputes, RunningRight,
              CleanRight, RightSoFar, Right, Holds, Shown
<1> QED BY <1>1, WriteRight, EffectWriteRight, BatchRight, LifeRight, FlushRight, EffectReturnRight,
           ThrowRight, ReadRight, ComputeRight, ReturnRight DEF Next, Operation, Runtime

(***************************************************************************)
(* What recursion computes                                                 *)
(***************************************************************************)
\* The readables in base, and the computeds that read one of them, directly or not.
Saturated(base, S) ==
  base \subseteq S /\ \A c \in Computeds : \A i \in DOMAIN Sources[c] : Sources[c][i] \in S => c \in S
Reaching(base) == {x \in Readable : \A S \in SUBSET Readable : Saturated(base, S) => x \in S}

\* Without recursion: the least such set is one that its own rule gives.
LEMMA ReachingFixed ==
  ASSUME NEW base, base \subseteq Readable, NEW x \in Readable
  PROVE  x \in Reaching(base) <=>
           \/ x \in base
           \/ x \in Computeds /\ \E i \in DOMAIN Sources[x] : Sources[x][i] \in Reaching(base)
<1> DEFINE L == Reaching(base)
<1>1. L \subseteq Readable /\ Saturated(base, L)
  BY DEF Reaching, Saturated, Readable
<1>2. ASSUME x \in L, x \notin base,
             ~(x \in Computeds /\ \E i \in DOMAIN Sources[x] : Sources[x][i] \in L)
      PROVE  FALSE
  <2>1. Saturated(base, L \ {x})
    BY <1>1, <1>2 DEF Saturated
  <2>2. L \ {x} \in SUBSET Readable
    BY <1>1
  <2> QED BY <1>2, <2>1, <2>2 DEF Reaching
<1>3. ASSUME \/ x \in base
             \/ x \in Computeds /\ \E i \in DOMAIN Sources[x] : Sources[x][i] \in L
      PROVE  x \in L
  BY <1>1, <1>3 DEF Saturated
<1> QED BY <1>2, <1>3

\* A body reads readables.
LEMMA SourcesReadable ==
  ASSUME NEW n \in Subscribers, NEW i \in DOMAIN Sources[n]
  PROVE  Sources[n][i] \in Readable
<1>1. Sources[n] \in Seq(Readable)
  BY GraphAssumption
<1> QED BY <1>1, ElementOfSeq

\* Truth and Tainted are what their equations say: the sets above solve them.
LEMMA TruthIs ==
  ASSUME TypeOK, NEW x \in Readable
  PROVE  Truth[x] = IF x \in Signals THEN value[x]
                    ELSE \A i \in DOMAIN Sources[x] : Truth[Sources[x][i]]
<1> DEFINE base == {s \in Signals : ~value[s]}
           L == Reaching(base)
           f == [y \in Readable |-> y \notin L]
           Body(g, y) == IF y \in Signals THEN value[y] ELSE \A i \in DOMAIN Sources[y] : g[Sources[y][i]]
<1>1. base \subseteq Readable
  BY DEF Readable
<1>2. \A y \in Readable : y \notin L <=> Body(f, y)
  <2> SUFFICES ASSUME NEW y \in Readable PROVE y \notin L <=> Body(f, y)
    OBVIOUS
  <2>1. y \in L <=> \/ y \in base
                    \/ y \in Computeds /\ \E i \in DOMAIN Sources[y] : Sources[y][i] \in L
    BY <1>1, ReachingFixed
  <2>2. CASE y \in Signals
    <3>1. y \notin Computeds
      BY <2>2, GraphAssumption DEF Subscribers
    <3> HIDE DEF L
    <3> QED BY <2>1, <2>2, <3>1
  <2>3. CASE y \notin Signals
    <3>1. y \in Computeds /\ y \in Subscribers
      BY <2>3 DEF Readable, Subscribers
    <3>2. \A i \in DOMAIN Sources[y] : Sources[y][i] \in Readable
      BY <3>1, SourcesReadable
    <3> HIDE DEF L
    <3>3. \A i \in DOMAIN Sources[y] : f[Sources[y][i]] <=> Sources[y][i] \notin L
      BY <3>2
    <3>4. Body(f, y) <=> \A i \in DOMAIN Sources[y] : Sources[y][i] \notin L
      BY <2>3, <3>3
    <3>5. y \notin base
      BY <2>3
    <3> HIDE DEF Body, f, base
    <3> QED BY <2>1, <3>1, <3>4, <3>5
  <2> QED BY <2>2, <2>3
<1>3. \A y \in Readable : Body(f, y) \in BOOLEAN
  BY DEF TypeOK
<1>4. f = [y \in Readable |-> Body(f, y)]
  <2> HIDE DEF L
  <2>1. \A y \in Readable : (y \notin L) = Body(f, y)
    <3> HIDE DEF Body, f
    <3> QED BY <1>2, <1>3
  <2> HIDE DEF Body
  <2> QED BY <2>1
<1>5. Truth = [y \in Readable |-> IF y \in Signals THEN value[y]
                                  ELSE \A i \in DOMAIN Sources[y] : Truth[Sources[y][i]]]
  <2> HIDE DEF L
  <2>1. \E g : g = [y \in Readable |-> IF y \in Signals THEN value[y]
                                       ELSE \A i \in DOMAIN Sources[y] : g[Sources[y][i]]]
    <3> WITNESS f
    <3> HIDE DEF f
    <3> QED BY <1>4
  <2> QED BY <2>1, Zenon DEF Truth
<1> QED BY <1>5

\* Likewise with the computeds that threw in the place of the FALSE signals.
LEMMA TaintedIs ==
  ASSUME TypeOK, NEW x \in Readable
  PROVE  Tainted[x] <=> /\ x \in Computeds
                        /\ x \in broken \/ \E i \in DOMAIN Sources[x] : Tainted[Sources[x][i]]
<1> DEFINE L == Reaching(broken)
           f == [y \in Readable |-> y \in L]
           Body(g, y) == y \in Computeds /\ (y \in broken \/ \E i \in DOMAIN Sources[y] : g[Sources[y][i]])
<1>1. broken \subseteq Readable /\ broken \subseteq Computeds
  BY DEF Readable, TypeOK
<1>2. \A y \in Readable : y \in L <=> Body(f, y)
  <2> SUFFICES ASSUME NEW y \in Readable PROVE y \in L <=> Body(f, y)
    OBVIOUS
  <2>1. y \in L <=> \/ y \in broken
                    \/ y \in Computeds /\ \E i \in DOMAIN Sources[y] : Sources[y][i] \in L
    BY <1>1, ReachingFixed
  <2>2. CASE y \notin Computeds
    <3> HIDE DEF L
    <3> QED BY <1>1, <2>1, <2>2
  <2>3. CASE y \in Computeds
    <3>2. \A i \in DOMAIN Sources[y] : Sources[y][i] \in Readable
      BY <2>3, SourcesReadable DEF Subscribers
    <3> HIDE DEF L
    <3>3. \A i \in DOMAIN Sources[y] : f[Sources[y][i]] <=> Sources[y][i] \in L
      BY <3>2
    <3> HIDE DEF f
    <3> QED BY <2>1, <2>3, <3>3
  <2> QED BY <2>2, <2>3
<1>4. f = [y \in Readable |-> Body(f, y)]
  <2> HIDE DEF L
  <2>1. \A y \in Readable : (y \in L) = Body(f, y)
    <3> HIDE DEF f
    <3> QED BY <1>2
  <2> HIDE DEF Body
  <2> QED BY <2>1
<1>5. Tainted = [y \in Readable |->
        y \in Computeds /\ (y \in broken \/ \E i \in DOMAIN Sources[y] : Tainted[Sources[y][i]])]
  <2> HIDE DEF L
  <2>1. \E g : g = [y \in Readable |->
          y \in Computeds /\ (y \in broken \/ \E i \in DOMAIN Sources[y] : g[Sources[y][i]])]
    <3> WITNESS f
    <3> HIDE DEF f
    <3> QED BY <1>4
  <2> QED BY <2>1, Zenon DEF Tainted
<1> QED BY <1>5

\* A set of computeds has one that reads no other of them.
LEMMA FirstOf ==
  ASSUME NEW C, C \subseteq Computeds, C # {}
  PROVE  \E c \in C : \A i \in DOMAIN Sources[c] : Sources[c][i] \notin C
<1> DEFINE T == {Rank[c] : c \in C}
           Less == {p \in Nat \X Nat : p[1] < p[2]}
<1>1. T \subseteq Nat /\ T # {}
  BY RankFalls
<1>2. IsWellFoundedOn(Less, Nat)
  <2>1. OpToRel(<, Nat) = Less
    BY Zenon DEF OpToRel
  <2> HIDE DEF Less
  <2> QED BY <2>1, NatLessThanWellFounded, Zenon
<1>3. PICK r \in T : \A t \in T : <<t, r>> \notin Less
  <2> HIDE DEF T, Less
  <2> QED BY <1>1, <1>2, WFMin
<1>4. \A t \in T : ~(t < r)
  <2> HIDE DEF T
  <2>1. \A t \in T : <<t, r>> \in Nat \X Nat
    BY <1>1
  <2> QED BY <1>3, <2>1
<1>5. PICK c \in C : r = Rank[c]
  OBVIOUS
<1>6. ASSUME NEW i \in DOMAIN Sources[c], Sources[c][i] \in C PROVE FALSE
  <2>1. Rank[Sources[c][i]] < Rank[c]
    BY <1>6, RankFalls
  <2> QED BY <1>4, <1>5, <1>6, <2>1
<1> QED BY <1>6

\* What the invariant says about each clean computed and its sources, said of all.
LEMMA RightIsFresh ==
  ASSUME TypeOK, CleanRight
  PROVE  CleanIsFresh
<1> DEFINE C == {c \in Computeds : state[c] = "clean" /\ ~Tainted[c] /\ cached[c] # Truth[c]}
<1>1. ASSUME C # {} PROVE FALSE
  <2>1. PICK c \in C : \A i \in DOMAIN Sources[c] : Sources[c][i] \notin C
    <3>1. C \subseteq Computeds
      OBVIOUS
    <3> HIDE DEF C
    <3> QED BY <1>1, <3>1, FirstOf
  <2>2. c \in Computeds /\ state[c] = "clean" /\ ~Tainted[c] /\ cached[c] # Truth[c]
    BY <2>1
  <2>3. c \in Readable /\ c \in Subscribers /\ c \notin Signals /\ cached[c] \in BOOLEAN
    BY <2>2, GraphAssumption DEF Readable, Subscribers, TypeOK
  <2>4. Truth[c] = \A i \in DOMAIN Sources[c] : Truth[Sources[c][i]]
    BY <2>3, TruthIs
  <2>5. c \notin broken /\ \A i \in DOMAIN Sources[c] : ~Tainted[Sources[c][i]]
    BY <2>2, <2>3, TaintedIs
  <2>6. Right(c, cached[c])
    BY <2>2, <2>5 DEF CleanRight
  <2>7. ASSUME NEW i \in DOMAIN Sources[c], Holds(c, Sources[c][i])
        PROVE  Shown(Sources[c][i]) = Truth[Sources[c][i]]
    <3>1. Sources[c][i] \in Readable
      BY <2>3, SourcesReadable
    <3>2. CASE Sources[c][i] \in Signals
      BY <3>1, <3>2, TruthIs DEF Shown
    <3>3. CASE Sources[c][i] \notin Signals
      <4>1. Sources[c][i] \in Computeds /\ state[Sources[c][i]] = "clean"
        BY <2>7, <3>1, <3>3 DEF Readable, Holds
      <4> QED BY <2>1, <2>5, <3>3, <4>1 DEF Shown
    <3> QED BY <3>2, <3>3
  <2>8. CASE cached[c]
    BY <2>2, <2>3, <2>4, <2>6, <2>7, <2>8 DEF Right
  <2>9. CASE ~cached[c]
    BY <2>2, <2>3, <2>4, <2>6, <2>7, <2>9 DEF Right
  <2> QED BY <2>3, <2>8, <2>9
<1> QED BY <1>1 DEF CleanIsFresh

\* The inductive invariant holds in every reachable state.
LEMMA ValuesAlways == Spec => [](TypeOK /\ ValueInv)
<1>1. Init => ValueInv
  <2> SUFFICES ASSUME Init PROVE ValueInv
    OBVIOUS
  <2>1. stack = <<>> /\ \A c \in Computeds : state[c] = "dirty"
    BY DEF Init
  <2>2. DOMAIN stack = {}
    BY <2>1
  <2> QED BY <2>1, <2>2 DEF ValueInv, ComputedsOnTop, Descends, RunningComputes, RunningRight, CleanRight
<1>2. TypeOK /\ ValueInv /\ [Next]_vars => ValueInv'
  BY NextRight
<1> QED BY <1>1, <1>2, TypeCorrect, PTL DEF Spec

\* A computed that is not recomputed when it is read has the value that its body
\* would compute from the signals as they are ("if (this._state !== ComputedState.Clean)",
\* signal.ts:146 peek), in the middle of a flush or of another body too, whatever was
\* thrown: excepted are only the bodies cut short and what reads them.
THEOREM CleanValuesAreFresh == Spec => []CleanIsFresh
<1>1. TypeOK /\ ValueInv => CleanIsFresh
  BY RightIsFresh DEF ValueInv
<1> QED BY <1>1, ValuesAlways, PTL

\* While a computed's body runs, from its first read to its return, nothing but
\* the bodies of other computeds runs on top of it.
NestsOnce ==
  \A i, j \in DOMAIN stack : i < j /\ ComputedFrame(stack[i]) =>
    ComputedFrame(stack[j]) /\ stack[j].who # stack[i].who

\* Computing a value never runs an effect or a flush, and never the same body a
\* second time inside its own run (_recompute of signal.ts has no guard against
\* that), although an effect may run inside its own run: as the dependencies of
\* computeds have no cycles, computing nests no deeper than there are computeds.
THEOREM ComputedsNestOnce == Spec => []NestsOnce
<1>1. TypeOK /\ ValueInv => NestsOnce
  <2> SUFFICES ASSUME ValueInv, NEW i \in DOMAIN stack, NEW j \in DOMAIN stack,
                      i < j, ComputedFrame(stack[i])
               PROVE  ComputedFrame(stack[j]) /\ stack[j].who # stack[i].who
    BY DEF NestsOnce
  <2>1. ComputedFrame(stack[j])
    BY DEF ValueInv, ComputedsOnTop
  <2>2. Rank[stack[j].who] < Rank[stack[i].who]
    BY <2>1 DEF ValueInv, Descends
  <2>3. stack[i].who \in Computeds /\ Rank[stack[i].who] \in Nat
    BY RankFalls DEF ComputedFrame
  <2> QED BY <2>1, <2>2, <2>3
<1> QED BY <1>1, ValuesAlways, PTL

(***************************************************************************)
(* No lost update                                                          *)
(***************************************************************************)
EffectFrame(f) == IsBody(f) /\ f.who \in Effects

\* Nothing is asked of what e shows now: it is excused, or has still to run.
Pardoned(e) == e \in excused \/ e \in Awaited

\* What the body of an effect has read so far, and what it has shown if it has.
FrameRight(f) == RightSoFar(f) /\ (f.next > Len(Sources[f.who]) + 1 => seen[f.who] = f.acc)

FramesRight ==
  \A f \in Range(stack) : EffectFrame(f) => Pardoned(f.who) \/ FrameRight(f)
SeenRight ==
  \A e \in Effects : life[e] # "new" =>
    Pardoned(e) \/ e \in Bodies(stack) \/ Right(e, seen[e])

\* Before it is created an effect reads nothing and is not to run.
Known == \A e \in Effects : life[e] = "new" =>
           e \notin Bodies(stack) /\ e \notin Awaited /\ \A p \in subs : p[2] # e
Gone  == \A e \in Effects : life[e] = "disposed" => e \in excused

\* An effect outside E runs once on s, and below a batch there are only batches.
Fits(E, g, f) ==
  /\ EffectFrame(g) /\ EffectFrame(f) /\ g.who = f.who => f.who \in E
  /\ f.kind = "batch" => g.kind = "batch"
Nested(E, s) == \A i, j \in DOMAIN s : i < j => Fits(E, s[i], s[j])

HasBatch(s) == \E f \in Range(s) : f.kind = "batch"

\* The inductive invariant of what effects show.
SettledInv == /\ FramesRight /\ SeenRight /\ Known /\ Gone
              /\ Nested(excused, stack)
              /\ pending # {} => HasBatch(stack)

\* The frames of a stack say what waits and what runs.
LEMMA ByFrames ==
  ASSUME NEW s
  PROVE  /\ \A e : Waits(e, s) <=> \E f \in Range(s) : f.kind = "flush" /\ e \in f.queue
         /\ \A n : n \in Bodies(s) <=> \E f \in Range(s) : IsBody(f) /\ f.who = n
BY DEF Waits, Bodies, Range

LEMMA InBatchIs == InBatch <=> HasBatch(stack)
BY DEF InBatch, HasBatch, Range

\* The frames after a push, and below the top.
LEMMA PushFrames ==
  ASSUME NEW s \in Seq(Frames), NEW f \in Frames
  PROVE  /\ Append(s, f) \in Seq(Frames)
         /\ Range(Append(s, f)) = Range(s) \cup {f}
<1>1. /\ Len(s) \in Nat /\ DOMAIN s = 1..Len(s)
      /\ DOMAIN Append(s, f) = 1..(Len(s) + 1)
      /\ \A i \in 1..Len(s) : Append(s, f)[i] = s[i]
      /\ Append(s, f)[Len(s) + 1] = f
  BY PushIndices
<1>2. 1..(Len(s) + 1) = (1..Len(s)) \cup {Len(s) + 1}
  BY <1>1
<1>3. \A g : g \in Range(Append(s, f)) <=> g \in Range(s) \/ g = f
  BY <1>1, <1>2 DEF Range
<1> QED BY <1>3, PushIndices

LEMMA UnderFrames ==
  ASSUME stack \in Seq(Frames), stack # <<>>
  PROVE  /\ Top \in Frames /\ Under \in Seq(Frames)
         /\ Range(stack) = Range(Under) \cup {Top}
<1>1. /\ Len(stack) \in Nat \ {0} /\ DOMAIN stack = 1..Len(stack)
      /\ DOMAIN Under = 1..(Len(stack) - 1)
      /\ \A i \in 1..(Len(stack) - 1) : Under[i] = stack[i]
      /\ Top = stack[Len(stack)]
  BY UnderIndices
<1>2. 1..Len(stack) = (1..(Len(stack) - 1)) \cup {Len(stack)}
  BY <1>1
<1>3. \A g : g \in Range(stack) <=> g \in Range(Under) \/ g = Top
  BY <1>1, <1>2 DEF Range
<1> QED BY <1>3, TopAndUnder

\* A push nests what fits, and what is on top fits what is below.
LEMMA NestedPush ==
  ASSUME NEW E, NEW s \in Seq(Frames), NEW f \in Frames,
         Nested(E, s), \A g \in Range(s) : Fits(E, g, f)
  PROVE  Nested(E, Append(s, f))
<1>1. /\ Len(s) \in Nat /\ DOMAIN s = 1..Len(s)
      /\ DOMAIN Append(s, f) = 1..(Len(s) + 1)
      /\ \A i \in 1..Len(s) : Append(s, f)[i] = s[i]
      /\ Append(s, f)[Len(s) + 1] = f
  BY PushIndices
<1>2. ASSUME NEW i \in 1..(Len(s) + 1), NEW j \in 1..(Len(s) + 1), i < j
      PROVE  Fits(E, Append(s, f)[i], Append(s, f)[j])
  <2>1. i \in DOMAIN s /\ Append(s, f)[i] = s[i]
    BY <1>1, <1>2
  <2>2. CASE j = Len(s) + 1
    <3>1. s[i] \in Range(s)
      BY <2>1 DEF Range
    <3> QED BY <1>1, <2>1, <2>2, <3>1
  <2>3. CASE j # Len(s) + 1
    <3>1. j \in DOMAIN s /\ Append(s, f)[j] = s[j]
      BY <1>1, <2>3
    <3> QED BY <1>2, <2>1, <3>1 DEF Nested
  <2> QED BY <2>2, <2>3
<1> QED BY <1>1, <1>2 DEF Nested

LEMMA NestedUnder ==
  ASSUME NEW E, stack \in Seq(Frames), stack # <<>>, Nested(E, stack)
  PROVE  Nested(E, Under) /\ \A g \in Range(Under) : Fits(E, g, Top)
<1>1. /\ Len(stack) \in Nat \ {0} /\ DOMAIN stack = 1..Len(stack)
      /\ DOMAIN Under = 1..(Len(stack) - 1)
      /\ \A i \in 1..(Len(stack) - 1) : Under[i] = stack[i]
      /\ Top = stack[Len(stack)]
  BY UnderIndices
<1>2. Nested(E, Under)
  BY <1>1 DEF Nested
<1>3. ASSUME NEW g \in Range(Under) PROVE Fits(E, g, Top)
  <2>1. PICK i \in 1..(Len(stack) - 1) : g = Under[i]
    BY <1>1 DEF Range
  <2>2. i \in DOMAIN stack /\ Len(stack) \in DOMAIN stack /\ i < Len(stack) /\ g = stack[i]
    BY <1>1, <2>1
  <2> QED BY <1>1, <2>2 DEF Nested
<1> QED BY <1>2, <1>3

\* More may be excused.
LEMMA NestedMore ==
  ASSUME NEW E, NEW F, E \subseteq F, NEW s, Nested(E, s)
  PROVE  Nested(F, s)
BY DEF Nested, Fits

\* The step leaves what is asked of e as it is.
Same(e) == ~Pardoned(e) /\ Kept(e) /\ seen'[e] = seen[e]

\* What effects show stays right where the step leaves it, or makes it so.
LEMMA SettledStep ==
  ASSUME FramesRight, SeenRight,
         \A f \in Range(stack') : EffectFrame(f) =>
           \/ Pardoned(f.who)'
           \/ FrameRight(f)'
           \/ f \in Range(stack) /\ Same(f.who),
         \A e \in Effects : life'[e] # "new" =>
           \/ Pardoned(e)' \/ e \in Bodies(stack') \/ Right(e, seen[e])'
           \/ life[e] # "new" /\ e \notin Bodies(stack) /\ Same(e)
  PROVE  FramesRight' /\ SeenRight'
<1>1. FramesRight'
  <2> SUFFICES ASSUME NEW f \in Range(stack'), EffectFrame(f), ~Pardoned(f.who)', ~FrameRight(f)'
               PROVE  FALSE
    BY DEF FramesRight
  <2>1. f \in Range(stack) /\ Same(f.who)
    OBVIOUS
  <2>2. FrameRight(f) /\ Kept(f.who) /\ seen'[f.who] = seen[f.who]
    BY <2>1 DEF FramesRight, Same
  <2>3. RightSoFar(f)'
    BY <2>2 DEF FrameRight, Kept, RightSoFar, Holds, Shown
  <2> QED BY <2>2, <2>3 DEF FrameRight
<1>2. SeenRight'
  <2> SUFFICES ASSUME NEW e \in Effects, life'[e] # "new", ~Pardoned(e)',
                      e \notin Bodies(stack'), ~Right(e, seen[e])'
               PROVE  FALSE
    BY DEF SeenRight
  <2>1. life[e] # "new" /\ e \notin Bodies(stack) /\ Same(e)
    OBVIOUS
  <2>2. Right(e, seen[e]) /\ Kept(e) /\ seen'[e] = seen[e]
    BY <2>1 DEF SeenRight, Same
  <2> QED BY <2>2 DEF Kept, Right, Holds, Shown
<1> QED BY <1>1, <1>2

\* A step that neither runs nor excuses an effect, nor takes anything from one.
LEMMA QuietSettled ==
  ASSUME SettledInv, UNCHANGED <<life, seen, excused>>,
         \A f \in Range(stack') : EffectFrame(f) => f \in Range(stack),
         \A e \in Effects : e \in Bodies(stack) <=> e \in Bodies(stack'),
         \A e \in Effects : e \in Awaited <=> e \in Awaited',
         \A e \in Effects : Kept(e),
         \A p \in subs' : p[2] \in Effects => p \in subs \/ p[2] \in Bodies(stack),
         Nested(excused, stack'), pending' # {} => HasBatch(stack')
  PROVE  SettledInv'
<1>1. \A e \in Effects : Pardoned(e)' <=> Pardoned(e)
  BY DEF Pardoned
<1>2. FramesRight' /\ SeenRight'
  <2>1. FramesRight /\ SeenRight
    BY DEF SettledInv
  <2>2. ASSUME NEW f \in Range(stack'), EffectFrame(f)
        PROVE  Pardoned(f.who)' \/ (f \in Range(stack) /\ Same(f.who))
    <3>1. f.who \in Effects
      BY <2>2 DEF EffectFrame
    <3> QED BY <1>1, <2>2, <3>1 DEF Same
  <2>3. ASSUME NEW e \in Effects, life'[e] # "new"
        PROVE  \/ Pardoned(e)' \/ e \in Bodies(stack')
               \/ life[e] # "new" /\ e \notin Bodies(stack) /\ Same(e)
    BY <1>1, <2>3 DEF Same
  <2> QED BY <2>1, <2>2, <2>3, SettledStep
<1>3. Known' /\ Gone'
  BY DEF SettledInv, Known, Gone
<1> QED BY <1>2, <1>3 DEF SettledInv

\* A push of what is neither an effect nor a flush.
LEMMA PushQuiet ==
  ASSUME stack \in Seq(Frames), NEW f \in Frames, ~EffectFrame(f), f.kind # "flush",
         stack' = Append(stack, f), UNCHANGED pending
  PROVE  /\ \A g \in Range(stack') : EffectFrame(g) => g \in Range(stack)
         /\ \A e \in Effects : e \in Bodies(stack) <=> e \in Bodies(stack')
         /\ \A e \in Effects : e \in Awaited <=> e \in Awaited'
         /\ HasBatch(stack) => HasBatch(stack')
<1>1. Range(stack') = Range(stack) \cup {f}
  BY PushFrames
<1>2. \A e \in Effects : e \in Bodies(stack) <=> e \in Bodies(stack')
  BY <1>1, ByFrames DEF EffectFrame
<1>3. ASSUME NEW e PROVE Waits(e, stack) <=> Waits(e, stack')
  <2>1. Waits(e, stack) <=> \E g \in Range(stack) : g.kind = "flush" /\ e \in g.queue
    BY ByFrames
  <2>2. Waits(e, stack') <=> \E g \in Range(stack') : g.kind = "flush" /\ e \in g.queue
    BY ByFrames
  <2> QED BY <1>1, <2>1, <2>2
<1>4. \A e \in Effects : e \in Awaited <=> e \in Awaited'
  BY <1>3, AwaitedIs, AwaitedIsNext
<1> QED BY <1>1, <1>2, <1>4 DEF HasBatch

\* The end of what is neither an effect nor a flush with work to do.
LEMMA PopQuiet ==
  ASSUME stack \in Seq(Frames), stack # <<>>, ~EffectFrame(Top),
         Top.kind = "flush" => Top.queue = {},
         stack' = Under, UNCHANGED pending
  PROVE  /\ \A g \in Range(stack') : EffectFrame(g) => g \in Range(stack)
         /\ \A e \in Effects : e \in Bodies(stack) <=> e \in Bodies(stack')
         /\ \A e \in Effects : e \in Awaited <=> e \in Awaited'
         /\ HasBatch(stack) /\ Top.kind # "batch" => HasBatch(stack')
<1>1. Range(stack) = Range(Under) \cup {Top}
  BY UnderFrames
<1>2. \A e \in Effects : e \in Bodies(stack) <=> e \in Bodies(stack')
  BY <1>1, ByFrames DEF EffectFrame
<1>3. ASSUME NEW e PROVE Waits(e, stack) <=> Waits(e, stack')
  <2>1. Waits(e, stack) <=> \E g \in Range(stack) : g.kind = "flush" /\ e \in g.queue
    BY ByFrames
  <2>2. Waits(e, stack') <=> \E g \in Range(stack') : g.kind = "flush" /\ e \in g.queue
    BY ByFrames
  <2> QED BY <1>1, <2>1, <2>2
<1>4. \A e \in Effects : e \in Awaited <=> e \in Awaited'
  BY <1>3, AwaitedIs, AwaitedIsNext
<1> QED BY <1>1, <1>2, <1>4 DEF HasBatch

\* A batch begins, on top of batches only.
LEMMA BatchBeginsSettled ==
  ASSUME TypeOK, SettledInv, BatchBegins
  PROVE  SettledInv'
<1>1. /\ stack \in Seq(Frames) /\ Program /\ stack' = Append(stack, BatchFrame)
      /\ UNCHANGED <<graph, subs, life, pending, seen, excused>>
  BY DEF TypeOK, BatchBegins, Push
<1>2. BatchFrame \in Frames /\ BatchFrame.kind = "batch" /\ ~EffectFrame(BatchFrame)
  BY FramesOK DEF BatchFrame, EffectFrame
<1> HIDE DEF BatchFrame
<1>3. \A g \in Range(stack) : g.kind = "batch"
  <2>1. CASE stack = <<>>
    BY <2>1 DEF Range
  <2>2. CASE stack # <<>>
    <3>1. Top.kind = "batch"
      BY <1>1, <2>2 DEF Program, IsTop
    <3>2. \A g \in Range(Under) : Fits(excused, g, Top)
      BY <1>1, <2>2, NestedUnder DEF SettledInv
    <3> QED BY <1>1, <2>2, <3>1, <3>2, UnderFrames DEF Fits
  <2> QED BY <2>1, <2>2
<1>4. Nested(excused, stack')
  <2>1. \A g \in Range(stack) : Fits(excused, g, BatchFrame)
    BY <1>2, <1>3 DEF Fits
  <2> QED BY <1>1, <1>2, <2>1, NestedPush DEF SettledInv
<1>5. \A e \in Effects : Kept(e)
  BY <1>1 DEF Kept, Holds, graph
<1>6. pending' # {} => HasBatch(stack')
  BY <1>1, <1>2, PushFrames DEF HasBatch
<1> QED BY <1>1, <1>2, <1>4, <1>5, <1>6, PushQuiet, QuietSettled

\* A batch ends: under it there is a batch, or its effects are flushed.
LEMMA BatchEndsSettled ==
  ASSUME TypeOK, SettledInv, BatchEnds
  PROVE  SettledInv'
<1>1. /\ stack \in Seq(Frames) /\ stack # <<>> /\ Top.kind = "batch"
      /\ UNCHANGED <<graph, subs, life, seen, excused>>
  BY DEF TypeOK, BatchEnds, IsTop
<1>2. Nested(excused, Under) /\ \A g \in Range(Under) : g.kind = "batch"
  BY <1>1, NestedUnder DEF SettledInv, Fits
<1>3. \A e \in Effects : Kept(e)
  BY <1>1 DEF Kept, Holds, graph
<1>4. ~EffectFrame(Top)
  BY <1>1 DEF EffectFrame, IsBody
<1>5. CASE Len(stack) > 1 \/ pending = {}
  <2>1. stack' = Under /\ pending' = pending
    BY <1>5 DEF BatchEnds, Pop
  <2>2. pending # {} => HasBatch(Under)
    <3> SUFFICES ASSUME pending # {} PROVE HasBatch(Under)
      OBVIOUS
    <3>1. 1 \in DOMAIN Under
      BY <1>1, <1>5, UnderIndices
    <3> QED BY <1>2, <3>1 DEF HasBatch, Range
  <2> QED BY <1>1, <1>2, <1>3, <1>4, <2>1, <2>2, PopQuiet, QuietSettled
<1>6. CASE ~(Len(stack) > 1 \/ pending = {})
  <2> DEFINE f == FlushFrame(pending)
  <2>1. stack' = <<f>> /\ pending' = {}
    BY <1>6 DEF BatchEnds
  <2>2. f.kind = "flush" /\ f.queue = pending /\ ~IsBody(f)
    BY DEF FlushFrame, IsBody
  <2> HIDE DEF f
  <2>3. Range(stack') = {f}
    <3>1. DOMAIN stack' = {1} /\ stack'[1] = f
      BY <2>1
    <3> QED BY <3>1 DEF Range
  <2>4. Range(stack) = {Top}
    <3>1. Len(stack) = 1
      BY <1>1, <1>6, UnderIndices
    <3>2. DOMAIN Under = {}
      BY <1>1, <3>1, UnderIndices
    <3>3. Range(Under) = {}
      BY <3>2 DEF Range
    <3> QED BY <1>1, <3>3, UnderFrames
  <2>5. \A e \in Effects : e \in Bodies(stack) <=> e \in Bodies(stack')
    BY <1>4, <2>2, <2>3, <2>4, ByFrames DEF EffectFrame
  <2>6. \A e \in Effects : e \in Awaited <=> e \in Awaited'
    BY <1>1, <2>1, <2>2, <2>3, <2>4, ByFrames, AwaitedIs, AwaitedIsNext
  <2>7. Nested(excused, stack')
    BY <2>1 DEF Nested
  <2>8. \A g \in Range(stack') : EffectFrame(g) => g \in Range(stack)
    BY <2>2, <2>3 DEF EffectFrame
  <2> QED BY <1>1, <1>3, <2>1, <2>5, <2>6, <2>7, <2>8, QuietSettled
<1> QED BY <1>5, <1>6

\* A computed starts to run: it was not up to date, so no effect holds it.
LEMMA ComputeSettled ==
  ASSUME TypeOK, SettledInv, (\E c \in Computeds : Peek(c)) \/ (\E n \in Subscribers : ReadComputes(n))
  PROVE  SettledInv'
<1>1. PICK c \in Computeds :
        /\ state[c] # "clean" /\ state' = [state EXCEPT ![c] = "computing"]
        /\ \E n : (n \in Effects => n \in Bodies(stack)) /\ subs' \in {Without(c), Without(c) \cup {<<c, n>>}}
        /\ stack' = Append(stack, RunFrame(c))
        /\ UNCHANGED <<value, cached, life, pending, seen, excused>>
  <2>1. CASE \E c \in Computeds : Peek(c)
    <3>1. PICK c \in Computeds : Peek(c)
      BY <2>1
    <3>2. c \notin Effects
      BY EffectsAreNot
    <3> QED BY <3>1, <3>2 DEF Peek, Push
  <2>2. CASE \E n \in Subscribers : ReadComputes(n)
    <3>1. PICK n \in Subscribers : ReadComputes(n)
      BY <2>2
    <3>2. n \in Bodies(stack)
      BY <3>1, RunningTop, TopAndUnder DEF ReadComputes
    <3> QED BY <3>1, <3>2 DEF ReadComputes, Push
  <2> QED BY <2>1, <2>2
<1> DEFINE f == RunFrame(c)
<1>2. stack \in Seq(Frames) /\ f \in Frames /\ f.kind = "run" /\ ~EffectFrame(f)
  <2>1. f \in Frames /\ f.who = c
    BY FramesOK DEF RunFrame, Subscribers
  <2> QED BY <2>1, EffectsAreNot DEF TypeOK, EffectFrame, RunFrame, Frame
<1>3. stack' = Append(stack, f)
  BY <1>1
<1> HIDE DEF f
<1>4. Nested(excused, stack')
  <2>1. \A g \in Range(stack) : Fits(excused, g, f)
    BY <1>2 DEF Fits
  <2> QED BY <1>2, <1>3, <2>1, NestedPush DEF SettledInv
<1>5. ASSUME NEW e \in Effects PROVE Kept(e)
  <2>1. e # c
    BY EffectsAreNot
  <2> QED BY <1>1, <2>1 DEF Kept, Holds, Without, TypeOK
<1>6. \A p \in subs' : p[2] \in Effects => p \in subs \/ p[2] \in Bodies(stack)
  BY <1>1 DEF Without
<1>7. pending' # {} => HasBatch(stack')
  BY <1>1, <1>2, <1>3, PushQuiet DEF SettledInv
<1> QED BY <1>1, <1>2, <1>3, <1>4, <1>5, <1>6, <1>7, PushQuiet, QuietSettled

\* A computed returns: it was running, so no effect held its old value.
LEMMA ComputeReturnSettled ==
  ASSUME TypeOK, ValueInv, SettledInv, NEW c \in Computeds, ComputeReturns(c)
  PROVE  SettledInv'
<1>1. /\ Running(c) /\ stack' = Under
      /\ cached' = [cached EXCEPT ![c] = Top.acc] /\ state' = [state EXCEPT ![c] = "clean"]
      /\ UNCHANGED <<value, subs, life, pending, seen, excused>>
  BY DEF ComputeReturns, HasRead, Pop
<1>2. /\ stack \in Seq(Frames) /\ stack # <<>> /\ IsBody(Top) /\ Top.who = c
  BY <1>1, RunningTop
<1>3. ~EffectFrame(Top) /\ Top.kind \notin {"flush", "batch"}
  BY <1>2, EffectsAreNot DEF EffectFrame, IsBody
<1>4. state[c] = "computing"
  <2>1. Len(stack) \in DOMAIN stack /\ Top = stack[Len(stack)]
    BY <1>2, UnderIndices
  <2> QED BY <1>2, <2>1 DEF ValueInv, RunningComputes, ComputedFrame
<1>5. \A e \in Effects : Kept(e)
  BY <1>1, <1>4 DEF Kept, Holds, TypeOK
<1>6. Nested(excused, stack')
  BY <1>1, <1>2, NestedUnder DEF SettledInv
<1>7. pending' # {} => HasBatch(stack')
  BY <1>1, <1>2, <1>3, PopQuiet DEF SettledInv
<1> QED BY <1>1, <1>2, <1>3, <1>5, <1>6, <1>7, PopQuiet, QuietSettled

\* A flush starts anew, or ends.
LEMMA FlushAgainSettled ==
  ASSUME TypeOK, SettledInv, FlushAgain
  PROVE  SettledInv'
<1>1. /\ stack \in Seq(Frames) /\ stack # <<>> /\ Top.kind = "flush" /\ Top.queue = {}
      /\ pending \subseteq Effects /\ pending' = {}
      /\ UNCHANGED <<graph, subs, life, seen, excused>>
  BY DEF TypeOK, FlushAgain, IsTop
<1>2. ~EffectFrame(Top)
  BY <1>1 DEF EffectFrame, IsBody
<1>3. \A e \in Effects : Kept(e)
  BY <1>1 DEF Kept, Holds, graph
<1>4. Nested(excused, Under)
  BY <1>1, NestedUnder DEF SettledInv
<1>5. CASE pending = {}
  <2>1. stack' = Under /\ pending' = pending
    BY <1>1, <1>5 DEF FlushAgain, Pop
  <2> QED BY <1>1, <1>2, <1>3, <1>4, <2>1, PopQuiet, QuietSettled
<1>6. CASE pending # {}
  <2> DEFINE f == FlushFrame(pending)
  <2>1. stack' = Append(Under, f)
    BY <1>6 DEF FlushAgain, Become
  <2>2. f \in Frames /\ f.kind = "flush" /\ f.queue = pending /\ ~IsBody(f)
    BY <1>1, FramesOK DEF FlushFrame
  <2> HIDE DEF f
  <2>3. Range(stack') = Range(Under) \cup {f} /\ Range(stack) = Range(Under) \cup {Top}
    BY <1>1, <2>1, <2>2, UnderFrames, PushFrames
  <2>4. \A g \in Range(stack') : EffectFrame(g) => g \in Range(stack)
    BY <2>2, <2>3 DEF EffectFrame
  <2>5. \A e \in Effects : e \in Bodies(stack) <=> e \in Bodies(stack')
    BY <1>2, <2>2, <2>3, ByFrames DEF EffectFrame
  <2>6. ASSUME NEW e \in Effects PROVE e \in Awaited <=> e \in Awaited'
    <3>1. Waits(e, stack) <=> \E g \in Range(stack) : g.kind = "flush" /\ e \in g.queue
      BY ByFrames
    <3>2. Waits(e, stack') <=> \E g \in Range(stack') : g.kind = "flush" /\ e \in g.queue
      BY ByFrames
    <3>3. Waits(e, stack') <=> Waits(e, stack) \/ e \in pending
      BY <1>1, <2>2, <2>3, <3>1, <3>2
    <3> QED BY <1>1, <3>3, AwaitedIs, AwaitedIsNext
  <2>7. Nested(excused, stack')
    <3>1. \A g \in Range(Under) : Fits(excused, g, f)
      BY <2>2 DEF Fits, EffectFrame
    <3> QED BY <1>1, <1>4, <2>1, <2>2, <3>1, UnderFrames, NestedPush
  <2> QED BY <1>1, <1>3, <2>4, <2>5, <2>6, <2>7, QuietSettled
<1> QED BY <1>5, <1>6

\* An effect starts to run: it has read nothing yet.
LEMMA FreshFrame ==
  ASSUME NEW e \in Effects, NEW k \in {"run", "create"}
  PROVE  /\ Frame(k, e) \in Frames /\ EffectFrame(Frame(k, e)) /\ Frame(k, e).who = e
         /\ Frame(k, e).kind = k
         /\ FrameRight(Frame(k, e)) /\ FrameRight(Frame(k, e))'
<1> DEFINE f == Frame(k, e)
<1>1. f \in BodyFrames /\ IsBody(f) /\ f.who = e
  BY FramesOK DEF Subscribers
<1>2. f.kind = k /\ f.next = 1 /\ f.acc
  BY DEF Frame
<1>3. f \in Frames
  BY <1>1, FramesOK
<1> HIDE DEF f
<1>4. Len(Sources[e]) \in Nat /\ DOMAIN Sources[e] = 1..Len(Sources[e])
  BY GraphAssumption, LenProperties DEF Subscribers
<1>5. RightSoFar(f) /\ RightSoFar(f)'
  BY <1>1, <1>2, <1>4 DEF RightSoFar
<1>6. ~(f.next > Len(Sources[f.who]) + 1)
  BY <1>1, <1>2, <1>4
<1>7. FrameRight(f) /\ FrameRight(f)'
  BY <1>5, <1>6 DEF FrameRight
<1> QED BY <1>1, <1>2, <1>3, <1>7 DEF EffectFrame, f

\* An effect is created: it reads nothing yet, and does not run.
LEMMA CreateSettled ==
  ASSUME TypeOK, SettledInv, NEW e \in Effects, Create(e)
  PROVE  SettledInv'
<1> DEFINE f == Frame("create", e)
<1>1. /\ stack \in Seq(Frames) /\ stack' = Append(stack, f) /\ life[e] = "new"
      /\ life' = [life EXCEPT ![e] = "creating"] /\ life \in [Effects -> {"new", "creating", "live", "disposed"}]
      /\ UNCHANGED <<graph, subs, pending, seen, excused>>
  BY DEF TypeOK, Create, Push
<1>2. f \in Frames /\ EffectFrame(f) /\ f.who = e /\ f.kind = "create" /\ FrameRight(f)'
  BY FreshFrame
<1> HIDE DEF f
<1>3. Range(stack') = Range(stack) \cup {f}
  BY <1>1, <1>2, PushFrames
<1>4. \A x \in Effects : x \in Bodies(stack') <=> x \in Bodies(stack) \/ x = e
  BY <1>2, <1>3, ByFrames DEF EffectFrame
<1>5. ASSUME NEW x \in Effects PROVE x \in Awaited <=> x \in Awaited'
  <2>1. Waits(x, stack) <=> \E g \in Range(stack) : g.kind = "flush" /\ x \in g.queue
    BY ByFrames
  <2>2. Waits(x, stack') <=> \E g \in Range(stack') : g.kind = "flush" /\ x \in g.queue
    BY ByFrames
  <2> QED BY <1>1, <1>2, <1>3, <2>1, <2>2, AwaitedIs, AwaitedIsNext
<1>6. \A x \in Effects : (Pardoned(x)' <=> Pardoned(x)) /\ Kept(x)
  BY <1>1, <1>5 DEF Pardoned, Kept, Holds, graph
<1>7. FramesRight' /\ SeenRight'
  <2>1. FramesRight /\ SeenRight
    BY DEF SettledInv
  <2>2. ASSUME NEW g \in Range(stack'), EffectFrame(g)
        PROVE  Pardoned(g.who)' \/ FrameRight(g)' \/ (g \in Range(stack) /\ Same(g.who))
    <3>1. g.who \in Effects
      BY <2>2 DEF EffectFrame
    <3> QED BY <1>1, <1>2, <1>3, <1>6, <2>2, <3>1 DEF Same
  <2>3. ASSUME NEW x \in Effects, life'[x] # "new"
        PROVE  \/ Pardoned(x)' \/ x \in Bodies(stack')
               \/ life[x] # "new" /\ x \notin Bodies(stack) /\ Same(x)
    BY <1>1, <1>4, <1>6, <2>3 DEF Same
  <2> QED BY <2>1, <2>2, <2>3, SettledStep
<1>8. Known' /\ Gone'
  BY <1>1, <1>4, <1>5 DEF SettledInv, Known, Gone
<1>9. Nested(excused, stack')
  <2>1. e \notin Bodies(stack)
    BY <1>1 DEF SettledInv, Known
  <2>2. \A g \in Range(stack) : Fits(excused, g, f)
    BY <1>2, <2>1, ByFrames DEF Fits, EffectFrame
  <2> QED BY <1>1, <1>2, <2>2, NestedPush DEF SettledInv
<1>10. pending' # {} => HasBatch(stack')
  BY <1>1, <1>3 DEF SettledInv, HasBatch
<1> QED BY <1>1, <1>7, <1>8, <1>9, <1>10 DEF SettledInv

\* An effect is disposed of, and excused from then on.
LEMMA DisposeSettled ==
  ASSUME TypeOK, SettledInv, NEW e \in Effects, Dispose(e)
  PROVE  SettledInv'
<1>1. /\ life[e] = "live" /\ life' = [life EXCEPT ![e] = "disposed"] /\ subs' = Without(e)
      /\ life \in [Effects -> {"new", "creating", "live", "disposed"}]
      /\ excused' = excused \cup {e} /\ seen' = [x \in Effects |-> seen[x] /\ x \notin {e}]
      /\ seen \in [Effects -> BOOLEAN]
      /\ UNCHANGED <<graph, pending, stack>>
  BY DEF TypeOK, Dispose, Excuse
<1>2. Pardoned(e)' /\ \A x \in Effects : Pardoned(x) => Pardoned(x)'
  BY <1>1 DEF Pardoned, Awaited
<1>3. ASSUME NEW x \in Effects, x # e PROVE Kept(x) /\ seen'[x] = seen[x]
  <2>1. Kept(x)
    BY <1>1, <1>3 DEF Kept, Holds, Without, graph
  <2>2. seen'[x] = seen[x]
    BY <1>1, <1>3
  <2> QED BY <2>1, <2>2
<1>4. FramesRight' /\ SeenRight'
  <2>1. FramesRight /\ SeenRight
    BY DEF SettledInv
  <2>2. ASSUME NEW g \in Range(stack'), EffectFrame(g)
        PROVE  Pardoned(g.who)' \/ (g \in Range(stack) /\ Same(g.who))
    <3>1. g.who \in Effects /\ g \in Range(stack)
      BY <1>1, <2>2 DEF EffectFrame
    <3> QED BY <1>2, <1>3, <3>1 DEF Same
  <2>3. ASSUME NEW x \in Effects, life'[x] # "new"
        PROVE  \/ Pardoned(x)' \/ x \in Bodies(stack')
               \/ life[x] # "new" /\ x \notin Bodies(stack) /\ Same(x)
    BY <1>1, <1>2, <1>3, <2>3 DEF Same
  <2> QED BY <2>1, <2>2, <2>3, SettledStep
<1>5. Known' /\ Gone'
  BY <1>1 DEF SettledInv, Known, Gone, Without, Awaited
<1>6. Nested(excused', stack)
  BY <1>1, NestedMore DEF SettledInv
<1> QED BY <1>1, <1>4, <1>5, <1>6 DEF SettledInv

\* A body reads what is up to date, and holds it.
LEMMA ReadSettled ==
  ASSUME TypeOK, SettledInv, NEW n \in Subscribers, ReadValue(n)
  PROVE  SettledInv'
<1>1. /\ stack \in Seq(Frames) /\ stack # <<>> /\ IsBody(Top) /\ Top.who = n
      /\ Top.next \in Nat \ {0} /\ n \in Bodies(stack)
  BY RunningTop, TopAndUnder DEF ReadValue
<1>2. UNCHANGED <<graph, life, pending, seen, excused>>
  BY DEF ReadValue
<1>3. PICK f \in Frames, v \in BOOLEAN, k \in DOMAIN Sources[n] : ReadsTo(n, f, v, k)
  BY ReadGoes
<1>4. /\ stack' = Append(Under, f) /\ f.kind = Top.kind /\ f.who = n
      /\ f.next = IF v THEN k + 1 ELSE Len(Sources[n]) + 1
      /\ k = Top.next /\ \E x : subs' = subs \cup {<<x, n>>}
  BY <1>3 DEF ReadsTo
<1>5. /\ Range(stack) = Range(Under) \cup {Top} /\ Range(stack') = Range(Under) \cup {f}
      /\ Under \in Seq(Frames)
  BY <1>1, <1>4, UnderFrames, PushFrames
<1>6. \A e : e \in Bodies(stack) <=> e \in Bodies(stack')
  BY <1>1, <1>4, <1>5, ByFrames DEF IsBody
<1>7. ASSUME NEW e \in Effects PROVE e \in Awaited <=> e \in Awaited'
  <2>1. Waits(e, stack) <=> \E g \in Range(stack) : g.kind = "flush" /\ e \in g.queue
    BY ByFrames
  <2>2. Waits(e, stack') <=> \E g \in Range(stack') : g.kind = "flush" /\ e \in g.queue
    BY ByFrames
  <2>3. Top.kind # "flush" /\ f.kind # "flush"
    BY <1>1, <1>4 DEF IsBody
  <2>4. Waits(e, stack) <=> Waits(e, stack')
    BY <1>5, <2>1, <2>2, <2>3
  <2> QED BY <1>2, <2>4, AwaitedIs, AwaitedIsNext
<1>8. \A e : Kept(e)
  BY <1>2, <1>4 DEF Kept, Holds, graph
<1>9. Nested(excused, stack')
  <2>1. Nested(excused, Under) /\ \A g \in Range(Under) : Fits(excused, g, Top)
    BY <1>1, NestedUnder DEF SettledInv
  <2>2. \A g \in Range(Under) : Fits(excused, g, f)
    BY <1>1, <1>4, <2>1 DEF Fits, EffectFrame, IsBody
  <2> QED BY <1>4, <1>5, <2>1, <2>2, NestedPush
<1>10. pending' # {} => HasBatch(stack')
  BY <1>1, <1>2, <1>4, <1>5 DEF SettledInv, HasBatch, IsBody
<1>11. \A e \in Effects : Pardoned(e)' <=> Pardoned(e)
  BY <1>2, <1>7 DEF Pardoned
<1>12. ASSUME n \in Effects PROVE Pardoned(n)' \/ FrameRight(f)'
  <2> SUFFICES ASSUME ~Pardoned(n) PROVE FrameRight(f)'
    BY <1>11, <1>12
  <2>1. Top \in Range(stack) /\ EffectFrame(Top)
    BY <1>1, <1>5, <1>12 DEF EffectFrame
  <2>2. RightSoFar(Top)
    BY <1>1, <2>1 DEF SettledInv, FramesRight, FrameRight
  <2>3. RightSoFar(f)'
    BY <1>3, <2>2, ReadFrameRight
  <2>4. ~(f.next > Len(Sources[f.who]) + 1)
    <3>1. Len(Sources[n]) \in Nat /\ DOMAIN Sources[n] = 1..Len(Sources[n])
      BY GraphAssumption, LenProperties
    <3> QED BY <1>4, <3>1
  <2> QED BY <2>3, <2>4 DEF FrameRight
<1>13. FramesRight' /\ SeenRight'
  <2>1. FramesRight /\ SeenRight
    BY DEF SettledInv
  <2>2. ASSUME NEW g \in Range(stack'), EffectFrame(g)
        PROVE  Pardoned(g.who)' \/ FrameRight(g)' \/ (g \in Range(stack) /\ Same(g.who))
    <3>1. g.who \in Effects
      BY <2>2 DEF EffectFrame
    <3>2. CASE g = f
      BY <1>4, <1>12, <3>1, <3>2
    <3>3. CASE g # f
      BY <1>2, <1>5, <1>8, <1>11, <2>2, <3>1, <3>3 DEF Same
    <3> QED BY <3>2, <3>3
  <2>3. ASSUME NEW e \in Effects, life'[e] # "new"
        PROVE  \/ Pardoned(e)' \/ e \in Bodies(stack')
               \/ life[e] # "new" /\ e \notin Bodies(stack) /\ Same(e)
    BY <1>2, <1>6, <1>8, <1>11, <2>3 DEF Same
  <2> QED BY <2>1, <2>2, <2>3, SettledStep
<1>14. Known' /\ Gone'
  BY <1>1, <1>2, <1>4, <1>6, <1>7 DEF SettledInv, Known, Gone
<1> QED BY <1>2, <1>9, <1>10, <1>13, <1>14 DEF SettledInv

\* An effect returns: what it shows is what it has read.
LEMMA EffectReturnSettled ==
  ASSUME TypeOK, SettledInv, NEW e \in Effects, EffectReturns(e)
  PROVE  SettledInv'
<1>1. /\ HasRead(e) /\ stack' = Under
      /\ IF HasWritten(e) THEN UNCHANGED seen ELSE Show(e, Top.acc)
      /\ life' = IF Top.kind = "create" THEN [life EXCEPT ![e] = "live"] ELSE life
      /\ UNCHANGED <<graph, subs, pending, excused>>
  BY DEF EffectReturns, Pop
<1>2. /\ stack \in Seq(Frames) /\ stack # <<>> /\ IsBody(Top) /\ Top.who = e
      /\ Top.next \in Nat \ {0} /\ Top.acc \in BOOLEAN /\ Top.next > Len(Sources[e])
      /\ e \in Bodies(stack) /\ EffectFrame(Top)
  BY <1>1, RunningTop, TopAndUnder DEF HasRead, EffectFrame
<1>3. Range(stack) = Range(Under) \cup {Top} /\ Under \in Seq(Frames)
  BY <1>2, UnderFrames
<1>4. \A x : x \in Bodies(stack) <=> x \in Bodies(stack') \/ x = e
  BY <1>1, <1>2, <1>3, ByFrames
<1>5. ASSUME NEW x \in Effects PROVE x \in Awaited <=> x \in Awaited'
  <2>1. Waits(x, stack) <=> \E g \in Range(stack) : g.kind = "flush" /\ x \in g.queue
    BY ByFrames
  <2>2. Waits(x, stack') <=> \E g \in Range(stack') : g.kind = "flush" /\ x \in g.queue
    BY ByFrames
  <2>3. Top.kind # "flush"
    BY <1>2 DEF IsBody
  <2>4. Waits(x, stack) <=> Waits(x, stack')
    BY <1>1, <1>3, <2>1, <2>2, <2>3
  <2> QED BY <1>1, <2>4, AwaitedIs, AwaitedIsNext
<1>6. \A x : Kept(x)
  BY <1>1 DEF Kept, Holds, graph
<1>7. \A x \in Effects : Pardoned(x)' <=> Pardoned(x)
  BY <1>1, <1>5 DEF Pardoned
<1>8. Nested(excused, Under) /\ \A g \in Range(Under) : Fits(excused, g, Top)
  BY <1>2, NestedUnder DEF SettledInv
<1>9. \A x \in Effects : x # e => seen'[x] = seen[x]
  BY <1>1 DEF Show, TypeOK
<1>10. /\ \A x \in Effects : life'[x] = "new" => life[x] = "new" /\ x # e
       /\ \A x \in Effects : x # e => life'[x] = life[x]
       /\ \A x \in Effects : life'[x] = "disposed" => life[x] = "disposed"
       /\ life[e] # "new"
  BY <1>1, <1>2 DEF SettledInv, Known, TypeOK
<1>11. ASSUME ~Pardoned(e) PROVE Right(e, seen[e])'
  <2>1. FrameRight(Top)
    BY <1>2, <1>3, <1>11 DEF SettledInv, FramesRight
  <2>2. seen'[e] = Top.acc
    <3>1. CASE HasWritten(e)
      BY <1>1, <1>2, <2>1, <3>1 DEF HasWritten, FrameRight
    <3>2. CASE ~HasWritten(e)
      <4>1. e \notin excused
        BY <1>11 DEF Pardoned
      <4> QED BY <1>1, <1>2, <3>2, <4>1 DEF Show, TypeOK
    <3> QED BY <3>1, <3>2
  <2>3. Right(e, Top.acc)
    <3>1. \A i \in DOMAIN Sources[e] : i < Top.next
      BY <1>2, GraphAssumption, LenProperties DEF Subscribers
    <3>2. RightSoFar(Top)
      BY <2>1 DEF FrameRight
    <3> QED BY <1>2, <3>1, <3>2 DEF RightSoFar, Right
  <2> QED BY <1>6, <2>2, <2>3 DEF Kept, Right, Holds, Shown
<1>12. FramesRight' /\ SeenRight'
  <2>1. FramesRight /\ SeenRight
    BY DEF SettledInv
  <2>2. ASSUME NEW g \in Range(stack'), EffectFrame(g)
        PROVE  Pardoned(g.who)' \/ (g \in Range(stack) /\ Same(g.who))
    <3>1. g.who \in Effects /\ g \in Range(Under)
      BY <1>1, <2>2 DEF EffectFrame
    <3>2. CASE g.who = e
      <4>1. e \in excused
        BY <1>2, <1>8, <2>2, <3>1, <3>2 DEF Fits
      <4> QED BY <1>1, <3>2, <4>1 DEF Pardoned
    <3>3. CASE g.who # e
      BY <1>3, <1>6, <1>7, <1>9, <3>1, <3>3 DEF Same
    <3> QED BY <3>2, <3>3
  <2>3. ASSUME NEW x \in Effects, life'[x] # "new"
        PROVE  \/ Pardoned(x)' \/ x \in Bodies(stack') \/ Right(x, seen[x])'
               \/ life[x] # "new" /\ x \notin Bodies(stack) /\ Same(x)
    <3>1. CASE x = e
      BY <1>7, <1>11, <3>1
    <3>2. CASE x # e
      BY <1>4, <1>6, <1>7, <1>9, <1>10, <2>3, <3>2 DEF Same
    <3> QED BY <3>1, <3>2
  <2> QED BY <2>1, <2>2, <2>3, SettledStep
<1>13. Known' /\ Gone'
  BY <1>1, <1>4, <1>5, <1>10 DEF SettledInv, Known, Gone
<1>14. pending' # {} => HasBatch(stack')
  BY <1>1, <1>2, <1>3 DEF SettledInv, HasBatch, IsBody
<1> QED BY <1>1, <1>8, <1>12, <1>13, <1>14 DEF SettledInv

\* A flush runs an effect: if that one runs already, it is excused.
LEMMA FlushRunsSettled ==
  ASSUME TypeOK, SettledInv, NEW e \in Effects, FlushNext(e), StillLive(e)
  PROVE  SettledInv'
<1> DEFINE f == FlushFrame(Rest(Top.queue, e))
           g == RunFrame(e)
<1>1. /\ stack \in Seq(Frames) /\ stack # <<>> /\ Top.kind = "flush" /\ e \in Top.queue
      /\ subs' = Without(e) /\ stack' = Under \o <<f, g>>
      /\ excused' = excused \cup (IF IsRunning(e) THEN {e} ELSE {})
      /\ seen' = [x \in Effects |-> seen[x] /\ x \notin (IF IsRunning(e) THEN {e} ELSE {})]
      /\ seen \in [Effects -> BOOLEAN]
      /\ UNCHANGED <<graph, life, pending>>
  BY DEF TypeOK, FlushNext, IsTop, Excuse
<1>2. Top.queue \in SUBSET Effects /\ Range(stack) = Range(Under) \cup {Top} /\ Under \in Seq(Frames)
  BY <1>1, UnderFrames, FrameKinds
<1>3. f \in Frames /\ f.kind = "flush" /\ f.queue = Top.queue \ {e} /\ ~IsBody(f)
  <2>1. Rest(Top.queue, e) \in SUBSET Effects
    BY <1>2 DEF Rest
  <2> QED BY <2>1, FramesOK DEF FlushFrame, Rest
<1>4. g \in Frames /\ EffectFrame(g) /\ g.who = e /\ g.kind = "run" /\ FrameRight(g)'
  BY FreshFrame DEF RunFrame
<1> HIDE DEF f, g
<1>5. /\ stack' = Append(Append(Under, f), g) /\ Append(Under, f) \in Seq(Frames)
      /\ Range(Append(Under, f)) = Range(Under) \cup {f}
      /\ Range(stack') = Range(Under) \cup {f, g}
  <2>1. Append(Under, f) \in Seq(Frames) /\ Range(Append(Under, f)) = Range(Under) \cup {f}
    BY <1>2, <1>3, PushFrames
  <2>2. Under \o <<f, g>> = Append(Append(Under, f), g)
    BY <1>2, <1>3, <1>4
  <2>3. Range(Append(Append(Under, f), g)) = Range(Append(Under, f)) \cup {g}
    BY <1>4, <2>1, PushFrames
  <2> QED BY <1>1, <2>1, <2>2, <2>3
<1>6. ~IsBody(Top)
  BY <1>1 DEF IsBody
<1>7. \A x : x \in Bodies(stack') <=> x \in Bodies(stack) \/ x = e
  BY <1>2, <1>3, <1>4, <1>5, <1>6, ByFrames DEF EffectFrame
<1>8. ASSUME NEW x \in Effects
      PROVE  (x \in Awaited' => x \in Awaited) /\ (x # e /\ x \in Awaited => x \in Awaited')
  <2>1. Waits(x, stack) <=> \E h \in Range(stack) : h.kind = "flush" /\ x \in h.queue
    BY ByFrames
  <2>2. Waits(x, stack') <=> \E h \in Range(stack') : h.kind = "flush" /\ x \in h.queue
    BY ByFrames
  <2>3. Waits(x, stack') => Waits(x, stack)
    BY <1>1, <1>2, <1>3, <1>4, <1>5, <2>1, <2>2
  <2>4. x # e /\ Waits(x, stack) => Waits(x, stack')
    BY <1>2, <1>3, <1>5, <2>1, <2>2
  <2> QED BY <1>1, <2>3, <2>4, AwaitedIs, AwaitedIsNext
<1>9. \A x \in Effects : x # e =>
        (Pardoned(x) <=> Pardoned(x)') /\ Kept(x) /\ seen'[x] = seen[x]
  <2> SUFFICES ASSUME NEW x \in Effects, x # e
               PROVE  (Pardoned(x) <=> Pardoned(x)') /\ Kept(x) /\ seen'[x] = seen[x]
    OBVIOUS
  <2>1. x \in excused' <=> x \in excused
    BY <1>1
  <2>2. Kept(x)
    BY <1>1 DEF Kept, Holds, Without, graph
  <2>3. seen'[x] = seen[x]
    BY <1>1
  <2> QED BY <1>8, <2>1, <2>2, <2>3 DEF Pardoned
<1>10. e \in Bodies(stack) => e \in excused'
  BY <1>1, RunningIsBody
<1>11. FramesRight' /\ SeenRight'
  <2>1. FramesRight /\ SeenRight
    BY DEF SettledInv
  <2>2. ASSUME NEW h \in Range(stack'), EffectFrame(h)
        PROVE  Pardoned(h.who)' \/ FrameRight(h)' \/ (h \in Range(stack) /\ Same(h.who))
    <3>1. CASE h = g
      BY <1>4, <3>1
    <3>2. CASE h # g
      <4>1. h \in Range(stack) /\ h.who \in Effects
        BY <1>2, <1>3, <1>5, <2>2, <3>2 DEF EffectFrame
      <4>2. CASE h.who = e
        <5>1. e \in excused'
          BY <1>10, <2>2, <4>1, <4>2, ByFrames DEF EffectFrame
        <5> QED BY <4>2, <5>1 DEF Pardoned
      <4>3. CASE h.who # e
        BY <1>9, <4>1, <4>3 DEF Same
      <4> QED BY <4>2, <4>3
    <3> QED BY <3>1, <3>2
  <2>3. ASSUME NEW x \in Effects, life'[x] # "new"
        PROVE  \/ Pardoned(x)' \/ x \in Bodies(stack')
               \/ life[x] # "new" /\ x \notin Bodies(stack) /\ Same(x)
    BY <1>1, <1>7, <1>9, <2>3 DEF Same
  <2> QED BY <2>1, <2>2, <2>3, SettledStep
<1>12. Known' /\ Gone'
  <2>1. e \in Awaited
    BY <1>1, <1>2, ByFrames, AwaitedIs
  <2> QED BY <1>1, <1>7, <1>8, <2>1 DEF SettledInv, Known, Gone, Without
<1>13. Nested(excused', stack')
  <2>1. Nested(excused', Under)
    BY <1>1, NestedUnder, NestedMore DEF SettledInv
  <2>2. \A h \in Range(Under) : Fits(excused', h, f)
    BY <1>3 DEF Fits, EffectFrame
  <2>3. Nested(excused', Append(Under, f))
    BY <1>2, <1>3, <2>1, <2>2, NestedPush
  <2>4. \A h \in Range(Append(Under, f)) : Fits(excused', h, g)
    <3> SUFFICES ASSUME NEW h \in Range(Under) \cup {f}, EffectFrame(h), h.who = e
                 PROVE  e \in excused'
      BY <1>4, <1>5 DEF Fits
    <3>1. h \in Range(stack)
      BY <1>2, <1>3 DEF EffectFrame
    <3> QED BY <1>10, <3>1, ByFrames DEF EffectFrame
  <2> QED BY <1>4, <1>5, <2>3, <2>4, NestedPush
<1>14. pending' # {} => HasBatch(stack')
  BY <1>1, <1>2, <1>5 DEF SettledInv, HasBatch
<1> QED BY <1>11, <1>12, <1>13, <1>14 DEF SettledInv

\* A flush passes over an effect that is disposed of, and excused since.
LEMMA FlushSkipsSettled ==
  ASSUME TypeOK, SettledInv, NEW e \in Effects, FlushNext(e), ~StillLive(e)
  PROVE  SettledInv'
<1> DEFINE f == FlushFrame(Rest(Top.queue, e))
<1>1. /\ stack \in Seq(Frames) /\ stack # <<>> /\ Top.kind = "flush" /\ e \in Top.queue
      /\ stack' = Append(Under, f) /\ excused \subseteq excused'
      /\ excused' = excused \cup (IF IsRunning(e) THEN {e} ELSE {})
      /\ seen' = [x \in Effects |-> seen[x] /\ x \notin (IF IsRunning(e) THEN {e} ELSE {})]
      /\ seen \in [Effects -> BOOLEAN]
      /\ UNCHANGED <<graph, subs, life, pending>>
  BY DEF TypeOK, FlushNext, IsTop, Excuse, Become
<1>2. e \in excused
  BY DEF StillLive, SettledInv, Gone
<1>3. Top.queue \in SUBSET Effects /\ Range(stack) = Range(Under) \cup {Top} /\ Under \in Seq(Frames)
  BY <1>1, UnderFrames, FrameKinds
<1>4. f \in Frames /\ f.kind = "flush" /\ f.queue = Top.queue \ {e} /\ ~IsBody(f)
  <2>1. Rest(Top.queue, e) \in SUBSET Effects
    BY <1>3 DEF Rest
  <2> QED BY <2>1, FramesOK DEF FlushFrame, Rest
<1> HIDE DEF f
<1>5. Range(stack') = Range(Under) \cup {f} /\ ~IsBody(Top)
  BY <1>1, <1>3, <1>4, PushFrames DEF IsBody
<1>6. \A x : x \in Bodies(stack') <=> x \in Bodies(stack)
  BY <1>3, <1>4, <1>5, ByFrames
<1>7. ASSUME NEW x \in Effects
      PROVE  (x \in Awaited' => x \in Awaited) /\ (x # e /\ x \in Awaited => x \in Awaited')
  <2>1. Waits(x, stack) <=> \E h \in Range(stack) : h.kind = "flush" /\ x \in h.queue
    BY ByFrames
  <2>2. Waits(x, stack') <=> \E h \in Range(stack') : h.kind = "flush" /\ x \in h.queue
    BY ByFrames
  <2>3. Waits(x, stack') => Waits(x, stack)
    BY <1>1, <1>3, <1>4, <1>5, <2>1, <2>2
  <2>4. x # e /\ Waits(x, stack) => Waits(x, stack')
    BY <1>3, <1>4, <1>5, <2>1, <2>2
  <2> QED BY <1>1, <2>3, <2>4, AwaitedIs, AwaitedIsNext
<1>8. \A x \in Effects : Pardoned(x)' \/ Same(x) \/ (Pardoned(x) /\ x = e)
  <2> SUFFICES ASSUME NEW x \in Effects, ~Pardoned(x)', x # e PROVE Same(x)
    BY <1>2 DEF Pardoned
  <2>1. ~Pardoned(x)
    BY <1>1, <1>7 DEF Pardoned
  <2>2. Kept(x)
    BY <1>1 DEF Kept, Holds, graph
  <2>3. seen'[x] = seen[x]
    BY <1>1
  <2> QED BY <2>1, <2>2, <2>3 DEF Same
<1>9. Pardoned(e)'
  BY <1>1, <1>2 DEF Pardoned
<1>10. FramesRight' /\ SeenRight'
  <2>1. FramesRight /\ SeenRight
    BY DEF SettledInv
  <2>2. ASSUME NEW h \in Range(stack'), EffectFrame(h)
        PROVE  Pardoned(h.who)' \/ (h \in Range(stack) /\ Same(h.who))
    <3>1. h \in Range(stack) /\ h.who \in Effects
      BY <1>3, <1>4, <1>5, <2>2 DEF EffectFrame
    <3> QED BY <1>8, <1>9, <3>1
  <2>3. ASSUME NEW x \in Effects, life'[x] # "new"
        PROVE  \/ Pardoned(x)' \/ x \in Bodies(stack')
               \/ life[x] # "new" /\ x \notin Bodies(stack) /\ Same(x)
    BY <1>1, <1>6, <1>8, <1>9, <2>3
  <2> QED BY <2>1, <2>2, <2>3, SettledStep
<1>11. Known' /\ Gone'
  BY <1>1, <1>6, <1>7 DEF SettledInv, Known, Gone
<1>12. Nested(excused', stack')
  <2>1. Nested(excused', Under)
    BY <1>1, NestedUnder, NestedMore DEF SettledInv
  <2>2. \A h \in Range(Under) : Fits(excused', h, f)
    BY <1>4 DEF Fits, EffectFrame
  <2> QED BY <1>1, <1>3, <1>4, <2>1, <2>2, NestedPush
<1>13. pending' # {} => HasBatch(stack')
  BY <1>1, <1>3, <1>5 DEF SettledInv, HasBatch
<1> QED BY <1>10, <1>11, <1>12, <1>13 DEF SettledInv

\* A body throws: whatever has been created is excused, and no effect runs on.
LEMMA ThrowSettled ==
  ASSUME TypeOK, SettledInv, NEW k \in 0..Len(stack), Throw(k)
  PROVE  SettledInv'
<1>1. /\ stack \in Seq(Frames) /\ Len(stack) \in Nat /\ DOMAIN stack = 1..Len(stack)
      /\ pending \subseteq Effects
  BY LenProperties DEF TypeOK
<1>2. /\ \A i \in 1..k : stack[i].kind = "batch"
      /\ excused' = excused \cup {x \in Effects : life[x] # "new"}
      /\ UNCHANGED <<life, subs>>
      /\ IF k = 0 /\ InBatch /\ pending # {}
           THEN stack' = <<FlushFrame(pending)>> /\ pending' = {}
           ELSE stack' = SubSeq(stack, 1, k) /\ UNCHANGED pending
  BY DEF Throw, Excuse
<1>3. /\ \A f \in Range(stack') : ~IsBody(f) /\ (f.kind = "flush" => f.queue = pending)
      /\ Nested(excused', stack') /\ pending' \subseteq pending
      /\ pending' # {} => HasBatch(stack')
  <2>1. CASE k = 0 /\ InBatch /\ pending # {}
    <3>1. stack' = <<FlushFrame(pending)>> /\ pending' = {}
      BY <1>2, <2>1
    <3>2. FlushFrame(pending).queue = pending /\ ~IsBody(FlushFrame(pending))
      BY DEF FlushFrame, IsBody
    <3>3. \A f \in Range(stack') : f = FlushFrame(pending)
      BY <3>1 DEF Range
    <3>4. Nested(excused', stack')
      BY <3>1 DEF Nested
    <3> QED BY <3>1, <3>2, <3>3, <3>4
  <2>2. CASE ~(k = 0 /\ InBatch /\ pending # {})
    <3>1. stack' = SubSeq(stack, 1, k) /\ pending' = pending
      BY <1>2, <2>2
    <3>2. DOMAIN stack' = 1..k /\ \A i \in 1..k : stack'[i] = stack[i] /\ stack'[i].kind = "batch"
      BY <1>1, <1>2, <3>1
    <3>3. \A f \in Range(stack') : f.kind = "batch"
      BY <3>2 DEF Range
    <3>4. \A f \in Range(stack') : ~IsBody(f) /\ f.kind # "flush"
      BY <3>3 DEF IsBody
    <3>5. Nested(excused', stack')
      BY <3>2 DEF Nested, Fits, EffectFrame, IsBody
    <3>6. ASSUME pending # {} PROVE HasBatch(stack')
      <4>1. InBatch
        BY <3>6, InBatchIs DEF SettledInv
      <4>2. 1 \in DOMAIN stack'
        BY <2>2, <3>2, <3>6, <4>1
      <4> QED BY <3>3, <4>2 DEF HasBatch, Range
    <3> QED BY <3>1, <3>4, <3>5, <3>6
  <2> QED BY <2>1, <2>2
<1>4. FramesRight'
  BY <1>3 DEF FramesRight, EffectFrame
<1>5. SeenRight'
  BY <1>2 DEF SeenRight, Pardoned
<1>6. \A x : x \notin Bodies(stack') /\ (x \in Awaited' => x \in Awaited)
  <2> SUFFICES ASSUME NEW x PROVE x \notin Bodies(stack') /\ (x \in Awaited' => x \in Awaited)
    OBVIOUS
  <2>1. x \notin Bodies(stack')
    BY <1>3, ByFrames
  <2>2. Waits(x, stack') => x \in pending
    <3>1. Waits(x, stack') <=> \E f \in Range(stack') : f.kind = "flush" /\ x \in f.queue
      BY ByFrames
    <3> QED BY <1>3, <3>1
  <2> QED BY <1>3, <2>1, <2>2, AwaitedIs, AwaitedIsNext
<1>7. Known' /\ Gone'
  BY <1>2, <1>6 DEF SettledInv, Known, Gone
<1> QED BY <1>3, <1>4, <1>5, <1>7 DEF SettledInv

\* A notification reaches only what has subscribed.
LEMMA ReachedReads ==
  ASSUME TypeOK, NEW s, NEW n \in Reached(s)
  PROVE  \E p \in subs : p[2] = n
<1> DEFINE N == {m \in Subscribers : \E p \in subs : p[2] = m}
<1>1. \A p \in subs : p[2] \in N
  BY DEF TypeOK
<1>2. Closed(N, s) /\ N \in SUBSET Subscribers
  BY <1>1 DEF Closed
<1>3. n \in N
  BY <1>2 DEF Reached
<1> QED BY <1>3

\* A notification: what it reaches is to run, and the rest holds what it held.
LEMMA NotifySettled ==
  ASSUME TypeOK, SettledInv, NEW s \in Signals, NEW frames \in Seq(Frames), Notify(s, frames),
         UNCHANGED <<cached, subs, life, excused>>, \A x \in Signals \ {s} : value'[x] = value[x],
         Nested(excused, frames), \A e : e \in Bodies(frames) <=> e \in Bodies(stack),
         \A e \in Effects : Waits(e, frames) <=> Waits(e, stack),
         HasBatch(stack) => HasBatch(frames),
         \A e \in Effects : e \notin Bodies(stack) => seen'[e] = seen[e],
         \A g \in Range(frames) : EffectFrame(g) =>
           \/ Pardoned(g.who)
           \/ RightSoFar(g) /\ (g.next > Len(Sources[g.who]) + 1 => seen'[g.who] = g.acc)
  PROVE  SettledInv'
<1> DEFINE f == FlushFrame(pending \cup Queued(s))
<1>1. f \in Frames /\ f.kind = "flush" /\ f.queue = pending \cup Queued(s) /\ ~IsBody(f)
  <2>1. pending \cup Queued(s) \in SUBSET Effects
    BY DEF TypeOK, Queued
  <2> QED BY <2>1, FramesOK DEF FlushFrame
<1>2. \/ stack' = frames /\ pending' = pending \cup Queued(s) /\ (InBatch \/ Queued(s) = {})
      \/ stack' = Append(frames, f) /\ pending' = {}
  BY DEF Notify
<1> HIDE DEF f
<1>3. Range(stack') = Range(frames) \/ (stack' = Append(frames, f) /\ Range(stack') = Range(frames) \cup {f})
  BY <1>1, <1>2, PushFrames
<1>4. \A e : e \in Bodies(stack') <=> e \in Bodies(stack)
  BY <1>1, <1>3, ByFrames
<1>5. ASSUME NEW e \in Effects PROVE e \in Awaited' <=> e \in Awaited \/ e \in Reached(s)
  <2>1. e \in Queued(s) <=> e \in Reached(s)
    BY DEF Queued
  <2>2. Waits(e, frames) <=> \E g \in Range(frames) : g.kind = "flush" /\ e \in g.queue
    BY ByFrames
  <2>3. Waits(e, stack') <=> \E g \in Range(stack') : g.kind = "flush" /\ e \in g.queue
    BY ByFrames
  <2>4. CASE stack' = frames /\ pending' = pending \cup Queued(s)
    BY <2>1, <2>4, AwaitedIs, AwaitedIsNext
  <2>5. CASE stack' = Append(frames, f) /\ pending' = {}
    <3>1. Range(stack') = Range(frames) \cup {f}
      BY <1>1, <2>5, PushFrames
    <3>2. Waits(e, stack') <=> Waits(e, frames) \/ e \in pending \cup Queued(s)
      BY <1>1, <2>2, <2>3, <3>1
    <3> QED BY <2>1, <2>5, <3>2, AwaitedIs, AwaitedIsNext
  <2> QED BY <1>2, <2>4, <2>5
<1>6. \A e \in Effects : e \notin Reached(s) => Kept(e)
  BY NotifyKeeps DEF Subscribers
<1>7. \A e \in Effects : Pardoned(e)' <=> Pardoned(e) \/ e \in Reached(s)
  BY <1>5 DEF Pardoned
<1>8. FramesRight' /\ SeenRight'
  <2>1. FramesRight /\ SeenRight
    BY DEF SettledInv
  <2>2. ASSUME NEW g \in Range(stack'), EffectFrame(g)
        PROVE  Pardoned(g.who)' \/ FrameRight(g)'
    <3>1. g.who \in Effects /\ g \in Range(frames)
      BY <1>1, <1>3, <2>2 DEF EffectFrame
    <3> SUFFICES ASSUME ~Pardoned(g.who)' PROVE FrameRight(g)'
      OBVIOUS
    <3>2. ~Pardoned(g.who) /\ Kept(g.who)
      BY <1>6, <1>7, <3>1
    <3>3. RightSoFar(g) /\ (g.next > Len(Sources[g.who]) + 1 => seen'[g.who] = g.acc)
      BY <2>2, <3>1, <3>2
    <3>4. RightSoFar(g)'
      BY <3>2, <3>3 DEF Kept, RightSoFar, Holds, Shown
    <3> QED BY <3>3, <3>4 DEF FrameRight
  <2>3. ASSUME NEW e \in Effects, life'[e] # "new"
        PROVE  \/ Pardoned(e)' \/ e \in Bodies(stack')
               \/ life[e] # "new" /\ e \notin Bodies(stack) /\ Same(e)
    BY <1>4, <1>6, <1>7, <2>3 DEF Same
  <2> QED BY <2>1, <2>2, <2>3, SettledStep
<1>9. Known' /\ Gone'
  <2>1. ASSUME NEW e \in Effects, life[e] = "new" PROVE e \notin Reached(s)
    BY <2>1, ReachedReads DEF SettledInv, Known
  <2> QED BY <1>4, <1>5, <2>1 DEF SettledInv, Known, Gone
<1>10. Nested(excused', stack')
  <2>1. \A g \in Range(frames) : Fits(excused, g, f)
    BY <1>1 DEF Fits, EffectFrame
  <2>2. Nested(excused, Append(frames, f))
    BY <1>1, <2>1, NestedPush
  <2> QED BY <1>2, <2>2, Zenon
<1>11. pending' # {} => HasBatch(stack')
  BY <1>2, InBatchIs DEF SettledInv
<1> QED BY <1>8, <1>9, <1>10, <1>11 DEF SettledInv

\* The program writes, or changes a value in place.
LEMMA WriteSettled ==
  ASSUME TypeOK, SettledInv, NEW s \in Signals, Write(s) \/ Touch(s)
  PROVE  SettledInv'
<1>1. /\ stack \in Seq(Frames) /\ Notify(s, stack) /\ UNCHANGED <<cached, subs, life, excused, seen>>
      /\ \A x \in Signals \ {s} : value'[x] = value[x]
  BY DEF Write, Touch, TypeOK
<1>2. \A g \in Range(stack) : EffectFrame(g) =>
        \/ Pardoned(g.who)
        \/ RightSoFar(g) /\ (g.next > Len(Sources[g.who]) + 1 => seen'[g.who] = g.acc)
  BY <1>1 DEF SettledInv, FramesRight, FrameRight
<1> QED BY <1>1, <1>2, NotifySettled DEF SettledInv

\* An effect shows what it has read, and writes.
LEMMA EffectWriteSettled ==
  ASSUME TypeOK, SettledInv, NEW e \in Effects, EffectWrites(e)
  PROVE  SettledInv'
<1>1. /\ HasRead(e) /\ Show(e, Top.acc)
      /\ UNCHANGED <<cached, subs, life, excused>>
      /\ Target[e] \in Signals /\ value' = [value EXCEPT ![Target[e]] = Top.acc]
  BY GraphAssumption DEF EffectWrites, Copies
<1>2. /\ stack \in Seq(Frames) /\ stack # <<>> /\ IsBody(Top) /\ Top.who = e /\ Top \in BodyFrames
      /\ Top.next \in Nat \ {0} /\ Top.acc \in BOOLEAN /\ Top.next > Len(Sources[e])
      /\ e \in Bodies(stack) /\ EffectFrame(Top)
  BY <1>1, RunningTop, TopAndUnder DEF HasRead, EffectFrame
<1> DEFINE f == [Top EXCEPT !.next = Top.next + 1]
           frames == Append(Under, f)
<1>3. Notify(Target[e], frames)
  BY DEF EffectWrites
<1>4. /\ f \in Frames /\ f.kind = Top.kind /\ f.who = e /\ f.acc = Top.acc
      /\ f.next = Top.next + 1 /\ EffectFrame(f)
  <2>1. /\ f \in BodyFrames /\ f.kind = Top.kind /\ f.who = Top.who /\ f.acc = Top.acc
        /\ f.next = Top.next + 1
    BY <1>2 DEF BodyFrames
  <2> QED BY <1>2, <2>1, FramesOK DEF EffectFrame, IsBody
<1> HIDE DEF f
<1>5. /\ Range(stack) = Range(Under) \cup {Top} /\ Range(frames) = Range(Under) \cup {f}
      /\ Under \in Seq(Frames) /\ frames \in Seq(Frames)
  BY <1>2, <1>4, UnderFrames, PushFrames
<1>6. /\ \A x \in Effects : x # e => seen'[x] = seen[x]
      /\ e \notin excused => seen'[e] = Top.acc
  BY <1>1, <1>2 DEF Show, TypeOK
<1>7. Nested(excused, Under) /\ \A g \in Range(Under) : Fits(excused, g, Top)
  BY <1>2, NestedUnder DEF SettledInv
<1>8. Nested(excused, frames)
  <2>1. \A g \in Range(Under) : Fits(excused, g, f)
    BY <1>2, <1>4, <1>7 DEF Fits
  <2> QED BY <1>4, <1>5, <1>7, <2>1, NestedPush
<1>9. Top.kind \notin {"flush", "batch"}
  BY <1>2 DEF IsBody
<1> HIDE DEF frames
<1>10. /\ \A x : x \in Bodies(frames) <=> x \in Bodies(stack)
       /\ HasBatch(stack) => HasBatch(frames)
  BY <1>2, <1>4, <1>5, <1>9, ByFrames DEF EffectFrame, HasBatch
<1>11. ASSUME NEW x \in Effects PROVE Waits(x, frames) <=> Waits(x, stack)
  <2>1. Waits(x, stack) <=> \E g \in Range(stack) : g.kind = "flush" /\ x \in g.queue
    BY ByFrames
  <2>2. Waits(x, frames) <=> \E g \in Range(frames) : g.kind = "flush" /\ x \in g.queue
    BY ByFrames
  <2> QED BY <1>4, <1>5, <1>9, <2>1, <2>2
<1>12. ASSUME NEW g \in Range(frames), EffectFrame(g)
       PROVE  \/ Pardoned(g.who)
              \/ RightSoFar(g) /\ (g.next > Len(Sources[g.who]) + 1 => seen'[g.who] = g.acc)
  <2> SUFFICES ASSUME ~Pardoned(g.who)
               PROVE  RightSoFar(g) /\ (g.next > Len(Sources[g.who]) + 1 => seen'[g.who] = g.acc)
    OBVIOUS
  <2>1. CASE g = f
    <3>1. RightSoFar(Top)
      BY <1>2, <1>4, <1>5, <2>1 DEF SettledInv, FramesRight, FrameRight
    <3>2. Len(Sources[e]) \in Nat /\ DOMAIN Sources[e] = 1..Len(Sources[e])
      BY GraphAssumption, LenProperties DEF Subscribers
    <3>3. RightSoFar(f)
      BY <1>2, <1>4, <3>1, <3>2 DEF RightSoFar
    <3>4. seen'[e] = f.acc
      BY <1>4, <1>6, <2>1 DEF Pardoned
    <3> QED BY <1>4, <2>1, <3>3, <3>4
  <2>2. CASE g # f
    <3>1. g \in Range(Under) /\ g \in Range(stack)
      BY <1>5, <2>2
    <3>2. g.who # e
      BY <1>2, <1>7, <1>12, <3>1 DEF Fits, Pardoned
    <3>3. FrameRight(g)
      BY <1>12, <3>1 DEF SettledInv, FramesRight
    <3>4. g.who \in Effects
      BY <1>12 DEF EffectFrame
    <3> QED BY <1>6, <3>2, <3>3, <3>4 DEF FrameRight
  <2> QED BY <2>1, <2>2
<1>13. \A x \in Signals \ {Target[e]} : value'[x] = value[x]
  BY <1>1 DEF TypeOK
<1>14. \A x \in Effects : x \notin Bodies(stack) => seen'[x] = seen[x]
  BY <1>2, <1>6
<1> QED BY <1>1, <1>3, <1>5, <1>8, <1>10, <1>11, <1>12, <1>13, <1>14, NotifySettled

\* Every step keeps what effects show settled.
LEMMA NextSettled ==
  ASSUME TypeOK, ValueInv, SettledInv, [Next]_vars
  PROVE  SettledInv'
<1>1. CASE UNCHANGED vars
  BY <1>1 DEF vars, graph, SettledInv, FramesRight, SeenRight, Known, Gone, HasBatch, Pardoned, Awaited,
              FrameRight, RightSoFar, Right, Holds, Shown
<1>2. CASE Next
  BY <1>2, WriteSettled, BatchBeginsSettled, BatchEndsSettled, ComputeSettled, ComputeReturnSettled,
     CreateSettled, DisposeSettled, ReadSettled, EffectReturnSettled, EffectWriteSettled,
     FlushRunsSettled, FlushSkipsSettled, FlushAgainSettled, ThrowSettled
  DEF Next, Operation, Runtime
<1> QED BY <1>1, <1>2

\* What a body holds is what it would compute now.
LEMMA HeldIsTrue ==
  ASSUME TypeOK, CleanIsFresh, NEW n \in Subscribers, NEW i \in DOMAIN Sources[n],
         Holds(n, Sources[n][i]), ~Tainted[Sources[n][i]]
  PROVE  Shown(Sources[n][i]) = Truth[Sources[n][i]]
<1>1. Sources[n][i] \in Readable
  BY SourcesReadable
<1>2. CASE Sources[n][i] \in Signals
  BY <1>1, <1>2, TruthIs DEF Shown
<1>3. CASE Sources[n][i] \notin Signals
  BY <1>1, <1>3 DEF Readable, Holds, CleanIsFresh, Shown
<1> QED BY <1>2, <1>3

\* With nothing on the stack nothing waits, so every effect shows what is right.
LEMMA SettledIsSettled ==
  ASSUME TypeOK, CleanIsFresh, SettledInv
  PROVE  EffectsSettled
<1> SUFFICES ASSUME stack = <<>>, NEW e \in Effects \ excused, life[e] = "live",
                    \A i \in DOMAIN Sources[e] : ~Tainted[Sources[e][i]]
             PROVE  seen[e] = (\A i \in DOMAIN Sources[e] : Truth[Sources[e][i]])
  BY DEF EffectsSettled
<1>1. Range(stack) = {}
  BY DEF Range
<1>2. pending = {}
  BY <1>1 DEF SettledInv, HasBatch
<1>3. e \notin Awaited /\ e \notin Bodies(stack)
  BY <1>1, <1>2, ByFrames, AwaitedIs
<1>4. Right(e, seen[e]) /\ seen[e] \in BOOLEAN
  BY <1>3 DEF SettledInv, SeenRight, Pardoned, TypeOK
<1>5. \A i \in DOMAIN Sources[e] : Holds(e, Sources[e][i]) => Shown(Sources[e][i]) = Truth[Sources[e][i]]
  BY HeldIsTrue DEF Subscribers
<1>6. CASE seen[e]
  BY <1>4, <1>5, <1>6 DEF Right
<1>7. CASE ~seen[e]
  BY <1>4, <1>5, <1>7 DEF Right
<1> QED BY <1>4, <1>6, <1>7

\* When control is back at the program outside any batch, every live effect shows what
\* it would read now ("pendingEffects" of scheduler.ts is empty then): no update is lost,
\* whatever was written, created, disposed of and thrown, but for the excused.
THEOREM EffectsAreSettled == Spec => []EffectsSettled
<1>1. Init => ValueInv /\ SettledInv
  <2> SUFFICES ASSUME Init PROVE ValueInv /\ SettledInv
    OBVIOUS
  <2>1. /\ stack = <<>> /\ pending = {} /\ subs = {} /\ \A c \in Computeds : state[c] = "dirty"
        /\ \A e \in Effects : life[e] = "new"
    BY DEF Init
  <2>2. DOMAIN stack = {} /\ Range(stack) = {}
    BY <2>1 DEF Range
  <2>3. ValueInv
    BY <2>1, <2>2 DEF ValueInv, ComputedsOnTop, Descends, RunningComputes, RunningRight, CleanRight
  <2>4. \A e : e \notin Bodies(stack) /\ e \notin Awaited
    BY <2>1, <2>2, ByFrames, AwaitedIs
  <2> QED BY <2>1, <2>2, <2>3, <2>4
          DEF SettledInv, FramesRight, SeenRight, Known, Gone, Nested
<1>2. TypeOK /\ ValueInv /\ SettledInv /\ [Next]_vars => ValueInv' /\ SettledInv'
  BY NextRight, NextSettled
<1>3. TypeOK /\ ValueInv /\ SettledInv => EffectsSettled
  BY RightIsFresh, SettledIsSettled DEF ValueInv
<1> QED BY <1>1, <1>2, <1>3, TypeCorrect, PTL DEF Spec
================================================================================
