--------------------------- MODULE DurableRunProofs ---------------------------
(***************************************************************************)
(* Proofs about DurableRun, for all values of its constants.               *)
(***************************************************************************)
EXTENDS DurableRunInv, SequenceTheorems, FiniteSetTheorems, NaturalsInduction,
        WellFoundedInduction, TLAPS

--------------------------------------------------------------------------------
(* Rows and batches *)

\* The constructors build rows.
LEMMA RowConstructors ==
  /\ \A t \in Turns : UserRow(t) \in Rows /\ TextRow(t) \in Rows
  /\ \A s \in Seq(Calls) : CallsRow(s) \in Rows
  /\ \A c \in Calls, k \in Kinds : ToolRow(c, k) \in ToolRows
  /\ ToolRows \subseteq Rows
BY DEF UserRow, TextRow, CallsRow, ToolRow, Rows, ToolRows, Kinds

\* What a committed batch adds to the history are calls.
LEMMA CommitType ==
  ASSUME TypeOK, NEW batch \in Seq(Rows), Commit(batch)
  PROVE  /\ rows' \in Seq(Rows)
         /\ owner' \in Users \cup {NoUser, Absent}
         /\ requested' \subseteq Calls
         /\ answered' \subseteq Calls
<1>1. \A i \in DOMAIN batch : batch[i] \in Rows
  BY SMT
<1>2. \A i \in DOMAIN batch : batch[i].role = "calls" => Elems(batch[i].calls) \subseteq Calls
  <2> SUFFICES ASSUME NEW i \in DOMAIN batch, batch[i].role = "calls"
               PROVE  Elems(batch[i].calls) \subseteq Calls
    OBVIOUS
  <2>1. batch[i].calls \in Seq(Calls)
    BY <1>1 DEF Rows, ToolRows
  <2> QED BY <2>1 DEF Elems
<1>3. \A i \in DOMAIN batch : batch[i].role = "tool" => batch[i].call \in Calls
  BY <1>1 DEF Rows, ToolRows
<1> QED BY <1>2, <1>3 DEF Commit, TypeOK

--------------------------------------------------------------------------------
(* Type correctness *)

LEMMA EndRunType ==
  ASSUME EndRun
  PROVE  /\ pc' \in PcValues /\ caller' \in Users \cup {NoUser} /\ messages' \in Seq(Rows)
         /\ prevLen' \in Nat /\ written' \in Nat /\ userPersisted' \in BOOLEAN
         /\ iteration' \in 0..MaxIterations /\ noProgress' \in Nat
         /\ status' \in {"none", "complete", "stopped"}
         /\ step' \in Seq(Calls) /\ chunk' \in Seq(Calls)
         /\ outcome' \in [Calls -> {"none", "ok", "error"}]
         /\ results' \in Seq(ToolRows)
<1>1. NoOutcome \in [Calls -> {"none", "ok", "error"}]
  BY DEF NoOutcome
<1>2. <<>> \in Seq(Rows) /\ <<>> \in Seq(Calls) /\ <<>> \in Seq(ToolRows)
  BY EmptySeq
<1>3. 0 \in 0..MaxIterations
  BY BoundsAssumption
<1> QED BY <1>1, <1>2, <1>3 DEF EndRun, PcValues

\* Executing a call keeps the effect counters numbers.
LEMMA ExecutesType ==
  ASSUME effects \in [Calls -> Nat], NEW c \in Calls, NEW kind, Executes(c, kind)
  PROVE  effects' \in [Calls -> Nat]
<1>1. [effects EXCEPT ![c] = @ + 1] \in [Calls -> Nat]
  OBVIOUS
<1> QED BY <1>1 DEF Executes

\* The suffix of a sequence from position k on.
LEMMA FromProperties ==
  ASSUME NEW S, NEW s \in Seq(S), NEW k \in Nat \ {0}
  PROVE  /\ From(s, k) \in Seq(S)
         /\ Len(From(s, k)) = IF k <= Len(s) THEN Len(s) - k + 1 ELSE 0
         /\ \A i \in 1..Len(From(s, k)) : From(s, k)[i] = s[i + k - 1]
<1>1. Len(s) \in Nat /\ \A i \in k..Len(s) : s[i] \in S
  BY LenProperties, ElementOfSeq
<1>2. /\ SubSeq(s, k, Len(s)) \in Seq(S)
      /\ Len(SubSeq(s, k, Len(s))) = IF k <= Len(s) THEN Len(s) - k + 1 ELSE 0
      /\ \A i \in 1..(Len(s) - k + 1) : SubSeq(s, k, Len(s))[i] = s[k + i - 1]
  BY <1>1, SubSeqProperties
<1> QED BY <1>1, <1>2 DEF From

\* Pruning keeps a suffix.
LEMMA PrunedType ==
  ASSUME NEW r \in Seq(Rows), NEW keep \in Nat
  PROVE  Pruned(r, keep) \in Seq(Rows)
<1>1. Len(r) \in Nat
  BY LenProperties
<1>2. Len(r) > keep => From(r, Len(r) - keep + 1) \in Seq(Rows)
  BY <1>1, FromProperties
<1> QED BY <1>1, <1>2 DEF Pruned

\* The tail a turn persists last is made of rows.
LEMMA TailType ==
  ASSUME TypeOK
  PROVE  NewSinceResume \in Seq(Rows) /\ UnpersistedTail \in Seq(Rows)
<1>1. messages \in Seq(Rows) /\ prevLen \in Nat /\ written \in Nat
  BY DEF TypeOK
<1>2. NewSinceResume \in Seq(Rows)
  BY <1>1, FromProperties DEF NewSinceResume
<1>3. From(NewSinceResume, written + 2) \in Seq(Rows)
  BY <1>1, <1>2, FromProperties
<1> QED BY <1>2, <1>3 DEF UnpersistedTail

\* A batch of the loop is made of rows, and committing it keeps the types.
LEMMA PersistStepType ==
  ASSUME TypeOK, turn \in Turns, NEW new \in Seq(Rows), PersistStep(new)
  PROVE  /\ rows' \in Seq(Rows)
         /\ owner' \in Users \cup {NoUser, Absent}
         /\ requested' \subseteq Calls /\ answered' \subseteq Calls
         /\ written' \in Nat /\ userPersisted' = TRUE
<1>1. <<UserRow(turn)>> \in Seq(Rows)
  BY RowConstructors
<1>2. <<UserRow(turn)>> \o new \in Seq(Rows)
  BY <1>1, ConcatProperties
<1>3. Batch(new) \in Seq(Rows)
  BY <1>2 DEF Batch
<1>4. Len(Batch(new)) \in Nat
  BY <1>3, LenProperties
<1>5. written' \in Nat /\ userPersisted' = TRUE
  BY <1>4 DEF PersistStep, TypeOK
<1> QED BY <1>3, <1>5, CommitType DEF PersistStep

\* A step keeps every type, and the facts about a run in progress.
LEMMA TypeStep ==
  ASSUME TypeOK, RunStarted, [Next]_vars
  PROVE  TypeOK' /\ RunStarted'
<1> USE DEF store, locals, dispatch, history
<1>t. /\ rows \in Seq(Rows) /\ messages \in Seq(Rows)
      /\ results \in Seq(ToolRows) /\ chunk \in Seq(Calls)
  BY DEF TypeOK
<1>e. ASSUME EndRun, UNCHANGED <<store, turn, issued, effects, history, returned>>
      PROVE  TypeOK' /\ RunStarted'
  BY <1>e, EndRunType DEF TypeOK, RunStarted, EndRun
<1>1. ASSUME NEW u \in Users \cup {NoUser}, StartRun(u)
      PROVE  TypeOK' /\ RunStarted'
  <2>1. turn' \in Turns
    BY <1>1, BoundsAssumption DEF StartRun, TypeOK, Turns
  <2>2. prevLen' \in Nat
    BY <1>1, LenProperties DEF StartRun, TypeOK
  <2>3. UserRow(turn + 1) \in Rows
    BY <1>1, <2>1, RowConstructors DEF StartRun
  <2>4. messages' \in Seq(Rows) /\ pc' \in PcValues
    <3>1. Append(rows, UserRow(turn + 1)) \in Seq(Rows)
      BY <1>t, <2>3, AppendProperties
    <3> QED BY <1>1, <1>t, <3>1 DEF StartRun, PcValues
  <2>5. step' \in Seq(Calls)
    <3>1. CASE Missing(rows) = {}
      BY <1>1, <3>1, EmptySeq DEF StartRun
    <3>2. CASE Missing(rows) # {}
      <4>1. PICK i \in DOMAIN rows : IsTailRequest(rows, i) /\ step' = rows[i].calls
        BY <1>1, <3>2 DEF StartRun
      <4>2. rows[i] \in Rows
        BY DEF TypeOK
      <4> QED BY <4>1, <4>2 DEF IsTailRequest, Rows, ToolRows
    <3> QED BY <3>1, <3>2
  <2>6. turn' \in 0..MaxTurns
    BY <2>1, BoundsAssumption DEF Turns
  <2> QED BY <1>1, <2>1, <2>2, <2>4, <2>5, <2>6 DEF StartRun, TypeOK, RunStarted
<1>2. ASSUME NEW c \in Calls, ResumeCall(c) PROVE TypeOK' /\ RunStarted'
  <2>1. effects' \in [Calls -> Nat]
    BY <1>2, ExecutesType DEF ResumeCall, TypeOK
  <2>2. \E k \in Kinds : results' = Append(results, ToolRow(c, k))
    BY <1>2 DEF ResumeCall, Kinds
  <2>3. results' \in Seq(ToolRows)
    BY <2>2, RowConstructors, AppendProperties DEF TypeOK
  <2> QED BY <1>2, <2>1, <2>3 DEF ResumeCall, TypeOK, RunStarted
<1>3. ASSUME NEW c \in Calls, HandlerReturns(c) PROVE TypeOK' /\ RunStarted'
  <2>1. PICK kind \in {"ok", "error"} :
          LET got == [outcome EXCEPT ![c] = kind]
          IN  /\ Executes(c, kind)
              /\ IF \E d \in Elems(chunk) : got[d] = "none"
                   THEN outcome' = got /\ UNCHANGED <<chunk, results>>
                   ELSE /\ results' = results \o
                             [i \in DOMAIN chunk |-> ToolRow(chunk[i], got[chunk[i]])]
                        /\ chunk' = <<>> /\ outcome' = NoOutcome
    BY <1>3 DEF HandlerReturns
  <2> DEFINE got == [outcome EXCEPT ![c] = kind]
  <2>2. effects' \in [Calls -> Nat]
    BY <2>1, ExecutesType DEF TypeOK
  <2>3. got \in [Calls -> {"none", "ok", "error"}]
    BY DEF TypeOK
  <2>4. CASE \E d \in Elems(chunk) : got[d] = "none"
    BY <1>3, <2>1, <2>2, <2>3, <2>4 DEF HandlerReturns, TypeOK, RunStarted
  <2>5. CASE ~\E d \in Elems(chunk) : got[d] = "none"
    <3> DEFINE batch == [i \in DOMAIN chunk |-> ToolRow(chunk[i], got[chunk[i]])]
    <3>1. \A i \in 1..Len(chunk) : chunk[i] \in Calls /\ got[chunk[i]] \in Kinds
      BY <2>3, <2>5 DEF TypeOK, Elems, Kinds
    <3>2. \A i \in 1..Len(chunk) : ToolRow(chunk[i], got[chunk[i]]) \in ToolRows
      BY <3>1, RowConstructors
    <3>3. DOMAIN chunk = 1..Len(chunk) /\ Len(chunk) \in Nat
      BY LenProperties DEF TypeOK
    <3>4. batch \in Seq(ToolRows)
      BY <3>2, <3>3, IsASeq
    <3>5. results' \in Seq(ToolRows)
      <4>1. results \o batch \in Seq(ToolRows)
        BY <1>t, <3>4, ConcatProperties
      <4> QED BY <2>1, <2>5, <4>1
    <3>6. chunk' \in Seq(Calls) /\ outcome' \in [Calls -> {"none", "ok", "error"}]
      BY <2>1, <2>5, EmptySeq DEF NoOutcome
    <3> QED BY <1>3, <2>2, <3>5, <3>6 DEF HandlerReturns, TypeOK, RunStarted
  <2> QED BY <2>4, <2>5
<1>4. CASE ResumePersist
  <2>1. turn \in Turns /\ results \in Seq(Rows)
    BY <1>4, RowConstructors, SeqMonotonic DEF ResumePersist, RunStarted, TypeOK
  <2>2. /\ rows' \in Seq(Rows) /\ owner' \in Users \cup {NoUser, Absent}
        /\ requested' \subseteq Calls /\ answered' \subseteq Calls
    BY <1>4, <2>1, CommitType DEF ResumePersist
  <2>3. messages \o results \in Seq(Rows)
    BY <2>1, ConcatProperties DEF TypeOK
  <2>4. messages' \in Seq(Rows)
    BY <1>4, <2>1, <2>3, RowConstructors, AppendProperties DEF ResumePersist
  <2>5. prevLen' \in Nat
    BY <1>4, <2>1, LenProperties DEF ResumePersist, TypeOK
  <2>6. step' \in Seq(Calls) /\ results' \in Seq(ToolRows)
    BY <1>4, EmptySeq DEF ResumePersist
  <2> QED BY <1>4, <2>1, <2>2, <2>4, <2>5, <2>6 DEF ResumePersist, TypeOK, RunStarted, PcValues
<1>5. CASE BeginIteration
  <2>1. iteration' \in 0..MaxIterations
    BY <1>5, BoundsAssumption DEF BeginIteration, LoopContinues, TypeOK
  <2>2. messages' \in Seq(Rows)
    <3>1. \A k \in 2..Len(messages) : From(messages, k) \in Seq(Rows)
      BY FromProperties, LenProperties DEF TypeOK
    <3> QED BY <1>5, <3>1 DEF BeginIteration, TypeOK
  <2> QED BY <1>5, <2>1, <2>2 DEF BeginIteration, TypeOK, RunStarted, PcValues
<1>6. CASE IterationsExceeded
  BY <1>6 DEF IterationsExceeded, Stop, TypeOK, RunStarted, PcValues
<1>7. ASSUME NEW s \in {"stopped", "complete"}, ChatEnds(s) PROVE TypeOK' /\ RunStarted'
  <2>1. TextRow(turn) \in Rows
    BY <1>7, RowConstructors DEF ChatEnds, RunStarted
  <2>2. messages' \in Seq(Rows)
    <3>1. Append(messages, TextRow(turn)) \in Seq(Rows)
      BY <1>t, <2>1, AppendProperties
    <3> QED BY <1>7, <1>t, <3>1 DEF ChatEnds
  <2> QED BY <1>7, <2>2 DEF ChatEnds, Stop, TypeOK, RunStarted, PcValues
<1>8. CASE ChatRequests
  <2>1. PICK s \in Responses : /\ step' = s /\ issued' = issued \cup Elems(s)
                               /\ messages' = Append(messages, CallsRow(s))
    BY <1>8 DEF ChatRequests
  <2>2. PICK n \in 1..MaxCallsPerStep : s \in [1..n -> Calls \ issued]
    BY DEF Responses
  <2>3. s \in Seq(Calls)
    BY <2>2, SeqDef, BoundsAssumption
  <2>4. Elems(s) \subseteq Calls
    BY <2>2 DEF Elems
  <2>5. messages' \in Seq(Rows)
    BY <2>1, <2>3, RowConstructors, AppendProperties DEF TypeOK
  <2> QED BY <1>8, <2>1, <2>3, <2>4, <2>5 DEF ChatRequests, TypeOK, RunStarted, PcValues
<1>9. CASE PersistRequest
  <2>1. RequestBatch \in Seq(Rows)
    BY RowConstructors DEF RequestBatch, TypeOK
  <2>2. /\ rows' \in Seq(Rows) /\ owner' \in Users \cup {NoUser, Absent}
        /\ requested' \subseteq Calls /\ answered' \subseteq Calls
        /\ written' \in Nat /\ userPersisted' = TRUE
    BY <1>9, <2>1, PersistStepType DEF PersistRequest, RunStarted
  <2> QED BY <1>9, <2>2 DEF PersistRequest, TypeOK, RunStarted, PcValues
<1>10. CASE LaunchChunk
  <2>1. PICK n \in 1..Len(step) : /\ IsChunk(Len(results) + 1, n)
                                  /\ chunk' = SubSeq(step, Len(results) + 1, Len(results) + n)
    <3>1. Len(results) \in Nat /\ Len(step) \in Nat
      BY LenProperties DEF TypeOK
    <3> QED BY <1>10, <3>1, SMTT(30) DEF LaunchChunk
  <2>2. Len(results) \in Nat /\ Len(step) \in Nat
    BY LenProperties DEF TypeOK
  <2>3. \A i \in (Len(results) + 1)..(Len(results) + n) : step[i] \in Calls
    BY <2>1, <2>2, ElementOfSeq DEF IsChunk, TypeOK
  <2>4. chunk' \in Seq(Calls)
    BY <2>1, <2>2, <2>3, SubSeqProperties
  <2> QED BY <1>10, <2>4 DEF LaunchChunk, TypeOK, RunStarted
<1>11. CASE PersistResults
  <2>1. results \in Seq(Rows)
    BY RowConstructors, SeqMonotonic DEF TypeOK
  <2>2. /\ rows' \in Seq(Rows) /\ owner' \in Users \cup {NoUser, Absent}
        /\ requested' \subseteq Calls /\ answered' \subseteq Calls
        /\ written' \in Nat /\ userPersisted' = TRUE
    BY <1>11, <2>1, PersistStepType DEF PersistResults, RunStarted
  <2>3. messages' \in Seq(Rows)
    BY <1>11, <2>1, ConcatProperties DEF PersistResults, TypeOK
  <2>4. step' \in Seq(Calls) /\ results' \in Seq(ToolRows)
    BY <1>11, EmptySeq DEF PersistResults
  <2>5. noProgress' \in Nat
    BY <1>11 DEF PersistResults, TypeOK
  <2>6. pc' \in PcValues /\ status' \in {"none", "complete", "stopped"}
    BY <1>11 DEF PersistResults, Stop, TypeOK, PcValues
  <2>7. RunStarted'
    BY <1>11 DEF PersistResults, Stop, RunStarted
  <2> QED BY <1>11, <2>2, <2>3, <2>4, <2>5, <2>6, <2>7 DEF PersistResults, TypeOK
<1>12. CASE Finish
  <2>1. /\ rows' \in Seq(Rows) /\ owner' \in Users \cup {NoUser, Absent}
        /\ requested' \subseteq Calls /\ answered' \subseteq Calls
    BY <1>12, TailType, CommitType DEF Finish
  <2>2. turn \in Turns
    BY <1>12 DEF Finish, RunStarted
  <2>3. status \in {"complete", "stopped"}
    BY <1>12 DEF Finish, RunStarted
  <2>4. CASE MaxStored = Unset
    <3>1. returned' \subseteq Turns \X {"complete", "stopped"}
      BY <1>12, <2>2, <2>3, <2>4 DEF Finish, TypeOK
    <3>2. EndRun /\ UNCHANGED <<turn, issued, effects>>
      BY <1>12, <2>4 DEF Finish
    <3>3. RunStarted'
      BY <3>2 DEF EndRun, RunStarted
    <3> QED BY <2>1, <3>1, <3>2, <3>3, EndRunType DEF TypeOK
  <2>5. CASE MaxStored # Unset
    BY <1>12, <2>1, <2>2, <2>3, <2>5, BoundsAssumption DEF Finish, TypeOK, RunStarted, PcValues
  <2> QED BY <2>4, <2>5
<1>13. CASE Prune
  <2>1. rows' \in Seq(Rows)
    BY <1>13, <1>t, PrunedType DEF Prune, RunStarted
  <2>2. turn \in Turns /\ status \in {"complete", "stopped"}
    BY <1>13 DEF Prune, RunStarted
  <2>3. returned' \subseteq Turns \X {"complete", "stopped"}
    BY <1>13, <2>2 DEF Prune, TypeOK
  <2>4. EndRun /\ UNCHANGED <<owner, turn, issued, effects, history>>
    BY <1>13 DEF Prune
  <2>5. RunStarted'
    BY <2>4 DEF EndRun, RunStarted
  <2> QED BY <2>1, <2>3, <2>4, <2>5, EndRunType DEF TypeOK
<1>14. CASE UNCHANGED vars
  BY <1>14 DEF vars, TypeOK, RunStarted
<1> QED
  BY <1>e, <1>1, <1>2, <1>3, <1>4, <1>5, <1>6, <1>7, <1>8, <1>9, <1>10, <1>11, <1>12,
     <1>13, <1>14
  DEF Next, RunStep, Crash, ChatFails, FinishRejectsOutput

\* The initial state is well typed.
LEMMA InitType == Init => TypeOK /\ RunStarted
<1>1. <<>> \in Seq(Rows) /\ <<>> \in Seq(Calls) /\ <<>> \in Seq(ToolRows)
  BY EmptySeq
<1>2. NoOutcome \in [Calls -> {"none", "ok", "error"}]
  BY DEF NoOutcome
<1>3. [c \in Calls |-> 0] \in [Calls -> Nat]
  OBVIOUS
<1>4. 0 \in 0..MaxIterations /\ 0 \in 0..MaxTurns
  BY BoundsAssumption
<1>5. ASSUME Init PROVE TypeOK
  <2>1. IdleLocals
    BY <1>5 DEF Init
  <2>2. /\ pc \in PcValues /\ messages \in Seq(Rows) /\ step \in Seq(Calls)
        /\ chunk \in Seq(Calls) /\ results \in Seq(ToolRows)
        /\ outcome \in [Calls -> {"none", "ok", "error"}]
    BY <2>1, <1>1, <1>2 DEF IdleLocals, PcValues
  <2>3. rows \in Seq(Rows) /\ effects \in [Calls -> Nat]
    BY <1>5, <1>1, <1>3 DEF Init
  <2>4. /\ caller \in Users \cup {NoUser} /\ prevLen \in Nat /\ written \in Nat
        /\ userPersisted \in BOOLEAN /\ iteration \in 0..MaxIterations
        /\ noProgress \in Nat /\ status \in {"none", "complete", "stopped"}
    BY <2>1, <1>4 DEF IdleLocals
  <2>5. /\ owner \in Users \cup {NoUser, Absent} /\ turn \in 0..MaxTurns
        /\ issued \subseteq Calls /\ requested \subseteq Calls /\ answered \subseteq Calls
        /\ returned \subseteq Turns \X {"complete", "stopped"}
    BY <1>5, <1>4 DEF Init
  <2> QED BY <2>2, <2>3, <2>4, <2>5 DEF TypeOK
<1>6. Init => RunStarted
  BY DEF Init, IdleLocals, RunStarted
<1> QED BY <1>5, <1>6

\* Every variable keeps its type, and no run exceeds its iteration limit.
THEOREM TypeCorrect == Spec => []TypeOK
<1>1. Init => TypeOK /\ RunStarted
  BY InitType
<1>2. TypeOK /\ RunStarted /\ [Next]_vars => (TypeOK /\ RunStarted)'
  BY TypeStep
<1> QED BY <1>1, <1>2, PTL DEF Spec

--------------------------------------------------------------------------------
(* The orphan of a store *)

\* Tool rows answer the calls they name and change nothing else.
LEMMA MissingAfterTools ==
  ASSUME NEW r \in Seq(Rows), NEW t \in Seq(ToolRows)
  PROVE  Missing(r \o t) = Missing(r) \ {t[i].call : i \in DOMAIN t}
<1> DEFINE n == Len(r)
           m == Len(t)
           q == r \o t
<1>1. n \in Nat /\ m \in Nat /\ DOMAIN r = 1..n /\ DOMAIN t = 1..m
  BY LenProperties
<1>2. t \in Seq(Rows)
  BY RowConstructors, SeqMonotonic
<1>3. q \in Seq(Rows) /\ Len(q) = n + m /\ DOMAIN q = 1..(n + m)
  BY <1>1, <1>2, ConcatProperties, LenProperties
<1>4. \A i \in 1..n : q[i] = r[i]
  BY <1>1, <1>2, ConcatProperties
<1>5. \A i \in 1..m : q[n + i] = t[i]
  BY <1>1, <1>2, ConcatProperties
<1>6. \A i \in 1..m : t[i].role = "tool"
  <2>1. \A i \in 1..m : t[i] \in ToolRows
    BY <1>1, ElementOfSeq
  <2> QED BY <2>1 DEF ToolRows
<1>7. \A j \in (n + 1)..(n + m) : j - n \in 1..m /\ q[j] = t[j - n] /\ q[j].role = "tool"
  BY <1>1, <1>5, <1>6
<1> HIDE DEF n, m, q
<1>8. \A i \in 1..(n + m) : IsTailRequest(q, i) <=> i \in 1..n /\ IsTailRequest(r, i)
  <2> SUFFICES ASSUME NEW i \in 1..(n + m)
               PROVE  IsTailRequest(q, i) <=> i \in 1..n /\ IsTailRequest(r, i)
    OBVIOUS
  <2>1. CASE i > n
    BY <1>1, <1>7, <2>1 DEF IsTailRequest
  <2>2. CASE i <= n
    <3>1. i \in 1..n /\ q[i] = r[i]
      BY <1>1, <1>4, <2>2
    <3>2. (\A j \in (i + 1)..(n + m) : q[j].role = "tool")
             <=> (\A j \in (i + 1)..n : r[j].role = "tool")
      BY <1>1, <1>4, <1>7, <3>1
    <3> QED BY <1>3, <3>1, <3>2 DEF IsTailRequest, n
  <2> QED BY <1>1, <2>1, <2>2
<1>9. \A c \in Calls, i \in 1..n :
        (\A j \in (i + 1)..(n + m) : q[j].call # c)
          <=> /\ \A j \in (i + 1)..n : r[j].call # c
              /\ \A k \in 1..m : t[k].call # c
  <2> SUFFICES ASSUME NEW c \in Calls, NEW i \in 1..n
               PROVE  (\A j \in (i + 1)..(n + m) : q[j].call # c)
                        <=> /\ \A j \in (i + 1)..n : r[j].call # c
                            /\ \A k \in 1..m : t[k].call # c
    OBVIOUS
  <2>1. \A j \in (i + 1)..n : j \in (i + 1)..(n + m) /\ q[j] = r[j]
    BY <1>1, <1>4
  <2>2. \A k \in 1..m : n + k \in (i + 1)..(n + m) /\ q[n + k] = t[k]
    BY <1>1, <1>5
  <2>3. \A j \in (i + 1)..(n + m) : j \in (i + 1)..n \/ (j - n \in 1..m /\ q[j] = t[j - n])
    BY <1>1, <1>7
  <2> QED BY <2>1, <2>2, <2>3
<1>10. \A c \in Calls : c \in Missing(q) <=> c \in Missing(r) /\ \A k \in 1..m : t[k].call # c
  <2> SUFFICES ASSUME NEW c \in Calls
               PROVE  c \in Missing(q) <=> c \in Missing(r) /\ \A k \in 1..m : t[k].call # c
    OBVIOUS
  <2>1. c \in Missing(q) <=>
          c \notin Anonymous /\ \E i \in 1..(n + m) : /\ IsTailRequest(q, i)
                                   /\ c \in Elems(q[i].calls)
                                   /\ \A j \in (i + 1)..(n + m) : q[j].call # c
    BY <1>3 DEF Missing
  <2>2. c \in Missing(r) <=>
          c \notin Anonymous /\ \E i \in 1..n : /\ IsTailRequest(r, i)
                                   /\ c \in Elems(r[i].calls)
                                   /\ \A j \in (i + 1)..n : r[j].call # c
    BY <1>1 DEF Missing, n
  <2>3. \A i \in 1..n : i \in 1..(n + m)
    BY <1>1
  <2> QED BY <1>4, <1>8, <1>9, <2>1, <2>2, <2>3
<1>11. Missing(q) \subseteq Calls /\ Missing(r) \subseteq Calls
  BY DEF Missing
<1> QED BY <1>1, <1>10, <1>11 DEF q

\* A request at the end of the store is the orphan.
LEMMA MissingAfterRequest ==
  ASSUME NEW r \in Seq(Rows), NEW s \in Seq(Calls), Len(r) > 0, r[Len(r)] = CallsRow(s)
  PROVE  Missing(r) = Elems(s) \ Anonymous
<1>1. Len(r) \in Nat /\ DOMAIN r = 1..Len(r)
  BY LenProperties
<1>2. r[Len(r)].role = "calls" /\ r[Len(r)].calls = s
  BY DEF CallsRow
<1>3. \A i \in DOMAIN r : IsTailRequest(r, i) <=> i = Len(r)
  BY <1>1, <1>2 DEF IsTailRequest
<1>4. Elems(s) \subseteq Calls
  BY DEF Elems
<1>5. \A c \in Calls : c \in Missing(r) <=> c \in Elems(s) \ Anonymous
  BY <1>1, <1>2, <1>3 DEF Missing
<1>6. Missing(r) \subseteq Calls
  BY DEF Missing
<1> QED BY <1>4, <1>5, <1>6

\* Text after a step shows that the step is closed.
LEMMA MissingAfterText ==
  ASSUME NEW r \in Seq(Rows), Len(r) > 0, r[Len(r)].role \in {"user", "text"}
  PROVE  Missing(r) = {}
<1>1. Len(r) \in Nat /\ DOMAIN r = 1..Len(r)
  BY LenProperties
<1>2. \A i \in DOMAIN r : ~IsTailRequest(r, i)
  BY <1>1 DEF IsTailRequest
<1> QED BY <1>2 DEF Missing

\* Pruning hides requests, it never opens one.
LEMMA MissingPruned ==
  ASSUME NEW r \in Seq(Rows), NEW keep \in Nat
  PROVE  Missing(Pruned(r, keep)) \subseteq Missing(r)
<1>1. CASE Len(r) <= keep
  BY <1>1 DEF Pruned
<1>2. CASE ~(Len(r) <= keep)
  <2> DEFINE k == Len(r) - keep + 1
             q == From(r, k)
  <2>1. Len(r) \in Nat /\ k \in Nat \ {0} /\ DOMAIN r = 1..Len(r)
    BY <1>2, LenProperties
  <2>2. /\ q \in Seq(Rows)
        /\ Len(q) = IF k <= Len(r) THEN Len(r) - k + 1 ELSE 0
        /\ \A i \in 1..Len(q) : q[i] = r[i + k - 1]
    BY <2>1, FromProperties
  <2>3. DOMAIN q = 1..Len(q) /\ Len(q) \in Nat
    BY <2>2, LenProperties
  <2> HIDE DEF k, q
  <2> SUFFICES ASSUME NEW c \in Missing(q) PROVE c \in Missing(r)
    BY <1>2 DEF Pruned, k, q
  <2>4. PICK i \in DOMAIN q : /\ IsTailRequest(q, i)
                              /\ c \in Elems(q[i].calls)
                              /\ \A j \in (i + 1)..Len(q) : q[j].call # c
    BY DEF Missing
  <2>5. i + k - 1 \in DOMAIN r /\ q[i] = r[i + k - 1]
    BY <2>1, <2>2, <2>3
  <2>6. \A j \in (i + k)..Len(r) : j - k + 1 \in (i + 1)..Len(q) /\ q[j - k + 1] = r[j]
    BY <2>1, <2>2, <2>3
  <2>7. \A j \in (i + k)..Len(r) : r[j].role = "tool" /\ r[j].call # c
    BY <2>4, <2>6 DEF IsTailRequest
  <2>8. (i + k - 1) + 1 = i + k
    BY <2>1, <2>3
  <2>9. IsTailRequest(r, i + k - 1)
    BY <2>4, <2>5, <2>7, <2>8 DEF IsTailRequest
  <2>10. c \in Calls \ Anonymous
    BY DEF Missing
  <2> QED BY <2>4, <2>5, <2>7, <2>8, <2>9, <2>10 DEF Missing
<1> QED BY <1>1, <1>2

--------------------------------------------------------------------------------
(* The inductive invariant *)

\* Tool rows committed alone request nothing and answer the calls they name.
LEMMA CommitTools ==
  ASSUME NEW t \in Seq(ToolRows), Commit(t)
  PROVE  /\ rows' = rows \o t
         /\ requested' = requested
         /\ answered' = answered \cup {t[i].call : i \in DOMAIN t}
<1>1. \A i \in DOMAIN t : t[i].role = "tool"
  <2>1. \A i \in DOMAIN t : t[i] \in ToolRows
    OBVIOUS
  <2> QED BY <2>1 DEF ToolRows
<1>2. {j \in DOMAIN t : t[j].role = "tool"} = DOMAIN t
  BY <1>1
<1>3. {j \in DOMAIN t : t[j].role = "calls"} = {}
  BY <1>1
<1> QED BY <1>2, <1>3 DEF Commit

\* Text rows committed alone leave the history of calls as it is.
LEMMA CommitText ==
  ASSUME NEW t \in Seq(Rows), Commit(t), \A i \in DOMAIN t : t[i].role \in {"user", "text"}
  PROVE  rows' = rows \o t /\ requested' = requested /\ answered' = answered
<1>1. {j \in DOMAIN t : t[j].role = "tool"} = {}
  OBVIOUS
<1>2. {j \in DOMAIN t : t[j].role = "calls"} = {}
  OBVIOUS
<1> QED BY <1>1, <1>2 DEF Commit

\* The last row of a committed batch is the last row of the store.
LEMMA LastOfConcat ==
  ASSUME NEW r \in Seq(Rows), NEW b \in Seq(Rows), Len(b) > 0
  PROVE  r \o b \in Seq(Rows) /\ Len(r \o b) > 0 /\ (r \o b)[Len(r \o b)] = b[Len(b)]
<1>1. Len(r) \in Nat /\ Len(b) \in Nat
  BY LenProperties
<1>2. r \o b \in Seq(Rows) /\ Len(r \o b) = Len(r) + Len(b)
  BY ConcatProperties
<1>3. (r \o b)[Len(r) + Len(b)] = b[(Len(r) + Len(b)) - Len(r)]
  BY <1>1, ConcatProperties
<1>4. (Len(r) + Len(b)) - Len(r) = Len(b)
  BY <1>1
<1> QED BY <1>1, <1>2, <1>3, <1>4

\* Phase A puts the calls of the step on record, as the last row of the store.
LEMMA CommitRequest ==
  ASSUME Inv, pc = "request", PersistStep(RequestBatch)
  PROVE  /\ rows' \in Seq(Rows) /\ Len(rows') > 0 /\ rows'[Len(rows')] = CallsRow(step)
         /\ requested' = requested \cup Elems(step)
         /\ answered' = answered
         /\ written' = written + (IF userPersisted THEN 1 ELSE 2)
         /\ userPersisted'
<1>t. rows \in Seq(Rows) /\ step \in Seq(Calls) /\ turn \in Turns
  BY DEF Inv, TypeOK, RunStarted
<1>1. CallsRow(step) \in Rows /\ UserRow(turn) \in Rows
  BY <1>t, RowConstructors
<1>r. /\ CallsRow(step).role = "calls" /\ CallsRow(step).calls = step
      /\ UserRow(turn).role = "user"
  BY DEF CallsRow, UserRow
<1>3. CASE userPersisted
  <2>1. Batch(RequestBatch) = <<CallsRow(step)>>
    BY <1>3 DEF Batch, RequestBatch
  <2> DEFINE b == <<CallsRow(step)>>
  <2>2. b \in Seq(Rows) /\ Len(b) = 1 /\ b[1] = CallsRow(step) /\ DOMAIN b = {1}
    BY <1>1
  <2> HIDE DEF b
  <2>3. {j \in DOMAIN b : b[j].role = "calls"} = {1} /\ {j \in DOMAIN b : b[j].role = "tool"} = {}
    BY <2>2, <1>r
  <2>4. Commit(b) /\ written' = written + Len(b) /\ userPersisted'
    BY <2>1 DEF PersistStep, b
  <2>5. requested' = requested \cup Elems(step) /\ answered' = answered
    BY <2>2, <2>3, <2>4, <1>r DEF Commit
  <2>6. rows' \in Seq(Rows) /\ Len(rows') > 0 /\ rows'[Len(rows')] = CallsRow(step)
    <3>1. rows' = rows \o b
      BY <2>4 DEF Commit
    <3>2. Len(b) > 0 /\ b[Len(b)] = CallsRow(step)
      BY <2>2
    <3> QED BY <2>2, <3>1, <3>2, <1>t, LastOfConcat
  <2> QED BY <1>3, <1>t, <2>2, <2>4, <2>5, <2>6, LenProperties
<1>4. CASE ~userPersisted
  <2> DEFINE b == <<UserRow(turn)>> \o <<CallsRow(step)>>
  <2>1. Batch(RequestBatch) = b
    BY <1>4 DEF Batch, RequestBatch
  <2>2. /\ b \in Seq(Rows) /\ Len(b) = 2 /\ b[1] = UserRow(turn) /\ b[2] = CallsRow(step)
        /\ DOMAIN b = {1, 2}
    <3>1. /\ <<UserRow(turn)>> \in Seq(Rows) /\ <<CallsRow(step)>> \in Seq(Rows)
          /\ Len(<<UserRow(turn)>>) = 1 /\ Len(<<CallsRow(step)>>) = 1
      BY <1>1
    <3>2. b \in Seq(Rows) /\ Len(b) = 2
      BY <3>1, ConcatProperties
    <3>3. \A i \in 1..2 : b[i] = IF i <= 1 THEN <<UserRow(turn)>>[i] ELSE <<CallsRow(step)>>[i - 1]
      BY <3>1, ConcatProperties
    <3> HIDE DEF b
    <3> QED BY <3>2, <3>3, LenProperties
  <2> HIDE DEF b
  <2>3. {j \in DOMAIN b : b[j].role = "calls"} = {2} /\ {j \in DOMAIN b : b[j].role = "tool"} = {}
    BY <2>2, <1>r
  <2>4. Commit(b) /\ written' = written + Len(b) /\ userPersisted'
    BY <2>1 DEF PersistStep
  <2>5. requested' = requested \cup Elems(step) /\ answered' = answered
    BY <2>2, <2>3, <2>4, <1>r DEF Commit
  <2>6. rows' \in Seq(Rows) /\ Len(rows') > 0 /\ rows'[Len(rows')] = CallsRow(step)
    <3>1. rows' = rows \o b
      BY <2>4 DEF Commit
    <3>2. Len(b) > 0 /\ b[Len(b)] = CallsRow(step)
      BY <2>2
    <3> QED BY <2>2, <3>1, <3>2, <1>t, LastOfConcat
  <2> QED BY <1>4, <1>t, <2>2, <2>4, <2>5, <2>6, LenProperties
<1> QED BY <1>3, <1>4

\* What a turn persists last is never a request and never a result.
LEMMA TailIsText ==
  ASSUME Inv, pc = "finish"
  PROVE  \A i \in DOMAIN UnpersistedTail : UnpersistedTail[i].role \in {"user", "text"}
<1>1. /\ messages \in Seq(Rows) /\ prevLen \in Nat /\ written \in Nat
      /\ Len(messages) \in Nat /\ DOMAIN messages = 1..Len(messages)
  BY LenProperties DEF Inv, TypeOK
<1>2. /\ NewSinceResume \in Seq(Rows)
      /\ Len(NewSinceResume) = IF prevLen + 1 <= Len(messages)
                                 THEN Len(messages) - (prevLen + 1) + 1 ELSE 0
      /\ \A i \in 1..Len(NewSinceResume) : NewSinceResume[i] = messages[i + (prevLen + 1) - 1]
  BY <1>1, FromProperties DEF NewSinceResume
<1>n. /\ prevLen \in Nat /\ written \in Nat /\ Len(messages) \in Nat
      /\ Len(NewSinceResume) = IF prevLen + 1 <= Len(messages)
                                 THEN Len(messages) - (prevLen + 1) + 1 ELSE 0
  BY <1>1, <1>2
<1>3. Len(NewSinceResume) \in Nat /\ DOMAIN NewSinceResume = 1..Len(NewSinceResume)
  BY <1>2, LenProperties
<1>4. CASE userPersisted
  <2>1. Len(messages) <= prevLen + written + 1
    BY <1>1, <1>4 DEF Inv, Unwritten
  <2>4. Len(NewSinceResume) <= written + 1
    BY <1>n, <2>1
  <2>5. written + 2 \in Nat \ {0} /\ ~(written + 2 <= Len(NewSinceResume))
    BY <1>1, <1>3, <2>4
  <2>2. Len(From(NewSinceResume, written + 2)) = 0 /\ From(NewSinceResume, written + 2) \in Seq(Rows)
    BY <1>2, <2>5, FromProperties
  <2>3. DOMAIN UnpersistedTail = {}
    BY <1>4, <2>2, LenProperties DEF UnpersistedTail
  <2> QED BY <2>3
<1>5. CASE ~userPersisted
  <2>1. \A i \in 1..Len(NewSinceResume) : /\ i + (prevLen + 1) - 1 \in DOMAIN messages
                                          /\ i + (prevLen + 1) - 1 > prevLen
    <3> SUFFICES ASSUME NEW i \in 1..Len(NewSinceResume)
                 PROVE  i + (prevLen + 1) - 1 \in 1..Len(messages) /\ i + (prevLen + 1) - 1 > prevLen
      BY <1>1
    <3> HIDE DEF NewSinceResume
    <3>1. i \in Nat \ {0} /\ i <= Len(NewSinceResume)
      BY <1>3
    <3>2. Len(NewSinceResume) = Len(messages) - (prevLen + 1) + 1
      BY <1>n, <3>1
    <3> QED BY <1>n, <3>1, <3>2
  <2>2. \A i \in DOMAIN messages : i > prevLen => messages[i].role \in {"user", "text"}
    BY <1>5 DEF Inv, OnlyText
  <2> QED BY <1>2, <1>3, <1>5, <2>1, <2>2 DEF UnpersistedTail
<1> QED BY <1>4, <1>5

\* The parts of the invariant beyond the types.
CallsInv == CallOrder /\ OrphanIsOpen /\ NoOrphan
RunInv   == /\ StepIssued /\ StepNotRequested /\ StepOnRecord
            /\ Dispatched /\ Resuming /\ Unwritten /\ OnlyText

\* A run that is over leaves the store as it is, and leaves no locals.
LEMMA InvEndRun ==
  ASSUME Inv, EndRun, UNCHANGED <<store, turn, issued, effects, history>>
  PROVE  (CallsInv /\ RunInv)'
<1> USE DEF store, history
<1>1. CallsInv'
  BY DEF Inv, CallsInv, CallOrder, OrphanIsOpen, NoOrphan, EndRun
<1>2. RunInv'
  BY DEF RunInv, StepIssued, StepNotRequested, StepOnRecord, Dispatched, Resuming,
         Unwritten, OnlyText, EndRun, NoOutcome
<1> QED BY <1>1, <1>2

LEMMA InvStart ==
  ASSUME Inv, NEW u \in Users \cup {NoUser}, StartRun(u)
  PROVE  (CallsInv /\ RunInv)'
<1> USE DEF store, history
<1>t. /\ rows \in Seq(Rows) /\ Len(rows) \in Nat /\ UserRow(turn + 1) \in Rows
      /\ UserRow(turn + 1).role = "user"
  <2>1. turn + 1 \in Turns
    BY BoundsAssumption DEF Inv, TypeOK, StartRun, Turns
  <2> QED BY <2>1, RowConstructors, LenProperties DEF Inv, TypeOK, UserRow
<1>1. CallsInv'
  BY DEF Inv, CallsInv, CallOrder, OrphanIsOpen, NoOrphan, StartRun
<1>2. /\ pc' \in {"loop", "resume"}
      /\ pc' = "loop" => messages' = Append(rows, UserRow(turn + 1))
      /\ pc' = "resume" => messages' = rows
      /\ prevLen' = Len(rows) /\ rows' = rows
      /\ written' = written /\ userPersisted' = userPersisted
      /\ results' = results /\ chunk' = chunk /\ outcome' = outcome
      /\ pc = "idle"
  BY DEF StartRun
<1>3. results = <<>> /\ chunk = <<>> /\ outcome = NoOutcome /\ written = 0 /\ ~userPersisted
  BY <1>2 DEF Inv, Dispatched, Unwritten
<1>4. Dispatched' /\ Resuming'
  BY <1>2, <1>3 DEF Dispatched, Resuming, NoOutcome
<1>5. pc' = "loop" => /\ Len(messages') = Len(rows) + 1
                      /\ DOMAIN messages' = 1..(Len(rows) + 1)
                      /\ messages'[Len(rows) + 1] = UserRow(turn + 1)
  <2>1. /\ Append(rows, UserRow(turn + 1)) \in Seq(Rows)
        /\ Len(Append(rows, UserRow(turn + 1))) = Len(rows) + 1
        /\ Append(rows, UserRow(turn + 1))[Len(rows) + 1] = UserRow(turn + 1)
    BY <1>t, AppendProperties
  <2> QED BY <1>2, <2>1, LenProperties
<1>6. Unwritten'
  BY <1>t, <1>2, <1>3, <1>5 DEF Unwritten
<1>7. OnlyText'
  <2> SUFFICES ASSUME pc' = "loop", NEW i \in DOMAIN messages', i > prevLen'
               PROVE  messages'[i].role \in {"user", "text"}
    BY <1>2 DEF OnlyText
  <2>1. i = Len(rows) + 1
    BY <1>t, <1>2, <1>5
  <2> QED BY <1>t, <1>5, <2>1
<1> QED BY <1>1, <1>2, <1>4, <1>6, <1>7
        DEF RunInv, StepIssued, StepNotRequested, StepOnRecord

LEMMA InvResumeCall ==
  ASSUME Inv, NEW c \in Calls, ResumeCall(c)
  PROVE  (CallsInv /\ RunInv)' /\ c \in requested \ answered
<1> USE DEF store, locals, history
<1>t. /\ rows \in Seq(Rows) /\ results \in Seq(ToolRows) /\ effects \in [Calls -> Nat]
      /\ messages = rows /\ pc = "resume" /\ Len(results) \in Nat
  BY LenProperties DEF Inv, TypeOK, ResumeCall, Resuming
<1>1. c \in Missing(rows)
  <2>1. c \in Missing(rows \o results)
    BY <1>t DEF ResumeCall, NextMissing
  <2> QED BY <1>t, <2>1, MissingAfterTools
<1>2. c \in requested \ answered
  BY <1>1 DEF Inv, OrphanIsOpen
<1>3. \A d \in Calls : d # c => effects'[d] = effects[d]
  BY <1>t DEF ResumeCall, Executes
<1>4. CallsInv'
  BY <1>2, <1>3 DEF ResumeCall, Inv, CallsInv, CallOrder, OrphanIsOpen, NoOrphan
<1>5. PICK k \in Kinds : results' = Append(results, ToolRow(c, k))
  BY DEF ResumeCall, Kinds
<1>6. ToolRow(c, k) \in ToolRows /\ ToolRow(c, k).call = c
  BY RowConstructors DEF ToolRow
<1>7. /\ results' \in Seq(ToolRows) /\ Len(results') = Len(results) + 1
      /\ \A i \in 1..Len(results) : results'[i] = results[i]
      /\ results'[Len(results) + 1] = ToolRow(c, k)
  BY <1>t, <1>5, <1>6, AppendProperties
<1>8. DOMAIN results' = 1..(Len(results) + 1) /\ DOMAIN results = 1..Len(results)
  BY <1>t, <1>7, LenProperties
<1>9. Resuming'
  <2>1. \A i \in 1..Len(results) : results[i].call \in Missing(rows)
    BY <1>t, <1>8 DEF Inv, Resuming
  <2>2. \A i \in DOMAIN results' : results'[i].call \in Missing(rows)
    BY <1>t, <1>1, <1>6, <1>7, <1>8, <2>1, SMTT(30)
  <2> QED BY <1>t, <2>2 DEF ResumeCall, Resuming
<1>10. Dispatched' /\ Unwritten' /\ OnlyText'
  BY <1>t DEF ResumeCall, Inv, Dispatched, Unwritten, OnlyText
<1> QED BY <1>t, <1>2, <1>4, <1>9, <1>10
        DEF ResumeCall, RunInv, StepIssued, StepNotRequested, StepOnRecord

LEMMA InvResumePersist ==
  ASSUME Inv, ResumePersist
  PROVE  /\ (CallsInv /\ RunInv)'
         /\ requested' = requested
         /\ answered' = answered \cup {results[i].call : i \in DOMAIN results}
         /\ {results[i].call : i \in DOMAIN results} = Missing(rows)
<1> USE DEF store, locals, history
<1> DEFINE A == {results[i].call : i \in DOMAIN results}
<1>t. /\ rows \in Seq(Rows) /\ results \in Seq(ToolRows) /\ results \in Seq(Rows)
      /\ messages = rows /\ pc = "resume" /\ ~userPersisted /\ written = 0
      /\ UserRow(turn) \in Rows /\ UserRow(turn).role = "user"
  BY RowConstructors, SeqMonotonic
     DEF Inv, TypeOK, ResumePersist, Resuming, Unwritten, RunStarted, UserRow
<1>1. rows' = rows \o results /\ requested' = requested /\ answered' = answered \cup A
  BY <1>t, CommitTools DEF ResumePersist
<1>2. Missing(rows') = {} /\ Missing(rows') = Missing(rows) \ A
  BY <1>t, <1>1, MissingAfterTools DEF ResumePersist
<1>3. A \subseteq Missing(rows)
  BY <1>t DEF Inv, Resuming
<1>4. A = Missing(rows)
  BY <1>2, <1>3
<1>5. Missing(rows) = (requested \ answered) \ Anonymous
  BY DEF Inv, OrphanIsOpen
<1> HIDE DEF A
<1>6. CallsInv'
  <2>1. CallOrder'
    BY <1>1, <1>4, <1>5 DEF ResumePersist, Inv, CallOrder
  <2>2. OrphanIsOpen'
    BY <1>1, <1>2, <1>4, <1>5 DEF OrphanIsOpen
  <2>3. NoOrphan'
    BY <1>2 DEF NoOrphan
  <2> QED BY <2>1, <2>2, <2>3 DEF CallsInv
<1>7. /\ Len(messages \o results) = Len(messages) + Len(results)
      /\ messages \o results \in Seq(Rows)
      /\ Len(messages) \in Nat /\ Len(results) \in Nat
  BY <1>t, ConcatProperties, LenProperties
<1>8. /\ Len(messages') = prevLen' + 1 /\ DOMAIN messages' = 1..(prevLen' + 1)
      /\ messages'[prevLen' + 1] = UserRow(turn) /\ prevLen' \in Nat
  <2>1. messages' = Append(messages \o results, UserRow(turn)) /\ prevLen' = Len(messages \o results)
    BY <1>7 DEF ResumePersist
  <2>2. /\ Append(messages \o results, UserRow(turn)) \in Seq(Rows)
        /\ Len(Append(messages \o results, UserRow(turn))) = Len(messages \o results) + 1
        /\ Append(messages \o results, UserRow(turn))[Len(messages \o results) + 1] = UserRow(turn)
    BY <1>t, <1>7, AppendProperties
  <2> QED BY <1>7, <2>1, <2>2, LenProperties
<1>9. Unwritten'
  BY <1>t, <1>8 DEF ResumePersist, Unwritten
<1>10. OnlyText'
  <2>1. \A i \in DOMAIN messages' : i > prevLen' => i = prevLen' + 1
    BY <1>8
  <2> QED BY <1>t, <1>8, <2>1 DEF OnlyText
<1>11. Dispatched' /\ Resuming'
  BY <1>t DEF ResumePersist, Inv, Dispatched, Resuming
<1> QED BY <1>1, <1>4, <1>6, <1>9, <1>10, <1>11
        DEF A, ResumePersist, RunInv, StepIssued, StepNotRequested, StepOnRecord

LEMMA InvLoop ==
  ASSUME Inv, BeginIteration \/ IterationsExceeded
  PROVE  (CallsInv /\ RunInv)'
<1> USE DEF store, locals, dispatch, history
<1>t. /\ messages \in Seq(Rows) /\ Len(messages) \in Nat /\ DOMAIN messages = 1..Len(messages)
      /\ prevLen \in Nat /\ written \in Nat /\ userPersisted \in BOOLEAN /\ pc = "loop"
  BY LenProperties DEF Inv, TypeOK, BeginIteration, IterationsExceeded
<1>1. CallsInv'
  BY DEF Inv, CallsInv, CallOrder, OrphanIsOpen, NoOrphan, BeginIteration, IterationsExceeded,
         Stop
<1>2. CASE IterationsExceeded
  BY <1>1, <1>2, <1>t DEF Inv, IterationsExceeded, Stop, RunInv, StepIssued, StepNotRequested,
         StepOnRecord, Dispatched, Resuming, Unwritten, OnlyText
<1>3. CASE BeginIteration
  <2> DEFINE Shrunk ==
        /\ messages' \in Seq(Rows) /\ DOMAIN messages' = 1..Len(messages')
        /\ Len(messages') \in Nat /\ Len(messages') <= Len(messages)
        /\ \A i \in 1..Len(messages') :
             \E j \in 1..Len(messages) : j >= i /\ messages'[i] = messages[j]
  <2>1. Shrunk
    <3>1. CASE messages' = messages
      BY <1>t, <3>1
    <3>2. ASSUME NEW k \in 2..Len(messages), messages' = From(messages, k)
          PROVE  Shrunk
      <4>1. k \in Nat \ {0} /\ k <= Len(messages)
        BY <1>t, <3>2
      <4>2. /\ messages' \in Seq(Rows) /\ Len(messages') = Len(messages) - k + 1
            /\ \A i \in 1..Len(messages') : messages'[i] = messages[i + k - 1]
        BY <1>t, <3>2, <4>1, FromProperties
      <4>3. Len(messages') \in Nat /\ DOMAIN messages' = 1..Len(messages')
        BY <4>2, LenProperties
      <4>4. \A i \in 1..Len(messages') : i + k - 1 \in 1..Len(messages) /\ i + k - 1 >= i
        BY <1>t, <4>1, <4>2, <4>3
      <4>5. Len(messages') <= Len(messages)
        BY <1>t, <4>1, <4>2
      <4> QED BY <4>2, <4>3, <4>4, <4>5
    <3> QED BY <1>3, <3>1, <3>2 DEF BeginIteration
  <2>2. Unwritten'
    BY <1>3, <1>t, <2>1 DEF Inv, BeginIteration, Unwritten
  <2>3. OnlyText'
    <3> SUFFICES ASSUME ~userPersisted, NEW i \in 1..Len(messages'), i > prevLen
                 PROVE  messages'[i].role \in {"user", "text"}
      BY <1>3, <1>t, <2>1 DEF BeginIteration, OnlyText
    <3>1. PICK j \in 1..Len(messages) : j >= i /\ messages'[i] = messages[j]
      BY <2>1
    <3>2. j > prevLen
      BY <1>t, <2>1, <3>1
    <3> QED BY <1>t, <3>1, <3>2 DEF Inv, OnlyText
  <2>4. Dispatched' /\ Resuming'
    BY <1>3, <1>t DEF Inv, BeginIteration, Dispatched, Resuming
  <2> QED BY <1>1, <1>3, <2>2, <2>3, <2>4
          DEF BeginIteration, RunInv, StepIssued, StepNotRequested, StepOnRecord
<1> QED BY <1>2, <1>3

LEMMA InvChatEnds ==
  ASSUME Inv, NEW s \in {"stopped", "complete"}, ChatEnds(s)
  PROVE  (CallsInv /\ RunInv)'
<1> USE DEF store, locals, dispatch, history
<1>t. /\ messages \in Seq(Rows) /\ Len(messages) \in Nat /\ DOMAIN messages = 1..Len(messages)
      /\ prevLen \in Nat /\ written \in Nat /\ userPersisted \in BOOLEAN /\ pc = "chat"
      /\ TextRow(turn) \in Rows /\ TextRow(turn).role = "text"
  BY RowConstructors, LenProperties DEF Inv, TypeOK, RunStarted, ChatEnds, TextRow
<1>1. CallsInv'
  BY DEF Inv, CallsInv, CallOrder, OrphanIsOpen, NoOrphan, ChatEnds, Stop
<1>2. /\ Append(messages, TextRow(turn)) \in Seq(Rows)
      /\ Len(Append(messages, TextRow(turn))) = Len(messages) + 1
      /\ \A i \in 1..Len(messages) : Append(messages, TextRow(turn))[i] = messages[i]
      /\ Append(messages, TextRow(turn))[Len(messages) + 1] = TextRow(turn)
  BY <1>t, AppendProperties
<1>3. /\ messages' \in Seq(Rows) /\ DOMAIN messages' = 1..Len(messages')
      /\ Len(messages') \in Nat /\ Len(messages') <= Len(messages) + 1
      /\ \A i \in 1..Len(messages') :
           (i <= Len(messages) /\ messages'[i] = messages[i]) \/ messages'[i] = TextRow(turn)
  <2>1. CASE messages' = messages
    BY <1>t, <2>1
  <2>2. CASE messages' = Append(messages, TextRow(turn))
    BY <1>t, <1>2, <2>2, LenProperties
  <2> QED BY <2>1, <2>2 DEF ChatEnds
<1>4. Unwritten'
  <2>1. /\ Len(messages) <= prevLen + written + (IF userPersisted THEN 0 ELSE 1)
        /\ ~userPersisted => written = 0
    BY <1>t DEF Inv, Unwritten
  <2>2. /\ pc' = "finish" /\ prevLen' = prevLen /\ written' = written
        /\ userPersisted' = userPersisted
    BY DEF ChatEnds, Stop
  <2>3. Len(messages') <= prevLen + written + (IF userPersisted THEN 0 ELSE 1) + 1
    BY <1>t, <1>3, <2>1
  <2> QED BY <2>1, <2>2, <2>3 DEF Unwritten
<1>5. OnlyText'
  <2> SUFFICES ASSUME ~userPersisted, NEW i \in 1..Len(messages'), i > prevLen
               PROVE  messages'[i].role \in {"user", "text"}
    BY <1>3 DEF ChatEnds, OnlyText
  <2>1. i <= Len(messages) => i \in DOMAIN messages
    BY <1>t, <1>3
  <2> QED BY <1>t, <1>3, <2>1 DEF Inv, OnlyText
<1>6. Dispatched' /\ Resuming'
  BY <1>t DEF Inv, ChatEnds, Stop, Dispatched, Resuming
<1> QED BY <1>1, <1>4, <1>5, <1>6
        DEF ChatEnds, Stop, RunInv, StepIssued, StepNotRequested, StepOnRecord

LEMMA InvChatRequests ==
  ASSUME Inv, ChatRequests
  PROVE  (CallsInv /\ RunInv)'
<1> USE DEF store, locals, history
<1>t. /\ messages \in Seq(Rows) /\ Len(messages) \in Nat
      /\ prevLen \in Nat /\ written \in Nat /\ userPersisted \in BOOLEAN /\ pc = "chat"
      /\ issued \subseteq Calls
  BY LenProperties DEF Inv, TypeOK, ChatRequests
<1>1. PICK s \in Responses : /\ step' = s /\ issued' = issued \cup Elems(s)
                             /\ messages' = Append(messages, CallsRow(s))
  BY DEF ChatRequests
<1>2. PICK n \in 1..MaxCallsPerStep : s \in [1..n -> Calls \ issued]
  BY DEF Responses
<1>3. s \in Seq(Calls) /\ Elems(s) \subseteq Calls \ issued
  BY <1>2, SeqDef, BoundsAssumption DEF Elems
<1>4. \A i, j \in DOMAIN s : s[i] = s[j] => i = j
  BY DEF Responses
<1>5. Len(messages') = Len(messages) + 1
  BY <1>t, <1>1, <1>3, RowConstructors, AppendProperties
<1>6. CallsInv'
  BY <1>1 DEF Inv, CallsInv, CallOrder, OrphanIsOpen, NoOrphan, ChatRequests
<1>7. StepIssued' /\ StepNotRequested'
  <2>1. requested \subseteq issued /\ requested' = requested
    BY DEF Inv, CallOrder, ChatRequests
  <2> QED BY <1>1, <1>3, <1>4, <2>1 DEF StepIssued, StepNotRequested
<1>8. Unwritten'
  <2>1. /\ Len(messages) <= prevLen + written + (IF userPersisted THEN 0 ELSE 1)
        /\ ~userPersisted => written = 0
    BY <1>t DEF Inv, Unwritten
  <2>2. /\ pc' = "request" /\ prevLen' = prevLen /\ written' = written
        /\ userPersisted' = userPersisted
    BY DEF ChatRequests
  <2>3. Len(messages') <= prevLen + written + (IF userPersisted THEN 0 ELSE 1) + 1
    BY <1>t, <1>5, <2>1
  <2> QED BY <2>1, <2>2, <2>3 DEF Unwritten
<1>9. Dispatched' /\ Resuming' /\ OnlyText' /\ StepOnRecord'
  BY <1>t DEF Inv, ChatRequests, Dispatched, Resuming, OnlyText, StepOnRecord
<1> QED BY <1>6, <1>7, <1>8, <1>9 DEF RunInv

LEMMA InvPersistRequest ==
  ASSUME Inv, PersistRequest
  PROVE  /\ (CallsInv /\ RunInv)'
         /\ Elems(step) \cap requested = {}
         /\ requested' = requested \cup Elems(step) /\ answered' = answered
         /\ (requested \ answered) \ Anonymous = {}
<1> USE DEF locals, dispatch
<1>t. /\ step \in Seq(Calls) /\ pc = "request" /\ Len(step) \in Nat /\ DOMAIN step = 1..Len(step)
      /\ prevLen \in Nat /\ written \in Nat /\ userPersisted \in BOOLEAN /\ Len(messages) \in Nat
  BY LenProperties DEF Inv, TypeOK, PersistRequest
<1>1. /\ rows' \in Seq(Rows) /\ Len(rows') > 0 /\ rows'[Len(rows')] = CallsRow(step)
      /\ requested' = requested \cup Elems(step)
      /\ answered' = answered
      /\ written' = written + (IF userPersisted THEN 1 ELSE 2)
      /\ userPersisted'
  BY CommitRequest DEF PersistRequest
<1>2. Missing(rows') = Elems(step) \ Anonymous
  BY <1>t, <1>1, MissingAfterRequest
<1>3. (requested \ answered) \ Anonymous = {}
  BY <1>t DEF Inv, NoOrphan, OrphanIsOpen
<1>4. /\ Elems(step) \cap requested = {} /\ answered \subseteq requested
      /\ requested \subseteq issued /\ Elems(step) \subseteq issued
  BY <1>t DEF Inv, StepNotRequested, StepIssued, CallOrder
<1>5. /\ pc' = "act" /\ step' = step /\ results' = results /\ chunk' = chunk
      /\ outcome' = outcome /\ effects' = effects /\ messages' = messages /\ issued' = issued
      /\ prevLen' = prevLen
  BY DEF PersistRequest
<1>6. CallsInv'
  <2>1. CallOrder'
    BY <1>1, <1>4, <1>5 DEF Inv, CallOrder
  <2>2. OrphanIsOpen'
    BY <1>1, <1>2, <1>3, <1>4 DEF OrphanIsOpen
  <2> QED BY <1>5, <2>1, <2>2 DEF CallsInv, NoOrphan
<1>7. StepIssued' /\ StepNotRequested' /\ Resuming' /\ OnlyText'
  BY <1>t, <1>1, <1>5 DEF Inv, StepIssued, StepNotRequested, Resuming, OnlyText
<1>8. StepOnRecord'
  BY <1>1, <1>4, <1>5 DEF StepOnRecord
<1>9. Dispatched'
  <2>1. results = <<>> /\ chunk = <<>> /\ outcome = NoOutcome
    BY <1>t DEF Inv, Dispatched
  <2>2. \A i \in DOMAIN step : step[i] \in Calls /\ step[i] \notin requested
    BY <1>t, <1>4 DEF Elems
  <2>3. \A i \in DOMAIN step : effects[step[i]] = 0
    BY <2>2 DEF Inv, CallOrder
  <2> QED BY <1>t, <1>5, <2>1, <2>3 DEF Dispatched, NoOutcome
<1>10. Unwritten'
  <2>1. /\ Len(messages) <= prevLen + written + (IF userPersisted THEN 0 ELSE 1) + 1
        /\ ~userPersisted => written = 0
    BY <1>t DEF Inv, Unwritten
  <2> QED BY <1>t, <1>1, <1>5, <2>1 DEF Unwritten
<1> QED BY <1>1, <1>3, <1>4, <1>6, <1>7, <1>8, <1>9, <1>10 DEF RunInv

LEMMA InvLaunchChunk ==
  ASSUME Inv, LaunchChunk
  PROVE  (CallsInv /\ RunInv)'
<1> USE DEF store, locals, history
<1>t. /\ step \in Seq(Calls) /\ results \in Seq(ToolRows) /\ pc = "act" /\ chunk = <<>>
      /\ Len(step) \in Nat /\ Len(results) \in Nat
  BY LenProperties DEF Inv, TypeOK, LaunchChunk
<1>1. PICK n \in 1..Len(step) : /\ IsChunk(Len(results) + 1, n)
                                /\ chunk' = SubSeq(step, Len(results) + 1, Len(results) + n)
  BY <1>t DEF LaunchChunk
<1>2. Len(results) + n <= Len(step)
  BY <1>t, <1>1 DEF IsChunk
<1>3. /\ Len(chunk') = n /\ DOMAIN chunk' = 1..n
      /\ \A i \in 1..n : chunk'[i] = step[Len(results) + i]
  <2>1. \A i \in (Len(results) + 1)..(Len(results) + n) : step[i] \in Calls
    BY <1>t, <1>2, ElementOfSeq
  <2>2. /\ SubSeq(step, Len(results) + 1, Len(results) + n) \in Seq(Calls)
        /\ Len(SubSeq(step, Len(results) + 1, Len(results) + n)) = n
        /\ \A i \in 1..n : SubSeq(step, Len(results) + 1, Len(results) + n)[i]
                             = step[Len(results) + 1 + i - 1]
    BY <1>t, <2>1, SubSeqProperties
  <2>3. \A i \in 1..n : Len(results) + 1 + i - 1 = Len(results) + i
    BY <1>t
  <2> QED BY <1>1, <2>2, <2>3, LenProperties
<1>4. outcome = NoOutcome \/ \A c \in Calls : outcome[c] = "none"
  <2>1. Elems(chunk) = {}
    BY <1>t DEF Elems
  <2> QED BY <1>t, <2>1 DEF Inv, Dispatched
<1>5. \A i \in DOMAIN step : i > Len(results) => effects[step[i]] = 0
  <2>1. Elems(chunk) = {}
    BY <1>t DEF Elems
  <2> QED BY <1>t, <2>1 DEF Inv, Dispatched
<1>6. Dispatched'
  BY <1>t, <1>2, <1>3, <1>4, <1>5 DEF LaunchChunk, Inv, Dispatched, NoOutcome
<1>7. CallsInv'
  BY DEF Inv, CallsInv, CallOrder, OrphanIsOpen, NoOrphan, LaunchChunk
<1> QED BY <1>t, <1>6, <1>7
        DEF LaunchChunk, Inv, RunInv, StepIssued, StepNotRequested, StepOnRecord, Resuming,
            Unwritten, OnlyText

\* A call that is still without an outcome has had no effect yet.
LEMMA FirstEffect ==
  ASSUME Inv, NEW c \in Calls, HandlerReturns(c)
  PROVE  effects[c] = 0 /\ c \in requested \ answered
<1>t. /\ step \in Seq(Calls) /\ chunk \in Seq(Calls) /\ results \in Seq(ToolRows)
      /\ pc = "act" /\ Len(step) \in Nat /\ Len(results) \in Nat /\ Len(chunk) \in Nat
      /\ DOMAIN chunk = 1..Len(chunk) /\ DOMAIN step = 1..Len(step)
  BY LenProperties DEF Inv, TypeOK, HandlerReturns
<1>1. PICK i \in DOMAIN chunk : c = chunk[i]
  BY DEF HandlerReturns, Elems
<1>2. c = step[Len(results) + i] /\ Len(results) + i \in DOMAIN step
  BY <1>t, <1>1 DEF Inv, Dispatched
<1>3. Len(results) + i > Len(results)
  BY <1>t, <1>1
<1>4. outcome[c] = "none"
  BY DEF HandlerReturns
<1>5. effects[c] = 0
  BY <1>t, <1>2, <1>3, <1>4 DEF Inv, Dispatched
<1>6. c \in Elems(step)
  BY <1>2 DEF Elems
<1> QED BY <1>t, <1>5, <1>6 DEF Inv, StepOnRecord

LEMMA InvHandlerReturns ==
  ASSUME Inv, NEW c \in Calls, HandlerReturns(c)
  PROVE  (CallsInv /\ RunInv)'
<1> USE DEF store, locals, history
<1>t. /\ step \in Seq(Calls) /\ chunk \in Seq(Calls) /\ results \in Seq(ToolRows)
      /\ pc = "act" /\ Len(step) \in Nat /\ Len(results) \in Nat /\ Len(chunk) \in Nat
      /\ DOMAIN chunk = 1..Len(chunk) /\ DOMAIN step = 1..Len(step)
      /\ DOMAIN results = 1..Len(results)
      /\ effects \in [Calls -> Nat] /\ outcome \in [Calls -> {"none", "ok", "error"}]
  BY LenProperties DEF Inv, TypeOK, HandlerReturns
<1>d. /\ Len(results) + Len(chunk) <= Len(step)
      /\ \A i \in DOMAIN results : results[i].call = step[i]
      /\ \A i \in DOMAIN chunk : chunk[i] = step[Len(results) + i]
      /\ \A i \in DOMAIN step :
           i > Len(results) => \/ effects[step[i]] = 0
                               \/ step[i] \in Elems(chunk) /\ outcome[step[i]] # "none"
      /\ \A d \in Calls : outcome[d] # "none" => d \in Elems(chunk)
  BY <1>t DEF Inv, Dispatched
<1>i. \A i, j \in DOMAIN step : step[i] = step[j] => i = j
  BY <1>t DEF Inv, StepIssued
<1>s. /\ step' = step /\ pc' = pc /\ rows' = rows /\ requested' = requested
      /\ answered' = answered /\ issued' = issued /\ c \in Elems(chunk)
      /\ messages' = messages /\ prevLen' = prevLen /\ written' = written
      /\ userPersisted' = userPersisted
  BY DEF HandlerReturns
<1>k. PICK kind \in {"ok", "error"} :
        LET got == [outcome EXCEPT ![c] = kind]
        IN  /\ Executes(c, kind)
            /\ IF \E d \in Elems(chunk) : got[d] = "none"
                 THEN outcome' = got /\ UNCHANGED <<chunk, results>>
                 ELSE /\ results' = results \o
                           [i \in DOMAIN chunk |-> ToolRow(chunk[i], got[chunk[i]])]
                      /\ chunk' = <<>> /\ outcome' = NoOutcome
  BY DEF HandlerReturns
<1> DEFINE got == [outcome EXCEPT ![c] = kind]
<1>1. \A d \in Calls : d # c => effects'[d] = effects[d] /\ got[d] = outcome[d]
  BY <1>t, <1>k DEF Executes
<1>2. got[c] = kind /\ kind # "none"
  BY <1>t
<1>3. CallsInv'
  <2>1. c \in requested
    BY FirstEffect
  <2> QED BY <1>1, <1>s, <2>1 DEF Inv, CallsInv, CallOrder, OrphanIsOpen, NoOrphan
<1>4. Dispatched'
  <2>1. CASE \E d \in Elems(chunk) : got[d] = "none"
    <3>1. outcome' = got /\ chunk' = chunk /\ results' = results
      BY <1>k, <2>1
    <3>2. \A i \in DOMAIN step :
            i > Len(results) => \/ effects'[step[i]] = 0
                                \/ step[i] \in Elems(chunk) /\ got[step[i]] # "none"
      <4> SUFFICES ASSUME NEW i \in DOMAIN step, i > Len(results)
                   PROVE  \/ effects'[step[i]] = 0
                          \/ step[i] \in Elems(chunk) /\ got[step[i]] # "none"
        BY <1>s
      <4>1. step[i] \in Calls
        BY <1>t
      <4>2. CASE step[i] = c
        BY <1>s, <1>2, <4>2
      <4>3. CASE step[i] # c
        <5>1. effects'[step[i]] = effects[step[i]] /\ got[step[i]] = outcome[step[i]]
          BY <1>1, <4>1, <4>3
        <5> HIDE DEF got
        <5> QED BY <1>d, <5>1
      <4> QED BY <4>2, <4>3
    <3>3. \A d \in Calls : got[d] # "none" => d \in Elems(chunk)
      BY <1>d, <1>s, <1>1
    <3> HIDE DEF got
    <3> QED BY <1>t, <1>d, <1>s, <3>1, <3>2, <3>3 DEF Dispatched
  <2>2. CASE ~\E d \in Elems(chunk) : got[d] = "none"
    <3> DEFINE batch == [i \in DOMAIN chunk |-> ToolRow(chunk[i], got[chunk[i]])]
    <3>1. results' = results \o batch /\ chunk' = <<>> /\ outcome' = NoOutcome
      BY <1>k, <2>2
    <3>2. \A i \in 1..Len(chunk) : chunk[i] \in Calls /\ got[chunk[i]] \in Kinds
      BY <1>t, <2>2 DEF Elems, Kinds
    <3>3. \A i \in 1..Len(chunk) : ToolRow(chunk[i], got[chunk[i]]) \in ToolRows
      BY <3>2, RowConstructors
    <3>4. batch \in Seq(ToolRows) /\ Len(batch) = Len(chunk)
      <4>1. batch \in Seq(ToolRows)
        BY <1>t, <3>3, IsASeq
      <4> QED BY <1>t, <4>1, LenProperties
    <3>5. \A i \in 1..Len(chunk) : batch[i].call = step[Len(results) + i]
      BY <1>t, <1>d DEF ToolRow
    <3> HIDE DEF batch
    <3>6. /\ results' \in Seq(ToolRows) /\ Len(results') = Len(results) + Len(chunk)
          /\ \A i \in 1..(Len(results) + Len(chunk)) :
               results'[i] = IF i <= Len(results) THEN results[i] ELSE batch[i - Len(results)]
      <4>1. /\ results \o batch \in Seq(ToolRows)
            /\ Len(results \o batch) = Len(results) + Len(batch)
            /\ \A i \in 1..(Len(results) + Len(batch)) :
                 (results \o batch)[i] = IF i <= Len(results) THEN results[i]
                                                             ELSE batch[i - Len(results)]
        BY <1>t, <3>4, ConcatProperties
      <4>2. Len(batch) = Len(chunk) /\ results' = results \o batch
        BY <3>1, <3>4
      <4> QED BY <4>1, <4>2
    <3>7. \A i \in 1..Len(results') : results'[i].call = step[i]
      <4> SUFFICES ASSUME NEW i \in 1..Len(results') PROVE results'[i].call = step[i]
        OBVIOUS
      <4>1. CASE i <= Len(results)
        BY <1>t, <1>d, <3>6, <4>1
      <4>2. CASE i > Len(results)
        <5>1. i - Len(results) \in 1..Len(chunk) /\ Len(results) + (i - Len(results)) = i
          BY <1>t, <3>6, <4>2
        <5>2. results'[i] = batch[i - Len(results)]
          BY <1>t, <3>6, <4>2
        <5> QED BY <3>5, <5>1, <5>2
      <4> QED BY <1>t, <3>6, <4>1, <4>2
    <3>8. \A i \in DOMAIN step : i > Len(results') => effects'[step[i]] = 0
      <4> SUFFICES ASSUME NEW i \in DOMAIN step, i > Len(results') PROVE effects'[step[i]] = 0
        OBVIOUS
      <4>1. i > Len(results) /\ step[i] \in Calls
        BY <1>t, <3>6
      <4>2. \A j \in DOMAIN chunk : chunk[j] # step[i]
        <5> SUFFICES ASSUME NEW j \in DOMAIN chunk, chunk[j] = step[i] PROVE FALSE
          OBVIOUS
        <5>1. Len(results) + j \in DOMAIN step /\ chunk[j] = step[Len(results) + j]
          BY <1>t, <1>d, SMTT(30)
        <5>2. i = Len(results) + j
          BY <1>i, <5>1
        <5> QED BY <1>t, <3>6, <5>2
      <4>3. step[i] \notin Elems(chunk)
        BY <4>2 DEF Elems
      <4> QED BY <1>d, <1>s, <1>1, <4>1, <4>3
    <3>9. DOMAIN results' = 1..Len(results') /\ Len(results') <= Len(step) /\ Len(results') \in Nat
      BY <1>t, <1>d, <3>6, LenProperties
    <3> QED BY <1>t, <1>s, <3>1, <3>7, <3>8, <3>9 DEF Dispatched, NoOutcome
  <2> QED BY <2>1, <2>2
<1>5. StepIssued' /\ StepNotRequested' /\ StepOnRecord' /\ Resuming'
  BY <1>t, <1>s DEF Inv, StepIssued, StepNotRequested, StepOnRecord, Resuming
<1>6. Unwritten' /\ OnlyText'
  BY <1>t, <1>s DEF Inv, Unwritten, OnlyText
<1> QED BY <1>3, <1>4, <1>5, <1>6 DEF RunInv

LEMMA InvPersistResults ==
  ASSUME Inv, PersistResults
  PROVE  /\ (CallsInv /\ RunInv)'
         /\ requested' = requested
         /\ answered' = answered \cup Elems(step)
         /\ Elems(step) \subseteq requested \ answered
         /\ (requested \ answered) \ Anonymous \subseteq Elems(step)
<1>t. /\ rows \in Seq(Rows) /\ messages \in Seq(Rows) /\ results \in Seq(ToolRows)
      /\ results \in Seq(Rows) /\ step \in Seq(Calls) /\ Len(results) = Len(step)
      /\ Len(results) \in Nat /\ Len(messages) \in Nat /\ prevLen \in Nat /\ written \in Nat
      /\ DOMAIN results = 1..Len(results) /\ DOMAIN step = 1..Len(step)
      /\ pc = "act" /\ userPersisted = TRUE /\ chunk = <<>>
  BY RowConstructors, SeqMonotonic, LenProperties DEF Inv, TypeOK, Unwritten, PersistResults
<1>r. rows # <<>> /\ rows[Len(rows)] = CallsRow(step) /\ Elems(step) \subseteq requested \ answered
  BY <1>t DEF Inv, StepOnRecord
<1>1. /\ Commit(results) /\ userPersisted' = TRUE /\ written' = written + Len(results)
      /\ messages' = messages \o results /\ prevLen' = prevLen
      /\ pc' \in {"loop", "finish"} /\ step' = <<>> /\ results' = <<>> /\ chunk' = <<>>
      /\ outcome' = outcome /\ issued' = issued /\ effects' = effects
  BY <1>t DEF PersistResults, PersistStep, Batch, Stop
<1>2. {results[i].call : i \in DOMAIN results} = Elems(step)
  <2>1. \A i \in DOMAIN results : results[i].call = step[i]
    BY <1>t DEF Inv, Dispatched
  <2> QED BY <1>t, <2>1 DEF Elems
<1>3. rows' = rows \o results /\ requested' = requested /\ answered' = answered \cup Elems(step)
  BY <1>t, <1>1, <1>2, CommitTools
<1>4. Missing(rows) = Elems(step) \ Anonymous
  <2>1. Len(rows) > 0
    BY <1>t, <1>r, EmptySeq, LenProperties
  <2> QED BY <1>t, <1>r, <2>1, MissingAfterRequest
<1>5. Missing(rows') = {}
  <2>1. Missing(rows') = Missing(rows) \ Elems(step)
    BY <1>t, <1>2, <1>3, MissingAfterTools
  <2> QED BY <1>4, <2>1
<1>6. (requested \ answered) \ Anonymous = Elems(step) \ Anonymous
  BY <1>4 DEF Inv, OrphanIsOpen
<1>7. CallsInv'
  <2>1. CallOrder'
    BY <1>1, <1>3, <1>r DEF Inv, CallOrder
  <2>2. OrphanIsOpen'
    BY <1>3, <1>5, <1>6 DEF OrphanIsOpen
  <2> QED BY <1>5, <2>1, <2>2 DEF CallsInv, NoOrphan
<1>8. Unwritten'
  <2>1. Len(messages) <= prevLen + written
    BY <1>t DEF Inv, Unwritten
  <2>2. Len(messages') = Len(messages) + Len(results)
    BY <1>t, <1>1, ConcatProperties
  <2>3. Len(messages') <= prevLen' + written'
    BY <1>t, <1>1, <2>1, <2>2
  <2>4. Len(messages') \in Nat /\ prevLen' \in Nat /\ written' \in Nat
    BY <1>t, <1>1, <2>2
  <2> QED BY <1>1, <2>3, <2>4 DEF Unwritten
<1>9. Dispatched'
  <2>1. Elems(chunk) = {}
    BY <1>t DEF Elems
  <2>2. \A c \in Calls : outcome[c] = "none"
    BY <1>t, <2>1 DEF Inv, Dispatched
  <2>3. outcome = NoOutcome
    BY <2>2 DEF Inv, TypeOK, NoOutcome
  <2> QED BY <1>1, <2>3 DEF Dispatched, NoOutcome
<1>10. StepIssued' /\ StepNotRequested' /\ StepOnRecord' /\ Resuming' /\ OnlyText'
  BY <1>1 DEF StepIssued, StepNotRequested, StepOnRecord, Resuming, OnlyText
<1> QED BY <1>r, <1>3, <1>6, <1>7, <1>8, <1>9, <1>10 DEF RunInv

LEMMA InvFinish ==
  ASSUME Inv, Finish
  PROVE  (CallsInv /\ RunInv)' /\ requested' = requested /\ answered' = answered
<1> DEFINE tail == UnpersistedTail
<1>t. rows \in Seq(Rows) /\ tail \in Seq(Rows) /\ pc = "finish"
  BY TailType DEF Inv, TypeOK, Finish
<1>1. \A i \in DOMAIN tail : tail[i].role \in {"user", "text"}
  BY <1>t, TailIsText
<1>2. Commit(tail)
  BY DEF Finish
<1> HIDE DEF tail
<1>3. rows' = rows \o tail /\ requested' = requested /\ answered' = answered
  BY <1>t, <1>1, <1>2, CommitText
<1>4. Missing(rows) = {} /\ (requested \ answered) \ Anonymous = {}
  BY <1>t DEF Inv, NoOrphan, OrphanIsOpen
<1>5. Missing(rows') = {}
  <2>1. CASE tail = <<>>
    BY <1>t, <1>3, <1>4, <2>1, ConcatEmptySeq
  <2>2. CASE tail # <<>>
    <3>1. Len(tail) > 0 /\ Len(tail) \in DOMAIN tail
      BY <1>t, <2>2, EmptySeq, LenProperties
    <3>2. /\ rows' \in Seq(Rows) /\ Len(rows') > 0
          /\ rows'[Len(rows')] = tail[Len(tail)]
      BY <1>t, <1>3, <3>1, LastOfConcat
    <3> QED BY <1>1, <3>1, <3>2, MissingAfterText
  <2> QED BY <2>1, <2>2
<1>6. CallsInv'
  <2>1. CallOrder'
    BY <1>3 DEF Inv, CallOrder, Finish
  <2>2. OrphanIsOpen'
    BY <1>3, <1>4, <1>5 DEF OrphanIsOpen
  <2> QED BY <1>5, <2>1, <2>2 DEF CallsInv, NoOrphan
<1>7. RunInv'
  <2>1. CASE MaxStored = Unset
    BY <2>1 DEF Finish, EndRun, RunInv, StepIssued, StepNotRequested, StepOnRecord, Dispatched,
           Resuming, Unwritten, OnlyText, NoOutcome
  <2>2. CASE MaxStored # Unset
    BY <1>t, <2>2 DEF Finish, locals, dispatch, Inv, RunInv, StepIssued, StepNotRequested,
           StepOnRecord, Dispatched, Resuming, Unwritten, OnlyText, NoOutcome
  <2> QED BY <2>1, <2>2
<1> QED BY <1>3, <1>6, <1>7

LEMMA InvPrune ==
  ASSUME Inv, Prune
  PROVE  (CallsInv /\ RunInv)'
<1> USE DEF history
<1>1. rows \in Seq(Rows) /\ MaxStored \in Nat /\ pc = "prune"
  BY DEF Inv, TypeOK, RunStarted, Prune
<1>2. Missing(rows) = {}
  BY <1>1 DEF Inv, NoOrphan
<1>3. Missing(rows') = {}
  BY <1>1, <1>2, MissingPruned DEF Prune
<1>4. EndRun /\ UNCHANGED <<turn, issued, effects, requested, answered>>
  BY DEF Prune
<1>5. CallsInv'
  BY <1>2, <1>3, <1>4 DEF Inv, CallsInv, CallOrder, OrphanIsOpen, NoOrphan
<1>6. RunInv'
  BY <1>4 DEF RunInv, StepIssued, StepNotRequested, StepOnRecord, Dispatched, Resuming,
         Unwritten, OnlyText, EndRun, NoOutcome
<1> QED BY <1>5, <1>6

LEMMA InvStep ==
  ASSUME Inv, [Next]_vars
  PROVE  Inv'
<1>1. TypeOK' /\ RunStarted'
  BY TypeStep DEF Inv
<1>2. (CallsInv /\ RunInv)'
  <2>1. ASSUME NEW u \in Users \cup {NoUser}, StartRun(u) PROVE (CallsInv /\ RunInv)'
    BY <2>1, InvStart
  <2>2. ASSUME NEW c \in Calls, ResumeCall(c) PROVE (CallsInv /\ RunInv)'
    BY <2>2, InvResumeCall
  <2>3. ASSUME NEW c \in Calls, HandlerReturns(c) PROVE (CallsInv /\ RunInv)'
    BY <2>3, InvHandlerReturns
  <2>4. CASE ResumePersist
    BY <2>4, InvResumePersist
  <2>5. CASE BeginIteration \/ IterationsExceeded
    BY <2>5, InvLoop
  <2>6. CASE ChatEnds("stopped") \/ ChatEnds("complete")
    BY <2>6, InvChatEnds
  <2>7. CASE ChatRequests
    BY <2>7, InvChatRequests
  <2>8. CASE PersistRequest
    BY <2>8, InvPersistRequest
  <2>9. CASE LaunchChunk
    BY <2>9, InvLaunchChunk
  <2>10. CASE PersistResults
    BY <2>10, InvPersistResults
  <2>11. CASE Finish
    BY <2>11, InvFinish
  <2>12. CASE Prune
    BY <2>12, InvPrune
  <2>13. CASE Crash \/ ChatFails \/ FinishRejectsOutput
    BY <2>13, InvEndRun DEF Crash, ChatFails, FinishRejectsOutput
  <2>14. CASE UNCHANGED vars
    BY <2>14 DEF vars, Inv, CallsInv, CallOrder, OrphanIsOpen, NoOrphan, RunInv, StepIssued,
           StepNotRequested, StepOnRecord, Dispatched, Resuming, Unwritten, OnlyText, NoOutcome
  <2> QED BY <2>1, <2>2, <2>3, <2>4, <2>5, <2>6, <2>7, <2>8, <2>9, <2>10, <2>11, <2>12,
             <2>13, <2>14
          DEF Next, RunStep
<1> QED BY <1>1, <1>2 DEF Inv, CallsInv, RunInv

\* The inductive invariant holds in every reachable state.
THEOREM Invariant == Spec => []Inv
<1>1. Init => Inv
  <2> SUFFICES ASSUME Init PROVE Inv
    OBVIOUS
  <2>1. TypeOK /\ RunStarted
    BY InitType
  <2>2. rows = <<>> /\ requested = {} /\ answered = {} /\ \A c \in Calls : effects[c] = 0
    BY DEF Init
  <2>3. Missing(rows) = {}
    BY <2>2 DEF Missing
  <2>4. CallOrder /\ OrphanIsOpen /\ NoOrphan
    BY <2>2, <2>3 DEF CallOrder, OrphanIsOpen, NoOrphan
  <2>5. /\ StepIssued /\ StepNotRequested /\ StepOnRecord /\ Dispatched /\ Resuming
        /\ Unwritten /\ OnlyText
    BY DEF Init, IdleLocals, StepIssued, StepNotRequested, StepOnRecord, Dispatched, Resuming,
           Unwritten, OnlyText
  <2> QED BY <2>1, <2>4, <2>5 DEF Inv
<1>2. Inv /\ [Next]_vars => Inv'
  BY InvStep
<1> QED BY <1>1, <1>2, PTL DEF Spec

--------------------------------------------------------------------------------
(* At most once *)

\* A handler takes effect for an open call only, once per step, and for a second
\* time only if it is safe to retry.
EffectOf(c) == /\ c \in requested \ answered
               /\ c \in SafeToRetry \/ effects[c] = 0
               /\ effects' = [effects EXCEPT ![c] = @ + 1]

LEMMA EffectOfCall ==
  ASSUME Inv, NEW c \in Calls, ResumeCall(c) \/ HandlerReturns(c)
  PROVE  effects' = effects \/ EffectOf(c)
<1>1. CASE ResumeCall(c)
  <2>1. c \in requested \ answered
    BY <1>1, InvResumeCall
  <2>2. effects' = effects \/ (c \in SafeToRetry /\ effects' = [effects EXCEPT ![c] = @ + 1])
    BY <1>1 DEF ResumeCall, Executes, Replays
  <2> QED BY <2>1, <2>2 DEF EffectOf
<1>2. CASE HandlerReturns(c)
  <2>1. effects[c] = 0 /\ c \in requested \ answered
    BY <1>2, FirstEffect
  <2>2. effects' = effects \/ effects' = [effects EXCEPT ![c] = @ + 1]
    BY <1>2 DEF HandlerReturns, Executes
  <2> QED BY <2>1, <2>2 DEF EffectOf
<1> QED BY <1>1, <1>2

\* No other step of a run has effects.
LEMMA NoEffect ==
  ASSUME [Next]_vars
  PROVE  effects' = effects \/ \E c \in Calls : ResumeCall(c) \/ HandlerReturns(c)
BY DEF Next, RunStep, vars, StartRun, Crash, ResumePersist, BeginIteration, IterationsExceeded,
       ChatFails, ChatEnds, ChatRequests, PersistRequest, LaunchChunk, PersistResults,
       FinishRejectsOutput, Finish, Prune

\* However often the process dies and the session is resumed, the handler of a
\* tool that is not declared safeToRetry takes effect at most once per call.
THEOREM EffectsAtMostOnce == Spec => []AtMostOnce
<1>1. Init => AtMostOnce
  BY DEF Init, AtMostOnce
<1>2. Inv /\ AtMostOnce /\ [Next]_vars => AtMostOnce'
  <2> SUFFICES ASSUME Inv, AtMostOnce, [Next]_vars PROVE AtMostOnce'
    OBVIOUS
  <2>1. effects' = effects \/ \E c \in Calls : EffectOf(c)
    BY EffectOfCall, NoEffect
  <2>2. CASE effects' = effects
    BY <2>2 DEF AtMostOnce
  <2>3. ASSUME NEW c \in Calls, EffectOf(c) PROVE AtMostOnce'
    <3>1. effects \in [Calls -> Nat]
      BY DEF Inv, TypeOK
    <3> SUFFICES ASSUME NEW d \in Calls \ SafeToRetry PROVE effects'[d] <= 1
      BY DEF AtMostOnce
    <3>2. CASE d = c
      BY <2>3, <3>1, <3>2 DEF EffectOf
    <3>3. CASE d # c
      BY <2>3, <3>1, <3>3 DEF EffectOf, AtMostOnce
    <3> QED BY <3>2, <3>3
  <2> QED BY <2>1, <2>2, <2>3
<1>3. Spec => []Inv
  BY Invariant
<1> QED BY <1>1, <1>2, <1>3, PTL DEF Spec

--------------------------------------------------------------------------------
(* Implementing the journal *)

\* The phases of the journal, in terms of the history of the session.
LEMMA Phases ==
  ASSUME Inv
  PROVE  /\ Journal!InPhase("new") = Calls \ requested
         /\ Journal!InPhase("requested") = requested \ answered
         /\ Journal!Open = (requested \ answered) \ Anonymous
<1>1. answered \subseteq requested /\ requested \subseteq Calls
  BY DEF Inv, TypeOK, CallOrder
<1>2. \A c \in Calls : Phase[c] = IF c \in answered THEN "answered"
                                  ELSE IF c \in requested THEN "requested" ELSE "new"
  BY DEF Phase
<1>3. Journal!InPhase("new") = Calls \ requested
  BY <1>1, <1>2 DEF Journal!InPhase
<1>4. Journal!InPhase("requested") = requested \ answered
  BY <1>1, <1>2 DEF Journal!InPhase
<1> QED BY <1>3, <1>4 DEF Journal!Open

\* Steps that touch neither the history nor the effects are invisible.
LEMMA Invisible ==
  ASSUME requested' = requested, answered' = answered, effects' = effects
  PROVE  UNCHANGED Journal!jvars
<1>1. Phase' = Phase
  BY DEF Phase
<1> QED BY <1>1 DEF Journal!jvars

\* Every step of a run is a step of the journal, or invisible in it.
LEMMA JournalStep ==
  ASSUME Inv, [Next]_vars
  PROVE  [Journal!JNext]_(Journal!jvars)
<1>p. /\ answered \subseteq requested /\ requested \subseteq Calls
      /\ step \in Seq(Calls) /\ Elems(step) \subseteq Calls
  BY DEF Inv, TypeOK, CallOrder, Elems
<1>q. \A c \in Calls : Phase[c] = IF c \in answered THEN "answered"
                                  ELSE IF c \in requested THEN "requested" ELSE "new"
  BY DEF Phase
<1>1. ASSUME NEW c \in Calls, ResumeCall(c) \/ HandlerReturns(c)
      PROVE  [Journal!JNext]_(Journal!jvars)
  <2>1. requested' = requested /\ answered' = answered
    BY <1>1 DEF ResumeCall, HandlerReturns, history
  <2>2. CASE effects' = effects
    BY <2>1, <2>2, Invisible
  <2>3. CASE EffectOf(c)
    <3>1. Phase' = Phase
      BY <2>1 DEF Phase
    <3>2. Phase[c] = "requested"
      BY <1>q, <2>3 DEF EffectOf
    <3>3. Journal!Effect(c)
      BY <2>3, <3>1, <3>2 DEF EffectOf, Journal!Effect
    <3> QED BY <3>3 DEF Journal!JNext
  <2> QED BY <1>1, <2>2, <2>3, EffectOfCall
<1>2. CASE PersistRequest
  <2>1. /\ Elems(step) \cap requested = {}
        /\ requested' = requested \cup Elems(step) /\ answered' = answered
        /\ (requested \ answered) \ Anonymous = {} /\ effects' = effects
    BY <1>2, InvPersistRequest DEF PersistRequest
  <2>2. Phase' = [c \in Calls |-> IF c \in Elems(step) THEN "requested" ELSE Phase[c]]
    <3>1. Phase' = [c \in Calls |-> IF c \in answered THEN "answered"
                      ELSE IF c \in requested \cup Elems(step) THEN "requested" ELSE "new"]
      BY <2>1 DEF Phase
    <3>2. \A c \in Calls :
            (IF c \in answered THEN "answered"
               ELSE IF c \in requested \cup Elems(step) THEN "requested" ELSE "new")
              = IF c \in Elems(step) THEN "requested" ELSE Phase[c]
      BY <1>p, <1>q, <2>1
    <3> QED BY <3>1, <3>2
  <2>3. Journal!Open = {} /\ Elems(step) \subseteq Journal!InPhase("new")
    BY <1>p, <2>1, Phases
  <2>4. Journal!Request(Elems(step))
    BY <2>1, <2>2, <2>3 DEF Journal!Request
  <2> QED BY <1>p, <2>4 DEF Journal!JNext
<1>3. ASSUME NEW C \in SUBSET Calls,
             requested' = requested, answered' = answered \cup C, effects' = effects,
             (requested \ answered) \ Anonymous \subseteq C, C \subseteq requested \ answered
      PROVE  [Journal!JNext]_(Journal!jvars)
  <2>1. Phase' = [c \in Calls |-> IF c \in C THEN "answered" ELSE Phase[c]]
    <3>1. Phase' = [c \in Calls |-> IF c \in answered \cup C THEN "answered"
                                    ELSE IF c \in requested THEN "requested" ELSE "new"]
      BY <1>3 DEF Phase
    <3>2. \A c \in Calls :
            (IF c \in answered \cup C THEN "answered"
               ELSE IF c \in requested THEN "requested" ELSE "new")
              = IF c \in C THEN "answered" ELSE Phase[c]
      BY <1>q
    <3> QED BY <3>1, <3>2
  <2>2. Journal!Open \subseteq C /\ C \subseteq Journal!InPhase("requested")
    BY <1>3, Phases
  <2>3. Journal!Answer(C)
    BY <1>3, <2>1, <2>2 DEF Journal!Answer
  <2> QED BY <2>3 DEF Journal!JNext
<1>4. CASE PersistResults
  <2>1. effects' = effects
    BY <1>4 DEF PersistResults
  <2> QED BY <1>p, <1>3, <1>4, <2>1, InvPersistResults
<1>5. CASE ResumePersist
  <2>1. /\ requested' = requested /\ answered' = answered \cup Missing(rows)
        /\ effects' = effects
    BY <1>5, InvResumePersist DEF ResumePersist
  <2>2. Missing(rows) = (requested \ answered) \ Anonymous
    BY DEF Inv, OrphanIsOpen
  <2> QED BY <1>p, <1>3, <2>1, <2>2
<1>6. CASE Finish
  <2>1. effects' = effects
    BY <1>6 DEF Finish
  <2> QED BY <1>6, <2>1, InvFinish, Invisible
<1>7. CASE UNCHANGED <<history, effects>>
  BY <1>7, Invisible DEF history
<1>8. \/ \E c \in Calls : ResumeCall(c) \/ HandlerReturns(c)
      \/ PersistRequest \/ PersistResults \/ ResumePersist \/ Finish
      \/ UNCHANGED <<history, effects>>
  BY DEF Next, RunStep, vars, history, StartRun, Crash, BeginIteration, IterationsExceeded,
         ChatFails, ChatEnds, ChatRequests, LaunchChunk, FinishRejectsOutput, Prune
<1> QED BY <1>1, <1>2, <1>4, <1>5, <1>6, <1>7, <1>8

\* Durable runs implement the journal of tool calls: a call is on record before
\* its handler runs, and all open calls of a step are answered at once.
THEOREM RunsImplementJournal == Spec => ImplementsJournal
<1>1. Init => Journal!JInit
  <2> SUFFICES ASSUME Init PROVE Journal!JInit
    OBVIOUS
  <2>1. Phase = [c \in Calls |-> "new"]
    BY DEF Init, Phase
  <2> QED BY <2>1 DEF Init, Journal!JInit
<1>2. Inv /\ [Next]_vars => [Journal!JNext]_(Journal!jvars)
  BY JournalStep
<1>3. Spec => []Inv
  BY Invariant
<1> QED BY <1>1, <1>2, <1>3, PTL DEF Spec, ImplementsJournal, Journal!JSpec

--------------------------------------------------------------------------------
(* Ownership *)

\* A run in progress may access the session it works on.
CallerMayAccess == pc # "idle" => MayAccess(caller)

LEMMA CallerStep ==
  ASSUME CallerMayAccess, [Next]_vars
  PROVE  CallerMayAccess' /\ ((owner \in Users) => (owner' = owner))
<1> USE DEF store, locals
<1>1. ASSUME NEW u \in Users \cup {NoUser}, StartRun(u)
      PROVE  CallerMayAccess' /\ owner' = owner
  BY <1>1 DEF StartRun, CallerMayAccess, MayAccess
<1>2. ASSUME pc # "idle", owner' = caller, pc' = "idle" \/ caller' = caller
      PROVE  CallerMayAccess' /\ ((owner \in Users) => (owner' = owner))
  BY <1>2 DEF CallerMayAccess, MayAccess
<1>3. CASE PersistRequest \/ PersistResults \/ ResumePersist \/ Finish
  <2>1. pc # "idle" /\ owner' = caller /\ (pc' = "idle" \/ caller' = caller)
    BY <1>3 DEF PersistRequest, PersistResults, ResumePersist, Finish, PersistStep, Commit, EndRun
  <2> QED BY <1>2, <2>1
<1>4. ASSUME owner' = owner, pc' = "idle" \/ (pc # "idle" /\ caller' = caller)
      PROVE  CallerMayAccess' /\ ((owner \in Users) => (owner' = owner))
  BY <1>4 DEF CallerMayAccess, MayAccess
<1>5. CASE UNCHANGED vars
  BY <1>5 DEF vars, CallerMayAccess, MayAccess
<1>6. ASSUME RunStep \/ Crash, ~(PersistRequest \/ PersistResults \/ ResumePersist \/ Finish)
      PROVE  owner' = owner /\ (pc' = "idle" \/ (pc # "idle" /\ caller' = caller))
  BY <1>6 DEF RunStep, Crash, ResumeCall, HandlerReturns, BeginIteration, IterationsExceeded,
              ChatFails, ChatEnds, ChatRequests, LaunchChunk, FinishRejectsOutput, Prune,
              EndRun, Stop
<1> QED BY <1>1, <1>3, <1>4, <1>5, <1>6 DEF Next

\* A session that has an owner keeps it, whoever calls run() with its id.
THEOREM OwnerKept == Spec => OwnerFixed
<1>1. Init => CallerMayAccess
  BY DEF Init, IdleLocals, CallerMayAccess
<1>2. CallerMayAccess /\ [Next]_vars => CallerMayAccess'
  BY CallerStep
<1>3. CallerMayAccess /\ [Next]_vars => [(owner \in Users) => (owner' = owner)]_vars
  BY CallerStep
<1> QED BY <1>1, <1>2, <1>3, PTL DEF Spec, OwnerFixed

(***************************************************************************)
(* The conversation: a session without context compression loses nothing   *)
(* of what was said.  The conversation of a run is the store's, it is      *)
(* structurally sound, and a turn that returned is in the store.           *)
(***************************************************************************)
\* The user message of a turn that has persisted no step yet.
Pending == IF userPersisted THEN <<>> ELSE <<UserRow(turn)>>

\* At each await the conversation is what is stored and what the next batch of
\* the step will store.
Mirror == /\ pc \in {"loop", "chat"} => messages = rows \o Pending
          /\ pc = "request" => messages = rows \o Batch(RequestBatch)
          /\ pc = "act" => messages = rows

\* Until it is stored, the user message is the first new one of the conversation.
UserFirst ==
  pc \in {"loop", "chat", "request", "finish"} /\ ~userPersisted =>
    prevLen < Len(messages) /\ messages[prevLen + 1] = UserRow(turn)

\* Once it is stored it is in the store.
UserStored == userPersisted => UserRow(turn) \in Elems(rows)

Mirrored == Mirror /\ UserFirst /\ UserStored

\* A conversation that is sound but for a request at its end that may still lack
\* answers: what the store holds at any moment, also between phases A and B.
Answerable(r) ==
  \A i \in DOMAIN r : /\ r[i].role = "calls" => IsAnswered(r, i) \/ IsTailRequest(r, i)
                      /\ r[i].role = "tool" => HasRequest(r, i)

\* What an unpruned store keeps.
Kept == pc # "prune" /\ TurnStored /\ Answerable(rows)

--------------------------------------------------------------------------------
(* Sequences of rows *)

\* One row more, or two.
LEMMA OneMore ==
  ASSUME NEW r \in Seq(Rows), NEW x \in Rows, NEW y \in Rows
  PROVE  /\ Append(r, x) = r \o <<x>>
         /\ Append(r \o <<x>>, y) = r \o (<<x>> \o <<y>>)
         /\ r \o <<x>> \in Seq(Rows)
<1>1. <<x>> \in Seq(Rows) /\ <<y>> \in Seq(Rows)
  OBVIOUS
<1>2. r \o <<x>> \in Seq(Rows)
  BY <1>1, ConcatProperties
<1>3. Append(r, x) = r \o <<x>>
  BY AppendIsConcat
<1>4. Append(r \o <<x>>, y) = (r \o <<x>>) \o <<y>>
  BY <1>2, AppendIsConcat
<1>5. (r \o <<x>>) \o <<y>> = r \o (<<x>> \o <<y>>)
  BY <1>1, ConcatAssociative
<1> QED BY <1>2, <1>3, <1>4, <1>5

\* Nothing is lost by adding rows.
LEMMA ElemsGrow ==
  ASSUME NEW r \in Seq(Rows), NEW t \in Seq(Rows)
  PROVE  Elems(r) \subseteq Elems(r \o t) /\ Elems(t) \subseteq Elems(r \o t)
<1>1. /\ Len(r) \in Nat /\ Len(t) \in Nat
      /\ DOMAIN r = 1..Len(r) /\ DOMAIN t = 1..Len(t)
      /\ r \o t \in Seq(Rows) /\ Len(r \o t) = Len(r) + Len(t)
  BY LenProperties, ConcatProperties
<1>2. DOMAIN (r \o t) = 1..(Len(r) + Len(t))
  BY <1>1, LenProperties
<1>3. \A i \in 1..Len(r) : (r \o t)[i] = r[i]
  BY <1>1, ConcatProperties
<1>4. \A i \in 1..Len(t) : (r \o t)[Len(r) + i] = t[i]
  BY <1>1, ConcatProperties
<1>5. Elems(r) \subseteq Elems(r \o t)
  BY <1>1, <1>2, <1>3 DEF Elems
<1>6. Elems(t) \subseteq Elems(r \o t)
  <2>1. \A i \in 1..Len(t) : Len(r) + i \in 1..(Len(r) + Len(t))
    BY <1>1
  <2> QED BY <1>1, <1>2, <1>4, <2>1 DEF Elems
<1> QED BY <1>5, <1>6

\* An answered request stays answered, and a result keeps its request.
LEMMA AnsweredStays ==
  ASSUME NEW r \in Seq(Rows), NEW t \in Seq(Rows), NEW i \in DOMAIN r
  PROVE  /\ (r \o t)[i] = r[i]
         /\ IsAnswered(r, i) => IsAnswered(r \o t, i)
         /\ HasRequest(r, i) => HasRequest(r \o t, i)
<1> DEFINE q == r \o t
<1>1. /\ Len(r) \in Nat /\ Len(t) \in Nat /\ DOMAIN r = 1..Len(r)
      /\ Len(q) = Len(r) + Len(t)
      /\ \A j \in 1..Len(r) : q[j] = r[j]
  BY LenProperties, ConcatProperties
<1> HIDE DEF q
<1>2. IsAnswered(r, i) => IsAnswered(q, i)
  <2> SUFFICES ASSUME IsAnswered(r, i), NEW c \in Elems(q[i].calls) \ Anonymous
               PROVE  \E j \in (i + 1)..Len(q) : /\ q[j].role = "tool" /\ q[j].call = c
                                                 /\ \A k \in (i + 1)..j : q[k].role = "tool"
    BY DEF IsAnswered
  <2>1. c \in Elems(r[i].calls) \ Anonymous
    BY <1>1
  <2>2. PICK j \in (i + 1)..Len(r) : /\ r[j].role = "tool" /\ r[j].call = c
                                     /\ \A k \in (i + 1)..j : r[k].role = "tool"
    BY <2>1 DEF IsAnswered
  <2>3. j \in (i + 1)..Len(q) /\ \A k \in (i + 1)..j : k \in 1..Len(r)
    BY <1>1, <2>2
  <2>4. j \in 1..Len(r)
    BY <1>1, <2>2
  <2> QED BY <1>1, <2>2, <2>3, <2>4
<1>3. HasRequest(r, i) => HasRequest(q, i)
  <2> SUFFICES ASSUME HasRequest(r, i) PROVE HasRequest(q, i)
    OBVIOUS
  <2>1. PICK h \in 1..(i - 1) : /\ r[h].role = "calls" /\ r[i].call \in Elems(r[h].calls)
                                /\ \A k \in (h + 1)..i : r[k].role = "tool"
    BY DEF HasRequest
  <2>2. h \in 1..Len(r) /\ \A k \in (h + 1)..i : k \in 1..Len(r)
    BY <1>1, <2>1
  <2> QED BY <1>1, <2>1, <2>2 DEF HasRequest
<1> QED BY <1>1, <1>2, <1>3 DEF q

\* When nothing is missing, the request at the end is answered too.
LEMMA SoundWhenNothingMissing ==
  ASSUME NEW r \in Seq(Rows), Answerable(r), Missing(r) = {}
  PROVE  Sound(r)
<1> SUFFICES ASSUME NEW i \in DOMAIN r, r[i].role = "calls", IsTailRequest(r, i)
             PROVE  IsAnswered(r, i)
  BY DEF Answerable, Sound
<1> SUFFICES ASSUME NEW c \in Elems(r[i].calls) \ Anonymous
             PROVE  \E j \in (i + 1)..Len(r) : /\ r[j].role = "tool" /\ r[j].call = c
                                               /\ \A k \in (i + 1)..j : r[k].role = "tool"
  BY DEF IsAnswered
<1>1. Len(r) \in Nat /\ DOMAIN r = 1..Len(r) /\ r[i] \in Rows
  BY LenProperties
<1>2. r[i].calls \in Seq(Calls)
  BY <1>1 DEF Rows, ToolRows
<1>3. c \in Calls \ Anonymous
  BY <1>2 DEF Elems
<1>4. PICK j \in (i + 1)..Len(r) : r[j].call = c
  BY <1>3 DEF Missing
<1>5. \A k \in (i + 1)..j : k \in (i + 1)..Len(r)
  BY <1>1, <1>4
<1> QED BY <1>4, <1>5 DEF IsTailRequest

\* To a sound conversation, messages and then a request may be added.
LEMMA AnswerableAfterStep ==
  ASSUME NEW r \in Seq(Rows), NEW t \in Seq(Rows), Sound(r),
         \A m \in DOMAIN t : \/ t[m].role \in {"user", "text"}
                             \/ t[m].role = "calls" /\ m = Len(t)
  PROVE  Answerable(r \o t)
<1> DEFINE q == r \o t
<1>1. /\ Len(r) \in Nat /\ Len(t) \in Nat
      /\ DOMAIN r = 1..Len(r) /\ DOMAIN t = 1..Len(t)
      /\ q \in Seq(Rows) /\ Len(q) = Len(r) + Len(t)
  BY LenProperties, ConcatProperties
<1>2. DOMAIN q = 1..(Len(r) + Len(t))
  BY <1>1, LenProperties
<1>3. \A m \in 1..Len(t) : q[Len(r) + m] = t[m]
  BY <1>1, ConcatProperties
<1> SUFFICES ASSUME NEW i \in DOMAIN q
             PROVE  /\ q[i].role = "calls" => IsAnswered(q, i) \/ IsTailRequest(q, i)
                    /\ q[i].role = "tool" => HasRequest(q, i)
  BY DEF Answerable
<1>4. CASE i \in DOMAIN r
  BY <1>4, AnsweredStays DEF Sound
<1>5. CASE i \notin DOMAIN r
  <2> DEFINE m == i - Len(r)
  <2>1. m \in 1..Len(t) /\ i = Len(r) + m
    BY <1>1, <1>2, <1>5
  <2>2. q[i] = t[m]
    BY <1>3, <2>1
  <2>3. q[i].role # "tool"
    BY <1>1, <2>1, <2>2
  <2>4. q[i].role = "calls" => i = Len(q)
    BY <1>1, <2>1, <2>2
  <2>5. q[i].role = "calls" => IsTailRequest(q, i)
    BY <1>1, <2>4 DEF IsTailRequest
  <2> QED BY <2>3, <2>5
<1> QED BY <1>4, <1>5

\* To any, results of the request at its end.
LEMMA AnswerableAfterTools ==
  ASSUME NEW r \in Seq(Rows), NEW t \in Seq(ToolRows), Answerable(r),
         \A m \in DOMAIN t :
           \E i \in DOMAIN r : IsTailRequest(r, i) /\ t[m].call \in Elems(r[i].calls)
  PROVE  Answerable(r \o t)
<1> DEFINE q == r \o t
<1>0. t \in Seq(Rows)
  BY RowConstructors, SeqMonotonic
<1>1. /\ Len(r) \in Nat /\ Len(t) \in Nat
      /\ DOMAIN r = 1..Len(r) /\ DOMAIN t = 1..Len(t)
      /\ q \in Seq(Rows) /\ Len(q) = Len(r) + Len(t)
  BY <1>0, LenProperties, ConcatProperties
<1>2. DOMAIN q = 1..(Len(r) + Len(t))
  BY <1>1, LenProperties
<1>3. \A m \in 1..Len(t) : q[Len(r) + m] = t[m] /\ t[m].role = "tool"
  <2>1. \A m \in 1..Len(t) : q[Len(r) + m] = t[m]
    BY <1>0, <1>1, ConcatProperties
  <2>2. \A m \in 1..Len(t) : t[m] \in ToolRows
    BY <1>1
  <2> QED BY <2>1, <2>2 DEF ToolRows
<1>4. \A i \in DOMAIN r : q[i] = r[i]
  BY <1>0, AnsweredStays
<1>5. \A j \in 1..Len(q) : j > Len(r) => q[j].role = "tool"
  <2> SUFFICES ASSUME NEW j \in 1..Len(q), j > Len(r) PROVE q[j].role = "tool"
    OBVIOUS
  <2>1. j - Len(r) \in 1..Len(t) /\ j = Len(r) + (j - Len(r))
    BY <1>1
  <2> QED BY <1>3, <2>1
<1>6. \A i \in DOMAIN r : IsTailRequest(r, i) => IsTailRequest(q, i)
  <2> SUFFICES ASSUME NEW i \in DOMAIN r, IsTailRequest(r, i) PROVE IsTailRequest(q, i)
    OBVIOUS
  <2> SUFFICES ASSUME NEW j \in (i + 1)..Len(q) PROVE q[j].role = "tool"
    BY <1>4 DEF IsTailRequest
  <2>1. j \in 1..Len(q)
    BY <1>1
  <2>2. CASE j > Len(r)
    BY <1>5, <2>1, <2>2
  <2>3. CASE ~(j > Len(r))
    <3>1. j \in (i + 1)..Len(r) /\ j \in DOMAIN r
      BY <1>1, <2>1, <2>3
    <3> QED BY <1>4, <3>1 DEF IsTailRequest
  <2> QED BY <2>2, <2>3
<1> SUFFICES ASSUME NEW i \in DOMAIN q
             PROVE  /\ q[i].role = "calls" => IsAnswered(q, i) \/ IsTailRequest(q, i)
                    /\ q[i].role = "tool" => HasRequest(q, i)
  BY DEF Answerable
<1>7. CASE i \in DOMAIN r
  BY <1>0, <1>4, <1>6, <1>7, AnsweredStays DEF Answerable
<1>8. CASE i \notin DOMAIN r
  <2> DEFINE m == i - Len(r)
  <2>1. m \in 1..Len(t) /\ i = Len(r) + m
    BY <1>1, <1>2, <1>8
  <2>2. q[i] = t[m] /\ q[i].role = "tool"
    BY <1>3, <2>1
  <2>3. PICK h \in DOMAIN r : IsTailRequest(r, h) /\ t[m].call \in Elems(r[h].calls)
    BY <1>1, <2>1
  <2>4. h \in 1..(i - 1) /\ q[h].role = "calls" /\ q[i].call \in Elems(q[h].calls)
    BY <1>1, <1>4, <2>1, <2>2, <2>3 DEF IsTailRequest
  <2>5. \A k \in (h + 1)..i : k \in (h + 1)..Len(q)
    BY <1>1, <1>2
  <2>6. \A k \in (h + 1)..i : q[k].role = "tool"
    BY <1>6, <2>3, <2>5 DEF IsTailRequest
  <2>7. HasRequest(q, i)
    BY <2>4, <2>6 DEF HasRequest
  <2> QED BY <2>2, <2>7
<1> QED BY <1>7, <1>8

--------------------------------------------------------------------------------
(* The conversation is the store's *)

\* Facts that every step below needs.
LEMMA Typed ==
  ASSUME Inv
  PROVE  /\ rows \in Seq(Rows) /\ messages \in Seq(Rows) /\ results \in Seq(Rows)
         /\ step \in Seq(Calls) /\ prevLen \in Nat
         /\ pc # "idle" => turn \in Turns
         /\ pc \in {"idle", "resume"} => ~userPersisted
BY RowConstructors, SeqMonotonic DEF Inv, TypeOK, RunStarted, Unwritten

\* Over with the run, over with its locals.
LEMMA MirroredEndRun ==
  ASSUME EndRun
  PROVE  Mirrored'
BY DEF EndRun, Mirrored, Mirror, UserFirst, UserStored

\* A run begins with the user message behind what is stored.
LEMMA MirroredStart ==
  ASSUME Inv, NEW u \in Users \cup {NoUser}, StartRun(u)
  PROVE  Mirrored'
<1>1. rows \in Seq(Rows) /\ ~userPersisted /\ ~userPersisted'
  BY Typed DEF StartRun, locals
<1>2. turn' = turn + 1 /\ turn' \in Turns
  BY BoundsAssumption DEF StartRun, Inv, TypeOK, Turns
<1>3. UserRow(turn') \in Rows
  BY <1>2, RowConstructors
<1>4. rows' = rows /\ prevLen' = Len(rows)
  BY DEF StartRun, store
<1>5. CASE Missing(rows) = {}
  <2>1. pc' = "loop" /\ messages' = Append(rows, UserRow(turn'))
    BY <1>2, <1>5 DEF StartRun
  <2>2. Append(rows, UserRow(turn')) = rows \o <<UserRow(turn')>>
    BY <1>1, <1>3, OneMore
  <2>3. Len(messages') = Len(rows) + 1 /\ messages'[Len(rows) + 1] = UserRow(turn')
    BY <1>1, <1>3, <2>1, AppendProperties
  <2>4. Len(rows) \in Nat
    BY <1>1, LenProperties
  <2> QED BY <1>1, <1>4, <2>1, <2>2, <2>3, <2>4
          DEF Mirrored, Mirror, UserFirst, UserStored, Pending
<1>6. CASE Missing(rows) # {}
  <2>1. pc' = "resume"
    BY <1>6 DEF StartRun
  <2> QED BY <1>1, <2>1 DEF Mirrored, Mirror, UserFirst, UserStored
<1> QED BY <1>5, <1>6

\* So does a resumed one, once the answers of the orphan are stored.
LEMMA MirroredResumePersist ==
  ASSUME Inv, ResumePersist
  PROVE  Mirrored'
<1>1. /\ rows \in Seq(Rows) /\ messages \in Seq(Rows) /\ results \in Seq(Rows)
      /\ turn \in Turns /\ ~userPersisted
  BY Typed DEF ResumePersist
<1>2. messages = rows
  BY DEF ResumePersist, Inv, Resuming
<1>3. rows' = rows \o results
  BY DEF ResumePersist, Commit
<1>4. UserRow(turn) \in Rows
  BY <1>1, RowConstructors
<1>5. rows' \in Seq(Rows) /\ Len(rows') = Len(rows) + Len(results)
  BY <1>1, <1>3, ConcatProperties
<1>6. /\ pc' = "loop" /\ messages' = Append(rows', UserRow(turn)) /\ turn' = turn
      /\ prevLen' = Len(rows') /\ ~userPersisted'
  BY <1>1, <1>2, <1>3, <1>5 DEF ResumePersist
<1>7. Append(rows', UserRow(turn)) = rows' \o <<UserRow(turn)>>
  BY <1>4, <1>5, OneMore
<1>8. Len(messages') = Len(rows') + 1 /\ messages'[Len(rows') + 1] = UserRow(turn)
  BY <1>4, <1>5, <1>6, AppendProperties
<1>9. Len(rows') \in Nat
  BY <1>5, LenProperties
<1> QED BY <1>6, <1>7, <1>8, <1>9 DEF Mirrored, Mirror, UserFirst, UserStored, Pending

\* The response of the LLM comes behind what is stored and what is pending.
LEMMA MirroredChat ==
  ASSUME Inv, Mirrored, ChatRequests \/ (\E s \in {"stopped", "complete"} : ChatEnds(s))
  PROVE  Mirrored'
<1>1. /\ rows \in Seq(Rows) /\ messages \in Seq(Rows) /\ turn \in Turns /\ prevLen \in Nat
      /\ pc = "chat" /\ Len(messages) \in Nat
  BY Typed, LenProperties DEF ChatRequests, ChatEnds
<1>2. UNCHANGED <<rows, prevLen, userPersisted, turn>>
  BY DEF ChatRequests, ChatEnds, store
<1>3. pc' \in {"request", "finish"}
  BY DEF ChatRequests, ChatEnds, Stop
<1>4. messages = rows \o Pending
  BY <1>1 DEF Mirrored, Mirror
<1>5. UserStored'
  BY <1>2 DEF Mirrored, UserStored
<1>6. messages' = messages \/ \E x \in Rows : messages' = Append(messages, x)
  <2>1. CASE ChatRequests
    <3>1. PICK s \in Responses : step' = s /\ messages' = Append(messages, CallsRow(s))
      BY <2>1 DEF ChatRequests
    <3>2. step' \in Seq(Calls)
      BY TypeStep, <2>1 DEF Inv, Next, RunStep, TypeOK
    <3> QED BY <3>1, <3>2, RowConstructors
  <2>2. CASE \E s \in {"stopped", "complete"} : ChatEnds(s)
    BY <1>1, <2>2, RowConstructors DEF ChatEnds
  <2> QED BY <2>1, <2>2
<1>7. UserFirst'
  <2>1. /\ Len(messages) <= Len(messages') /\ Len(messages') \in Nat
        /\ \A i \in 1..Len(messages) : messages'[i] = messages[i]
    BY <1>1, <1>6, AppendProperties
  <2> SUFFICES ASSUME ~userPersisted PROVE UserFirst'
    BY <1>2 DEF UserFirst
  <2>2. prevLen < Len(messages) /\ messages[prevLen + 1] = UserRow(turn)
    BY <1>1 DEF Mirrored, UserFirst
  <2>3. prevLen + 1 \in 1..Len(messages)
    BY <1>1, <2>2
  <2> QED BY <1>1, <1>2, <2>1, <2>2, <2>3 DEF UserFirst
<1>8. Mirror'
  <2>1. CASE ChatRequests
    <3>1. /\ pc' = "request" /\ messages' = Append(messages, CallsRow(step'))
      BY <2>1 DEF ChatRequests
    <3>2. step' \in Seq(Calls)
      BY TypeStep, <2>1 DEF Inv, Next, RunStep, TypeOK
    <3>3. CallsRow(step') \in Rows /\ UserRow(turn) \in Rows
      BY <1>1, <3>2, RowConstructors
    <3>4. CASE userPersisted
      <4>1. messages = rows
        BY <1>1, <1>4, <3>4, ConcatEmptySeq DEF Pending
      <4>2. Append(rows, CallsRow(step')) = rows \o <<CallsRow(step')>>
        BY <1>1, <3>3, OneMore
      <4> QED BY <1>2, <3>1, <3>4, <4>1, <4>2 DEF Mirror, Batch, RequestBatch
    <3>5. CASE ~userPersisted
      <4>1. messages = rows \o <<UserRow(turn)>>
        BY <1>4, <3>5 DEF Pending
      <4>2. Append(messages, CallsRow(step')) = rows \o (<<UserRow(turn)>> \o <<CallsRow(step')>>)
        BY <1>1, <3>3, <4>1, OneMore
      <4> QED BY <1>2, <3>1, <3>5, <4>1, <4>2 DEF Mirror, Batch, RequestBatch
    <3> QED BY <3>4, <3>5
  <2>2. CASE \E s \in {"stopped", "complete"} : ChatEnds(s)
    BY <2>2 DEF ChatEnds, Stop, Mirror
  <2> QED BY <2>1, <2>2
<1> QED BY <1>5, <1>7, <1>8 DEF Mirrored

\* Each phase of a step stores what the conversation has and the store lacks.
LEMMA MirroredPersist ==
  ASSUME Inv, Mirrored, PersistRequest \/ PersistResults
  PROVE  Mirrored'
<1>1. /\ rows \in Seq(Rows) /\ messages \in Seq(Rows) /\ results \in Seq(Rows)
      /\ step \in Seq(Calls) /\ turn \in Turns
  BY Typed DEF PersistRequest, PersistResults
<1>2. UserRow(turn) \in Rows /\ CallsRow(step) \in Rows
  BY <1>1, RowConstructors
<1>3. CASE PersistRequest
  <2>1. rows' = rows \o Batch(RequestBatch) /\ userPersisted'
    BY <1>3 DEF PersistRequest, PersistStep, Commit
  <2>2. messages' = messages /\ pc' = "act" /\ turn' = turn
    BY <1>3 DEF PersistRequest
  <2>3. messages' = rows'
    BY <1>3, <2>1, <2>2 DEF PersistRequest, Mirrored, Mirror
  <2>4. UserRow(turn) \in Elems(rows')
    <3>1. CASE userPersisted
      <4>1. <<CallsRow(step)>> \in Seq(Rows)
        BY <1>2
      <4>2. rows' = rows \o <<CallsRow(step)>>
        BY <2>1, <3>1 DEF Batch, RequestBatch
      <4>3. UserRow(turn) \in Elems(rows)
        BY <3>1 DEF Mirrored, UserStored
      <4> QED BY <1>1, <4>1, <4>2, <4>3, ElemsGrow
    <3>2. CASE ~userPersisted
      <4>1. <<UserRow(turn)>> \in Seq(Rows) /\ <<CallsRow(step)>> \in Seq(Rows)
        BY <1>2
      <4>2. <<UserRow(turn)>> \o <<CallsRow(step)>> \in Seq(Rows)
        BY <4>1, ConcatProperties
      <4>3. rows' = rows \o (<<UserRow(turn)>> \o <<CallsRow(step)>>)
        BY <2>1, <3>2 DEF Batch, RequestBatch
      <4>4. UserRow(turn) \in Elems(<<UserRow(turn)>>)
        BY DEF Elems
      <4>5. UserRow(turn) \in Elems(<<UserRow(turn)>> \o <<CallsRow(step)>>)
        BY <4>1, <4>4, ElemsGrow
      <4> QED BY <1>1, <4>2, <4>3, <4>5, ElemsGrow
    <3> QED BY <3>1, <3>2
  <2> QED BY <2>1, <2>2, <2>3, <2>4 DEF Mirrored, Mirror, UserFirst, UserStored
<1>4. CASE PersistResults
  <2>1. userPersisted /\ messages = rows /\ UserRow(turn) \in Elems(rows)
    BY <1>4 DEF PersistResults, Inv, Unwritten, Mirrored, Mirror, UserStored
  <2>2. rows' = rows \o results /\ userPersisted'
    BY <1>4, <2>1 DEF PersistResults, PersistStep, Commit, Batch
  <2>3. messages' = messages \o results /\ turn' = turn /\ pc' \in {"loop", "finish"}
    BY <1>4 DEF PersistResults, Stop
  <2>4. messages' = rows' /\ rows' \in Seq(Rows)
    BY <1>1, <2>1, <2>2, <2>3, ConcatProperties
  <2>5. messages' = rows' \o <<>>
    BY <2>4, ConcatEmptySeq
  <2>6. UserRow(turn) \in Elems(rows')
    BY <1>1, <2>1, <2>2, ElemsGrow
  <2> QED BY <2>2, <2>3, <2>5, <2>6 DEF Mirrored, Mirror, UserFirst, UserStored, Pending
<1> QED BY <1>3, <1>4

\* Without compression every step keeps the conversation and the store together.
LEMMA MirroredStep ==
  ASSUME ~Compression, Inv, Mirrored, [Next]_vars
  PROVE  Mirrored'
<1> USE DEF store, locals, dispatch, history
<1>1. ASSUME NEW c \in Calls, ResumeCall(c) \/ HandlerReturns(c) PROVE Mirrored'
  <2>1. UNCHANGED <<rows, pc, messages, prevLen, userPersisted, step, turn>>
    BY <1>1 DEF ResumeCall, HandlerReturns
  <2> QED BY <2>1 DEF Mirrored, Mirror, UserFirst, UserStored, Pending, Batch, RequestBatch
<1>2. CASE BeginIteration \/ IterationsExceeded
  <2>1. /\ UNCHANGED <<rows, messages, prevLen, userPersisted, turn>>
        /\ pc = "loop" /\ pc' \in {"chat", "finish"}
    BY <1>2 DEF BeginIteration, IterationsExceeded, Stop
  <2> QED BY <2>1 DEF Mirrored, Mirror, UserFirst, UserStored, Pending
<1>3. CASE LaunchChunk
  <2>1. UNCHANGED <<rows, pc, messages, prevLen, userPersisted, step, turn>>
    BY <1>3 DEF LaunchChunk
  <2> QED BY <2>1 DEF Mirrored, Mirror, UserFirst, UserStored, Pending, Batch, RequestBatch
<1>4. CASE Finish
  <2>1. CASE MaxStored = Unset
    BY <1>4, <2>1, MirroredEndRun DEF Finish
  <2>2. CASE MaxStored # Unset
    <3>1. /\ pc' = "prune" /\ UNCHANGED <<userPersisted, turn>>
          /\ rows' = rows \o UnpersistedTail
      BY <1>4, <2>2 DEF Finish, Commit
    <3>2. UnpersistedTail \in Seq(Rows) /\ rows \in Seq(Rows)
      BY TailType, Typed DEF Inv
    <3>3. Elems(rows) \subseteq Elems(rows')
      BY <3>1, <3>2, ElemsGrow
    <3> QED BY <3>1, <3>3 DEF Mirrored, Mirror, UserFirst, UserStored
  <2> QED BY <2>1, <2>2
<1>5. CASE Prune \/ Crash \/ ChatFails \/ FinishRejectsOutput
  BY <1>5, MirroredEndRun DEF Prune, Crash, ChatFails, FinishRejectsOutput
<1>6. CASE UNCHANGED vars
  BY <1>6 DEF vars, Mirrored, Mirror, UserFirst, UserStored, Pending, Batch, RequestBatch
<1>7. CASE ResumePersist
  BY <1>7, MirroredResumePersist
<1>8. ASSUME NEW u \in Users \cup {NoUser}, StartRun(u) PROVE Mirrored'
  BY <1>8, MirroredStart
<1>9. CASE ChatRequests \/ ChatEnds("stopped") \/ ChatEnds("complete")
  BY <1>9, MirroredChat
<1>10. CASE PersistRequest \/ PersistResults
  BY <1>10, MirroredPersist
<1> QED
  BY <1>1, <1>2, <1>3, <1>4, <1>5, <1>6, <1>7, <1>8, <1>9, <1>10 DEF Next, RunStep

\* Unless the context is compressed, at every await the conversation is what is
\* stored, plus what the step in progress will store (persistStep of run.ts).
THEOREM ConversationIsStored == ~Compression => (Spec => [](Inv /\ Mirrored))
<1> SUFFICES ASSUME ~Compression PROVE Spec => [](Inv /\ Mirrored)
  OBVIOUS
<1>1. Init => Mirrored
  BY DEF Init, IdleLocals, Mirrored, Mirror, UserFirst, UserStored
<1>2. Inv /\ Mirrored /\ [Next]_vars => Mirrored'
  BY MirroredStep
<1> QED BY <1>1, <1>2, Invariant, PTL DEF Spec

\* Unless the context is compressed, what the LLM is shown is what a resume of the
\* session would show it, also when the store is pruned between the turns.
THEOREM MirrorsHistory == ~Compression => (Spec => []StoreMirrorsHistory)
<1>1. Mirrored => StoreMirrorsHistory
  BY DEF Mirrored, Mirror, StoreMirrorsHistory, Pending
<1> QED BY <1>1, ConversationIsStored, PTL

--------------------------------------------------------------------------------
(* What an unpruned store keeps *)

\* A turn that returned is in the store if the store lost nothing and the turn,
\* if it is the one that returns now, is there.
LEMMA TurnStoredStays ==
  ASSUME TurnStored, Elems(rows) \subseteq Elems(rows'),
         \A t \in returned' \ returned : UserRow(t[1]) \in Elems(rows')
  PROVE  TurnStored'
<1> SUFFICES ASSUME NEW t \in returned' PROVE UserRow(t[1]) \in Elems(rows')
  BY DEF TurnStored
<1>1. CASE t \in returned
  BY <1>1 DEF TurnStored
<1>2. CASE t \notin returned
  BY <1>2
<1> QED BY <1>1, <1>2

\* Outside a tool step the store is sound.
LEMMA StoreSound ==
  ASSUME Inv, Kept, pc \in {"loop", "chat", "request", "finish"}
  PROVE  Sound(rows)
<1>1. Missing(rows) = {}
  BY DEF Inv, NoOrphan
<1> QED BY <1>1, Typed, SoundWhenNothingMissing DEF Kept

\* A resume answers calls of the orphan.
LEMMA KeptResumePersist ==
  ASSUME Inv, Kept, ResumePersist
  PROVE  Kept'
<1>1. results \in Seq(ToolRows) /\ results \in Seq(Rows) /\ rows \in Seq(Rows)
  BY Typed DEF Inv, TypeOK
<1>2. rows' = rows \o results /\ returned' = returned /\ pc' = "loop"
  BY DEF ResumePersist, Commit
<1>3. \A m \in DOMAIN results : results[m].call \in Missing(rows)
  BY DEF ResumePersist, Inv, Resuming
<1>4. \A m \in DOMAIN results :
        \E i \in DOMAIN rows : IsTailRequest(rows, i) /\ results[m].call \in Elems(rows[i].calls)
  BY <1>3 DEF Missing
<1>5. Answerable(rows')
  BY <1>1, <1>2, <1>4, AnswerableAfterTools DEF Kept
<1>6. TurnStored'
  BY <1>1, <1>2, ElemsGrow, TurnStoredStays DEF Kept
<1> QED BY <1>2, <1>5, <1>6 DEF Kept

\* Phase A adds a request to a sound store.
LEMMA KeptPersistRequest ==
  ASSUME Inv, Kept, PersistRequest
  PROVE  Kept'
<1>1. rows \in Seq(Rows) /\ step \in Seq(Calls) /\ turn \in Turns
  BY Typed DEF PersistRequest
<1>2. UserRow(turn) \in Rows /\ CallsRow(step) \in Rows
  BY <1>1, RowConstructors
<1>3. UserRow(turn).role = "user" /\ CallsRow(step).role = "calls"
  BY DEF UserRow, CallsRow
<1> DEFINE b == Batch(RequestBatch)
<1>4. /\ b \in Seq(Rows)
      /\ \A m \in DOMAIN b : \/ b[m].role \in {"user", "text"}
                             \/ b[m].role = "calls" /\ m = Len(b)
  <2>1. CASE userPersisted
    BY <1>2, <1>3, <2>1 DEF Batch, RequestBatch
  <2>2. CASE ~userPersisted
    <3> DEFINE c == <<UserRow(turn)>> \o <<CallsRow(step)>>
    <3>1. /\ <<UserRow(turn)>> \in Seq(Rows) /\ <<CallsRow(step)>> \in Seq(Rows)
          /\ Len(<<UserRow(turn)>>) = 1 /\ Len(<<CallsRow(step)>>) = 1
      BY <1>2
    <3>2. c \in Seq(Rows) /\ Len(c) = 2
      BY <3>1, ConcatProperties
    <3>3. \A i \in 1..2 : c[i] = IF i <= 1 THEN <<UserRow(turn)>>[i] ELSE <<CallsRow(step)>>[i - 1]
      BY <3>1, ConcatProperties
    <3>4. DOMAIN c = 1..2
      BY <3>2, LenProperties
    <3>5. b = c
      BY <2>2 DEF Batch, RequestBatch
    <3> HIDE DEF b, c
    <3>6. c[1] = UserRow(turn) /\ c[2] = CallsRow(step)
      BY <3>3
    <3> QED BY <1>3, <3>2, <3>4, <3>5, <3>6
  <2> QED BY <2>1, <2>2
<1>5. rows' = rows \o b /\ returned' = returned /\ pc' = "act"
  BY DEF PersistRequest, PersistStep, Commit
<1>6. Sound(rows)
  BY StoreSound DEF PersistRequest
<1> HIDE DEF b
<1>7. Answerable(rows')
  BY <1>1, <1>4, <1>5, <1>6, AnswerableAfterStep
<1>8. TurnStored'
  BY <1>1, <1>4, <1>5, ElemsGrow, TurnStoredStays DEF Kept
<1> QED BY <1>5, <1>7, <1>8 DEF Kept

\* Phase B adds the results of the request at the end.
LEMMA KeptPersistResults ==
  ASSUME Inv, Kept, PersistResults
  PROVE  Kept'
<1>1. /\ results \in Seq(ToolRows) /\ results \in Seq(Rows) /\ rows \in Seq(Rows)
      /\ step \in Seq(Calls) /\ Len(rows) \in Nat /\ DOMAIN rows = 1..Len(rows)
      /\ DOMAIN results = 1..Len(results) /\ DOMAIN step = 1..Len(step)
  BY Typed, LenProperties DEF Inv, TypeOK
<1>2. userPersisted /\ pc = "act" /\ Len(results) = Len(step)
  BY DEF PersistResults, Inv, Unwritten
<1>3. rows' = rows \o results /\ returned' = returned /\ pc' \in {"loop", "finish"}
  BY <1>2 DEF PersistResults, PersistStep, Commit, Batch, Stop
<1>4. rows # <<>> /\ rows[Len(rows)] = CallsRow(step)
  BY <1>2 DEF Inv, StepOnRecord
<1>5. Len(rows) \in DOMAIN rows
  BY <1>1, <1>4, EmptySeq
<1>6. IsTailRequest(rows, Len(rows)) /\ rows[Len(rows)].calls = step
  BY <1>1, <1>4 DEF IsTailRequest, CallsRow
<1>7. \A m \in DOMAIN results : results[m].call \in Elems(step)
  <2>1. \A m \in DOMAIN results : results[m].call = step[m] /\ m \in DOMAIN step
    BY <1>1, <1>2 DEF Inv, Dispatched
  <2> QED BY <2>1 DEF Elems
<1>8. Answerable(rows')
  BY <1>1, <1>3, <1>5, <1>6, <1>7, AnswerableAfterTools DEF Kept
<1>9. TurnStored'
  BY <1>1, <1>3, ElemsGrow, TurnStoredStays DEF Kept
<1> QED BY <1>3, <1>8, <1>9 DEF Kept

\* The end of a turn adds text to a sound store, the user message included if no
\* step has stored it.
LEMMA KeptFinish ==
  ASSUME MaxStored = Unset, Inv, Mirrored, Kept, Finish
  PROVE  Kept'
<1>1. /\ rows \in Seq(Rows) /\ messages \in Seq(Rows) /\ prevLen \in Nat
      /\ Len(messages) \in Nat /\ UnpersistedTail \in Seq(Rows)
  BY Typed, TailType, LenProperties DEF Inv
<1>2. /\ rows' = rows \o UnpersistedTail /\ pc = "finish" /\ pc' = "idle"
      /\ returned' = returned \cup {<<turn, status>>}
  BY DEF Finish, Commit, EndRun
<1>3. Sound(rows)
  BY <1>2, StoreSound
<1>4. Answerable(rows')
  BY <1>1, <1>2, <1>3, TailIsText, AnswerableAfterStep
<1>5. Elems(rows) \subseteq Elems(rows') /\ Elems(UnpersistedTail) \subseteq Elems(rows')
  BY <1>1, <1>2, ElemsGrow
<1>6. UserRow(turn) \in Elems(rows')
  <2>1. CASE userPersisted
    BY <1>5, <2>1 DEF Mirrored, UserStored
  <2>2. CASE ~userPersisted
    <3>1. prevLen < Len(messages) /\ messages[prevLen + 1] = UserRow(turn)
      BY <1>2, <2>2 DEF Mirrored, UserFirst
    <3>2. UnpersistedTail = From(messages, prevLen + 1)
      BY <2>2 DEF UnpersistedTail, NewSinceResume
    <3>3. /\ Len(UnpersistedTail) = Len(messages) - (prevLen + 1) + 1
          /\ \A i \in 1..Len(UnpersistedTail) :
               UnpersistedTail[i] = messages[i + (prevLen + 1) - 1]
      <4>1. prevLen + 1 \in Nat \ {0} /\ prevLen + 1 <= Len(messages)
        BY <1>1, <3>1
      <4>2. Len(From(messages, prevLen + 1)) =
              IF prevLen + 1 <= Len(messages) THEN Len(messages) - (prevLen + 1) + 1 ELSE 0
        BY <1>1, <4>1, FromProperties
      <4>3. \A i \in 1..Len(From(messages, prevLen + 1)) :
              From(messages, prevLen + 1)[i] = messages[i + (prevLen + 1) - 1]
        BY <1>1, <4>1, FromProperties
      <4> QED BY <3>2, <4>1, <4>2, <4>3
    <3>4. 1 \in 1..Len(UnpersistedTail) /\ 1 + (prevLen + 1) - 1 = prevLen + 1
      BY <1>1, <3>1, <3>3
    <3>5. DOMAIN UnpersistedTail = 1..Len(UnpersistedTail)
      BY <1>1, LenProperties
    <3>6. UnpersistedTail[1] = UserRow(turn)
      BY <3>1, <3>3, <3>4
    <3>7. UserRow(turn) \in Elems(UnpersistedTail)
      BY <3>4, <3>5, <3>6 DEF Elems
    <3> QED BY <1>5, <3>7
  <2> QED BY <2>1, <2>2
<1>7. TurnStored'
  BY <1>2, <1>5, <1>6, TurnStoredStays DEF Kept
<1> QED BY <1>2, <1>4, <1>7 DEF Kept

\* Without pruning and compression no step takes anything from the store.
LEMMA KeptStep ==
  ASSUME ~Compression, MaxStored = Unset, Inv, Mirrored, Kept, [Next]_vars
  PROVE  Kept'
<1> USE DEF store
<1>1. ASSUME UNCHANGED <<rows, returned>>, pc' # "prune" PROVE Kept'
  BY <1>1 DEF Kept, TurnStored, Answerable
<1>2. ASSUME NEW u \in Users \cup {NoUser}, StartRun(u) PROVE Kept'
  BY <1>1, <1>2 DEF StartRun
<1>3. ASSUME NEW c \in Calls, ResumeCall(c) \/ HandlerReturns(c) PROVE Kept'
  BY <1>1, <1>3 DEF ResumeCall, HandlerReturns
<1>4. CASE BeginIteration \/ IterationsExceeded \/ LaunchChunk
  BY <1>1, <1>4 DEF BeginIteration, IterationsExceeded, LaunchChunk, Stop
<1>5. CASE ChatRequests \/ ChatEnds("stopped") \/ ChatEnds("complete")
  BY <1>1, <1>5 DEF ChatRequests, ChatEnds, Stop
<1>6. CASE Crash \/ ChatFails \/ FinishRejectsOutput
  BY <1>1, <1>6 DEF Crash, ChatFails, FinishRejectsOutput, EndRun
<1>7. CASE ResumePersist
  BY <1>7, KeptResumePersist
<1>8. CASE PersistRequest
  BY <1>8, KeptPersistRequest
<1>9. CASE PersistResults
  BY <1>9, KeptPersistResults
<1>10. CASE Finish
  BY <1>10, KeptFinish
<1>11. CASE Prune
  BY <1>11 DEF Prune, Kept
<1>12. CASE UNCHANGED vars
  BY <1>1, <1>12 DEF vars, Kept
<1> QED
  BY <1>2, <1>3, <1>4, <1>5, <1>6, <1>7, <1>8, <1>9, <1>10, <1>11, <1>12 DEF Next, RunStep

\* Without pruning and compression the store is answerable and holds every turn
\* that returned, through all crashes and resumes.
THEOREM HistoryKept ==
  ~Compression /\ MaxStored = Unset => (Spec => [](Inv /\ Mirrored /\ Kept))
<1> SUFFICES ASSUME ~Compression, MaxStored = Unset
             PROVE  Spec => [](Inv /\ Mirrored /\ Kept)
  OBVIOUS
<1>1. Init => Kept
  <2> SUFFICES ASSUME Init PROVE Kept
    OBVIOUS
  <2>1. rows = <<>> /\ returned = {} /\ pc = "idle"
    BY DEF Init, IdleLocals
  <2> QED BY <2>1 DEF Kept, TurnStored, Answerable
<1>2. Inv /\ Mirrored /\ Kept /\ [Next]_vars => Kept'
  BY KeptStep
<1>3. ~Compression
  OBVIOUS
<1>4. Spec => [](Inv /\ Mirrored)
  BY <1>3, ConversationIsStored
<1> QED BY <1>1, <1>2, <1>4, PTL DEF Spec

\* Without pruning and compression a turn that returned without an error left its
\* user message in the store.
THEOREM TurnsAreStored ==
  ~Compression /\ MaxStored = Unset => (Spec => []TurnStored)
<1>1. Kept => TurnStored
  BY DEF Kept
<1> QED BY <1>1, HistoryKept, PTL

\* Without pruning and compression every conversation sent to the LLM is sound:
\* each request has its answers, each result its request, also after a crash in
\* the middle of a step.
THEOREM LLMSeesSound ==
  ~Compression /\ MaxStored = Unset => (Spec => []LLMSeesSoundHistory)
<1>1. Inv /\ Mirrored /\ Kept => LLMSeesSoundHistory
  <2> SUFFICES ASSUME Inv, Mirrored, Kept, pc = "chat" PROVE Sound(messages)
    BY DEF LLMSeesSoundHistory
  <2>1. Sound(rows) /\ rows \in Seq(Rows) /\ turn \in Turns
    BY StoreSound, Typed
  <2>2. messages = rows \o Pending
    BY DEF Mirrored, Mirror
  <2>3. CASE userPersisted
    BY <2>1, <2>2, <2>3, ConcatEmptySeq DEF Pending
  <2>4. CASE ~userPersisted
    <3> DEFINE t == <<UserRow(turn)>>
    <3>1. /\ t \in Seq(Rows) /\ Len(t) = 1 /\ t[1].role = "user" /\ DOMAIN t = 1..1
      BY <2>1, RowConstructors DEF UserRow
    <3>2. messages = rows \o t
      BY <2>2, <2>4 DEF Pending
    <3> HIDE DEF t
    <3>3. Answerable(messages)
      BY <2>1, <3>1, <3>2, AnswerableAfterStep
    <3>4. /\ messages \in Seq(Rows) /\ Len(messages) > 0
          /\ messages[Len(messages)] = t[Len(t)]
      BY <2>1, <3>1, <3>2, LastOfConcat
    <3>5. Missing(messages) = {}
      BY <3>1, <3>4, MissingAfterText
    <3> QED BY <3>3, <3>4, <3>5, SoundWhenNothingMissing
  <2> QED BY <2>3, <2>4
<1> QED BY <1>1, HistoryKept, PTL

--------------------------------------------------------------------------------
(* Every run ends: it always has a next step, and only so many of them *)

\* An iteration is a response, a request and, for each call, a launch and a
\* return at most, then the commit of the results.
Round == 2 * MaxCallsPerStep + 4
IterationsLeft == Round * (MaxIterations - iteration)

\* The calls of the chunk that is out which have not returned.
Waiting == {i \in DOMAIN chunk : outcome[chunk[i]] = "none"}
ToDispatch == 2 * (Len(step) - Len(results) - Len(chunk)) + Cardinality(Waiting)

\* The calls of the orphan that still lack an answer.
ToResume == {i \in DOMAIN step : step[i] \in Missing(messages \o results)}

\* How many steps the run may still take.
StepsLeft ==
  CASE pc = "idle"    -> 0
    [] pc = "prune"   -> 1
    [] pc = "finish"  -> 2
    [] pc = "loop"    -> 3 + IterationsLeft
    [] pc = "chat"    -> 3 + IterationsLeft + Round - 1
    [] pc = "request" -> 3 + IterationsLeft + Round - 2
    [] pc = "act"     -> 4 + IterationsLeft + ToDispatch
    [] pc = "resume"  -> 4 + IterationsLeft + Cardinality(ToResume)

\* What a run can do next: the guards of RunStep.
RunMoves ==
  \/ pc \in {"loop", "chat", "request", "finish", "prune"}
  \/ pc = "resume" /\ (Missing(messages \o results) = {} \/ \E c \in Calls : NextMissing(c))
  \/ /\ pc = "act" /\ chunk = <<>>
     /\ \/ Len(results) = Len(step)
        \/ \E n \in 1..Len(step) : /\ IsChunk(Len(results) + 1, n)
                                   /\ ~IsChunk(Len(results) + 1, n + 1)
  \/ pc = "act" /\ \E c \in Elems(chunk) : outcome[c] = "none"

\* A step has no more calls than a response may have, a chunk that is out waits
\* for one of its calls, and a resume answers calls of the step it found.
Bounded ==
  /\ pc \in {"request", "act"} => Len(step) <= MaxCallsPerStep
  /\ chunk # <<>> => \E c \in Elems(chunk) : outcome[c] = "none"
  /\ pc = "resume" => Missing(messages \o results) \subseteq Elems(step)

\* A set of numbers has a least one.
LEMMA LeastOf ==
  ASSUME NEW T \in SUBSET Nat, T # {}
  PROVE  \E n \in T : \A m \in T : ~(m < n)
<1> DEFINE Less == {p \in Nat \X Nat : p[1] < p[2]}
<1>1. IsWellFoundedOn(Less, Nat)
  <2>1. OpToRel(<, Nat) = Less
    BY Zenon DEF OpToRel
  <2> HIDE DEF Less
  <2> QED BY <2>1, NatLessThanWellFounded, Zenon
<1>2. PICK n \in T : \A m \in T : <<m, n>> \notin Less
  <2> HIDE DEF Less
  <2> QED BY <1>1, WFMin
<1>3. \A m \in T : <<m, n>> \in Nat \X Nat
  OBVIOUS
<1> QED BY <1>2, <1>3

\* Positions of a sequence are finitely many, and losing one makes them fewer.
LEMMA Positions ==
  ASSUME NEW n \in Nat, NEW S \in SUBSET (1..n)
  PROVE  /\ Cardinality(S) \in 0..n
         /\ S # {} => Cardinality(S) > 0
         /\ \A T \in SUBSET S : /\ Cardinality(T) \in Nat
                                /\ T # S => Cardinality(T) < Cardinality(S)
<1>1. IsFiniteSet(1..n) /\ Cardinality(1..n) = n
  BY FS_Interval
<1>2. IsFiniteSet(S) /\ Cardinality(S) <= n
  BY <1>1, FS_Subset
<1>3. Cardinality(S) \in Nat
  BY <1>2, FS_CardinalityType
<1>4. S # {} => Cardinality(S) # 0
  BY <1>2, FS_EmptySet
<1>5. ASSUME NEW T \in SUBSET S
      PROVE  Cardinality(T) \in Nat /\ (T # S => Cardinality(T) < Cardinality(S))
  <2>1. /\ IsFiniteSet(T) /\ Cardinality(T) <= Cardinality(S)
        /\ Cardinality(S) = Cardinality(T) => S = T
    BY <1>2, FS_Subset
  <2>2. Cardinality(T) \in Nat
    BY <2>1, FS_CardinalityType
  <2> QED BY <1>3, <2>1, <2>2
<1> QED BY <1>2, <1>3, <1>4, <1>5

\* The bounds of a run, where it is.
LEMMA Measured ==
  ASSUME Inv
  PROVE  /\ Round \in Nat /\ Round = 2 * MaxCallsPerStep + 4 /\ MaxCallsPerStep \in Nat
         /\ IterationsLeft \in Nat
         /\ Len(step) \in Nat /\ Len(results) \in Nat /\ Len(chunk) \in Nat
         /\ DOMAIN chunk = 1..Len(chunk) /\ DOMAIN step = 1..Len(step)
         /\ Cardinality(Waiting) \in 0..Len(chunk)
         /\ Waiting # {} => Cardinality(Waiting) > 0
         /\ Cardinality(ToResume) \in Nat
         /\ pc = "act" => /\ Len(results) + Len(chunk) <= Len(step)
                          /\ ToDispatch \in Nat
<1>1. /\ Len(step) \in Nat /\ Len(results) \in Nat /\ Len(chunk) \in Nat
      /\ DOMAIN chunk = 1..Len(chunk) /\ DOMAIN step = 1..Len(step)
  BY LenProperties DEF Inv, TypeOK
<1>2. MaxCallsPerStep \in Nat /\ Round \in Nat /\ Round = 2 * MaxCallsPerStep + 4
  BY BoundsAssumption DEF Round
<1>3. IterationsLeft \in Nat
  <2>1. MaxIterations - iteration \in Nat
    BY BoundsAssumption DEF Inv, TypeOK
  <2>2. \A a, b \in Nat : a * b \in Nat
    OBVIOUS
  <2> QED BY <1>2, <2>1, <2>2 DEF IterationsLeft
<1>4. Waiting \in SUBSET (1..Len(chunk)) /\ ToResume \in SUBSET (1..Len(step))
  BY <1>1 DEF Waiting, ToResume
<1>5. /\ Cardinality(Waiting) \in 0..Len(chunk)
      /\ Waiting # {} => Cardinality(Waiting) > 0
      /\ Cardinality(ToResume) \in 0..Len(step)
  BY <1>1, <1>4, Positions
<1>6. ASSUME pc = "act"
      PROVE  Len(results) + Len(chunk) <= Len(step) /\ ToDispatch \in Nat
  <2>1. Len(results) + Len(chunk) <= Len(step)
    BY <1>6 DEF Inv, Dispatched
  <2> QED BY <1>1, <1>5, <2>1 DEF ToDispatch
<1> QED BY <1>1, <1>2, <1>3, <1>5, <1>6

\* What is left is a number, and something is left until the run is idle.
LEMMA LeftIsNat ==
  ASSUME Inv
  PROVE  StepsLeft \in Nat /\ (pc # "idle" => StepsLeft > 0)
<1>1. pc \in PcValues
  BY DEF Inv, TypeOK
<1> DEFINE il == IterationsLeft
           td == ToDispatch
           rd == Round
           cr == Cardinality(ToResume)
<1>2. /\ il \in Nat /\ cr \in Nat /\ rd \in Nat /\ rd >= 4
      /\ pc = "act" => td \in Nat
  BY Measured
<1> HIDE DEF il, td, rd, cr
<1>3. StepsLeft = CASE pc = "idle"    -> 0
                    [] pc = "prune"   -> 1
                    [] pc = "finish"  -> 2
                    [] pc = "loop"    -> 3 + il
                    [] pc = "chat"    -> 3 + il + rd - 1
                    [] pc = "request" -> 3 + il + rd - 2
                    [] pc = "act"     -> 4 + il + td
                    [] pc = "resume"  -> 4 + il + cr
  BY DEF StepsLeft, il, td, rd, cr
<1> QED BY <1>1, <1>2, <1>3 DEF PcValues

\* A run that has not ended has a next step.
LEMMA NeverHangs ==
  ASSUME Inv, Bounded, pc # "idle"
  PROVE  RunMoves
<1>1. pc \in PcValues
  BY DEF Inv, TypeOK
<1>2. CASE pc = "resume"
  <2>1. SUFFICES ASSUME Missing(messages \o results) # {}
                 PROVE  \E c \in Calls : NextMissing(c)
    BY <1>2 DEF RunMoves
  <2>2. ToResume # {} /\ ToResume \in SUBSET Nat
    <3>1. PICK c \in Missing(messages \o results) : TRUE
      BY <2>1
    <3>2. c \in Elems(step)
      BY <1>2, <3>1 DEF Bounded
    <3>3. DOMAIN step = 1..Len(step)
      BY Measured
    <3> QED BY <3>1, <3>2, <3>3 DEF Elems, ToResume
  <2>3. PICK i \in ToResume : \A j \in ToResume : ~(j < i)
    BY <2>2, LeastOf
  <2>4. DOMAIN step = 1..Len(step) /\ Len(step) \in Nat
    BY Measured
  <2>5. i \in 1..Len(step) /\ step[i] \in Missing(messages \o results)
    BY <2>4 DEF ToResume
  <2>6. \A j \in 1..(i - 1) : step[j] \notin Missing(messages \o results)
    BY <2>3, <2>4, <2>5 DEF ToResume
  <2>7. NextMissing(step[i])
    BY <2>4, <2>5, <2>6 DEF NextMissing
  <2>8. step[i] \in Calls
    BY <2>5 DEF Inv, TypeOK
  <2> QED BY <2>7, <2>8
<1>3. CASE pc = "act" /\ chunk = <<>> /\ Len(results) # Len(step)
  <2> DEFINE k == Len(results) + 1
             L == Len(step)
             Ends == {n \in 1..L : ~IsChunk(k, n + 1)}
  <2>1. k \in Nat /\ L \in Nat /\ k <= L /\ k >= 1
    <3>1. Len(results) + Len(chunk) <= Len(step) /\ Len(chunk) = 0
      BY <1>3, Measured
    <3> QED BY <1>3, <3>1, Measured
  <2>2. L \in Ends
    BY <2>1 DEF IsChunk
  <2>3. PICK n \in Ends : \A m \in Ends : ~(m < n)
    <3>1. Ends \in SUBSET Nat
      OBVIOUS
    <3> HIDE DEF Ends
    <3> QED BY <2>2, <3>1, LeastOf
  <2>4. n \in 1..L /\ ~IsChunk(k, n + 1)
    OBVIOUS
  <2>5. IsChunk(k, n)
    <3>1. CASE n = 1
      BY <2>1, <3>1, BoundsAssumption DEF IsChunk
    <3>2. CASE n # 1
      <4>1. n - 1 \in 1..L /\ n - 1 < n
        BY <2>1, <2>4, <3>2
      <4>2. n - 1 \notin Ends
        BY <2>3, <4>1
      <4>3. IsChunk(k, n - 1 + 1)
        BY <4>1, <4>2
      <4> QED BY <2>1, <2>4, <4>3
    <3> QED BY <3>1, <3>2
  <2> QED BY <1>3, <2>4, <2>5 DEF RunMoves
<1>4. CASE pc = "act" /\ chunk = <<>> /\ Len(results) = Len(step)
  BY <1>4 DEF RunMoves
<1>5. CASE pc = "act" /\ chunk # <<>>
  BY <1>5 DEF Bounded, RunMoves
<1> QED BY <1>1, <1>2, <1>3, <1>4, <1>5 DEF PcValues, RunMoves

\* Answering a missing call leaves fewer of them.
LEMMA OneFewerMissing ==
  ASSUME Inv, NEW c \in Calls, ResumeCall(c)
  PROVE  /\ Missing((messages \o results)') \subseteq Missing(messages \o results) \ {c}
         /\ c \in Missing(messages \o results)
         /\ \E i \in DOMAIN step : step[i] = c
<1>t. /\ messages \in Seq(Rows) /\ results \in Seq(ToolRows) /\ Len(results) \in Nat
      /\ messages' = messages
  BY LenProperties DEF Inv, TypeOK, ResumeCall, locals
<1>1. PICK k \in Kinds : results' = Append(results, ToolRow(c, k))
  BY DEF ResumeCall, Kinds
<1>2. ToolRow(c, k) \in ToolRows /\ ToolRow(c, k).call = c
  BY RowConstructors DEF ToolRow
<1>3. /\ results' \in Seq(ToolRows) /\ Len(results') = Len(results) + 1
      /\ \A i \in 1..Len(results) : results'[i] = results[i]
      /\ results'[Len(results) + 1] = ToolRow(c, k)
      /\ DOMAIN results' = 1..(Len(results) + 1) /\ DOMAIN results = 1..Len(results)
  BY <1>t, <1>1, <1>2, AppendProperties, LenProperties
<1>4. {results[i].call : i \in DOMAIN results} \cup {c}
        \subseteq {results'[i].call : i \in DOMAIN results'}
  <2>1. \A i \in DOMAIN results : i \in DOMAIN results' /\ results'[i].call = results[i].call
    BY <1>t, <1>3
  <2>2. Len(results) + 1 \in DOMAIN results' /\ results'[Len(results) + 1].call = c
    BY <1>t, <1>2, <1>3
  <2> QED BY <2>1, <2>2
<1>5. /\ Missing(messages \o results)
           = Missing(messages) \ {results[i].call : i \in DOMAIN results}
      /\ Missing(messages \o results')
           = Missing(messages) \ {results'[i].call : i \in DOMAIN results'}
  BY <1>t, <1>3, MissingAfterTools
<1>6. c \in Missing(messages \o results) /\ \E i \in DOMAIN step : step[i] = c
  BY DEF ResumeCall, NextMissing
<1> QED BY <1>t, <1>4, <1>5, <1>6

\* A chunk is at least one call, and none of its calls has returned yet.
LEMMA Launched ==
  ASSUME Inv, LaunchChunk
  PROVE  /\ Len(chunk) = 0 /\ chunk' \in Seq(Calls)
         /\ Len(chunk') \in 1..(Len(step) - Len(results))
         /\ DOMAIN chunk' = 1..Len(chunk')
         /\ \A c \in Calls : outcome[c] = "none"
         /\ outcome' = outcome
<1>t. /\ step \in Seq(Calls) /\ pc = "act" /\ chunk = <<>>
      /\ Len(step) \in Nat /\ Len(results) \in Nat
  BY LenProperties DEF Inv, TypeOK, LaunchChunk
<1>1. PICK n \in 1..Len(step) : /\ IsChunk(Len(results) + 1, n)
                                /\ chunk' = SubSeq(step, Len(results) + 1, Len(results) + n)
  <2>1. \A n \in 1..Len(step) : Len(results) + 1 + n - 1 = Len(results) + n
    BY <1>t
  <2> QED BY <2>1 DEF LaunchChunk
<1>2. Len(results) + n <= Len(step)
  BY <1>t, <1>1 DEF IsChunk
<1>3. \A i \in (Len(results) + 1)..(Len(results) + n) : step[i] \in Calls
  BY <1>t, <1>2, ElementOfSeq
<1>4. chunk' \in Seq(Calls) /\ Len(chunk') = n
  BY <1>t, <1>1, <1>2, <1>3, SubSeqProperties
<1>5. Elems(chunk) = {}
  BY <1>t DEF Elems
<1>6. \A c \in Calls : outcome[c] = "none"
  BY <1>t, <1>5 DEF Inv, Dispatched
<1> QED BY <1>t, <1>2, <1>4, <1>6, LenProperties DEF LaunchChunk

\* The bounds of a step hold whatever happens.
LEMMA BoundedStep ==
  ASSUME Inv, Bounded, [Next]_vars
  PROVE  Bounded'
<1> USE DEF store, locals, dispatch, history
<1>0. pc # "act" => chunk = <<>>
  BY DEF Inv, Dispatched
<1>e. ASSUME EndRun PROVE Bounded'
  BY <1>e DEF EndRun, Bounded
<1>1. ASSUME NEW u \in Users \cup {NoUser}, StartRun(u) PROVE Bounded'
  <2>1. pc = "idle" /\ results = <<>> /\ chunk = <<>> /\ results' = results /\ chunk' = chunk
    BY <1>1 DEF StartRun, Inv, Dispatched
  <2>2. CASE Missing(rows) = {}
    BY <1>1, <2>1, <2>2 DEF StartRun, Bounded
  <2>3. CASE Missing(rows) # {}
    <3>1. /\ pc' = "resume" /\ messages' = rows
          /\ \E i \in DOMAIN rows : IsTailRequest(rows, i) /\ step' = rows[i].calls
      BY <1>1, <2>3 DEF StartRun
    <3>2. PICK i \in DOMAIN rows : IsTailRequest(rows, i) /\ step' = rows[i].calls
      BY <3>1
    <3>3. rows \in Seq(Rows) /\ DOMAIN rows = 1..Len(rows) /\ Len(rows) \in Nat
      BY LenProperties DEF Inv, TypeOK
    <3>4. \A j \in DOMAIN rows : IsTailRequest(rows, j) => j = i
      <4> SUFFICES ASSUME NEW j \in DOMAIN rows, IsTailRequest(rows, j), j # i PROVE FALSE
        OBVIOUS
      <4>1. rows[i].role = "calls" /\ rows[j].role = "calls"
        BY <3>2 DEF IsTailRequest
      <4>2. CASE j > i
        <5>1. j \in (i + 1)..Len(rows)
          BY <3>3, <4>2
        <5> QED BY <3>2, <4>1, <5>1 DEF IsTailRequest
      <4>3. CASE i > j
        <5>1. i \in (j + 1)..Len(rows)
          BY <3>3, <4>3
        <5> QED BY <4>1, <5>1 DEF IsTailRequest
      <4> QED BY <3>3, <4>2, <4>3
    <3>5. Missing(rows) \subseteq Elems(step')
      BY <3>2, <3>4 DEF Missing
    <3>6. messages' \o results' = rows
      BY <2>1, <3>1, <3>3, ConcatEmptySeq
    <3> QED BY <2>1, <3>1, <3>5, <3>6 DEF Bounded
  <2> QED BY <2>2, <2>3
<1>2. ASSUME NEW c \in Calls, ResumeCall(c) PROVE Bounded'
  <2>1. Missing((messages \o results)') \subseteq Missing(messages \o results)
    BY <1>2, OneFewerMissing
  <2> QED BY <1>0, <1>2, <2>1 DEF ResumeCall, Bounded
<1>3. ASSUME NEW c \in Calls, HandlerReturns(c) PROVE Bounded'
  <2>1. PICK kind \in {"ok", "error"} :
          IF \E d \in Elems(chunk) : [outcome EXCEPT ![c] = kind][d] = "none"
            THEN outcome' = [outcome EXCEPT ![c] = kind] /\ chunk' = chunk
            ELSE chunk' = <<>>
    BY <1>3 DEF HandlerReturns
  <2>2. chunk' # <<>> => \E d \in Elems(chunk') : outcome'[d] = "none"
    BY <2>1
  <2>3. pc' = "act" /\ pc = "act" /\ step' = step
    BY <1>3 DEF HandlerReturns
  <2> QED BY <2>2, <2>3 DEF Bounded
<1>4. CASE LaunchChunk
  <2>1. PICK c \in Calls : c \in Elems(chunk') /\ outcome'[c] = "none"
    <3>1. 1 \in DOMAIN chunk' /\ chunk'[1] \in Calls
      BY <1>4, Launched, Measured
    <3> QED BY <1>4, <3>1, Launched DEF Elems
  <2>2. pc' = "act" /\ pc = "act" /\ step' = step
    BY <1>4 DEF LaunchChunk
  <2> QED BY <2>1, <2>2 DEF Bounded
<1>5. CASE ChatRequests
  <2>1. PICK s \in Responses : step' = s
    BY <1>5 DEF ChatRequests
  <2>2. PICK n \in 1..MaxCallsPerStep : s \in [1..n -> Calls \ issued]
    BY DEF Responses
  <2>3. s \in Seq(Calls) /\ Len(s) = n
    <3>1. s \in Seq(Calls)
      BY <2>2, SeqDef, BoundsAssumption
    <3> QED BY <2>2, <3>1, LenProperties, BoundsAssumption
  <2>4. pc' = "request" /\ chunk' = <<>>
    BY <1>0, <1>5 DEF ChatRequests
  <2> QED BY <2>1, <2>2, <2>3, <2>4, BoundsAssumption DEF Bounded
<1>6. CASE PersistRequest
  BY <1>0, <1>6 DEF PersistRequest, Bounded
<1>7. CASE ResumePersist \/ BeginIteration \/ IterationsExceeded
  BY <1>0, <1>7 DEF ResumePersist, BeginIteration, IterationsExceeded, Stop, Bounded
<1>8. CASE ChatEnds("stopped") \/ ChatEnds("complete")
  BY <1>0, <1>8 DEF ChatEnds, Stop, Bounded
<1>9. CASE PersistResults
  BY <1>9 DEF PersistResults, Stop, Bounded
<1>10. CASE Finish
  BY <1>0, <1>e, <1>10 DEF Finish, Bounded
<1>11. CASE Prune \/ Crash \/ ChatFails \/ FinishRejectsOutput
  BY <1>e, <1>11 DEF Prune, Crash, ChatFails, FinishRejectsOutput
<1>12. CASE UNCHANGED vars
  BY <1>12 DEF vars, Bounded, Elems
<1> QED BY <1>1, <1>2, <1>3, <1>4, <1>5, <1>6, <1>7, <1>8, <1>9, <1>10, <1>11, <1>12
        DEF Next, RunStep

\* The parts of the measure are numbers.
Amounted == /\ IterationsLeft \in Nat /\ Cardinality(ToResume) \in Nat
            /\ pc = "act" => ToDispatch \in Nat

LEMMA Amounts == Inv => Amounted
BY Measured DEF Amounted

\* A step of a run, a crash included, leaves it fewer steps.
LEMMA LeftFalls ==
  ASSUME Inv, Bounded, Next, pc # "idle"
  PROVE  StepsLeft' < StepsLeft
<1> USE DEF store, locals, dispatch, history
<1> DEFINE il == IterationsLeft
           td == ToDispatch
           cr == Cardinality(ToResume)
<1>m. /\ Round \in Nat /\ Round = 2 * MaxCallsPerStep + 4 /\ MaxCallsPerStep \in Nat
      /\ il \in Nat /\ cr \in Nat
      /\ pc = "act" => td \in Nat
  BY Measured
<1>v. Inv'
  BY InvStep
<1>n. /\ il' \in Nat /\ cr' \in Nat
      /\ pc' = "act" => td' \in Nat
  <2>1. Amounted'
    BY <1>v, Amounts, PTL
  <2> QED BY <2>1 DEF Amounted
<1>i. ASSUME UNCHANGED iteration PROVE il' = il
  BY <1>i DEF IterationsLeft, Round
<1>e. ASSUME EndRun PROVE StepsLeft' < StepsLeft
  BY <1>e, LeftIsNat DEF EndRun, StepsLeft
<1>2. ASSUME NEW c \in Calls, ResumeCall(c) PROVE StepsLeft' < StepsLeft
  <2>1. pc = "resume" /\ pc' = "resume" /\ iteration' = iteration /\ step' = step
    BY <1>2 DEF ResumeCall
  <2>2. ToResume' \in SUBSET ToResume
    BY <1>2, <2>1, OneFewerMissing DEF ToResume
  <2>3. ToResume' # ToResume
    <3>1. PICK i \in DOMAIN step : step[i] = c
      BY <1>2, OneFewerMissing
    <3>2. i \in ToResume /\ i \notin ToResume'
      BY <1>2, <2>1, <3>1, OneFewerMissing DEF ToResume
    <3> QED BY <3>2
  <2>4. ToResume \in SUBSET (1..Len(step)) /\ Len(step) \in Nat
    BY Measured DEF ToResume
  <2>5. Cardinality(ToResume') < Cardinality(ToResume)
    BY <2>2, <2>3, <2>4, Positions
  <2>6. StepsLeft = 4 + il + cr /\ StepsLeft' = 4 + il' + Cardinality(ToResume')
    BY <2>1 DEF StepsLeft
  <2>7. il' = il
    BY <1>i, <2>1
  <2> HIDE DEF il, cr
  <2>8. cr' < cr
    BY <2>5 DEF cr
  <2> QED BY <1>m, <1>n, <2>6, <2>7, <2>8 DEF cr
<1>3. ASSUME NEW c \in Calls, HandlerReturns(c) PROVE StepsLeft' < StepsLeft
  <2>1. pc = "act" /\ pc' = "act" /\ iteration' = iteration /\ step' = step
    BY <1>3 DEF HandlerReturns
  <2>2. /\ Len(step) \in Nat /\ Len(results) \in Nat /\ Len(chunk) \in Nat
        /\ DOMAIN chunk = 1..Len(chunk)
        /\ Cardinality(Waiting) \in 0..Len(chunk)
        /\ results \in Seq(ToolRows) /\ chunk \in Seq(Calls)
        /\ outcome \in [Calls -> {"none", "ok", "error"}]
    BY Measured DEF Inv, TypeOK
  <2>3. PICK kind \in {"ok", "error"} :
          IF \E d \in Elems(chunk) : [outcome EXCEPT ![c] = kind][d] = "none"
            THEN /\ outcome' = [outcome EXCEPT ![c] = kind]
                 /\ chunk' = chunk /\ results' = results
            ELSE /\ results' = results \o
                      [i \in DOMAIN chunk |->
                         ToolRow(chunk[i], [outcome EXCEPT ![c] = kind][chunk[i]])]
                 /\ chunk' = <<>>
    BY <1>3 DEF HandlerReturns
  <2> DEFINE got == [outcome EXCEPT ![c] = kind]
  <2>4. PICK i \in DOMAIN chunk : c = chunk[i]
    BY <1>3 DEF HandlerReturns, Elems
  <2>5. outcome[c] = "none"
    BY <1>3 DEF HandlerReturns
  <2>6. i \in Waiting
    BY <2>4, <2>5 DEF Waiting
  <2>7. Cardinality(Waiting) > 0
    BY <2>6, Measured
  <2>8. td' < td
    <3>1. CASE \E d \in Elems(chunk) : got[d] = "none"
      <4>1. outcome' = got /\ chunk' = chunk /\ results' = results
        BY <2>3, <3>1
      <4>2. Waiting' \in SUBSET Waiting
        <5> SUFFICES ASSUME NEW j \in DOMAIN chunk, got[chunk[j]] = "none"
                     PROVE  outcome[chunk[j]] = "none"
          BY <4>1 DEF Waiting
        <5>1. chunk[j] \in Calls
          BY <2>2
        <5> QED BY <2>2, <5>1
      <4>3. i \notin Waiting'
        BY <2>2, <2>4, <4>1 DEF Waiting
      <4>4. Waiting \in SUBSET (1..Len(chunk))
        BY <2>2 DEF Waiting
      <4>5. Cardinality(Waiting') < Cardinality(Waiting) /\ Cardinality(Waiting') \in Nat
        BY <2>2, <2>6, <4>2, <4>3, <4>4, Positions
      <4>6. /\ td' = 2 * (Len(step) - Len(results) - Len(chunk)) + Cardinality(Waiting')
            /\ td = 2 * (Len(step) - Len(results) - Len(chunk)) + Cardinality(Waiting)
        BY <2>1, <4>1 DEF ToDispatch
      <4> QED BY <2>2, <4>5, <4>6
    <3>2. CASE ~\E d \in Elems(chunk) : got[d] = "none"
      <4> DEFINE batch == [j \in DOMAIN chunk |-> ToolRow(chunk[j], got[chunk[j]])]
      <4>1. results' = results \o batch /\ chunk' = <<>>
        BY <2>3, <3>2
      <4>2. \A j \in 1..Len(chunk) : ToolRow(chunk[j], got[chunk[j]]) \in ToolRows
        <5>1. \A j \in 1..Len(chunk) : chunk[j] \in Calls /\ got[chunk[j]] \in Kinds
          BY <2>2, <3>2 DEF Elems, Kinds
        <5> QED BY <5>1, RowConstructors
      <4>3. batch \in Seq(ToolRows) /\ Len(batch) = Len(chunk)
        <5>1. batch \in Seq(ToolRows)
          BY <2>2, <4>2, IsASeq
        <5>2. DOMAIN batch = 1..Len(chunk)
          BY <2>2
        <5> HIDE DEF batch
        <5> QED BY <2>2, <5>1, <5>2, LenProperties
      <4>4. Len(results') = Len(results) + Len(chunk) /\ Len(chunk') = 0
        <5> HIDE DEF batch
        <5>1. Len(results \o batch) = Len(results) + Len(batch)
          BY <2>2, <4>3, ConcatProperties
        <5> QED BY <4>1, <4>3, <5>1
      <4>5. Cardinality(Waiting') = 0
        <5>1. Waiting' = {}
          BY <4>1 DEF Waiting
        <5> QED BY <5>1, FS_EmptySet
      <4>6. /\ td' = 2 * (Len(step) - Len(results') - Len(chunk')) + Cardinality(Waiting')
            /\ td = 2 * (Len(step) - Len(results) - Len(chunk)) + Cardinality(Waiting)
        BY <2>1 DEF ToDispatch
      <4> QED BY <2>2, <2>7, <4>4, <4>5, <4>6
    <3> QED BY <3>1, <3>2
  <2>9. StepsLeft = 4 + il + td /\ StepsLeft' = 4 + il' + td'
    BY <2>1 DEF StepsLeft
  <2>10. il' = il
    BY <1>i, <2>1
  <2> HIDE DEF il, td
  <2> QED BY <1>m, <1>n, <2>1, <2>8, <2>9, <2>10
<1>4. ASSUME LaunchChunk PROVE StepsLeft' < StepsLeft
  <2>1. /\ pc = "act" /\ pc' = "act" /\ iteration' = iteration /\ step' = step
        /\ results' = results
    BY <1>4 DEF LaunchChunk
  <2>2. /\ Len(step) \in Nat /\ Len(results) \in Nat /\ Len(chunk) = 0
        /\ Cardinality(Waiting) = 0 /\ Len(chunk') \in 1..(Len(step) - Len(results))
    BY <1>4, Measured, Launched
  <2>3. Cardinality(Waiting') \in 0..Len(chunk')
    <3>1. Waiting' \in SUBSET (1..Len(chunk'))
      BY <1>4, Launched DEF Waiting
    <3> QED BY <2>2, <3>1, Positions
  <2>4. /\ td' = 2 * (Len(step) - Len(results) - Len(chunk')) + Cardinality(Waiting')
        /\ td = 2 * (Len(step) - Len(results) - Len(chunk)) + Cardinality(Waiting)
    BY <2>1 DEF ToDispatch
  <2>5. td' < td
    BY <2>2, <2>3, <2>4
  <2>6. StepsLeft = 4 + il + td /\ StepsLeft' = 4 + il' + td'
    BY <2>1 DEF StepsLeft
  <2>7. il' = il
    BY <1>i, <2>1
  <2> HIDE DEF il, td
  <2> QED BY <1>m, <1>n, <2>1, <2>5, <2>6, <2>7
<1>5. ASSUME ResumePersist \/ IterationsExceeded PROVE StepsLeft' < StepsLeft
  <2>1. /\ iteration' = iteration
        /\ \/ pc = "resume" /\ pc' = "loop"
           \/ pc = "loop" /\ pc' = "finish"
    BY <1>5 DEF ResumePersist, IterationsExceeded, Stop
  <2>2. /\ StepsLeft = IF pc = "resume" THEN 4 + il + cr ELSE 3 + il
        /\ StepsLeft' = IF pc' = "loop" THEN 3 + il' ELSE 2
    BY <2>1 DEF StepsLeft
  <2>3. il' = il
    BY <1>i, <2>1
  <2> HIDE DEF il, cr
  <2> QED BY <1>m, <2>1, <2>2, <2>3
<1>6. ASSUME BeginIteration PROVE StepsLeft' < StepsLeft
  <2>1. /\ pc = "loop" /\ pc' = "chat" /\ iteration' = iteration + 1
        /\ iteration \in Nat /\ MaxIterations \in Nat /\ iteration < MaxIterations
    BY <1>6, BoundsAssumption DEF BeginIteration, LoopContinues, Inv, TypeOK
  <2>2. il' + Round = il
    <3>1. \A a, b \in Nat : a * (b + 1) = a * b + a
      OBVIOUS
    <3>2. MaxIterations - iteration' \in Nat
          /\ MaxIterations - iteration = MaxIterations - iteration' + 1
      BY <2>1
    <3>3. il' = Round * (MaxIterations - iteration')
      BY DEF IterationsLeft, Round
    <3>4. il = Round * (MaxIterations - iteration' + 1)
      BY <3>2 DEF IterationsLeft
    <3> HIDE DEF il
    <3> QED BY <1>m, <3>1, <3>2, <3>3, <3>4
  <2>3. StepsLeft = 3 + il /\ StepsLeft' = 3 + il' + Round - 1
    BY <2>1 DEF StepsLeft, Round
  <2>4. il' \in Nat
    BY <1>n
  <2> DEFINE il2 == il'
  <2>5. il2 \in Nat /\ il2 + Round = il /\ StepsLeft' = 3 + il2 + Round - 1
    BY <2>2, <2>3, <2>4
  <2> HIDE DEF il, il2
  <2> QED BY <1>m, <2>3, <2>5
<1>7. ASSUME ChatEnds("stopped") \/ ChatEnds("complete") \/ ChatRequests
      PROVE  StepsLeft' < StepsLeft
  <2>1. /\ iteration' = iteration /\ pc = "chat" /\ pc' \in {"finish", "request"}
    BY <1>7 DEF ChatEnds, ChatRequests, Stop
  <2>2. /\ StepsLeft = 3 + il + Round - 1
        /\ StepsLeft' = IF pc' = "request" THEN 3 + il' + Round - 2 ELSE 2
    BY <2>1 DEF StepsLeft, Round
  <2>3. il' = il
    BY <1>i, <2>1
  <2> HIDE DEF il
  <2> QED BY <1>m, <2>1, <2>2, <2>3
<1>8. ASSUME PersistRequest PROVE StepsLeft' < StepsLeft
  <2>1. /\ iteration' = iteration /\ pc = "request" /\ pc' = "act"
        /\ step' = step /\ results' = results /\ chunk' = chunk
        /\ results = <<>> /\ chunk = <<>>
    BY <1>8 DEF PersistRequest, Inv, Dispatched
  <2>2. Len(step) \in Nat /\ Len(step) <= MaxCallsPerStep
    BY <2>1, Measured DEF Bounded
  <2>3. td' = 2 * Len(step)
    <3>1. Waiting' = {}
      BY <2>1 DEF Waiting
    <3>2. td' = 2 * (Len(step) - Len(<<>>) - Len(<<>>)) + Cardinality(Waiting')
      BY <2>1 DEF ToDispatch
    <3> QED BY <2>2, <3>1, <3>2, FS_EmptySet
  <2>4. StepsLeft = 3 + il + Round - 2 /\ StepsLeft' = 4 + il' + td'
    BY <2>1 DEF StepsLeft
  <2>5. il' = il
    BY <1>i, <2>1
  <2> HIDE DEF il, td
  <2> QED BY <1>m, <2>2, <2>3, <2>4, <2>5
<1>9. ASSUME PersistResults PROVE StepsLeft' < StepsLeft
  <2>1. iteration' = iteration /\ pc = "act" /\ pc' \in {"loop", "finish"}
    BY <1>9 DEF PersistResults, Stop
  <2>2. StepsLeft = 4 + il + td /\ StepsLeft' = IF pc' = "loop" THEN 3 + il' ELSE 2
    BY <2>1 DEF StepsLeft
  <2>3. il' = il
    BY <1>i, <2>1
  <2> HIDE DEF il, td
  <2> QED BY <1>m, <2>1, <2>2, <2>3
<1>10. ASSUME Finish PROVE StepsLeft' < StepsLeft
  <2>1. pc = "finish" /\ (EndRun \/ pc' = "prune")
    BY <1>10 DEF Finish
  <2>2. pc' = "prune" => StepsLeft = 2 /\ StepsLeft' = 1
    BY <2>1 DEF StepsLeft
  <2> QED BY <1>e, <2>1, <2>2
<1>11. ASSUME Prune \/ Crash \/ ChatFails \/ FinishRejectsOutput PROVE StepsLeft' < StepsLeft
  BY <1>e, <1>11 DEF Prune, Crash, ChatFails, FinishRejectsOutput
<1> QED BY <1>2, <1>3, <1>4, <1>5, <1>6, <1>7, <1>8, <1>9, <1>10, <1>11
        DEF Next, RunStep, StartRun

\* The bounds hold in every reachable state.
LEMMA AlwaysBounded == Spec => [](Inv /\ Bounded)
<1>1. Init => Bounded
  BY DEF Init, IdleLocals, Bounded
<1>2. Inv /\ Bounded /\ [Next]_vars => Bounded'
  BY BoundedStep
<1> QED BY <1>1, <1>2, Invariant, PTL DEF Spec

\* A run that has been started and has not ended always has a next step: the
\* calls of a step are all launched and collected, those of an orphan are all
\* answered, and no chunk waits for a call that has returned (partitionToolCalls
\* and runConcurrentBatch of react-loop.ts, the resume loop of run.ts).
THEOREM RunNeverHangs == Spec => [](pc # "idle" => RunMoves)
<1>1. Inv /\ Bounded => (pc # "idle" => RunMoves)
  BY NeverHangs
<1> QED BY <1>1, AlwaysBounded, PTL

\* Every step of a run in progress leaves it fewer steps: no run goes on for
\* ever.  With RunNeverHangs this is RunEnds but for the steps being taken.
THEOREM RunRunsOut ==
  Spec => [](StepsLeft \in Nat) /\ [][pc # "idle" => StepsLeft' < StepsLeft]_vars
<1>1. Inv /\ Bounded => StepsLeft \in Nat
  BY LeftIsNat
<1>2. Inv /\ Bounded /\ [Next]_vars => [pc # "idle" => StepsLeft' < StepsLeft]_vars
  BY LeftFalls
<1> QED BY <1>1, <1>2, AlwaysBounded, PTL DEF Spec

================================================================================
