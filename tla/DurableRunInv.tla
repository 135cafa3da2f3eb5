---------------------------- MODULE DurableRunInv ----------------------------
(***************************************************************************)
(* The inductive invariant behind at-most-once and the refinement of the   *)
(* tool journal.  It ties three things together: the history of calls, the *)
(* orphan that the next run would find in the store, and how far the       *)
(* current run has come.                                                   *)
(***************************************************************************)
EXTENDS DurableRun

\* A run in progress was started, has a status once its loop has ended, and
\* prunes only when asked to.
RunStarted == /\ pc # "idle" => turn \in Turns
              /\ pc \in {"finish", "prune"} => status \in {"complete", "stopped"}
              /\ pc = "prune" => MaxStored \in Nat

\* A call is issued, then requested, then answered; effects need a request.
CallOrder == /\ answered \subseteq requested
             /\ requested \subseteq issued
             /\ \A c \in Calls : effects[c] # 0 => c \in requested

\* The orphan a resume would find is what was requested and not answered.
OrphanIsOpen == Missing(rows) = (requested \ answered) \ Anonymous

\* Outside a tool step and its resume there is no orphan.
NoOrphan == pc \in {"loop", "chat", "request", "finish", "prune"} => Missing(rows) = {}

\* The calls of a step in progress are distinct and issued.
StepIssued == pc \in {"request", "act"} =>
                /\ Elems(step) \subseteq issued
                /\ \A i, j \in DOMAIN step : step[i] = step[j] => i = j

\* Before phase A none of them is on record.
StepNotRequested == pc = "request" => Elems(step) \cap requested = {}

\* After it the request is the last row of the store and all are unanswered.
StepOnRecord ==
  pc = "act" => /\ rows # <<>> /\ rows[Len(rows)] = CallsRow(step)
                /\ Elems(step) \subseteq requested \ answered

\* Results are collected in call order, the chunk in flight follows them, and a
\* call without an outcome so far has had no effect.
Dispatched ==
  /\ pc # "act" => chunk = <<>> /\ outcome = NoOutcome
  /\ pc \notin {"act", "resume"} => results = <<>>
  /\ pc = "act" =>
       /\ Len(results) + Len(chunk) <= Len(step)
       /\ \A i \in DOMAIN results : results[i].call = step[i]
       /\ \A i \in DOMAIN chunk : chunk[i] = step[Len(results) + i]
       /\ \A i \in DOMAIN step :
            i > Len(results) =>
              \/ effects[step[i]] = 0
              \/ step[i] \in Elems(chunk) /\ outcome[step[i]] # "none"
       /\ \A c \in Calls : outcome[c] # "none" => c \in Elems(chunk)

\* A resume answers missing calls only.
Resuming == pc = "resume" =>
              /\ messages = rows
              /\ \A i \in DOMAIN results : results[i].call \in Missing(rows)

\* How many rows of the turn the conversation holds beyond what is persisted.
Unwritten ==
  /\ pc \in {"loop", "chat", "request", "act", "finish"} =>
       Len(messages) <= prevLen + written
                        + (IF userPersisted THEN 0 ELSE 1)
                        + (IF pc \in {"request", "finish"} THEN 1 ELSE 0)
  /\ ~userPersisted => written = 0
  /\ pc \in {"idle", "resume"} => ~userPersisted
  /\ pc = "act" => userPersisted

\* Until the first phase A, a turn has produced no request and no result.
OnlyText ==
  pc \in {"loop", "chat", "finish"} /\ ~userPersisted =>
    \A i \in DOMAIN messages : i > prevLen => messages[i].role \in {"user", "text"}

\* The inductive invariant.
Inv == /\ TypeOK /\ RunStarted
       /\ CallOrder /\ OrphanIsOpen /\ NoOrphan
       /\ StepIssued /\ StepNotRequested /\ StepOnRecord
       /\ Dispatched /\ Resuming /\ Unwritten /\ OnlyText
================================================================================
