--------------------------- MODULE CiSchedulerProofs ---------------------------
(***************************************************************************)
(* Proofs about CiScheduler, for any graph, any workers and any commands.  *)
(***************************************************************************)
EXTENDS CiScheduler, FiniteSetTheorems, TLAPS

\* Dependencies of t that hold it back.
Unfinished(t) == {e \in Dependencies(t) : results[e[1]] = NoResult}

\* Nodes that were released and have not been recorded.
Out == queue \cup ready \cup Held \cup Sent

Labels == {"unborn", "loop", "recv", "received", "lookup", "next", "begin", "spawned", "waiting",
           "exited"}
Working == {"received", "lookup", "next", "begin", "spawned", "waiting"}

Types ==
  /\ results \in [Tasks -> Statuses \cup {NoResult}]
  /\ degree \in [Tasks -> Nat]
  /\ queue \subseteq Tasks /\ ready \subseteq Tasks
  /\ outcomes \subseteq Tasks \X Statuses \X BOOLEAN
  /\ returned \in BOOLEAN /\ cancelled \in BOOLEAN
  /\ pc \in [Workers -> Labels]
  /\ task \in [Workers -> Tasks \cup {NoTask}]
  /\ steps \in [Workers -> Nat] /\ late \in [Workers -> Nat]
  /\ status \in [Workers -> {"success", "failed"}]
  /\ signal \in {"listening", "terminating", "grace", "done", "aborted"}

\* A worker holds a task from when it receives it until it reports.
HoldsOne == \A w \in Workers : task[w] # NoTask <=> pc[w] \in Working

\* Workers report "skipped" only after a cancellation; a cache hit is a success.
Verdicts == \A o \in outcomes : /\ o[2] = "skipped" => cancelled
                                /\ o[3] => o[2] = "success"

Closed == returned => queue = {}
Leaving == \A w \in Workers : pc[w] = "exited" => cancelled \/ returned

Basics == Types /\ HoldsOne /\ Verdicts /\ Closed /\ Leaving

\* While the coordinator waits: in_degree counts the dependencies without a
\* result, and the nodes that are out are those that nothing holds back and
\* that have no result.
Degrees == ~returned => \A t \in Tasks : degree[t] = Cardinality(Unfinished(t))
Released == ~returned =>
              \A t \in Tasks : /\ t \in Out \/ results[t] # NoResult <=> degree[t] = 0
                               /\ t \in Out => results[t] = NoResult

Graph == Degrees /\ Released

(***************************************************************************)
(* Finishing a node                                                        *)
(***************************************************************************)
LEMMA UnfinishedFinite == \A t : IsFiniteSet(Unfinished(t))
<1> SUFFICES ASSUME NEW t PROVE IsFiniteSet(Unfinished(t))
  OBVIOUS
<1>1. Unfinished(t) \subseteq Edges
  BY DEF Unfinished, Dependencies
<1> QED
  BY <1>1, FS_Subset, GraphAssumption

\* Recording a node lowers the degrees of its dependents, which stay exact.
LEMMA Recording ==
  ASSUME Types, Degrees, ~returned, NEW t \in Tasks, results[t] = NoResult, NEW s \in Statuses,
         results' = [results EXCEPT ![t] = s], Release(t)
  PROVE  /\ degree' \in [Tasks -> Nat]
         /\ \A u \in Tasks : degree'[u] = Cardinality(Unfinished(u)')
         /\ \A u \in Tasks : u \in Dependents(t) => degree[u] >= 1 /\ degree'[u] = degree[u] - 1
         /\ \A u \in Tasks : u \notin Dependents(t) => degree'[u] = degree[u]
<1>1. s # NoResult
  BY GraphAssumption
<1>2. ASSUME NEW u \in Tasks, u \in Dependents(t)
      PROVE  degree[u] >= 1 /\ degree'[u] = degree[u] - 1 /\ degree'[u] = Cardinality(Unfinished(u)')
  <2>1. PICK e \in Edges : e[1] = t /\ e[2] = u
    BY <1>2 DEF Dependents
  <2>2. e = <<t, u>> /\ e \in Unfinished(u)
    BY <2>1, GraphAssumption DEF Unfinished, Dependencies
  <2>3. \A d \in Dependencies(u) : d[1] \in Tasks /\ (d[1] = t => d = e)
    BY <2>2, GraphAssumption DEF Dependencies
  <2>4. Unfinished(u)' = Unfinished(u) \ {e}
    <3>1. \A d \in Dependencies(u) : results'[d[1]] = NoResult <=> d # e /\ results[d[1]] = NoResult
      BY <1>1, <2>2, <2>3 DEF Types
    <3> QED
      BY <3>1 DEF Unfinished
  <2>5. degree[u] = Cardinality(Unfinished(u))
    BY DEF Degrees
  <2>6. Cardinality(Unfinished(u)') = Cardinality(Unfinished(u)) - 1
    BY <2>2, <2>4, UnfinishedFinite, FS_RemoveElement
  <2>7. Cardinality(Unfinished(u)') \in Nat
    BY <2>4, UnfinishedFinite, FS_RemoveElement, FS_CardinalityType
  <2>8. degree'[u] = degree[u] - 1
    BY <1>2 DEF Release
  <2> QED
    BY <2>5, <2>6, <2>7, <2>8 DEF Types
<1>3. ASSUME NEW u \in Tasks, u \notin Dependents(t)
      PROVE  degree'[u] = degree[u] /\ degree'[u] = Cardinality(Unfinished(u)')
  <2>1. degree'[u] = degree[u]
    BY <1>3 DEF Release
  <2>2. \A d \in Dependencies(u) : results'[d[1]] = results[d[1]]
    BY <1>3, GraphAssumption DEF Dependencies, Dependents, Types
  <2>3. Unfinished(u)' = Unfinished(u)
    BY <2>2 DEF Unfinished
  <2> QED
    BY <2>1, <2>3 DEF Degrees
<1>4. degree' \in [Tasks -> Nat]
  <2>1. degree' = [u \in Tasks |-> degree'[u]]
    BY DEF Release
  <2>2. \A u \in Tasks : degree'[u] \in Nat
    BY <1>2, <1>3 DEF Types
  <2> QED
    BY <2>1, <2>2
<1> QED
  BY <1>2, <1>3, <1>4

\* The nodes that a recorded node frees take its place among those that are out.
LEMMA GraphKept ==
  ASSUME Types, Graph, ~returned, returned' = FALSE,
         NEW t \in Out, t \in Tasks, NEW s \in Statuses,
         results' = [results EXCEPT ![t] = s], Release(t), Out' = (Out \ {t}) \cup Freed(t)
  PROVE  /\ Graph' /\ degree' \in [Tasks -> Nat]
         /\ Freed(t) \subseteq Tasks /\ Freed(t) \cap Out = {}
<1>1. results[t] = NoResult /\ degree[t] = 0 /\ s # NoResult
  BY GraphAssumption DEF Graph, Released
<1>2. /\ degree' \in [Tasks -> Nat]
      /\ \A u \in Tasks : degree'[u] = Cardinality(Unfinished(u)')
      /\ \A u \in Tasks : u \in Dependents(t) => degree[u] >= 1 /\ degree'[u] = degree[u] - 1
      /\ \A u \in Tasks : u \notin Dependents(t) => degree'[u] = degree[u]
  BY <1>1, Recording DEF Graph
<1>3. Dependents(t) \subseteq Tasks
  BY GraphAssumption DEF Dependents
<1>4. Freed(t) = {u \in Tasks : degree[u] # 0 /\ degree'[u] = 0}
  BY <1>2, <1>3 DEF Freed, Types
<1>5. ASSUME NEW u \in Tasks
      PROVE  /\ u \in Out' \/ results'[u] # NoResult <=> degree'[u] = 0
             /\ u \in Out' => results'[u] = NoResult
  <2>1. CASE u = t
    <3>1. results'[u] = s
      BY <2>1 DEF Types
    <3>2. u \notin Dependents(t) /\ u \notin Freed(t)
      BY <1>1, <1>2, <1>4, <2>1
    <3> QED
      BY <1>1, <1>2, <2>1, <3>1, <3>2
  <2>2. CASE u # t
    <3>1. results'[u] = results[u]
      BY <2>2 DEF Types
    <3>2. /\ u \in Out \/ results[u] # NoResult <=> degree[u] = 0
          /\ u \in Out => results[u] = NoResult
      BY DEF Graph, Released
    <3>3. degree[u] = 0 => degree'[u] = 0
      BY <1>2
    <3> QED
      BY <1>4, <2>2, <3>1, <3>2, <3>3
  <2> QED
    BY <2>1, <2>2
<1>6. Freed(t) \cap Out = {}
  BY <1>3, <1>4 DEF Graph, Released, Freed
<1> QED
  BY <1>2, <1>3, <1>5, <1>6 DEF Graph, Degrees, Released, Freed

(***************************************************************************)
(* What a worker does to the nodes that are out                            *)
(***************************************************************************)
Keeps(w) == UNCHANGED <<ready, outcomes, task>>
Takes(w, t) == /\ task[w] = NoTask /\ t \in ready
               /\ ready' = ready \ {t}
               /\ task' = [task EXCEPT ![w] = t]
               /\ outcomes' = outcomes
Reports(w, s, hit) == /\ task[w] # NoTask
                      /\ outcomes' = outcomes \cup {<<task[w], s, hit>>}
                      /\ task' = [task EXCEPT ![w] = NoTask]
                      /\ ready' = ready
                      /\ s = "skipped" => cancelled
                      /\ hit => s = "success"

\* A worker never touches what is the coordinator's.
LEMMA WorkerMoves ==
  ASSUME Basics, NEW w \in Workers, Worker(w)
  PROVE  /\ UNCHANGED <<results, degree, queue, remaining, tally, returned, cancelled, signal>>
         /\ \/ Keeps(w)
            \/ \E t \in Tasks : Takes(w, t)
            \/ \E s \in Statuses, hit \in BOOLEAN : Reports(w, s, hit)
<1> USE DEF Basics, Types, HoldsOne, Keeps, Takes, Reports, Report, Goto, coordVars, Statuses, Working
<1>1. CASE Loop(w)
  BY <1>1 DEF Loop
<1>2. CASE Receive(w)
  BY <1>2 DEF Receive
<1>3. CASE Recheck(w)
  BY <1>3 DEF Recheck
<1>4. CASE Lookup(w)
  BY <1>4 DEF Lookup
<1>5. CASE NextStep(w)
  BY <1>5 DEF NextStep
<1>6. CASE Begin(w)
  BY <1>6 DEF Begin
<1>7. CASE RegisterPid(w)
  BY <1>7 DEF RegisterPid
<1>8. CASE Finish(w)
  BY <1>8 DEF Finish
<1>9. ASSUME NEW s \in {"success", "failed"}, ChildEnds(w, s)
      PROVE  UNCHANGED <<coordVars, ready, outcomes, task, cancelled, signal>>
  BY <1>9 DEF ChildEnds
<1> QED
  BY <1>1, <1>2, <1>3, <1>4, <1>5, <1>6, <1>7, <1>8, <1>9 DEF Worker

\* A worker changes its own label and its own task, in step.
LEMMA WorkerLabels ==
  ASSUME Basics, NEW w \in Workers, NEW l \in Labels, NEW x \in Tasks \cup {NoTask},
         pc' = [pc EXCEPT ![w] = l], task' = [task EXCEPT ![w] = x],
         x # NoTask <=> l \in Working, l = "exited" => cancelled \/ returned,
         UNCHANGED <<cancelled, returned>>
  PROVE  /\ pc' \in [Workers -> Labels] /\ task' \in [Workers -> Tasks \cup {NoTask}]
         /\ HoldsOne' /\ Leaving'
<1>1. pc' \in [Workers -> Labels] /\ task' \in [Workers -> Tasks \cup {NoTask}]
  BY DEF Basics, Types
<1>2. \A v \in Workers : /\ pc'[v] = IF v = w THEN l ELSE pc[v]
                         /\ task'[v] = IF v = w THEN x ELSE task[v]
  BY DEF Basics, Types
<1> QED
  BY <1>1, <1>2 DEF Basics, HoldsOne, Leaving

\* A worker keeps its types, and holds a task as its label says.
LEMMA WorkerTypes ==
  ASSUME Basics, NEW w \in Workers, Worker(w)
  PROVE  Basics'
<1>1. /\ UNCHANGED <<results, degree, queue, remaining, tally, returned, cancelled, signal>>
      /\ \/ Keeps(w)
         \/ \E t \in Tasks : Takes(w, t)
         \/ \E s \in Statuses, hit \in BOOLEAN : Reports(w, s, hit)
  BY WorkerMoves
<1>2. ready' \subseteq Tasks /\ outcomes' \subseteq Tasks \X Statuses \X BOOLEAN /\ Verdicts'
  BY <1>1 DEF Basics, Types, Verdicts, Keeps, Takes, Reports
<1>3. /\ steps' \in [Workers -> Nat] /\ late' \in [Workers -> Nat]
      /\ status' \in [Workers -> {"success", "failed"}]
  <2> USE DEF Basics, Types
  <2>1. CASE UNCHANGED <<steps, status, late>>
    BY <2>1
  <2>2. CASE Recheck(w)
    <3>1. /\ steps' = steps \/ steps' = [steps EXCEPT ![w] = 0]
          /\ status' = status \/ status' = [status EXCEPT ![w] = "success"]
          /\ late' = late
      BY <2>2 DEF Recheck
    <3> QED
      BY <3>1
  <2>3. CASE Begin(w)
    <3>1. /\ steps' = steps \/ steps' = [steps EXCEPT ![w] = steps[w] + 1]
          /\ status' = status \/ status' = [status EXCEPT ![w] = "failed"]
          /\ late' = [late EXCEPT ![w] = IF cancelled THEN late[w] + 1 ELSE late[w]]
      BY <2>3 DEF Begin
    <3> QED
      BY <3>1
  <2>4. CASE \E s \in {"success", "failed"} : ChildEnds(w, s)
    BY <2>4 DEF ChildEnds
  <2> QED
    BY <2>1, <2>2, <2>3, <2>4 DEF Worker, Loop, Receive, Lookup, NextStep, RegisterPid, Finish
<1>4. \E l \in Labels, x \in Tasks \cup {NoTask} :
        /\ pc' = [pc EXCEPT ![w] = l] /\ task' = [task EXCEPT ![w] = x]
        /\ x # NoTask <=> l \in Working
        /\ l = "exited" => cancelled \/ returned
  <2>1. task[w] \in Tasks \cup {NoTask} /\ (task[w] # NoTask <=> pc[w] \in Working)
    BY DEF Basics, Types, HoldsOne
  <2>2. task' = task => task' = [task EXCEPT ![w] = task[w]]
    BY DEF Basics, Types
  <2> USE <2>1, <2>2, GraphAssumption DEF Labels, Working, Goto, Report
  <2>3. CASE Loop(w)
    BY <2>3 DEF Loop
  <2>4. CASE Receive(w)
    BY <2>4 DEF Receive, Basics, Types
  <2>5. CASE Recheck(w)
    BY <2>5 DEF Recheck
  <2>6. CASE Lookup(w)
    BY <2>6 DEF Lookup
  <2>7. CASE NextStep(w)
    BY <2>7 DEF NextStep
  <2>8. CASE Begin(w)
    BY <2>8 DEF Begin
  <2>9. CASE RegisterPid(w)
    BY <2>9 DEF RegisterPid
  <2>10. CASE Finish(w)
    BY <2>10 DEF Finish
  <2>11. CASE \E s \in {"success", "failed"} : ChildEnds(w, s)
    BY <2>11 DEF ChildEnds
  <2> QED
    BY <2>3, <2>4, <2>5, <2>6, <2>7, <2>8, <2>9, <2>10, <2>11 DEF Worker
<1>5. /\ pc' \in [Workers -> Labels] /\ task' \in [Workers -> Tasks \cup {NoTask}]
      /\ HoldsOne' /\ Leaving'
  BY <1>1, <1>4, WorkerLabels
<1> QED
  BY <1>1, <1>2, <1>3, <1>5 DEF Basics, Types, Closed

\* Receiving and reporting move a node from one place to the next.
LEMMA TakeMoves ==
  ASSUME Basics, OnePlace, NEW w \in Workers, NEW t \in Tasks, Takes(w, t), queue' = queue
  PROVE  OnePlace' /\ (ready \cup Held \cup Sent)' = ready \cup Held \cup Sent
<1> USE GraphAssumption
<1>1. \A v \in Workers : task'[v] = IF v = w THEN t ELSE task[v]
  BY DEF Basics, Types, Takes
<1>2. Held' = Held \cup {t}
  BY <1>1 DEF Held, Takes
<1>3. Sent' = Sent /\ ready' = ready \ {t} /\ t \in ready /\ outcomes' = outcomes
  BY DEF Sent, Takes
<1>4. \A v \in Workers : task[v] # t
  BY DEF OnePlace, Held, Takes
<1>5. \A u, v \in Workers : task'[u] = task'[v] /\ u # v => task'[u] = NoTask
  BY <1>1, <1>4 DEF OnePlace
<1> QED
  BY <1>2, <1>3, <1>5 DEF OnePlace

LEMMA ReportMoves ==
  ASSUME Basics, OnePlace, NEW w \in Workers, NEW s \in Statuses, NEW hit \in BOOLEAN,
         Reports(w, s, hit), queue' = queue
  PROVE  OnePlace' /\ (ready \cup Held \cup Sent)' = ready \cup Held \cup Sent
<1> DEFINE t == task[w]
<1>1. \A v \in Workers : task'[v] = IF v = w THEN NoTask ELSE task[v]
  BY DEF Basics, Types, Reports
<1>2. t \in Held /\ t # NoTask
  BY DEF Held, Reports
<1>3. \A v \in Workers : v # w => task[v] # t
  BY <1>2 DEF OnePlace
<1>4. Held' = Held \ {t}
  BY <1>1, <1>3 DEF Held
<1>5. outcomes' = outcomes \cup {<<t, s, hit>>} /\ ready' = ready
  BY DEF Reports
<1>6. Sent' = Sent \cup {t}
  <2>1. <<t, s, hit>>[1] = t
    OBVIOUS
  <2> HIDE DEF t
  <2>2. {o[1] : o \in outcomes \cup {<<t, s, hit>>}} = {o[1] : o \in outcomes} \cup {t}
    BY <2>1, Zenon
  <2> QED
    BY <1>5, <2>2 DEF Sent
<1>7. \A u, v \in Workers : task'[u] = task'[v] /\ u # v => task'[u] = NoTask
  BY <1>1 DEF OnePlace
<1>8. \A o, p \in outcomes' : o[1] = p[1] => o = p
  <2>1. \A o \in outcomes : o[1] # t
    BY <1>2 DEF OnePlace, Sent
  <2> QED
    BY <1>5, <2>1 DEF OnePlace
<1> QED
  BY <1>2, <1>4, <1>5, <1>6, <1>7, <1>8 DEF OnePlace

LEMMA WorkerPlaces ==
  ASSUME Basics, OnePlace, NEW w \in Workers, Worker(w)
  PROVE  OnePlace' /\ (ready \cup Held \cup Sent)' = ready \cup Held \cup Sent
<1>1. queue' = queue
  BY WorkerMoves
<1>2. CASE Keeps(w)
  BY <1>1, <1>2 DEF Keeps, OnePlace, Held, Sent
<1>3. CASE \E t \in Tasks : Takes(w, t)
  BY <1>1, <1>3, TakeMoves
<1>4. CASE \E s \in Statuses, hit \in BOOLEAN : Reports(w, s, hit)
  BY <1>1, <1>4, ReportMoves
<1> QED
  BY <1>2, <1>3, <1>4, WorkerMoves

\* The coordinator takes one result off the channel.
LEMMA ResultLeaves ==
  ASSUME OnePlace, NEW o \in outcomes, outcomes' = outcomes \ {o}
  PROVE  /\ Sent' = Sent \ {o[1]} /\ o[1] \in Sent
         /\ \A p, q \in outcomes' : p[1] = q[1] => p = q
  BY DEF OnePlace, Sent

(***************************************************************************)
(* The coordinator                                                         *)
(***************************************************************************)
Inv == Basics /\ Graph /\ OnePlace

LEMMA Initially == Init => Inv
<1> SUFFICES ASSUME Init PROVE Inv
  OBVIOUS
<1>1. Held = {} /\ Sent = {}
  BY DEF Init, Held, Sent
<1>2. \A t \in Tasks : Unfinished(t) = Dependencies(t)
  BY GraphAssumption DEF Init, Unfinished, Dependencies
<1>3. \A t \in Tasks : Cardinality(Dependencies(t)) \in Nat
  BY <1>2, UnfinishedFinite, FS_CardinalityType
<1>4. \A t \in Tasks : Cardinality(Dependencies(t)) = 0 <=> Dependencies(t) = {}
  BY <1>2, UnfinishedFinite, FS_EmptySet
<1>5. Basics
  BY <1>3, GraphAssumption DEF Init, Basics, Types, HoldsOne, Verdicts, Closed, Leaving, Labels, Working, Statuses
<1>6. Graph
  BY <1>1, <1>2, <1>3, <1>4 DEF Init, Graph, Degrees, Released, Out
<1>7. OnePlace
  BY <1>1 DEF Init, OnePlace
<1> QED
  BY <1>5, <1>6, <1>7 DEF Inv

LEMMA ExamineStep ==
  ASSUME Inv, NEW t \in Tasks, Examine(t)
  PROVE  Inv'
<1>1. ~returned /\ returned' = FALSE
  BY DEF Examine, Inv, Basics, Closed, Types
<1>2. t \in queue /\ UNCHANGED <<outcomes, returned, workerVars, cancelled, signal>>
  BY DEF Examine
<1>3. Held' = Held /\ Sent' = Sent
  BY <1>2 DEF Held, Sent, workerVars
<1>4. t \in Out /\ t \notin ready \cup Held \cup Sent
  BY <1>2 DEF Inv, OnePlace, Out
<1>5. CASE /\ results' = [results EXCEPT ![t] = "skipped"] /\ Release(t)
           /\ queue' = (queue \ {t}) \cup Freed(t) /\ ready' = ready
  <2>1. Out' = (Out \ {t}) \cup Freed(t)
    BY <1>3, <1>4, <1>5 DEF Out
  <2>2. Graph' /\ degree' \in [Tasks -> Nat] /\ Freed(t) \subseteq Tasks /\ Freed(t) \cap Out = {}
    BY <1>1, <1>4, <1>5, <2>1, GraphKept DEF Inv, Basics, Statuses
  <2>3. OnePlace'
    BY <1>2, <1>3, <1>5, <2>2 DEF Inv, OnePlace, Out, workerVars
  <2>4. Basics'
    BY <1>1, <1>2, <1>5, <2>2 DEF Inv, Basics, Types, HoldsOne, Verdicts, Closed, Leaving, workerVars, Statuses
  <2> QED
    BY <2>2, <2>3, <2>4 DEF Inv
<1>6. CASE ready' = ready \cup {t} /\ queue' = queue \ {t} /\ UNCHANGED <<results, degree>>
  <2>1. Out' = Out
    BY <1>3, <1>4, <1>6 DEF Out
  <2>2. Graph'
    BY <1>2, <1>6, <2>1 DEF Inv, Graph, Degrees, Released, Unfinished
  <2>3. OnePlace'
    BY <1>2, <1>3, <1>4, <1>6 DEF Inv, OnePlace, workerVars
  <2>4. Basics'
    BY <1>1, <1>2, <1>6 DEF Inv, Basics, Types, HoldsOne, Verdicts, Closed, Leaving, workerVars
  <2> QED
    BY <2>2, <2>3, <2>4 DEF Inv
<1> QED
  BY <1>5, <1>6 DEF Examine

LEMMA ResultStep ==
  ASSUME Inv, NEW o \in outcomes, TakeResult(o)
  PROVE  Inv'
<1>1. /\ ~returned /\ returned' = FALSE /\ queue = {}
      /\ outcomes' = outcomes \ {o} /\ results' = [results EXCEPT ![o[1]] = o[2]]
      /\ Release(o[1]) /\ queue' = Freed(o[1])
      /\ UNCHANGED <<ready, workerVars, cancelled, signal>>
  BY DEF TakeResult, Receiving, Inv, Basics, Types
<1>2. o[1] \in Tasks /\ o[2] \in Statuses
  BY DEF Inv, Basics, Types
<1>3. /\ Sent' = Sent \ {o[1]} /\ o[1] \in Sent
      /\ \A p, q \in outcomes' : p[1] = q[1] => p = q
  BY <1>1, ResultLeaves DEF Inv
<1>4. Held' = Held
  BY <1>1 DEF Held, workerVars
<1>5. Out' = (Out \ {o[1]}) \cup Freed(o[1])
  BY <1>1, <1>3, <1>4 DEF Inv, OnePlace, Out
<1>6. /\ Graph' /\ degree' \in [Tasks -> Nat]
      /\ Freed(o[1]) \subseteq Tasks /\ Freed(o[1]) \cap Out = {}
  <2>1. o[1] \in Out
    BY <1>3 DEF Out
  <2> QED
    BY <1>1, <1>2, <1>5, <2>1, GraphKept DEF Inv, Basics
<1>7. OnePlace'
  BY <1>1, <1>3, <1>4, <1>6 DEF Inv, OnePlace, Out, workerVars
<1>8. Basics'
  BY <1>1, <1>2, <1>6 DEF Inv, Basics, Types, HoldsOne, Verdicts, Closed, Leaving, workerVars
<1> QED
  BY <1>6, <1>7, <1>8 DEF Inv

LEMMA LastResultStep ==
  ASSUME Inv, NEW o \in outcomes, TakeLastResult(o)
  PROVE  Inv'
<1>1. /\ returned' = TRUE /\ queue = {} /\ outcomes' = outcomes \ {o}
      /\ UNCHANGED <<degree, queue, ready, workerVars, cancelled>>
  BY DEF TakeLastResult, Receiving
<1>2. o[1] \in Tasks /\ o[2] \in Statuses
  BY DEF Inv, Basics, Types
<1>3. results' \in [Tasks -> Statuses \cup {NoResult}]
  BY <1>2 DEF TakeLastResult, Inv, Basics, Types, Statuses
<1>4. signal' \in {"listening", "terminating", "grace", "done", "aborted"}
  BY DEF TakeLastResult, AbortSignal, Inv, Basics, Types
<1>5. Basics'
  BY <1>1, <1>3, <1>4 DEF Inv, Basics, Types, HoldsOne, Verdicts, Closed, Leaving, workerVars
<1>6. OnePlace'
  <2>1. Sent' = Sent \ {o[1]} /\ \A p, q \in outcomes' : p[1] = q[1] => p = q
    BY <1>1, ResultLeaves DEF Inv
  <2> QED
    BY <1>1, <2>1 DEF Inv, OnePlace, Held, workerVars
<1> QED
  BY <1>1, <1>5, <1>6 DEF Inv, Graph, Degrees, Released

LEMMA InvStep == Inv /\ [Next]_vars => Inv'
<1> SUFFICES ASSUME Inv, [Next]_vars PROVE Inv'
  OBVIOUS
<1>1. ASSUME NEW t \in Tasks, Examine(t) PROVE Inv'
  BY <1>1, ExamineStep
<1>2. ASSUME NEW o \in outcomes, TakeResult(o) \/ TakeLastResult(o) PROVE Inv'
  BY <1>2, ResultStep, LastResultStep
<1>3. ASSUME NEW w \in Workers, Worker(w) PROVE Inv'
  <2>1. Basics' /\ OnePlace'
    BY <1>3, WorkerTypes, WorkerPlaces DEF Inv
  <2>2. (ready \cup Held \cup Sent)' = ready \cup Held \cup Sent
    BY <1>3, WorkerPlaces DEF Inv
  <2>3. UNCHANGED <<results, degree, queue, returned>>
    BY <1>3, WorkerMoves DEF Inv
  <2>4. Out' = Out
    BY <2>2, <2>3 DEF Out
  <2>5. Graph'
    BY <2>3, <2>4 DEF Inv, Graph, Degrees, Released, Unfinished
  <2> QED
    BY <2>1, <2>5 DEF Inv
<1>4. ASSUME /\ UNCHANGED <<results, degree, queue, ready, outcomes, task>>
             /\ Basics'
             /\ returned' = returned \/ returned'
      PROVE  Inv'
  <2>1. Held' = Held /\ Sent' = Sent
    BY <1>4 DEF Held, Sent
  <2>2. OnePlace'
    BY <1>4, <2>1 DEF Inv, OnePlace
  <2>3. Graph'
    BY <1>4, <2>1 DEF Inv, Graph, Degrees, Released, Unfinished, Out
  <2> QED
    BY <1>4, <2>2, <2>3 DEF Inv
<1> USE DEF Inv, Basics, Types, HoldsOne, Verdicts, Closed, Leaving, coordVars, workerVars
<1>5. CASE SpawnWorkers
  BY <1>4, <1>5 DEF SpawnWorkers, Labels, Working
<1>6. CASE Return
  BY <1>4, <1>6 DEF Return, AbortSignal
<1>7. CASE Cancel
  BY <1>4, <1>7 DEF Cancel
<1>8. CASE Terminate
  BY <1>4, <1>8 DEF Terminate
<1>9. CASE Kill
  <2>1. pc' \in [Workers -> Labels] /\ HoldsOne' /\ Leaving'
    BY <1>9 DEF Kill, Labels, Working
  <2>2. status' \in [Workers -> {"success", "failed"}] /\ steps' \in [Workers -> Nat]
    BY <1>9 DEF Kill
  <2> QED
    BY <1>4, <1>9, <2>1, <2>2 DEF Kill
<1>10. CASE UNCHANGED vars
  BY <1>4, <1>10 DEF vars
<1> HIDE DEF Inv, Basics, Types, HoldsOne, Verdicts, Closed, Leaving, coordVars, workerVars
<1>11. CASE Next
  <2>1. CASE Coordinator
    BY <1>1, <1>2, <1>5, <1>6, <2>1 DEF Coordinator
  <2> QED
    BY <1>3, <1>7, <1>8, <1>9, <1>11, <2>1 DEF Next
<1> QED
  BY <1>10, <1>11

\* The inductive invariant holds in every state.
THEOREM Invariant == Spec => []Inv
  BY Initially, InvStep, PTL DEF Spec

(* A node that was released is in one place only, whatever workers do and    *)
(* whenever the user interrupts: it is neither run nor counted twice.        *)
THEOREM NodesInOnePlace == Spec => []OnePlace
<1>1. Inv => OnePlace
  BY DEF Inv
<1> QED
  BY Invariant, <1>1, PTL

(***************************************************************************)
(* Refinement                                                              *)
(***************************************************************************)
Dispatched == {t \in ready \cup Held \cup Sent : results[t] = NoResult}

\* Nothing holds back a node that is out, and it has no result.
LEMMA OutIsReady ==
  ASSUME Inv, ~returned, NEW t \in Tasks, t \in Out
  PROVE  results[t] = NoResult /\ \A e \in Dependencies(t) : results[e[1]] # NoResult
<1>1. results[t] = NoResult /\ degree[t] = 0
  BY DEF Inv, Graph, Released
<1>2. Cardinality(Unfinished(t)) = 0
  BY <1>1 DEF Inv, Graph, Degrees
<1>3. Unfinished(t) = {}
  BY <1>2, UnfinishedFinite, FS_EmptySet
<1> QED
  BY <1>1, <1>3 DEF Unfinished

LEMMA RunStep == Inv /\ [Next]_vars => [Run!Next]_(Run!vars)
<1> SUFFICES ASSUME Inv, [Next]_vars PROVE [Run!Next]_(Run!vars)
  OBVIOUS
<1>1. ASSUME NEW t \in Tasks, Examine(t) PROVE Run!Next
  <2>1. t \in queue /\ t \in Out /\ ~returned /\ t \notin ready \cup Held \cup Sent
    BY <1>1 DEF Examine, Inv, Basics, Closed, Types, Out, OnePlace
  <2>2. results[t] = NoResult /\ \A e \in Dependencies(t) : results[e[1]] # NoResult
    BY <2>1, OutIsReady
  <2>3. Run!Ready(t)
    BY <2>1, <2>2 DEF Run!Ready, Run!Dependencies, Dependencies
  <2>4. Held' = Held /\ Sent' = Sent /\ cancelled' = cancelled
    BY <1>1 DEF Examine, Held, Sent, workerVars
  <2>5. PICK yes \in SUBSET Callbacks(t) :
          IF ShouldSkip(t, yes) \/ t \in Unmet
            THEN results' = [results EXCEPT ![t] = "skipped"] /\ ready' = ready
            ELSE ready' = ready \cup {t} /\ results' = results
    BY <1>1 DEF Examine
  <2>6. CASE ShouldSkip(t, yes) \/ t \in Unmet
    <3>1. Run!MaySkip(t)
      BY <2>6 DEF ShouldSkip, Run!MaySkip, Run!Dependencies, Dependencies
    <3>2. Dispatched' = Dispatched
      <4>1. \A u \in ready \cup Held \cup Sent : results'[u] = results[u]
        BY <2>1, <2>5, <2>6 DEF Inv, Basics, Types, Held, Sent
      <4> QED
        BY <2>4, <2>5, <2>6, <4>1 DEF Dispatched
    <3> QED
      BY <2>3, <2>4, <2>5, <2>6, <3>1, <3>2 DEF Run!Next, Run!Skip, Dispatched
  <2>7. CASE ~(ShouldSkip(t, yes) \/ t \in Unmet)
    <3>1. Run!MayRun(t)
      <4>1. \A e \in Dependencies(t) : e \in yes \/ results[e[1]] \in RunsOn(Kind[e])
        BY <2>2, <2>7 DEF ShouldSkip
      <4>2. \A e \in yes : Kind[e] = "callback"
        BY DEF Callbacks
      <4> QED
        BY <2>7, <4>1, <4>2 DEF Run!MayRun, Run!Dependencies, Dependencies
    <3>2. Dispatched' = Dispatched \cup {t}
      BY <2>2, <2>4, <2>5, <2>7 DEF Dispatched
    <3> QED
      BY <2>3, <2>4, <2>5, <2>7, <3>1, <3>2 DEF Run!Next, Run!Dispatch, Dispatched
  <2> QED
    BY <2>6, <2>7
<1>2. ASSUME NEW o \in outcomes
      PROVE  /\ o[1] \in Tasks /\ o[2] \in Statuses /\ o[1] \in Sent
             /\ ~returned => o[1] \in Dispatched
  <2>1. o[1] \in Tasks /\ o[2] \in Statuses /\ o[1] \in Sent
    BY DEF Inv, Basics, Types, Sent
  <2> QED
    BY <2>1, OutIsReady DEF Out, Dispatched
<1>3. ASSUME NEW o \in outcomes, TakeResult(o) PROVE Run!Next
  <2>1. /\ ~returned /\ ~cancelled /\ cancelled' = cancelled
        /\ results' = [results EXCEPT ![o[1]] = o[2]]
        /\ outcomes' = outcomes \ {o} /\ UNCHANGED <<ready, workerVars>>
    BY <1>3 DEF TakeResult, Receiving
  <2>2. Held' = Held /\ Sent' = Sent \ {o[1]}
    BY <2>1, ResultLeaves DEF Inv, Held, workerVars
  <2>3. Dispatched' = Dispatched \ {o[1]}
    <3>1. o[1] \notin ready \cup Held
      BY <1>2 DEF Inv, OnePlace
    <3>2. \A u \in ready \cup Held \cup Sent : u # o[1] => results'[u] = results[u]
      BY <2>1 DEF Inv, Basics, Types, Held, Sent
    <3> QED
      BY <2>1, <2>2, <3>1, <3>2 DEF Dispatched
  <2>4. o[2] # "skipped"
    BY <2>1 DEF Inv, Basics, Verdicts
  <2>5. Run!Finish(o[1], o[2])
    BY <1>2, <2>1, <2>3, <2>4 DEF Run!Finish, Dispatched
  <2> QED
    BY <1>2, <2>5 DEF Run!Next, Statuses
<1>4. ASSUME NEW o \in outcomes, TakeLastResult(o) PROVE Run!Next
  <2>1. /\ ~returned /\ cancelled /\ cancelled' = cancelled
        /\ results' = [t \in Tasks |-> IF t = o[1] THEN o[2]
                                       ELSE IF results[t] = NoResult THEN "skipped" ELSE results[t]]
    BY <1>4 DEF TakeLastResult, Receiving
  <2>2. \A t \in Tasks : results'[t] # NoResult
    BY <1>2, <2>1, GraphAssumption DEF Statuses
  <2>3. (ready \cup Held \cup Sent)' \subseteq Tasks
    BY <1>4 DEF TakeLastResult, Inv, Basics, Types, Held, Sent, workerVars
  <2>4. Dispatched' = {}
    BY <2>2, <2>3 DEF Dispatched
  <2>5. Run!Abandon(o[1], o[2])
    BY <1>2, <2>1, <2>4 DEF Run!Abandon, Dispatched
  <2> QED
    BY <1>2, <2>5 DEF Run!Next, Statuses
<1>5. ASSUME NEW w \in Workers, Worker(w) PROVE UNCHANGED Run!vars
  <2>1. (ready \cup Held \cup Sent)' = ready \cup Held \cup Sent
    BY <1>5, WorkerPlaces DEF Inv
  <2>2. UNCHANGED <<results, cancelled>>
    BY <1>5, WorkerMoves DEF Inv
  <2> QED
    BY <2>1, <2>2 DEF Run!vars
<1>6. ASSUME UNCHANGED <<results, ready, outcomes, task, cancelled>> PROVE UNCHANGED Run!vars
  BY <1>6 DEF Run!vars, Held, Sent
<1>7. CASE Cancel
  <2>1. UNCHANGED <<results, ready, outcomes, task>> /\ cancelled' = TRUE
    BY <1>7 DEF Cancel, coordVars, workerVars
  <2>2. Held' = Held /\ Sent' = Sent
    BY <2>1 DEF Held, Sent
  <2> QED
    BY <2>1, <2>2 DEF Run!Next, Run!Interrupt
<1>8. CASE SpawnWorkers \/ Return \/ Terminate \/ Kill \/ UNCHANGED vars
  <2>1. UNCHANGED <<results, ready, outcomes, task, cancelled>>
    BY <1>8 DEF SpawnWorkers, Return, Terminate, Kill, vars, coordVars, workerVars
  <2> QED
    BY <1>6, <2>1
<1>9. CASE Next
  <2>1. CASE Coordinator
    BY <1>1, <1>3, <1>4, <1>8, <2>1 DEF Coordinator
  <2> QED
    BY <1>5, <1>7, <1>8, <1>9, <2>1 DEF Next
<1> QED
  BY <1>8, <1>9

(* Nodes run as TaskRun promises, for any graph and any number of workers:   *)
(* each is dispatched at most once, when all its dependencies have results   *)
(* and every edge lets it run, and no result changes.                        *)
THEOREM RunsAsPromised == Spec => ImplementsTaskRun
<1>1. Init => Run!Init
  BY DEF Init, Run!Init, Held, Sent
<1> QED
  BY <1>1, Invariant, RunStep, PTL DEF Spec, ImplementsTaskRun, Run!Spec

(***************************************************************************)
(* Stopping                                                                *)
(***************************************************************************)
\* A worker that began a command after the cancellation has that command only
\* to end, and no label from which it could begin another.
LateOnce ==
  \A w \in Workers : late[w] # 0 =>
    /\ late[w] = 1 /\ cancelled /\ pc[w] \in {"spawned", "waiting", "next", "loop", "exited"}
    /\ pc[w] = "next" /\ task[w] \notin Listed => steps[w] >= 1

LEMMA LateStep ==
  ASSUME Inv, LateOnce, [Next]_vars
  PROVE  LateOnce'
<1> USE DEF Inv, Basics, Types, LateOnce
<1>1. ASSUME NEW w \in Workers, Worker(w), NEW v \in Workers, v # w
      PROVE  /\ late'[v] = late[v] /\ pc'[v] = pc[v] /\ task'[v] = task[v] /\ steps'[v] = steps[v]
             /\ cancelled' = cancelled
  <2> USE <1>1 DEF Goto, Report
  <2>1. CASE Loop(w) \/ Receive(w) \/ Recheck(w)
    BY <2>1 DEF Loop, Receive, Recheck
  <2>2. CASE Lookup(w) \/ NextStep(w) \/ Begin(w)
    BY <2>2 DEF Lookup, NextStep, Begin
  <2>3. CASE RegisterPid(w) \/ Finish(w) \/ \E s \in {"success", "failed"} : ChildEnds(w, s)
    BY <2>3 DEF RegisterPid, Finish, ChildEnds
  <2> QED
    BY <2>1, <2>2, <2>3 DEF Worker
<1>2. ASSUME NEW w \in Workers, Worker(w)
      PROVE  late'[w] # 0 =>
               /\ late'[w] = 1 /\ cancelled' /\ pc'[w] \in {"spawned", "waiting", "next", "loop", "exited"}
               /\ pc'[w] = "next" /\ task'[w] \notin Listed => steps'[w] >= 1
  <2> USE DEF Goto, Report
  <2>1. CASE Loop(w)
    BY <2>1 DEF Loop
  <2>2. CASE Receive(w)
    BY <2>2 DEF Receive
  <2>3. CASE Recheck(w)
    BY <2>3 DEF Recheck
  <2>4. CASE Lookup(w)
    BY <2>4 DEF Lookup
  <2>5. CASE NextStep(w)
    <3>1. task[w] \in Tasks
      BY <2>5 DEF NextStep, HoldsOne, Working
    <3>2. task[w] \notin Listed => Steps[task[w]] = 1
      BY <3>1, CommandAssumption
    <3>3. late'[w] = late[w] /\ cancelled' = cancelled
      BY <2>5 DEF NextStep
    <3>4. CASE task[w] \in Listed /\ cancelled
      BY <2>5, <3>3, <3>4 DEF NextStep
    <3>5. CASE ~(task[w] \in Listed /\ cancelled)
      <4>1. late[w] = 0
        BY <2>5, <3>2, <3>5 DEF NextStep
      <4> QED
        BY <3>3, <4>1
    <3> QED
      BY <3>4, <3>5
  <2>6. CASE Begin(w)
    <3>1. late[w] = 0 /\ (late'[w] = IF cancelled THEN 1 ELSE 0) /\ cancelled' = cancelled /\ task' = task
      BY <2>6 DEF Begin
    <3>2. pc'[w] = "spawned" \/ (pc'[w] = "next" /\ steps'[w] = steps[w] + 1)
      BY <2>6 DEF Begin
    <3> QED
      BY <3>1, <3>2
  <2>7. CASE RegisterPid(w)
    BY <2>7 DEF RegisterPid
  <2>8. CASE Finish(w)
    BY <2>8 DEF Finish
  <2>9. CASE \E s \in {"success", "failed"} : ChildEnds(w, s)
    BY <2>9 DEF ChildEnds
  <2> QED
    BY <1>2, <2>1, <2>2, <2>3, <2>4, <2>5, <2>6, <2>7, <2>8, <2>9 DEF Worker
<1>3. ASSUME NEW w \in Workers, Worker(w) PROVE LateOnce'
  BY <1>1, <1>2, <1>3
<1> USE DEF coordVars, workerVars
<1>4. CASE Coordinator
  <2>1. UNCHANGED <<workerVars, cancelled>> \/ SpawnWorkers
    BY <1>4 DEF Coordinator, Examine, TakeResult, TakeLastResult, Return
  <2> QED
    BY <2>1 DEF SpawnWorkers
<1>5. CASE Cancel \/ Terminate
  BY <1>5 DEF Cancel, Terminate
<1>6. CASE Kill
  BY <1>6 DEF Kill
<1>7. CASE UNCHANGED vars
  BY <1>7 DEF vars
<1> HIDE DEF Inv, Basics, Types, LateOnce, coordVars, workerVars
<1> QED
  BY <1>3, <1>4, <1>5, <1>6, <1>7 DEF Next

(* After the first SIGINT a worker begins at most the one command that it    *)
(* was about to spawn, however many steps its task has and whatever waits in *)
(* the channel.                                                              *)
THEOREM SchedulingStops == Spec => []StopsScheduling
<1>1. Init => LateOnce
  BY DEF Init, LateOnce
<1>2. Inv /\ LateOnce => StopsScheduling
  BY DEF LateOnce, StopsScheduling, Inv, Basics, Types
<1>3. Inv /\ LateOnce /\ [Next]_vars => LateOnce'
  BY LateStep
<1> QED
  BY <1>1, <1>2, <1>3, Invariant, PTL DEF Spec

(***************************************************************************)
(* Counting                                                                *)
(***************************************************************************)
Tallies == [{"executed", "cached", "skipped", "failed"} -> Nat]

Counts == /\ tally \in Tallies
          /\ remaining \in 0..Cardinality(Tasks)
          /\ NothingLost

Of(s) == {t \in Tasks : results[t] \in s}

LEMMA RecordedNat ==
  ASSUME NEW S
  PROVE  IsFiniteSet(Of(S)) /\ Recorded(S) = Cardinality(Of(S)) /\ Recorded(S) \in Nat
<1>1. Of(S) \subseteq Tasks
  BY DEF Of
<1> QED
  BY <1>1, FS_Subset, FS_CardinalityType, GraphAssumption DEF Of, Recorded

\* All nodes have a status or none.
LEMMA RecordedSplit ==
  ASSUME Types
  PROVE  Recorded(Statuses) + Recorded({NoResult}) = Cardinality(Tasks)
<1>1. Of(Statuses) \cup Of({NoResult}) = Tasks /\ Of(Statuses) \cap Of({NoResult}) = {}
  BY GraphAssumption DEF Types, Of
<1>2. Cardinality(Tasks) = Cardinality(Of(Statuses)) + Cardinality(Of({NoResult})) - 0
  <2>1. IsFiniteSet(Of(Statuses)) /\ IsFiniteSet(Of({NoResult})) /\ Cardinality({}) = 0
    BY RecordedNat, FS_EmptySet
  <2> QED
    BY <1>1, <2>1, FS_Union
<1>3. /\ Recorded(Statuses) = Cardinality(Of(Statuses)) /\ Recorded(Statuses) \in Nat
      /\ Recorded({NoResult}) = Cardinality(Of({NoResult})) /\ Recorded({NoResult}) \in Nat
  BY RecordedNat
<1> QED
  BY <1>2, <1>3

\* Recording a node moves it from NoResult to its status.
LEMMA RecordedMoves ==
  ASSUME Types, NEW t \in Tasks, results[t] = NoResult, NEW s \in Statuses,
         results' = [results EXCEPT ![t] = s]
  PROVE  /\ Recorded({NoResult})' = Recorded({NoResult}) - 1 /\ Recorded({NoResult}) >= 1
         /\ \A S \in SUBSET Statuses : Recorded(S)' = Recorded(S) + IF s \in S THEN 1 ELSE 0
<1>1. Of({NoResult})' = Of({NoResult}) \ {t} /\ t \in Of({NoResult})
  BY GraphAssumption DEF Types, Of
<1>2. Recorded({NoResult})' = Cardinality(Of({NoResult}) \ {t})
  BY <1>1 DEF Recorded, Of
<1>3. Cardinality(Of({NoResult}) \ {t}) = Cardinality(Of({NoResult})) - 1
  BY <1>1, RecordedNat, FS_RemoveElement
<1>4. Cardinality(Of({NoResult})) # 0
  BY <1>1, RecordedNat, FS_EmptySet
<1>5. Recorded({NoResult})' = Recorded({NoResult}) - 1 /\ Recorded({NoResult}) >= 1
  <2>1. Recorded({NoResult}) = Cardinality(Of({NoResult})) /\ Recorded({NoResult}) \in Nat
    BY RecordedNat
  <2> QED
    BY <1>2, <1>3, <1>4, <2>1
<1>6. ASSUME NEW S \in SUBSET Statuses
      PROVE  Recorded(S)' = Recorded(S) + IF s \in S THEN 1 ELSE 0
  <2>1. t \notin Of(S)
    BY GraphAssumption DEF Of
  <2>2. Of(S)' = IF s \in S THEN Of(S) \cup {t} ELSE Of(S)
    BY <2>1 DEF Types, Of
  <2>3. Recorded(S)' = Cardinality(IF s \in S THEN Of(S) \cup {t} ELSE Of(S))
    BY <2>2 DEF Recorded, Of
  <2>4. Cardinality(Of(S) \cup {t}) = Cardinality(Of(S)) + 1
    BY <2>1, RecordedNat, FS_AddElement
  <2> QED
    BY <2>3, <2>4, RecordedNat
<1> QED
  BY <1>5, <1>6

\* Each result adds to one tally of the three, and failures to a fourth.
LEMMA CountedAdds ==
  ASSUME tally \in Tallies, NEW s \in Statuses, NEW hit \in BOOLEAN, hit => s = "success",
         NEW c, c = Counted(s, hit)
  PROVE  /\ c \in Tallies
         /\ c.executed + c.cached + c.skipped = tally.executed + tally.cached + tally.skipped + 1
         /\ c.failed = tally.failed + IF s = "failed" THEN 1 ELSE 0
         /\ c.skipped = tally.skipped + IF s = "skipped" THEN 1 ELSE 0
<1> USE DEF Tallies, Counted
<1>1. CASE hit
  BY <1>1
<1>2. CASE ~hit /\ s = "success"
  BY <1>2
<1>3. CASE ~hit /\ s = "failed"
  <2>1. c = [tally EXCEPT !["executed"] = tally["executed"] + 1, !["failed"] = tally["failed"] + 1]
    BY <1>3
  <2>2. /\ tally["executed"] \in Nat /\ tally["cached"] \in Nat /\ tally["skipped"] \in Nat
        /\ tally["failed"] \in Nat
    OBVIOUS
  <2>3. DOMAIN tally = {"executed", "cached", "skipped", "failed"}
    OBVIOUS
  <2>4. c["executed"] = tally["executed"] + 1
    BY <2>1, <2>3
  <2>5. c["failed"] = tally["failed"] + 1
    BY <2>1, <2>3
  <2>6. c["cached"] = tally["cached"] /\ c["skipped"] = tally["skipped"]
    BY <2>1, <2>3
  <2>7. c \in Tallies
    <3> DEFINE d == [tally EXCEPT !["executed"] = tally["executed"] + 1]
    <3>1. d \in Tallies
      BY <2>2
    <3>2. c = [d EXCEPT !["failed"] = tally["failed"] + 1]
      BY <2>1
    <3>3. tally["failed"] + 1 \in Nat
      BY <2>2
    <3> HIDE DEF d
    <3> QED
      BY <3>1, <3>2, <3>3
  <2>8. /\ c \in Tallies /\ c["executed"] = tally["executed"] + 1 /\ c["failed"] = tally["failed"] + 1
        /\ c["cached"] = tally["cached"] /\ c["skipped"] = tally["skipped"]
    BY <2>4, <2>5, <2>6, <2>7
  <2> HIDE DEF Tallies, Counted
  <2> QED
    BY <1>3, <2>8, <2>2
<1>4. CASE ~hit /\ s = "skipped"
  BY <1>4
<1> QED
  BY <1>1, <1>2, <1>3, <1>4 DEF Statuses

LEMMA RecordCounts ==
  ASSUME Inv, Counts, ~returned, returned' = FALSE,
         NEW t \in Tasks, results[t] = NoResult, NEW s \in Statuses,
         NEW hit \in BOOLEAN, hit => s = "success",
         results' = [results EXCEPT ![t] = s], remaining' = remaining - 1, tally' = Counted(s, hit)
  PROVE  Counts'
<1>1. /\ Recorded({NoResult})' = Recorded({NoResult}) - 1 /\ Recorded({NoResult}) >= 1
      /\ \A S \in SUBSET Statuses : Recorded(S)' = Recorded(S) + IF s \in S THEN 1 ELSE 0
  BY RecordedMoves DEF Inv, Basics
<1>2. /\ tally' \in Tallies
      /\ tally'.executed + tally'.cached + tally'.skipped = tally.executed + tally.cached + tally.skipped + 1
      /\ tally'.failed = tally.failed + IF s = "failed" THEN 1 ELSE 0
      /\ tally'.skipped = tally.skipped + IF s = "skipped" THEN 1 ELSE 0
  BY CountedAdds DEF Counts
<1>3. remaining' = Recorded({NoResult})' /\ remaining' \in 0..Cardinality(Tasks)
  <2>1. remaining = Recorded({NoResult}) /\ remaining \in 0..Cardinality(Tasks)
    BY DEF Counts, NothingLost, CountsAgree
  <2>2. Cardinality(Tasks) \in Nat
    BY FS_CardinalityType, GraphAssumption
  <2> QED
    BY <1>1, <2>1, <2>2
<1>4. /\ Recorded(Statuses)' = Recorded(Statuses) + 1
      /\ Recorded({"failed"})' = Recorded({"failed"}) + IF s = "failed" THEN 1 ELSE 0
      /\ Recorded({"skipped"})' = Recorded({"skipped"}) + IF s = "skipped" THEN 1 ELSE 0
  <2>1. Statuses \in SUBSET Statuses /\ {"failed"} \in SUBSET Statuses /\ {"skipped"} \in SUBSET Statuses
    BY DEF Statuses
  <2> QED
    BY <1>1, <2>1
<1>5. CountsAgree'
  BY <1>2, <1>3, <1>4 DEF Counts, NothingLost, CountsAgree
<1> QED
  BY <1>2, <1>3, <1>5 DEF Counts, NothingLost

\* The last result after a cancellation brings everything else to "skipped".
LEMMA LastCounts ==
  ASSUME Inv, Counts, NEW o \in outcomes, TakeLastResult(o)
  PROVE  Counts'
<1> DEFINE open == {t \in Tasks \ {o[1]} : results[t] = NoResult}
           c == Counted(o[2], o[3])
<1>1. /\ ~returned /\ returned' = TRUE /\ cancelled /\ cancelled' = cancelled
      /\ results' = [t \in Tasks |-> IF t = o[1] THEN o[2]
                                     ELSE IF t \in open THEN "skipped" ELSE results[t]]
      /\ tally' = [c EXCEPT !.skipped = @ + Cardinality(open)]
      /\ remaining' = remaining - 1
  BY DEF TakeLastResult, Receiving
<1>2. /\ o[1] \in Tasks /\ o[2] \in Statuses /\ o[3] \in BOOLEAN /\ (o[3] => o[2] = "success")
      /\ results[o[1]] = NoResult
  BY <1>1 DEF Inv, Basics, Types, Verdicts, Graph, Released, Out, Sent
<1>3. Of({NoResult}) = open \cup {o[1]} /\ o[1] \notin open
  BY <1>2 DEF Of
<1>4. IsFiniteSet(open) /\ Cardinality(open) \in Nat
  <2>1. open \subseteq Tasks
    OBVIOUS
  <2> QED
    BY <2>1, FS_Subset, FS_CardinalityType, GraphAssumption
<1>5. Recorded({NoResult}) = Cardinality(open) + 1
  <2>1. Cardinality(open \cup {o[1]}) = Cardinality(open) + 1
    <3> HIDE DEF open
    <3> QED
      BY <1>3, <1>4, FS_AddElement
  <2>2. Recorded({NoResult}) = Cardinality(Of({NoResult}))
    BY DEF Recorded, Of
  <2> QED
    BY <1>3, <2>1, <2>2
<1> HIDE DEF open
<1>6. remaining' \in 0..Cardinality(Tasks)
  <2>1. remaining = Recorded({NoResult}) /\ remaining \in 0..Cardinality(Tasks)
    BY <1>1 DEF Counts, NothingLost, CountsAgree
  <2>2. Cardinality(Tasks) \in Nat
    BY FS_CardinalityType, GraphAssumption
  <2> QED
    BY <1>1, <1>4, <1>5, <2>1, <2>2
<1>7. /\ c \in Tallies
      /\ c.executed + c.cached + c.skipped = tally.executed + tally.cached + tally.skipped + 1
      /\ c.failed = tally.failed + IF o[2] = "failed" THEN 1 ELSE 0
      /\ c.skipped = tally.skipped + IF o[2] = "skipped" THEN 1 ELSE 0
  BY <1>2, CountedAdds DEF Counts
<1> HIDE DEF c
<1>8. /\ tally' \in Tallies /\ tally'.executed = c.executed /\ tally'.cached = c.cached
      /\ tally'.failed = c.failed /\ tally'.skipped = c.skipped + Cardinality(open)
  BY <1>1, <1>4, <1>7 DEF Tallies
<1>9. Recorded(Statuses)' = Recorded(Statuses) + 1 + Cardinality(open)
  <2>1. Recorded(Statuses)' = Cardinality(Tasks)
    <3>1. Of(Statuses)' = Tasks
      BY <1>1, <1>2, <1>3 DEF Of, Inv, Basics, Types, Statuses
    <3> QED
      BY <3>1 DEF Of, Recorded
  <2>2. Recorded(Statuses) + Recorded({NoResult}) = Cardinality(Tasks) /\ Recorded(Statuses) \in Nat
    BY RecordedSplit, RecordedNat DEF Inv, Basics
  <2> QED
    BY <1>4, <1>5, <2>1, <2>2
<1>10. Recorded({"failed"})' = Recorded({"failed"}) + IF o[2] = "failed" THEN 1 ELSE 0
  <2>1. o[1] \notin Of({"failed"})
    BY <1>2, GraphAssumption DEF Of, Statuses
  <2>2. Of({"failed"})' = IF o[2] = "failed" THEN Of({"failed"}) \cup {o[1]} ELSE Of({"failed"})
    BY <1>1, <1>2, <2>1, GraphAssumption DEF Of, open, Statuses
  <2>3. Recorded({"failed"})' = Cardinality(IF o[2] = "failed" THEN Of({"failed"}) \cup {o[1]} ELSE Of({"failed"}))
    BY <2>2 DEF Of, Recorded
  <2>4. IsFiniteSet(Of({"failed"})) /\ Recorded({"failed"}) = Cardinality(Of({"failed"})) /\ Recorded({"failed"}) \in Nat
    BY RecordedNat
  <2>5. Cardinality(Of({"failed"}) \cup {o[1]}) = Cardinality(Of({"failed"})) + 1
    BY <2>1, <2>4, FS_AddElement
  <2> QED
    BY <2>3, <2>4, <2>5
<1>11. Recorded({"skipped"})' = Recorded({"skipped"}) + Cardinality(open) + IF o[2] = "skipped" THEN 1 ELSE 0
  <2> DEFINE filled == Of({"skipped"}) \cup open
  <2>1. o[1] \notin filled /\ Of({"skipped"}) \cap open = {}
    BY <1>2, <1>3, GraphAssumption DEF Of, open, Statuses
  <2>2. Of({"skipped"})' = IF o[2] = "skipped" THEN filled \cup {o[1]} ELSE filled
    BY <1>1, <1>2, <2>1, GraphAssumption DEF Of, open, Statuses
  <2>3. Recorded({"skipped"})' = Cardinality(IF o[2] = "skipped" THEN filled \cup {o[1]} ELSE filled)
    BY <2>2 DEF Of, Recorded
  <2>4. IsFiniteSet(Of({"skipped"})) /\ Recorded({"skipped"}) = Cardinality(Of({"skipped"})) /\ Recorded({"skipped"}) \in Nat
    BY RecordedNat
  <2>5. IsFiniteSet(filled) /\ Cardinality(filled) = Cardinality(Of({"skipped"})) + Cardinality(open) - 0
    <3>1. Cardinality(Of({"skipped"}) \cap open) = 0
      BY <2>1, FS_EmptySet
    <3> QED
      BY <1>4, <2>4, <3>1, FS_Union
  <2> HIDE DEF filled
  <2>6. Cardinality(filled \cup {o[1]}) = Cardinality(filled) + 1
    BY <2>1, <2>5, FS_AddElement
  <2> QED
    BY <1>4, <2>3, <2>4, <2>5, <2>6
<1>12. CountsAgree'
  <2>1. /\ tally.executed \in Nat /\ tally.cached \in Nat /\ tally.skipped \in Nat /\ tally.failed \in Nat
        /\ tally.executed + tally.cached + tally.skipped = Recorded(Statuses)
        /\ tally.failed = Recorded({"failed"}) /\ tally.skipped = Recorded({"skipped"})
    BY DEF Counts, NothingLost, CountsAgree, Tallies
  <2>2. c.executed \in Nat /\ c.cached \in Nat /\ c.skipped \in Nat /\ c.failed \in Nat
    BY <1>7 DEF Tallies
  <2>3. tally'.executed + tally'.cached + tally'.skipped = Recorded(Statuses)'
    BY <1>4, <1>7, <1>8, <1>9, <2>1, <2>2
  <2>4. tally'.failed = Recorded({"failed"})'
    BY <1>7, <1>8, <1>10, <2>1
  <2>5. tally'.skipped = Recorded({"skipped"})'
    BY <1>4, <1>7, <1>8, <1>11, <2>1
  <2> QED
    BY <1>1, <2>3, <2>4, <2>5 DEF CountsAgree
<1> QED
  BY <1>1, <1>6, <1>8, <1>12 DEF Counts, NothingLost

LEMMA CountStep == Inv /\ Counts /\ [Next]_vars => Counts'
<1> SUFFICES ASSUME Inv, Counts, [Next]_vars PROVE Counts'
  OBVIOUS
<1> USE DEF coordVars, workerVars, vars
\* What Counts reads.
<1>1. ASSUME UNCHANGED <<results, tally, remaining, returned>>, cancelled => cancelled'
      PROVE  Counts'
  <2>1. Recorded({NoResult})' = Recorded({NoResult}) /\ Recorded(Statuses)' = Recorded(Statuses)
    BY <1>1 DEF Recorded
  <2>2. /\ Recorded({"failed"})' = Recorded({"failed"})
        /\ Recorded({"skipped"})' = Recorded({"skipped"})
    BY <1>1 DEF Recorded
  <2>3. CountsAgree'
    BY <1>1, <2>1, <2>2 DEF Counts, NothingLost, CountsAgree
  <2>4. NothingLost'
    <3> HIDE DEF CountsAgree
    <3> QED
      BY <1>1, <2>3 DEF Counts, NothingLost, Inv, Basics, Types
  <2> QED
    BY <1>1, <2>4 DEF Counts
<1>2. ASSUME NEW t \in Tasks, Examine(t) PROVE Counts'
  <2>1. ~returned /\ returned' = returned /\ cancelled' = cancelled
    BY <1>2 DEF Examine, Inv, Basics, Closed, Types
  <2>2. CASE UNCHANGED <<results, tally, remaining>>
    BY <1>1, <2>1, <2>2
  <2>3. CASE /\ results' = [results EXCEPT ![t] = "skipped"]
             /\ tally' = [tally EXCEPT !.skipped = @ + 1]
             /\ remaining' = remaining - 1
    <3>1. results[t] = NoResult
      BY <1>2, <2>1 DEF Examine, Inv, Graph, Released, Out
    <3>2. tally' = Counted("skipped", FALSE)
      BY <2>3 DEF Counted
    <3>3. "skipped" \in Statuses /\ returned' = FALSE
      BY <2>1 DEF Statuses
    <3> QED
      BY <2>1, <2>3, <3>1, <3>2, <3>3, RecordCounts
  <2> QED
    BY <1>2, <2>2, <2>3 DEF Examine
<1>3. ASSUME NEW o \in outcomes, TakeResult(o) PROVE Counts'
  <2>1. /\ ~returned /\ returned' = FALSE
        /\ results' = [results EXCEPT ![o[1]] = o[2]]
        /\ tally' = Counted(o[2], o[3]) /\ remaining' = remaining - 1
    BY <1>3 DEF TakeResult, Receiving, Inv, Basics, Types
  <2>2. /\ o[1] \in Tasks /\ o[2] \in Statuses /\ o[3] \in BOOLEAN /\ (o[3] => o[2] = "success")
        /\ results[o[1]] = NoResult
    BY <2>1 DEF Inv, Basics, Types, Verdicts, Graph, Released, Out, Sent
  <2> QED
    BY <2>1, <2>2, RecordCounts
<1>4. ASSUME NEW o \in outcomes, TakeLastResult(o) PROVE Counts'
  BY <1>4, LastCounts
<1>5. ASSUME Return PROVE Counts'
  <2>1. /\ ~returned /\ returned' = TRUE /\ UNCHANGED <<results, tally, remaining, cancelled>>
    BY <1>5 DEF Return
  <2>2. ASSUME ~cancelled PROVE \A t \in Tasks : results[t] # NoResult
    <3>1. ~(\A w \in Workers : pc[w] = "exited")
      BY <2>1, <2>2, GraphAssumption DEF Inv, Basics, Leaving
    <3>2. remaining = 0
      BY <1>5, <3>1 DEF Return
    <3>3. Cardinality(Of({NoResult})) = 0 /\ IsFiniteSet(Of({NoResult}))
      BY <2>1, <3>2, RecordedNat DEF Counts, NothingLost, CountsAgree
    <3>4. Of({NoResult}) = {}
      BY <3>3, FS_EmptySet
    <3> QED
      BY <3>4 DEF Of
  <2>3. /\ Recorded(Statuses)' = Recorded(Statuses)
        /\ Recorded({"failed"})' = Recorded({"failed"})
        /\ Recorded({"skipped"})' = Recorded({"skipped"})
    BY <2>1 DEF Recorded
  <2>4. CountsAgree'
    BY <2>1, <2>3 DEF Counts, NothingLost, CountsAgree
  <2> QED
    BY <2>1, <2>2, <2>4 DEF Counts, NothingLost
<1>6. ASSUME SpawnWorkers PROVE Counts'
  BY <1>1, <1>6 DEF SpawnWorkers
<1>7. ASSUME NEW w \in Workers, Worker(w) PROVE Counts'
  <2>1. UNCHANGED <<results, tally, remaining, returned, cancelled>>
    BY <1>7 DEF Worker, Loop, Receive, Recheck, Lookup, NextStep, Begin, RegisterPid, Finish, ChildEnds
  <2> QED
    BY <1>1, <2>1
<1>8. ASSUME Cancel \/ Terminate \/ Kill PROVE Counts'
  <2>1. UNCHANGED <<results, tally, remaining, returned>> /\ (cancelled => cancelled')
    BY <1>8 DEF Cancel, Terminate, Kill
  <2> QED
    BY <1>1, <2>1
<1>9. CASE UNCHANGED vars
  BY <1>1, <1>9
<1> HIDE DEF coordVars, workerVars, vars
<1> QED
  BY <1>2, <1>3, <1>4, <1>5, <1>6, <1>7, <1>8, <1>9 DEF Next, Coordinator

LEMMA NothingCounted == Init => Counts
<1> SUFFICES ASSUME Init PROVE Counts
  OBVIOUS
<1>1. Of({NoResult}) = Tasks /\ Of(Statuses) = {} /\ Of({"failed"}) = {} /\ Of({"skipped"}) = {}
  BY GraphAssumption DEF Init, Of, Statuses
<1>2. /\ Recorded({NoResult}) = Cardinality(Tasks)
      /\ Recorded(Statuses) = Cardinality({}) /\ Recorded({"failed"}) = Cardinality({})
      /\ Recorded({"skipped"}) = Cardinality({})
  BY <1>1, RecordedNat
<1>3. Cardinality({}) = 0 /\ Cardinality(Tasks) \in Nat
  BY FS_EmptySet, FS_CardinalityType, GraphAssumption
<1>4. /\ tally \in Tallies /\ tally.executed = 0 /\ tally.cached = 0 /\ tally.skipped = 0
      /\ tally.failed = 0 /\ remaining = Cardinality(Tasks) /\ returned = FALSE
  BY DEF Init, Tallies
<1>5. CountsAgree
  BY <1>2, <1>3, <1>4 DEF CountsAgree
<1> QED
  BY <1>3, <1>4, <1>5 DEF Counts, NothingLost

(* Without an interrupt execute() returns with a result for every node,    *)
(* and the summary line's counts agree with the results.                   *)
THEOREM NoResultLost == Spec => []NothingLost
<1>1. Counts => NothingLost
  BY DEF Counts
<1> QED
  BY <1>1, Invariant, NothingCounted, CountStep, PTL DEF Spec

(* Every variable keeps its type; `remaining` never goes below zero.       *)
THEOREM TypeCorrect == Spec => []TypeOK
<1>1. Inv /\ Counts => TypeOK
  BY DEF Inv, Counts, Basics, Types, TypeOK, Tallies, Labels, Statuses
<1> QED
  BY <1>1, Invariant, NothingCounted, CountStep, PTL DEF Spec

(***************************************************************************)
(* execute() comes to its end                                              *)
(***************************************************************************)
\* A worker stays within the commands of its task, and the workers are spawned
\* together, before execute() can return.
StepsInRange == \A w \in Workers :
                  /\ pc[w] = "lookup" => steps[w] = 0
                  /\ pc[w] = "next" => steps[w] <= Steps[task[w]]
                  /\ pc[w] \in {"begin", "spawned", "waiting"} => steps[w] < Steps[task[w]]
SpawnedTogether == \A v, w \in Workers : pc[v] = "unborn" => pc[w] = "unborn" /\ ~returned
Orderly == StepsInRange /\ SpawnedTogether

\* What graph.rs validates: every set of nodes has one that waits for none of
\* the others.
Acyclic == \A S \in SUBSET Tasks : S # {} => \E t \in S : \A e \in Dependencies(t) : e[1] \notin S

\* The guards of Coordinator and of Worker(w).
CoordinatorMoves ==
  \/ queue # {}
  \/ \A w \in Workers : pc[w] = "unborn"
  \/ Receiving /\ outcomes # {}
  \/ /\ ~returned /\ \A w \in Workers : pc[w] # "unborn"
     /\ remaining = 0 \/ (outcomes = {} /\ \A w \in Workers : pc[w] = "exited")
WorkerMovesOn(w) ==
  \/ pc[w] \in {"loop", "received", "lookup", "begin", "spawned"}
  \/ pc[w] = "recv" /\ (ready # {} \/ returned)
  \/ pc[w] = "next" /\ (steps[w] <= Steps[task[w]] \/ status[w] = "failed")
  \/ pc[w] = "waiting" /\ task[w] \notin Stubborn

Ended == returned /\ \A w \in Workers : pc[w] = "exited"
AwaitsStubborn(w) == pc[w] = "waiting" /\ task[w] \in Stubborn
NeverStuck == \/ Ended \/ CoordinatorMoves
              \/ \E w \in Workers : WorkerMovesOn(w) \/ AwaitsStubborn(w)

\* One tick for each step that can still move a node on, and one for the wait
\* for work of the worker that will report it.
HolderOf(t) == CHOOSE w \in Workers : task[w] = t
InHand(w) == LET n == Steps[task[w]]
             IN  CASE pc[w] = "received" -> 4 * n + 5
                   [] pc[w] = "lookup"   -> 4 * n + 4
                   [] pc[w] = "next"     -> 4 * (n - steps[w]) + 3
                   [] pc[w] = "begin"    -> 4 * (n - steps[w]) + 2
                   [] pc[w] = "spawned"  -> 4 * (n - steps[w]) + 1
                   [] pc[w] = "waiting"  -> 4 * (n - steps[w])
TicksOf == [t \in Tasks |->
             CASE t \in queue -> 4 * Steps[t] + 7
               [] t \in ready -> 4 * Steps[t] + 6
               [] t \in Held  -> InHand(HolderOf(t))
               [] t \in Sent  -> 1
               [] OTHER       -> IF results[t] = NoResult THEN 4 * Steps[t] + 8 ELSE 0]
Towers(f) == UNION {{t} \X (1..f[t]) : t \in Tasks}

\* The steps that execute(), its workers and the signal task can still take.
Unborn == {w \in Workers : pc[w] = "unborn"}
BeforeLoop == {w \in Workers : pc[w] \in {"unborn", "loop"}}
Alive == {w \in Workers : pc[w] # "exited"}
SignalLeft == CASE signal = "listening"   -> 3
                [] signal = "terminating" -> 2
                [] signal = "grace"       -> 1
                [] OTHER                  -> 0
Left == Cardinality(Towers(TicksOf)) + Cardinality(Unborn) + Cardinality(BeforeLoop)
        + Cardinality(Alive) + SignalLeft + IF returned THEN 0 ELSE 1

LEMMA OrderlyStep == Inv /\ Orderly /\ [Next]_vars => Orderly'
<1> SUFFICES ASSUME Inv, Orderly, [Next]_vars PROVE Orderly'
  OBVIOUS
<1>t. /\ pc \in [Workers -> Labels] /\ steps \in [Workers -> Nat] /\ returned \in BOOLEAN
      /\ \A w \in Workers : pc[w] \in Working => task[w] \in Tasks /\ Steps[task[w]] \in Nat
  BY CommandAssumption DEF Inv, Basics, Types, HoldsOne
<1>1. ASSUME UNCHANGED <<pc, task, steps>>, returned' = returned PROVE Orderly'
  BY <1>1 DEF Orderly, StepsInRange, SpawnedTogether
\* Only the worker that moves changes, and it is neither before nor after "unborn".
<1>2. ASSUME NEW w \in Workers, NEW l \in Labels \ {"unborn"}, pc[w] # "unborn",
             pc' = [pc EXCEPT ![w] = l], returned' = returned,
             \A v \in Workers \ {w} : task'[v] = task[v] /\ steps'[v] = steps[v],
             /\ l = "lookup" => steps'[w] = 0
             /\ l = "next" => steps'[w] <= Steps[task'[w]]
             /\ l \in {"begin", "spawned", "waiting"} => steps'[w] < Steps[task'[w]]
      PROVE  Orderly'
  <2>1. \A v \in Workers : pc'[v] = IF v = w THEN l ELSE pc[v]
    BY <1>2, <1>t
  <2>2. StepsInRange'
    BY <1>2, <2>1 DEF Orderly, StepsInRange
  <2>3. SpawnedTogether'
    BY <1>2, <2>1 DEF Orderly, SpawnedTogether
  <2> QED
    BY <2>2, <2>3 DEF Orderly
<1>3. CASE Coordinator
  <2>1. ASSUME NEW t \in Tasks, Examine(t) PROVE Orderly'
    BY <1>1, <2>1 DEF Examine, workerVars
  <2>2. CASE SpawnWorkers
    BY <2>2, <1>t DEF SpawnWorkers, Orderly, StepsInRange, SpawnedTogether, coordVars
  <2>3. ASSUME NEW o \in outcomes, TakeResult(o) PROVE Orderly'
    BY <1>1, <2>3 DEF TakeResult, workerVars
  <2>4. CASE Return \/ \E o \in outcomes : TakeLastResult(o)
    <3>1. UNCHANGED <<pc, task, steps>> /\ \A w \in Workers : pc[w] # "unborn"
      BY <2>4 DEF Return, TakeLastResult, Receiving, workerVars
    <3> QED
      BY <3>1 DEF Orderly, StepsInRange, SpawnedTogether
  <2> QED
    BY <1>3, <2>1, <2>2, <2>3, <2>4 DEF Coordinator
<1>4. ASSUME NEW w \in Workers, Worker(w) PROVE Orderly'
  <2>r. returned' = returned /\ pc[w] # "unborn"
    BY <1>4, WorkerMoves DEF Inv, Worker, Loop, Receive, Recheck, Lookup, NextStep, Begin,
      RegisterPid, Finish, ChildEnds
  <2>k. /\ pc[w] \in Working => task[w] \in Tasks /\ Steps[task[w]] \in Nat
        /\ steps[w] \in Nat
        /\ pc[w] = "lookup" => steps[w] = 0
        /\ pc[w] \in {"begin", "spawned", "waiting"} => steps[w] < Steps[task[w]]
    BY <1>t DEF Orderly, StepsInRange
  <2>1. \A v \in Workers \ {w} : task'[v] = task[v] /\ steps'[v] = steps[v]
    BY <1>4 DEF Inv, Basics, Types, Worker, Loop, Receive, Recheck, Lookup, NextStep, Begin,
      RegisterPid, Finish, ChildEnds, Report
  <2>2. \E l \in Labels \ {"unborn"} :
          /\ pc' = [pc EXCEPT ![w] = l]
          /\ l = "lookup" => steps'[w] = 0
          /\ l = "next" => steps'[w] <= Steps[task'[w]]
          /\ l \in {"begin", "spawned", "waiting"} => steps'[w] < Steps[task'[w]]
    <3>a. ASSUME NEW l \in {"loop", "exited", "recv"}, pc' = [pc EXCEPT ![w] = l]
          PROVE  \E m \in Labels \ {"unborn"} : pc' = [pc EXCEPT ![w] = m] /\ m = l
      BY <3>a DEF Labels
    <3>b. ASSUME pc' = [pc EXCEPT ![w] = "next"], steps'[w] <= Steps[task'[w]]
          PROVE  \E m \in Labels \ {"unborn"} : pc' = [pc EXCEPT ![w] = m] /\ m = "next"
      BY <3>b DEF Labels
    <3> USE <2>k, <1>t DEF Labels, Working, Goto, Report
    <3>1. CASE Loop(w)
      <4>1. pc' = [pc EXCEPT ![w] = "exited"] \/ pc' = [pc EXCEPT ![w] = "recv"]
        BY <3>1 DEF Loop
      <4> QED
        BY <4>1, <3>a
    <3>2. CASE Receive(w)
      BY <3>2 DEF Receive
    <3>3. CASE Recheck(w)
      BY <3>3 DEF Recheck
    <3>4. CASE Lookup(w)
      <4>1. CASE pc' = [pc EXCEPT ![w] = "loop"]
        BY <4>1, <3>a
      <4>2. CASE pc' = [pc EXCEPT ![w] = "next"] /\ task' = task
        <5>1. steps' = steps /\ steps[w] = 0 /\ Steps[task[w]] \in Nat
          BY <3>4 DEF Lookup
        <5>2. steps'[w] <= Steps[task'[w]]
          BY <4>2, <5>1
        <5> QED
          BY <4>2, <5>2, <3>b
      <4> QED
        BY <3>4, <4>1, <4>2 DEF Lookup
    <3>5. CASE NextStep(w)
      BY <3>5 DEF NextStep
    <3>6. CASE Begin(w)
      BY <3>6 DEF Begin
    <3>7. CASE RegisterPid(w)
      BY <3>7 DEF RegisterPid
    <3>8. CASE Finish(w)
      <4>1. pc' = [pc EXCEPT ![w] = "loop"]
        BY <3>8 DEF Finish
      <4> QED
        BY <4>1, <3>a
    <3>9. CASE \E s \in {"success", "failed"} : ChildEnds(w, s)
      <4>1. /\ pc' = [pc EXCEPT ![w] = "next"] /\ task' = task /\ pc[w] = "waiting"
            /\ steps'[w] = steps[w] + 1
        BY <3>9 DEF ChildEnds
      <4>2. steps'[w] <= Steps[task[w]]
        BY <4>1
      <4> QED
        BY <4>1, <4>2, <3>b
    <3> QED
      BY <1>4, <3>1, <3>2, <3>3, <3>4, <3>5, <3>6, <3>7, <3>8, <3>9 DEF Worker
  <2> QED
    BY <1>2, <2>r, <2>1, <2>2
<1>5. CASE Cancel \/ Terminate
  BY <1>1, <1>5 DEF Cancel, Terminate, workerVars, coordVars
<1>6. CASE Kill
  <2>1. /\ \A w \in Workers : pc[w] # "waiting" => pc'[w] = pc[w] /\ steps'[w] = steps[w]
        /\ \A w \in Workers : pc[w] = "waiting" => pc'[w] = "next" /\ steps'[w] = steps[w] + 1
        /\ task' = task /\ returned' = returned
    BY <1>6, <1>t DEF Kill, coordVars
  <2>2. StepsInRange'
    <3> SUFFICES ASSUME NEW w \in Workers
                 PROVE  /\ pc'[w] = "lookup" => steps'[w] = 0
                        /\ pc'[w] = "next" => steps'[w] <= Steps[task'[w]]
                        /\ pc'[w] \in {"begin", "spawned", "waiting"} => steps'[w] < Steps[task'[w]]
      BY DEF StepsInRange
    <3>1. CASE pc[w] = "waiting"
      <4>1. steps[w] < Steps[task[w]] /\ steps[w] \in Nat /\ Steps[task[w]] \in Nat
        BY <1>t, <3>1 DEF Orderly, StepsInRange, Working
      <4> QED
        BY <2>1, <3>1, <4>1
    <3>2. CASE pc[w] # "waiting"
      BY <2>1, <3>2 DEF Orderly, StepsInRange
    <3> QED
      BY <3>1, <3>2
  <2>3. SpawnedTogether'
    BY <2>1 DEF Orderly, SpawnedTogether
  <2> QED
    BY <2>2, <2>3 DEF Orderly
<1>7. CASE UNCHANGED vars
  BY <1>1, <1>7 DEF vars, workerVars, coordVars
<1> QED
  BY <1>3, <1>4, <1>5, <1>6, <1>7 DEF Next

LEMMA OrderlyAlways == Spec => [](Inv /\ Counts /\ Orderly)
<1>1. Init => Orderly
  BY DEF Init, Orderly, StepsInRange, SpawnedTogether
<1> QED
  BY <1>1, OrderlyStep, Invariant, NothingCounted, CountStep, PTL DEF Spec

\* With nothing out, a validated graph has a result for every node.
LEMMA NothingOut ==
  ASSUME Inv, Acyclic, ~returned, Out = {}
  PROVE  \A t \in Tasks : results[t] # NoResult
<1> DEFINE open == {t \in Tasks : results[t] = NoResult}
<1> SUFFICES ASSUME open # {} PROVE FALSE
  OBVIOUS
<1>1. PICK t \in open : \A e \in Dependencies(t) : e[1] \notin open
  BY DEF Acyclic
<1>2. Unfinished(t) = {}
  BY <1>1, GraphAssumption DEF Unfinished, Dependencies
<1>3. degree[t] = 0
  BY <1>2, FS_EmptySet DEF Inv, Graph, Degrees
<1> QED
  BY <1>3 DEF Inv, Graph, Released

LEMMA Moves == Acyclic /\ Inv /\ Counts /\ Orderly => NeverStuck
<1> SUFFICES ASSUME Acyclic, Inv, Counts, Orderly, ~Ended, ~CoordinatorMoves,
                    \A w \in Workers : ~WorkerMovesOn(w) /\ ~AwaitsStubborn(w)
             PROVE  FALSE
  BY DEF NeverStuck
<1>1. \A w \in Workers : pc[w] # "unborn"
  BY DEF CoordinatorMoves, Orderly, SpawnedTogether
<1>2. \A w \in Workers : \/ pc[w] = "recv" /\ ready = {} /\ ~returned
                         \/ pc[w] = "exited"
  BY <1>1 DEF WorkerMovesOn, AwaitsStubborn, Inv, Basics, Types, Labels, Orderly, StepsInRange
<1>3. ~returned
  BY <1>2 DEF Ended
<1>4. queue = {} /\ remaining # 0
  BY <1>1, <1>3 DEF CoordinatorMoves
<1>5. outcomes = {}
  <2>1. remaining \in Nat
    BY DEF Counts
  <2>2. Receiving
    BY <1>1, <1>3, <1>4, <2>1 DEF Receiving
  <2> QED
    BY <2>2 DEF CoordinatorMoves
<1>6. ready = {}
  BY <1>1, <1>2, <1>3, <1>5 DEF CoordinatorMoves
<1>7. Out = {}
  <2>1. Held = {}
    BY <1>2 DEF Held, Inv, Basics, HoldsOne, Working
  <2> QED
    BY <1>4, <1>5, <1>6, <2>1 DEF Out, Sent
<1>8. Of({NoResult}) = {}
  BY <1>3, <1>7, NothingOut DEF Of
<1>9. remaining = Cardinality(Of({NoResult}))
  BY <1>3 DEF Counts, NothingLost, CountsAgree, Recorded, Of
<1> QED
  BY <1>4, <1>8, <1>9, FS_EmptySet

(* On a graph that was validated execute() is never stuck: until it has    *)
(* returned and all workers have exited, the coordinator or some worker    *)
(* can take a step, or a worker waits for a child that only SIGKILL ends.  *)
THEOREM NobodyWaitsForEver ==
  ASSUME Acyclic
  PROVE  Spec => []NeverStuck
BY Moves, OrderlyAlways, PTL

\* Making one tower lower by d removes at least d blocks.
LEMMA TowersFinite ==
  ASSUME NEW f \in [Tasks -> Nat]
  PROVE  IsFiniteSet(Towers(f)) /\ Cardinality(Towers(f)) \in Nat
<1> DEFINE tower == [t \in Tasks |-> {t} \X (1..f[t])]
           all == {{t} \X (1..f[t]) : t \in Tasks}
<1>1. tower \in Surjection(Tasks, all)
  BY DEF Surjection
<1>2. IsFiniteSet(all)
  BY <1>1, FS_Surjection, GraphAssumption
<1>3. \A t \in Tasks : IsFiniteSet({t} \X (1..f[t]))
  <2> TAKE t \in Tasks
  <2>1. f[t] \in Int /\ 1 \in Int
    OBVIOUS
  <2>2. IsFiniteSet({t}) /\ IsFiniteSet(1..f[t])
    BY <2>1, FS_Singleton, FS_Interval
  <2> QED
    BY <2>2, FS_Product
<1>4. IsFiniteSet(UNION all)
  <2>1. \A T \in all : IsFiniteSet(T)
    BY <1>3
  <2> HIDE DEF all
  <2> QED
    BY <1>2, <2>1, FS_UNION
<1> QED
  BY <1>4, FS_CardinalityType DEF Towers

LEMMA TowersShrink ==
  ASSUME NEW f \in [Tasks -> Nat], NEW g \in [Tasks -> Nat], \A t \in Tasks : g[t] <= f[t]
  PROVE  /\ Cardinality(Towers(g)) <= Cardinality(Towers(f))
         /\ \A t \in Tasks : g[t] + 1 <= f[t] =>
              Cardinality(Towers(g)) + 1 <= Cardinality(Towers(f))
         /\ \A t \in Tasks : g[t] + 2 <= f[t] =>
              Cardinality(Towers(g)) + 2 <= Cardinality(Towers(f))
<1>1. /\ \A x : x \in Towers(f) <=> \E t \in Tasks : \E i \in 1..f[t] : x = <<t, i>>
      /\ \A x : x \in Towers(g) <=> \E t \in Tasks : \E i \in 1..g[t] : x = <<t, i>>
  BY DEF Towers
<1>2. Towers(g) \subseteq Towers(f)
  BY <1>1
<1>3. /\ IsFiniteSet(Towers(f)) /\ Cardinality(Towers(f)) \in Nat
      /\ IsFiniteSet(Towers(g)) /\ Cardinality(Towers(g)) \in Nat
  BY TowersFinite
<1>4. ASSUME NEW t \in Tasks, g[t] + 1 <= f[t]
      PROVE  Cardinality(Towers(g)) + 1 <= Cardinality(Towers(f))
  <2> DEFINE x == <<t, f[t]>>
  <2>1. x \in Towers(f) /\ x \notin Towers(g)
    BY <1>1, <1>4
  <2>2. IsFiniteSet(Towers(f) \ {x}) /\ Cardinality(Towers(f) \ {x}) = Cardinality(Towers(f)) - 1
    BY <1>3, <2>1, FS_RemoveElement
  <2>3. Cardinality(Towers(g)) <= Cardinality(Towers(f) \ {x})
    BY <1>2, <2>1, <2>2, FS_Subset
  <2> QED
    BY <1>3, <2>2, <2>3
<1>5. ASSUME NEW t \in Tasks, g[t] + 2 <= f[t]
      PROVE  Cardinality(Towers(g)) + 2 <= Cardinality(Towers(f))
  <2> DEFINE x == <<t, f[t]>>  y == <<t, f[t] - 1>>
  <2>1. /\ x \in Towers(f) /\ x \notin Towers(g)
        /\ y \in Towers(f) /\ y \notin Towers(g) /\ x # y
    BY <1>1, <1>5
  <2> HIDE DEF x, y
  <2>2. IsFiniteSet(Towers(f) \ {x}) /\ Cardinality(Towers(f) \ {x}) = Cardinality(Towers(f)) - 1
    BY <1>3, <2>1, FS_RemoveElement
  <2>3. /\ IsFiniteSet((Towers(f) \ {x}) \ {y})
        /\ Cardinality((Towers(f) \ {x}) \ {y}) = Cardinality(Towers(f) \ {x}) - 1
    BY <2>1, <2>2, FS_RemoveElement
  <2>4. Cardinality(Towers(g)) <= Cardinality((Towers(f) \ {x}) \ {y})
    BY <1>2, <2>1, <2>3, FS_Subset
  <2> QED
    BY <1>3, <2>2, <2>3, <2>4
<1>6. Cardinality(Towers(g)) <= Cardinality(Towers(f))
  BY <1>2, <1>3, FS_Subset
<1> QED
  BY <1>4, <1>5, <1>6

\* The number of ticks of a node, place by place.
LEMMA HolderIs ==
  ASSUME Inv, NEW w \in Workers, task[w] # NoTask
  PROVE  HolderOf(task[w]) = w
<1>1. HolderOf(task[w]) \in Workers /\ task[HolderOf(task[w])] = task[w]
  BY DEF HolderOf
<1> QED
  BY <1>1 DEF Inv, OnePlace

LEMMA InHandBounds ==
  ASSUME Inv, Orderly, NEW w \in Workers, task[w] # NoTask
  PROVE  /\ task[w] \in Tasks /\ Steps[task[w]] \in Nat
         /\ InHand(w) \in Nat /\ InHand(w) >= 3 /\ InHand(w) <= 4 * Steps[task[w]] + 5
<1>1. /\ task[w] \in Tasks /\ Steps[task[w]] \in Nat /\ steps[w] \in Nat
      /\ pc[w] \in Working
  BY CommandAssumption DEF Inv, Basics, Types, HoldsOne
<1>2. /\ pc[w] = "next" => steps[w] <= Steps[task[w]]
      /\ pc[w] \in {"begin", "spawned", "waiting"} => steps[w] < Steps[task[w]]
  BY DEF Orderly, StepsInRange
<1> QED
  BY <1>1, <1>2 DEF InHand, Working

TicksTable ==
  /\ TicksOf \in [Tasks -> Nat]
  /\ \A t \in queue : TicksOf[t] = 4 * Steps[t] + 7
  /\ \A t \in ready : TicksOf[t] = 4 * Steps[t] + 6
  /\ \A w \in Workers : task[w] # NoTask => TicksOf[task[w]] = InHand(w)
  /\ \A t \in Sent : TicksOf[t] = 1
  /\ \A t \in Tasks \ Out : TicksOf[t] = IF results[t] = NoResult THEN 4 * Steps[t] + 8 ELSE 0

LEMMA TicksAt == Inv /\ Orderly => TicksTable
<1> SUFFICES ASSUME Inv, Orderly PROVE TicksTable
  OBVIOUS
<1>1. /\ queue \subseteq Tasks /\ ready \subseteq Tasks /\ Sent \subseteq Tasks /\ Held \subseteq Tasks
      /\ \A t \in Tasks : Steps[t] \in Nat
  BY CommandAssumption DEF Inv, Basics, Types, Sent, Held
<1>2. queue \cap ready = {} /\ queue \cap Held = {} /\ queue \cap Sent = {}
      /\ ready \cap Held = {} /\ ready \cap Sent = {} /\ Held \cap Sent = {}
  BY DEF Inv, OnePlace
<1>3. \A t \in Held : \E w \in Workers : task[w] = t /\ t # NoTask
  BY DEF Held
<1>4. \A w \in Workers : task[w] # NoTask =>
        /\ task[w] \in Held /\ HolderOf(task[w]) = w /\ InHand(w) \in Nat
  BY HolderIs, InHandBounds DEF Held
<1>5. \A t \in Held : InHand(HolderOf(t)) \in Nat
  BY <1>3, <1>4
<1>6. \A t \in Tasks : TicksOf[t] \in Nat
  BY <1>1, <1>5 DEF TicksOf
<1>7. TicksOf \in [Tasks -> Nat]
  <2>1. TicksOf = [t \in Tasks |-> TicksOf[t]]
    BY DEF TicksOf
  <2> QED
    BY <1>6, <2>1
<1>8. \A t \in queue : TicksOf[t] = 4 * Steps[t] + 7
  BY <1>1, <1>2 DEF TicksOf
<1>9. \A t \in ready : TicksOf[t] = 4 * Steps[t] + 6
  BY <1>1, <1>2 DEF TicksOf
<1>10. \A t \in Held : TicksOf[t] = InHand(HolderOf(t))
  BY <1>1, <1>2 DEF TicksOf
<1>11. \A t \in Sent : TicksOf[t] = 1
  BY <1>1, <1>2 DEF TicksOf
<1>12. \A t \in Tasks \ Out : TicksOf[t] = IF results[t] = NoResult THEN 4 * Steps[t] + 8 ELSE 0
  BY DEF TicksOf, Out
<1> QED
  BY <1>4, <1>7, <1>8, <1>9, <1>10, <1>11, <1>12 DEF TicksTable

\* What a worker's step is, seen from outside.
Idles(w) == /\ pc[w] = "loop" /\ pc'[w] \in {"recv", "exited"} /\ Keeps(w)
Leaves(w) == pc[w] = "recv" /\ pc'[w] = "exited" /\ Keeps(w)
Fetches(w) == pc[w] = "recv" /\ pc'[w] = "received" /\ \E t \in Tasks : Takes(w, t)
Proceeds(w) == /\ pc[w] \in Working /\ pc'[w] \in Working /\ Keeps(w)
               /\ InHand(w)' < InHand(w)
HandsOver(w) == /\ pc[w] \in Working /\ pc'[w] = "loop"
                /\ \E s \in Statuses, hit \in BOOLEAN : Reports(w, s, hit)

LEMMA WorkerKinds ==
  ASSUME Inv, Orderly, NEW w \in Workers, Worker(w)
  PROVE  /\ Idles(w) \/ Leaves(w) \/ Fetches(w) \/ Proceeds(w) \/ HandsOver(w)
         /\ \A v \in Workers \ {w} : pc'[v] = pc[v] /\ task'[v] = task[v] /\ steps'[v] = steps[v]
<1>t. /\ pc \in [Workers -> Labels] /\ task \in [Workers -> Tasks \cup {NoTask}]
      /\ steps \in [Workers -> Nat] /\ status \in [Workers -> {"success", "failed"}]
      /\ ready \subseteq Tasks /\ (task[w] # NoTask <=> pc[w] \in Working)
  BY DEF Inv, Basics, Types, HoldsOne
<1>1. \A v \in Workers \ {w} : pc'[v] = pc[v] /\ task'[v] = task[v] /\ steps'[v] = steps[v]
  BY <1>t DEF Worker, Loop, Receive, Recheck, Lookup, NextStep, Begin,
    RegisterPid, Finish, ChildEnds, Report, Goto
<1>2. pc[w] \in Working => /\ task[w] \in Tasks /\ Steps[task[w]] \in Nat /\ steps[w] \in Nat
                           /\ pc[w] = "lookup" => steps[w] = 0
                           /\ pc[w] \in {"begin", "spawned", "waiting"} => steps[w] < Steps[task[w]]
  BY <1>t, CommandAssumption DEF Orderly, StepsInRange
<1>3. ASSUME NEW s \in Statuses, NEW hit \in BOOLEAN, Report(w, s, hit), pc[w] \in Working,
             ready' = ready, s = "skipped" => cancelled, hit => s = "success"
      PROVE  HandsOver(w)
  BY <1>3, <1>t DEF HandsOver, Reports, Report, Goto
\* A step within a task: only the label and the count of commands move.
<1>4. ASSUME pc[w] \in Working, pc'[w] \in Working, Keeps(w),
             LET n == Steps[task[w]]
             IN  \/ pc[w] = "received" /\ pc'[w] = "lookup"
                 \/ pc[w] = "lookup" /\ pc'[w] = "next" /\ steps'[w] = 0 /\ steps[w] = 0
                 \/ pc[w] = "next" /\ pc'[w] = "begin" /\ steps'[w] = steps[w]
                 \/ pc[w] = "begin" /\ pc'[w] = "spawned" /\ steps'[w] = steps[w]
                 \/ pc[w] = "spawned" /\ pc'[w] = "waiting" /\ steps'[w] = steps[w]
                 \/ pc[w] = "begin" /\ pc'[w] = "next" /\ steps'[w] = steps[w] + 1
                 \/ pc[w] = "waiting" /\ pc'[w] = "next" /\ steps'[w] = steps[w] + 1
      PROVE  Proceeds(w)
  <2>1. InHand(w)' < InHand(w)
    <3>1. task' = task
      BY <1>4 DEF Keeps
    <3> QED
      BY <1>2, <1>4, <3>1 DEF InHand, Working
  <2> QED
    BY <1>4, <2>1 DEF Proceeds
<1> DEFINE Seen == Idles(w) \/ Leaves(w) \/ Fetches(w) \/ Proceeds(w) \/ HandsOver(w)
<1> SUFFICES Seen
  BY <1>1
<1> USE <1>t
<1>5. CASE Loop(w)
  BY <1>5 DEF Loop, Goto, Idles, Keeps
<1>6. CASE Receive(w)
  BY <1>6, GraphAssumption DEF Receive, Goto, Leaves, Fetches, Keeps, Takes, Working
<1>7. CASE Recheck(w)
  <2>1. CASE cancelled
    <3>1. Report(w, "skipped", FALSE) /\ pc[w] = "received" /\ ready' = ready
      BY <1>7, <2>1 DEF Recheck
    <3> QED
      BY <2>1, <3>1, <1>3 DEF Working, Statuses
  <2>2. CASE ~cancelled
    <3>1. /\ pc[w] = "received" /\ pc'[w] = "lookup" /\ UNCHANGED <<ready, outcomes, task>>
      BY <1>7, <2>2 DEF Recheck, Goto
    <3> QED
      BY <3>1, <1>4 DEF Working, Keeps
  <2> QED
    BY <2>1, <2>2
<1>8. CASE Lookup(w)
  <2>1. CASE Report(w, "success", TRUE)
    BY <1>8, <2>1, <1>3 DEF Lookup, Working, Statuses
  <2>2. CASE Goto(w, "next") /\ UNCHANGED <<outcomes, task>>
    <3>1. /\ pc[w] = "lookup" /\ pc'[w] = "next" /\ UNCHANGED <<ready, outcomes, task, steps>>
      BY <1>8, <2>2 DEF Lookup, Goto
    <3>2. steps[w] = 0
      BY <1>2, <3>1 DEF Working
    <3> QED
      BY <3>1, <3>2, <1>4 DEF Keeps, Working
  <2> QED
    BY <1>8, <2>1, <2>2 DEF Lookup
<1>9. CASE NextStep(w)
  <2>1. CASE task[w] \in Listed /\ cancelled
    <3>1. Report(w, "skipped", FALSE) /\ pc[w] = "next" /\ ready' = ready
      BY <1>9, <2>1 DEF NextStep
    <3> QED
      BY <2>1, <3>1, <1>3 DEF Working, Statuses
  <2>2. CASE ~(task[w] \in Listed /\ cancelled)
    <3>1. /\ pc[w] = "next" /\ pc'[w] = "begin" /\ UNCHANGED <<ready, outcomes, task, steps>>
      BY <1>9, <2>2 DEF NextStep, Goto
    <3> QED
      BY <3>1, <1>4 DEF Working, Keeps
  <2> QED
    BY <2>1, <2>2
<1>10. CASE Begin(w)
  <2>1. /\ pc[w] = "begin" /\ UNCHANGED <<ready, outcomes, task>>
        /\ \/ pc'[w] = "spawned" /\ steps'[w] = steps[w]
           \/ pc'[w] = "next" /\ steps'[w] = steps[w] + 1
    BY <1>10 DEF Begin, Goto
  <2> QED
    BY <2>1, <1>4 DEF Keeps, Working
<1>11. CASE RegisterPid(w)
  BY <1>11, <1>4 DEF RegisterPid, Goto, Keeps, Working
<1>12. CASE Finish(w)
  <2>1. /\ Report(w, status[w], FALSE) /\ pc[w] = "next" /\ ready' = ready
        /\ status[w] \in {"success", "failed"}
    BY <1>12 DEF Finish
  <2> QED
    BY <2>1, <1>3 DEF Working, Statuses
<1>13. CASE \E s \in {"success", "failed"} : ChildEnds(w, s)
  <2>1. /\ pc[w] = "waiting" /\ pc'[w] = "next" /\ UNCHANGED <<ready, outcomes, task>>
        /\ steps'[w] = steps[w] + 1
    BY <1>13 DEF ChildEnds, Goto
  <2> QED
    BY <2>1, <1>4 DEF Keeps, Working
<1> QED
  BY <1>1, <1>5, <1>6, <1>7, <1>8, <1>9, <1>10, <1>11, <1>12, <1>13 DEF Worker

LEMMA TicksNow == Inv /\ Orderly /\ [Next]_vars => TicksTable /\ TicksTable'
<1>1. Inv /\ Orderly /\ [Next]_vars => Inv' /\ Orderly'
  BY InvStep, OrderlyStep
<1> QED
  BY <1>1, TicksAt, PTL

\* A node that stays where it is keeps its ticks, or loses some.
LEMMA StaysPut ==
  ASSUME Inv, TicksTable, TicksTable', NEW u \in Tasks,
         u \in queue' <=> u \in queue, u \in ready' <=> u \in ready, u \in Sent' <=> u \in Sent,
         \A w \in Workers : task'[w] = u <=> task[w] = u,
         \A w \in Workers : task[w] = u => InHand(w)' <= InHand(w),
         results'[u] = results[u] \/ results'[u] # NoResult
  PROVE  TicksOf'[u] <= TicksOf[u]
<1>t. TicksOf'[u] \in Nat /\ TicksOf[u] \in Nat /\ u # NoTask /\ Steps[u] \in Nat
  BY GraphAssumption, CommandAssumption DEF TicksTable
<1>1. CASE u \in queue
  BY <1>1, <1>t DEF TicksTable
<1>2. CASE u \in ready
  BY <1>2, <1>t DEF TicksTable
<1>3. CASE u \in Sent
  BY <1>3, <1>t DEF TicksTable
<1>4. CASE u \in Held
  <2>1. PICK w \in Workers : task[w] = u
    BY <1>4 DEF Held
  <2>2. TicksOf[u] = InHand(w) /\ TicksOf'[u] = InHand(w)'
    BY <2>1, <1>t DEF TicksTable
  <2> QED
    BY <2>1, <2>2
<1>5. CASE u \notin Out
  <2>1. u \notin Out'
    BY <1>5, <1>t DEF Out, Held
  <2> QED
    BY <1>5, <2>1, <1>t DEF TicksTable
<1> QED
  BY <1>1, <1>2, <1>3, <1>4, <1>5 DEF Out

LEMMA SameHands ==
  ASSUME UNCHANGED workerVars
  PROVE  \A w \in Workers : InHand(w)' = InHand(w)
BY DEF workerVars, InHand

\* Height is the number of ticks of all nodes.
Height == Cardinality(Towers(TicksOf))

LEMMA HeightFalls ==
  ASSUME TicksTable, TicksTable', \A t \in Tasks : TicksOf'[t] <= TicksOf[t]
  PROVE  /\ Height \in Nat /\ Height' \in Nat /\ Height' <= Height
         /\ \A t \in Tasks : TicksOf'[t] + 1 <= TicksOf[t] => Height' + 1 <= Height
         /\ \A t \in Tasks : TicksOf'[t] + 2 <= TicksOf[t] => Height' + 2 <= Height
<1>1. TicksOf \in [Tasks -> Nat] /\ TicksOf' \in [Tasks -> Nat]
  BY DEF TicksTable
<1>2. Height' = Cardinality(Towers(TicksOf'))
  BY DEF Height, Towers
<1>3. Cardinality(Towers(TicksOf)) \in Nat /\ Cardinality(Towers(TicksOf')) \in Nat
  BY <1>1, TowersFinite
<1> HIDE DEF Towers, TicksOf
<1> QED
  BY <1>1, <1>2, <1>3, TowersShrink DEF Height

\* A node that is skipped or recorded frees only nodes that were not out.
LEMMA RecordTicks ==
  ASSUME Inv, TicksTable, TicksTable', ~returned, returned' = FALSE, Inv',
         NEW t \in Tasks, t \in Out, NEW s \in Statuses,
         results' = [results EXCEPT ![t] = s], Release(t),
         Out' = (Out \ {t}) \cup Freed(t), queue' = (queue \ {t}) \cup Freed(t),
         ready' = ready, Sent' = Sent \ {t}, UNCHANGED workerVars, t \notin ready \cup Held
  PROVE  Height' + 1 <= Height
<1>1. /\ Freed(t) \subseteq Tasks /\ Freed(t) \cap Out = {}
  BY GraphKept DEF Inv, Basics
<1>2. s # NoResult /\ results[t] = NoResult
  BY GraphAssumption DEF Inv, Graph, Released
<1>3. TicksOf'[t] = 0
  <2>1. t \notin Out'
    BY <1>1
  <2>2. results'[t] = s
    BY DEF Inv, Basics, Types
  <2> QED
    BY <1>2, <2>1, <2>2 DEF TicksTable
<1>4. TicksOf[t] >= 1
  BY CommandAssumption DEF TicksTable, Out
<1>5. ASSUME NEW u \in Freed(t) PROVE TicksOf'[u] <= TicksOf[u]
  <2>1. u \in Tasks /\ u \notin Out /\ u \in queue' /\ Steps[u] \in Nat
    BY <1>1, CommandAssumption
  <2>2. results[u] = NoResult
    BY <2>1 DEF Freed, Inv, Graph, Released
  <2>3. TicksOf'[u] = 4 * Steps[u] + 7
    BY <2>1 DEF TicksTable
  <2>4. TicksOf[u] = 4 * Steps[u] + 8
    BY <2>1, <2>2 DEF TicksTable
  <2> QED
    BY <2>1, <2>3, <2>4
<1>6. ASSUME NEW u \in Tasks, u # t, u \notin Freed(t) PROVE TicksOf'[u] <= TicksOf[u]
  <2>1. \A w \in Workers : InHand(w)' = InHand(w) /\ task'[w] = task[w]
    BY SameHands DEF workerVars
  <2>2. results'[u] = results[u]
    BY <1>6 DEF Inv, Basics, Types
  <2>3. \A w \in Workers : task[w] = u => InHand(w)' <= InHand(w)
    <3>1. \A w \in Workers : task[w] = u => InHand(w) \in Nat
      BY GraphAssumption DEF TicksTable
    <3> QED
      BY <2>1, <3>1
  <2> QED
    BY <1>6, <2>1, <2>2, <2>3, StaysPut
<1>7. \A u \in Tasks : TicksOf'[u] <= TicksOf[u]
  <2>1. TicksOf[t] \in Nat
    BY DEF TicksTable
  <2> QED
    BY <1>3, <1>5, <1>6, <2>1
<1>8. TicksOf'[t] + 1 <= TicksOf[t]
  <2>1. TicksOf[t] \in Nat
    BY DEF TicksTable
  <2> QED
    BY <1>3, <1>4, <2>1
<1> QED
  BY <1>7, <1>8, HeightFalls

LEMMA ExamineFalls ==
  ASSUME Inv, Inv', TicksTable, TicksTable', NEW t \in Tasks, Examine(t)
  PROVE  Height' + 1 <= Height
<1>1. ~returned /\ returned' = FALSE
  BY DEF Examine, Inv, Basics, Closed, Types
<1>2. t \in queue /\ UNCHANGED <<outcomes, workerVars>>
  BY DEF Examine
<1>3. Held' = Held /\ Sent' = Sent /\ t \notin ready \cup Held \cup Sent
  BY <1>2 DEF Held, Sent, workerVars, Inv, OnePlace
<1>4. CASE /\ results' = [results EXCEPT ![t] = "skipped"] /\ Release(t)
           /\ queue' = (queue \ {t}) \cup Freed(t) /\ ready' = ready
  <2>1. Out' = (Out \ {t}) \cup Freed(t) /\ t \in Out /\ Sent' = Sent \ {t}
    BY <1>2, <1>3, <1>4 DEF Out
  <2>2. "skipped" \in Statuses
    BY DEF Statuses
  <2> QED
    BY <1>1, <1>2, <1>3, <1>4, <2>1, <2>2, RecordTicks
<1>5. CASE ready' = ready \cup {t} /\ queue' = queue \ {t} /\ results' = results
  <2>1. ASSUME NEW u \in Tasks, u # t PROVE TicksOf'[u] <= TicksOf[u]
    <3>1. /\ \A w \in Workers : task'[w] = u <=> task[w] = u
          /\ \A w \in Workers : InHand(w)' = InHand(w)
      BY <1>2, SameHands DEF workerVars
    <3>2. \A w \in Workers : task[w] = u => InHand(w) \in Nat
      BY GraphAssumption DEF TicksTable
    <3>3. \A w \in Workers : task[w] = u => InHand(w)' <= InHand(w)
      BY <3>1, <3>2
    <3> QED
      BY <1>3, <1>5, <2>1, <3>1, <3>3, StaysPut
  <2>2. TicksOf'[t] + 1 <= TicksOf[t]
    BY <1>2, <1>5, CommandAssumption DEF TicksTable
  <2>3. \A u \in Tasks : TicksOf'[u] <= TicksOf[u]
    BY <2>1, <2>2 DEF TicksTable
  <2> QED
    BY <2>2, <2>3, HeightFalls
<1> QED
  BY <1>4, <1>5 DEF Examine

LEMMA ResultFalls ==
  ASSUME Inv, Inv', TicksTable, TicksTable', NEW o \in outcomes, TakeResult(o)
  PROVE  Height' + 1 <= Height
<1>1. /\ ~returned /\ returned' = FALSE /\ queue = {}
      /\ outcomes' = outcomes \ {o} /\ results' = [results EXCEPT ![o[1]] = o[2]]
      /\ Release(o[1]) /\ queue' = Freed(o[1]) /\ ready' = ready /\ UNCHANGED workerVars
  BY DEF TakeResult, Receiving, Inv, Basics, Types
<1>2. o[1] \in Tasks /\ o[2] \in Statuses
  BY DEF Inv, Basics, Types
<1>3. Sent' = Sent \ {o[1]} /\ o[1] \in Sent
  BY <1>1, ResultLeaves DEF Inv
<1>4. Held' = Held /\ o[1] \notin ready \cup Held /\ o[1] \in Out
  BY <1>1, <1>3 DEF Held, workerVars, Inv, OnePlace, Out
<1>5. Out' = (Out \ {o[1]}) \cup Freed(o[1]) /\ queue' = (queue \ {o[1]}) \cup Freed(o[1])
  BY <1>1, <1>3, <1>4 DEF Out
<1> QED
  BY <1>1, <1>2, <1>3, <1>4, <1>5, RecordTicks

\* Steps that move no node forward: each loses no tick.
LEMMA QuietFalls ==
  ASSUME Inv, TicksTable, TicksTable',
         UNCHANGED <<queue, ready, task>>, outcomes' = outcomes,
         \A w \in Workers : task[w] # NoTask => InHand(w)' <= InHand(w),
         \A u \in Tasks : results'[u] = results[u] \/ results'[u] # NoResult
  PROVE  Height \in Nat /\ Height' \in Nat /\ Height' <= Height
<1>1. Sent' = Sent
  BY DEF Sent
<1>2. \A u \in Tasks : TicksOf'[u] <= TicksOf[u]
  BY <1>1, StaysPut, GraphAssumption
<1> QED
  BY <1>2, HeightFalls

LEMMA LastResultFalls ==
  ASSUME Inv, Inv', TicksTable, TicksTable', NEW o \in outcomes, TakeLastResult(o)
  PROVE  Height \in Nat /\ Height' \in Nat /\ Height' <= Height
<1>1. /\ UNCHANGED <<queue, ready, workerVars>> /\ outcomes' = outcomes \ {o}
      /\ results' = [t \in Tasks |-> IF t = o[1] THEN o[2]
                       ELSE IF t \in {u \in Tasks \ {o[1]} : results[u] = NoResult} THEN "skipped"
                            ELSE results[t]]
  BY DEF TakeLastResult
<1>2. o[1] \in Tasks /\ o[2] \in Statuses
  BY DEF Inv, Basics, Types
<1>3. Sent' = Sent \ {o[1]} /\ o[1] \in Sent /\ o[1] \notin queue \cup ready \cup Held
  BY <1>1, ResultLeaves DEF Inv, OnePlace
<1>4. \A u \in Tasks : results'[u] = results[u] \/ results'[u] # NoResult
  BY <1>1, <1>2, GraphAssumption DEF Statuses
<1>5. ASSUME NEW u \in Tasks, u # o[1] PROVE TicksOf'[u] <= TicksOf[u]
  <2>1. /\ \A w \in Workers : task'[w] = u <=> task[w] = u
        /\ \A w \in Workers : InHand(w)' = InHand(w)
    BY <1>1, SameHands DEF workerVars
  <2>2. \A w \in Workers : task[w] = u => InHand(w) \in Nat
    BY GraphAssumption DEF TicksTable
  <2>3. \A w \in Workers : task[w] = u => InHand(w)' <= InHand(w)
    BY <2>1, <2>2
  <2> QED
    BY <1>1, <1>3, <1>4, <1>5, <2>1, <2>3, StaysPut
<1>6. TicksOf'[o[1]] = 0 /\ TicksOf[o[1]] = 1
  <2>1. o[1] \notin Out'
    BY <1>1, <1>3 DEF Out, Held, workerVars
  <2>2. results'[o[1]] # NoResult
    BY <1>1, <1>2, GraphAssumption
  <2> QED
    BY <1>2, <1>3, <2>1, <2>2 DEF TicksTable
<1>7. \A u \in Tasks : TicksOf'[u] <= TicksOf[u]
  BY <1>5, <1>6
<1> QED
  BY <1>7, HeightFalls

\* A worker that takes a node or proceeds loses a tick of it, one that hands
\* it over two: the second pays for its next wait.
LEMMA WorkerFalls ==
  ASSUME Inv, Inv', Orderly, Orderly', TicksTable, TicksTable', NEW w \in Workers, Worker(w)
  PROVE  /\ Height \in Nat /\ Height' \in Nat /\ Height' <= Height
         /\ Fetches(w) \/ Proceeds(w) => Height' + 1 <= Height
         /\ HandsOver(w) => Height' + 2 <= Height
<1>1. /\ Idles(w) \/ Leaves(w) \/ Fetches(w) \/ Proceeds(w) \/ HandsOver(w)
      /\ \A v \in Workers \ {w} : pc'[v] = pc[v] /\ task'[v] = task[v] /\ steps'[v] = steps[v]
  BY WorkerKinds
<1>2. queue' = queue /\ results' = results
  BY WorkerMoves DEF Inv
<1>3. \A v \in Workers \ {w} : InHand(v)' = InHand(v)
  BY <1>1 DEF InHand
<1>4. \A v \in Workers : task[v] # NoTask => InHand(v) \in Nat /\ InHand(v) >= 3
                                             /\ InHand(v) <= 4 * Steps[task[v]] + 5
  BY InHandBounds
<1>5. \A v \in Workers : task[v] # NoTask <=> pc[v] \in Working
  BY DEF Inv, Basics, HoldsOne
<1>6. \A v \in Workers \ {w} : task[v] # NoTask => InHand(v)' <= InHand(v)
  BY <1>3, <1>4
<1>7. CASE Idles(w) \/ Leaves(w)
  <2>1. task[w] = NoTask /\ Keeps(w) /\ ~Fetches(w) /\ ~Proceeds(w) /\ ~HandsOver(w)
    BY <1>5, <1>7 DEF Idles, Leaves, Fetches, Proceeds, HandsOver, Working
  <2>2. \A v \in Workers : task[v] # NoTask => InHand(v)' <= InHand(v)
    BY <1>6, <2>1
  <2> QED
    BY <1>2, <2>1, <2>2, QuietFalls DEF Keeps
<1>8. CASE Proceeds(w)
  <2>1. Keeps(w) /\ InHand(w)' < InHand(w) /\ pc[w] \in Working /\ pc'[w] \in Working
    BY <1>8 DEF Proceeds
  <2>2. task[w] # NoTask /\ task[w] \in Tasks /\ task' = task
    BY <1>5, <2>1 DEF Keeps, Inv, Basics, Types
  <2>3. InHand(w)' = TicksOf'[task[w]] /\ InHand(w) = TicksOf[task[w]]
    BY <2>2 DEF TicksTable
  <2>4. TicksOf'[task[w]] + 1 <= TicksOf[task[w]] /\ InHand(w)' <= InHand(w)
    BY <2>1, <2>2, <2>3 DEF TicksTable
  <2>5. \A u \in Tasks : TicksOf'[u] <= TicksOf[u]
    <3>1. Sent' = Sent
      BY <2>1 DEF Keeps, Sent
    <3> QED
      BY <1>2, <1>6, <2>1, <2>2, <2>4, <3>1, StaysPut, GraphAssumption DEF Keeps
  <2>6. ~HandsOver(w)
    BY <2>1 DEF HandsOver, Working
  <2> QED
    BY <2>2, <2>4, <2>5, <2>6, HeightFalls
<1>9. CASE Fetches(w)
  <2>1. PICK t \in Tasks : Takes(w, t)
    BY <1>9 DEF Fetches
  <2>2. /\ task' = [task EXCEPT ![w] = t] /\ t \in ready /\ ready' = ready \ {t}
        /\ outcomes' = outcomes /\ task[w] = NoTask
    BY <2>1 DEF Takes
  <2>3. task'[w] = t /\ t # NoTask
    BY <2>2, GraphAssumption DEF Inv, Basics, Types
  <2>4. TicksOf'[t] = InHand(w)'
    BY <2>3 DEF TicksTable
  <2>5. InHand(w)' = 4 * Steps[t] + 5
    BY <1>9, <2>3 DEF Fetches, InHand
  <2>6. TicksOf'[t] + 1 <= TicksOf[t]
    BY <2>2, <2>4, <2>5, CommandAssumption DEF TicksTable
  <2>7. ASSUME NEW u \in Tasks, u # t PROVE TicksOf'[u] <= TicksOf[u]
    <3>1. Sent' = Sent
      BY <2>2 DEF Sent
    <3>2. \A v \in Workers : task'[v] = u <=> task[v] = u
      BY <1>1, <2>2, <2>3, <2>7, GraphAssumption
    <3>3. \A v \in Workers : task[v] = u => InHand(v)' <= InHand(v)
      BY <1>6, <2>2, GraphAssumption
    <3> QED
      BY <1>2, <2>2, <2>7, <3>1, <3>2, <3>3, StaysPut
  <2>8. \A u \in Tasks : TicksOf'[u] <= TicksOf[u]
    BY <2>6, <2>7 DEF TicksTable
  <2>9. ~HandsOver(w)
    BY <1>9 DEF HandsOver, Fetches, Working
  <2> QED
    BY <2>6, <2>8, <2>9, HeightFalls
<1>10. CASE HandsOver(w)
  <2>1. PICK s \in Statuses, hit \in BOOLEAN : Reports(w, s, hit)
    BY <1>10 DEF HandsOver
  <2> DEFINE t == task[w]
  <2>2. /\ t # NoTask /\ t \in Tasks /\ ready' = ready /\ outcomes' = outcomes \cup {<<t, s, hit>>}
        /\ task' = [task EXCEPT ![w] = NoTask] /\ task'[w] = NoTask
    BY <2>1 DEF Reports, Inv, Basics, Types
  <2>3. Sent' = Sent \cup {t}
    <3>1. <<t, s, hit>>[1] = t
      OBVIOUS
    <3> HIDE DEF t
    <3>2. {o[1] : o \in outcomes \cup {<<t, s, hit>>}} = {o[1] : o \in outcomes} \cup {t}
      BY <3>1, Zenon
    <3> QED
      BY <2>2, <3>2 DEF Sent
  <2>4. TicksOf'[t] = 1
    BY <2>3 DEF TicksTable
  <2>5. TicksOf[t] = InHand(w) /\ InHand(w) >= 3 /\ InHand(w) \in Nat
    BY <1>4, <2>2 DEF TicksTable
  <2>6. TicksOf'[t] + 2 <= TicksOf[t]
    BY <2>4, <2>5
  <2>7. ASSUME NEW u \in Tasks, u # t PROVE TicksOf'[u] <= TicksOf[u]
    <3>1. u \in Sent' <=> u \in Sent
      BY <2>3, <2>7
    <3>2. \A v \in Workers : task'[v] = u <=> task[v] = u
      BY <1>1, <2>2, <2>7, GraphAssumption
    <3>3. \A v \in Workers : task[v] = u => InHand(v)' <= InHand(v)
      BY <1>6, <2>7, GraphAssumption
    <3> QED
      BY <1>2, <2>2, <3>1, <3>2, <3>3, StaysPut
  <2>8. \A u \in Tasks : TicksOf'[u] <= TicksOf[u]
    BY <2>6, <2>7 DEF TicksTable
  <2>9. Height \in Nat /\ Height' \in Nat /\ Height' <= Height /\ Height' + 2 <= Height
    BY <2>2, <2>6, <2>8, HeightFalls
  <2>10. Height' + 1 <= Height
    <3> DEFINE h == Height  k == Height'
    <3>1. h \in Nat /\ k \in Nat /\ k + 2 <= h
      BY <2>9
    <3> HIDE DEF h, k
    <3>2. k + 1 <= h
      BY <3>1
    <3> QED
      BY <3>2 DEF h, k
  <2> QED
    BY <2>9, <2>10
<1> QED
  BY <1>1, <1>7, <1>8, <1>9, <1>10

LEMMA OthersNat ==
  ASSUME IsFiniteSet(Workers)
  PROVE  /\ Cardinality(Unborn) \in Nat /\ Cardinality(BeforeLoop) \in Nat
         /\ Cardinality(Alive) \in Nat /\ SignalLeft \in Nat
<1>1. IsFiniteSet(Unborn) /\ IsFiniteSet(BeforeLoop) /\ IsFiniteSet(Alive)
  BY FS_Subset DEF Unborn, BeforeLoop, Alive
<1>2. Cardinality(Unborn) \in Nat /\ Cardinality(BeforeLoop) \in Nat /\ Cardinality(Alive) \in Nat
  BY <1>1, FS_CardinalityType
<1>3. SignalLeft \in Nat
  BY DEF SignalLeft
<1> QED
  BY <1>2, <1>3

LEMMA OthersNatNext ==
  ASSUME IsFiniteSet(Workers)
  PROVE  /\ Cardinality(Unborn)' \in Nat /\ Cardinality(BeforeLoop)' \in Nat
         /\ Cardinality(Alive)' \in Nat /\ SignalLeft' \in Nat
<1>1. IsFiniteSet(Unborn') /\ IsFiniteSet(BeforeLoop') /\ IsFiniteSet(Alive')
  BY FS_Subset DEF Unborn, BeforeLoop, Alive
<1>2. Cardinality(Unborn') \in Nat /\ Cardinality(BeforeLoop') \in Nat /\ Cardinality(Alive') \in Nat
  BY <1>1, FS_CardinalityType
<1>3. SignalLeft' \in Nat
  BY DEF SignalLeft
<1> QED
  BY <1>2, <1>3

LEMMA OthersSame ==
  ASSUME UNCHANGED pc, IsFiniteSet(Workers)
  PROVE  Cardinality(Unborn)' = Cardinality(Unborn)
         /\ Cardinality(BeforeLoop)' = Cardinality(BeforeLoop)
         /\ Cardinality(Alive)' = Cardinality(Alive)
<1>1. Unborn' = Unborn /\ BeforeLoop' = BeforeLoop /\ Alive' = Alive
  BY DEF Unborn, BeforeLoop, Alive
<1> QED
  BY <1>1

LEMMA LeftFalls ==
  ASSUME IsFiniteSet(Workers), Inv, Orderly, Next
  PROVE  Left \in Nat /\ Left' < Left
<1>i. Inv' /\ Orderly' /\ TicksTable /\ TicksTable'
  BY InvStep, OrderlyStep, TicksNow
\* The terms of Left, and after the step.
<1> DEFINE h == Height                     hn == Height'
           u == Cardinality(Unborn)        un == Cardinality(Unborn)'
           b == Cardinality(BeforeLoop)    bn == Cardinality(BeforeLoop)'
           a == Cardinality(Alive)         an == Cardinality(Alive)'
           s == SignalLeft                 sn == SignalLeft'
           r == IF returned THEN 0 ELSE 1  rn == IF returned' THEN 0 ELSE 1
<1>h. h \in Nat /\ hn \in Nat
  <2>1. TicksOf \in [Tasks -> Nat] /\ TicksOf' \in [Tasks -> Nat]
    BY <1>i DEF TicksTable
  <2>2. Height' = Cardinality(Towers(TicksOf'))
    BY DEF Height, Towers
  <2> HIDE DEF TicksOf, Towers
  <2> QED
    BY <2>1, <2>2, TowersFinite DEF Height
<1>n. /\ u \in Nat /\ b \in Nat /\ a \in Nat /\ s \in Nat /\ r \in Nat
      /\ un \in Nat /\ bn \in Nat /\ an \in Nat /\ sn \in Nat /\ rn \in Nat
  BY OthersNat, OthersNatNext
<1>l. Left = h + u + b + a + s + r /\ Left' = hn + un + bn + an + sn + rn
  BY DEF Left, Height
<1>w. UNCHANGED pc => un = u /\ bn = b /\ an = a
  BY OthersSame
<1>s. UNCHANGED signal => sn = s
  BY DEF SignalLeft
<1>r. UNCHANGED returned => rn = r
  OBVIOUS
\* Which terms a step lowers.
<1>f. ASSUME \/ hn + 1 <= h /\ un = u /\ bn = b /\ an = a /\ sn = s /\ rn = r
             \/ hn + 2 <= h /\ un = u /\ bn = b + 1 /\ an = a /\ sn = s /\ rn = r
             \/ hn <= h /\ un = 0 /\ u >= 1 /\ bn = b /\ an = a /\ sn = s /\ rn = r
             \/ hn <= h /\ un = u /\ bn = b - 1 /\ an <= a /\ sn = s /\ rn = r
             \/ hn <= h /\ un = u /\ bn = b /\ an = a - 1 /\ sn = s /\ rn = r
             \/ hn <= h /\ un = u /\ bn = b /\ an = a /\ sn = s - 1 /\ rn = r
             \/ hn <= h /\ un = u /\ bn = b /\ an = a /\ sn <= s /\ r = 1 /\ rn = 0
      PROVE  Left' < Left
  <2> HIDE DEF h, hn, u, un, b, bn, a, an, s, sn, r, rn
  <2>1. hn + un + bn + an + sn + rn < h + u + b + a + s + r
    BY <1>f, <1>h, <1>n
  <2> QED
    BY <1>l, <2>1
<1> SUFFICES Left' < Left
  BY <1>h, <1>n, <1>l
<1>1. ASSUME NEW t \in Tasks, Examine(t) PROVE Left' < Left
  <2>1. hn + 1 <= h
    BY <1>1, <1>i, ExamineFalls
  <2>2. UNCHANGED <<pc, signal, returned>>
    BY <1>1 DEF Examine, workerVars
  <2> QED
    BY <2>1, <2>2, <1>f, <1>w, <1>s, <1>r
<1>2. ASSUME NEW o \in outcomes, TakeResult(o) PROVE Left' < Left
  <2>1. hn + 1 <= h
    BY <1>2, <1>i, ResultFalls
  <2>2. UNCHANGED <<pc, signal, returned>>
    BY <1>2 DEF TakeResult, workerVars
  <2> QED
    BY <2>1, <2>2, <1>f, <1>w, <1>s, <1>r
<1>3. ASSUME UNCHANGED pc, hn <= h, ~returned, returned' = TRUE, AbortSignal
      PROVE  Left' < Left
  <2>1. r = 1 /\ rn = 0
    BY <1>3 DEF r
  <2>2. sn <= s
    BY <1>3, <1>n DEF SignalLeft, AbortSignal
  <2> QED
    BY <1>3, <2>1, <2>2, <1>f, <1>w
<1>4. ASSUME NEW o \in outcomes, TakeLastResult(o) PROVE Left' < Left
  <2>1. hn <= h
    BY <1>4, <1>i, LastResultFalls
  <2> QED
    BY <1>3, <1>4, <2>1 DEF TakeLastResult, Receiving, workerVars
<1>5. CASE Return
  <2>1. /\ UNCHANGED <<queue, ready, outcomes, results, workerVars>>
        /\ ~returned /\ returned' = TRUE /\ AbortSignal
    BY <1>5 DEF Return
  <2>2. \A w \in Workers : task[w] # NoTask => InHand(w)' <= InHand(w)
    <3>1. \A w \in Workers : task[w] # NoTask => InHand(w) \in Nat
      BY InHandBounds
    <3> QED
      BY <2>1, <3>1, SameHands
  <2>3. hn <= h
    BY <1>i, <2>1, <2>2, QuietFalls DEF workerVars
  <2> QED
    BY <1>3, <2>1, <2>3 DEF workerVars
<1>6. CASE SpawnWorkers
  <2>1. /\ \A w \in Workers : pc[w] = "unborn" /\ pc'[w] = "loop"
        /\ UNCHANGED <<queue, ready, outcomes, results, task, signal, returned>>
    BY <1>6 DEF SpawnWorkers, coordVars
  <2>2. \A w \in Workers : task[w] = NoTask
    BY <2>1 DEF Inv, Basics, HoldsOne, Working
  <2>3. hn <= h
    BY <1>i, <2>1, <2>2, QuietFalls
  <2>4. Unborn = Workers /\ Unborn' = {} /\ BeforeLoop' = BeforeLoop /\ Alive' = Alive
    BY <2>1 DEF Unborn, BeforeLoop, Alive
  <2>5. u >= 1 /\ un = 0 /\ bn = b /\ an = a
    <3>1. Cardinality(Workers) # 0 /\ Cardinality({}) = 0
      BY FS_EmptySet, GraphAssumption
    <3> QED
      BY <1>n, <2>4, <3>1 DEF u, b, a
  <2> QED
    BY <2>1, <2>3, <2>5, <1>f, <1>s, <1>r
<1>7. ASSUME NEW w \in Workers, Worker(w) PROVE Left' < Left
  <2>1. /\ hn <= h
        /\ Fetches(w) \/ Proceeds(w) => hn + 1 <= h
        /\ HandsOver(w) => hn + 2 <= h
    BY <1>7, <1>i, WorkerFalls
  <2>2. /\ Idles(w) \/ Leaves(w) \/ Fetches(w) \/ Proceeds(w) \/ HandsOver(w)
        /\ \A v \in Workers \ {w} : pc'[v] = pc[v]
    BY <1>7, WorkerKinds
  <2>3. UNCHANGED <<signal, returned>>
    BY <1>7, WorkerMoves DEF Inv
  <2>4. IsFiniteSet(BeforeLoop) /\ IsFiniteSet(Alive)
    BY FS_Subset DEF BeforeLoop, Alive
  <2>5. pc[w] # "unborn" /\ pc'[w] # "unborn"
    BY <2>2 DEF Idles, Leaves, Fetches, Proceeds, HandsOver, Working
  <2>6. un = u
    <3>1. Unborn' = Unborn
      BY <2>2, <2>5 DEF Unborn
    <3> QED
      BY <3>1 DEF u
  <2>7. CASE Idles(w)
    <3>1. pc[w] = "loop" /\ pc'[w] \in {"recv", "exited"}
      BY <2>7 DEF Idles
    <3>2. BeforeLoop' = BeforeLoop \ {w} /\ w \in BeforeLoop
      BY <2>2, <3>1 DEF BeforeLoop
    <3>3. bn = b - 1
      BY <2>4, <3>2, FS_RemoveElement DEF b
    <3>4. Alive' \subseteq Alive
      BY <2>2, <3>1 DEF Alive
    <3>5. an <= a
      BY <2>4, <3>4, FS_Subset DEF a
    <3> QED
      BY <2>1, <2>3, <2>6, <3>3, <3>5, <1>f, <1>s, <1>r
  <2>8. CASE Leaves(w)
    <3>1. pc[w] = "recv" /\ pc'[w] = "exited"
      BY <2>8 DEF Leaves
    <3>2. Alive' = Alive \ {w} /\ w \in Alive /\ BeforeLoop' = BeforeLoop
      BY <2>2, <3>1 DEF Alive, BeforeLoop
    <3>3. an = a - 1 /\ bn = b
      BY <2>4, <3>2, FS_RemoveElement DEF a, b
    <3> QED
      BY <2>1, <2>3, <2>6, <3>3, <1>f, <1>s, <1>r
  <2>9. CASE Fetches(w) \/ Proceeds(w)
    <3>1. pc[w] \in {"recv"} \cup Working /\ pc'[w] \in Working
      BY <2>9 DEF Fetches, Proceeds, Working
    <3>2. BeforeLoop' = BeforeLoop /\ Alive' = Alive
      BY <2>2, <3>1 DEF BeforeLoop, Alive, Working
    <3>3. bn = b /\ an = a
      BY <3>2 DEF a, b
    <3> QED
      BY <2>1, <2>3, <2>6, <2>9, <3>3, <1>f, <1>s, <1>r
  <2>10. CASE HandsOver(w)
    <3>1. pc[w] \in Working /\ pc'[w] = "loop"
      BY <2>10 DEF HandsOver
    <3>2. BeforeLoop' = BeforeLoop \cup {w} /\ w \notin BeforeLoop /\ Alive' = Alive
      BY <2>2, <3>1 DEF BeforeLoop, Alive, Working
    <3>3. bn = b + 1 /\ an = a
      BY <2>4, <3>2, FS_AddElement DEF a, b
    <3>4. hn + 2 <= h
      BY <2>1, <2>10
    <3> QED
      BY <2>3, <2>6, <3>3, <3>4, <1>f, <1>s, <1>r
  <2> QED
    BY <2>2, <2>7, <2>8, <2>9, <2>10
<1>8. ASSUME NEW l \in 0..2, s = l + 1, sn = l, hn <= h,
             un = u, bn = b, an = a, returned' = returned
      PROVE  Left' < Left
  BY <1>8, <1>f, <1>r
<1>9. CASE Cancel \/ Terminate
  <2>1. UNCHANGED <<queue, ready, outcomes, results, workerVars, returned>>
    BY <1>9 DEF Cancel, Terminate, coordVars
  <2>2. \A w \in Workers : task[w] # NoTask => InHand(w)' <= InHand(w)
    <3>1. \A w \in Workers : task[w] # NoTask => InHand(w) \in Nat
      BY InHandBounds
    <3> QED
      BY <2>1, <3>1, SameHands
  <2>3. hn <= h
    BY <1>i, <2>1, <2>2, QuietFalls DEF workerVars
  <2>4. un = u /\ bn = b /\ an = a
    BY <1>w, <2>1 DEF workerVars
  <2>5. \/ s = 3 /\ sn = 2
        \/ s = 2 /\ sn = 1
    BY <1>9 DEF Cancel, Terminate, SignalLeft
  <2> QED
    BY <1>8, <2>1, <2>3, <2>4, <2>5
<1>10. CASE Kill
  <2>1. /\ \A w \in Workers : pc[w] # "waiting" => pc'[w] = pc[w] /\ steps'[w] = steps[w]
        /\ \A w \in Workers : pc[w] = "waiting" => pc'[w] = "next" /\ steps'[w] = steps[w] + 1
        /\ UNCHANGED <<queue, ready, outcomes, results, task, returned>>
        /\ signal = "grace" /\ signal' = "done"
    BY <1>10 DEF Kill, coordVars
  <2>2. ASSUME NEW w \in Workers, task[w] # NoTask PROVE InHand(w)' <= InHand(w)
    <3>1. InHand(w) \in Nat /\ Steps[task[w]] \in Nat /\ steps[w] \in Nat
      BY <2>2, InHandBounds DEF Inv, Basics, Types
    <3>2. CASE pc[w] = "waiting"
      BY <2>1, <3>1, <3>2 DEF InHand
    <3>3. CASE pc[w] # "waiting"
      <4>1. InHand(w)' = InHand(w)
        BY <2>1, <3>3 DEF InHand
      <4> QED
        BY <3>1, <4>1
    <3> QED
      BY <3>2, <3>3
  <2>3. hn <= h
    BY <1>i, <2>1, <2>2, QuietFalls
  <2>4. Unborn' = Unborn /\ BeforeLoop' = BeforeLoop /\ Alive' = Alive
    BY <2>1 DEF Unborn, BeforeLoop, Alive
  <2>5. un = u /\ bn = b /\ an = a
    BY <2>4 DEF u, b, a
  <2>6. s = 1 /\ sn = 0
    BY <2>1 DEF SignalLeft
  <2> QED
    BY <1>8, <2>1, <2>3, <2>5, <2>6
<1> QED
  BY <1>1, <1>2, <1>4, <1>5, <1>6, <1>7, <1>9, <1>10 DEF Next, Coordinator

(* execute() takes finitely many steps: each step of the coordinator, of a *)
(* worker or of the signal task lowers the number that are left, which is  *)
(* never below zero.  With NobodyWaitsForEver this is why it returns.      *)
THEOREM EveryStepCounts ==
  ASSUME IsFiniteSet(Workers)
  PROVE  Spec => [](Left \in Nat) /\ [][Left' < Left]_vars
<1>1. Inv /\ Orderly => Left \in Nat
  <2> SUFFICES ASSUME Inv, Orderly PROVE Left \in Nat
    OBVIOUS
  <2>1. Cardinality(Towers(TicksOf)) \in Nat
    <3>1. TicksOf \in [Tasks -> Nat]
      BY TicksAt DEF TicksTable
    <3> HIDE DEF TicksOf, Towers
    <3> QED
      BY <3>1, TowersFinite
  <2>2. /\ Cardinality(Unborn) \in Nat /\ Cardinality(BeforeLoop) \in Nat
        /\ Cardinality(Alive) \in Nat /\ SignalLeft \in Nat
    BY OthersNat
  <2> QED
    BY <2>1, <2>2 DEF Left
<1>2. Inv /\ Orderly /\ [Next]_vars => [Left' < Left]_vars
  BY LeftFalls
<1> QED
  BY <1>1, <1>2, OrderlyAlways, PTL DEF Spec
================================================================================
