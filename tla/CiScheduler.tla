------------------------------ MODULE CiScheduler ------------------------------
(***************************************************************************)
(* Scheduler::execute() of native/vtz/src/ci/scheduler.rs: a coordinator   *)
(* that releases the tasks of a graph as their dependencies finish, a pool *)
(* of workers that run them as child processes, and a signal task that     *)
(* stops them.  Channels are sets here: workers race for the receiving     *)
(* end, and no property depends on the order of what waits in a channel.   *)
(***************************************************************************)
EXTENDS Naturals, FiniteSets

CONSTANTS
  Tasks,     \* nodes of the graph
  Edges,     \* pairs <<dependency, dependent>>
  Kind,      \* Kind[e]: "default", "success", "always", "failure", "callback"
  Unmet,     \* tasks whose condition evaluates to false
  Cacheable, \* tasks with a cache configuration
  Listed,    \* tasks given as a list of steps, the others as one command
  Steps,     \* Steps[t]: how many commands task t runs
  Stubborn,  \* tasks whose commands end on SIGKILL only
  Workers,   \* as many as the concurrency, at most one per task
  NoTask, NoResult

Statuses == {"success", "failed", "skipped"}

ASSUME GraphAssumption ==
  /\ IsFiniteSet(Tasks) /\ IsFiniteSet(Edges) /\ Edges \subseteq Tasks \X Tasks
  /\ Kind \in [Edges -> {"default", "success", "always", "failure", "callback"}]
  /\ NoTask \notin Tasks /\ NoResult \notin Statuses /\ Workers # {}
ASSUME CommandAssumption ==
  /\ Steps \in [Tasks -> Nat] /\ \A t \in Tasks \ Listed : Steps[t] = 1

VARIABLES
  results,   \* node_results[t], or NoResult
  degree,    \* in_degree[t]
  queue,     \* seed_queue and later ready_queue: released, not yet examined
  ready,     \* sent to the workers and not received
  outcomes,  \* WorkerResults sent and not received: <<task, status, cached>>
  remaining, \* nodes that the coordinator still waits for
  tally,     \* executed, cached, skipped and failed counts
  returned,  \* execute() has left its loop and closed the ready channel
  pc,        \* pc[w]: where worker w is
  task,      \* task[w]: the node it holds, or NoTask
  steps,     \* steps[w]: commands of that task that have ended
  status,    \* status[w]: last_status of that task
  cancelled, \* ShutdownState.cancelled
  signal,    \* where the signal task is
  late       \* late[w]: commands w began after the cancellation; only read by StopsScheduling

coordVars == <<results, degree, queue, remaining, tally, returned>>
workerVars == <<pc, task, steps, status, late>>
vars == <<coordVars, ready, outcomes, workerVars, cancelled, signal>>

(***************************************************************************)
(* Which dependents run                                                    *)
(***************************************************************************)
Dependencies(t) == {e \in Edges : e[2] = t}
Dependents(t) == {e[2] : e \in {d \in Edges : d[1] = t}}

\* should_run_dependent: the statuses with which an edge says Run.
RunsOn(kind) == CASE kind = "default" -> {"success", "skipped"}
                  [] kind = "success" -> {"success"}
                  [] kind = "failure" -> {"failed"}
                  [] kind = "always"  -> Statuses
                  [] OTHER            -> {}

\* should_skip_node, where yes are the edges whose callback answers true; one
\* that fails counts as false.  A dependency without a result is passed over.
SkipsIfAll(t, yes) ==
  /\ Dependencies(t) # {}
  /\ \A e \in Dependencies(t) : e \notin yes /\ results[e[1]] \notin RunsOn(Kind[e])

ShouldSkip(t, yes) ==
  \E e \in Dependencies(t) : /\ results[e[1]] # NoResult
                             /\ e \notin yes
                             /\ results[e[1]] \notin RunsOn(Kind[e])

Callbacks(t) == {e \in Dependencies(t) : Kind[e] = "callback"}

(***************************************************************************)
(* The coordinator                                                         *)
(***************************************************************************)
Init ==
  /\ results = [t \in Tasks |-> NoResult]
  /\ degree = [t \in Tasks |-> Cardinality(Dependencies(t))]
  /\ queue = {t \in Tasks : Dependencies(t) = {}}
  /\ ready = {} /\ outcomes = {}
  /\ remaining = Cardinality(Tasks)
  /\ tally = [executed |-> 0, cached |-> 0, skipped |-> 0, failed |-> 0]
  /\ returned = FALSE
  /\ pc = [w \in Workers |-> "unborn"]
  /\ task = [w \in Workers |-> NoTask]
  /\ steps = [w \in Workers |-> 0]
  /\ status = [w \in Workers |-> "success"]
  /\ cancelled = FALSE /\ signal = "listening"
  /\ late = [w \in Workers |-> 0]

\* The dependents of t that t was the last to hold back.
FreedEarly(t) == Dependents(t)
FreedLate(t) == {u \in Dependents(t) : degree[u] = 0}
Freed(t) == {u \in Dependents(t) : degree[u] = 1}
ReleaseTwice(t) ==
  degree' = [u \in Tasks |-> IF u \in Dependents(t) THEN degree[u] - 2 ELSE degree[u]]
Release(t) == degree' = [u \in Tasks |-> IF u \in Dependents(t) THEN degree[u] - 1 ELSE degree[u]]

\* One round of the seed loop or of the ready_queue loop: the node is skipped,
\* which releases its dependents in turn, or sent to the workers.
Examine(t) ==
  /\ t \in queue
  /\ \E yes \in SUBSET Callbacks(t) :
       IF ShouldSkip(t, yes) \/ t \in Unmet
         THEN /\ results' = [results EXCEPT ![t] = "skipped"]
              /\ tally' = [tally EXCEPT !.skipped = @ + 1]
              /\ remaining' = remaining - 1
              /\ Release(t)
              /\ queue' = (queue \ {t}) \cup Freed(t)
              /\ UNCHANGED ready
         ELSE /\ ready' = ready \cup {t}
              /\ queue' = queue \ {t}
              /\ UNCHANGED <<results, tally, remaining, degree>>
  /\ UNCHANGED <<outcomes, returned, workerVars, cancelled, signal>>

\* The workers are spawned once the seed queue is empty.
SpawnWorkers ==
  /\ queue = {} /\ \A w \in Workers : pc[w] = "unborn"
  /\ pc' = [w \in Workers |-> "loop"]
  /\ UNCHANGED <<coordVars, ready, outcomes, task, steps, status, late, cancelled, signal>>

Receiving == /\ queue = {} /\ ~returned /\ remaining > 0
             /\ \A w \in Workers : pc[w] # "unborn"

Counted(s, hit) ==
  IF hit THEN [tally EXCEPT !.cached = @ + 1]
  ELSE CASE s = "success" -> [tally EXCEPT !.executed = @ + 1]
         [] s = "failed"  -> [tally EXCEPT !.executed = @ + 1, !.failed = @ + 1]
         [] s = "skipped" -> [tally EXCEPT !.skipped = @ + 1]

TakeResult(o) ==
  /\ Receiving /\ ~cancelled /\ o \in outcomes
  /\ outcomes' = outcomes \ {o}
  /\ results' = [results EXCEPT ![o[1]] = o[2]]
  /\ tally' = Counted(o[2], o[3])
  /\ remaining' = remaining - 1
  /\ Release(o[1]) /\ queue' = Freed(o[1])
  /\ UNCHANGED <<ready, returned, workerVars, cancelled, signal>>

\* Leaving the loop closes the ready channel and aborts the signal task.
AbortSignal == signal' = IF signal = "done" THEN signal ELSE "aborted"

\* Once cancelled, the first result that arrives ends the run: whatever has no
\* result, tasks in the hands of workers included, is recorded as skipped.
TakeLastResult(o) ==
  /\ Receiving /\ cancelled /\ o \in outcomes
  /\ outcomes' = outcomes \ {o}
  /\ LET open == {t \in Tasks \ {o[1]} : results[t] = NoResult}
     IN  /\ results' = [t \in Tasks |-> IF t = o[1] THEN o[2]
                                        ELSE IF t \in open THEN "skipped" ELSE results[t]]
         /\ tally' = LET counted == Counted(o[2], o[3])
                     IN  [counted EXCEPT !.skipped = @ + Cardinality(open)]
  /\ remaining' = remaining - 1
  /\ returned' = TRUE /\ AbortSignal
  /\ UNCHANGED <<degree, queue, ready, workerVars, cancelled>>

\* Nothing remains, or all workers have gone and no result will come.
Return ==
  /\ queue = {} /\ ~returned
  /\ \A w \in Workers : pc[w] # "unborn"
  /\ \/ remaining = 0
     \/ outcomes = {} /\ \A w \in Workers : pc[w] = "exited"
  /\ returned' = TRUE /\ AbortSignal
  /\ UNCHANGED <<results, degree, queue, remaining, tally, ready, outcomes, workerVars, cancelled>>

(***************************************************************************)
(* A worker                                                                *)
(***************************************************************************)
Goto(w, label) == pc' = [pc EXCEPT ![w] = label]

\* The flag is read before the worker waits for work ...
Loop(w) ==
  /\ pc[w] = "loop"
  /\ Goto(w, IF cancelled THEN "exited" ELSE "recv")
  /\ UNCHANGED <<coordVars, ready, outcomes, task, steps, status, late, cancelled, signal>>

ReceiveOrLeave(w) ==
  /\ pc[w] = "recv"
  /\ \/ \E t \in ready : /\ ready' = ready \ {t} /\ task' = [task EXCEPT ![w] = t]
                         /\ Goto(w, "received")
     \/ ready = {} /\ Goto(w, "exited") /\ UNCHANGED <<ready, task>>
  /\ UNCHANGED <<coordVars, outcomes, steps, status, late, cancelled, signal>>

Receive(w) ==
  /\ pc[w] = "recv"
  /\ \/ \E t \in ready : /\ ready' = ready \ {t}
                         /\ task' = [task EXCEPT ![w] = t]
                         /\ Goto(w, "received")
     \/ /\ ready = {} /\ returned
        /\ Goto(w, "exited")
        /\ UNCHANGED <<ready, task>>
  /\ UNCHANGED <<coordVars, outcomes, steps, status, late, cancelled, signal>>

Report(w, s, hit) ==
  /\ outcomes' = outcomes \cup {<<task[w], s, hit>>}
  /\ task' = [task EXCEPT ![w] = NoTask]
  /\ Goto(w, "loop")

\* ... and again when it has some.
Recheck(w) ==
  /\ pc[w] = "received"
  /\ IF cancelled
       THEN Report(w, "skipped", FALSE) /\ UNCHANGED <<steps, status>>
       ELSE /\ Goto(w, "lookup")
            /\ steps' = [steps EXCEPT ![w] = 0]
            /\ status' = [status EXCEPT ![w] = "success"]
            /\ UNCHANGED <<outcomes, task>>
  /\ UNCHANGED <<coordVars, ready, late, cancelled, signal>>

\* An exact hit whose outputs can be restored ends the task; a miss, an error
\* or the entry of older inputs does not.
Lookup(w) ==
  /\ pc[w] = "lookup"
  /\ \/ task[w] \in Cacheable /\ Report(w, "success", TRUE)
     \/ Goto(w, "next") /\ UNCHANGED <<outcomes, task>>
  /\ UNCHANGED <<coordVars, ready, steps, status, late, cancelled, signal>>

NextStepAnyway(w) ==
  /\ pc[w] = "next" /\ steps[w] < Steps[task[w]] /\ status[w] # "failed"
  /\ Goto(w, "begin")
  /\ UNCHANGED <<coordVars, ready, outcomes, task, steps, status, late, cancelled, signal>>

\* A list of steps reads the flag before each step ...
NextStep(w) ==
  /\ pc[w] = "next" /\ steps[w] < Steps[task[w]] /\ status[w] # "failed"
  /\ IF task[w] \in Listed /\ cancelled
       THEN Report(w, "skipped", FALSE)
       ELSE Goto(w, "begin") /\ UNCHANGED <<outcomes, task>>
  /\ UNCHANGED <<coordVars, ready, steps, status, late, cancelled, signal>>

\* ... and then execute_command spawns the child, or fails to.
Begin(w) ==
  /\ pc[w] = "begin"
  /\ late' = [late EXCEPT ![w] = IF cancelled THEN @ + 1 ELSE @]
  /\ \/ Goto(w, "spawned") /\ UNCHANGED <<steps, status>>
     \/ /\ status' = [status EXCEPT ![w] = "failed"]
        /\ steps' = [steps EXCEPT ![w] = @ + 1]
        /\ Goto(w, "next")
  /\ UNCHANGED <<coordVars, ready, outcomes, task, cancelled, signal>>

\* The pid is known to the signal task from here on.
RegisterPid(w) ==
  /\ pc[w] = "spawned"
  /\ Goto(w, "waiting")
  /\ UNCHANGED <<coordVars, ready, outcomes, task, steps, status, late, cancelled, signal>>

\* The child exits, is terminated or times out, and its pid is unregistered.
ChildEnds(w, s) ==
  /\ pc[w] = "waiting" /\ task[w] \notin Stubborn
  /\ s \in {"success", "failed"}
  /\ status' = [status EXCEPT ![w] = s]
  /\ steps' = [steps EXCEPT ![w] = @ + 1]
  /\ Goto(w, "next")
  /\ UNCHANGED <<coordVars, ready, outcomes, task, late, cancelled, signal>>

\* All steps have run or one has failed.  A success is put into the cache first.
Finish(w) ==
  /\ pc[w] = "next" /\ (steps[w] = Steps[task[w]] \/ status[w] = "failed")
  /\ Report(w, status[w], FALSE)
  /\ UNCHANGED <<coordVars, ready, steps, status, late, cancelled, signal>>

(***************************************************************************)
(* The signal task                                                         *)
(***************************************************************************)
\* First SIGINT.
Cancel == /\ signal = "listening"
          /\ cancelled' = TRUE /\ signal' = "terminating"
          /\ UNCHANGED <<coordVars, ready, outcomes, workerVars>>

\* signal_all(SIGTERM) reaches the registered children.  One may end by it,
\* which ChildEnds covers, a stubborn one does not.
Terminate == /\ signal = "terminating"
             /\ signal' = "grace"
             /\ UNCHANGED <<coordVars, ready, outcomes, workerVars, cancelled>>

\* Five seconds later or at the second SIGINT: signal_all(SIGKILL).
Kill ==
  /\ signal = "grace"
  /\ signal' = "done"
  /\ LET killed == {w \in Workers : pc[w] = "waiting"}
     IN  /\ pc' = [w \in Workers |-> IF w \in killed THEN "next" ELSE pc[w]]
         /\ status' = [w \in Workers |-> IF w \in killed THEN "failed" ELSE status[w]]
         /\ steps' = [w \in Workers |-> IF w \in killed THEN steps[w] + 1 ELSE steps[w]]
  /\ UNCHANGED <<coordVars, ready, outcomes, task, late, cancelled>>

Coordinator == \/ \E t \in Tasks : Examine(t)
               \/ SpawnWorkers \/ Return
               \/ \E o \in outcomes : TakeResult(o) \/ TakeLastResult(o)

Worker(w) == \/ Loop(w) \/ Receive(w) \/ Recheck(w) \/ Lookup(w)
             \/ NextStep(w) \/ Begin(w) \/ RegisterPid(w) \/ Finish(w)
             \/ \E s \in {"success", "failed"} : ChildEnds(w, s)

Next == \/ Coordinator
        \/ \E w \in Workers : Worker(w)
        \/ Cancel \/ Terminate \/ Kill

\* The runtime polls each of its tasks and children that are not stubborn end;
\* nobody has to press Ctrl+C.
Fairness == /\ WF_vars(Coordinator)
            /\ \A w \in Workers : WF_vars(Worker(w))
            /\ WF_vars(Terminate) /\ WF_vars(Kill)

Spec == Init /\ [][Next]_vars /\ Fairness

(***************************************************************************)
(* Properties                                                              *)
(***************************************************************************)
TypeOK ==
  /\ results \in [Tasks -> Statuses \cup {NoResult}]
  /\ degree \in [Tasks -> Nat]
  /\ queue \subseteq Tasks /\ ready \subseteq Tasks
  /\ outcomes \subseteq Tasks \X Statuses \X BOOLEAN
  /\ remaining \in 0..Cardinality(Tasks)
  /\ tally \in [{"executed", "cached", "skipped", "failed"} -> Nat]
  /\ returned \in BOOLEAN /\ cancelled \in BOOLEAN
  /\ pc \in [Workers -> {"unborn", "loop", "recv", "received", "lookup", "next", "begin",
                         "spawned", "waiting", "exited"}]
  /\ task \in [Workers -> Tasks \cup {NoTask}]
  /\ steps \in [Workers -> Nat] /\ late \in [Workers -> Nat]
  /\ status \in [Workers -> Statuses]
  /\ signal \in {"listening", "terminating", "grace", "done", "aborted"}

Held == {task[w] : w \in Workers} \ {NoTask}
Sent == {o[1] : o \in outcomes}

(* A node that the coordinator released is in one place: examined, queued  *)
(* for the workers, in the hands of one of them, or answered by one result *)
(* in the channel.  A second copy would be run, or counted, twice.         *)
OnePlace ==
  /\ queue \cap (ready \cup Held \cup Sent) = {}
  /\ ready \cap (Held \cup Sent) = {} /\ Held \cap Sent = {}
  /\ \A v, w \in Workers : task[v] = task[w] /\ v # w => task[v] = NoTask
  /\ \A o, p \in outcomes : o[1] = p[1] => o = p

(* Without an interrupt execute() leaves its loop only with a result for   *)
(* every node, whatever fails, is skipped or comes from the cache; what    *)
(* remains, and the tallies of the summary line, agree with the results,   *)
(* the nodes filled in after a cancellation included.                      *)
Recorded(s) == Cardinality({t \in Tasks : results[t] \in s})
CountsAgree ==
  /\ ~returned => remaining = Recorded({NoResult})
  /\ tally.executed + tally.cached + tally.skipped = Recorded(Statuses)
  /\ tally.failed = Recorded({"failed"}) /\ tally.skipped = Recorded({"skipped"})
NothingLost == /\ returned /\ ~cancelled => \A t \in Tasks : results[t] # NoResult
               /\ CountsAgree

(* After the first SIGINT no worker begins more than the one command that  *)
(* it was about to spawn: the flag is read around every wait for work and  *)
(* before every step.                                                      *)
StopsScheduling == \A w \in Workers : late[w] <= 1

(* execute() returns, and then every worker stops, provided that children  *)
(* end: no node waits for a result that never comes, interrupted or not.   *)
Returns == <>(returned /\ \A w \in Workers : pc[w] = "exited")

(* The doc comment of execute(): a child that runs at the first SIGINT and *)
(* that survives SIGTERM is killed after five seconds or a second SIGINT.  *)
ChildrenStopped == \A w \in Workers : signal = "terminating" /\ pc[w] = "waiting"
                                        ~> pc[w] # "waiting"

(* Nodes run as TaskRun promises: dispatched once, when all dependencies   *)
(* have results and each edge lets it run.                                 *)
Run == INSTANCE TaskRun WITH
         verdict <- results,
         running <- {t \in ready \cup Held \cup Sent : results[t] = NoResult},
         interrupted <- cancelled,
         NoVerdict <- NoResult,
         Lets <- [e \in Edges |-> RunsOn(Kind[e])],
         Bars <- [e \in Edges |-> IF Kind[e] = "callback" THEN {} ELSE Statuses \ RunsOn(Kind[e])]
ImplementsTaskRun == Run!Spec
================================================================================
