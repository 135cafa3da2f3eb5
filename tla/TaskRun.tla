-------------------------------- MODULE TaskRun --------------------------------
(***************************************************************************)
(* What one run of a task graph promises: a task is dispatched at most     *)
(* once, only after all its dependencies have a verdict and only when each *)
(* of them lets it run; a task that is let run is not skipped, unless the  *)
(* run is interrupted; and a verdict never changes.                        *)
(***************************************************************************)
CONSTANTS
  Tasks,      \* nodes of the graph
  Edges,      \* pairs <<dependency, dependent>>
  Lets,       \* Lets[e]: verdicts of the dependency with which e always lets run
  Bars,       \* Bars[e]: verdicts with which e always bars
  Unmet,      \* tasks whose own condition is false
  NoVerdict

VARIABLES
  verdict,    \* verdict[t]: "success", "failed", "skipped" or NoVerdict
  running,    \* tasks dispatched that have no verdict yet
  interrupted \* the user asked to stop

vars == <<verdict, running, interrupted>>

Dependencies(t) == {e \in Edges : e[2] = t}
Ready(t) == /\ verdict[t] = NoVerdict /\ t \notin running
            /\ \A e \in Dependencies(t) : verdict[e[1]] # NoVerdict
MayRun(t) == t \notin Unmet /\ \A e \in Dependencies(t) : verdict[e[1]] \notin Bars[e]
MaySkip(t) == t \in Unmet \/ \E e \in Dependencies(t) : verdict[e[1]] \notin Lets[e]

Init == /\ verdict = [t \in Tasks |-> NoVerdict]
        /\ running = {} /\ interrupted = FALSE

Dispatch(t) == /\ Ready(t) /\ MayRun(t)
               /\ running' = running \cup {t}
               /\ UNCHANGED <<verdict, interrupted>>

Skip(t) == /\ Ready(t) /\ MaySkip(t)
           /\ verdict' = [verdict EXCEPT ![t] = "skipped"]
           /\ UNCHANGED <<running, interrupted>>

\* A dispatched task is skipped only in an interrupted run.
Finish(t, v) == /\ t \in running
                /\ v = "skipped" => interrupted
                /\ verdict' = [verdict EXCEPT ![t] = v]
                /\ running' = running \ {t}
                /\ UNCHANGED interrupted

Interrupt == interrupted' = TRUE /\ UNCHANGED <<verdict, running>>

\* An interrupted run finishes one task and skips whatever has no verdict.
Abandon(t, v) ==
  /\ interrupted /\ t \in running
  /\ verdict' = [u \in Tasks |-> IF u = t THEN v
                                 ELSE IF verdict[u] = NoVerdict THEN "skipped" ELSE verdict[u]]
  /\ running' = {}
  /\ UNCHANGED interrupted

Next == \/ \E t \in Tasks : Dispatch(t) \/ Skip(t)
        \/ \E t \in Tasks, v \in {"success", "failed", "skipped"} : Finish(t, v) \/ Abandon(t, v)
        \/ Interrupt

Spec == Init /\ [][Next]_vars
================================================================================
