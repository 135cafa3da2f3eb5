----------------------------- MODULE MCCiScheduler -----------------------------
(* CiScheduler for TLC: a workflow with every kind of edge and two workers. *)
EXTENDS CiScheduler

CONSTANTS format, lint, build, test, deploy, notify

MCKind == [e \in Edges |-> CASE e = <<test, deploy>> -> "success"
                             [] e = <<test, notify>> -> "failure"
                             [] e = <<build, deploy>> -> "callback"
                             [] e = <<lint, notify>> -> "always"
                             [] OTHER -> "default"]
MCEdges == {<<format, lint>>, <<lint, test>>, <<build, test>>, <<test, deploy>>, <<build, deploy>>,
            <<test, notify>>, <<lint, notify>>}
MCSteps == [t \in Tasks |-> IF t = build THEN 2 ELSE 1]
================================================================================
