----------------------------- MODULE MCEntityStore -----------------------------
(* EntityStore for TLC: two updates and a delete of one task, and a new task. *)
(* Each mutation has a descriptor of its own, as generated clients make them. *)
EXTENDS EntityStore

CONSTANTS task, other, title, done, rename, finish, drop, add

MCKind == [m \in Mutations |-> CASE m = drop -> "delete" [] m = add -> "create" [] OTHER -> "update"]
MCTarget == [m \in Mutations |-> IF m = add THEN other ELSE task]
MCWrites == [m \in Mutations |-> CASE m = rename -> {title} [] m = finish -> {title, done} [] OTHER -> {}]
MCCounter == [m \in Mutations |-> 1]
================================================================================
