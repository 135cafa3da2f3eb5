------------------------------ MODULE MCQueryFetch ------------------------------
(* QueryFetch for TLC: two queries that page through the same two keys. *)
EXTENDS QueryFetch

CONSTANTS list, sidebar

MCMaxFetch == [q \in Queries |-> IF q = list THEN 3 ELSE 2]
================================================================================
