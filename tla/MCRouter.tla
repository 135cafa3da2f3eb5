-------------------------------- MODULE MCRouter --------------------------------
(* Router for TLC: an eager page with a parameter, a lazy one, a lazy one with *)
(* a view transition, and a path without a route.                              *)
EXTENDS Router

CONSTANTS home, list, item, gone, filter

At(p) == [path |-> p, search |-> NoSearch]
MCUrls == {At(home), [path |-> home, search |-> filter], At(list), At(item), At(gone)}
MCHome == At(home)
================================================================================
