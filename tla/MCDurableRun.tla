----------------------------- MODULE MCDurableRun -----------------------------
(* DurableRun for TLC: the cfg files give the constants, this module the classes *)
(* of tool calls they choose from.                                               *)
EXTENDS DurableRunInv

CONSTANTS
  read,    \* a call of a tool that is safe to retry and parallel
  post,    \* a call of a parallel tool with an external effect
  legacy   \* a call the provider sent without an id
================================================================================
