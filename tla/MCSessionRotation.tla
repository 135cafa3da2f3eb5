--------------------------- MODULE MCSessionRotation ---------------------------
(* SessionRotation for TLC.  No property is temporal, so tabs and tenants may be *)
(* exchanged for one another.                                                    *)
EXTENDS SessionRotation, TLC

Symmetry == Permutations(Requests) \cup Permutations(Tenants)
================================================================================
