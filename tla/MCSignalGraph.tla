---------------------------- MODULE MCSignalGraph ----------------------------
(* SignalGraph for TLC: a diamond over two signals, and an effect that writes. *)
EXTENDS SignalGraph

CONSTANTS a, b, both, again, view, copy

MCSources == [n \in Computeds \cup Effects |->
                CASE n = both -> <<a, b>>
                  [] n = again -> <<both, a>>
                  [] n = view -> <<both, again>>
                  [] n = copy -> <<a>>]
MCTarget  == [e \in Effects |-> IF e = copy THEN b ELSE NoSignal]
================================================================================
