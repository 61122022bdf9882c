---------------------------- MODULE MCPlaybackEnd ----------------------------
(***************************************************************************)
(* PlaybackEnd for TLC: one set of shows that is swept, one that keeps     *)
(* what is completed, an entry in each.                                    *)
(***************************************************************************)
EXTENDS PlaybackEnd

CONSTANTS a, b, x, j1, j2, none

Policies == [s \in Sets |-> IF s = a THEN "plain" ELSE "keep"]
OneTick  == [s \in Sets |-> 1]
UpToTwo  == [s \in Sets |-> IF s = a THEN 2 ELSE 1]

Spec == EndSpec /\ EndFairness
=============================================================================
