-------------------------------- MODULE MCWalk --------------------------------
(* Instances of Walk.  The skew, the TTL of a secret and the lifetimes are    *)
(* all 1, so that a walk that dawdles meets the end of each of them.          *)
EXTENDS Walk, TLC

CONSTANTS insat, here, phrase, w1, w2

MCInterval == [min |-> 1, max |-> 2]
=============================================================================
