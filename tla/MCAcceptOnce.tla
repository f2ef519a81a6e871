---------------------------- MODULE MCAcceptOnce ----------------------------
(* Small instance of AcceptOnce: three requests, two authenticators, one    *)
(* stamped early and one stamped in the middle of the run.                  *)
EXTENDS AcceptOnce

MCStampOf == [i \in 1 .. 2 |-> IF i = 1 THEN 1 ELSE 4]
=============================================================================
