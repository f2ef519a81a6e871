-------------------------- MODULE PrincipalRegistry --------------------------
(***************************************************************************)
(* What registration promises, with no requests, secrets or stores: a name *)
(* gets one key, once and for good, and the KDC knows that key or none.    *)
(* Registration implements it, and so does Walk, with the KDC's boot and   *)
(* Redis' snapshots in it.                                                 *)
(***************************************************************************)
CONSTANTS Names, Key, None

VARIABLES
  registered,  \* the key of each registered name
  known        \* the key the KDC finds for it

\* A name is registered with the first key that comes.
Register(n, k) ==
  /\ registered[n] = None
  /\ registered' = [registered EXCEPT ![n] = k]
  /\ UNCHANGED known

\* The KDC learns the key.
Publish(n) ==
  /\ registered[n] # None
  /\ known' = [known EXCEPT ![n] = registered[n]]
  /\ UNCHANGED registered

\* It may forget keys; it never learns one back that way.
Forget(lost) ==
  /\ known' = [n \in Names |-> IF n \in lost THEN None ELSE known[n]]
  /\ UNCHANGED registered

Init ==
  /\ registered = [n \in Names |-> None]
  /\ known = [n \in Names |-> None]

Next ==
  \/ \E n \in Names : Publish(n) \/ \E k \in Key : Register(n, k)
  \/ \E lost \in SUBSET Names : Forget(lost)

Spec == Init /\ [][Next]_<<registered, known>>
=============================================================================
