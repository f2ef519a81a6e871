----------------------------- MODULE ReplayCache -----------------------------
(***************************************************************************)
(* The replay cache in Redis and the clock-skew test that goes with it.    *)
(* The cache maps an authenticator's key to the last instant at which      *)
(* Redis still holds the entry; 0 stands for "never set" (clocks start     *)
(* at 1).  Redis drops an entry once the clock has passed its deadline.    *)
(***************************************************************************)
EXTENDS Integers

CONSTANT SKEW_MS  \* clock skew tolerated, and the TTL of a replay entry

ASSUME SkewAssumption == SKEW_MS \in Nat \ {0}

\* Math.abs(Date.now() - timestamp) <= SKEW_MS
WithinSkew(stamp, now) == now - stamp <= SKEW_MS /\ stamp - now <= SKEW_MS

\* Redis still holds the entry.
Live(store, key, now) == now <= store[key]

\* Mutant: the TTL is one unit short (Math.floor where the code rounds up).
SetNXShort(store, key, now) ==
  IF Live(store, key, now) THEN store
  ELSE [store EXCEPT ![key] = now + SKEW_MS - 1]

\* isReplay: SET key '1' NX PX ttlMs, one atomic command of Redis.
SetNX(store, key, now) ==
  IF Live(store, key, now) THEN store
  ELSE [store EXCEPT ![key] = now + SKEW_MS]
=============================================================================
