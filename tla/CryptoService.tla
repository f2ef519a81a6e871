---------------------------- MODULE CryptoService ----------------------------
(***************************************************************************)
(* The cryptography both applications share, symbolically.  AES-256-GCM    *)
(* is an envelope that opens under the key that sealed it and under no     *)
(* other; PBKDF2 and random keys are distinct values.  getLifetime is      *)
(* modelled as it computes.                                                *)
(***************************************************************************)
EXTENDS Integers

\* encrypt(payload, key): IV and tag are abstracted.
Encrypt(payload, key) == [key |-> key, payload |-> payload]

\* decrypt(encryption, key) returns the payload when this holds and throws a
\* 401 otherwise: wrong key, a key that is not 32 bytes of hex, a bad tag.
Opens(envelope, key) == envelope.key = key

\* A principal's long-term key: string2key for a user, the environment's for a
\* seeded principal.
PrincipalKey(principal, realm) == [principal |-> principal, realm |-> realm]

\* genKey(): n numbers the calls of randomBytes.
SessionKey(n) == [session |-> n]

Lesser(a, b) == IF a < b THEN a ELSE b
Greater(a, b) == IF a < b THEN b ELSE a

\* Mutant: the policy's minimum is not applied.
GetLifetimeNoMinimum(requested, interval) == Lesser(requested, interval.max)

\* A duration clamped to the realm policy.  The DTOs admit only integers >= 0,
\* so the branch for a lifetime that is not finite is not reachable.
GetLifetime(requested, interval) ==
  Lesser(Greater(requested, interval.min), interval.max)
=============================================================================
