----------------------------- MODULE KeytabSeeder -----------------------------
(***************************************************************************)
(* The KDC's boot: configuration, KeytabSeeder.onApplicationBootstrap and  *)
(* listen, on the Redis that the application service is using all along.   *)
(*                                                                         *)
(* Seeding is one SET per entry, with an await after each: the process may *)
(* stop half-way, a command may fail before or after it took effect, Redis *)
(* may restart from a snapshot of half a keytab, and registrations write   *)
(* users' entries in between.  The KDC may boot again with other keys.     *)
(***************************************************************************)
EXTENDS Naturals, Sequences

CONSTANTS
  REALMS,      \* the configured realms, in their order
  PRINCIPALS,  \* the principals of each realm, in their order
  Usernames,   \* the names users register under: any, those of the KDC's entries too
  Envs,        \* the environments the KDC may be booted with
  Incomplete,  \* those that lack a key, or hold one that is not 32 bytes of hex
  Interval,    \* the realms' policy
  None,        \* undefined
  MaxBoots,    \* bound on the boots of the KDC
  MaxRestarts  \* bound on the restarts of Redis

Elements(seq) == {seq[i] : i \in 1 .. Len(seq)}
Realms == Elements(REALMS)
Principals == Elements(PRINCIPALS)

\* The names the seeder writes: the principals and the policy.
SeederNames == Principals \cup {"interval"}

\* <name>@<realm>, the keys of the keytab.
Entries == (SeederNames \cup Usernames) \X Realms

SeededKey == [env: Envs, principal: Principals, realm: Realms]
UserKey == [user: Usernames, realm: Realms]
Values == SeededKey \cup UserKey \cup {Interval, None}

ASSUME KeytabSeederAssumption ==
  /\ REALMS \in Seq(STRING) /\ PRINCIPALS \in Seq(STRING)
  /\ "interval" \notin Principals
  /\ Incomplete \subseteq Envs
  /\ Interval \notin UserKey
  /\ None \notin SeededKey \cup UserKey \cup {Interval}
  /\ MaxBoots \in Nat /\ MaxRestarts \in Nat

VARIABLES
  keytab,    \* the keytab in Redis
  saved,     \* its last snapshot
  restarts,  \* restarts of Redis so far
  kdc,       \* the KDC process: down, seeding or listening
  env,       \* the environment it was booted with
  at,        \* the realm and the slot the seeder's two loops are at
  boots,     \* boots of the KDC so far
  forgot,    \* history: Redis has restarted since this boot
  cut        \* history: Redis has restarted during some seeding

process == <<kdc, env, at, boots>>
vars == <<keytab, saved, restarts, process, forgot, cut>>

Init ==
  /\ keytab = [e \in Entries |-> None]
  /\ saved = keytab
  /\ restarts = 0
  /\ kdc = "down" /\ env = None /\ at = <<1, 1>> /\ boots = 0
  /\ forgot = FALSE /\ cut = FALSE

-----------------------------------------------------------------------------

\* requireKey: the configuration does not load unless every key is there.
Loads(e) == e \notin Incomplete

\* What the environment configures for an entry.
Configured(e, name, realm) ==
  IF name = "interval" THEN Interval
  ELSE [env |-> e, principal |-> name, realm |-> realm]

\* Mutant: the policy is written before the principals.
NamePolicyFirst(slot) == IF slot = 1 THEN "interval" ELSE PRINCIPALS[slot - 1]

\* The inner loop runs through the principals; the policy follows it.
Name(slot) == IF slot <= Len(PRINCIPALS) THEN PRINCIPALS[slot] ELSE "interval"

\* Mutant: the outer loop never moves on.
NextSlotInRealm(position) == <<position[1], position[2] + 1>>

\* Mutant: the inner loop does not move on.
NextSlotStuck(position) == position

NextSlot(position) ==
  IF position[2] <= Len(PRINCIPALS)
  THEN <<position[1], position[2] + 1>>
  ELSE <<position[1] + 1, 1>>

Done == at[1] > Len(REALMS)

\* Mutant: the seeder clears the store first.
BootClearing(e) ==
  /\ kdc = "down" /\ boots < MaxBoots /\ Loads(e)
  /\ kdc' = "seeding" /\ env' = e /\ at' = <<1, 1>> /\ boots' = boots + 1
  /\ forgot' = FALSE
  /\ keytab' = [n \in Entries |-> None]
  /\ UNCHANGED <<saved, restarts, cut>>

Boot(e) ==
  /\ kdc = "down" /\ boots < MaxBoots /\ Loads(e)
  /\ kdc' = "seeding" /\ env' = e /\ at' = <<1, 1>> /\ boots' = boots + 1
  /\ forgot' = FALSE
  /\ UNCHANGED <<keytab, saved, restarts, cut>>

\* SET takes effect on the entry the loops are at.
EntrySet ==
  /\ kdc = "seeding" /\ ~ Done
  /\ LET realm == REALMS[at[1]]
         name == Name(at[2])
     IN  keytab' = [keytab EXCEPT ![<<name, realm>>] = Configured(env, name, realm)]

Seed ==
  /\ EntrySet
  /\ at' = NextSlot(at)
  /\ UNCHANGED <<saved, restarts, kdc, env, boots, forgot, cut>>

\* Mutant: a failed SET is skipped.
SeedFailsSkipped ==
  /\ kdc = "seeding" /\ ~ Done
  /\ at' = NextSlot(at)
  /\ UNCHANGED <<keytab, saved, restarts, kdc, env, boots, forgot, cut>>

\* SET fails, before or after it took effect: the bootstrap hook rejects, and
\* the process ends before it listens.
SeedFails ==
  /\ kdc = "seeding" /\ ~ Done
  /\ EntrySet \/ UNCHANGED keytab
  /\ kdc' = "down"
  /\ UNCHANGED <<saved, restarts, env, at, boots, forgot, cut>>

\* app.listen() opens the port when the hook has resolved.
Listen ==
  /\ kdc = "seeding" /\ Done
  /\ kdc' = "listening"
  /\ UNCHANGED <<keytab, saved, restarts, env, at, boots, forgot, cut>>

\* The process is stopped, or crashes.
Stop ==
  /\ kdc # "down"
  /\ kdc' = "down"
  /\ UNCHANGED <<keytab, saved, restarts, env, at, boots, forgot, cut>>

\* What registration writes for a user.
Registered(user, realm) == [user |-> user, realm |-> realm]

\* The application service registers a user (UserService.create), under whatever
\* name: the entry may be a principal's or the policy.
Register(user, realm) ==
  /\ keytab' = [keytab EXCEPT ![<<user, realm>>] = Registered(user, realm)]
  /\ UNCHANGED <<saved, restarts, process, forgot, cut>>

\* redis-server --save 20 1 writes a snapshot from time to time ...
Snapshot ==
  /\ restarts < MaxRestarts
  /\ saved' = keytab
  /\ UNCHANGED <<keytab, restarts, process, forgot, cut>>

\* ... and a restart loses what came after the last one.
RedisRestart ==
  /\ restarts < MaxRestarts
  /\ restarts' = restarts + 1
  /\ keytab' = saved
  /\ forgot' = TRUE
  /\ cut' = (cut \/ kdc = "seeding")
  /\ UNCHANGED <<saved, process>>

Next ==
  \/ \E e \in Envs : Boot(e)
  \/ Seed \/ SeedFails \/ Listen \/ Stop
  \/ \E user \in Usernames, realm \in Realms : Register(user, realm)
  \/ Snapshot \/ RedisRestart

Spec == Init /\ [][Next]_vars

\* Redis answers, and the process takes its next step.
FairSpec == Spec /\ WF_vars(Seed \/ Listen)

-----------------------------------------------------------------------------

TypeOK ==
  /\ keytab \in [Entries -> Values]
  /\ saved \in [Entries -> Values]
  /\ restarts \in 0 .. MaxRestarts
  /\ kdc \in {"down", "seeding", "listening"}
  /\ env \in Envs \cup {None}
  /\ at \in (1 .. Len(REALMS) + 1) \X (1 .. Len(PRINCIPALS) + 1)
  /\ boots \in 0 .. MaxBoots
  /\ forgot \in BOOLEAN /\ cut \in BOOLEAN

\* A KDC that listens finds every principal and policy as it is configured,
\* whatever was in Redis before and however its earlier boots ended, unless Redis
\* has restarted since the boot.  The one other thing it may find there is the key
\* of a user of that very name: registration writes into the same namespace.
ListeningMeansSeeded ==
  kdc = "listening" /\ ~ forgot =>
    \A name \in SeederNames, realm \in Realms :
      \/ keytab[<<name, realm>>] = Configured(env, name, realm)
      \/ name \in Usernames /\ keytab[<<name, realm>>] = Registered(name, realm)

\* A realm that has its policy has an entry for each of its principals, in Redis
\* and in what a snapshot brings back, unless Redis restarted under a running
\* seeder: the policy is written last.  A user's key under the name interval is
\* no policy, and comes without the principals.
PolicyMeansPrincipals ==
  ~ cut =>
    \A realm \in Realms, principal \in Principals :
      keytab[<<"interval", realm>>] = Interval => keytab[<<principal, realm>>] # None

\* A user's key stays, whatever boots with whatever keys and whoever else
\* registers, until Redis restarts.  The exception is the user whose name is the
\* KDC's: a KDC that is seeding puts what it is configured with in the key's place.
UsersKept ==
  [][restarts' = restarts =>
       \A user \in Usernames, realm \in Realms :
         keytab[<<user, realm>>] = Registered(user, realm) =>
           \/ keytab'[<<user, realm>>] = Registered(user, realm)
           \/ /\ kdc = "seeding" /\ user \in SeederNames
              /\ keytab'[<<user, realm>>] = Configured(env, user, realm)]_vars

\* Seeding comes to an end: the KDC listens or its process is gone.
SeedingEnds == kdc = "seeding" ~> kdc # "seeding"

\* keytab.seeder.ts, "The KDC is the single writer": a principal's entry holds
\* what some boot of the KDC configured.  (Not so when a user registers under a
\* principal's name: see the run keytab_writers; the policy's entry fares no
\* better when one registers under the name interval.)
PrincipalsAsConfigured ==
  \A principal \in Principals, realm \in Realms :
    keytab[<<principal, realm>>] \in SeededKey \cup {None}
=============================================================================
