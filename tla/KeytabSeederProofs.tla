-------------------------- MODULE KeytabSeederProofs --------------------------
(***************************************************************************)
(* KeytabSeeder, proved for any realms, any principals, any usernames,     *)
(* those of the KDC's own entries included, and any number of boots and of *)
(* restarts of Redis: what the seeder's two loops leave behind.  One       *)
(* theorem, and not the invariant, assumes that nobody registers under the *)
(* name of a principal.                                                    *)
(***************************************************************************)
EXTENDS KeytabSeeder, TLAPS

\* The loops have been at the i-th realm's j-th slot since the boot.
Passed(i, j) == i < at[1] \/ (i = at[1] /\ j < at[2])

Slots == 1 .. Len(PRINCIPALS) + 1

\* The process runs on an environment that loaded, and listens once both loops
\* have come to their end.
Running ==
  /\ kdc # "down" => env \in Envs
  /\ kdc = "listening" => Done

\* What the loops have passed holds what this boot configures, or the key of the
\* user who has registered under that name, until Redis restarts.
SeededSoFar ==
  kdc # "down" /\ ~ forgot =>
    \A i \in 1 .. Len(REALMS), j \in Slots :
      Passed(i, j) =>
        \/ keytab[<<Name(j), REALMS[i]>>] = Configured(env, Name(j), REALMS[i])
        \/ /\ Name(j) \in Usernames
           /\ keytab[<<Name(j), REALMS[i]>>] = Registered(Name(j), REALMS[i])

\* In a store, a realm with a policy has all its principals.
PolicyLast(store) ==
  \A realm \in Realms, principal \in Principals :
    store[<<"interval", realm>>] = Interval => store[<<principal, realm>>] # None

\* The seeder writes a realm's policy when its principals are all there, and a
\* snapshot keeps the order.
PolicyFollows ==
  ~ cut =>
    /\ PolicyLast(keytab) /\ PolicyLast(saved)
    /\ kdc = "seeding" =>
         \A i \in 1 .. Len(REALMS), j \in 1 .. Len(PRINCIPALS) :
           Passed(i, j) => keytab[<<PRINCIPALS[j], REALMS[i]>>] # None

\* In a store, the entry of a principal that is no user's name holds what the
\* seeder writes.
OwnersOf(store) ==
  \A realm \in Realms, principal \in Principals \ Usernames :
    store[<<principal, realm>>] \in SeededKey \cup {None}

Owners == OwnersOf(keytab) /\ OwnersOf(saved)

Inv ==
  /\ TypeOK
  /\ Running
  /\ SeededSoFar
  /\ PolicyFollows
  /\ Owners

USE KeytabSeederAssumption

\* The slots of a realm are its principals and, last, its policy.
LEMMA NameOfSlot ==
  /\ \A i \in 1 .. Len(REALMS) : REALMS[i] \in Realms
  /\ \A j \in 1 .. Len(PRINCIPALS) : Name(j) = PRINCIPALS[j] /\ Name(j) \in Principals
  /\ Name(Len(PRINCIPALS) + 1) = "interval"
  /\ \A j \in Slots : Name(j) \in SeederNames
  /\ \A name \in SeederNames : \E j \in Slots : Name(j) = name
BY DEF Name, Slots, SeederNames, Principals, Realms, Elements

\* What an environment configures is a value, never the absence of one, and a
\* principal's is a key.
LEMMA ConfiguredType ==
  ASSUME NEW e \in Envs, NEW name \in SeederNames, NEW realm \in Realms
  PROVE  /\ Configured(e, name, realm) \in Values \ {None}
         /\ name \in Principals => Configured(e, name, realm) \in SeededKey
BY DEF Configured, Values, SeededKey, SeederNames

\* What SET writes where the loops are.
LEMMA EntrySetFacts ==
  ASSUME Inv, EntrySet
  PROVE  \E i \in 1 .. Len(REALMS), j \in Slots :
           /\ at = <<i, j>>
           /\ <<Name(j), REALMS[i]>> \in Entries
           /\ keytab' = [keytab EXCEPT ![<<Name(j), REALMS[i]>>] =
                           Configured(env, Name(j), REALMS[i])]
           /\ Configured(env, Name(j), REALMS[i]) \in Values \ {None}
           /\ Name(j) \in Principals => Configured(env, Name(j), REALMS[i]) \in SeededKey
<1>1. PICK i \in 1 .. Len(REALMS) + 1, j \in Slots : at = <<i, j>>
  BY DEF Inv, TypeOK, Slots
<1>2. i \in 1 .. Len(REALMS)
  BY <1>1 DEF EntrySet, Done
<1>3. Name(j) \in SeederNames /\ REALMS[i] \in Realms /\ env \in Envs
  BY <1>2, NameOfSlot DEF EntrySet, Inv, Running
<1>4. QED
  BY <1>1, <1>2, <1>3, ConfiguredType DEF EntrySet, Entries

\* The loops move on by one slot.
LEMMA NextSlotFacts ==
  ASSUME NEW i \in 1 .. Len(REALMS), NEW j \in Slots, at = <<i, j>>, at' = NextSlot(at)
  PROVE  /\ at' \in (1 .. Len(REALMS) + 1) \X Slots
         /\ \A k \in 1 .. Len(REALMS), l \in Slots :
              Passed(k, l)' => Passed(k, l) \/ (k = i /\ l = j)
BY DEF NextSlot, Passed, Slots

\* SET keeps what a store is: it writes no None, under a principal's name a key
\* from an environment, and a policy only when its principals are there.
LEMMA EntrySetKeeps ==
  ASSUME Inv, EntrySet, kdc = "seeding"
  PROVE  /\ keytab' \in [Entries -> Values]
         /\ \A n \in Entries : keytab[n] # None => keytab'[n] # None
         /\ OwnersOf(keytab)'
         /\ ~ cut => PolicyLast(keytab)'
<1>1. PICK i \in 1 .. Len(REALMS), j \in Slots :
        /\ at = <<i, j>>
        /\ <<Name(j), REALMS[i]>> \in Entries
        /\ keytab' = [keytab EXCEPT ![<<Name(j), REALMS[i]>>] =
                        Configured(env, Name(j), REALMS[i])]
        /\ Configured(env, Name(j), REALMS[i]) \in Values \ {None}
        /\ Name(j) \in Principals => Configured(env, Name(j), REALMS[i]) \in SeededKey
  BY EntrySetFacts
<1>2. keytab' \in [Entries -> Values]
  BY <1>1 DEF Inv, TypeOK
<1>3. \A n \in Entries : keytab[n] # None => keytab'[n] # None
  BY <1>1 DEF Inv, TypeOK
<1>4. OwnersOf(keytab)'
  <2>1. Name(j) \in SeederNames
    BY NameOfSlot
  <2>2. QED
    BY <1>1, <2>1 DEF Inv, TypeOK, Owners, OwnersOf, Entries, SeederNames
<1>5. ASSUME ~ cut, NEW realm \in Realms, NEW principal \in Principals,
             keytab'[<<"interval", realm>>] = Interval
      PROVE  keytab'[<<principal, realm>>] # None
  <2>1. <<principal, realm>> \in Entries /\ <<"interval", realm>> \in Entries
    BY DEF Entries, SeederNames
  <2>2. CASE keytab[<<"interval", realm>>] = Interval
    BY <1>3, <1>5, <2>1, <2>2 DEF Inv, PolicyFollows, PolicyLast
  <2>3. CASE keytab[<<"interval", realm>>] # Interval
    <3>1. Name(j) = "interval" /\ REALMS[i] = realm
      BY <1>1, <1>5, <2>1, <2>3 DEF Inv, TypeOK
    <3>2. j = Len(PRINCIPALS) + 1
      BY <3>1, NameOfSlot DEF Slots
    <3>3. PICK l \in 1 .. Len(PRINCIPALS) : PRINCIPALS[l] = principal
      BY DEF Principals, Elements
    <3>4. Passed(i, l)
      BY <1>1, <3>2 DEF Passed
    <3>5. keytab[<<principal, realm>>] # None
      BY <1>5, <3>1, <3>3, <3>4 DEF Inv, PolicyFollows
    <3>6. QED
      BY <1>3, <2>1, <3>5
  <2>4. QED
    BY <2>2, <2>3
<1>6. QED
  BY <1>2, <1>3, <1>4, <1>5 DEF PolicyLast

\* The KDC boots: the loops have passed nothing.
LEMMA BootKeepsInv ==
  ASSUME Inv, NEW e \in Envs, Boot(e)
  PROVE  Inv'
<1>1. <<1, 1>> \in (1 .. Len(REALMS) + 1) \X (1 .. Len(PRINCIPALS) + 1)
  OBVIOUS
<1>2. /\ at' = <<1, 1>> /\ kdc' = "seeding" /\ env' = e /\ boots' \in 0 .. MaxBoots
      /\ forgot' = FALSE
      /\ UNCHANGED <<keytab, saved, restarts, cut>>
  BY DEF Boot, Inv, TypeOK
<1>3. \A i \in 1 .. Len(REALMS), j \in Slots : ~ Passed(i, j)'
  BY <1>2 DEF Passed, Slots
<1>4. SeededSoFar'
  BY <1>3 DEF SeededSoFar
<1>5. PolicyFollows' /\ Owners'
  BY <1>2, <1>3 DEF Inv, PolicyFollows, PolicyLast, Owners, OwnersOf, Slots
<1>6. TypeOK' /\ Running'
  BY <1>1, <1>2 DEF Inv, TypeOK, Running
<1>7. QED
  BY <1>4, <1>5, <1>6 DEF Inv

\* The seeder sets an entry and moves on to the next slot.
LEMMA SeedKeepsInv ==
  ASSUME Inv, Seed
  PROVE  Inv'
<1>1. PICK i \in 1 .. Len(REALMS), j \in Slots :
        /\ at = <<i, j>>
        /\ <<Name(j), REALMS[i]>> \in Entries
        /\ keytab' = [keytab EXCEPT ![<<Name(j), REALMS[i]>>] =
                        Configured(env, Name(j), REALMS[i])]
        /\ Configured(env, Name(j), REALMS[i]) \in Values \ {None}
  BY EntrySetFacts DEF Seed
<1>2. /\ kdc = "seeding" /\ at' = NextSlot(at)
      /\ UNCHANGED <<saved, restarts, kdc, env, boots, forgot, cut>>
  BY DEF Seed, EntrySet
<1>3. /\ at' \in (1 .. Len(REALMS) + 1) \X Slots
      /\ \A k \in 1 .. Len(REALMS), l \in Slots :
           Passed(k, l)' => Passed(k, l) \/ (k = i /\ l = j)
  BY <1>1, <1>2, NextSlotFacts
<1>4. /\ keytab' \in [Entries -> Values]
      /\ \A n \in Entries : keytab[n] # None => keytab'[n] # None
      /\ OwnersOf(keytab)'
      /\ ~ cut => PolicyLast(keytab)'
  BY <1>2, EntrySetKeeps DEF Seed
<1>5. TypeOK' /\ Running'
  BY <1>2, <1>3, <1>4 DEF Inv, TypeOK, Running, Slots
<1>6. SeededSoFar'
  <2> SUFFICES ASSUME ~ forgot, NEW k \in 1 .. Len(REALMS), NEW l \in Slots,
                      Passed(k, l)'
               PROVE  \/ keytab'[<<Name(l), REALMS[k]>>] = Configured(env, Name(l), REALMS[k])
                      \/ /\ Name(l) \in Usernames
                         /\ keytab'[<<Name(l), REALMS[k]>>] = Registered(Name(l), REALMS[k])
    BY <1>2 DEF SeededSoFar, Configured, Registered
  <2>1. <<Name(l), REALMS[k]>> \in Entries
    BY NameOfSlot DEF Entries
  <2>2. CASE <<Name(l), REALMS[k]>> = <<Name(j), REALMS[i]>>
    BY <1>1, <2>1, <2>2 DEF Inv, TypeOK
  <2>3. CASE <<Name(l), REALMS[k]>> # <<Name(j), REALMS[i]>>
    <3>1. Passed(k, l)
      BY <1>3, <2>3
    <3>2. QED
      BY <1>1, <1>2, <2>1, <2>3, <3>1 DEF Inv, TypeOK, SeededSoFar
  <2>4. QED
    BY <2>2, <2>3
<1>7. PolicyFollows'
  <2>1. ASSUME ~ cut, NEW k \in 1 .. Len(REALMS), NEW l \in 1 .. Len(PRINCIPALS), Passed(k, l)'
        PROVE  keytab'[<<PRINCIPALS[l], REALMS[k]>>] # None
    <3>1. l \in Slots /\ Name(l) = PRINCIPALS[l] /\ <<PRINCIPALS[l], REALMS[k]>> \in Entries
      BY NameOfSlot DEF Slots, Entries
    <3>2. CASE Passed(k, l)
      BY <1>2, <1>4, <2>1, <3>1, <3>2 DEF Inv, PolicyFollows
    <3>3. CASE k = i /\ l = j
      BY <1>1, <3>1, <3>3 DEF Inv, TypeOK
    <3>4. QED
      BY <1>3, <2>1, <3>1, <3>2, <3>3
  <2>2. QED
    BY <1>2, <1>4, <2>1 DEF Inv, PolicyFollows, PolicyLast
<1>8. QED
  BY <1>2, <1>4, <1>5, <1>6, <1>7 DEF Inv, Owners, OwnersOf

\* The process ends, with or without an entry set that it does not know of, or
\* opens its port.
LEMMA ProcessKeepsInv ==
  ASSUME Inv, SeedFails \/ Listen \/ Stop
  PROVE  Inv'
<1>1. CASE Listen \/ Stop \/ (SeedFails /\ UNCHANGED keytab)
  <2>1. /\ UNCHANGED <<keytab, saved, restarts, env, at, boots, forgot, cut>>
        /\ kdc' = "down" \/ (kdc = "seeding" /\ Done /\ kdc' = "listening")
    BY <1>1 DEF Listen, Stop, SeedFails
  <2>2. TypeOK' /\ Running'
    BY <2>1 DEF Inv, TypeOK, Running, Done
  <2>3. SeededSoFar' /\ PolicyFollows' /\ Owners'
    BY <2>1 DEF Inv, SeededSoFar, Passed, PolicyFollows, PolicyLast, Owners, OwnersOf
  <2>4. QED
    BY <2>2, <2>3 DEF Inv
<1>2. CASE SeedFails /\ EntrySet
  <2>1. kdc = "seeding" /\ kdc' = "down" /\ UNCHANGED <<saved, restarts, env, at, boots, forgot, cut>>
    BY <1>2 DEF SeedFails
  <2>2. keytab' \in [Entries -> Values] /\ OwnersOf(keytab)' /\ (~ cut => PolicyLast(keytab)')
    BY <1>2, <2>1, EntrySetKeeps
  <2>3. QED
    BY <2>1, <2>2 DEF Inv, TypeOK, Running, SeededSoFar, PolicyFollows, PolicyLast, Owners, OwnersOf
<1>3. QED
  BY <1>1, <1>2 DEF SeedFails

\* A registration writes the entry of its user, whosever else it is.
LEMMA RegisterKeepsInv ==
  ASSUME Inv, NEW user \in Usernames, NEW realm \in Realms, Register(user, realm)
  PROVE  Inv'
<1>1. /\ keytab' = [keytab EXCEPT ![<<user, realm>>] = Registered(user, realm)]
      /\ UNCHANGED <<saved, restarts, kdc, env, at, boots, forgot, cut>>
  BY DEF Register, process
<1>2. /\ <<user, realm>> \in Entries
      /\ Registered(user, realm) \in UserKey
      /\ Registered(user, realm) \notin {None, Interval}
  BY DEF Entries, UserKey, Registered
<1>3. \A n \in Entries : keytab[n] # None => keytab'[n] # None
  BY <1>1, <1>2 DEF Inv, TypeOK
<1>4. \A name \in SeederNames, r \in Realms :
        /\ <<name, r>> \in Entries
        /\ \/ keytab'[<<name, r>>] = keytab[<<name, r>>]
           \/ /\ name = user /\ r = realm
              /\ keytab'[<<name, r>>] = Registered(name, r)
  BY <1>1, <1>2 DEF Inv, TypeOK, Entries
<1>5. TypeOK' /\ Running'
  BY <1>1, <1>2 DEF Inv, TypeOK, Running, Values, Done
<1>6. SeededSoFar'
  BY <1>1, <1>4, NameOfSlot DEF Inv, SeededSoFar, Passed, Configured, Registered
<1>7. PolicyFollows'
  <2>1. ~ cut => PolicyLast(keytab)'
    <3>1. "interval" \in SeederNames /\ Principals \subseteq SeederNames
      BY DEF SeederNames
    <3>2. ASSUME NEW r \in Realms, keytab'[<<"interval", r>>] = Interval
          PROVE  keytab[<<"interval", r>>] = Interval
      BY <1>2, <1>4, <3>1, <3>2
    <3>3. QED
      BY <1>3, <1>4, <3>1, <3>2 DEF Inv, PolicyFollows, PolicyLast
  <2>2. ~ cut /\ kdc = "seeding" =>
          \A i \in 1 .. Len(REALMS), j \in 1 .. Len(PRINCIPALS) :
            Passed(i, j) => keytab'[<<PRINCIPALS[j], REALMS[i]>>] # None
    BY <1>3, <1>4, NameOfSlot DEF Inv, PolicyFollows, SeederNames
  <2>3. QED
    BY <1>1, <2>1, <2>2 DEF Inv, PolicyFollows, PolicyLast, Passed
<1>8. OwnersOf(keytab)'
  BY <1>4 DEF Inv, Owners, OwnersOf, SeederNames
<1>9. QED
  BY <1>1, <1>5, <1>6, <1>7, <1>8 DEF Inv, Owners, OwnersOf

\* A snapshot is of a keytab that keeps the order, and so is what a restart
\* brings back.
LEMMA RedisKeepsInv ==
  ASSUME Inv, Snapshot \/ RedisRestart
  PROVE  Inv'
<1>1. TypeOK' /\ Running'
  <2>1. /\ forgot' \in BOOLEAN /\ cut' \in BOOLEAN
        /\ UNCHANGED <<kdc, env, at, boots>>
    BY DEF Inv, TypeOK, Snapshot, RedisRestart, process
  <2>2. /\ keytab' \in [Entries -> Values] /\ saved' \in [Entries -> Values]
        /\ restarts' \in 0 .. MaxRestarts
    BY DEF Inv, TypeOK, Snapshot, RedisRestart
  <2>3. QED
    BY <2>1, <2>2 DEF Inv, TypeOK, Running, Done
<1>2. SeededSoFar'
  BY DEF Inv, SeededSoFar, Passed, Snapshot, RedisRestart, process
<1>3. PolicyFollows' /\ Owners'
  <2>1. CASE Snapshot
    BY <2>1 DEF Inv, PolicyFollows, PolicyLast, Passed, Owners, OwnersOf, Snapshot, process
  <2>2. CASE RedisRestart
    BY <2>2 DEF Inv, TypeOK, PolicyFollows, PolicyLast, Owners, OwnersOf, RedisRestart, process
  <2>3. QED
    BY <2>1, <2>2
<1>4. QED
  BY <1>1, <1>2, <1>3 DEF Inv

LEMMA InitInv == Init => Inv
<1> SUFFICES ASSUME Init
             PROVE  Inv
  OBVIOUS
<1>1. <<1, 1>> \in (1 .. Len(REALMS) + 1) \X (1 .. Len(PRINCIPALS) + 1)
  OBVIOUS
<1>2. TypeOK
  <2>1. keytab \in [Entries -> Values] /\ saved \in [Entries -> Values]
    BY DEF Init, Values
  <2>2. forgot \in BOOLEAN /\ cut \in BOOLEAN
    BY DEF Init
  <2>3. QED
    BY <1>1, <2>1, <2>2 DEF Init, TypeOK
<1>3. \A n \in (SeederNames \cup Usernames) \X Realms :
        keytab[n] = None /\ saved[n] = None
  BY DEF Init, Entries
<1>4. QED
  BY <1>2, <1>3 DEF Init, Inv, Running, SeederNames, SeededSoFar, PolicyFollows, PolicyLast, Owners, OwnersOf

LEMMA NextKeepsInv == Inv /\ [Next]_vars => Inv'
<1> SUFFICES ASSUME Inv, [Next]_vars
             PROVE  Inv'
  OBVIOUS
<1>1. CASE Next
  BY <1>1, BootKeepsInv, SeedKeepsInv, ProcessKeepsInv, RegisterKeepsInv, RedisKeepsInv DEF Next
<1>2. CASE UNCHANGED vars
  BY <1>2 DEF vars, process, Inv, TypeOK, Running, Done, SeededSoFar, Passed, PolicyFollows,
     PolicyLast, Owners, OwnersOf
<1>3. QED
  BY <1>1, <1>2

\* The invariant holds in every reachable state.
THEOREM Invariance == Spec => []Inv
BY InitInv, NextKeepsInv, PTL DEF Spec

\* The seeder's state, and what is in Redis, keep their types.
THEOREM TypeCorrect == Spec => []TypeOK
<1>1. Inv => TypeOK
  BY DEF Inv
<1>2. QED
  BY <1>1, Invariance, PTL

\* A KDC that listens finds every principal and policy as it is configured, or
\* the key of a user of that name, until Redis restarts (onApplicationBootstrap
\* before listen; UserService.create at any time, under any name).
THEOREM ListeningMeansSeededHolds == Spec => []ListeningMeansSeeded
<1>1. Inv => ListeningMeansSeeded
  <2> SUFFICES ASSUME Inv, kdc = "listening", ~ forgot,
                      NEW name \in SeederNames, NEW realm \in Realms
               PROVE  \/ keytab[<<name, realm>>] = Configured(env, name, realm)
                      \/ name \in Usernames /\ keytab[<<name, realm>>] = Registered(name, realm)
    BY DEF ListeningMeansSeeded
  <2>1. PICK i \in 1 .. Len(REALMS) : REALMS[i] = realm
    BY DEF Realms, Elements
  <2>2. PICK j \in Slots : Name(j) = name
    BY NameOfSlot
  <2>3. Passed(i, j)
    BY DEF Inv, Running, Done, Passed, TypeOK
  <2>4. QED
    BY <2>1, <2>2, <2>3 DEF Inv, SeededSoFar
<1>2. QED
  BY <1>1, Invariance, PTL

\* A realm with its policy has all its principals, unless Redis restarted under
\* a running seeder (the policy is the last SET of a realm), whoever registers
\* under whatever name.
THEOREM PolicyMeansPrincipalsHolds == Spec => []PolicyMeansPrincipals
<1>1. Inv => PolicyMeansPrincipals
  BY DEF Inv, PolicyFollows, PolicyLast, PolicyMeansPrincipals
<1>2. QED
  BY <1>1, Invariance, PTL

\* "The KDC is the single writer" of the principals' entries, on the condition
\* that the run keytab_writers shows the code not to enforce: no user registers
\* under the name of a principal.
THEOREM PrincipalsAsConfiguredHolds ==
  ASSUME Usernames \cap Principals = {}
  PROVE  Spec => []PrincipalsAsConfigured
<1>1. Inv => PrincipalsAsConfigured
  BY DEF Inv, Owners, OwnersOf, PrincipalsAsConfigured
<1>2. QED
  BY <1>1, Invariance, PTL

\* No boot, no seeding and no other registration takes a user's key away, but
\* the seeder that writes the entry of that very name (onApplicationBootstrap).
THEOREM UsersKeptHolds == Spec => UsersKept
<1>1. Inv /\ [Next]_vars =>
        [restarts' = restarts =>
           \A user \in Usernames, realm \in Realms :
             keytab[<<user, realm>>] = Registered(user, realm) =>
               \/ keytab'[<<user, realm>>] = Registered(user, realm)
               \/ /\ kdc = "seeding" /\ user \in SeederNames
                  /\ keytab'[<<user, realm>>] = Configured(env, user, realm)]_vars
  <2> SUFFICES ASSUME Inv, Next, restarts' = restarts,
                      NEW user \in Usernames, NEW realm \in Realms,
                      keytab[<<user, realm>>] = Registered(user, realm)
               PROVE  \/ keytab'[<<user, realm>>] = Registered(user, realm)
                      \/ /\ kdc = "seeding" /\ user \in SeederNames
                         /\ keytab'[<<user, realm>>] = Configured(env, user, realm)
    OBVIOUS
  <2>1. <<user, realm>> \in Entries
    BY DEF Entries
  <2>2. CASE EntrySet
    <3>1. PICK i \in 1 .. Len(REALMS), j \in Slots :
            keytab' = [keytab EXCEPT ![<<Name(j), REALMS[i]>>] =
                         Configured(env, Name(j), REALMS[i])]
      BY <2>2, EntrySetFacts
    <3>2. Name(j) \in SeederNames /\ kdc = "seeding"
      BY <2>2, NameOfSlot DEF EntrySet
    <3>3. QED
      BY <2>1, <3>1, <3>2 DEF Inv, TypeOK
  <2>3. ASSUME NEW u \in Usernames, NEW r \in Realms, Register(u, r)
        PROVE  keytab'[<<user, realm>>] = Registered(user, realm)
    BY <2>1, <2>3 DEF Inv, TypeOK, Register
  <2>4. EntrySet \/ UNCHANGED keytab \/ \E u \in Usernames, r \in Realms : Register(u, r)
    BY DEF Inv, TypeOK, Next, Boot, Seed, SeedFails, Listen, Stop, Snapshot, RedisRestart
  <2>5. QED
    BY <2>2, <2>3, <2>4
<1>2. QED
  BY <1>1, Invariance, PTL DEF Spec, UsersKept
=============================================================================
