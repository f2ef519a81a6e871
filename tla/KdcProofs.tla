------------------------------- MODULE KdcProofs -------------------------------
(***************************************************************************)
(* The KDC, proved for any number of requests, any principals, users and   *)
(* realms, any policy and SKEW_MS, and any number of restarts: its type    *)
(* invariant, that a ticket goes back to a pre-authentication by the user  *)
(* it names however long its chain, that it never outlives the TGT at the  *)
(* start of the chain and falls short of the policy's minimum only with    *)
(* its TGT, and that a recorded authenticator leads to a ticket.           *)
(***************************************************************************)
EXTENDS Kdc, TLAPS

Shaping == {"shape.ticketKey", "shape.interval"}

IsAs(r) == input[r] \in AsInput
IsTgs(r) == input[r] \in TgsInput

\* What is known of request r at each point of its way.

\* The input is of the exchange its commands belong to, and names a target once
\* that has been looked up.
Arrived(r) ==
  /\ pc[r] # "idle" => IsAs(r) \/ IsTgs(r)
  /\ pc[r] \in {"as.userKey", "as.serviceKey"} => IsAs(r)
  /\ pc[r] \in {"tgs.target", "tgs.tgsKey", "tgs.replay"} => IsTgs(r)
  /\ pc[r] \in {"tgs.tgsKey", "tgs.replay"} \cup Shaping /\ IsTgs(r) => input[r].id # None

\* It has a status once it is done, and a reply when that is "Ok".
Responded(r) ==
  /\ pc[r] = "done" <=> status[r] # "Pending"
  /\ status[r] = "Ok" <=> reply[r] # None

\* What was read from Redis before the last await is what is written there.
KeysRead(r) ==
  /\ pc[r] = "as.serviceKey" =>
       userKey[r] \in {None, PrincipalKey(input[r].username, input[r].realm)}
  /\ pc[r] \in Shaping /\ IsAs(r) =>
       userKey[r] = PrincipalKey(input[r].username, input[r].realm)
  /\ pc[r] = "shape.interval" =>
       ticketKey[r] = Seeded(Principal(r), input[r].realm)

\* Whoever posts a TGS request presents a ticket that was issued.
Presented(r) ==
  pc[r] # "idle" /\ IsTgs(r) =>
    \E q \in Requests : reply[q] # None /\ input[r].tgt = reply[q].ticket

\* What the AS has established about a request it lets pass ...
PassedAs(r) ==
  /\ root[r] = r
  /\ Opens(input[r].preAuth, PrincipalKey(input[r].username, input[r].realm))
  /\ input[r].preAuth.payload.username = input[r].username
  /\ WithinSkew(input[r].preAuth.payload.timestamp, checkedAt[r])

\* ... and the TGS.
PassedTgs(r) ==
  /\ Opens(input[r].tgt, PrincipalKey(TGS_PRINCIPAL, input[r].realm))
  /\ Tgt(r).ip = input[r].ip
  /\ Tgt(r).username = Auth(r).username
  /\ root[r] = root[Tgt(r).sessionKey.session]

Passed(r) ==
  /\ pc[r] \in Shaping /\ IsAs(r) => PassedAs(r)
  /\ pc[r] \in {"tgs.replay"} \cup Shaping /\ IsTgs(r) => PassedTgs(r)

\* How a request ends that has been recorded.
EndsWell(r) ==
  \/ status[r] = "Failed"
  \/ status[r] = "Ok" /\ input[r].id # "interval"
  \/ status[r] = "InternalError" /\ (input[r].id = "interval" \/ restarts # 0)
  \/ status[r] = "NotFound" /\ restarts # 0

\* A recorded request is a TGS request on its way to shape() or past it.  Until
\* something restarts its target stays in the keytab, so that only a target
\* that is no principal can still be refused.
RecordedLeads(r) ==
  /\ setAt[r] # 0 => pc[r] \in Shaping \cup {"done"} /\ IsTgs(r)
  /\ restarts = 0 /\ pc[r] \in {"tgs.tgsKey", "tgs.replay"} \cup Shaping /\ IsTgs(r)
       => Entry(input[r].id, input[r].realm) # None
  /\ setAt[r] # 0 /\ pc[r] = "done" => EndsWell(r)

Sound(r) ==
  /\ Arrived(r)
  /\ Responded(r)
  /\ KeysRead(r)
  /\ Presented(r)
  /\ Passed(r)
  /\ RecordedLeads(r)

\* Redis holds, under each name, what seeding or registration writes there.
AsWritten(store) == \A e \in Names \X Realms : store[e] \in {None, Seeded(e[1], e[2])}

KeytabAsWritten ==
  /\ AsWritten(keytab) /\ AsWritten(saved.keytab)
  /\ restarts = 0 => keytab = FullKeytab

\* A ticket carries the session key of the request it answers and is sealed
\* under the key of the principal it names.
Minted ==
  \A r \in Requests :
    status[r] = "Ok" =>
      /\ Issued(r).sessionKey = SessionKey(r)
      /\ reply[r].ticket.key = PrincipalKey(Issued(r).principal, input[r].realm)
      /\ root[r] \in Requests

Inv ==
  /\ TypeOK
  /\ KeytabAsWritten
  /\ \A r \in Requests : Sound(r)
  /\ Minted
  /\ TracesToPreAuthentication
  /\ WithinGrant
  /\ ShortOnlyWithTgt

\* A step leaves request q as it is.
Unmoved(q) ==
  UNCHANGED <<pc[q], input[q], userKey[q], ticketKey[q], reply[q], status[q],
              checkedAt[q], setAt[q], mintedAt[q], root[q]>>

USE SkewAssumption, KdcAssumption

-----------------------------------------------------------------------------
(* The data: inputs, keys and entries of the keytab. *)

LEMMA AsInputType ==
  ASSUME NEW i \in AsInput
  PROVE  /\ i.exchange = "AS" /\ i \notin TgsInput
         /\ i.realm \in Realms /\ i.ip \in Ips /\ i.username \in Users
         /\ i.username \in Names /\ i.requestedLifetime \in Nat
         /\ i.preAuth.payload \in Authenticator
BY DEF AsInput, TgsInput, Names, Sealed

LEMMA TgsInputType ==
  ASSUME NEW i \in TgsInput
  PROVE  /\ i.exchange = "TGS" /\ i \notin AsInput
         /\ i.realm \in Realms /\ i.ip \in Ips
         /\ i.id \in Names \cup {None} /\ i.requestedLifetime \in Nat
         /\ i.tgt \in Sealed(Ticket) /\ i.tgt.payload \in Ticket
         /\ i.authenticator.payload \in Authenticator
         /\ i.authenticator.payload.username \in Users
         /\ i.authenticator.payload.timestamp \in Timestamps
BY DEF AsInput, TgsInput, Names, Sealed, Authenticator

LEMMA TicketType ==
  ASSUME NEW t \in Ticket
  PROVE  /\ t.principal \in Names /\ t.lifetime \in Nat
         /\ t.sessionKey \in SessionKeys
         /\ t.username \in Users /\ t.ip \in Ips
BY DEF Ticket

LEMMA KeyTypes ==
  ASSUME NEW name \in Principals \cup Users, NEW realm \in Realms
  PROVE  /\ PrincipalKey(name, realm) \in Keys
         /\ PrincipalKey(name, realm) # None
         /\ Seeded(name, realm) = PrincipalKey(name, realm)
         /\ name \in Names
<1>1. name # "interval"
  OBVIOUS
<1>2. QED
  BY <1>1 DEF PrincipalKey, Keys, Seeded, Names

\* encrypt() rejects the policy's entry because it is no key.
LEMMA IntervalIsNoKey ==
  /\ LifetimeInterval \notin Keys
  /\ LifetimeInterval # None
  /\ "interval" \in Names
<1>1. DOMAIN LifetimeInterval = {"min", "max"}
  OBVIOUS
<1>2. \A k \in Keys : "min" \notin DOMAIN k
  BY DEF Keys, SessionKeys, SessionKey
<1>3. QED
  BY <1>1, <1>2 DEF Names

\* Two principals' keys are equal only for one principal in one realm.
LEMMA KeysDiffer ==
  ASSUME NEW m, NEW n, NEW a, NEW b, PrincipalKey(m, a) = PrincipalKey(n, b)
  PROVE  m = n /\ a = b
BY DEF PrincipalKey

LEMMA SessionKeyTypes ==
  /\ \A r \in Requests : SessionKey(r) \in SessionKeys /\ SessionKey(r).session = r
  /\ SessionKeys \subseteq Keys
  /\ \A k \in SessionKeys : k.session \in Requests
BY DEF SessionKeys, SessionKey, Keys

\* An entry found in the keytab is what was written there.
LEMMA EntryAsWritten ==
  ASSUME Inv, NEW name \in Names, NEW realm \in Realms
  PROVE  /\ Entry(name, realm) \in {None, Seeded(name, realm)}
         /\ Entry(name, realm) \in Values
         /\ name # "interval" /\ Entry(name, realm) # None =>
              /\ Entry(name, realm) = PrincipalKey(name, realm)
              /\ Entry(name, realm) \in Keys
         /\ Entry("interval", realm) \in {None, LifetimeInterval}
<1>1. <<name, realm>> \in Names \X Realms /\ <<"interval", realm>> \in Names \X Realms
  BY IntervalIsNoKey
<1>2. /\ Entry(name, realm) \in {None, Seeded(name, realm)}
      /\ Entry("interval", realm) \in {None, Seeded("interval", realm)}
      /\ Entry(name, realm) \in Values
  BY <1>1 DEF Inv, KeytabAsWritten, AsWritten, Entry, TypeOK
<1>3. name # "interval" => name \in Principals \cup Users
  BY DEF Names
<1>4. QED
  BY <1>2, <1>3, KeyTypes DEF Seeded

\* A lifetime is clamped to the policy.
LEMMA LifetimeClamped ==
  ASSUME NEW n \in Nat
  PROVE  /\ GetLifetime(n, LifetimeInterval) \in Nat
         /\ GetLifetime(n, LifetimeInterval) <= LifetimeInterval.max
         /\ GetLifetime(n, LifetimeInterval) >= LifetimeInterval.min
BY DEF GetLifetime, Lesser, Greater

-----------------------------------------------------------------------------
(* What a step leaves alone. *)

\* The ticket a TGS request presents is the one issued to the request whose
\* session key it carries.
LEMMA SourceOfTicket ==
  ASSUME Inv, NEW r \in Requests, pc[r] # "idle", IsTgs(r)
  PROVE  LET s == Tgt(r).sessionKey.session
         IN  /\ s \in Requests /\ status[s] = "Ok" /\ reply[s] # None
             /\ input[r].tgt = reply[s].ticket
             /\ Tgt(r) = Issued(s)
<1>1. PICK q \in Requests : reply[q] # None /\ input[r].tgt = reply[q].ticket
  BY DEF Inv, Sound, Presented
<1>2. status[q] = "Ok"
  BY <1>1 DEF Inv, Sound, Responded
<1>3. Tgt(r) = Issued(q) /\ Tgt(r).sessionKey = SessionKey(q)
  BY <1>1, <1>2 DEF Tgt, Issued, Inv, Minted
<1>4. Tgt(r).sessionKey.session = q
  BY <1>3, SessionKeyTypes
<1>5. QED
  BY <1>1, <1>2, <1>3, <1>4

\* Answers that were given stay as they are.
IssuedKept ==
  \A q \in Requests : status[q] = "Ok" => Unmoved(q)

LEMMA UnmovedKeepsSound ==
  ASSUME Inv, IssuedKept, NEW q \in Requests, Unmoved(q),
         restarts' = 0 => restarts = 0 /\ keytab' = keytab
  PROVE  Sound(q)'
<1>1. Arrived(q)' /\ Responded(q)'
  BY DEF Inv, Sound, Arrived, Responded, Unmoved, IsAs, IsTgs
<1>2. KeysRead(q)'
  BY DEF Inv, Sound, KeysRead, Unmoved, IsAs, Principal
<1>3. Presented(q)'
  <2> SUFFICES ASSUME pc[q] # "idle", IsTgs(q)
               PROVE  \E p \in Requests : reply'[p] # None /\ input'[q].tgt = reply'[p].ticket
    BY DEF Presented, Unmoved, IsTgs
  <2>1. PICK p \in Requests : status[p] = "Ok" /\ reply[p] # None /\ input[q].tgt = reply[p].ticket
    BY SourceOfTicket
  <2>2. QED
    BY <2>1 DEF IssuedKept, Unmoved
<1>4. Passed(q)'
  <2>1. CASE pc[q] # "idle" /\ IsTgs(q)
    <3>1. root'[Tgt(q).sessionKey.session] = root[Tgt(q).sessionKey.session]
      BY <2>1, SourceOfTicket DEF IssuedKept, Unmoved
    <3>2. ~ IsAs(q)
      BY <2>1, TgsInputType DEF IsAs, IsTgs
    <3>3. QED
      BY <3>1, <3>2
      DEF Inv, Sound, Passed, PassedTgs, Unmoved, IsAs, IsTgs, Tgt, Auth, Opens
  <2>2. CASE ~ (pc[q] # "idle" /\ IsTgs(q))
    BY <2>2
    DEF Inv, Sound, Passed, PassedAs, Unmoved, IsAs, IsTgs, Opens, WithinSkew, Shaping
  <2>3. QED
    BY <2>1, <2>2
<1>5. RecordedLeads(q)'
  BY DEF Inv, TypeOK, Sound, RecordedLeads, EndsWell, Unmoved, IsTgs, Entry
<1>6. QED
  BY <1>1, <1>2, <1>3, <1>4, <1>5 DEF Sound

\* What is known of the tickets changes only when one is issued.
LEMMA NothingIssued ==
  ASSUME Inv, IssuedKept,
         \A q \in Requests : status'[q] = "Ok" => status[q] = "Ok"
  PROVE  Minted' /\ TracesToPreAuthentication' /\ WithinGrant' /\ ShortOnlyWithTgt'
<1>1. Minted'
  BY DEF Inv, Minted, IssuedKept, Unmoved, Issued
<1>2. TracesToPreAuthentication'
  BY DEF Inv, Minted, TracesToPreAuthentication, IssuedKept, Unmoved, Issued, Tgt, Opens, WithinSkew
<1>3. WithinGrant'
  <2> SUFFICES ASSUME NEW r \in Requests, status[r] = "Ok"
               PROVE  /\ Issued(r)'.lifetime <= Issued(root[r])'.lifetime
                      /\ Issued(r)'.lifetime <= mintedAt'[root'[r]] + LifetimeInterval.max
    BY DEF WithinGrant
  <2>1. root[r] \in Requests /\ status[root[r]] = "Ok"
    BY DEF Inv, Minted, TracesToPreAuthentication
  <2>2. QED
    BY <2>1 DEF Inv, WithinGrant, IssuedKept, Unmoved, Issued
<1>4. ShortOnlyWithTgt'
  BY DEF Inv, ShortOnlyWithTgt, IssuedKept, Unmoved, Issued, Tgt
<1>5. QED
  BY <1>1, <1>2, <1>3, <1>4

\* A step of one request that issues nothing.
LEMMA StepKeepsInv ==
  ASSUME Inv, NEW r \in Requests, status[r] # "Ok", status'[r] # "Ok",
         \A q \in Requests \ {r} : Unmoved(q),
         TypeOK', Sound(r)', UNCHANGED <<keytab, saved, restarts>> \/ UNCHANGED redis
  PROVE  Inv'
<1>1. IssuedKept
  BY DEF IssuedKept
<1>2. UNCHANGED <<keytab, saved, restarts>>
  BY DEF redis
<1>3. \A q \in Requests \ {r} : Sound(q)'
  BY <1>1, <1>2, UnmovedKeepsSound
<1>4. KeytabAsWritten'
  BY <1>2 DEF Inv, KeytabAsWritten, AsWritten
<1>5. \A q \in Requests : status'[q] = "Ok" => status[q] = "Ok"
  BY DEF Unmoved
<1>6. QED
  BY <1>1, <1>3, <1>4, <1>5, NothingIssued DEF Inv

-----------------------------------------------------------------------------
(* The steps of a request that issue no ticket. *)

LEMMA RecordedTypes ==
  ASSUME Inv, NEW r \in Requests, Recorded(r)
  PROVE  setAt' \in [Requests -> Nat] /\ replay' \in [ReplayKeys -> Nat]
<1>1. clock \in Nat /\ clock + SKEW_MS \in Nat
  BY DEF Inv, TypeOK
<1>2. QED
  BY <1>1 DEF Inv, TypeOK, Recorded, SetNX

\* A request is answered with an exception, or fails, recorded or not.
LEMMA RefusalKeepsInv ==
  ASSUME Inv, NEW r \in Requests, NEW code \in Statuses \ {"Ok", "Pending"},
         pc[r] \notin {"idle", "done"}, Answer(r, code),
         UNCHANGED <<clock, input, held, checkedAt, mintedAt, root, lost>>,
         Recorded(r) \/ UNCHANGED <<redis, setAt>>,
         \/ code = "Failed" \/ setAt'[r] = 0
         \/ code = "InternalError" /\ (input[r].id = "interval" \/ restarts # 0)
         \/ code = "NotFound" /\ restarts # 0
  PROVE  Inv'
<1>1. /\ pc' = [pc EXCEPT ![r] = "done"]
      /\ status' = [status EXCEPT ![r] = code]
      /\ UNCHANGED <<keytab, saved, restarts, userKey, ticketKey, reply>>
  BY DEF Answer, Await, Recorded, redis, held
<1>2. setAt' \in [Requests -> Nat] /\ replay' \in [ReplayKeys -> Nat]
  BY RecordedTypes DEF Inv, TypeOK, redis
<1>3. TypeOK'
  BY <1>1, <1>2 DEF Inv, TypeOK, Commands
<1>4. \A q \in Requests \ {r} : Unmoved(q)
  BY <1>1 DEF Inv, TypeOK, Unmoved, Recorded, redis
<1>5. /\ pc'[r] = "done" /\ status'[r] = code
      /\ status[r] = "Pending" /\ reply[r] = None /\ reply'[r] = None
      /\ input'[r] = input[r] /\ (IsAs(r) \/ IsTgs(r)) /\ restarts' = restarts
  BY <1>1 DEF Inv, TypeOK, Sound, Responded, Arrived
<1>6. setAt'[r] # 0 => IsTgs(r)
  BY DEF Inv, Sound, RecordedLeads, Arrived, Recorded
<1>7. Arrived(r)' /\ Responded(r)' /\ KeysRead(r)' /\ Passed(r)'
  BY <1>5 DEF Arrived, Responded, KeysRead, Passed, IsAs, IsTgs, Shaping
<1>8. Presented(r)'
  BY <1>1, <1>5 DEF Inv, Sound, Presented, IsTgs
<1>9. RecordedLeads(r)'
  BY <1>5, <1>6 DEF RecordedLeads, EndsWell, IsTgs, Shaping
<1>10. Sound(r)'
  BY <1>7, <1>8, <1>9 DEF Sound
<1>11. QED
  BY <1>1, <1>3, <1>4, <1>5, <1>10, StepKeepsInv

LEMMA PostAsKeepsInv ==
  ASSUME Inv, NEW r \in Requests, NEW i \in AsInputs, PostAs(r, i)
  PROVE  Inv'
<1>1. /\ pc' = [pc EXCEPT ![r] = "as.userKey"]
      /\ input' = [input EXCEPT ![r] = i] /\ i \in AsInput
      /\ UNCHANGED <<clock, redis, held, status, history>>
  BY DEF PostAs, Await
<1>2. TypeOK'
  BY <1>1 DEF Inv, TypeOK, Commands, redis, held, history
<1>3. \A q \in Requests \ {r} : Unmoved(q)
  BY <1>1 DEF Inv, TypeOK, Unmoved, held, history
<1>4. /\ pc[r] = "idle" /\ pc'[r] = "as.userKey" /\ input'[r] \in AsInput
      /\ input'[r] \notin TgsInput
      /\ status[r] = "Pending" /\ reply[r] = None /\ setAt[r] = 0
      /\ status'[r] = "Pending" /\ reply'[r] = None /\ setAt'[r] = 0
  BY <1>1, AsInputType
  DEF PostAs, Inv, TypeOK, Sound, Responded, RecordedLeads, Shaping, held, history
<1>5. Sound(r)'
  BY <1>4
  DEF Sound, Arrived, Responded, KeysRead, Presented, Passed, RecordedLeads,
      IsAs, IsTgs, Shaping
<1>6. QED
  BY <1>1, <1>2, <1>3, <1>4, <1>5, StepKeepsInv

LEMMA PostTgsKeepsInv ==
  ASSUME Inv, NEW r \in Requests, NEW q \in Requests, NEW p \in Requests,
         NEW c \in TgsInputs, PostTgs(r, q, p, c)
  PROVE  Inv'
<1> DEFINE i ==
      [exchange |-> "TGS", realm |-> c.realm, ip |-> c.ip, id |-> c.id,
       requestedLifetime |-> c.requestedLifetime, tgt |-> reply[q].ticket,
       authenticator |-> Encrypt(c.authenticator, reply[p].challenge.payload.sessionKey)]
<1>1. i \in TgsInput
  <2>1. c \in TgsChoice /\ reply[q] \in Reply /\ reply[p] \in Reply
    BY DEF PostTgs, Inv, TypeOK
  <2>2. reply[q].ticket \in Sealed(Ticket)
    BY <2>1 DEF Reply
  <2>3. reply[p].challenge.payload.sessionKey \in Keys
    BY <2>1, SessionKeyTypes DEF Reply, Sealed, Challenge
  <2>4. Encrypt(c.authenticator, reply[p].challenge.payload.sessionKey)
          \in Sealed(Authenticator)
    BY <2>1, <2>3 DEF Encrypt, Sealed, TgsChoice
  <2>5. QED
    BY <2>1, <2>2, <2>4 DEF TgsInput, TgsChoice
<1>2. /\ pc' = [pc EXCEPT ![r] = "tgs.target"]
      /\ input' = [input EXCEPT ![r] = i]
      /\ UNCHANGED <<clock, redis, held, status, history>>
  BY DEF PostTgs, Await
<1>3. TypeOK'
  BY <1>1, <1>2 DEF Inv, TypeOK, Commands, redis, held, history
<1>4. \A a \in Requests \ {r} : Unmoved(a)
  BY <1>2 DEF Inv, TypeOK, Unmoved, held, history
<1>5. /\ pc[r] = "idle" /\ pc'[r] = "tgs.target"
      /\ input'[r] = i /\ input'[r] \in TgsInput /\ input'[r] \notin AsInput
      /\ status[r] = "Pending" /\ reply[r] = None /\ setAt[r] = 0
      /\ status'[r] = "Pending" /\ reply'[r] = None /\ setAt'[r] = 0
      /\ reply' = reply
  BY <1>1, <1>2, TgsInputType
  DEF PostTgs, Inv, TypeOK, Sound, Responded, RecordedLeads, Shaping, held, history
<1>6. Presented(r)'
  <2>1. input'[r].tgt = reply'[q].ticket /\ reply'[q] # None
    BY <1>5 DEF PostTgs
  <2>2. QED
    BY <2>1 DEF Presented
<1>7. Sound(r)'
  BY <1>5, <1>6
  DEF Sound, Arrived, Responded, KeysRead, Passed, RecordedLeads, IsAs, IsTgs, Shaping
<1>8. QED
  BY <1>2, <1>3, <1>4, <1>5, <1>7, StepKeepsInv

\* A request advances to another await and nothing but its own record changes.
Advances(r, from, to) ==
  /\ pc[r] = from
  /\ Await(r, to)
  /\ UNCHANGED <<keytab, saved, restarts, input, reply, status, mintedAt>>

LEMMA AdvanceFacts ==
  ASSUME Inv, NEW r \in Requests, NEW from, NEW to,
         from \notin {"idle", "done"}, to \notin {"idle", "done"},
         Advances(r, from, to)
  PROVE  /\ pc'[r] = to /\ input'[r] = input[r] /\ status[r] = "Pending"
         /\ status'[r] = "Pending" /\ reply[r] = None /\ reply'[r] = None
         /\ \A q \in Requests \ {r} : pc'[q] = pc[q]
         /\ IsAs(r)' = IsAs(r) /\ IsTgs(r)' = IsTgs(r)
         /\ IsAs(r) \/ IsTgs(r)
         /\ Responded(r)' /\ Presented(r)'
<1>1. /\ pc'[r] = to /\ input' = input /\ reply' = reply /\ status[r] = "Pending"
      /\ status'[r] = "Pending" /\ reply[r] = None /\ reply'[r] = None
      /\ \A q \in Requests \ {r} : pc'[q] = pc[q]
      /\ pc[r] # "idle" /\ (IsAs(r) \/ IsTgs(r))
  BY DEF Advances, Await, Inv, TypeOK, Sound, Responded, Arrived
<1>2. Responded(r)'
  BY <1>1 DEF Responded
<1>3. Presented(r)'
  BY <1>1 DEF Inv, Sound, Presented, IsTgs
<1>4. QED
  BY <1>1, <1>2, <1>3 DEF IsAs, IsTgs

LEMMA GetUserKeyKeepsInv ==
  ASSUME Inv, NEW r \in Requests, GetUserKey(r)
  PROVE  Inv'
<1>1. Advances(r, "as.userKey", "as.serviceKey")
  BY DEF GetUserKey, Advances, redis, history
<1>2. IsAs(r) /\ ~ IsTgs(r)
  BY AsInputType DEF GetUserKey, Inv, Sound, Arrived, IsAs, IsTgs
<1>3. Entry(input[r].username, input[r].realm)
        \in {None, PrincipalKey(input[r].username, input[r].realm)} \cap Values
  BY <1>2, AsInputType, EntryAsWritten, KeyTypes DEF IsAs
<1>4. /\ userKey' = [userKey EXCEPT ![r] = Entry(input[r].username, input[r].realm)]
      /\ UNCHANGED <<clock, redis, input, ticketKey, reply, status, history>>
  BY DEF GetUserKey
<1>5. TypeOK'
  BY <1>1, <1>3, <1>4 DEF Inv, TypeOK, Commands, Advances, Await, redis, history
<1>6. \A q \in Requests \ {r} : Unmoved(q)
  BY <1>1, <1>4, AdvanceFacts DEF Inv, TypeOK, Unmoved, history
<1>7. setAt'[r] = 0 /\ userKey'[r] = Entry(input[r].username, input[r].realm)
  BY <1>4 DEF GetUserKey, Inv, TypeOK, Sound, RecordedLeads, Shaping, history
<1>8. Sound(r)'
  BY <1>1, <1>2, <1>3, <1>7, AdvanceFacts
  DEF Sound, Arrived, KeysRead, Passed, RecordedLeads, Shaping
<1>9. QED
  BY <1>1, <1>4, <1>5, <1>6, <1>8, AdvanceFacts, StepKeepsInv

LEMMA AuthenticateKeepsInv ==
  ASSUME Inv, NEW r \in Requests, Authenticate(r)
  PROVE  Inv'
<1>1. Advances(r, "as.serviceKey", "shape.ticketKey")
  BY DEF Authenticate, Advances, redis, held
<1>2. IsAs(r) /\ ~ IsTgs(r)
  BY AsInputType DEF Authenticate, Inv, Sound, Arrived, IsAs, IsTgs
<1>3. /\ checkedAt' = [checkedAt EXCEPT ![r] = clock]
      /\ root' = [root EXCEPT ![r] = r]
      /\ UNCHANGED <<clock, redis, input, held, status, setAt, mintedAt, lost>>
  BY DEF Authenticate
<1>4. TypeOK'
  BY <1>1, <1>3 DEF Inv, TypeOK, Commands, Advances, Await, redis, held
<1>5. \A q \in Requests \ {r} : Unmoved(q)
  BY <1>1, <1>3, AdvanceFacts DEF Inv, TypeOK, Unmoved, held
<1>6. /\ setAt'[r] = 0 /\ userKey'[r] = userKey[r]
      /\ checkedAt'[r] = clock /\ root'[r] = r
  BY <1>3 DEF Authenticate, Inv, TypeOK, Sound, RecordedLeads, Shaping, held
<1>7. userKey[r] = PrincipalKey(input[r].username, input[r].realm)
  BY DEF Authenticate, PreAuthenticated, Inv, Sound, KeysRead
<1>8. PassedAs(r)'
  BY <1>1, <1>6, <1>7, AdvanceFacts
  DEF Authenticate, PreAuthenticated, PassedAs, Opens, WithinSkew
<1>9. Sound(r)'
  BY <1>1, <1>2, <1>6, <1>7, <1>8, AdvanceFacts
  DEF Sound, Arrived, KeysRead, Passed, RecordedLeads, Shaping
<1>10. QED
  BY <1>1, <1>3, <1>4, <1>5, <1>9, AdvanceFacts, StepKeepsInv

LEMMA FindTargetKeepsInv ==
  ASSUME Inv, NEW r \in Requests, FindTarget(r)
  PROVE  Inv'
<1>1. Advances(r, "tgs.target", "tgs.tgsKey")
  BY DEF FindTarget, Advances, redis, held, history
<1>2. IsTgs(r) /\ ~ IsAs(r)
  BY TgsInputType DEF FindTarget, Inv, Sound, Arrived, IsAs, IsTgs
<1>3. UNCHANGED <<clock, redis, input, held, status, history>>
  BY DEF FindTarget
<1>4. TypeOK'
  BY <1>1, <1>3 DEF Inv, TypeOK, Commands, Advances, Await, redis, held, history
<1>5. \A q \in Requests \ {r} : Unmoved(q)
  BY <1>1, <1>3, AdvanceFacts DEF Unmoved, held, history
<1>6. setAt'[r] = 0
  BY <1>3 DEF FindTarget, Inv, Sound, RecordedLeads, Shaping, history
<1>7. Entry(input[r].id, input[r].realm)' # None
  BY <1>3 DEF FindTarget, Entry, redis
<1>8. Sound(r)'
  BY <1>1, <1>2, <1>6, <1>7, AdvanceFacts
  DEF FindTarget, Sound, Arrived, KeysRead, Passed, RecordedLeads, Shaping
<1>9. QED
  BY <1>1, <1>3, <1>4, <1>5, <1>8, AdvanceFacts, StepKeepsInv

LEMMA AdmitKeepsInv ==
  ASSUME Inv, NEW r \in Requests, Admit(r)
  PROVE  Inv'
<1> DEFINE s == Tgt(r).sessionKey.session
<1>1. Advances(r, "tgs.tgsKey", "tgs.replay")
  BY DEF Admit, Advances, redis, held
<1>2. IsTgs(r) /\ ~ IsAs(r)
  BY TgsInputType DEF Admit, Inv, Sound, Arrived, IsAs, IsTgs
<1>3. /\ checkedAt' = [checkedAt EXCEPT ![r] = clock]
      /\ root' = [root EXCEPT ![r] = root[s]]
      /\ UNCHANGED <<clock, redis, input, held, status, setAt, mintedAt, lost>>
  BY DEF Admit
<1>4. s \in Requests /\ status[s] = "Ok" /\ s # r
  BY <1>1, <1>2, SourceOfTicket, AdvanceFacts DEF Admit
<1>5. TypeOK'
  BY <1>1, <1>3, <1>4 DEF Inv, TypeOK, Commands, Advances, Await, redis, held
<1>6. \A q \in Requests \ {r} : Unmoved(q)
  BY <1>1, <1>3, AdvanceFacts DEF Inv, TypeOK, Unmoved, held
<1>7. /\ setAt'[r] = 0 /\ root'[r] = root[s] /\ root'[s] = root[s]
      /\ UNCHANGED keytab
  BY <1>3, <1>4 DEF Admit, Inv, TypeOK, Sound, RecordedLeads, Shaping, redis
<1>8. Entry(TGS_PRINCIPAL, input[r].realm) = PrincipalKey(TGS_PRINCIPAL, input[r].realm)
  BY <1>2, TgsInputType, EntryAsWritten DEF Admit, IsTgs, Names
<1>9. PassedTgs(r)'
  BY <1>1, <1>7, <1>8, AdvanceFacts
  DEF Admit, Decoded, Valid, PassedTgs, Tgt, Auth, Opens
<1>10. RecordedLeads(r)' /\ Arrived(r)'
  BY <1>1, <1>2, <1>3, <1>7, AdvanceFacts
  DEF Inv, Sound, Arrived, RecordedLeads, Admit, Entry, Shaping, redis
<1>11. Sound(r)'
  BY <1>1, <1>2, <1>9, <1>10, AdvanceFacts
  DEF Sound, Arrived, KeysRead, Passed, Shaping
<1>12. QED
  BY <1>1, <1>3, <1>5, <1>6, <1>11, AdvanceFacts, StepKeepsInv

LEMMA GenerateTicketKeepsInv ==
  ASSUME Inv, NEW r \in Requests, GenerateTicket(r)
  PROVE  Inv'
<1>1. Advances(r, "tgs.replay", "shape.ticketKey")
  BY DEF GenerateTicket, Recorded, Advances, held
<1>2. IsTgs(r) /\ ~ IsAs(r)
  BY TgsInputType DEF GenerateTicket, Recorded, Inv, Sound, Arrived, IsAs, IsTgs
<1>3. /\ setAt' = [setAt EXCEPT ![r] = clock]
      /\ UNCHANGED <<clock, keytab, saved, restarts, input, held, status, checkedAt,
                     mintedAt, root, lost>>
  BY DEF GenerateTicket, Recorded
<1>4. replay' \in [ReplayKeys -> Nat]
  BY RecordedTypes DEF GenerateTicket
<1>5. TypeOK'
  BY <1>1, <1>3, <1>4 DEF Inv, TypeOK, Commands, Advances, Await, held
<1>6. \A q \in Requests \ {r} : Unmoved(q)
  BY <1>1, <1>3, AdvanceFacts DEF Inv, TypeOK, Unmoved, held
<1>7. PassedTgs(r)'
  BY <1>1, <1>2, <1>3, AdvanceFacts
  DEF Inv, Sound, Passed, PassedTgs, Advances, Tgt, Auth, Opens
<1>8. RecordedLeads(r)' /\ Arrived(r)'
  BY <1>1, <1>2, <1>3, AdvanceFacts
  DEF Inv, Sound, Arrived, RecordedLeads, Advances, Entry, Shaping
<1>9. Sound(r)'
  BY <1>1, <1>2, <1>7, <1>8, AdvanceFacts
  DEF Sound, KeysRead, Passed, Shaping
<1>10. QED
  BY <1>1, <1>3, <1>5, <1>6, <1>9, AdvanceFacts, StepKeepsInv

LEMMA GetTicketKeyKeepsInv ==
  ASSUME Inv, NEW r \in Requests, GetTicketKey(r)
  PROVE  Inv'
<1> DEFINE entry == Entry(Principal(r), input[r].realm)
<1>1. Advances(r, "shape.ticketKey", "shape.interval")
  BY DEF GetTicketKey, Advances, redis, history
<1>2. input[r].realm \in Realms /\ Principal(r) \in Names /\ Principal(r)' = Principal(r)
  <2>1. CASE IsAs(r)
    BY <1>1, <2>1, AsInputType, AdvanceFacts DEF IsAs, Principal, Names
  <2>2. CASE IsTgs(r)
    BY <1>1, <2>2, TgsInputType, AdvanceFacts
    DEF IsTgs, Principal, Advances, Inv, Sound, Arrived, Shaping
  <2>3. QED
    BY <1>1, <2>1, <2>2, AdvanceFacts
<1>3. entry = Seeded(Principal(r), input[r].realm) /\ entry \in Values
  BY <1>2, EntryAsWritten DEF GetTicketKey
<1>4. /\ ticketKey' = [ticketKey EXCEPT ![r] = entry]
      /\ UNCHANGED <<clock, redis, input, userKey, reply, status, history>>
  BY DEF GetTicketKey
<1>5. TypeOK'
  BY <1>1, <1>3, <1>4 DEF Inv, TypeOK, Commands, Advances, Await, redis, history
<1>6. \A q \in Requests \ {r} : Unmoved(q)
  BY <1>1, <1>4, AdvanceFacts DEF Inv, TypeOK, Unmoved, history
<1>7. ticketKey'[r] = Seeded(Principal(r), input[r].realm)
  BY <1>3, <1>4 DEF Inv, TypeOK
<1>8. Seeded(Principal(r), input[r].realm)' = Seeded(Principal(r), input[r].realm)
  BY <1>1, <1>2, AdvanceFacts DEF Seeded, PrincipalKey
<1>9. KeysRead(r)'
  BY <1>1, <1>4, <1>7, <1>8, AdvanceFacts DEF Inv, Sound, KeysRead, Advances, Shaping
<1>10. Passed(r)'
  BY <1>1, <1>4, AdvanceFacts
  DEF Inv, Sound, Passed, PassedAs, PassedTgs, Advances, Tgt, Auth, Opens, WithinSkew,
      Shaping, history
<1>11. RecordedLeads(r)' /\ Arrived(r)'
  BY <1>1, <1>4, AdvanceFacts
  DEF Inv, Sound, Arrived, RecordedLeads, Advances, Entry, Shaping, redis, history
<1>12. Sound(r)'
  BY <1>1, <1>9, <1>10, <1>11, AdvanceFacts DEF Sound
<1>13. QED
  BY <1>1, <1>4, <1>5, <1>6, <1>12, AdvanceFacts, StepKeepsInv

-----------------------------------------------------------------------------
(* The step that issues a ticket. *)

\* What shape() puts into both envelopes.
LEMMA ShapeFacts ==
  ASSUME Inv, NEW r \in Requests, Shape(r)
  PROVE  /\ Principal(r) \in Principals \cup Users
         /\ input[r].realm \in Realms /\ input[r].ip \in Ips
         /\ ticketKey[r] = PrincipalKey(Principal(r), input[r].realm)
         /\ ExpiresAt(r) \in Nat
         /\ IsAs(r) => /\ ClientKey(r) = PrincipalKey(input[r].username, input[r].realm)
                       /\ input[r].username \in Users
                       /\ ExpiresAt(r) <= clock + LifetimeInterval.max
                       /\ ExpiresAt(r) >= clock + LifetimeInterval.min
         /\ IsTgs(r) => /\ ClientKey(r) \in SessionKeys
                        /\ Auth(r).username \in Users
                        /\ ExpiresAt(r) <= Tgt(r).lifetime
                        /\ \/ ExpiresAt(r) >= clock + LifetimeInterval.min
                           \/ ExpiresAt(r) = Tgt(r).lifetime
<1>1. IsAs(r) \/ IsTgs(r)
  BY DEF Shape, Inv, Sound, Arrived
<1>2. /\ input[r].realm \in Realms /\ input[r].ip \in Ips
      /\ input[r].requestedLifetime \in Nat /\ Principal(r) \in Names
  <2>1. CASE IsAs(r)
    BY <2>1, AsInputType DEF IsAs, Principal, Names
  <2>2. CASE IsTgs(r)
    BY <2>2, TgsInputType DEF IsTgs, Principal, Shape, Inv, Sound, Arrived, Shaping
  <2>3. QED
    BY <1>1, <2>1, <2>2
<1>3. ticketKey[r] = Seeded(Principal(r), input[r].realm)
  BY DEF Shape, Inv, Sound, KeysRead
<1>4. Principal(r) # "interval"
  BY <1>3 DEF Shape, Shapeable, Seeded
<1>5. Principal(r) \in Principals \cup Users
  BY <1>2, <1>4 DEF Names
<1>6. ticketKey[r] = PrincipalKey(Principal(r), input[r].realm)
  BY <1>2, <1>3, <1>5, KeyTypes
<1>7. Entry("interval", input[r].realm) = LifetimeInterval
  BY <1>2, EntryAsWritten DEF Shape, Shapeable
<1> DEFINE uncapped == clock + GetLifetime(input[r].requestedLifetime, LifetimeInterval)
<1>8. /\ uncapped \in Nat /\ uncapped <= clock + LifetimeInterval.max
      /\ uncapped >= clock + LifetimeInterval.min
  BY <1>2, LifetimeClamped DEF Inv, TypeOK
<1>9. CASE IsAs(r)
  <2>1. input[r].exchange = "AS" /\ ~ IsTgs(r) /\ input[r].username \in Users
    BY <1>9, AsInputType DEF IsAs, IsTgs
  <2>2. ExpiresAt(r) = uncapped
    BY <1>7, <2>1 DEF ExpiresAt
  <2>3. ClientKey(r) = PrincipalKey(input[r].username, input[r].realm)
    BY <1>9, <2>1 DEF ClientKey, Shape, Inv, Sound, KeysRead, Shaping
  <2>4. QED
    BY <1>2, <1>5, <1>6, <1>8, <2>1, <2>2, <2>3
<1>10. CASE IsTgs(r)
  <2>1. /\ input[r].exchange = "TGS" /\ ~ IsAs(r) /\ Tgt(r) \in Ticket
        /\ Auth(r).username \in Users
    BY <1>10, TgsInputType DEF IsAs, IsTgs, Tgt, Auth
  <2>2. Tgt(r).lifetime \in Nat /\ Tgt(r).sessionKey \in SessionKeys
    BY <2>1, TicketType
  <2>3. ExpiresAt(r) = Lesser(uncapped, Tgt(r).lifetime)
    BY <1>7, <2>1 DEF ExpiresAt
  <2>4. /\ ExpiresAt(r) \in Nat /\ ExpiresAt(r) <= Tgt(r).lifetime
        /\ \/ ExpiresAt(r) >= clock + LifetimeInterval.min
           \/ ExpiresAt(r) = Tgt(r).lifetime
    BY <1>8, <2>2, <2>3 DEF Lesser
  <2>5. ClientKey(r) \in SessionKeys
    BY <2>1, <2>2 DEF ClientKey
  <2>6. QED
    BY <1>2, <1>5, <1>6, <2>1, <2>4, <2>5
<1>11. QED
  BY <1>1, <1>9, <1>10

Username(r) == IF input[r].exchange = "AS" THEN input[r].username ELSE Auth(r).username

NewTicket(r) ==
  [principal |-> Principal(r), lifetime |-> ExpiresAt(r), sessionKey |-> SessionKey(r),
   username |-> Username(r), ip |-> input[r].ip]

NewChallenge(r) ==
  [principal |-> Principal(r), lifetime |-> ExpiresAt(r), sessionKey |-> SessionKey(r)]

NewReply(r) ==
  [ticket |-> Encrypt(NewTicket(r), ticketKey[r]),
   challenge |-> Encrypt(NewChallenge(r), ClientKey(r))]

LEMMA NewReplyType ==
  ASSUME Inv, NEW r \in Requests, Shape(r)
  PROVE  NewReply(r) \in Reply
<1>1. IsAs(r) \/ IsTgs(r)
  BY DEF Shape, Inv, Sound, Arrived
<1>2. Username(r) \in Users
  BY <1>1, ShapeFacts, AsInputType, TgsInputType DEF Username, IsAs, IsTgs
<1>3. ticketKey[r] \in Keys /\ ClientKey(r) \in Keys
  BY <1>1, ShapeFacts, KeyTypes, SessionKeyTypes
<1>4. NewTicket(r) \in Ticket /\ NewChallenge(r) \in Challenge
  BY <1>2, ShapeFacts, SessionKeyTypes DEF NewTicket, NewChallenge, Ticket, Challenge, Names
<1>5. QED
  BY <1>3, <1>4 DEF NewReply, Encrypt, Reply, Sealed

LEMMA ShapeKeepsInv ==
  ASSUME Inv, NEW r \in Requests, Shape(r)
  PROVE  Inv'
<1>1. /\ pc[r] = "shape.interval"
      /\ pc' = [pc EXCEPT ![r] = "done"]
      /\ status' = [status EXCEPT ![r] = "Ok"]
      /\ reply' = [reply EXCEPT ![r] = NewReply(r)]
      /\ mintedAt' = [mintedAt EXCEPT ![r] = clock]
      /\ UNCHANGED <<clock, redis, input, userKey, ticketKey, checkedAt, setAt, root, lost>>
  BY DEF Shape, Answer, Await, NewReply, NewTicket, NewChallenge, Username
<1>2. /\ pc'[r] = "done" /\ status'[r] = "Ok" /\ mintedAt'[r] = clock
      /\ reply'[r] = NewReply(r) /\ NewReply(r) # None
      /\ status[r] = "Pending" /\ reply[r] = None
      /\ IsAs(r) \/ IsTgs(r)
  BY <1>1, NewReplyType DEF Inv, TypeOK, Sound, Responded, Arrived
<1>3. TypeOK'
  BY <1>1, NewReplyType DEF Inv, TypeOK, Commands, Statuses, redis
<1>4. \A q \in Requests \ {r} : Unmoved(q)
  BY <1>1 DEF Inv, TypeOK, Unmoved
<1>5. KeytabAsWritten'
  BY <1>1 DEF Inv, KeytabAsWritten, AsWritten, redis
<1>6. Sound(r)'
  <2>1. Arrived(r)' /\ Responded(r)' /\ KeysRead(r)' /\ Passed(r)'
    BY <1>1, <1>2
    DEF Inv, Sound, Arrived, Responded, KeysRead, Passed, IsAs, IsTgs, Shaping
  <2>2. Presented(r)'
    <3> SUFFICES ASSUME IsTgs(r)
                 PROVE  \E q \in Requests : reply'[q] # None /\ input[r].tgt = reply'[q].ticket
      BY <1>1 DEF Presented, IsTgs
    <3>1. PICK q \in Requests : status[q] = "Ok" /\ reply[q] # None /\ input[r].tgt = reply[q].ticket
      BY <1>1, SourceOfTicket
    <3>2. reply'[q] = reply[q]
      BY <1>2, <1>4, <3>1 DEF Unmoved
    <3>3. QED
      BY <3>1, <3>2
  <2>3. RecordedLeads(r)'
    <3>1. IsTgs(r) => input[r].id # "interval"
      BY ShapeFacts, TgsInputType DEF IsTgs, Principal
    <3>2. setAt'[r] = setAt[r] /\ IsTgs(r)' = IsTgs(r) /\ input'[r] = input[r]
      BY <1>1 DEF IsTgs
    <3>3. QED
      BY <1>2, <3>1, <3>2 DEF Inv, Sound, RecordedLeads, EndsWell, Shaping
  <2>4. QED
    BY <2>1, <2>2, <2>3 DEF Sound
<1>7. IssuedKept
  BY <1>2, <1>4 DEF IssuedKept
<1>8. \A q \in Requests \ {r} : Sound(q)'
  BY <1>1, <1>4, <1>7, UnmovedKeepsSound DEF redis
<1>9. /\ Issued(r)' = NewTicket(r)
      /\ reply'[r].ticket.key = PrincipalKey(Principal(r), input[r].realm)
  BY <1>2, ShapeFacts DEF Issued, NewReply, Encrypt
\* The request that the presented ticket was issued to.
<1>10. PICK s \in Requests :
         IsTgs(r) =>
           /\ status[s] = "Ok" /\ Tgt(r) = Issued(s)
           /\ root[r] = root[s]
           /\ Tgt(r).ip = input[r].ip /\ Tgt(r).username = Auth(r).username
           /\ input[s].realm = input[r].realm
  <2>1. CASE IsTgs(r)
    <3> DEFINE q == Tgt(r).sessionKey.session
    <3>1. /\ q \in Requests /\ status[q] = "Ok" /\ Tgt(r) = Issued(q)
          /\ input[r].tgt = reply[q].ticket
      BY <1>1, <2>1, SourceOfTicket
    <3>2. PassedTgs(r)
      BY <1>1, <2>1 DEF Inv, Sound, Passed, Shaping
    <3>3. PrincipalKey(TGS_PRINCIPAL, input[r].realm)
            = PrincipalKey(Issued(q).principal, input[q].realm)
      BY <3>1, <3>2 DEF PassedTgs, Opens, Inv, Minted
    <3>4. input[q].realm = input[r].realm
      BY <3>3, KeysDiffer
    <3>5. QED
      BY <3>1, <3>2, <3>4 DEF PassedTgs
  <2>2. QED
    BY <2>1
<1>11. IsAs(r) => PassedAs(r)
  BY <1>1 DEF Inv, Sound, Passed, Shaping
<1>12. /\ IsAs(r) => input[r].exchange = "AS"
       /\ IsTgs(r) => input[r].exchange = "TGS"
       /\ IsAs(r) \/ IsTgs(r)
  BY <1>2, AsInputType, TgsInputType DEF IsAs, IsTgs
<1>13. status[s] = "Ok" => root[s] \in Requests /\ status[root[s]] = "Ok"
  BY DEF Inv, Minted, TracesToPreAuthentication
<1>14. Minted'
  <2>1. \A q \in Requests \ {r} : status'[q] = "Ok" =>
          /\ Issued(q)'.sessionKey = SessionKey(q)
          /\ reply'[q].ticket.key = PrincipalKey(Issued(q)'.principal, input'[q].realm)
          /\ root'[q] \in Requests
    BY <1>4 DEF Inv, Minted, Unmoved, Issued
  <2>2. /\ Issued(r)'.sessionKey = SessionKey(r)
        /\ reply'[r].ticket.key = PrincipalKey(Issued(r)'.principal, input'[r].realm)
    BY <1>1, <1>9 DEF NewTicket
  <2>3. root'[r] \in Requests
    BY <1>1, <1>10, <1>11, <1>12, <1>13 DEF PassedAs
  <2>4. QED
    BY <2>1, <2>2, <2>3 DEF Minted
<1>15. TracesToPreAuthentication'
  <2> DEFINE Traced(q) ==
        LET as == input'[root'[q]] IN
        /\ status'[root'[q]] = "Ok"
        /\ as.exchange = "AS"
        /\ Opens(as.preAuth, PrincipalKey(Issued(q)'.username, input'[q].realm))
        /\ as.preAuth.payload.username = Issued(q)'.username
        /\ WithinSkew(as.preAuth.payload.timestamp, checkedAt'[root'[q]])
        /\ as.ip = Issued(q)'.ip
        /\ Opens(reply'[q].challenge,
                 IF root'[q] = q THEN PrincipalKey(Issued(q)'.username, input'[q].realm)
                 ELSE Tgt(q)'.sessionKey)
  <2>1. ASSUME NEW q \in Requests, status[q] = "Ok"
        PROVE  Traced(q)
    <3>1. /\ Unmoved(q) /\ root[q] \in Requests /\ status[root[q]] = "Ok"
          /\ Unmoved(root[q])
      BY <1>7, <2>1 DEF IssuedKept, Inv, Minted, TracesToPreAuthentication
    <3>2. QED
      BY <2>1, <3>1 DEF Inv, TracesToPreAuthentication, Unmoved, Issued, Tgt, Opens, WithinSkew
  <2>2. Traced(r)
    <3>1. CASE IsAs(r)
      <4>1. Issued(r)'.username = input[r].username /\ Issued(r)'.ip = input[r].ip
        BY <1>9, <1>12, <3>1 DEF NewTicket, Username
      <4>2. root'[r] = r
        BY <1>1, <1>11, <3>1 DEF PassedAs
      <4>3. reply'[r].challenge.key = PrincipalKey(input[r].username, input[r].realm)
        BY <1>2, <3>1, ShapeFacts DEF NewReply, Encrypt
      <4>4. QED
        BY <1>1, <1>2, <1>11, <1>12, <3>1, <4>1, <4>2, <4>3 DEF PassedAs, Opens
    <3>2. CASE IsTgs(r)
      <4>1. /\ Issued(r)'.username = Issued(s).username
            /\ Issued(r)'.ip = Issued(s).ip
        BY <1>9, <1>10, <1>12, <3>2 DEF NewTicket, Username
      <4>2. Issued(s)' = Issued(s) /\ root'[s] = root[s] /\ root'[r] = root[s]
        BY <1>1, <1>7, <1>10, <3>2 DEF IssuedKept, Unmoved, Issued
      <4>3. input'[r].realm = input'[s].realm
        BY <1>1, <1>10, <3>2
      <4>4. Traced(s)
        BY <1>10, <2>1, <3>2
      <4>5. root'[r] # r
        BY <1>2, <1>10, <1>13, <3>2, <4>2
      <4>6. Opens(reply'[r].challenge, Tgt(r)'.sessionKey)
        <5>1. Tgt(r)' = Tgt(r) /\ ClientKey(r) = Tgt(r).sessionKey
          BY <1>1, <1>12, <3>2, TgsInputType DEF Tgt, ClientKey, IsTgs
        <5>2. reply'[r].challenge.key = Tgt(r).sessionKey
          BY <1>2, <5>1 DEF NewReply, Encrypt
        <5>3. QED
          BY <5>1, <5>2 DEF Opens
      <4>7. QED
        BY <4>1, <4>2, <4>3, <4>4, <4>5, <4>6
    <3>3. QED
      BY <1>12, <3>1, <3>2
  <2>3. \A q \in Requests : status'[q] = "Ok" => Traced(q)
    BY <1>4, <2>1, <2>2 DEF Unmoved
  <2>4. QED
    BY <2>3 DEF TracesToPreAuthentication
<1>16. WithinGrant'
  <2> DEFINE Granted(q) ==
        /\ Issued(q)'.lifetime <= Issued(root[q])'.lifetime
        /\ Issued(q)'.lifetime <= mintedAt'[root[q]] + LifetimeInterval.max
  <2>1. ASSUME NEW q \in Requests, status[q] = "Ok"
        PROVE  Granted(q) /\ Issued(q)'.lifetime \in Nat
                 /\ Issued(root[q])'.lifetime \in Nat /\ mintedAt'[root[q]] \in Nat
    <3>1. /\ Unmoved(q) /\ root[q] \in Requests /\ status[root[q]] = "Ok"
          /\ Unmoved(root[q])
      BY <1>7, <2>1 DEF IssuedKept, Inv, Minted, TracesToPreAuthentication
    <3>2. reply[q] \in Reply /\ reply[root[q]] \in Reply
      BY <2>1, <3>1 DEF Inv, TypeOK, Sound, Responded
    <3>3. Issued(q) \in Ticket /\ Issued(root[q]) \in Ticket
      BY <3>2 DEF Reply, Sealed, Issued
    <3>4. Issued(q).lifetime \in Nat /\ Issued(root[q]).lifetime \in Nat
      BY <3>3, TicketType
    <3>5. mintedAt[root[q]] \in Nat
      BY <3>1 DEF Inv, TypeOK
    <3>6. QED
      BY <2>1, <3>1, <3>4, <3>5 DEF Inv, WithinGrant, Unmoved, Issued
  <2>2. Issued(r)'.lifetime = ExpiresAt(r) /\ ExpiresAt(r) \in Nat
    BY <1>9, ShapeFacts DEF NewTicket
  <2>3. Granted(r)
    <3>1. CASE IsAs(r)
      <4>1. root[r] = r /\ root' = root /\ mintedAt'[r] = clock
        BY <1>1, <1>2, <1>11, <3>1 DEF PassedAs
      <4>2. ExpiresAt(r) <= clock + LifetimeInterval.max
        BY <3>1, ShapeFacts
      <4>3. QED
        BY <2>2, <4>1, <4>2 DEF Issued
    <3>2. CASE IsTgs(r)
      <4>1. ExpiresAt(r) <= Issued(s).lifetime
        BY <1>10, <3>2, ShapeFacts
      <4>2. Issued(s)' = Issued(s) /\ root[r] = root[s] /\ root' = root
        BY <1>1, <1>7, <1>10, <3>2 DEF IssuedKept, Unmoved, Issued
      <4>3. /\ Granted(s) /\ Issued(s)'.lifetime \in Nat
            /\ Issued(root[s])'.lifetime \in Nat /\ mintedAt'[root[s]] \in Nat
        BY <1>10, <2>1, <3>2
      <4>4. QED
        BY <2>2, <4>1, <4>2, <4>3 DEF Issued
    <3>3. QED
      BY <1>12, <3>1, <3>2
  <2>4. \A q \in Requests : status'[q] = "Ok" => Granted(q)
    BY <1>4, <2>1, <2>3 DEF Unmoved
  <2>5. QED
    BY <1>1, <2>4 DEF WithinGrant
<1>17. ShortOnlyWithTgt'
  <2>1. Issued(r)'.lifetime = ExpiresAt(r) /\ Tgt(r)' = Tgt(r) /\ input'[r] = input[r]
    BY <1>1, <1>9 DEF NewTicket, Tgt
  <2>2. CASE IsAs(r)
    <3>1. ExpiresAt(r) >= clock + LifetimeInterval.min /\ ExpiresAt(r) \in Nat
      BY <2>2, ShapeFacts
    <3>2. ~ (Issued(r)'.lifetime < mintedAt'[r] + LifetimeInterval.min)
      BY <1>2, <2>1, <3>1 DEF Inv, TypeOK
    <3>3. QED
      BY <1>4, <3>2 DEF Inv, ShortOnlyWithTgt, Unmoved, Issued, Tgt
  <2>3. CASE IsTgs(r)
    <3>1. /\ ExpiresAt(r) \in Nat
          /\ \/ ExpiresAt(r) >= clock + LifetimeInterval.min
             \/ ExpiresAt(r) = Tgt(r).lifetime
      BY <2>3, ShapeFacts
    <3>2. Issued(r)'.lifetime < mintedAt'[r] + LifetimeInterval.min
            => input'[r].exchange = "TGS" /\ Issued(r)'.lifetime = Tgt(r)'.lifetime
      BY <1>2, <1>12, <2>1, <2>3, <3>1 DEF Inv, TypeOK
    <3>3. QED
      BY <1>4, <3>2 DEF Inv, ShortOnlyWithTgt, Unmoved, Issued, Tgt
  <2>4. QED
    BY <1>2, <2>2, <2>3
<1>18. QED
  BY <1>3, <1>5, <1>6, <1>8, <1>14, <1>15, <1>16, <1>17 DEF Inv

-----------------------------------------------------------------------------
(* Time and restarts. *)

LEMMA WrittenTypes ==
  ASSUME NEW e \in Names \X Realms
  PROVE  Seeded(e[1], e[2]) \in Values
<1>1. CASE e[1] = "interval"
  BY <1>1 DEF Seeded, Values
<1>2. CASE e[1] # "interval"
  <2>1. e[1] \in Principals \cup Users /\ e[2] \in Realms
    BY <1>2 DEF Names
  <2>2. QED
    BY <2>1, KeyTypes DEF Values
<1>3. QED
  BY <1>1, <1>2

\* Time passes, or Redis takes a snapshot or restarts: the requests stay where
\* they are.
LEMMA EnvironmentKeepsInv ==
  ASSUME Inv, Tick \/ Snapshot \/ RedisRestart
  PROVE  Inv'
<1>1. /\ UNCHANGED <<pc, input, userKey, ticketKey, reply, status, checkedAt, setAt,
                     mintedAt, root>>
      /\ restarts' = 0 => restarts = 0 /\ keytab' = keytab
  BY DEF Tick, Snapshot, RedisRestart, redis, held, history, Inv, TypeOK
<1>2. \A q \in Requests : Unmoved(q)
  BY <1>1 DEF Unmoved
<1>3. TypeOK'
  BY DEF Tick, Snapshot, RedisRestart, redis, held, history, Inv, TypeOK
<1>4. KeytabAsWritten'
  BY DEF Tick, Snapshot, RedisRestart, redis, Inv, TypeOK, KeytabAsWritten, AsWritten
<1>5. \A q \in Requests : Sound(q)'
  BY <1>1, <1>2, UnmovedKeepsSound DEF IssuedKept
<1>6. Minted' /\ TracesToPreAuthentication' /\ WithinGrant' /\ ShortOnlyWithTgt'
  BY <1>1, <1>2, NothingIssued DEF IssuedKept
<1>7. QED
  BY <1>3, <1>4, <1>5, <1>6 DEF Inv

\* The KDC restarts: what it was serving fails, and the keytab is seeded again.
LEMMA KdcRestartKeepsInv ==
  ASSUME Inv, KdcRestart
  PROVE  Inv'
<1>1. /\ UNCHANGED <<clock, replay, saved, input, held, history>>
      /\ restarts' = restarts + 1 /\ restarts' # 0 /\ restarts' \in 0 .. MaxRestarts
  BY DEF KdcRestart, Inv, TypeOK
<1>2. \A q \in Requests :
        IF pc[q] \in {"idle", "done"}
        THEN pc'[q] = pc[q] /\ status'[q] = status[q]
        ELSE pc'[q] = "done" /\ status'[q] = "Failed"
  BY DEF KdcRestart
<1>3. TypeOK'
  <2>1. keytab' \in [Names \X Realms -> Values]
    BY WrittenTypes DEF KdcRestart, Inv, TypeOK
  <2>2. pc' \in [Requests -> Commands] /\ status' \in [Requests -> Statuses]
    BY DEF KdcRestart, Inv, TypeOK, Commands, Statuses
  <2>3. QED
    BY <1>1, <2>1, <2>2 DEF Inv, TypeOK, held, history
<1>4. KeytabAsWritten'
  <2>1. ASSUME NEW e \in Names \X Realms
        PROVE  keytab'[e] \in {None, Seeded(e[1], e[2])}
    BY DEF KdcRestart, Inv, KeytabAsWritten, AsWritten
  <2>2. QED
    BY <1>1, <2>1 DEF Inv, KeytabAsWritten, AsWritten
<1>5. \A q \in Requests : pc[q] \in {"idle", "done"} => Unmoved(q)
  BY <1>1, <1>2 DEF Unmoved, held, history
<1>6. IssuedKept
  BY <1>5 DEF IssuedKept, Inv, Sound, Responded
<1>7. ASSUME NEW q \in Requests, pc[q] \notin {"idle", "done"}
      PROVE  Sound(q)'
  <2>1. /\ pc'[q] = "done" /\ status'[q] = "Failed" /\ reply'[q] = None
        /\ input'[q] = input[q] /\ (IsAs(q) \/ IsTgs(q)) /\ setAt' = setAt
        /\ reply' = reply
    BY <1>1, <1>2, <1>7 DEF Inv, Sound, Responded, Arrived, held, history
  <2>2. Arrived(q)' /\ Responded(q)' /\ KeysRead(q)' /\ Passed(q)'
    BY <2>1 DEF Arrived, Responded, KeysRead, Passed, IsAs, IsTgs, Shaping
  <2>3. Presented(q)'
    BY <1>7, <2>1 DEF Inv, Sound, Presented, IsTgs
  <2>4. RecordedLeads(q)'
    BY <1>1, <2>1 DEF Inv, Sound, RecordedLeads, EndsWell, IsTgs, Shaping
  <2>5. QED
    BY <2>2, <2>3, <2>4 DEF Sound
<1>8. \A q \in Requests : Sound(q)'
  BY <1>1, <1>5, <1>6, <1>7, UnmovedKeepsSound
<1>9. \A q \in Requests : status'[q] = "Ok" => status[q] = "Ok"
  BY <1>2
<1>10. QED
  BY <1>3, <1>4, <1>6, <1>8, <1>9, NothingIssued DEF Inv

-----------------------------------------------------------------------------

LEMMA InitInv == Init => Inv
<1> SUFFICES ASSUME Init
             PROVE  Inv
  OBVIOUS
<1>1. FullKeytab \in [Names \X Realms -> Values] /\ AsWritten(FullKeytab)
  BY WrittenTypes DEF FullKeytab, AsWritten, Values
<1>2. EmptyKeytab \in [Names \X Realms -> Values] /\ AsWritten(EmptyKeytab)
  BY DEF EmptyKeytab, AsWritten, Values
<1>3. TypeOK
  BY <1>1, <1>2 DEF Init, TypeOK, NoReplays, Commands, Statuses, Values
<1>4. KeytabAsWritten
  BY <1>1, <1>2 DEF Init, KeytabAsWritten
<1>5. \A r \in Requests : Sound(r)
  BY DEF Init, Sound, Arrived, Responded, KeysRead, Presented, Passed, RecordedLeads, Shaping
<1>6. Minted /\ TracesToPreAuthentication /\ WithinGrant /\ ShortOnlyWithTgt
  BY DEF Init, Minted, TracesToPreAuthentication, WithinGrant, ShortOnlyWithTgt
<1>7. QED
  BY <1>3, <1>4, <1>5, <1>6 DEF Inv

\* Until something restarts, a TGS request that has been recorded is refused only
\* for the target interval, and only in encrypt.
LEMMA RecordedRefusal ==
  ASSUME Inv, NEW r \in Requests, setAt[r] # 0, restarts = 0,
         RefusePrincipal(r) \/ FailToShape(r)
  PROVE  FailToShape(r) /\ input[r].id = "interval"
<1>1. /\ pc[r] \in Shaping /\ IsTgs(r) /\ keytab = FullKeytab
      /\ input[r].id # None /\ Entry(input[r].id, input[r].realm) # None
  BY DEF Inv, Sound, Arrived, RecordedLeads, KeytabAsWritten, RefusePrincipal, FailToShape,
         Shaping
<1>2. /\ input[r].exchange = "TGS" /\ input[r].realm \in Realms /\ input[r].id \in Names
  BY <1>1, TgsInputType DEF IsTgs
<1>3. Principal(r) = input[r].id
  BY <1>2 DEF Principal
<1>4. Entry("interval", input[r].realm) = LifetimeInterval
  <2>1. <<"interval", input[r].realm>> \in Names \X Realms
    BY <1>2, IntervalIsNoKey
  <2>2. "interval" \notin Users
    OBVIOUS
  <2>3. QED
    BY <1>1, <2>1, <2>2 DEF Entry, FullKeytab, Seeded
<1>5. FailToShape(r) /\ ticketKey[r] = LifetimeInterval
  BY <1>1, <1>3, <1>4, IntervalIsNoKey DEF RefusePrincipal, FailToShape, Shapeable
<1>6. Seeded(input[r].id, input[r].realm) = LifetimeInterval
  BY <1>3, <1>5 DEF FailToShape, Inv, Sound, KeysRead
<1>7. SUFFICES ASSUME input[r].id # "interval"
               PROVE  FALSE
  BY <1>5
<1>8. input[r].id \in Principals \cup Users
  BY <1>2, <1>7 DEF Names
<1>9. QED
  BY <1>2, <1>6, <1>8, KeyTypes, IntervalIsNoKey

LEMMA RefusesKeepInv ==
  ASSUME Inv, NEW r \in Requests,
         \/ RefusePreAuth(r) \/ RefuseTarget(r) \/ RefuseTgt(r) \/ RefuseReplay(r)
         \/ RefusePrincipal(r) \/ FailToShape(r) \/ Fail(r)
  PROVE  Inv'
<1>1. CASE RefusePreAuth(r) \/ RefuseTarget(r) \/ RefuseTgt(r) \/ RefuseReplay(r)
  <2>1. PICK code \in {"Unauthorized", "BadRequest", "NotFound", "AlreadyUsed"} : Throw(r, code)
    BY <1>1 DEF RefusePreAuth, RefuseTarget, RefuseTgt, RefuseReplay
  <2>2. pc[r] \notin {"idle", "done"} \cup Shaping
    BY <1>1 DEF RefusePreAuth, RefuseTarget, RefuseTgt, RefuseReplay, Shaping
  <2>3. setAt[r] = 0
    BY <2>2 DEF Inv, Sound, RecordedLeads
  <2>4. QED
    BY <2>1, <2>2, <2>3, RefusalKeepsInv DEF Throw, Statuses, history
<1>2. CASE RefusePrincipal(r) \/ FailToShape(r)
  <2>1. PICK code \in {"NotFound", "InternalError"} :
          Throw(r, code) /\ (code = "NotFound" => ~ FailToShape(r))
    BY <1>2 DEF RefusePrincipal, FailToShape
  <2>2. pc[r] \notin {"idle", "done"}
    BY <1>2 DEF RefusePrincipal, FailToShape
  <2>3. \/ setAt'[r] = 0
        \/ code = "InternalError" /\ (input[r].id = "interval" \/ restarts # 0)
        \/ code = "NotFound" /\ restarts # 0
    BY <1>2, <2>1, RecordedRefusal DEF Throw, history
  <2>4. QED
    BY <2>1, <2>2, <2>3, RefusalKeepsInv DEF Throw, Statuses, history
<1>3. CASE Fail(r)
  BY <1>3, RefusalKeepsInv DEF Fail, Statuses
<1>4. QED
  BY <1>1, <1>2, <1>3

LEMMA NextKeepsInv == Inv /\ [Next]_vars => Inv'
<1> SUFFICES ASSUME Inv, [Next]_vars
             PROVE  Inv'
  OBVIOUS
<1>1. CASE Tick \/ Snapshot \/ RedisRestart
  BY <1>1, EnvironmentKeepsInv
<1>2. CASE KdcRestart
  BY <1>2, KdcRestartKeepsInv
<1>3. ASSUME NEW r \in Requests, NEW i \in AsInputs, PostAs(r, i)
      PROVE  Inv'
  BY <1>3, PostAsKeepsInv
<1>4. ASSUME NEW r \in Requests, NEW q \in Requests, NEW p \in Requests,
             NEW c \in TgsInputs, PostTgs(r, q, p, c)
      PROVE  Inv'
  BY <1>4, PostTgsKeepsInv
<1>5. ASSUME NEW r \in Requests, Serve(r)
      PROVE  Inv'
  BY <1>5, RefusesKeepInv, GetUserKeyKeepsInv, AuthenticateKeepsInv, FindTargetKeepsInv,
     AdmitKeepsInv, GenerateTicketKeepsInv, GetTicketKeyKeepsInv, ShapeKeepsInv
  DEF Serve
<1>6. ASSUME NEW r \in Requests, Fail(r)
      PROVE  Inv'
  BY <1>6, RefusesKeepInv
<1>7. CASE UNCHANGED vars
  <2>1. /\ \A q \in Requests : Unmoved(q) /\ status'[q] = status[q]
        /\ UNCHANGED redis
    BY <1>7 DEF vars, held, history, Unmoved
  <2>2. TypeOK' /\ KeytabAsWritten'
    BY <1>7 DEF vars, redis, held, history, Inv, TypeOK, KeytabAsWritten, AsWritten
  <2>3. QED
    BY <2>1, <2>2, UnmovedKeepsSound, NothingIssued DEF redis, Inv, IssuedKept
<1>8. QED
  BY <1>1, <1>2, <1>3, <1>4, <1>5, <1>6, <1>7 DEF Next

\* The strengthened invariant holds in every reachable state.
THEOREM Invariance == Spec => []Inv
BY InitInv, NextKeepsInv, PTL DEF Spec

\* Type correctness of the KDC: what it seals is sealed under a key, and a
\* ticket names a principal (kdc.interceptor.ts, tgs.interceptor.ts).
THEOREM TypeCorrect == Spec => []TypeOK
<1>1. Inv => TypeOK
  BY DEF Inv
<1>2. QED
  BY <1>1, Invariance, PTL

\* A ticket of any length of chain goes back to one AS exchange by the user it
\* names, from the same address (as.service.ts, tgs.service.ts).
THEOREM TracesToPreAuthenticationHolds == Spec => []TracesToPreAuthentication
<1>1. Inv => TracesToPreAuthentication
  BY DEF Inv
<1>2. QED
  BY <1>1, Invariance, PTL

\* No ticket outlives the TGT at the start of its chain, nor the policy's
\* maximum counted from it (the maxExpiry of tgs.service.ts).
THEOREM WithinGrantHolds == Spec => []WithinGrant
<1>1. Inv => WithinGrant
  BY DEF Inv
<1>2. QED
  BY <1>1, Invariance, PTL

\* A recorded authenticator leads to a ticket unless something fails, its target
\* is no principal, or a restart took an entry away between two lookups
\* (tgs.service.ts checks before it records, kdc.interceptor.ts looks up again).
THEOREM RecordedThenIssuedHolds == Spec => []RecordedThenIssued
<1>1. Inv => RecordedThenIssued
  BY DEF Inv, Sound, RecordedLeads, EndsWell, RecordedThenIssued
<1>2. QED
  BY <1>1, Invariance, PTL

\* A ticket that falls short of the policy's minimum ends with the TGT that it
\* was asked for with (getLifetime, and the min with maxExpiry in
\* kdc.interceptor.ts), whatever time passed before it was shaped.
THEOREM ShortOnlyWithTgtHolds == Spec => []ShortOnlyWithTgt
<1>1. Inv => ShortOnlyWithTgt
  BY DEF Inv
<1>2. QED
  BY <1>1, Invariance, PTL
=============================================================================
