---------------------------------- MODULE Kdc ----------------------------------
(***************************************************************************)
(* The Key Distribution Centre: POST /as/:realm and POST /tgs/:realm, each *)
(* of them an interceptor, a handler and the interceptor's shape().        *)
(*                                                                         *)
(* A request advances from one Redis command to the next; the code between *)
(* two awaits runs without interruption.  Requests interleave, time passes *)
(* and Redis may restart from its last snapshot at every await.  Clients   *)
(* present the tickets that earlier requests were answered with, so that a *)
(* chain of tickets grows: AS, TGS for the TGS itself, TGS for a service.  *)
(***************************************************************************)
EXTENDS CryptoService, ReplayCache

CONSTANTS
  Requests,      \* the HTTP requests the KDC receives
  AsInputs,      \* the AS requests a client may post
  TgsInputs,     \* the TGS requests, without the ticket they present
  Realms,
  Principals,    \* the seeded principals, the TGS among them
  Users,         \* the names of users; none of them is a principal's or interval
  Registered,    \* the users registered in every realm
  Ips,
  Timestamps,    \* the timestamps clients put into authenticators
  Lifetimes,     \* the lifetimes clients request
  LifetimeInterval,  \* the realms' policy
  None,          \* undefined, or a key that opens nothing
  MaxClock,      \* bound on the clock
  MaxRestarts    \* bound on the restarts of Redis and of the KDC

TGS_PRINCIPAL == "tgs"

\* The keys of the Redis keytab are <name>@<realm>: the policy of a realm is an
\* entry beside those of the principals.
Names == Principals \cup Users \cup {"interval"}

SessionKeys == {SessionKey(r) : r \in Requests}

Keys == [principal: Principals \cup Users, realm: Realms] \cup SessionKeys

Authenticator == [username: Users, timestamp: Timestamps]

Sealed(payloads) == [key: Keys \cup {None}, payload: payloads]

\* Request1Dto, with the realm and the address it is posted to and from.
AsInput == [exchange: {"AS"}, realm: Realms, ip: Ips, username: Users,
            serviceName: Names \cup {None}, requestedLifetime: Lifetimes,
            preAuth: Sealed(Authenticator)]

\* What a client chooses in a TGS request; id is None when it names no target.
TgsChoice == [realm: Realms, ip: Ips, id: Names \cup {None},
              requestedLifetime: Lifetimes, authenticator: Authenticator]

\* The issue time a ticket also carries is left out: no server reads it.
Ticket == [principal: Names, lifetime: Nat, sessionKey: SessionKeys,
           username: Users, ip: Ips]

Challenge == [principal: Names, lifetime: Nat, sessionKey: SessionKeys]

TgsInput == [exchange: {"TGS"}, realm: Realms, ip: Ips, id: Names \cup {None},
             requestedLifetime: Lifetimes, tgt: Sealed(Ticket),
             authenticator: Sealed(Authenticator)]

Reply == [ticket: Sealed(Ticket), challenge: Sealed(Challenge)]

ReplayKeys == [realm: Realms, principal: {TGS_PRINCIPAL}, username: Users,
               timestamp: Timestamps]

ASSUME KdcAssumption ==
  /\ AsInputs \subseteq AsInput
  /\ TgsInputs \subseteq TgsChoice
  /\ TGS_PRINCIPAL \in Principals
  /\ Registered \subseteq Users
  /\ Principals \cap Users = {}
  /\ "interval" \notin Principals \cup Users
  /\ Timestamps \subseteq Int
  /\ Lifetimes \subseteq Nat
  /\ LifetimeInterval \in [min: Nat \ {0}, max: Nat \ {0}]
  /\ LifetimeInterval.min <= LifetimeInterval.max
  /\ None \notin Keys \cup Names \cup Requests \cup Reply \cup {LifetimeInterval}
  /\ MaxClock \in Nat \ {0}
  /\ MaxRestarts \in Nat

VARIABLES
  clock,      \* Date.now(), of the KDC and of Redis
  keytab,     \* <name>@<realm> in Redis
  replay,     \* the replay cache in Redis
  saved,      \* the last snapshot of both (redis-server --save)
  restarts,   \* restarts so far
  pc,         \* the Redis command each request awaits
  input,      \* what each request carries
  userKey,    \* AS: the user's key, read before the service's
  ticketKey,  \* the key the ticket will be sealed under, read before the policy
  reply,      \* the Response of each request
  status,     \* how each request was answered
  checkedAt,  \* history: when its timestamp was compared with the clock
  setAt,      \* history: when its SET NX took effect, 0 if it did not
  mintedAt,   \* history: when its ticket was stamped
  root,       \* history: the AS request at the start of its chain of tickets
  lost        \* history: the requests whose record a restart has dropped

redis == <<keytab, replay, saved, restarts>>
history == <<checkedAt, setAt, mintedAt, root, lost>>
held == <<userKey, ticketKey, reply>>
vars == <<clock, redis, pc, input, held, status, history>>

Entry(name, realm) == keytab[<<name, realm>>]

\* What KeytabSeeder and registration write under <name>@<realm>.
Seeded(name, realm) ==
  IF name = "interval" THEN LifetimeInterval ELSE PrincipalKey(name, realm)

FullKeytab ==
  [e \in Names \X Realms |->
     IF e[1] \in Users \ Registered THEN None ELSE Seeded(e[1], e[2])]
EmptyKeytab == [e \in Names \X Realms |-> None]
NoReplays == [k \in ReplayKeys |-> 0]

\* The KDC listens once the seeder has run; the users are registered.  Redis
\* may not have taken a snapshot yet.
Init ==
  /\ clock = 1
  /\ keytab = FullKeytab
  /\ replay = NoReplays
  /\ saved \in [keytab: {FullKeytab, EmptyKeytab}, replay: {NoReplays}]
  /\ restarts = 0
  /\ pc = [r \in Requests |-> "idle"]
  /\ input = [r \in Requests |-> None]
  /\ userKey = [r \in Requests |-> None]
  /\ ticketKey = [r \in Requests |-> None]
  /\ reply = [r \in Requests |-> None]
  /\ status = [r \in Requests |-> "Pending"]
  /\ checkedAt = [r \in Requests |-> 0]
  /\ setAt = [r \in Requests |-> 0]
  /\ mintedAt = [r \in Requests |-> 0]
  /\ root = [r \in Requests |-> None]
  /\ lost = {}

Await(r, command) == pc' = [pc EXCEPT ![r] = command]

Answer(r, code) ==
  /\ Await(r, "done")
  /\ status' = [status EXCEPT ![r] = code]

\* Mutant: the exception is swallowed and the request never answered.
ThrowSwallowed(r, code) ==
  /\ Await(r, "swallowed")
  /\ UNCHANGED <<clock, redis, input, held, status, history>>

\* An exception: nothing but the answer changes.
Throw(r, code) ==
  /\ Answer(r, code)
  /\ UNCHANGED <<clock, redis, input, held, history>>

-----------------------------------------------------------------------------
(* The AS exchange: AsService.authenticate. *)

PostAs(r, i) ==
  /\ pc[r] = "idle"
  /\ Await(r, "as.userKey")
  /\ input' = [input EXCEPT ![r] = i]
  /\ UNCHANGED <<clock, redis, held, status, history>>

GetUserKey(r) ==
  /\ pc[r] = "as.userKey"
  /\ userKey' = [userKey EXCEPT ![r] = Entry(input[r].username, input[r].realm)]
  /\ Await(r, "as.serviceKey")
  /\ UNCHANGED <<clock, redis, input, ticketKey, reply, status, history>>

\* Mutant: the pre-authenticator's timestamp is not tested.
PreAuthenticatedAnyTime(r) ==
  /\ userKey[r] # None
  /\ input[r].serviceName \in Names
  /\ Entry(input[r].serviceName, input[r].realm) # None
  /\ Opens(input[r].preAuth, userKey[r])
  /\ input[r].preAuth.payload.username = input[r].username

\* Both entries exist and the pre-authenticator is this user's and fresh.
PreAuthenticated(r) ==
  /\ userKey[r] # None
  /\ input[r].serviceName \in Names
  /\ Entry(input[r].serviceName, input[r].realm) # None
  /\ Opens(input[r].preAuth, userKey[r])
  /\ input[r].preAuth.payload.username = input[r].username
  /\ WithinSkew(input[r].preAuth.payload.timestamp, clock)

RefusePreAuth(r) ==
  /\ pc[r] = "as.serviceKey"
  /\ ~ PreAuthenticated(r)
  /\ Throw(r, "Unauthorized")

Authenticate(r) ==
  /\ pc[r] = "as.serviceKey"
  /\ PreAuthenticated(r)
  /\ Await(r, "shape.ticketKey")
  /\ checkedAt' = [checkedAt EXCEPT ![r] = clock]
  /\ root' = [root EXCEPT ![r] = r]
  /\ UNCHANGED <<clock, redis, input, held, status, setAt, mintedAt, lost>>

-----------------------------------------------------------------------------
(* The TGS exchange: TgsInterceptor.prepare, TgsService.generateTicket. *)

Tgt(r) == input[r].tgt.payload

Auth(r) == input[r].authenticator.payload

\* Mutant: the key names the user only, as an earlier version's did.
ReplayKeyOfUser(r) ==
  [realm |-> input[r].realm, principal |-> TGS_PRINCIPAL, username |-> Auth(r).username,
   timestamp |-> CHOOSE t \in Timestamps : TRUE]

\* replay:<realm>:tgs:<username>:<timestamp>
ReplayKey(r) ==
  [realm |-> input[r].realm, principal |-> TGS_PRINCIPAL, username |-> Auth(r).username,
   timestamp |-> Auth(r).timestamp]

\* A client presents the ticket request q was answered with, and seals its
\* authenticator under the session key it read in p's challenge.
PostTgs(r, q, p, c) ==
  /\ pc[r] = "idle"
  /\ reply[q] # None /\ reply[p] # None
  /\ Await(r, "tgs.target")
  /\ input' = [input EXCEPT ![r] =
       [exchange |-> "TGS", realm |-> c.realm, ip |-> c.ip, id |-> c.id,
        requestedLifetime |-> c.requestedLifetime, tgt |-> reply[q].ticket,
        authenticator |-> Encrypt(c.authenticator, reply[p].challenge.payload.sessionKey)]]
  /\ UNCHANGED <<clock, redis, held, status, history>>

\* No target in the body, or none of that name.
RefuseTarget(r) ==
  /\ pc[r] = "tgs.target"
  /\ \/ input[r].id = None /\ Throw(r, "BadRequest")
     \/ /\ input[r].id # None
        /\ Entry(input[r].id, input[r].realm) = None
        /\ Throw(r, "NotFound")

\* Mutant: any target that is named passes the existence check.
FindTargetUnchecked(r) ==
  /\ pc[r] = "tgs.target"
  /\ input[r].id # None
  /\ Await(r, "tgs.tgsKey")
  /\ UNCHANGED <<clock, redis, input, held, status, history>>

FindTarget(r) ==
  /\ pc[r] = "tgs.target"
  /\ input[r].id # None
  /\ Entry(input[r].id, input[r].realm) # None
  /\ Await(r, "tgs.tgsKey")
  /\ UNCHANGED <<clock, redis, input, held, status, history>>

\* prepare: the TGT opens under the TGS's key, the authenticator under the
\* session key inside it.
Decoded(r) ==
  /\ Opens(input[r].tgt, Entry(TGS_PRINCIPAL, input[r].realm))
  /\ Opens(input[r].authenticator, Tgt(r).sessionKey)

\* generateTicket: principal, source, username, expiry and clock skew.
Valid(r) ==
  /\ Tgt(r).principal = TGS_PRINCIPAL
  /\ Tgt(r).ip = input[r].ip
  /\ Tgt(r).username = Auth(r).username
  /\ clock <= Tgt(r).lifetime
  /\ WithinSkew(Auth(r).timestamp, clock)

RefuseTgt(r) ==
  /\ pc[r] = "tgs.tgsKey"
  /\ \/ /\ Entry(TGS_PRINCIPAL, input[r].realm) = None
        /\ Throw(r, "NotFound")
     \/ /\ Entry(TGS_PRINCIPAL, input[r].realm) # None
        /\ ~ (Decoded(r) /\ Valid(r))
        /\ Throw(r, "Unauthorized")

\* All checks pass; SET NX is sent to Redis.
Admit(r) ==
  /\ pc[r] = "tgs.tgsKey"
  /\ Entry(TGS_PRINCIPAL, input[r].realm) # None
  /\ Decoded(r) /\ Valid(r)
  /\ Await(r, "tgs.replay")
  /\ checkedAt' = [checkedAt EXCEPT ![r] = clock]
  /\ root' = [root EXCEPT ![r] = root[Tgt(r).sessionKey.session]]
  /\ UNCHANGED <<clock, redis, input, held, status, setAt, mintedAt, lost>>

\* SET NX takes effect: Redis had no entry and holds one now.
Recorded(r) ==
  /\ pc[r] = "tgs.replay"
  /\ ~ Live(replay, ReplayKey(r), clock)
  /\ replay' = SetNX(replay, ReplayKey(r), clock)
  /\ setAt' = [setAt EXCEPT ![r] = clock]
  /\ UNCHANGED <<keytab, saved, restarts>>

\* Mutant: the read and the write of the cache are not one command.
GenerateTicketUnrecorded(r) ==
  /\ pc[r] = "tgs.replay"
  /\ setAt' = [setAt EXCEPT ![r] = clock]
  /\ Await(r, "shape.ticketKey")
  /\ UNCHANGED <<clock, redis, input, held, status, checkedAt, mintedAt, root, lost>>

GenerateTicket(r) ==
  /\ Recorded(r)
  /\ Await(r, "shape.ticketKey")
  /\ UNCHANGED <<clock, input, held, status, checkedAt, mintedAt, root, lost>>

RefuseReplay(r) ==
  /\ pc[r] = "tgs.replay"
  /\ Live(replay, ReplayKey(r), clock)
  /\ Throw(r, "AlreadyUsed")

-----------------------------------------------------------------------------
(* KdcInterceptor.shape, for both exchanges. *)

\* The Payload the handler returned: the principal the ticket is for, the key
\* the challenge is sealed under and the cap on the expiry.
Principal(r) == IF input[r].exchange = "AS" THEN TGS_PRINCIPAL ELSE input[r].id

ClientKey(r) == IF input[r].exchange = "AS" THEN userKey[r] ELSE Tgt(r).sessionKey

\* Mutant: the expiry is not capped by the TGT's.
ExpiresAtUncapped(r) ==
  clock + GetLifetime(input[r].requestedLifetime, Entry("interval", input[r].realm))

\* min(now + lifetime, maxExpiry); an AS request has no maxExpiry.
ExpiresAt(r) ==
  LET uncapped ==
        clock + GetLifetime(input[r].requestedLifetime, Entry("interval", input[r].realm))
  IN  IF input[r].exchange = "AS" THEN uncapped ELSE Lesser(uncapped, Tgt(r).lifetime)

GetTicketKey(r) ==
  /\ pc[r] = "shape.ticketKey"
  /\ Entry(Principal(r), input[r].realm) # None
  /\ ticketKey' = [ticketKey EXCEPT ![r] = Entry(Principal(r), input[r].realm)]
  /\ Await(r, "shape.interval")
  /\ UNCHANGED <<clock, redis, input, userKey, reply, status, history>>

RefusePrincipal(r) ==
  /\ pc[r] = "shape.ticketKey"
  /\ Entry(Principal(r), input[r].realm) = None
  /\ Throw(r, "NotFound")

\* Mutant: encrypt takes any value of the keytab for a key.
ShapeableAnyEntry(r) ==
  Entry("interval", input[r].realm) # None

\* The realm has a policy, and the ticket key is a key: "interval" is an entry
\* of the keytab too, and only encrypt notices that it is none.
Shapeable(r) ==
  /\ Entry("interval", input[r].realm) # None
  /\ ticketKey[r] # LifetimeInterval

Shape(r) ==
  /\ pc[r] = "shape.interval"
  /\ Shapeable(r)
  /\ LET challenge == [principal |-> Principal(r), lifetime |-> ExpiresAt(r),
                       sessionKey |-> SessionKey(r)]
         ticket == [principal |-> Principal(r), lifetime |-> ExpiresAt(r),
                    sessionKey |-> SessionKey(r),
                    username |-> IF input[r].exchange = "AS"
                                 THEN input[r].username ELSE Auth(r).username,
                    ip |-> input[r].ip]
     IN  reply' = [reply EXCEPT ![r] =
           [ticket |-> Encrypt(ticket, ticketKey[r]),
            challenge |-> Encrypt(challenge, ClientKey(r))]]
  /\ Answer(r, "Ok")
  /\ mintedAt' = [mintedAt EXCEPT ![r] = clock]
  /\ UNCHANGED <<clock, redis, input, userKey, ticketKey, checkedAt, setAt, root, lost>>

\* An Error that is no HttpException: the client gets a 500.
FailToShape(r) ==
  /\ pc[r] = "shape.interval"
  /\ ~ Shapeable(r)
  /\ Throw(r, "InternalError")

-----------------------------------------------------------------------------
(* Time, Redis and failures. *)

\* The command fails, or its reply is lost, or the process stops at the await:
\* the client gets a 500 or nothing.  A lost SET NX may have taken effect.
Fail(r) ==
  /\ pc[r] \notin {"idle", "done"}
  /\ Answer(r, "Failed")
  /\ Recorded(r) \/ UNCHANGED <<redis, setAt>>
  /\ UNCHANGED <<clock, input, held, checkedAt, mintedAt, root, lost>>

\* redis-server --save 20 1 writes a snapshot from time to time ...
Snapshot ==
  /\ restarts < MaxRestarts
  /\ saved' = [keytab |-> keytab, replay |-> replay]
  /\ UNCHANGED <<clock, keytab, replay, restarts, pc, input, held, status, history>>

\* ... and a restart loses what came after the last one.
RedisRestart ==
  /\ restarts < MaxRestarts
  /\ restarts' = restarts + 1
  /\ keytab' = saved.keytab
  /\ replay' = saved.replay
  /\ lost' = lost \cup
       {r \in Requests : setAt[r] # 0 /\ saved.replay[ReplayKey(r)] < setAt[r] + SKEW_MS}
  /\ UNCHANGED <<clock, saved, pc, input, held, status, checkedAt, setAt, mintedAt, root>>

\* The KDC restarts: the requests it was serving are gone, and it listens again
\* when KeytabSeeder has written the principals and the policies.
KdcRestart ==
  /\ restarts < MaxRestarts
  /\ restarts' = restarts + 1
  /\ pc' = [r \in Requests |-> IF pc[r] = "idle" THEN "idle" ELSE "done"]
  /\ status' = [r \in Requests |->
       IF pc[r] \in {"idle", "done"} THEN status[r] ELSE "Failed"]
  /\ keytab' = [e \in Names \X Realms |->
       IF e[1] \in Principals \cup {"interval"} THEN Seeded(e[1], e[2]) ELSE keytab[e]]
  /\ UNCHANGED <<clock, replay, saved, input, held, history>>

Tick ==
  /\ clock < MaxClock
  /\ clock' = clock + 1
  /\ UNCHANGED <<redis, pc, input, held, status, history>>

-----------------------------------------------------------------------------

\* The steps the KDC takes by itself once a request has arrived.
Serve(r) ==
  \/ GetUserKey(r) \/ RefusePreAuth(r) \/ Authenticate(r)
  \/ RefuseTarget(r) \/ FindTarget(r) \/ RefuseTgt(r) \/ Admit(r)
  \/ GenerateTicket(r) \/ RefuseReplay(r)
  \/ GetTicketKey(r) \/ RefusePrincipal(r) \/ Shape(r) \/ FailToShape(r)

Next ==
  \/ Tick
  \/ Snapshot
  \/ RedisRestart
  \/ KdcRestart
  \/ \E r \in Requests :
       \/ \E i \in AsInputs : PostAs(r, i)
       \/ \E q, p \in Requests, c \in TgsInputs : PostTgs(r, q, p, c)
       \/ Serve(r)
       \/ Fail(r)

Spec == Init /\ [][Next]_vars

\* Redis answers and the event loop runs every ready continuation.
FairSpec == Spec /\ \A r \in Requests : WF_vars(Serve(r))

-----------------------------------------------------------------------------

Commands ==
  {"idle", "as.userKey", "as.serviceKey", "tgs.target", "tgs.tgsKey", "tgs.replay",
   "shape.ticketKey", "shape.interval", "done"}

Statuses ==
  {"Pending", "BadRequest", "NotFound", "Unauthorized", "AlreadyUsed",
   "InternalError", "Failed", "Ok"}

Values == Keys \cup {None, LifetimeInterval}

TypeOK ==
  /\ clock \in Nat \ {0}
  /\ keytab \in [Names \X Realms -> Values]
  /\ replay \in [ReplayKeys -> Nat]
  /\ saved \in [keytab: [Names \X Realms -> Values], replay: [ReplayKeys -> Nat]]
  /\ restarts \in 0 .. MaxRestarts
  /\ pc \in [Requests -> Commands]
  /\ input \in [Requests -> AsInput \cup TgsInput \cup {None}]
  /\ userKey \in [Requests -> Values]
  /\ ticketKey \in [Requests -> Values]
  /\ reply \in [Requests -> Reply \cup {None}]
  /\ status \in [Requests -> Statuses]
  /\ checkedAt \in [Requests -> Nat]
  /\ setAt \in [Requests -> Nat]
  /\ mintedAt \in [Requests -> Nat]
  /\ root \in [Requests -> Requests \cup {None}]
  /\ lost \in SUBSET Requests

Issued(r) == reply[r].ticket.payload

\* However many tickets were exchanged for tickets, and whatever restarted in
\* between, a ticket goes back to one AS exchange in which the client proved
\* to hold the user's key of this realm, and it names that user and address.  Its
\* session key goes out under that user's key or, further down the chain, under
\* the session key of the ticket it was asked for with, so the one who proved it
\* is the one who can read it.
TracesToPreAuthentication ==
  \A r \in Requests :
    status[r] = "Ok" =>
      LET as == input[root[r]] IN
      /\ status[root[r]] = "Ok"
      /\ as.exchange = "AS"
      /\ Opens(as.preAuth, PrincipalKey(Issued(r).username, input[r].realm))
      /\ as.preAuth.payload.username = Issued(r).username
      /\ WithinSkew(as.preAuth.payload.timestamp, checkedAt[root[r]])
      /\ as.ip = Issued(r).ip
      /\ Opens(reply[r].challenge,
               IF root[r] = r THEN PrincipalKey(Issued(r).username, input[r].realm)
               ELSE Tgt(r).sessionKey)

\* README.md, "Ticket binding": no ticket of a chain outlives the TGT at its
\* start, so none is good for longer than the policy's maximum after it.
WithinGrant ==
  \A r \in Requests :
    status[r] = "Ok" =>
      /\ Issued(r).lifetime <= Issued(root[r]).lifetime
      /\ Issued(r).lifetime <= mintedAt[root[r]] + LifetimeInterval.max

\* Once a TGS request's authenticator is recorded, and so used up, the ticket
\* follows unless Redis or the KDC fails: everything that can be refused is
\* refused before.  Two things can still go wrong.  The target "interval", an
\* entry of the keytab and no principal, is a 500 every time; and after a restart
\* the target's entry or the policy may have gone between two lookups.
RecordedThenIssued ==
  \A r \in Requests :
    setAt[r] # 0 /\ pc[r] = "done" =>
      \/ status[r] = "Failed"
      \/ status[r] = "Ok" /\ input[r].id # "interval"
      \/ status[r] = "InternalError" /\ (input[r].id = "interval" \/ restarts # 0)
      \/ status[r] = "NotFound" /\ restarts # 0

RefusalIsOfRecorded(r) ==
  \E q \in Requests \ {r} :
    /\ setAt[q] # 0
    /\ clock <= setAt[q] + SKEW_MS
    /\ Auth(q) = Auth(r)
    /\ input[q].realm = input[r].realm

\* A TGS request is told "Authenticator already used" only when another one of
\* the same user and timestamp was recorded at most SKEW_MS ago, restarts of
\* Redis included: a snapshot brings no entry back beyond its time.
RefusedOnlyIfRecorded ==
  [][\A r \in Requests :
       status'[r] = "AlreadyUsed" /\ status[r] # "AlreadyUsed" => RefusalIsOfRecorded(r)]_vars

\* Every request that arrives is answered.
Answered ==
  \A r \in Requests : pc[r] # "idle" ~> pc[r] = "done"

\* The TGS keeps the promise of AcceptOnce: its acceptances are the
\* authenticators Redis recorded, and a restart of Redis loses records.
Acceptances ==
  {[by |-> r, id |-> ReplayKey(r), checked |-> checkedAt[r],
    recorded |-> setAt[r]] : r \in {q \in Requests : setAt[q] # 0}}

Promise == INSTANCE AcceptOnce WITH
  Ids <- ReplayKeys,
  StampOf <- [k \in ReplayKeys |-> k.timestamp],
  Skew <- SKEW_MS,
  accepted <- Acceptances,
  lost <- {a \in Acceptances : a.by \in lost}

ReplayPromise == Promise!Spec

\* README.md, "Replay defence", as far as it holds: of two requests that the TGS
\* records for one authenticator, neither record lost, the second comes when the
\* first record has run out, and only if the client's clock was ahead at the
\* first or the second was kept waiting for its record longer than the
\* authenticator was old.
RepeatedOnlyLate ==
  \A q, r \in Requests \ lost :
    /\ setAt[q] # 0 /\ setAt[r] # 0
    /\ q # r /\ ReplayKey(q) = ReplayKey(r)
    /\ setAt[q] <= setAt[r]
    =>
      /\ setAt[r] > setAt[q] + SKEW_MS
      /\ setAt[r] - checkedAt[r] > setAt[q] - Auth(q).timestamp

\* README.md, "Lifetimes are clamped to a per-realm minimum and maximum": a
\* ticket is good for at least the minimum.  (Not so for a service ticket asked
\* for late in the TGT's life: see the run kdc_minimum.)
AtLeastMinimum ==
  \A r \in Requests :
    status[r] = "Ok" => Issued(r).lifetime - mintedAt[r] >= LifetimeInterval.min

\* The clamping as far as it holds: a ticket that falls short of the minimum is a
\* TGS's, and shares its expiry with the TGT it was asked for with.  Nothing else
\* shortens it, neither the awaits before shape() nor what the client asks for.
ShortOnlyWithTgt ==
  \A r \in Requests :
    status[r] = "Ok" /\ Issued(r).lifetime < mintedAt[r] + LifetimeInterval.min =>
      input[r].exchange = "TGS" /\ Issued(r).lifetime = Tgt(r).lifetime

=============================================================================
