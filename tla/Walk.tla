--------------------------------- MODULE Walk ---------------------------------
(***************************************************************************)
(* scripts/walk.mjs, the client of the protocol, against both running      *)
(* applications: registration, AS, TGS and AP exchange, the same           *)
(* authenticator again and a tampered ticket.                              *)
(*                                                                         *)
(* Composition of Registration and TicketsManager (the application         *)
(* service) with Kdc, on one Redis and one clock: what one of them writes  *)
(* is what another one reads.  Several walks run at once, requests fail,   *)
(* Redis restarts from a snapshot and the KDC restarts.                    *)
(***************************************************************************)
EXTENDS CryptoService, ReplayCache

CONSTANTS
  Walks,             \* runs of the script; each stands for its random username
  Realm,             \* REALM, which is configured
  Target,            \* TARGET, the SERVICE_NAME of the application service
  Principals,        \* the seeded principals
  Password,
  Here,              \* the client's address
  RequestedLifetime, \* 3 * HOURS
  LifetimeInterval,  \* the realm's policy
  DH_TTL,            \* DH_TTL_SECONDS
  None,
  MaxClock,          \* bound on the clock
  MaxRestarts        \* bound on the restarts of Redis and on those of the KDC

KdcRequests == Walks \X {"as", "tgs"}
ApRequests == Walks \X {"ap", "again", "tampered"}
Exchanges == Walks \X {"dh"}
Creates == Walks \X {"create"}
ServiceRequests == ApRequests \cup Exchanges \cup Creates

ASSUME WalkAssumption ==
  /\ {"tgs", Target} \subseteq Principals /\ Target # "tgs"
  /\ Principals \cap Walks = {}
  /\ "interval" \notin Principals \cup Walks
  /\ LifetimeInterval \in [min: Nat \ {0}, max: Nat \ {0}]
  /\ None \notin {Target, LifetimeInterval} \cup Exchanges
  /\ None \notin [principal: Principals, realm: {Realm}]
  /\ None \notin [password: {Password}, realm: {Realm}, username: Walks]
  /\ DH_TTL \in Nat /\ RequestedLifetime \in Nat
  /\ MaxClock \in Nat \ {0} /\ MaxRestarts \in Nat

VARIABLES
  clock,
  dh, keytab, replay, saved, restarts,      \* Redis, its snapshot and restarts
  users,                                    \* PostgreSQL
  pc, status,                               \* the application service
  kdcPc, kdcStatus, kdcRestarts,            \* the KDC
  userKey, ticketKey, reply,
  input, checkedAt, setAt, mintedAt, root,  \* of the requests of both
  at,        \* the reply each walk awaits
  started,   \* history: when it began
  expired    \* history: the walks whose DH secret is gone

redis == <<dh, keytab, replay, saved, restarts, expired>>
service == <<pc, status>>
kdc == <<kdcPc, kdcStatus, kdcRestarts, userKey, ticketKey, reply, mintedAt, root>>
client == <<at, started>>
stamps == <<checkedAt, setAt>>
vars == <<clock, redis, users, service, kdc, input, stamps, client>>

K == INSTANCE Kdc WITH
  Requests <- KdcRequests, AsInputs <- {}, TgsInputs <- {}, Realms <- {Realm},
  Users <- Walks, Registered <- {}, Ips <- {Here}, Timestamps <- 1 .. MaxClock,
  Lifetimes <- {RequestedLifetime},
  pc <- kdcPc, status <- kdcStatus, restarts <- kdcRestarts, lost <- {}

\* The one entry of the keytab that the AP exchange reads.
T == INSTANCE TicketsManager WITH
  Requests <- ApRequests, Inputs <- {}, Realms <- {Realm}, Users <- Walks,
  Ips <- {Here}, SessionKeys <- K!SessionKeys, Timestamps <- 1 .. MaxClock,
  SERVICE_NAME <- Target, lost <- {},
  keytab <- [realm \in {Realm} |-> keytab[<<Target, realm>>]]

R == INSTANCE Registration WITH
  Users <- Walks, Realms <- {Realm}, Configured <- {Realm}, Passwords <- {Password},
  Short <- {}, Groups <- {"modp15"}, GROUPS <- {"modp15"}

ClientKey(w) == R!String2Key(Password, Realm, w)

\* What the script posts and what the KDC replies.
Sealed(payloads) ==
  [key: [principal: Principals, realm: {Realm}] \cup {ClientKey(w) : w \in Walks}
          \cup K!SessionKeys \cup {None},
   payload: payloads]

AsBody == [exchange: {"AS"}, realm: {Realm}, ip: {Here}, username: Walks, serviceName: {Target},
           requestedLifetime: {RequestedLifetime}, preAuth: Sealed(K!Authenticator)]
TgsBody == [exchange: {"TGS"}, realm: {Realm}, ip: {Here}, id: {Target},
            requestedLifetime: {RequestedLifetime}, tgt: Sealed(K!Ticket),
            authenticator: Sealed(K!Authenticator)]
ApBody == [realm: {Realm}, ip: {Here}, serviceTicket: Sealed(K!Ticket),
           authenticator: Sealed(K!Authenticator)]
Replies == [ticket: Sealed(K!Ticket), challenge: Sealed(K!Challenge)]

\* Nothing that is posted or replied is undefined.
ASSUME BodyAssumption ==
  None \notin Walks \cup R!CreateUser \cup AsBody \cup TgsBody \cup ApBody \cup Replies

Cleared(keys) == [keytab |-> keys, replay |-> [k \in T!ReplayKeys |-> 0],
                  dh |-> [w \in Walks |-> None]]

\* Both applications listen, so the KDC has seeded; nobody is registered.
Init ==
  /\ clock = 1
  /\ keytab = K!FullKeytab
  /\ replay = Cleared(keytab).replay
  /\ dh = Cleared(keytab).dh
  /\ saved \in {Cleared(K!FullKeytab), Cleared(K!EmptyKeytab)}
  /\ restarts = 0 /\ kdcRestarts = 0 /\ expired = {}
  /\ users = [n \in R!Names |-> None]
  /\ pc = [r \in ServiceRequests |-> "idle"]
  /\ status = [r \in ServiceRequests |-> "Pending"]
  /\ kdcPc = [r \in KdcRequests |-> "idle"]
  /\ kdcStatus = [r \in KdcRequests |-> "Pending"]
  /\ userKey = [r \in KdcRequests |-> None]
  /\ ticketKey = userKey /\ reply = userKey /\ root = userKey
  /\ mintedAt = [r \in KdcRequests |-> 0]
  /\ input = [r \in KdcRequests \cup ServiceRequests |-> None]
  /\ checkedAt = [r \in KdcRequests \cup ApRequests |-> 0]
  /\ setAt = checkedAt
  /\ at = [w \in Walks |-> "start"]
  /\ started = [w \in Walks |-> 0]

-----------------------------------------------------------------------------
(* A step of one application leaves the other's state and the rest alone. *)

ByKdc == UNCHANGED <<dh, restarts, expired, users, service>>
ByTickets == UNCHANGED <<dh, keytab, expired, users, kdc>>
ByRegistration == UNCHANGED <<clock, replay, kdc, stamps>>

ServeKdc(r) == K!Serve(r) /\ ByKdc /\ UNCHANGED client
ServeTickets(r) == ByTickets /\ T!Serve(r) /\ UNCHANGED client
ServeRegistration(r) ==
  /\ IF r \in Exchanges THEN R!ServeExchange(r) ELSE R!ServeCreate(r)
  /\ ByRegistration /\ UNCHANGED client

Fail ==
  /\ \/ \E r \in KdcRequests : K!Fail(r) /\ ByKdc
     \/ \E r \in ApRequests : ByTickets /\ T!Fail(r)
     \/ \E r \in Exchanges \cup Creates : R!Fail(r) /\ ByRegistration
  /\ UNCHANGED client

KdcRestart == K!KdcRestart /\ ByKdc /\ UNCHANGED client

\* The secret is gone DH_TTL after it was cached, which was after the start.
Expire(w) ==
  /\ clock > started[w] + DH_TTL
  /\ R!Expire(w)
  /\ ByRegistration /\ UNCHANGED client

\* redis-server --save 20 1 writes a snapshot from time to time ...
Snapshot ==
  /\ restarts < MaxRestarts
  /\ saved' = [keytab |-> keytab, replay |-> replay, dh |-> dh]
  /\ UNCHANGED <<clock, dh, keytab, replay, restarts, expired, users, service, kdc, input,
                 stamps, client>>

\* ... and a restart loses what came after the last one.
RedisRestart ==
  /\ restarts < MaxRestarts
  /\ restarts' = restarts + 1
  /\ keytab' = saved.keytab /\ replay' = saved.replay /\ dh' = saved.dh
  /\ UNCHANGED <<clock, saved, expired, users, service, kdc, input, stamps, client>>

Tick ==
  /\ clock < MaxClock
  /\ clock' = clock + 1
  /\ UNCHANGED <<redis, users, service, kdc, input, stamps, client>>

-----------------------------------------------------------------------------
(* The script: each action is main() from one reply to the next request. *)

Moves(w, leg) == at' = [at EXCEPT ![w] = leg] /\ UNCHANGED started

\* encrypt({ username, timestamp: Date.now() }, key)
Authenticator(w, key) == Encrypt([username |-> w, timestamp |-> clock], key)

Reply(w, leg) == reply[<<w, leg>>]
SessionKeyOf(w, leg) == Reply(w, leg).challenge.payload.sessionKey
Expiry(w, leg) == Reply(w, leg).challenge.payload.lifetime

\* KerberosInterceptor's answer to an accepted AP request.
ApRep(r) == Encrypt(T!Auth(r), T!ServiceTicket(r).sessionKey)

\* post() throws unless the status is the expected one.
Expected(w) ==
  LET r == <<w, at[w]>> IN
  \/ at[w] = "dh" /\ status[r] = "Ok"
  \/ at[w] = "create" /\ status[r] = "Created"
  \/ at[w] \in {"as", "tgs"} /\ kdcStatus[r] = "Ok"
  \/ at[w] = "ap" /\ status[r] = "Accepted"
  \/ at[w] \in {"again", "tampered"} /\ status[r] \in {"Unauthorized", "AlreadyUsed"}

\* What main() reads from a reply opens, and is what it should be.
Readable(w) ==
  LET r == <<w, at[w]>> IN
  /\ at[w] = "as" => Opens(reply[r].challenge, ClientKey(w))
  /\ at[w] = "tgs" =>
       /\ Opens(reply[r].challenge, SessionKeyOf(w, "as"))
       /\ Expiry(w, "tgs") <= Expiry(w, "as")
  /\ at[w] = "ap" =>
       /\ Opens(ApRep(r), SessionKeyOf(w, "tgs"))
       /\ ApRep(r).payload.timestamp = input[r].authenticator.payload.timestamp

Good(w) == Expected(w) /\ Readable(w)

Answered(w) ==
  \/ <<w, at[w]>> \in KdcRequests /\ kdcPc[<<w, at[w]>>] = "done"
  \/ <<w, at[w]>> \in ServiceRequests /\ pc[<<w, at[w]>>] = "done"

Continues(w, leg) == at[w] = leg /\ Answered(w) /\ Good(w)

KeyExchange(w) ==
  /\ at[w] = "start"
  /\ R!PostExchange(<<w, "dh">>, w, "modp15", TRUE)
  /\ at' = [at EXCEPT ![w] = "dh"]
  /\ started' = [started EXCEPT ![w] = clock]
  /\ ByRegistration

Register(w) ==
  /\ Continues(w, "dh")
  /\ R!PostCreate(<<w, "create">>, w, Realm, <<w, "dh">>, Password)
  /\ Moves(w, "create") /\ ByRegistration

AskTgt(w) ==
  /\ Continues(w, "create")
  /\ K!PostAs(<<w, "as">>,
       [exchange |-> "AS", realm |-> Realm, ip |-> Here, username |-> w,
        serviceName |-> Target, requestedLifetime |-> RequestedLifetime,
        preAuth |-> Authenticator(w, ClientKey(w))])
  /\ Moves(w, "as") /\ ByKdc

AskTicket(w) ==
  /\ Continues(w, "as")
  /\ K!PostTgs(<<w, "tgs">>, <<w, "as">>, <<w, "as">>,
       [realm |-> Realm, ip |-> Here, id |-> Target,
        requestedLifetime |-> RequestedLifetime,
        authenticator |-> [username |-> w, timestamp |-> clock]])
  /\ Moves(w, "tgs") /\ ByKdc

PostAp(w, leg, ticket, authenticator) ==
  /\ ByTickets
  /\ T!Post(<<w, leg>>, [realm |-> Realm, ip |-> Here, serviceTicket |-> ticket,
                         authenticator |-> authenticator])
  /\ Moves(w, leg)

Present(w) ==
  /\ Continues(w, "tgs")
  /\ PostAp(w, "ap", Reply(w, "tgs").ticket, Authenticator(w, SessionKeyOf(w, "tgs")))

Replay(w) ==
  /\ Continues(w, "ap")
  /\ PostAp(w, "again", Reply(w, "tgs").ticket, input[<<w, "ap">>].authenticator)

\* The first character of the ciphertext is replaced by an A: the ticket opens
\* under no key, unless that character was an A already.
Tampered(ticket) == {[ticket EXCEPT !.key = None], ticket}

Tamper(w) ==
  /\ Continues(w, "again")
  /\ \E ticket \in Tampered(Reply(w, "tgs").ticket) :
       PostAp(w, "tampered", ticket, Authenticator(w, SessionKeyOf(w, "tgs")))

\* The last line of main(), or the Error that ends the process.
End(w) ==
  /\ Answered(w)
  /\ \/ at[w] = "tampered" /\ Good(w) /\ Moves(w, "completed")
     \/ ~ Good(w) /\ Moves(w, "failed")
  /\ UNCHANGED <<clock, redis, users, service, kdc, input, stamps>>

Main(w) ==
  \/ KeyExchange(w) \/ Register(w) \/ AskTgt(w) \/ AskTicket(w)
  \/ Present(w) \/ Replay(w) \/ Tamper(w) \/ End(w)

Next ==
  \/ Tick \/ Snapshot \/ RedisRestart \/ KdcRestart \/ Fail
  \/ \E w \in Walks : Main(w) \/ Expire(w)
  \/ \E r \in KdcRequests : ServeKdc(r)
  \/ \E r \in ApRequests : ServeTickets(r)
  \/ \E r \in Exchanges \cup Creates : ServeRegistration(r)

Spec == Init /\ [][Next]_vars

\* The stores answer, both event loops run, and a walk that was started is left
\* to run.
FairSpec ==
  /\ Spec
  /\ \A w \in Walks : WF_vars(at[w] # "start" /\ Main(w))
  /\ \A r \in KdcRequests : WF_vars(ServeKdc(r))
  /\ \A r \in ApRequests : WF_vars(ServeTickets(r))
  /\ \A r \in Exchanges \cup Creates : WF_vars(ServeRegistration(r))

-----------------------------------------------------------------------------

Legs == {"dh", "create", "as", "tgs", "ap", "again", "tampered"}

\* The keytab holds what KeytabSeeder and registration write, or nothing.
KeytabOK(keys) ==
  /\ DOMAIN keys = K!Names \X {Realm}
  /\ \A w \in Walks : keys[<<w, Realm>>] \in {ClientKey(w), None}
  /\ \A principal \in Principals :
       keys[<<principal, Realm>>] \in {PrincipalKey(principal, Realm), None}
  /\ keys[<<"interval", Realm>>] \in {LifetimeInterval, None}

\* What is in Redis, in PostgreSQL and on the wire, where a walk is and how it
\* was answered.
TypeOK ==
  /\ at \in [Walks -> Legs \cup {"start", "completed", "failed"}]
  /\ started \in [Walks -> 0 .. clock]
  /\ status \in [ServiceRequests -> T!Statuses \cup R!Statuses]
  /\ kdcStatus \in [KdcRequests -> K!Statuses]
  /\ KeytabOK(keytab) /\ KeytabOK(saved.keytab)
  /\ replay \in [T!ReplayKeys -> Nat] /\ saved.replay \in [T!ReplayKeys -> Nat]
  /\ users \in [R!Names -> {ClientKey(w) : w \in Walks} \cup {None}]
  /\ userKey \in [KdcRequests -> {ClientKey(w) : w \in Walks} \cup {None}]
  /\ ticketKey \in [KdcRequests -> [principal: Principals, realm: {Realm}] \cup {None}]
  /\ reply \in [KdcRequests -> Replies \cup {None}]
  /\ DOMAIN input = KdcRequests \cup ServiceRequests
  /\ \A r \in KdcRequests : input[r] \in AsBody \cup TgsBody \cup {None}
  /\ \A r \in ApRequests : input[r] \in ApBody \cup {None}
  /\ \A r \in Creates : input[r] \in R!CreateUser \cup {None}
  /\ \A r \in Exchanges : input[r] \in Walks \cup {None}
  /\ \A r \in KdcRequests : (kdcPc[r] = "idle") = (input[r] = None)
  /\ \A r \in ServiceRequests : (pc[r] = "idle") = (input[r] = None)
  /\ \A r \in KdcRequests : (kdcStatus[r] = "Ok") = (reply[r] # None)

\* The two applications write one keytab, registration under the users' names and
\* the KDC at every boot, and Redis restarts from a snapshot of both: together
\* they keep the promise of PrincipalRegistry.
Registry == INSTANCE PrincipalRegistry WITH
  Names <- R!Names,
  Key <- {ClientKey(w) : w \in Walks},
  registered <- users,
  known <- [n \in R!Names |-> keytab[n]]

RegistryPromise == Registry!Spec

Requests(w) == {r \in KdcRequests \cup ServiceRequests : r[1] = w}

Altered(w) ==
  pc[<<w, "tampered">>] # "idle" => input[<<w, "tampered">>].serviceTicket.key = None

\* Nothing that the script cannot help has come in its way.
Undisturbed(w) ==
  /\ restarts = 0
  /\ clock <= started[w] + Lesser(SKEW_MS, DH_TTL)
  /\ \A r \in Requests(w) \cap KdcRequests : kdcStatus[r] # "Failed"
  /\ \A r \in Requests(w) \cap ServiceRequests : status[r] # "Failed"
  /\ \A r \in Requests(w) \cap ServiceRequests : status[r] # "Error"
  /\ Altered(w)

\* The four legs fit together: a walk that no failure touched, and that took no
\* longer than its timestamps and its DH secret are good for, gets from every leg
\* what it expects, whether or not the KDC restarts between two of its
\* requests.
WalkCompletes ==
  \A w \in Walks : at[w] = "failed" => ~ Undisturbed(w)

\* What the service accepts goes back through both tickets to a registration:
\* the AS opened the pre-authenticator with the key that PostgreSQL holds for
\* this user, and the service checked the request before the AS's grant ended,
\* whatever was lost in between.
AcceptedWithinGrant ==
  \A r \in ApRequests :
    status[r] = "Accepted" =>
      LET tgs == T!ServiceTicket(r).sessionKey.session
          as == root[tgs]
      IN  /\ kdcStatus[as] = "Ok" /\ kdcStatus[tgs] = "Ok"
          /\ input[as].preAuth.key = users[<<T!Auth(r).username, Realm>>]
          /\ checkedAt[r] <= K!Issued(as).lifetime

\* A walk that has begun comes to its end.
WalkEnds ==
  \A w \in Walks : at[w] # "start" ~> at[w] \in {"completed", "failed"}

\* walk.mjs, "A tampered ciphertext must be refused": the last request of the
\* script is.  (Not so when the first character of the ciphertext was an A: see
\* the run walk_tamper.)
TamperedRefused ==
  \A w \in Walks : status[<<w, "tampered">>] # "Accepted"
=============================================================================
