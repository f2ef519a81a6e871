--------------------------- MODULE TicketsManager ---------------------------
(***************************************************************************)
(* The application service's side of the AP exchange: POST                 *)
(* /tickets-manager/:realm, that is KerberosInterceptor followed by        *)
(* TicketsManagerService.generateTicket.                                   *)
(*                                                                         *)
(* Node runs the code between two awaits without interruption, so a        *)
(* request advances in two steps, one per Redis command: the lookup of     *)
(* the service's key with the synchronous checks that follow it, and the   *)
(* SET NX that records the authenticator with the reply that follows it.   *)
(* Any number of requests interleave between these steps, time passes and  *)
(* Redis may restart from its last snapshot.                               *)
(***************************************************************************)
EXTENDS CryptoService, ReplayCache

CONSTANTS
  Requests,      \* the HTTP requests the service receives
  Inputs,        \* the requests a client may post
  Realms,
  Principals,    \* the services a ticket may name
  Users,
  Ips,
  SessionKeys,
  Timestamps,    \* the timestamps clients put into authenticators
  SERVICE_NAME,  \* process.env.SERVICE_NAME
  None,          \* undefined, or a key that opens nothing
  MaxClock,      \* bound on the clock
  MaxRestarts    \* bound on the restarts of Redis

Keys == [principal: Principals, realm: Realms] \cup SessionKeys

Ticket == [principal: Principals, lifetime: Nat, sessionKey: SessionKeys,
           username: Users, ip: Ips]

Authenticator == [username: Users, timestamp: Timestamps]

\* A posted body, with the address and the realm it was posted from and to.
Input == [realm: Realms, ip: Ips,
          serviceTicket: [key: Keys \cup {None}, payload: Ticket],
          authenticator: [key: Keys \cup {None}, payload: Authenticator]]

ReplayKeys == [realm: Realms, principal: Principals, username: Users,
               timestamp: Timestamps]

ASSUME TicketsManagerAssumption ==
  /\ Inputs \subseteq Input
  /\ SERVICE_NAME \in Principals
  /\ Timestamps \subseteq Int
  /\ None \notin Keys
  /\ None \notin Inputs
  /\ MaxClock \in Nat \ {0}
  /\ MaxRestarts \in Nat

VARIABLES
  clock,      \* Date.now(), of the service and of Redis
  keytab,     \* the service's own entry of the Redis keytab, per realm
  replay,     \* the replay cache in Redis
  saved,      \* the last snapshot of both (redis-server --save)
  restarts,   \* restarts of Redis so far
  pc,         \* where each request is: it awaits the lookup, then the record
  input,      \* what each request carries
  status,     \* how each request was answered
  checkedAt,  \* history: when its timestamp was compared with the clock
  setAt,      \* history: when its SET NX took effect, 0 if it did not
  lost        \* history: the requests whose record a restart has dropped

redis == <<keytab, replay, saved, restarts>>
vars == <<clock, redis, pc, input, status, checkedAt, setAt, lost>>

Statuses == {"Pending", "NotFound", "Unauthorized", "AlreadyUsed", "Error",
             "Accepted"}

Init ==
  /\ clock = 1
  /\ keytab = [realm \in Realms |-> None]
  /\ replay = [k \in ReplayKeys |-> 0]
  /\ saved = [keytab |-> keytab, replay |-> replay]
  /\ restarts = 0
  /\ pc = [r \in Requests |-> "idle"]
  /\ input = [r \in Requests |-> None]
  /\ status = [r \in Requests |-> "Pending"]
  /\ checkedAt = [r \in Requests |-> 0]
  /\ setAt = [r \in Requests |-> 0]
  /\ lost = {}

-----------------------------------------------------------------------------

ServiceTicket(r) == input[r].serviceTicket.payload

Auth(r) == input[r].authenticator.payload

\* Mutant: the key names the user only, as an earlier version's did.
ReplayKeyOfUser(r) ==
  [realm |-> input[r].realm, principal |-> ServiceTicket(r).principal,
   username |-> Auth(r).username, timestamp |-> CHOOSE t \in Timestamps : TRUE]

\* replay:<realm>:<principal>:<username>:<timestamp>
ReplayKey(r) ==
  [realm |-> input[r].realm, principal |-> ServiceTicket(r).principal,
   username |-> Auth(r).username, timestamp |-> Auth(r).timestamp]

\* The interceptor's half: both envelopes open, the ticket names this service.
Decoded(r) ==
  /\ Opens(input[r].serviceTicket, keytab[input[r].realm])
  /\ ServiceTicket(r).principal = SERVICE_NAME
  /\ Opens(input[r].authenticator, ServiceTicket(r).sessionKey)

\* Mutant: the ticket's expiry is not tested.
ValidExpired(r) ==
  /\ ServiceTicket(r).ip = input[r].ip
  /\ ServiceTicket(r).username = Auth(r).username
  /\ WithinSkew(Auth(r).timestamp, clock)

\* The handler's checks: source, username, expiry and clock skew.
Valid(r) ==
  /\ ServiceTicket(r).ip = input[r].ip
  /\ ServiceTicket(r).username = Auth(r).username
  /\ clock <= ServiceTicket(r).lifetime
  /\ WithinSkew(Auth(r).timestamp, clock)

\* Mutant: the handler returns undefined.
AnswerUndefined(r, reply) ==
  /\ pc' = [pc EXCEPT ![r] = "done"]
  /\ status' = [status EXCEPT ![r] = None]

Answer(r, reply) ==
  /\ pc' = [pc EXCEPT ![r] = "done"]
  /\ status' = [status EXCEPT ![r] = reply]

-----------------------------------------------------------------------------

\* A client posts a body; the interceptor asks Redis for the service's key.
Post(r, i) ==
  /\ pc[r] = "idle"
  /\ pc' = [pc EXCEPT ![r] = "lookup"]
  /\ input' = [input EXCEPT ![r] = i]
  /\ UNCHANGED <<clock, redis, status, checkedAt, setAt, lost>>

\* An exception: nothing but the answer changes.
Throw(r, code) ==
  /\ Answer(r, code)
  /\ UNCHANGED <<clock, redis, input, checkedAt, setAt, lost>>

\* No key for this realm.
RefuseRealm(r) ==
  /\ pc[r] = "lookup"
  /\ keytab[input[r].realm] = None
  /\ Throw(r, "NotFound")

\* An envelope does not open or a check fails.
Refuse(r) ==
  /\ pc[r] = "lookup"
  /\ keytab[input[r].realm] # None
  /\ ~ (Decoded(r) /\ Valid(r))
  /\ Throw(r, "Unauthorized")

\* All checks pass; SET NX is sent to Redis.
Admit(r) ==
  /\ pc[r] = "lookup"
  /\ keytab[input[r].realm] # None
  /\ Decoded(r) /\ Valid(r)
  /\ pc' = [pc EXCEPT ![r] = "record"]
  /\ checkedAt' = [checkedAt EXCEPT ![r] = clock]
  /\ UNCHANGED <<clock, redis, input, status, setAt, lost>>

\* Mutant: the read and the write of the cache are not one command, so the
\* request is accepted whatever the cache holds by now.
RecordedUnconditionally(r) ==
  /\ pc[r] = "record"
  /\ replay' = [replay EXCEPT ![ReplayKey(r)] = clock + SKEW_MS]
  /\ setAt' = [setAt EXCEPT ![r] = clock]
  /\ UNCHANGED <<keytab, saved, restarts>>

\* SET NX takes effect: Redis had no entry and holds one now.
Recorded(r) ==
  /\ pc[r] = "record"
  /\ ~ Live(replay, ReplayKey(r), clock)
  /\ replay' = SetNX(replay, ReplayKey(r), clock)
  /\ setAt' = [setAt EXCEPT ![r] = clock]
  /\ UNCHANGED <<keytab, saved, restarts>>

\* The authenticator is recorded and the AP_REP is sent.
Record(r) ==
  /\ Recorded(r)
  /\ Answer(r, "Accepted")
  /\ UNCHANGED <<clock, input, checkedAt, lost>>

\* Mutant: a replay is noticed but the request is left without an answer.
RefuseReplaySilently(r) ==
  /\ pc[r] = "record"
  /\ Live(replay, ReplayKey(r), clock)
  /\ UNCHANGED vars

\* Redis had an entry.
RefuseReplay(r) ==
  /\ pc[r] = "record"
  /\ Live(replay, ReplayKey(r), clock)
  /\ Throw(r, "AlreadyUsed")

\* The command fails, or its reply is lost, or the process stops at the await:
\* the client gets a 500 or nothing.  A lost SET NX may have taken effect.
Fail(r) ==
  /\ pc[r] \in {"lookup", "record"}
  /\ Answer(r, "Error")
  /\ Recorded(r) \/ UNCHANGED <<redis, setAt>>
  /\ UNCHANGED <<clock, input, checkedAt, lost>>

\* The KDC's keytab seeder writes this service's key (kdc, at boot).
Seed(realm) ==
  /\ keytab' = [keytab EXCEPT ![realm] = PrincipalKey(SERVICE_NAME, realm)]
  /\ UNCHANGED <<clock, replay, saved, restarts, pc, input, status, checkedAt, setAt, lost>>

\* redis-server --save 20 1 writes a snapshot from time to time ...
Snapshot ==
  /\ restarts < MaxRestarts
  /\ saved' = [keytab |-> keytab, replay |-> replay]
  /\ UNCHANGED <<clock, keytab, replay, restarts, pc, input, status, checkedAt, setAt, lost>>

\* ... and a restart loses what came after the last one.
RedisRestart ==
  /\ restarts < MaxRestarts
  /\ restarts' = restarts + 1
  /\ keytab' = saved.keytab
  /\ replay' = saved.replay
  /\ lost' = lost \cup
       {r \in Requests : setAt[r] # 0 /\ saved.replay[ReplayKey(r)] < setAt[r] + SKEW_MS}
  /\ UNCHANGED <<clock, saved, pc, input, status, checkedAt, setAt>>

Tick ==
  /\ clock < MaxClock
  /\ clock' = clock + 1
  /\ UNCHANGED <<redis, pc, input, status, checkedAt, setAt, lost>>

\* The steps the service takes by itself once a request has arrived.
Serve(r) ==
  \/ RefuseRealm(r)
  \/ Refuse(r)
  \/ Admit(r)
  \/ Record(r)
  \/ RefuseReplay(r)

Next ==
  \/ Tick
  \/ Snapshot
  \/ RedisRestart
  \/ \E realm \in Realms : Seed(realm)
  \/ \E r \in Requests :
       \/ \E i \in Inputs : Post(r, i)
       \/ Serve(r)
       \/ Fail(r)

Spec == Init /\ [][Next]_vars

\* Redis answers and the event loop runs every ready continuation.
FairSpec == Spec /\ \A r \in Requests : WF_vars(Serve(r))

-----------------------------------------------------------------------------

TypeOK ==
  /\ clock \in Nat \ {0}
  /\ keytab \in [Realms -> Keys \cup {None}]
  /\ replay \in [ReplayKeys -> Nat]
  /\ saved \in [keytab: [Realms -> Keys \cup {None}], replay: [ReplayKeys -> Nat]]
  /\ restarts \in 0 .. MaxRestarts
  /\ pc \in [Requests -> {"idle", "lookup", "record", "done"}]
  /\ input \in [Requests -> Inputs \cup {None}]
  /\ status \in [Requests -> Statuses]
  /\ checkedAt \in [Requests -> Nat]
  /\ setAt \in [Requests -> Nat]
  /\ lost \in SUBSET Requests

\* Once an authenticator has been recorded, the record is there for as long as
\* the clock-skew test would let the same authenticator through, provided its
\* timestamp was not in the future when it was recorded and no restart of Redis
\* has dropped the record.
RecordOutlivesWindow ==
  \A r \in Requests \ lost :
    /\ setAt[r] # 0
    /\ Auth(r).timestamp <= setAt[r]
    /\ clock <= Auth(r).timestamp + SKEW_MS
    => Live(replay, ReplayKey(r), clock)

RefusalIsOfRecorded(r) ==
  \E q \in Requests \ {r} :
    /\ checkedAt[q] # 0 /\ setAt[q] # 0
    /\ clock <= setAt[q] + SKEW_MS
    /\ Auth(q) = Auth(r)
    /\ input[q].realm = input[r].realm

RefusesOnlyRecorded ==
  \A r \in Requests :
    status'[r] = "AlreadyUsed" /\ status[r] # "AlreadyUsed" => RefusalIsOfRecorded(r)

\* A request is told "Authenticator already used" only when another request
\* with the same username and timestamp passed every check and was recorded at
\* most SKEW_MS ago: an earlier session, another timestamp, a request that was
\* itself refused or an old snapshot of Redis never locks a client out.
RefusedOnlyIfRecorded == [][RefusesOnlyRecorded]_vars

\* Every request that arrives is answered.
Answered ==
  \A r \in Requests : pc[r] = "lookup" ~> pc[r] = "done"

\* The service keeps the promise of AcceptOnce: its acceptances are the
\* requests answered with an AP_REP, and a restart of Redis loses records.
Acceptances ==
  {[by |-> r, id |-> ReplayKey(r), checked |-> checkedAt[r],
    recorded |-> setAt[r]] : r \in {q \in Requests : status[q] = "Accepted"}}

Promise == INSTANCE AcceptOnce WITH
  Ids <- ReplayKeys,
  StampOf <- [k \in ReplayKeys |-> k.timestamp],
  Skew <- SKEW_MS,
  accepted <- Acceptances,
  lost <- {a \in Acceptances : a.by \in lost}

ReplayPromise == Promise!Spec

\* README.md, "Replay defence", as far as it holds: of two requests that are
\* accepted with one authenticator, neither record lost, the second comes when
\* the first record has run out, and only if the client's clock was ahead at the
\* first or the second was kept waiting for its record longer than the
\* authenticator was old.
RepeatedOnlyLate ==
  \A q, r \in Requests \ lost :
    /\ status[q] = "Accepted" /\ status[r] = "Accepted"
    /\ q # r /\ ReplayKey(q) = ReplayKey(r)
    /\ setAt[q] <= setAt[r]
    =>
      /\ setAt[r] > setAt[q] + SKEW_MS
      /\ setAt[r] - checkedAt[r] > setAt[q] - Auth(q).timestamp

\* README.md, "Replay defence": the entry lives exactly as long as the
\* clock-skew window in which a replay could still be accepted, so that no
\* authenticator is accepted twice.  (Not so: see the run ap_replay_window.)
AcceptedAtMostOnce ==
  \A q, r \in Requests :
    /\ status[q] = "Accepted" /\ status[r] = "Accepted"
    /\ input[q] = input[r]
    => q = r
=============================================================================
