-------------------------- MODULE WalkCompletesProofs --------------------------
(***************************************************************************)
(* Walk, proved for any number of walks and restarts and any skew and TTL: *)
(* under a policy whose tickets last as long as a walk may take, a walk    *)
(* that nothing disturbs gets from every leg what the script expects.      *)
(***************************************************************************)
EXTENDS WalkProofs

Dh(w) == <<w, "dh">>
Ap(w) == <<w, "ap">>
Again(w) == <<w, "again">>
Tampering(w) == <<w, "tampered">>
ServiceLegs(w) == {Dh(w), Create(w)} \cup {<<w, leg>> : leg \in ApLegs}

\* How long a walk may take.
Horizon == Lesser(SKEW_MS, DH_TTL)

\* The realm's policy lets a ticket last as long as a walk may take.
LongEnough == Horizon <= K!GetLifetime(RequestedLifetime, LifetimeInterval)

ReplayKeyOf(principal, w, stamp) ==
  [realm |-> Realm, principal |-> principal, username |-> w, timestamp |-> stamp]

\* A timestamp that the walk has taken from the clock since its start.
Stamped(w, stamp) ==
  stamp \in 1 .. MaxClock /\ started[w] <= stamp /\ stamp <= clock

\* What the script has sent, in order, and whose row in PostgreSQL it is.
Sent(w) ==
  /\ started[w] \in Nat /\ started[w] <= clock
  /\ status[Dh(w)] # "Pending" => pc[Dh(w)] = "done"
  /\ pc[Dh(w)] # "idle" => input[Dh(w)] = w
  /\ pc[Create(w)] # "idle" =>
       status[Dh(w)] = "Ok" /\ input[Create(w)].password.key = Dh(w)
  /\ pc[Create(w)] \in {"idle", "dh.get", "db.findOne", "db.save"} =>
       users[<<w, Realm>>] = None
  /\ kdcPc[As(w)] # "idle" =>
       /\ input[As(w)].username = w /\ input[As(w)].serviceName = Target
       /\ input[As(w)].ip = Here
       /\ input[As(w)].preAuth.payload.username = w
       /\ Stamped(w, input[As(w)].preAuth.payload.timestamp)
  /\ kdcPc[Tgs(w)] # "idle" =>
       /\ input[Tgs(w)].id = Target /\ input[Tgs(w)].ip = Here
       /\ input[Tgs(w)].authenticator.key = reply[As(w)].challenge.payload.sessionKey
       /\ Stamped(w, input[Tgs(w)].authenticator.payload.timestamp)
  /\ \A leg \in ApLegs : pc[<<w, leg>>] # "idle" => input[<<w, leg>>].realm = Realm
  /\ pc[Ap(w)] # "idle" =>
       /\ input[Ap(w)].ip = Here
       /\ input[Ap(w)].serviceTicket = reply[Tgs(w)].ticket
       /\ input[Ap(w)].authenticator.key = reply[Tgs(w)].challenge.payload.sessionKey
       /\ input[Ap(w)].authenticator.payload.username = w
       /\ Stamped(w, input[Ap(w)].authenticator.payload.timestamp)
  /\ pc[Again(w)] # "idle" =>
       /\ status[Ap(w)] = "Accepted"
       /\ input[Again(w)].authenticator = input[Ap(w)].authenticator
  /\ pc[Tampering(w)] # "idle" => status[Ap(w)] = "Accepted"

\* Until Redis restarts, the seeder's entries are there, a user's from its
\* registration on, and no authenticator is recorded before its request is.
SeedsThere ==
  /\ \A principal \in Principals :
       keytab[<<principal, Realm>>] = PrincipalKey(principal, Realm)
  /\ keytab[<<"interval", Realm>>] = LifetimeInterval

Recordless(w) ==
  /\ kdcPc[Tgs(w)] \notin {"done"} \cup Shaping =>
       \A stamp \in 1 .. MaxClock : replay[ReplayKeyOf("tgs", w, stamp)] = 0
  /\ pc[Ap(w)] # "done" =>
       \A stamp \in 1 .. MaxClock : replay[ReplayKeyOf(Target, w, stamp)] = 0

Fresh ==
  restarts = 0 =>
    /\ DOMAIN replay = T!ReplayKeys /\ DOMAIN dh = Walks
    /\ SeedsThere
    /\ \A w \in Walks :
         /\ Recordless(w)
         /\ pc[Create(w)] = "dh.del" \/ status[Create(w)] = "Created" =>
              keytab[<<w, Realm>>] = ClientKey(w)

\* What an undisturbed walk has got so far.
RegisteredSoFar(w) ==
  /\ pc[Dh(w)] = "done" => status[Dh(w)] = "Ok"
  /\ status[Dh(w)] = "Ok" /\ pc[Create(w)] \in {"idle", "dh.get"} => dh[w] = Dh(w)
  /\ pc[Create(w)] = "done" => status[Create(w)] = "Created"

\* The ticket is for the principal and from here, it lasts to the horizon, and
\* the challenge says the same.
Grants(w, r, principal, key) ==
  /\ reply[r].ticket.key = PrincipalKey(principal, Realm)
  /\ K!Issued(r).principal = principal
  /\ K!Issued(r).username = w
  /\ K!Issued(r).ip = Here
  /\ started[w] + Horizon <= K!Issued(r).lifetime
  /\ reply[r].challenge.key = key
  /\ reply[r].challenge.payload.sessionKey = SessionKey(r)
  /\ reply[r].challenge.payload.lifetime = K!Issued(r).lifetime

TicketsSoFar(w) ==
  /\ kdcPc[As(w)] = "done" => kdcStatus[As(w)] = "Ok"
  /\ kdcPc[As(w)] \in {"as.serviceKey"} \cup Shaping => userKey[As(w)] = ClientKey(w)
  /\ kdcPc[As(w)] = "shape.interval" => ticketKey[As(w)] = PrincipalKey("tgs", Realm)
  /\ kdcStatus[As(w)] = "Ok" => Grants(w, As(w), "tgs", ClientKey(w))
  /\ kdcPc[Tgs(w)] = "done" => kdcStatus[Tgs(w)] = "Ok"
  /\ kdcPc[Tgs(w)] = "shape.interval" => ticketKey[Tgs(w)] = PrincipalKey(Target, Realm)
  /\ kdcStatus[Tgs(w)] = "Ok" => Grants(w, Tgs(w), Target, SessionKey(As(w)))

Refusal == {"Unauthorized", "AlreadyUsed"}

AnswersSoFar(w) ==
  /\ pc[Ap(w)] = "done" => status[Ap(w)] = "Accepted"
  /\ status[Ap(w)] = "Accepted" =>
       /\ replay[T!ReplayKey(Ap(w))] \in Nat
       /\ started[w] + Horizon <= replay[T!ReplayKey(Ap(w))]
  /\ pc[Again(w)] = "done" => status[Again(w)] \in Refusal
  /\ pc[Tampering(w)] \in {"idle", "lookup", "done"}
  /\ pc[Tampering(w)] = "done" => status[Tampering(w)] \in Refusal

OnTrack(w) == RegisteredSoFar(w) /\ TicketsSoFar(w) /\ AnswersSoFar(w)

Held ==
  /\ clock \in 1 .. MaxClock /\ restarts \in Nat
  /\ DOMAIN userKey = KdcRequests /\ DOMAIN ticketKey = KdcRequests
  /\ DOMAIN at = Walks /\ DOMAIN started = Walks

WalkInv ==
  /\ Inv
  /\ Held
  /\ Fresh
  /\ \A w \in Walks :
       /\ Sent(w)
       /\ Undisturbed(w) => OnTrack(w)
       /\ at[w] = "failed" => ~ Undisturbed(w)

USE SkewAssumption, WalkAssumption

LEMMA HorizonIsNat == Horizon \in Nat /\ Horizon <= SKEW_MS /\ Horizon <= DH_TTL
BY DEF Horizon, Lesser

\* The requests of a walk.
LEMMA LegsOfWalk ==
  ASSUME NEW w \in Walks
  PROVE  /\ Requests(w) \cap KdcRequests = {As(w), Tgs(w)}
         /\ Requests(w) \cap ServiceRequests = ServiceLegs(w)
         /\ As(w) \in KdcRequests /\ Tgs(w) \in KdcRequests /\ As(w) # Tgs(w)
         /\ Dh(w) \in Exchanges /\ Create(w) \in Creates
         /\ Ap(w) \in ApRequests /\ Again(w) \in ApRequests /\ Tampering(w) \in ApRequests
         /\ ServiceLegs(w) = {Dh(w), Create(w), Ap(w), Again(w), Tampering(w)}
         /\ ServiceLegs(w) \subseteq ServiceRequests
         /\ <<w, Realm>> \in R!Names
<1>1. Requests(w) \cap KdcRequests = {As(w), Tgs(w)}
  BY DEF Requests, KdcRequests, As, Tgs
<1>2. ServiceLegs(w) = {Dh(w), Create(w), Ap(w), Again(w), Tampering(w)}
  BY DEF ServiceLegs, ApLegs, Ap, Again, Tampering
<1>3. Requests(w) \cap ServiceRequests = ServiceLegs(w)
  <2>1. ASSUME NEW q \in ServiceRequests, q[1] = w
        PROVE  q \in ServiceLegs(w)
    BY <1>2, <2>1 DEF ServiceRequests, ApRequests, Exchanges, Creates, Dh, Create, Ap, Again,
       Tampering
  <2>2. \A q \in ServiceLegs(w) : q \in ServiceRequests /\ q[1] = w
    BY <1>2 DEF ServiceRequests, ApRequests, Exchanges, Creates, Dh, Create, Ap, Again, Tampering
  <2>3. QED
    BY <2>1, <2>2 DEF Requests
<1>4. QED
  BY <1>1, <1>2, <1>3 DEF KdcRequests, ApRequests, Exchanges, Creates, As, Tgs, Dh, Create, Ap,
     Again, Tampering, R!Names

\* What is undisturbed has nothing that failed, and time left.
LEMMA CalmMeans ==
  ASSUME NEW w \in Walks, Undisturbed(w)
  PROVE  /\ restarts = 0 /\ clock <= started[w] + Horizon
         /\ \A r \in {As(w), Tgs(w)} : kdcStatus[r] # "Failed"
         /\ \A q \in ServiceLegs(w) : status[q] \notin {"Failed", "Error"}
BY LegsOfWalk DEF Undisturbed, Horizon

\* Time goes on and answers stay what they are.
Onward == (restarts' = 0 => restarts = 0) /\ clock <= clock' /\ clock' \in Nat

Settles(w) ==
  /\ started'[w] = started[w]
  /\ \A r \in {As(w), Tgs(w)} : kdcPc[r] = "done" => kdcStatus'[r] = kdcStatus[r]
  /\ \A q \in ServiceLegs(w) : pc[q] = "done" => status'[q] = status[q]
  /\ pc[Tampering(w)] # "idle" =>
       pc'[Tampering(w)] # "idle" /\ input'[Tampering(w)] = input[Tampering(w)]

LEMMA CalmBefore ==
  ASSUME NEW w \in Walks, WalkInv, Onward, Settles(w), Undisturbed(w)'
  PROVE  Undisturbed(w)
<1>1. /\ restarts' = 0 /\ clock' <= started'[w] + Horizon
      /\ \A r \in {As(w), Tgs(w)} : kdcStatus'[r] # "Failed"
      /\ \A q \in ServiceLegs(w) : status'[q] \notin {"Failed", "Error"}
      /\ pc'[Tampering(w)] # "idle" => input'[Tampering(w)].serviceTicket.key = None
  BY LegsOfWalk DEF Undisturbed, Horizon, Altered, Tampering
<1>2. started[w] \in Nat /\ clock \in Nat /\ clock <= started[w] + Horizon
  <2>1. started[w] \in Nat /\ clock \in 1 .. MaxClock /\ Sent(w)
    BY DEF WalkInv, Held, Sent
  <2>2. clock' <= started[w] + Horizon /\ clock <= clock' /\ clock' \in Nat
    BY <1>1 DEF Onward, Settles
  <2>3. QED
    BY <2>1, <2>2, HorizonIsNat
<1>3. \A r \in {As(w), Tgs(w)} : kdcStatus[r] # "Pending" => kdcPc[r] = "done"
  BY DEF WalkInv, Inv, OfWalk, OfAs, OfTgs
<1>4. \A q \in ServiceLegs(w) : status[q] # "Pending" => pc[q] = "done"
  <2>1. OfWalk(w) /\ Sent(w)
    BY DEF WalkInv, Inv
  <2>2. \A leg \in ApLegs : status[<<w, leg>>] # "Pending" => pc[<<w, leg>>] = "done"
    BY <2>1 DEF OfWalk, OfAp
  <2>3. /\ status[Create(w)] # "Pending" => pc[Create(w)] = "done"
        /\ status[Dh(w)] # "Pending" => pc[Dh(w)] = "done"
    BY <2>1 DEF OfWalk, OfCreate, Sent
  <2>4. QED
    BY <2>2, <2>3 DEF ServiceLegs
<1>5. \A r \in {As(w), Tgs(w)} : kdcStatus[r] # "Failed"
  BY <1>1, <1>3 DEF Settles
<1>6. \A q \in ServiceLegs(w) : status[q] \notin {"Failed", "Error"}
  BY <1>1, <1>4 DEF Settles
<1>7. Altered(w)
  BY <1>1 DEF Settles, Altered, Tampering
<1>8. QED
  BY <1>1, <1>2, <1>5, <1>6, <1>7, LegsOfWalk DEF Undisturbed, Onward, Horizon

-----------------------------------------------------------------------------
(* A step of one walk leaves the others alone. *)

Rested(w) ==
  /\ started'[w] = started[w]
  /\ \A r \in {As(w), Tgs(w)} :
       /\ kdcPc'[r] = kdcPc[r] /\ kdcStatus'[r] = kdcStatus[r] /\ input'[r] = input[r]
       /\ reply'[r] = reply[r] /\ userKey'[r] = userKey[r] /\ ticketKey'[r] = ticketKey[r]
  /\ \A q \in ServiceLegs(w) :
       pc'[q] = pc[q] /\ status'[q] = status[q] /\ input'[q] = input[q]
  /\ users'[<<w, Realm>>] = users[<<w, Realm>>]

LEMMA RestedSettles ==
  ASSUME NEW w \in Walks, Rested(w)
  PROVE  Settles(w)
BY LegsOfWalk DEF Rested, Settles

LEMMA SentRests ==
  ASSUME NEW w \in Walks, Sent(w), Rested(w), Onward, clock \in Nat
  PROVE  Sent(w)'
<1>1. \A stamp : Stamped(w, stamp) => Stamped(w, stamp)'
  BY DEF Stamped, Onward, Rested, Sent
<1>2. /\ input'[As(w)] = input[As(w)] /\ input'[Tgs(w)] = input[Tgs(w)]
      /\ \A q \in ServiceLegs(w) : input'[q] = input[q] /\ pc'[q] = pc[q] /\ status'[q] = status[q]
      /\ kdcPc'[As(w)] = kdcPc[As(w)] /\ kdcPc'[Tgs(w)] = kdcPc[Tgs(w)]
      /\ reply'[As(w)] = reply[As(w)] /\ reply'[Tgs(w)] = reply[Tgs(w)]
      /\ started'[w] = started[w] /\ users'[<<w, Realm>>] = users[<<w, Realm>>]
  BY DEF Rested
<1>3. \A leg \in ApLegs : <<w, leg>> \in ServiceLegs(w)
  BY DEF ServiceLegs
<1>4. /\ Dh(w) \in ServiceLegs(w) /\ Create(w) \in ServiceLegs(w) /\ Ap(w) \in ServiceLegs(w)
      /\ Again(w) \in ServiceLegs(w) /\ Tampering(w) \in ServiceLegs(w)
  BY LegsOfWalk
<1>5. started'[w] \in Nat /\ started'[w] <= clock'
  BY <1>2 DEF Sent, Onward
<1>6. QED
  BY <1>1, <1>2, <1>3, <1>4, <1>5 DEF Sent, Stamped

LEMMA TrackRests ==
  ASSUME NEW w \in Walks, OnTrack(w), Rested(w),
         dh[w] = Dh(w) => dh'[w] = Dh(w),
         status[Ap(w)] = "Accepted" =>
           replay'[T!ReplayKey(Ap(w))] = replay[T!ReplayKey(Ap(w))]
  PROVE  OnTrack(w)'
<1>1. /\ started'[w] = started[w]
      /\ kdcPc'[As(w)] = kdcPc[As(w)] /\ kdcStatus'[As(w)] = kdcStatus[As(w)]
      /\ reply'[As(w)] = reply[As(w)] /\ userKey'[As(w)] = userKey[As(w)]
      /\ ticketKey'[As(w)] = ticketKey[As(w)]
      /\ kdcPc'[Tgs(w)] = kdcPc[Tgs(w)] /\ kdcStatus'[Tgs(w)] = kdcStatus[Tgs(w)]
      /\ reply'[Tgs(w)] = reply[Tgs(w)] /\ ticketKey'[Tgs(w)] = ticketKey[Tgs(w)]
      /\ \A q \in ServiceLegs(w) : input'[q] = input[q] /\ pc'[q] = pc[q] /\ status'[q] = status[q]
  BY DEF Rested
<1>2. /\ Dh(w) \in ServiceLegs(w) /\ Create(w) \in ServiceLegs(w) /\ Ap(w) \in ServiceLegs(w)
      /\ Again(w) \in ServiceLegs(w) /\ Tampering(w) \in ServiceLegs(w)
  BY LegsOfWalk
<1>3. RegisteredSoFar(w)'
  BY <1>1, <1>2 DEF OnTrack, RegisteredSoFar
<1>4. TicketsSoFar(w)'
  BY <1>1 DEF OnTrack, TicketsSoFar, Grants, K!Issued, ClientKey, R!String2Key, Shaping
<1>5. T!ReplayKey(Ap(w))' = T!ReplayKey(Ap(w))
  BY <1>1, <1>2 DEF T!ReplayKey, T!ServiceTicket, T!Auth
<1>6. AnswersSoFar(w)'
  BY <1>1, <1>2, <1>5 DEF OnTrack, AnswersSoFar
<1>7. QED
  BY <1>3, <1>4, <1>6 DEF OnTrack

\* What the service keeps of the authenticator that it has accepted.
LEMMA ApKeyOf ==
  ASSUME NEW w \in Walks, OfWalk(w), Sent(w), OnTrack(w), pc[Ap(w)] # "idle"
  PROVE  \E stamp \in 1 .. MaxClock : T!ReplayKey(Ap(w)) = ReplayKeyOf(Target, w, stamp)
<1>1. /\ kdcStatus[Tgs(w)] = "Ok" /\ T!ServiceTicket(Ap(w)) = K!Issued(Tgs(w))
  BY DEF OfWalk, OfAp, Ap, ApLegs
<1>2. T!ServiceTicket(Ap(w)).principal = Target
  BY <1>1 DEF OnTrack, TicketsSoFar, Grants
<1>3. input[Ap(w)].realm = Realm
  BY DEF Sent, Ap, ApLegs
<1>4. /\ T!Auth(Ap(w)).username = w /\ T!Auth(Ap(w)).timestamp \in 1 .. MaxClock
  BY DEF Sent, T!Auth, Stamped
<1>5. T!ReplayKey(Ap(w)) = ReplayKeyOf(Target, w, T!Auth(Ap(w)).timestamp)
  BY <1>2, <1>3, <1>4 DEF T!ReplayKey, ReplayKeyOf
<1>6. QED
  BY <1>4, <1>5

\* A walk that a step leaves alone goes on.
LEMMA RestedGoesOn ==
  ASSUME WalkInv, NEW w \in Walks, Rested(w), Onward,
         Undisturbed(w) /\ Undisturbed(w)' =>
           /\ dh'[w] = dh[w]
           /\ \A stamp \in 1 .. MaxClock :
                replay'[ReplayKeyOf(Target, w, stamp)] = replay[ReplayKeyOf(Target, w, stamp)]
  PROVE  /\ Settles(w) /\ Sent(w)'
         /\ Undisturbed(w) /\ Undisturbed(w)' => OnTrack(w)'
<1>1. Settles(w)
  BY RestedSettles
<1>2. Sent(w) /\ OfWalk(w) /\ clock \in Nat
  BY DEF WalkInv, Inv, Tables
<1>3. Sent(w)'
  BY <1>2, SentRests
<1>4. ASSUME Undisturbed(w), Undisturbed(w)'
      PROVE  OnTrack(w)'
  <2>1. OnTrack(w)
    BY <1>4 DEF WalkInv
  <2>2. ASSUME status[Ap(w)] = "Accepted"
        PROVE  replay'[T!ReplayKey(Ap(w))] = replay[T!ReplayKey(Ap(w))]
    <3>1. OfAp(w, "ap")
      BY <1>2 DEF OfWalk, ApLegs
    <3>2. pc[Ap(w)] # "idle"
      BY <2>2, <3>1 DEF OfAp, Ap
    <3>3. QED
      BY <1>2, <1>4, <2>1, <3>2, ApKeyOf
  <2>3. QED
    BY <1>4, <2>1, <2>2, TrackRests
<1>5. QED
  BY <1>1, <1>3, <1>4

LEMMA WalksGoOn ==
  ASSUME WalkInv, Inv', Held', Fresh', Onward, at' = at,
         \A w \in Walks : Settles(w) /\ Sent(w)',
         \A w \in Walks : Undisturbed(w) /\ Undisturbed(w)' => OnTrack(w)'
  PROVE  WalkInv'
<1>1. \A w \in Walks : Undisturbed(w)' => Undisturbed(w)
  BY CalmBefore
<1>2. QED
  BY <1>1 DEF WalkInv

-----------------------------------------------------------------------------
(* Steps of the KDC. *)

\* What the KDC writes: the authenticator's record and nothing else of Redis.
LEMMA KdcWrites ==
  ASSUME WalkInv, NEW r \in KdcRequests, K!Serve(r) \/ K!Fail(r), ByKdc
  PROVE  /\ \A q \in KdcRequests \ {r} :
              userKey'[q] = userKey[q] /\ ticketKey'[q] = ticketKey[q]
         /\ DOMAIN userKey' = KdcRequests /\ DOMAIN ticketKey' = KdcRequests
         /\ UNCHANGED <<dh, restarts>>
         /\ \/ UNCHANGED replay
            \/ /\ kdcPc[r] = "tgs.replay" /\ kdcPc'[r] \in {"shape.ticketKey", "done"}
               /\ replay' = [replay EXCEPT ![K!ReplayKey(r)] = clock + SKEW_MS]
<1> USE DEF WalkInv, Held, Inv, Tables, ByKdc, K!redis, K!held, K!history, K!Await, K!Answer
<1>1. CASE \/ K!RefusePreAuth(r) \/ K!RefuseTarget(r) \/ K!RefuseTgt(r) \/ K!RefuseReplay(r)
           \/ K!RefusePrincipal(r) \/ K!FailToShape(r)
  <2>1. \E code \in {"BadRequest", "NotFound", "Unauthorized", "AlreadyUsed", "InternalError"} :
          K!Throw(r, code)
    BY <1>1 DEF K!RefusePreAuth, K!RefuseTarget, K!RefuseTgt, K!RefuseReplay, K!RefusePrincipal,
       K!FailToShape
  <2>2. QED
    BY <2>1 DEF K!Throw
<1>2. CASE K!Fail(r)
  BY <1>2 DEF K!Fail, K!Recorded, K!SetNX
<1>3. CASE K!GenerateTicket(r)
  BY <1>3 DEF K!GenerateTicket, K!Recorded, K!SetNX
<1>4. CASE K!GetUserKey(r) \/ K!FindTarget(r) \/ K!GetTicketKey(r)
  BY <1>4 DEF K!GetUserKey, K!FindTarget, K!GetTicketKey
<1>5. CASE K!Authenticate(r) \/ K!Admit(r) \/ K!Shape(r)
  BY <1>5 DEF K!Authenticate, K!Admit, K!Shape
<1>6. QED
  BY <1>1, <1>2, <1>3, <1>4, <1>5 DEF K!Serve

\* What shape() puts into the reply.
LEMMA ShapeGives ==
  ASSUME Inv, NEW r \in KdcRequests, K!Shape(r)
  PROVE  /\ kdcPc'[r] = "done" /\ kdcStatus'[r] = "Ok"
         /\ reply'[r].ticket.key = ticketKey[r]
         /\ reply'[r].ticket.payload.principal = K!Principal(r)
         /\ reply'[r].ticket.payload.lifetime = K!ExpiresAt(r)
         /\ reply'[r].ticket.payload.username =
              IF input[r].exchange = "AS" THEN input[r].username ELSE K!Auth(r).username
         /\ reply'[r].ticket.payload.ip = input[r].ip
         /\ reply'[r].challenge.key = K!ClientKey(r)
         /\ reply'[r].challenge.payload.lifetime = K!ExpiresAt(r)
         /\ reply'[r].challenge.payload.sessionKey = SessionKey(r)
<1> DEFINE ticket == [principal |-> K!Principal(r), lifetime |-> K!ExpiresAt(r),
                      sessionKey |-> SessionKey(r),
                      username |-> IF input[r].exchange = "AS" THEN input[r].username
                                   ELSE K!Auth(r).username,
                      ip |-> input[r].ip]
           challenge == [principal |-> K!Principal(r), lifetime |-> K!ExpiresAt(r),
                         sessionKey |-> SessionKey(r)]
<1> HIDE DEF ticket, challenge
<1>1. kdcPc'[r] = "done" /\ kdcStatus'[r] = "Ok"
  BY DEF K!Shape, K!Answer, K!Await, Inv, Tables
<1>2. reply' = [reply EXCEPT ![r] =
        [ticket |-> [key |-> ticketKey[r], payload |-> ticket],
         challenge |-> [key |-> K!ClientKey(r), payload |-> challenge]]]
  BY DEF K!Shape, K!Encrypt, K!SessionKey, SessionKey, ticket, challenge
<1>3. reply'[r] = [ticket |-> [key |-> ticketKey[r], payload |-> ticket],
                   challenge |-> [key |-> K!ClientKey(r), payload |-> challenge]]
  BY <1>2 DEF Inv, Tables
<1>4. /\ ticket.principal = K!Principal(r) /\ ticket.lifetime = K!ExpiresAt(r)
      /\ ticket.username =
           (IF input[r].exchange = "AS" THEN input[r].username ELSE K!Auth(r).username)
      /\ ticket.ip = input[r].ip
      /\ challenge.lifetime = K!ExpiresAt(r) /\ challenge.sessionKey = SessionKey(r)
  BY DEF ticket, challenge
<1>5. QED
  BY <1>1, <1>3, <1>4

\* The requests of the KDC that are under way, and what has not yet begun then.
LEMMA AsInMotion ==
  ASSUME WalkInv, NEW w \in Walks, K!Serve(As(w)) \/ K!Fail(As(w)), ByKdc
  PROVE  /\ kdcPc[As(w)] \notin {"idle", "done"} /\ TgsIdle(w)
         /\ \A leg \in ApLegs : pc'[<<w, leg>>] = "idle" /\ status'[<<w, leg>>] = "Pending"
         /\ kdcPc'[Tgs(w)] = "idle" /\ kdcStatus'[Tgs(w)] = "Pending"
<1>1. As(w) \in KdcRequests /\ Tgs(w) \in KdcRequests \ {As(w)}
  BY LegsOfWalk
<1>2. OfWalk(w) /\ kdcPc[As(w)] \notin {"idle", "done"}
  BY <1>1, KdcFrame DEF WalkInv, Inv
<1>3. TgsIdle(w)
  BY <1>2, InOrder DEF OfWalk, OfAs
<1>4. QED
  BY <1>1, <1>2, <1>3, KdcFrame DEF WalkInv, TgsIdle, ApIdle

LEMMA TgsInMotion ==
  ASSUME WalkInv, NEW w \in Walks, K!Serve(Tgs(w)) \/ K!Fail(Tgs(w)), ByKdc
  PROVE  /\ kdcPc[Tgs(w)] \notin {"idle", "done"} /\ kdcStatus[As(w)] = "Ok" /\ ApIdle(w)
         /\ \A leg \in ApLegs : pc'[<<w, leg>>] = "idle" /\ status'[<<w, leg>>] = "Pending"
         /\ kdcPc'[As(w)] = kdcPc[As(w)] /\ kdcStatus'[As(w)] = kdcStatus[As(w)]
         /\ reply'[As(w)] = reply[As(w)]
         /\ userKey'[As(w)] = userKey[As(w)] /\ ticketKey'[As(w)] = ticketKey[As(w)]
<1>1. Tgs(w) \in KdcRequests /\ As(w) \in KdcRequests \ {Tgs(w)}
  BY LegsOfWalk
<1>2. OfWalk(w) /\ kdcPc[Tgs(w)] \notin {"idle", "done"}
  BY <1>1, KdcFrame DEF WalkInv, Inv
<1>3. ApIdle(w) /\ kdcStatus[As(w)] = "Ok"
  BY <1>2, InOrder DEF OfWalk, OfTgs
<1>4. QED
  BY <1>1, <1>2, <1>3, KdcFrame, KdcWrites DEF WalkInv, ApIdle

\* A request of the AS, in an undisturbed walk: none of its checks fails.
LEMMA AsOnTrack ==
  ASSUME LongEnough, WalkInv, NEW w \in Walks, Undisturbed(w), Undisturbed(w)',
         K!Serve(As(w)) \/ K!Fail(As(w)), ByKdc, UNCHANGED client
  PROVE  TicketsSoFar(w)'
<1> DEFINE r == As(w)
<1>1. /\ r \in KdcRequests
      /\ OnTrack(w) /\ Sent(w) /\ OfWalk(w) /\ TicketsSoFar(w)
      /\ restarts = 0 /\ clock <= started[w] + Horizon
      /\ kdcStatus'[r] # "Failed"
  <2>1. kdcStatus'[r] # "Failed"
    BY LegsOfWalk DEF Undisturbed
  <2>2. QED
    BY <2>1, LegsOfWalk, CalmMeans DEF WalkInv, Inv, OnTrack
<1>2. /\ kdcPc[r] \in {"as.userKey", "as.serviceKey"} \cup Shaping /\ kdcStatus[r] = "Pending"
      /\ status[Create(w)] = "Created"
      /\ input[r].exchange = "AS" /\ input[r].realm = Realm
      /\ input[r].preAuth.key = ClientKey(w)
      /\ input[r].requestedLifetime = RequestedLifetime
      /\ input[r].username = w /\ input[r].serviceName = Target /\ input[r].ip = Here
      /\ input[r].preAuth.payload.username = w
      /\ Stamped(w, input[r].preAuth.payload.timestamp)
  BY <1>1, AsInMotion DEF OfWalk, OfAs, Sent
<1>3. /\ keytab[<<"tgs", Realm>>] = PrincipalKey("tgs", Realm)
      /\ keytab[<<Target, Realm>>] = PrincipalKey(Target, Realm)
      /\ keytab[<<"interval", Realm>>] = LifetimeInterval
      /\ keytab[<<w, Realm>>] = ClientKey(w)
  BY <1>1, <1>2 DEF WalkInv, Fresh, SeedsThere
<1>4. /\ \A principal \in Principals : PrincipalKey(principal, Realm) # None
      /\ ClientKey(w) # None /\ LifetimeInterval # None
      /\ PrincipalKey("tgs", Realm) # LifetimeInterval
  <2>1. PrincipalKey("tgs", Realm) # LifetimeInterval
    <3>1. DOMAIN PrincipalKey("tgs", Realm) = {"principal", "realm"}
      BY DEF PrincipalKey
    <3>2. DOMAIN LifetimeInterval = {"min", "max"}
      OBVIOUS
    <3>3. QED
      BY <3>1, <3>2
  <2>2. QED
    BY <2>1 DEF PrincipalKey, ClientKey, R!String2Key
<1>5. started' = started
  BY DEF client
<1>6. kdcPc'[Tgs(w)] = "idle" /\ kdcStatus'[Tgs(w)] = "Pending"
  BY AsInMotion
<1>7. SUFFICES /\ kdcPc'[r] = "done" => kdcStatus'[r] = "Ok"
               /\ kdcPc'[r] \in {"as.serviceKey"} \cup Shaping => userKey'[r] = ClientKey(w)
               /\ kdcPc'[r] = "shape.interval" => ticketKey'[r] = PrincipalKey("tgs", Realm)
               /\ kdcStatus'[r] = "Ok" => Grants(w, r, "tgs", ClientKey(w))'
  BY <1>6 DEF TicketsSoFar, ClientKey, R!String2Key
<1>8. CASE K!GetUserKey(r)
  BY <1>1, <1>2, <1>3, <1>8 DEF K!GetUserKey, K!Entry, K!Await, WalkInv, Held, Inv, Tables, Shaping
<1>9. CASE K!RefusePreAuth(r)
  <2>1. userKey[r] = ClientKey(w)
    BY <1>1, <1>9 DEF K!RefusePreAuth, TicketsSoFar
  <2>2. K!WithinSkew(input[r].preAuth.payload.timestamp, clock)
    BY <1>1, <1>2, HorizonIsNat DEF K!WithinSkew, Stamped, Sent, WalkInv, Held
  <2>3. K!PreAuthenticated(r)
    BY <1>2, <1>3, <1>4, <2>1, <2>2 DEF K!PreAuthenticated, K!Entry, K!Opens, K!Names
  <2>4. QED
    BY <1>9, <2>3 DEF K!RefusePreAuth
<1>10. CASE K!Authenticate(r)
  BY <1>1, <1>2, <1>10 DEF K!Authenticate, K!Await, K!held, WalkInv, Inv, Tables, Shaping,
     TicketsSoFar
<1>11. CASE K!GetTicketKey(r)
  BY <1>1, <1>2, <1>3, <1>11 DEF K!GetTicketKey, K!Await, K!Entry, K!Principal, K!TGS_PRINCIPAL,
     WalkInv, Held, Inv, Tables, Shaping, TicketsSoFar
<1>12. CASE K!RefusePrincipal(r)
  BY <1>2, <1>3, <1>4, <1>12 DEF K!RefusePrincipal, K!Entry, K!Principal, K!TGS_PRINCIPAL
<1>13. CASE K!Shape(r)
  <2>1. ticketKey[r] = PrincipalKey("tgs", Realm) /\ userKey[r] = ClientKey(w)
    BY <1>1, <1>13 DEF K!Shape, TicketsSoFar, Shaping
  <2>2. K!ExpiresAt(r) = clock + K!GetLifetime(RequestedLifetime, LifetimeInterval)
    BY <1>2, <1>3 DEF K!ExpiresAt, K!Entry
  <2>3. started[w] + Horizon <= K!ExpiresAt(r)
    <3>1. started[w] \in Nat /\ clock \in Nat /\ started[w] <= clock
      BY <1>1 DEF WalkInv, Inv, Tables, Sent
    <3>2. QED
      BY <2>2, <3>1, LifetimeIsNat, HorizonIsNat DEF LongEnough
  <2>4. /\ kdcPc'[r] = "done" /\ kdcStatus'[r] = "Ok"
        /\ reply'[r].ticket.key = PrincipalKey("tgs", Realm)
        /\ reply'[r].ticket.payload.principal = "tgs"
        /\ reply'[r].ticket.payload.username = w
        /\ reply'[r].ticket.payload.ip = Here
        /\ reply'[r].ticket.payload.lifetime = K!ExpiresAt(r)
        /\ reply'[r].challenge.key = ClientKey(w)
        /\ reply'[r].challenge.payload.sessionKey = SessionKey(r)
        /\ reply'[r].challenge.payload.lifetime = K!ExpiresAt(r)
    <3>1. K!Principal(r) = "tgs" /\ K!ClientKey(r) = userKey[r]
      BY <1>2 DEF K!Principal, K!TGS_PRINCIPAL, K!ClientKey
    <3>2. Inv /\ input[r].exchange = "AS" /\ input[r].username = w /\ input[r].ip = Here
      BY <1>2 DEF WalkInv
    <3>3. QED
      BY <1>1, <1>13, <2>1, <3>1, <3>2, ShapeGives
  <2>5. QED
    BY <1>5, <2>3, <2>4 DEF Grants, K!Issued, Shaping, ClientKey, R!String2Key
<1>14. CASE K!FailToShape(r)
  <2>1. ticketKey[r] = PrincipalKey("tgs", Realm)
    BY <1>1, <1>14 DEF K!FailToShape, TicketsSoFar
  <2>2. QED
    BY <1>2, <1>3, <1>4, <1>14, <2>1 DEF K!FailToShape, K!Shapeable, K!Entry
<1>15. CASE K!Fail(r)
  BY <1>1, <1>15 DEF K!Fail, K!Answer, WalkInv, Inv, Tables
<1>16. CASE K!FindTarget(r) \/ K!RefuseTarget(r) \/ K!RefuseTgt(r) \/ K!Admit(r)
            \/ K!GenerateTicket(r) \/ K!RefuseReplay(r)
  BY <1>2, <1>16 DEF K!FindTarget, K!RefuseTarget, K!RefuseTgt, K!Admit, K!GenerateTicket,
     K!Recorded, K!RefuseReplay, Shaping
<1>17. QED
  BY <1>8, <1>9, <1>10, <1>11, <1>12, <1>13, <1>14, <1>15, <1>16 DEF K!Serve

\* A request of the TGS, in an undisturbed walk: the ticket is good, and the
\* authenticator, which no one has used, is fresh.
LEMMA TgsOnTrack ==
  ASSUME LongEnough, WalkInv, NEW w \in Walks, Undisturbed(w), Undisturbed(w)',
         K!Serve(Tgs(w)) \/ K!Fail(Tgs(w)), ByKdc, UNCHANGED client
  PROVE  TicketsSoFar(w)'
<1> DEFINE r == Tgs(w)
           stamp == input[r].authenticator.payload.timestamp
<1>1. /\ r \in KdcRequests
      /\ OnTrack(w) /\ Sent(w) /\ OfWalk(w) /\ TicketsSoFar(w)
      /\ restarts = 0 /\ clock <= started[w] + Horizon
      /\ kdcStatus'[r] # "Failed"
  <2>1. kdcStatus'[r] # "Failed"
    BY LegsOfWalk DEF Undisturbed
  <2>2. QED
    BY <2>1, LegsOfWalk, CalmMeans DEF WalkInv, Inv, OnTrack
<1>2. /\ kdcPc[r] \in {"tgs.target", "tgs.tgsKey", "tgs.replay"} \cup Shaping
      /\ kdcStatus[r] = "Pending" /\ kdcStatus[As(w)] = "Ok"
      /\ input[r].exchange = "TGS" /\ input[r].realm = Realm
      /\ input[r].tgt = reply[As(w)].ticket
      /\ input[r].requestedLifetime = RequestedLifetime
      /\ input[r].id = Target /\ input[r].ip = Here
      /\ input[r].authenticator.key = reply[As(w)].challenge.payload.sessionKey
      /\ input[r].authenticator.payload.username = w
      /\ Stamped(w, stamp)
  BY <1>1, TgsInMotion DEF OfWalk, OfTgs, Sent
<1>3. /\ keytab[<<"tgs", Realm>>] = PrincipalKey("tgs", Realm)
      /\ keytab[<<Target, Realm>>] = PrincipalKey(Target, Realm)
      /\ keytab[<<"interval", Realm>>] = LifetimeInterval
  BY <1>1 DEF WalkInv, Fresh, SeedsThere
<1>4. /\ \A principal \in Principals : PrincipalKey(principal, Realm) # None
      /\ Target # None /\ LifetimeInterval # None
      /\ PrincipalKey(Target, Realm) # LifetimeInterval
  <2>1. PrincipalKey(Target, Realm) # LifetimeInterval
    <3>1. DOMAIN PrincipalKey(Target, Realm) = {"principal", "realm"}
      BY DEF PrincipalKey
    <3>2. DOMAIN LifetimeInterval = {"min", "max"}
      OBVIOUS
    <3>3. QED
      BY <3>1, <3>2
  <2>2. QED
    BY <2>1 DEF PrincipalKey
\* The ticket.
<1>5. /\ input[r].tgt.key = PrincipalKey("tgs", Realm)
      /\ K!Tgt(r).principal = "tgs" /\ K!Tgt(r).username = w /\ K!Tgt(r).ip = Here
      /\ K!Tgt(r).sessionKey = SessionKey(As(w))
      /\ K!Tgt(r).lifetime \in Nat /\ started[w] + Horizon <= K!Tgt(r).lifetime
      /\ input[r].authenticator.key = SessionKey(As(w))
  BY <1>1, <1>2 DEF TicketsSoFar, Grants, OfWalk, OfAs, K!Tgt, K!Issued
<1>6. started[w] \in Nat /\ clock \in Nat /\ clock # 0 /\ started[w] <= clock
  BY <1>1 DEF WalkInv, Held, Inv, Tables, Sent
<1>7. started' = started
  BY DEF client
<1>8. SUFFICES /\ kdcPc'[r] = "done" => kdcStatus'[r] = "Ok"
               /\ kdcPc'[r] = "shape.interval" => ticketKey'[r] = PrincipalKey(Target, Realm)
               /\ kdcStatus'[r] = "Ok" => Grants(w, r, Target, SessionKey(As(w)))'
  <2>1. /\ kdcPc'[As(w)] = kdcPc[As(w)] /\ kdcStatus'[As(w)] = kdcStatus[As(w)]
        /\ reply'[As(w)] = reply[As(w)]
        /\ userKey'[As(w)] = userKey[As(w)] /\ ticketKey'[As(w)] = ticketKey[As(w)]
    BY TgsInMotion
  <2>2. QED
    BY <1>1, <1>7, <2>1 DEF TicketsSoFar, Grants, K!Issued, ClientKey, R!String2Key
<1>9. CASE K!FindTarget(r)
  BY <1>1, <1>2, <1>9 DEF K!FindTarget, K!Await, WalkInv, Inv, Tables
<1>10. CASE K!RefuseTarget(r)
  BY <1>2, <1>3, <1>4, <1>10 DEF K!RefuseTarget, K!Entry
<1>11. CASE K!RefuseTgt(r)
  <2>1. K!Decoded(r)
    BY <1>2, <1>3, <1>5 DEF K!Decoded, K!Opens, K!Entry, K!TGS_PRINCIPAL
  <2>2. K!WithinSkew(stamp, clock)
    BY <1>1, <1>2, <1>6, HorizonIsNat DEF K!WithinSkew, Stamped
  <2>3. clock <= K!Tgt(r).lifetime
    BY <1>1, <1>5, <1>6, HorizonIsNat
  <2>4. K!Valid(r)
    BY <1>2, <1>5, <2>2, <2>3 DEF K!Valid, K!Auth, K!TGS_PRINCIPAL
  <2>5. QED
    BY <1>3, <1>4, <1>11, <2>1, <2>4, <1>2 DEF K!RefuseTgt, K!Entry, K!TGS_PRINCIPAL
<1>12. CASE K!Admit(r)
  BY <1>1, <1>2, <1>12 DEF K!Admit, K!Await, WalkInv, Inv, Tables
<1>13. CASE K!GenerateTicket(r)
  BY <1>1, <1>2, <1>13 DEF K!GenerateTicket, K!Recorded, K!Await, WalkInv, Inv, Tables
<1>14. CASE K!RefuseReplay(r)
  <2>1. K!ReplayKey(r) = ReplayKeyOf("tgs", w, stamp)
    BY <1>2 DEF K!ReplayKey, K!TGS_PRINCIPAL, K!Auth, ReplayKeyOf
  <2>2. kdcPc[r] \notin {"done"} \cup Shaping /\ stamp \in 1 .. MaxClock
    BY <1>2, <1>14 DEF K!RefuseReplay, Shaping, Stamped
  <2>3. replay[ReplayKeyOf("tgs", w, stamp)] = 0
    BY <1>1, <2>2 DEF WalkInv, Fresh, Recordless
  <2>4. QED
    BY <1>6, <1>14, <2>1, <2>3 DEF K!RefuseReplay, K!Live
<1>15. CASE K!GetTicketKey(r)
  BY <1>1, <1>2, <1>3, <1>15 DEF K!GetTicketKey, K!Await, K!Entry, K!Principal, WalkInv, Held, Inv,
     Tables
<1>16. CASE K!RefusePrincipal(r)
  BY <1>2, <1>3, <1>4, <1>16 DEF K!RefusePrincipal, K!Entry, K!Principal
<1>17. CASE K!Shape(r)
  <2>1. ticketKey[r] = PrincipalKey(Target, Realm)
    BY <1>1, <1>17 DEF K!Shape, TicketsSoFar
  <2>2. K!ExpiresAt(r) = K!Lesser(clock + K!GetLifetime(RequestedLifetime, LifetimeInterval),
                                  K!Tgt(r).lifetime)
    BY <1>2, <1>3 DEF K!ExpiresAt, K!Entry
  <2>3. started[w] + Horizon <= K!ExpiresAt(r)
    BY <1>5, <1>6, <2>2, LifetimeIsNat, HorizonIsNat DEF LongEnough, K!Lesser
  <2>4. /\ kdcPc'[r] = "done" /\ kdcStatus'[r] = "Ok"
        /\ reply'[r].ticket.key = PrincipalKey(Target, Realm)
        /\ reply'[r].ticket.payload.principal = Target
        /\ reply'[r].ticket.payload.username = w
        /\ reply'[r].ticket.payload.ip = Here
        /\ reply'[r].ticket.payload.lifetime = K!ExpiresAt(r)
        /\ reply'[r].challenge.key = SessionKey(As(w))
        /\ reply'[r].challenge.payload.sessionKey = SessionKey(r)
        /\ reply'[r].challenge.payload.lifetime = K!ExpiresAt(r)
    <3>1. K!Principal(r) = Target /\ K!ClientKey(r) = SessionKey(As(w)) /\ K!Auth(r).username = w
      BY <1>2, <1>5 DEF K!Principal, K!ClientKey, K!Auth
    <3>2. Inv /\ input[r].exchange # "AS" /\ input[r].ip = Here
      BY <1>2 DEF WalkInv
    <3>3. QED
      BY <1>1, <1>17, <2>1, <3>1, <3>2, ShapeGives
  <2>5. QED
    BY <1>7, <2>3, <2>4 DEF Grants, K!Issued
<1>18. CASE K!FailToShape(r)
  <2>1. ticketKey[r] = PrincipalKey(Target, Realm)
    BY <1>1, <1>18 DEF K!FailToShape, TicketsSoFar
  <2>2. QED
    BY <1>2, <1>3, <1>4, <1>18, <2>1 DEF K!FailToShape, K!Shapeable, K!Entry
<1>19. CASE K!Fail(r)
  BY <1>1, <1>19 DEF K!Fail, K!Answer, WalkInv, Inv, Tables
<1>20. CASE K!GetUserKey(r) \/ K!RefusePreAuth(r) \/ K!Authenticate(r)
  BY <1>2, <1>20 DEF K!GetUserKey, K!RefusePreAuth, K!Authenticate, Shaping
<1>21. QED
  BY <1>9, <1>10, <1>11, <1>12, <1>13, <1>14, <1>15, <1>16, <1>17, <1>18, <1>19, <1>20 DEF K!Serve

\* The request of the KDC moves on, and what it was sent stays.
LEMMA KdcSent ==
  ASSUME WalkInv, NEW w \in Walks, NEW r \in {As(w), Tgs(w)}, K!Serve(r) \/ K!Fail(r), ByKdc,
         UNCHANGED client
  PROVE  Settles(w) /\ Sent(w)'
<1>1. /\ r \in KdcRequests /\ As(w) \in KdcRequests /\ Tgs(w) \in KdcRequests
  BY LegsOfWalk
<1>2. /\ \A q \in KdcRequests \ {r} : kdcPc'[q] = kdcPc[q] /\ kdcStatus'[q] = kdcStatus[q]
                                      /\ reply'[q] = reply[q]
      /\ UNCHANGED <<clock, input, pc, status, users, started>>
      /\ kdcPc[r] \notin {"idle", "done"}
  BY <1>1, KdcFrame DEF WalkInv, client
<1>3. Sent(w)
  BY DEF WalkInv
<1>4. Settles(w)
  BY <1>2 DEF Settles, As, Tgs, KdcRequests
<1>5. /\ kdcPc'[As(w)] # "idle" => kdcPc[As(w)] # "idle"
      /\ kdcPc'[Tgs(w)] # "idle" => kdcPc[Tgs(w)] # "idle"
  BY <1>1, <1>2
<1>6. kdcPc'[Tgs(w)] # "idle" => reply'[As(w)] = reply[As(w)]
  <2>1. CASE r = As(w)
    BY <2>1, AsInMotion
  <2>2. CASE r = Tgs(w)
    BY <2>2, TgsInMotion
  <2>3. QED
    BY <2>1, <2>2
<1>7. pc[Ap(w)] = "idle"
  <2>1. ApIdle(w)
    BY AsInMotion, TgsInMotion DEF TgsIdle
  <2>2. QED
    BY <2>1 DEF ApIdle, Ap, ApLegs
<1>8. \A stamp : Stamped(w, stamp) => Stamped(w, stamp)'
  BY <1>2 DEF Stamped
<1>9. QED
  BY <1>2, <1>3, <1>4, <1>5, <1>6, <1>7, <1>8 DEF Sent

\* The TGS's record is of this walk, and of the leg that has now been served.
LEMMA KdcFresh ==
  ASSUME WalkInv, NEW w \in Walks, NEW r \in {As(w), Tgs(w)}, K!Serve(r) \/ K!Fail(r), ByKdc
  PROVE  /\ Fresh'
         /\ \A v \in Walks, stamp \in 1 .. MaxClock :
              restarts = 0 => replay'[ReplayKeyOf(Target, v, stamp)] =
                              replay[ReplayKeyOf(Target, v, stamp)]
<1>1. /\ r \in KdcRequests
      /\ \A v \in Walks : As(v) \in KdcRequests /\ Tgs(v) \in KdcRequests
      /\ \A v \in Walks : Create(v) \in ServiceRequests /\ Ap(v) \in ServiceRequests
  BY LegsOfWalk
<1>2. /\ \A q \in KdcRequests \ {r} : kdcPc'[q] = kdcPc[q]
      /\ UNCHANGED <<keytab, pc, status, restarts, dh>>
      /\ kdcPc[r] \notin {"idle", "done"}
      /\ kdcPc[r] \in Shaping => kdcPc'[r] \in {"done"} \cup Shaping
  <2>1. kdcPc[r] \in Shaping => kdcPc'[r] \in {"done"} \cup Shaping
    BY <1>1, KdcMoves DEF WalkInv, Refused, Forward, Minted, Shaping
  <2>2. QED
    BY <1>1, <2>1, KdcFrame DEF WalkInv, ByKdc
<1>3. SUFFICES ASSUME restarts = 0
               PROVE  /\ DOMAIN replay' = T!ReplayKeys
                      /\ \A v \in Walks : Recordless(v)'
                      /\ \A v \in Walks, stamp \in 1 .. MaxClock :
                           replay'[ReplayKeyOf(Target, v, stamp)] =
                             replay[ReplayKeyOf(Target, v, stamp)]
  BY <1>2 DEF WalkInv, Fresh, SeedsThere, ClientKey, R!String2Key, PrincipalKey
<1>4. DOMAIN replay = T!ReplayKeys /\ \A v \in Walks : Recordless(v)
  BY <1>3 DEF WalkInv, Fresh
<1>5. CASE UNCHANGED replay
  <2>1. ASSUME NEW v \in Walks
        PROVE  Recordless(v)'
    BY <1>1, <1>2, <1>4, <1>5 DEF Recordless, Shaping, ReplayKeyOf
  <2>2. QED
    BY <1>4, <1>5, <2>1
<1>6. CASE /\ kdcPc[r] = "tgs.replay" /\ kdcPc'[r] \in {"shape.ticketKey", "done"}
           /\ replay' = [replay EXCEPT ![K!ReplayKey(r)] = clock + SKEW_MS]
  <2>1. r = Tgs(w)
    BY <1>6 DEF WalkInv, Inv, OfWalk, OfAs, Shaping
  <2>2. K!ReplayKey(r).principal = "tgs" /\ K!ReplayKey(r).username = w
    BY <1>2, <2>1 DEF WalkInv, Inv, OfWalk, OfTgs, K!ReplayKey, K!TGS_PRINCIPAL, K!Auth
  <2>3. \A v \in Walks, stamp \in 1 .. MaxClock :
          /\ ReplayKeyOf(Target, v, stamp) # K!ReplayKey(r)
          /\ v # w => ReplayKeyOf("tgs", v, stamp) # K!ReplayKey(r)
          /\ ReplayKeyOf(Target, v, stamp) \in T!ReplayKeys
          /\ ReplayKeyOf("tgs", v, stamp) \in T!ReplayKeys
    BY <2>2 DEF ReplayKeyOf, T!ReplayKeys
  <2>4. \A v \in Walks, stamp \in 1 .. MaxClock :
          /\ replay'[ReplayKeyOf(Target, v, stamp)] = replay[ReplayKeyOf(Target, v, stamp)]
          /\ v # w => replay'[ReplayKeyOf("tgs", v, stamp)] = replay[ReplayKeyOf("tgs", v, stamp)]
    BY <1>4, <1>6, <2>3
  <2>5. ASSUME NEW v \in Walks
        PROVE  Recordless(v)'
    <3>1. CASE v = w
      <4>1. kdcPc'[Tgs(v)] \in {"done"} \cup Shaping
        BY <1>6, <2>1, <3>1 DEF Shaping
      <4>2. pc'[Ap(v)] # "done" => \A stamp \in 1 .. MaxClock :
              replay'[ReplayKeyOf(Target, v, stamp)] = 0
        BY <1>2, <1>4, <2>4 DEF Recordless
      <4>3. QED
        BY <4>1, <4>2 DEF Recordless, ReplayKeyOf
    <3>2. CASE v # w
      <4>1. Tgs(v) # r
        BY <2>1, <3>2 DEF Tgs
      <4>2. QED
        <5>1. Recordless(v) /\ kdcPc'[Tgs(v)] = kdcPc[Tgs(v)] /\ pc'[Ap(v)] = pc[Ap(v)]
          BY <1>1, <1>2, <1>4, <4>1
        <5>2. \A stamp \in 1 .. MaxClock :
                /\ replay'[ReplayKeyOf(Target, v, stamp)] = replay[ReplayKeyOf(Target, v, stamp)]
                /\ replay'[ReplayKeyOf("tgs", v, stamp)] = replay[ReplayKeyOf("tgs", v, stamp)]
          BY <2>4, <3>2
        <5>3. QED
          BY <5>1, <5>2 DEF Recordless, ReplayKeyOf
    <3>3. QED
      BY <3>1, <3>2
  <2>6. QED
    BY <1>4, <1>6, <2>4, <2>5
<1>7. QED
  BY <1>1, <1>5, <1>6, KdcWrites

LEMMA KdcGoesOn ==
  ASSUME LongEnough, WalkInv, NEW r \in KdcRequests, K!Serve(r) \/ K!Fail(r), ByKdc,
         UNCHANGED client
  PROVE  WalkInv'
<1>1. PICK w \in Walks : r \in {As(w), Tgs(w)}
  BY DEF KdcRequests, As, Tgs
<1>2. Inv' /\ Fresh'
  BY <1>1, KdcKeeps, KdcFresh DEF WalkInv
<1>3. /\ UNCHANGED <<clock, input, pc, status, users, started, at, restarts, dh>>
      /\ DOMAIN userKey' = KdcRequests /\ DOMAIN ticketKey' = KdcRequests
  BY KdcFrame, KdcWrites DEF WalkInv, client
<1>4. Held' /\ Onward
  BY <1>3 DEF WalkInv, Held, Inv, Tables, Onward
<1>5. ASSUME NEW v \in Walks, v # w
      PROVE  /\ Settles(v) /\ Sent(v)'
             /\ Undisturbed(v) /\ Undisturbed(v)' => OnTrack(v)'
  <2>1. {As(v), Tgs(v)} \subseteq KdcRequests \ {r}
    BY <1>1, <1>5, OthersApart
  <2>2. Rested(v)
    BY <1>3, <2>1, KdcFrame, KdcWrites DEF WalkInv, Rested
  <2>3. Undisturbed(v) => restarts = 0
    BY CalmMeans
  <2>4. QED
    BY <1>1, <1>3, <1>4, <2>2, <2>3, KdcFresh, RestedGoesOn
<1>6. Settles(w) /\ Sent(w)'
  BY <1>1, KdcSent
<1>7. ASSUME Undisturbed(w), Undisturbed(w)'
      PROVE  OnTrack(w)'
  <2>1. OnTrack(w) /\ Sent(w)
    BY <1>7 DEF WalkInv
  <2>2. TicketsSoFar(w)'
    BY <1>1, <1>7, AsOnTrack, TgsOnTrack
  <2>3. RegisteredSoFar(w)'
    BY <1>3, <2>1 DEF OnTrack, RegisteredSoFar
  <2>4. AnswersSoFar(w)'
    <3>1. \A leg \in ApLegs : pc'[<<w, leg>>] = "idle" /\ status'[<<w, leg>>] = "Pending"
      BY <1>1, AsInMotion, TgsInMotion
    <3>2. QED
      BY <3>1 DEF AnswersSoFar, Ap, Again, Tampering, ApLegs
  <2>5. QED
    BY <2>2, <2>3, <2>4 DEF OnTrack
<1>8. QED
  BY <1>2, <1>3, <1>4, <1>5, <1>6, <1>7, WalksGoOn
-----------------------------------------------------------------------------
(* Steps of the application service: the AP exchange. *)

\* How a request of the AP exchange is answered, and what Redis keeps of it.
LEMMA TicketsAnswer ==
  ASSUME WalkInv, NEW r \in ApRequests, T!Serve(r) \/ T!Fail(r), ByTickets
  PROVE  /\ UNCHANGED <<dh, keytab, restarts>>
         /\ \/ UNCHANGED replay
            \/ /\ pc[r] = "record" /\ pc'[r] = "done"
               /\ replay' = [replay EXCEPT ![T!ReplayKey(r)] = clock + SKEW_MS]
         /\ \/ pc'[r] = "done" /\ status'[r] = "Error"
            \/ /\ pc[r] = "lookup" /\ keytab[<<Target, input[r].realm>>] = None
               /\ pc'[r] = "done" /\ status'[r] = "NotFound"
            \/ /\ pc[r] = "lookup" /\ ~ (T!Decoded(r) /\ T!Valid(r))
               /\ pc'[r] = "done" /\ status'[r] = "Unauthorized" /\ UNCHANGED replay
            \/ /\ pc[r] = "lookup" /\ T!Decoded(r)
               /\ pc'[r] = "record" /\ status'[r] = status[r] /\ UNCHANGED replay
            \/ /\ pc[r] = "record" /\ T!Live(replay, T!ReplayKey(r), clock)
               /\ pc'[r] = "done" /\ status'[r] = "AlreadyUsed" /\ UNCHANGED replay
            \/ /\ pc[r] = "record" /\ ~ T!Live(replay, T!ReplayKey(r), clock)
               /\ pc'[r] = "done" /\ status'[r] = "Accepted"
               /\ replay' = [replay EXCEPT ![T!ReplayKey(r)] = clock + SKEW_MS]
<1> USE DEF WalkInv, Inv, Tables, ByTickets, T!Answer, T!redis
<1>1. r \in ServiceRequests
  BY DEF ServiceRequests
<1>2. CASE T!RefuseRealm(r)
  <2>1. input[r].realm \in {Realm} => keytab[<<Target, input[r].realm>>] = None
    BY <1>2 DEF T!RefuseRealm
  <2>2. input[r].realm = Realm
    <3>1. PICK w \in Walks, leg \in ApLegs : r = <<w, leg>>
      BY DEF ApRequests, ApLegs
    <3>2. pc[r] # "idle" /\ Sent(w)
      BY <1>2, <3>1 DEF T!RefuseRealm
    <3>3. QED
      BY <3>1, <3>2 DEF Sent
  <2>3. QED
    BY <1>1, <1>2, <2>1, <2>2 DEF T!RefuseRealm, T!Throw
<1>3. CASE T!Refuse(r)
  BY <1>1, <1>3 DEF T!Refuse, T!Throw
<1>4. CASE T!RefuseReplay(r)
  BY <1>1, <1>4 DEF T!RefuseReplay, T!Throw
<1>5. CASE T!Record(r)
  BY <1>1, <1>5 DEF T!Record, T!Recorded, T!SetNX
<1>6. CASE T!Admit(r)
  BY <1>1, <1>6 DEF T!Admit
<1>7. CASE T!Fail(r)
  BY <1>1, <1>7 DEF T!Fail, T!Recorded, T!SetNX
<1>8. QED
  BY <1>2, <1>3, <1>4, <1>5, <1>6, <1>7 DEF T!Serve

\* What the service knows of a request that it records.
LEMMA RecordOf ==
  ASSUME WalkInv, NEW w \in Walks, NEW leg \in ApLegs, pc[<<w, leg>>] = "record"
  PROVE  T!ReplayKey(<<w, leg>>).username = w /\ kdcPc[Tgs(w)] = "done"
<1>1. OfAp(w, leg) /\ OfTgs(w)
  BY DEF WalkInv, Inv, OfWalk
<1>2. /\ kdcStatus[Tgs(w)] = "Ok" /\ kdcPc[Tgs(w)] = "done"
      /\ T!Auth(<<w, leg>>).username = K!Issued(Tgs(w)).username
  BY <1>1 DEF OfAp, OfTgs
<1>3. T!Auth(<<w, leg>>).username = w
  BY <1>1, <1>2 DEF OfTgs
<1>4. QED
  BY <1>2, <1>3 DEF T!ReplayKey

LEMMA TicketsSent ==
  ASSUME WalkInv, NEW r \in ApRequests, T!Serve(r) \/ T!Fail(r), ByTickets, UNCHANGED client,
         NEW w \in Walks
  PROVE  Settles(w) /\ Sent(w)'
<1>1. /\ UNCHANGED <<clock, input, users, kdc, started>>
      /\ pc[r] \notin {"idle", "done"} /\ pc'[r] # "idle"
      /\ \A q \in ServiceRequests \ {r} : pc'[q] = pc[q] /\ status'[q] = status[q]
  <2>1. pc'[r] # "idle"
    BY TicketsAnswer
  <2>2. QED
    BY <2>1, TicketsMoves DEF WalkInv, client
<1>2. Sent(w) /\ OfWalk(w)
  BY DEF WalkInv, Inv
<1>3. /\ ServiceLegs(w) \subseteq ServiceRequests
      /\ Dh(w) \in ServiceRequests \ {r} /\ Create(w) \in ServiceRequests \ {r}
      /\ Ap(w) \in ServiceLegs(w) /\ Again(w) \in ServiceLegs(w) /\ Tampering(w) \in ServiceLegs(w)
      /\ \A leg \in ApLegs : <<w, leg>> \in ServiceLegs(w)
  <2>1. Dh(w) \notin ApRequests /\ Create(w) \notin ApRequests
    BY DEF ApRequests, Dh, Create
  <2>2. \A leg \in ApLegs : <<w, leg>> \in ServiceLegs(w)
    BY DEF ServiceLegs
  <2>3. QED
    BY <2>1, <2>2, LegsOfWalk
<1>4. \A q \in ServiceLegs(w) :
        /\ pc'[q] = "idle" <=> pc[q] = "idle"
        /\ pc[q] = "done" => status'[q] = status[q]
  BY <1>1, <1>3
<1>5. kdcPc' = kdcPc /\ kdcStatus' = kdcStatus /\ reply' = reply
  BY <1>1 DEF kdc
<1>6. Settles(w)
  BY <1>1, <1>3, <1>4, <1>5 DEF Settles
<1>7. status[Ap(w)] = "Accepted" => status'[Ap(w)] = "Accepted"
  <2>1. OfAp(w, "ap")
    BY <1>2 DEF OfWalk, ApLegs
  <2>2. QED
    BY <1>3, <1>4, <2>1 DEF OfAp, Ap
<1>8. \A stamp : Stamped(w, stamp) => Stamped(w, stamp)'
  BY <1>1 DEF Stamped
<1>9. /\ pc'[Dh(w)] = pc[Dh(w)] /\ status'[Dh(w)] = status[Dh(w)]
      /\ pc'[Create(w)] = pc[Create(w)] /\ status'[Create(w)] = status[Create(w)]
  BY <1>1, <1>3
<1>10. Sent(w)'
  BY <1>1, <1>2, <1>3, <1>4, <1>5, <1>7, <1>8, <1>9 DEF Sent
<1>11. QED
  BY <1>6, <1>10

\* The service's record is of this walk, whose TGS leg is over.
LEMMA TicketsFresh ==
  ASSUME WalkInv, NEW w \in Walks, NEW leg \in ApLegs, ByTickets,
         T!Serve(<<w, leg>>) \/ T!Fail(<<w, leg>>)
  PROVE  /\ Fresh'
         /\ \A v \in Walks \ {w}, stamp \in 1 .. MaxClock :
              restarts = 0 => replay'[ReplayKeyOf(Target, v, stamp)] =
                              replay[ReplayKeyOf(Target, v, stamp)]
<1> DEFINE r == <<w, leg>>
<1>1. /\ r \in ApRequests
      /\ \A v \in Walks : Create(v) \in ServiceRequests \ {r} /\ Ap(v) \in ServiceRequests
      /\ Ap(w) = <<w, "ap">>
  BY LegsOfWalk DEF ApLegs, ApRequests, Creates, Create, ServiceRequests, Ap
<1>2. /\ UNCHANGED <<dh, keytab, restarts, kdcPc>>
      /\ \A q \in ServiceRequests \ {r} : pc'[q] = pc[q] /\ status'[q] = status[q]
      /\ pc[r] \notin {"idle", "done"}
  BY <1>1, TicketsMoves, TicketsAnswer DEF WalkInv, kdc
<1>3. SUFFICES ASSUME restarts = 0
               PROVE  /\ DOMAIN replay' = T!ReplayKeys
                      /\ \A v \in Walks : Recordless(v)'
                      /\ \A v \in Walks \ {w}, stamp \in 1 .. MaxClock :
                           replay'[ReplayKeyOf(Target, v, stamp)] =
                             replay[ReplayKeyOf(Target, v, stamp)]
  BY <1>1, <1>2 DEF WalkInv, Fresh, SeedsThere, ClientKey, R!String2Key, PrincipalKey
<1>4. DOMAIN replay = T!ReplayKeys /\ \A v \in Walks : Recordless(v)
  BY <1>3 DEF WalkInv, Fresh
<1>5. \A v \in Walks : pc'[Ap(v)] # "done" => pc[Ap(v)] # "done"
  BY <1>1, <1>2
<1>6. CASE UNCHANGED replay
  <2>1. ASSUME NEW v \in Walks
        PROVE  Recordless(v)'
    BY <1>2, <1>4, <1>5, <1>6 DEF Recordless, ReplayKeyOf
  <2>2. QED
    BY <1>4, <1>6, <2>1
<1>7. CASE /\ pc[r] = "record" /\ pc'[r] = "done"
           /\ replay' = [replay EXCEPT ![T!ReplayKey(r)] = clock + SKEW_MS]
  <2>1. T!ReplayKey(r).username = w /\ kdcPc[Tgs(w)] = "done"
    BY <1>7, RecordOf
  <2>2. \A v \in Walks \ {w}, stamp \in 1 .. MaxClock :
          /\ replay'[ReplayKeyOf(Target, v, stamp)] = replay[ReplayKeyOf(Target, v, stamp)]
          /\ replay'[ReplayKeyOf("tgs", v, stamp)] = replay[ReplayKeyOf("tgs", v, stamp)]
    <3>1. ASSUME NEW v \in Walks \ {w}, NEW stamp \in 1 .. MaxClock,
                 NEW principal \in Principals
          PROVE  /\ ReplayKeyOf(principal, v, stamp) # T!ReplayKey(r)
                 /\ ReplayKeyOf(principal, v, stamp) \in T!ReplayKeys
      BY <2>1 DEF ReplayKeyOf, T!ReplayKeys
    <3>2. QED
      BY <1>4, <1>7, <3>1
  <2>3. pc'[Ap(w)] = "done"
    <3>1. CASE leg = "ap"
      BY <1>1, <1>7, <3>1
    <3>2. CASE leg # "ap"
      <4>1. Ap(w) \in ServiceRequests \ {r}
        BY <1>1, <3>2
      <4>2. Sent(w) /\ OfAp(w, "ap")
        BY DEF WalkInv, Inv, OfWalk, ApLegs
      <4>3. status[Ap(w)] = "Accepted"
        BY <1>7, <3>2, <4>2 DEF Sent, ApLegs, Again, Tampering
      <4>4. pc[Ap(w)] = "done"
        BY <1>1, <4>2, <4>3 DEF OfAp
      <4>5. QED
        BY <1>2, <4>1, <4>4
    <3>3. QED
      BY <3>1, <3>2
  <2>4. ASSUME NEW v \in Walks
        PROVE  Recordless(v)'
    <3>1. CASE v = w
      BY <1>2, <2>1, <2>3, <3>1 DEF Recordless
    <3>2. CASE v # w
      <4>1. Recordless(v) /\ kdcPc'[Tgs(v)] = kdcPc[Tgs(v)]
        BY <1>2, <1>4
      <4>2. \A stamp \in 1 .. MaxClock :
              /\ replay'[ReplayKeyOf(Target, v, stamp)] = replay[ReplayKeyOf(Target, v, stamp)]
              /\ replay'[ReplayKeyOf("tgs", v, stamp)] = replay[ReplayKeyOf("tgs", v, stamp)]
        BY <2>2, <3>2
      <4>3. QED
        BY <1>5, <4>1, <4>2 DEF Recordless, ReplayKeyOf
    <3>3. QED
      BY <3>1, <3>2
  <2>5. QED
    BY <1>4, <1>7, <2>2, <2>4
<1>8. QED
  BY <1>1, <1>6, <1>7, TicketsAnswer
\* What holds of the legs of an undisturbed walk when one of them moves.
ApMoves(w, r) ==
  /\ WalkInv /\ Undisturbed(w) /\ Undisturbed(w)'
  /\ T!Serve(r) \/ T!Fail(r)
  /\ ByTickets /\ UNCHANGED client

LEMMA ApCalm ==
  ASSUME NEW w \in Walks, NEW leg \in ApLegs, ApMoves(w, <<w, leg>>)
  PROVE  /\ OnTrack(w) /\ Sent(w) /\ OfWalk(w) /\ restarts = 0
         /\ started[w] \in Nat /\ clock \in Nat /\ clock # 0 /\ started[w] <= clock
         /\ clock <= started[w] + Horizon
         /\ keytab[<<Target, Realm>>] = PrincipalKey(Target, Realm)
         /\ PrincipalKey(Target, Realm) # None
         /\ pc[<<w, leg>>] \notin {"idle", "done"}
         /\ input[<<w, leg>>].realm = Realm
         /\ kdcStatus[Tgs(w)] = "Ok"
         /\ T!ServiceTicket(<<w, leg>>) = K!Issued(Tgs(w))
         /\ status'[<<w, leg>>] # "Error"
         /\ UNCHANGED <<clock, input, started, reply>>
         /\ \A q \in ServiceLegs(w) \ {<<w, leg>>} : pc'[q] = pc[q] /\ status'[q] = status[q]
<1> DEFINE r == <<w, leg>>
<1> USE DEF ApMoves
<1>1. r \in ApRequests /\ r \in ServiceLegs(w)
  BY DEF ApLegs, ApRequests, ServiceLegs
<1>2. /\ OnTrack(w) /\ Sent(w) /\ OfWalk(w) /\ restarts = 0 /\ Fresh
      /\ clock <= started[w] + Horizon
  BY CalmMeans DEF WalkInv, Inv
<1>3. started[w] \in Nat /\ clock \in Nat /\ clock # 0 /\ started[w] <= clock
  BY <1>2 DEF WalkInv, Held, Inv, Tables, Sent
<1>4. keytab[<<Target, Realm>>] = PrincipalKey(Target, Realm) /\ PrincipalKey(Target, Realm) # None
  BY <1>2 DEF Fresh, SeedsThere, PrincipalKey
<1>5. /\ pc[r] \notin {"idle", "done"} /\ UNCHANGED <<clock, input, started, reply>>
      /\ \A q \in ServiceRequests \ {r} : pc'[q] = pc[q] /\ status'[q] = status[q]
  BY <1>1, TicketsMoves DEF WalkInv, kdc, client
<1>6. /\ input[r].realm = Realm /\ kdcStatus[Tgs(w)] = "Ok"
      /\ T!ServiceTicket(r) = K!Issued(Tgs(w))
  BY <1>2, <1>5 DEF Sent, OfWalk, OfAp
<1>7. status'[r] # "Error"
  BY <1>1, LegsOfWalk DEF Undisturbed
<1>8. QED
  BY <1>2, <1>3, <1>4, <1>5, <1>6, <1>7, LegsOfWalk

\* The first request is accepted: nothing is recorded under its key.
LEMMA ApOnTrack ==
  ASSUME NEW w \in Walks, ApMoves(w, Ap(w))
  PROVE  AnswersSoFar(w)'
<1> DEFINE r == Ap(w)
           stamp == input[r].authenticator.payload.timestamp
<1>1. r = <<w, "ap">> /\ "ap" \in ApLegs /\ r \in ApRequests
  BY LegsOfWalk DEF Ap, ApLegs
<1>2. /\ OnTrack(w) /\ Sent(w) /\ OfWalk(w) /\ restarts = 0
      /\ started[w] \in Nat /\ clock \in Nat /\ clock # 0 /\ started[w] <= clock
      /\ clock <= started[w] + Horizon
      /\ keytab[<<Target, Realm>>] = PrincipalKey(Target, Realm)
      /\ PrincipalKey(Target, Realm) # None
      /\ pc[r] \notin {"idle", "done"} /\ input[r].realm = Realm
      /\ kdcStatus[Tgs(w)] = "Ok" /\ T!ServiceTicket(r) = K!Issued(Tgs(w))
      /\ status'[r] # "Error"
      /\ UNCHANGED <<clock, input, started, reply>>
      /\ \A q \in ServiceLegs(w) \ {r} : pc'[q] = pc[q] /\ status'[q] = status[q]
  BY <1>1, ApCalm
<1>3. /\ input[r].ip = Here /\ input[r].serviceTicket = reply[Tgs(w)].ticket
      /\ input[r].authenticator.key = reply[Tgs(w)].challenge.payload.sessionKey
      /\ input[r].authenticator.payload.username = w
      /\ Stamped(w, stamp)
  BY <1>2 DEF Sent
<1>4. /\ input[r].serviceTicket.key = PrincipalKey(Target, Realm)
      /\ K!Issued(Tgs(w)).principal = Target /\ K!Issued(Tgs(w)).username = w
      /\ K!Issued(Tgs(w)).ip = Here
      /\ started[w] + Horizon <= K!Issued(Tgs(w)).lifetime
      /\ K!Issued(Tgs(w)).lifetime \in Nat
      /\ input[r].authenticator.key = K!Issued(Tgs(w)).sessionKey
  BY <1>2, <1>3 DEF OnTrack, TicketsSoFar, Grants, OfWalk, OfTgs
<1>5. T!Decoded(r)
  BY <1>2, <1>3, <1>4 DEF T!Decoded, T!Opens
<1>6. T!Valid(r)
  <2>1. T!WithinSkew(stamp, clock)
    BY <1>2, <1>3, HorizonIsNat DEF T!WithinSkew, Stamped
  <2>2. clock <= K!Issued(Tgs(w)).lifetime
    BY <1>2, <1>4, HorizonIsNat
  <2>3. QED
    BY <1>2, <1>3, <1>4, <2>1, <2>2 DEF T!Valid, T!Auth
\* The other requests of the exchange have not been sent.
<1>7. status[r] = "Pending" /\ pc[Again(w)] = "idle" /\ pc[Tampering(w)] = "idle"
  BY <1>1, <1>2 DEF OfWalk, OfAp, Sent
<1>8. /\ pc'[Again(w)] = "idle" /\ pc'[Tampering(w)] = "idle"
      /\ Again(w) # r /\ Tampering(w) # r
  BY <1>2, <1>7, LegsOfWalk DEF Ap, Again, Tampering
<1>9. T!ReplayKey(r) = ReplayKeyOf(Target, w, stamp)
  BY <1>2, <1>3, <1>4 DEF T!ReplayKey, T!Auth, ReplayKeyOf
<1>10. replay[T!ReplayKey(r)] = 0 /\ T!ReplayKey(r) \in DOMAIN replay
  <2>1. stamp \in 1 .. MaxClock
    BY <1>3 DEF Stamped
  <2>2. Recordless(w) /\ DOMAIN replay = T!ReplayKeys
    BY <1>2 DEF ApMoves, WalkInv, Fresh
  <2>3. T!ReplayKey(r) \in T!ReplayKeys
    BY <1>9, <2>1 DEF ReplayKeyOf, T!ReplayKeys
  <2>4. QED
    BY <1>2, <1>9, <2>1, <2>2, <2>3 DEF Recordless
<1>11. ~ T!Live(replay, T!ReplayKey(r), clock)
  BY <1>2, <1>10 DEF T!Live
<1>12. T!ReplayKey(r)' = T!ReplayKey(r)
  BY <1>2 DEF T!ReplayKey, T!Auth, T!ServiceTicket
<1>13. \/ pc'[r] = "record" /\ status'[r] = "Pending"
       \/ /\ pc'[r] = "done" /\ status'[r] = "Accepted"
          /\ replay' = [replay EXCEPT ![T!ReplayKey(r)] = clock + SKEW_MS]
  BY <1>1, <1>2, <1>5, <1>6, <1>7, <1>11, TicketsAnswer DEF ApMoves
<1>14. CASE pc'[r] = "record" /\ status'[r] = "Pending"
  BY <1>8, <1>14 DEF AnswersSoFar
<1>15. CASE /\ pc'[r] = "done" /\ status'[r] = "Accepted"
            /\ replay' = [replay EXCEPT ![T!ReplayKey(r)] = clock + SKEW_MS]
  <2>1. replay'[T!ReplayKey(r)] = clock + SKEW_MS
    BY <1>10, <1>15
  <2>2. /\ replay'[T!ReplayKey(r)] \in Nat
        /\ started[w] + Horizon <= replay'[T!ReplayKey(r)]
    BY <1>2, <2>1, HorizonIsNat
  <2>3. QED
    BY <1>2, <1>8, <1>12, <1>15, <2>2 DEF AnswersSoFar
<1>16. QED
  BY <1>13, <1>14, <1>15

\* The same authenticator again is refused: it is recorded, for as long as the
\* walk may take.  A ticket that opens under no key is refused at once.
LEMMA RepeatsOnTrack ==
  ASSUME NEW w \in Walks, NEW r \in {Again(w), Tampering(w)}, ApMoves(w, r)
  PROVE  AnswersSoFar(w)'
<1>1. PICK leg \in ApLegs : r = <<w, leg>>
  BY DEF Again, Tampering, ApLegs
<1>2. /\ OnTrack(w) /\ Sent(w) /\ OfWalk(w) /\ restarts = 0
      /\ started[w] \in Nat /\ clock \in Nat /\ clock # 0 /\ started[w] <= clock
      /\ clock <= started[w] + Horizon
      /\ keytab[<<Target, Realm>>] = PrincipalKey(Target, Realm)
      /\ PrincipalKey(Target, Realm) # None
      /\ pc[r] \notin {"idle", "done"} /\ input[r].realm = Realm
      /\ kdcStatus[Tgs(w)] = "Ok" /\ T!ServiceTicket(r) = K!Issued(Tgs(w))
      /\ status'[r] # "Error"
      /\ UNCHANGED <<clock, input, started, reply>>
      /\ \A q \in ServiceLegs(w) \ {r} : pc'[q] = pc[q] /\ status'[q] = status[q]
  <2>1. ApMoves(w, <<w, leg>>)
    BY <1>1
  <2>2. QED
    BY <1>1, <2>1, ApCalm
<1>3. /\ Ap(w) \in ServiceLegs(w) /\ Again(w) \in ServiceLegs(w) /\ Tampering(w) \in ServiceLegs(w)
      /\ Ap(w) # Again(w) /\ Ap(w) # Tampering(w) /\ Again(w) # Tampering(w)
      /\ r \in ApRequests
  BY LegsOfWalk DEF Ap, Again, Tampering
<1>4. AnswersSoFar(w)
  BY <1>2 DEF OnTrack
<1>5. status[Ap(w)] = "Accepted" /\ pc[Ap(w)] = "done"
  BY <1>2 DEF Sent, OfWalk, OfAp, ApLegs, Ap
<1>6. pc'[Ap(w)] = "done" /\ status'[Ap(w)] = "Accepted"
  BY <1>2, <1>3, <1>5
<1>7. T!ReplayKey(Ap(w))' = T!ReplayKey(Ap(w))
  BY <1>2 DEF T!ReplayKey, T!Auth, T!ServiceTicket
<1>8. SUFFICES /\ UNCHANGED replay
               /\ pc'[Again(w)] = "done" => status'[Again(w)] \in Refusal
               /\ pc'[Tampering(w)] \in {"idle", "lookup", "done"}
               /\ pc'[Tampering(w)] = "done" => status'[Tampering(w)] \in Refusal
  BY <1>2, <1>4, <1>5, <1>6, <1>7 DEF AnswersSoFar
<1>9. CASE r = Again(w)
  <2>1. /\ pc'[Tampering(w)] = pc[Tampering(w)] /\ status'[Tampering(w)] = status[Tampering(w)]
    BY <1>2, <1>3, <1>9
  <2>2. T!ReplayKey(r) = T!ReplayKey(Ap(w))
    <3>1. /\ input[r].authenticator = input[Ap(w)].authenticator
          /\ input[Ap(w)].realm = Realm
          /\ T!ServiceTicket(Ap(w)) = K!Issued(Tgs(w))
      BY <1>2, <1>5, <1>9 DEF Sent, OfWalk, OfAp, ApLegs, Ap
    <3>2. QED
      BY <1>2, <3>1 DEF T!ReplayKey, T!Auth
  <2>3. T!Live(replay, T!ReplayKey(r), clock)
    BY <1>2, <1>4, <1>5, <2>2, HorizonIsNat DEF AnswersSoFar, T!Live
  <2>4. UNCHANGED replay /\ (pc'[r] = "done" => status'[r] \in Refusal)
    BY <1>2, <1>3, <2>3, TicketsAnswer DEF ApMoves, Refusal
  <2>5. QED
    BY <1>4, <1>9, <2>1, <2>4 DEF AnswersSoFar
<1>10. CASE r = Tampering(w)
  <2>1. pc'[Again(w)] = pc[Again(w)] /\ status'[Again(w)] = status[Again(w)]
    BY <1>2, <1>3, <1>10
  <2>2. ~ T!Decoded(r) /\ pc[r] = "lookup"
    <3>1. input[r].serviceTicket.key = None
      BY <1>2, <1>10 DEF ApMoves, Undisturbed, Altered, Tampering
    <3>2. ~ T!Decoded(r)
      BY <1>2, <3>1 DEF T!Decoded, T!Opens
    <3>3. QED
      BY <1>2, <1>4, <1>10, <3>2 DEF AnswersSoFar
  <2>3. pc'[r] = "done" /\ status'[r] = "Unauthorized" /\ UNCHANGED replay
    BY <1>2, <1>3, <2>2, TicketsAnswer DEF ApMoves
  <2>4. QED
    BY <1>4, <1>10, <2>1, <2>3 DEF AnswersSoFar, Refusal
<1>11. QED
  BY <1>9, <1>10

LEMMA TicketsGoOn ==
  ASSUME WalkInv, NEW r \in ApRequests, T!Serve(r) \/ T!Fail(r), ByTickets, UNCHANGED client
  PROVE  WalkInv'
<1>1. PICK w \in Walks, leg \in ApLegs : r = <<w, leg>>
  BY DEF ApRequests, ApLegs
<1>2. Inv' /\ Fresh'
  BY <1>1, TicketsKeep, TicketsFresh DEF WalkInv
<1>3. /\ UNCHANGED <<clock, input, users, started, at, restarts, dh>>
      /\ UNCHANGED <<kdcPc, kdcStatus, reply, userKey, ticketKey>>
      /\ \A q \in ServiceRequests \ {r} : pc'[q] = pc[q] /\ status'[q] = status[q]
  BY TicketsMoves, TicketsAnswer DEF WalkInv, kdc, client
<1>4. Held' /\ Onward
  BY <1>3 DEF WalkInv, Held, Inv, Tables, Onward
<1>5. \A v \in Walks : Settles(v) /\ Sent(v)'
  BY TicketsSent
<1>6. ASSUME NEW v \in Walks, v # w
      PROVE  Undisturbed(v) /\ Undisturbed(v)' => OnTrack(v)'
  <2>1. ServiceLegs(v) \subseteq ServiceRequests \ {r}
    <3>1. r[1] = w /\ ServiceLegs(v) \subseteq Requests(v) \cap ServiceRequests
      BY <1>1, LegsOfWalk
    <3>2. QED
      BY <1>6, <3>1 DEF Requests
  <2>2. Rested(v)
    BY <1>3, <2>1 DEF Rested
  <2>3. Undisturbed(v) => restarts = 0
    BY CalmMeans
  <2>4. QED
    BY <1>1, <1>3, <1>4, <1>6, <2>2, <2>3, TicketsFresh, RestedGoesOn
<1>7. ASSUME Undisturbed(w), Undisturbed(w)'
      PROVE  OnTrack(w)'
  <2>1. OnTrack(w)
    BY <1>7 DEF WalkInv
  <2>2. Dh(w) \in ServiceRequests \ {r} /\ Create(w) \in ServiceRequests \ {r}
    BY LegsOfWalk DEF ServiceRequests, ApRequests, Exchanges, Creates
  <2>3. RegisteredSoFar(w)'
    BY <1>3, <2>1, <2>2 DEF OnTrack, RegisteredSoFar
  <2>4. TicketsSoFar(w)'
    BY <1>3, <2>1 DEF OnTrack, TicketsSoFar, Grants, K!Issued, ClientKey, R!String2Key
  <2>5. ApMoves(w, r) /\ r \in {Ap(w), Again(w), Tampering(w)}
    BY <1>1, <1>7 DEF ApMoves, ApLegs, Ap, Again, Tampering
  <2>6. AnswersSoFar(w)'
    BY <2>5, ApOnTrack, RepeatsOnTrack
  <2>7. QED
    BY <2>3, <2>4, <2>6 DEF OnTrack
<1>8. QED
  BY <1>2, <1>3, <1>4, <1>5, <1>6, <1>7, WalksGoOn
-----------------------------------------------------------------------------
(* Steps of the application service: registration. *)

\* A key exchange leaves its secret in Redis, unless it fails.
LEMMA ExchangeAnswer ==
  ASSUME WalkInv, NEW w \in Walks, ByRegistration, R!Fail(Dh(w)) \/ R!ServeExchange(Dh(w))
  PROVE  /\ UNCHANGED <<keytab, users, restarts, replay>>
         /\ pc[Dh(w)] = "dh.set" /\ pc'[Dh(w)] = "done"
         /\ dh' = dh \/ dh' = [dh EXCEPT ![w] = Dh(w)]
         /\ \/ status'[Dh(w)] = "Failed"
            \/ status'[Dh(w)] = "Ok" /\ dh' = [dh EXCEPT ![w] = Dh(w)]
<1>1. /\ Dh(w) \in Exchanges /\ Dh(w) \in ServiceRequests
      /\ DOMAIN pc = ServiceRequests /\ DOMAIN status = ServiceRequests
  BY LegsOfWalk DEF ServiceRequests, WalkInv, Inv, Tables
<1>2. pc[Dh(w)] \in {"idle", "dh.set", "done"} /\ (pc[Dh(w)] # "idle" => input[Dh(w)] = w)
  BY <1>1 DEF WalkInv, Inv, Ways, Sent
<1>3. CASE R!Fail(Dh(w))
  BY <1>1, <1>2, <1>3 DEF R!Fail, R!Answer, R!Await, R!CacheSecret, R!Inserted, R!KeySet,
     R!SecretDeleted, R!redis, ByRegistration
<1>4. CASE R!ServeExchange(Dh(w))
  BY <1>1, <1>2, <1>4 DEF R!ServeExchange, R!KeyExchange, R!CacheSecret, R!Answer, R!Await,
     ByRegistration
<1>5. QED
  BY <1>3, <1>4

\* A registration is answered "Created", or a command fails, or there is no
\* secret of this walk's.
LEMMA CreateAnswer ==
  ASSUME WalkInv, NEW w \in Walks, ByRegistration, R!Fail(Create(w)) \/ R!ServeCreate(Create(w))
  PROVE  LET c == Create(w)
             stored == [keytab EXCEPT ![<<w, Realm>>] = ClientKey(w)]
         IN  /\ UNCHANGED <<replay, restarts>>
             /\ dh' = dh \/ dh' = [dh EXCEPT ![w] = None]
             /\ keytab' = keytab \/ keytab' = stored
             /\ \/ users' = users
                \/ /\ pc'[c] \in {"keytab.set", "done"}
                   /\ users' = [users EXCEPT ![<<w, Realm>>] = ClientKey(w)]
             /\ pc[c] \notin {"idle", "done"}
             /\ \/ pc'[c] = "done" /\ status'[c] = "Failed"
                \/ /\ pc[c] = "dh.get" /\ dh[w] # Dh(w)
                   /\ pc'[c] = "done" /\ status'[c] \notin {"Pending", "Created"}
                \/ /\ pc[c] = "dh.del" /\ keytab' = keytab
                   /\ pc'[c] = "done" /\ status'[c] = "Created"
                \/ pc'[c] = "dh.del" /\ status' = status /\ keytab' = stored
                \/ pc'[c] = "keytab.set" /\ status' = status
                \/ /\ pc[c] \in {"dh.get", "db.findOne"} /\ users' = users
                   /\ pc'[c] \in {"db.findOne", "db.save"} /\ status' = status
<1> DEFINE c == Create(w)
<1>1. /\ c \in Creates /\ c \in ServiceRequests
      /\ DOMAIN pc = ServiceRequests /\ DOMAIN status = ServiceRequests
      /\ UNCHANGED replay
  BY LegsOfWalk DEF ServiceRequests, WalkInv, Inv, Tables, ByRegistration
<1>2. pc[c] \in {"idle", "dh.get", "db.findOne", "db.save", "keytab.set", "dh.del", "done"}
  BY <1>1 DEF WalkInv, Inv, Ways
<1>3. pc[c] # "idle" =>
        /\ input[c].username = w /\ R!Name(c) = <<w, Realm>> /\ R!PrincipalKey(c) = ClientKey(w)
        /\ input[c].password.key = Dh(w)
  BY DEF WalkInv, Inv, OfWalk, OfCreate, Sent, R!Name, R!PrincipalKey, ClientKey
<1>4. pc[c] \in {"db.findOne", "db.save"} => users[<<w, Realm>>] = None
  BY DEF WalkInv, Sent
<1> USE DEF R!Answer, R!Await, R!redis
<1>5. CASE R!Fail(c)
  BY <1>1, <1>2, <1>3, <1>5 DEF R!Fail, R!CacheSecret, R!Inserted, R!KeySet, R!SecretDeleted
<1>6. CASE R!RefusePassword(c)
  <2>1. dh[w] # Dh(w)
    BY <1>3, <1>6, LegsOfWalk DEF R!RefusePassword
  <2>2. \E code \in {"Forbidden", "Unauthorized", "BadRequest"} : R!Throw(c, code)
    BY <1>6 DEF R!RefusePassword
  <2>3. pc[c] = "dh.get"
    BY <1>6 DEF R!RefusePassword
  <2>4. QED
    BY <1>1, <2>1, <2>2, <2>3 DEF R!Throw
<1>7. CASE R!RefuseExisting(c) \/ R!RefuseDuplicate(c)
  BY <1>3, <1>4, <1>7 DEF R!RefuseExisting, R!RefuseDuplicate
<1>8. CASE R!DecryptPassword(c) \/ R!FindNone(c)
  BY <1>1, <1>8 DEF R!DecryptPassword, R!FindNone
<1>9. CASE R!Save(c)
  BY <1>1, <1>3, <1>9 DEF R!Save, R!Inserted
<1>10. CASE R!SetKey(c)
  BY <1>1, <1>3, <1>10 DEF R!SetKey, R!KeySet
<1>11. CASE R!DeleteSecret(c)
  BY <1>1, <1>3, <1>11 DEF R!DeleteSecret, R!SecretDeleted
<1>12. QED
  BY <1>5, <1>6, <1>7, <1>8, <1>9, <1>10, <1>11 DEF R!ServeCreate

\* What a request of the registration leaves alone.
LEMMA RegistrationApart ==
  ASSUME WalkInv, NEW w \in Walks, NEW r \in {Dh(w), Create(w)}, ByRegistration, UNCHANGED client,
         R!Fail(r) \/ (r \in Exchanges /\ R!ServeExchange(r))
           \/ (r \in Creates /\ R!ServeCreate(r))
  PROVE  /\ UNCHANGED <<clock, replay, input, started, at, kdcPc, kdcStatus, reply, userKey,
                        ticketKey>>
         /\ restarts' = restarts
         /\ pc[r] \notin {"idle", "done"}
         /\ \A q \in ServiceRequests \ {r} : pc'[q] = pc[q] /\ status'[q] = status[q]
         /\ Held' /\ Onward
<1>1. r \in Exchanges \cup Creates
  BY LegsOfWalk
<1>2. restarts' = restarts
  <2>1. CASE r = Dh(w)
    <3>1. r \notin Creates
      BY <2>1 DEF Dh, Creates
    <3>2. QED
      BY <2>1, <3>1, ExchangeAnswer
  <2>2. CASE r = Create(w)
    <3>1. r \notin Exchanges
      BY <2>2 DEF Create, Exchanges
    <3>2. QED
      BY <2>2, <3>1, CreateAnswer
  <2>3. QED
    BY <2>1, <2>2
<1>3. /\ UNCHANGED <<clock, replay, input, started, at, kdcPc, kdcStatus, reply, userKey, ticketKey>>
      /\ pc[r] \notin {"idle", "done"}
      /\ \A q \in ServiceRequests \ {r} : pc'[q] = pc[q] /\ status'[q] = status[q]
  BY <1>1, RegistrationMoves DEF WalkInv, ByRegistration, kdc, client
<1>4. Held' /\ Onward
  BY <1>2, <1>3 DEF WalkInv, Held, Inv, Tables, Onward
<1>5. QED
  BY <1>2, <1>3, <1>4

\* The other walks' requests, rows and secrets are not this walk's.
LEMMA OthersRest ==
  ASSUME NEW w \in Walks, NEW v \in Walks \ {w}
  PROVE  /\ ServiceLegs(v) \subseteq ServiceRequests \ ServiceLegs(w)
         /\ Dh(v) \in ServiceLegs(v) /\ Create(v) \in ServiceLegs(v) /\ Ap(v) \in ServiceLegs(v)
<1>1. ASSUME NEW u \in Walks
      PROVE  /\ ServiceLegs(u) \subseteq ServiceRequests
             /\ \A q \in ServiceLegs(u) : q[1] = u
             /\ Dh(u) \in ServiceLegs(u) /\ Create(u) \in ServiceLegs(u) /\ Ap(u) \in ServiceLegs(u)
  <2>1. /\ ServiceLegs(u) \subseteq ServiceRequests
        /\ ServiceLegs(u) = {Dh(u), Create(u), Ap(u), Again(u), Tampering(u)}
    BY LegsOfWalk
  <2>2. QED
    BY <2>1 DEF Dh, Create, Ap, Again, Tampering
<1>2. v # w
  OBVIOUS
<1>3. ServiceLegs(v) \cap ServiceLegs(w) = {}
  BY <1>1, <1>2
<1>4. QED
  BY <1>1, <1>3

LEMMA ExchangeGoesOn ==
  ASSUME WalkInv, NEW w \in Walks, ByRegistration, UNCHANGED client,
         R!Fail(Dh(w)) \/ R!ServeExchange(Dh(w))
  PROVE  WalkInv'
<1> DEFINE e == Dh(w)
<1>1. /\ e \in Exchanges /\ e \in ServiceLegs(w) /\ ServiceLegs(w) \subseteq ServiceRequests
      /\ \A leg \in ApLegs : <<w, leg>> \in ServiceRequests \ {e}
      /\ Create(w) \in ServiceRequests \ {e}
  BY LegsOfWalk DEF ServiceRequests, ApRequests, Dh, Create, ApLegs
<1>2. /\ UNCHANGED <<clock, replay, input, started, at, kdcPc, kdcStatus, reply, userKey, ticketKey>>
      /\ UNCHANGED <<keytab, users, restarts>>
      /\ \A q \in ServiceRequests \ {e} : pc'[q] = pc[q] /\ status'[q] = status[q]
      /\ Held' /\ Onward
  BY <1>1, RegistrationApart, ExchangeAnswer
<1>3. /\ pc[e] = "dh.set" /\ pc'[e] = "done"
      /\ dh' = dh \/ dh' = [dh EXCEPT ![w] = e]
      /\ \/ status'[e] = "Failed"
         \/ status'[e] = "Ok" /\ dh' = [dh EXCEPT ![w] = e]
  BY ExchangeAnswer
<1>4. Inv'
  BY <1>1, ExchangesKeep DEF WalkInv
<1>5. Fresh'
  <2>1. SUFFICES ASSUME restarts = 0
                 PROVE  /\ DOMAIN replay' = T!ReplayKeys /\ DOMAIN dh' = Walks
                        /\ SeedsThere'
                        /\ \A v \in Walks :
                             /\ Recordless(v)'
                             /\ pc'[Create(v)] = "dh.del" \/ status'[Create(v)] = "Created" =>
                                  keytab'[<<v, Realm>>] = ClientKey(v)
    BY <1>2 DEF Fresh, ClientKey, R!String2Key
  <2>2. Fresh /\ restarts = 0
    BY <2>1 DEF WalkInv
  <2>3. \A v \in Walks : /\ Create(v) \in ServiceRequests \ {e}
                         /\ Ap(v) \in ServiceRequests \ {e}
    BY LegsOfWalk DEF ServiceRequests, Dh, Create, Ap
  <2>4. SeedsThere'
    BY <1>2, <2>2 DEF Fresh, SeedsThere, PrincipalKey
  <2>5. \A v \in Walks : Recordless(v)'
    BY <1>2, <2>2, <2>3 DEF Fresh, Recordless, ReplayKeyOf
  <2>6. QED
    BY <1>2, <1>3, <2>2, <2>3, <2>4, <2>5 DEF Fresh
<1>6. ASSUME NEW v \in Walks, v # w
      PROVE  /\ Settles(v) /\ Sent(v)'
             /\ Undisturbed(v) /\ Undisturbed(v)' => OnTrack(v)'
  <2>1. ServiceLegs(v) \subseteq ServiceRequests \ {e}
    BY <1>1, <1>6, OthersRest
  <2>2. Rested(v)
    BY <1>2, <2>1 DEF Rested
  <2>3. restarts = 0 => dh'[v] = dh[v]
    BY <1>3, <1>6 DEF WalkInv, Fresh
  <2>4. Undisturbed(v) => restarts = 0
    BY CalmMeans
  <2>5. QED
    BY <1>2, <1>6, <2>2, <2>3, <2>4, RestedGoesOn DEF ReplayKeyOf
<1>7. Sent(w) /\ OfWalk(w)
  BY DEF WalkInv, Inv
\* The walk has sent nothing else.
<1>8. pc[Create(w)] = "idle" /\ AsIdle(w)
  <2>1. pc[Create(w)] = "idle"
    BY <1>3, <1>7 DEF Sent
  <2>2. QED
    BY <1>7, <2>1, InOrder DEF OfWalk, OfCreate
<1>9. pc'[Create(w)] = "idle" /\ AsIdle(w)' /\ status'[Create(w)] = status[Create(w)]
  BY <1>1, <1>2, <1>8 DEF AsIdle, TgsIdle, ApIdle
<1>10. Settles(w)
  <2>1. \A q \in ServiceLegs(w) : pc[q] = "done" => status'[q] = status[q]
    BY <1>1, <1>2, <1>3
  <2>2. pc[Tampering(w)] = "idle"
    BY <1>8 DEF AsIdle, TgsIdle, ApIdle, Tampering, ApLegs
  <2>3. QED
    BY <1>2, <2>1, <2>2 DEF Settles
<1>11. Sent(w)'
  <2>1. started'[w] \in Nat /\ started'[w] <= clock'
    BY <1>2, <1>7 DEF Sent
  <2>2. input'[e] = w /\ pc'[e] = "done" /\ users'[<<w, Realm>>] = None
    BY <1>2, <1>3, <1>7, <1>8 DEF Sent
  <2>3. \A leg \in ApLegs : pc'[<<w, leg>>] = "idle"
    BY <1>9 DEF AsIdle, TgsIdle, ApIdle
  <2>4. pc'[Ap(w)] = "idle" /\ pc'[Again(w)] = "idle" /\ pc'[Tampering(w)] = "idle"
    BY <2>3 DEF Ap, Again, Tampering, ApLegs
  <2>5. kdcPc'[As(w)] = "idle" /\ kdcPc'[Tgs(w)] = "idle"
    BY <1>9 DEF AsIdle, TgsIdle
  <2>6. QED
    BY <1>9, <2>1, <2>2, <2>3, <2>4, <2>5 DEF Sent
<1>12. ASSUME Undisturbed(w), Undisturbed(w)'
       PROVE  OnTrack(w)'
  <2>1. status'[e] = "Ok" /\ dh' = [dh EXCEPT ![w] = e] /\ w \in DOMAIN dh
    <3>1. status'[e] # "Failed"
      BY <1>1, <1>12, LegsOfWalk DEF Undisturbed
    <3>2. restarts = 0
      BY <1>12, CalmMeans
    <3>3. QED
      BY <1>3, <3>1, <3>2 DEF WalkInv, Fresh
  <2>2. RegisteredSoFar(w)'
    BY <1>9, <2>1 DEF RegisteredSoFar
  <2>3. TicketsSoFar(w)'
    BY <1>9 DEF AsIdle, TgsIdle, TicketsSoFar, Shaping
  <2>4. AnswersSoFar(w)'
    BY <1>9 DEF AsIdle, TgsIdle, ApIdle, AnswersSoFar, Ap, Again, Tampering, ApLegs
  <2>5. QED
    BY <2>2, <2>3, <2>4 DEF OnTrack
<1>13. QED
  BY <1>2, <1>4, <1>5, <1>6, <1>10, <1>11, <1>12, WalksGoOn

LEMMA CreateGoesOn ==
  ASSUME WalkInv, NEW w \in Walks, ByRegistration, UNCHANGED client,
         R!Fail(Create(w)) \/ R!ServeCreate(Create(w))
  PROVE  WalkInv'
<1> DEFINE c == Create(w)
           stored == [keytab EXCEPT ![<<w, Realm>>] = ClientKey(w)]
<1>1. /\ c \in Creates /\ c \in ServiceLegs(w) /\ ServiceLegs(w) \subseteq ServiceRequests
      /\ \A leg \in ApLegs : <<w, leg>> \in ServiceRequests \ {c}
      /\ Dh(w) \in ServiceRequests \ {c} /\ <<w, Realm>> \in R!Names
  BY LegsOfWalk DEF ServiceRequests, ApRequests, Dh, Create, ApLegs
<1>2. /\ UNCHANGED <<clock, replay, input, started, at, kdcPc, kdcStatus, reply, userKey, ticketKey>>
      /\ restarts' = restarts
      /\ pc[c] \notin {"idle", "done"}
      /\ \A q \in ServiceRequests \ {c} : pc'[q] = pc[q] /\ status'[q] = status[q]
      /\ Held' /\ Onward
  BY <1>1, RegistrationApart
<1>3. /\ dh' = dh \/ dh' = [dh EXCEPT ![w] = None]
      /\ keytab' = keytab \/ keytab' = stored
      /\ \/ users' = users
         \/ /\ pc'[c] \in {"keytab.set", "done"}
            /\ users' = [users EXCEPT ![<<w, Realm>>] = ClientKey(w)]
      /\ \/ pc'[c] = "done" /\ status'[c] = "Failed"
         \/ /\ pc[c] = "dh.get" /\ dh[w] # Dh(w)
            /\ pc'[c] = "done" /\ status'[c] \notin {"Pending", "Created"}
         \/ /\ pc[c] = "dh.del" /\ keytab' = keytab
            /\ pc'[c] = "done" /\ status'[c] = "Created"
         \/ pc'[c] = "dh.del" /\ status' = status /\ keytab' = stored
         \/ pc'[c] = "keytab.set" /\ status' = status
         \/ /\ pc[c] \in {"dh.get", "db.findOne"} /\ users' = users
            /\ pc'[c] \in {"db.findOne", "db.save"} /\ status' = status
  BY CreateAnswer
<1>4. Inv'
  BY <1>1, CreatesKeep DEF WalkInv
<1>5. Sent(w) /\ OfWalk(w)
  BY DEF WalkInv, Inv
<1>6. status[c] = "Pending" /\ AsIdle(w)
  BY <1>2, <1>5, InOrder DEF OfWalk, OfCreate
<1>7. AsIdle(w)'
  BY <1>1, <1>2, <1>6 DEF AsIdle, TgsIdle, ApIdle
<1>8. Fresh'
  <2>1. SUFFICES ASSUME restarts = 0
                 PROVE  /\ DOMAIN replay' = T!ReplayKeys /\ DOMAIN dh' = Walks
                        /\ SeedsThere'
                        /\ \A v \in Walks :
                             /\ Recordless(v)'
                             /\ pc'[Create(v)] = "dh.del" \/ status'[Create(v)] = "Created" =>
                                  keytab'[<<v, Realm>>] = ClientKey(v)
    BY <1>2 DEF Fresh, ClientKey, R!String2Key
  <2>2. Fresh /\ restarts = 0
    BY <2>1 DEF WalkInv
  <2>3. DOMAIN keytab = K!Names \X {Realm} /\ <<w, Realm>> \in DOMAIN keytab
    BY DEF WalkInv, Inv, Policy, K!Names
  <2>4. \A name : name # w => keytab'[<<name, Realm>>] = keytab[<<name, Realm>>]
    <3>1. ASSUME NEW name, name # w, keytab' = stored
          PROVE  keytab'[<<name, Realm>>] = keytab[<<name, Realm>>]
      <4>1. <<name, Realm>> # <<w, Realm>>
        BY <3>1
      <4>2. CASE <<name, Realm>> \in DOMAIN keytab
        BY <3>1, <4>1, <4>2
      <4>3. CASE <<name, Realm>> \notin DOMAIN keytab
        BY <3>1, <4>1, <4>3
      <4>4. QED
        BY <4>2, <4>3
    <3>2. QED
      BY <1>3, <3>1
  <2>5. SeedsThere'
    BY <2>2, <2>4 DEF Fresh, SeedsThere, PrincipalKey
  <2>6. \A v \in Walks : Ap(v) \in ServiceRequests \ {c}
    BY LegsOfWalk DEF ServiceRequests, Create, Ap
  <2>7. \A v \in Walks : Recordless(v)'
    BY <1>2, <2>2, <2>6 DEF Fresh, Recordless, ReplayKeyOf
  <2>8. ASSUME NEW v \in Walks, pc'[Create(v)] = "dh.del" \/ status'[Create(v)] = "Created"
        PROVE  keytab'[<<v, Realm>>] = ClientKey(v)
    <3>1. CASE v = w
      <4>1. CASE keytab' = stored
        BY <2>3, <3>1, <4>1
      <4>2. CASE pc[c] = "dh.del" /\ keytab' = keytab
        BY <2>2, <3>1, <4>2 DEF Fresh
      <4>3. QED
        BY <1>3, <1>6, <2>8, <3>1, <4>1, <4>2
    <3>2. CASE v # w
      <4>1. Create(v) \in ServiceRequests \ {c}
        BY <3>2, LegsOfWalk DEF ServiceRequests, Create
      <4>2. QED
        BY <1>2, <2>2, <2>4, <2>8, <3>2, <4>1 DEF Fresh
    <3>3. QED
      BY <3>1, <3>2
  <2>9. QED
    BY <1>2, <1>3, <2>2, <2>5, <2>7, <2>8 DEF Fresh
<1>9. ASSUME NEW v \in Walks, v # w
      PROVE  /\ Settles(v) /\ Sent(v)'
             /\ Undisturbed(v) /\ Undisturbed(v)' => OnTrack(v)'
  <2>1. ServiceLegs(v) \subseteq ServiceRequests \ {c}
    BY <1>1, <1>9, OthersRest
  <2>2. users'[<<v, Realm>>] = users[<<v, Realm>>]
    <3>1. <<v, Realm>> \in DOMAIN users /\ <<v, Realm>> # <<w, Realm>>
      BY <1>9, LegsOfWalk DEF WalkInv, Inv, Tables
    <3>2. QED
      BY <1>3, <3>1
  <2>3. Rested(v)
    BY <1>2, <2>1, <2>2 DEF Rested
  <2>4. restarts = 0 => dh'[v] = dh[v]
    BY <1>3, <1>9 DEF WalkInv, Fresh
  <2>5. Undisturbed(v) => restarts = 0
    BY CalmMeans
  <2>6. QED
    BY <1>2, <1>9, <2>3, <2>4, <2>5, RestedGoesOn DEF ReplayKeyOf
<1>10. Settles(w)
  <2>1. \A q \in ServiceLegs(w) : pc[q] = "done" => status'[q] = status[q]
    BY <1>1, <1>2
  <2>2. pc[Tampering(w)] = "idle"
    BY <1>6 DEF AsIdle, TgsIdle, ApIdle, Tampering, ApLegs
  <2>3. QED
    BY <1>2, <2>1, <2>2 DEF Settles
<1>11. Sent(w)'
  <2>1. started'[w] \in Nat /\ started'[w] <= clock'
    BY <1>2, <1>5 DEF Sent
  <2>2. /\ status'[Dh(w)] = "Ok" /\ status[Dh(w)] = "Ok" /\ pc'[Dh(w)] = pc[Dh(w)]
        /\ input'[c].password.key = Dh(w)
    BY <1>1, <1>2, <1>5 DEF Sent
  <2>3. pc'[Dh(w)] = "done" /\ input'[Dh(w)] = w
    BY <1>2, <1>5, <2>2 DEF Sent
  <2>4. pc'[c] \in {"idle", "dh.get", "db.findOne", "db.save"} => users'[<<w, Realm>>] = None
    BY <1>3, <1>5 DEF Sent
  <2>5. \A leg \in ApLegs : pc'[<<w, leg>>] = "idle"
    BY <1>7 DEF AsIdle, TgsIdle, ApIdle
  <2>6. pc'[Ap(w)] = "idle" /\ pc'[Again(w)] = "idle" /\ pc'[Tampering(w)] = "idle"
    BY <2>5 DEF Ap, Again, Tampering, ApLegs
  <2>7. kdcPc'[As(w)] = "idle" /\ kdcPc'[Tgs(w)] = "idle"
    BY <1>7 DEF AsIdle, TgsIdle
  <2>8. QED
    BY <2>1, <2>2, <2>3, <2>4, <2>5, <2>6, <2>7 DEF Sent
<1>12. ASSUME Undisturbed(w), Undisturbed(w)'
       PROVE  OnTrack(w)'
  <2>1. OnTrack(w) /\ status'[c] # "Failed"
    BY <1>1, <1>12, LegsOfWalk DEF WalkInv, Undisturbed
  <2>2. pc'[c] \notin {"idle", "dh.get"} /\ (pc'[c] = "done" => status'[c] = "Created")
    BY <1>3, <1>5, <2>1, <1>2 DEF OnTrack, RegisteredSoFar, Sent
  <2>3. RegisteredSoFar(w)'
    BY <1>1, <1>2, <2>1, <2>2 DEF OnTrack, RegisteredSoFar
  <2>4. TicketsSoFar(w)'
    BY <1>7 DEF AsIdle, TgsIdle, TicketsSoFar, Shaping
  <2>5. AnswersSoFar(w)'
    BY <1>7 DEF AsIdle, TgsIdle, ApIdle, AnswersSoFar, Ap, Again, Tampering, ApLegs
  <2>6. QED
    BY <2>3, <2>4, <2>5 DEF OnTrack
<1>13. QED
  BY <1>2, <1>4, <1>8, <1>9, <1>10, <1>11, <1>12, WalksGoOn
-----------------------------------------------------------------------------
(* Steps of Redis, of time and of the KDC's restart. *)

LEMMA KdcRestartGoesOn ==
  ASSUME WalkInv, K!KdcRestart, ByKdc, UNCHANGED client
  PROVE  WalkInv'
<1>1. /\ UNCHANGED <<clock, input, reply, userKey, ticketKey, users, pc, status, replay, dh,
                     restarts, started, at>>
      /\ kdcPc' = [r \in KdcRequests |-> IF kdcPc[r] = "idle" THEN "idle" ELSE "done"]
      /\ kdcStatus' = [r \in KdcRequests |->
           IF kdcPc[r] \in {"idle", "done"} THEN kdcStatus[r] ELSE "Failed"]
      /\ keytab' = [e \in K!Names \X {Realm} |->
           IF e[1] \in Principals \cup {"interval"} THEN K!Seeded(e[1], e[2]) ELSE keytab[e]]
  BY DEF K!KdcRestart, K!held, K!history, ByKdc, service, client
<1>2. Inv' /\ Held' /\ Onward
  BY <1>1, KdcRestartKeeps DEF WalkInv, Held, Inv, Tables, Onward
<1>3. \A r \in KdcRequests :
        /\ kdcPc'[r] = "idle" <=> kdcPc[r] = "idle"
        /\ kdcPc[r] \in {"idle", "done"} => kdcPc'[r] = kdcPc[r] /\ kdcStatus'[r] = kdcStatus[r]
        /\ kdcPc[r] \notin {"idle", "done"} => kdcStatus'[r] = "Failed"
        /\ kdcPc'[r] \in {"idle", "done"}
  BY <1>1
<1>4. Fresh'
  <2>1. SUFFICES ASSUME restarts = 0, Fresh
                 PROVE  SeedsThere' /\ \A w \in Walks : Recordless(w)' /\
                          keytab'[<<w, Realm>>] = keytab[<<w, Realm>>]
    BY <1>1 DEF WalkInv, Fresh, ClientKey, R!String2Key
  <2>2. /\ \A w \in Walks : <<w, Realm>> \in K!Names \X {Realm} /\ w \notin Principals \cup {"interval"}
        /\ \A p \in Principals : <<p, Realm>> \in K!Names \X {Realm} /\ p # "interval"
        /\ <<"interval", Realm>> \in K!Names \X {Realm}
    BY DEF K!Names
  <2>3. \A w \in Walks : keytab'[<<w, Realm>>] = keytab[<<w, Realm>>]
    BY <1>1, <2>2
  <2>4. /\ \A p \in Principals : keytab'[<<p, Realm>>] = PrincipalKey(p, Realm)
        /\ keytab'[<<"interval", Realm>>] = LifetimeInterval
    BY <1>1, <2>2 DEF K!Seeded, K!PrincipalKey, PrincipalKey
  <2>5. SeedsThere'
    BY <2>4 DEF SeedsThere, PrincipalKey
  <2>6. ASSUME NEW w \in Walks
        PROVE  Recordless(w)'
    <3>1. Tgs(w) \in KdcRequests /\ Recordless(w)
      BY <2>1, LegsOfWalk DEF Fresh
    <3>2. kdcPc'[Tgs(w)] \notin {"done"} \cup Shaping => kdcPc[Tgs(w)] \notin {"done"} \cup Shaping
      BY <1>3, <3>1 DEF Shaping
    <3>3. QED
      BY <1>1, <3>1, <3>2 DEF Recordless, ReplayKeyOf
  <2>7. QED
    BY <2>3, <2>5, <2>6
<1>5. ASSUME NEW w \in Walks
      PROVE  /\ Settles(w) /\ Sent(w)'
             /\ Undisturbed(w) /\ Undisturbed(w)' => OnTrack(w)'
  <2>1. As(w) \in KdcRequests /\ Tgs(w) \in KdcRequests
    BY LegsOfWalk
  <2>2. Settles(w)
    BY <1>1, <1>3, <2>1 DEF Settles
  <2>3. \A stamp : Stamped(w, stamp) => Stamped(w, stamp)'
    BY <1>1 DEF Stamped
  <2>4. Sent(w)'
    BY <1>1, <1>3, <2>1, <2>3 DEF Sent, WalkInv
  <2>5. ASSUME Undisturbed(w), Undisturbed(w)'
        PROVE  OnTrack(w)'
    <3>1. \A r \in {As(w), Tgs(w)} : kdcStatus'[r] # "Failed"
      BY <2>5, LegsOfWalk DEF Undisturbed
    <3>2. \A r \in {As(w), Tgs(w)} : kdcPc'[r] = kdcPc[r] /\ kdcStatus'[r] = kdcStatus[r]
      BY <1>3, <2>1, <3>1
    <3>3. Rested(w)
      BY <1>1, <3>2 DEF Rested
    <3>4. QED
      BY <1>1, <1>2, <2>5, <3>3, RestedGoesOn DEF ReplayKeyOf
  <2>6. QED
    BY <2>2, <2>4, <2>5
<1>6. QED
  BY <1>1, <1>2, <1>4, <1>5, WalksGoOn

\* No request moves; time may pass, and Redis may lose what its TTL or a restart
\* takes.
LEMMA QuietGoesOn ==
  ASSUME WalkInv, Inv',
         Tick \/ Snapshot \/ RedisRestart \/ UNCHANGED vars \/ \E w \in Walks : Expire(w)
  PROVE  WalkInv'
<1>1. /\ UNCHANGED <<input, users, pc, status, kdcPc, kdcStatus, reply, userKey, ticketKey, at,
                     started>>
      /\ \/ clock' = clock
         \/ clock' = clock + 1 /\ clock < MaxClock
      /\ \/ restarts' = restarts + 1
         \/ /\ restarts' = restarts /\ UNCHANGED <<keytab, replay>>
            /\ \/ dh' = dh
               \/ \E w \in Walks : clock > started[w] + DH_TTL /\ dh' = [dh EXCEPT ![w] = None]
  BY DEF Tick, Snapshot, RedisRestart, Expire, R!Expire, ByRegistration, vars, redis, service, kdc,
     client
<1>2. clock \in 1 .. MaxClock /\ restarts \in Nat
  BY DEF WalkInv, Held
<1>3. Held' /\ Onward
  BY <1>1, <1>2 DEF WalkInv, Held, Onward
<1>4. Fresh'
  <2>1. SUFFICES ASSUME restarts' = 0
                 PROVE  Fresh'
    BY DEF Fresh
  <2>2. restarts = 0 /\ Fresh /\ UNCHANGED <<keytab, replay>> /\ DOMAIN dh' = DOMAIN dh
    BY <1>1, <1>2, <2>1 DEF WalkInv
  <2>3. SeedsThere' /\ \A w \in Walks : Recordless(w)'
    BY <1>1, <2>2 DEF Fresh, SeedsThere, Recordless, ReplayKeyOf, PrincipalKey
  <2>4. QED
    BY <1>1, <2>2, <2>3 DEF Fresh, ClientKey, R!String2Key
<1>5. ASSUME NEW w \in Walks
      PROVE  /\ Settles(w) /\ Sent(w)'
             /\ Undisturbed(w) /\ Undisturbed(w)' => OnTrack(w)'
  <2>1. Rested(w)
    BY <1>1 DEF Rested
  <2>2. ASSUME Undisturbed(w), Undisturbed(w)'
        PROVE  dh'[w] = dh[w] /\ UNCHANGED replay
    <3>1. restarts' = 0 /\ clock <= started[w] + Horizon /\ restarts = 0
      BY <2>2, CalmMeans DEF Undisturbed
    <3>2. started[w] \in Nat
      BY DEF WalkInv, Sent
    <3>3. ~ clock > started[w] + DH_TTL
      BY <1>2, <3>1, <3>2, HorizonIsNat
    <3>4. ASSUME NEW v \in Walks, v # w, dh' = [dh EXCEPT ![v] = None]
          PROVE  dh'[w] = dh[w]
      BY <3>1, <3>4 DEF WalkInv, Fresh
    <3>5. QED
      BY <1>1, <1>2, <3>1, <3>3, <3>4
  <2>3. QED
    BY <1>3, <2>1, <2>2, RestedGoesOn DEF ReplayKeyOf
<1>6. QED
  BY <1>1, <1>3, <1>4, <1>5, WalksGoOn
-----------------------------------------------------------------------------
(* Steps of the client. *)

\* An undisturbed walk is never answered what it does not expect.
LEMMA AnsweredIsGood ==
  ASSUME WalkInv, NEW w \in Walks, Undisturbed(w), Answered(w)
  PROVE  Good(w)
<1>1. OnTrack(w) /\ OfWalk(w)
  BY DEF WalkInv, Inv
<1>2. at[w] \in Legs
  BY DEF Answered, KdcRequests, ServiceRequests, ApRequests, Exchanges, Creates, Legs
<1>3. CASE at[w] = "dh" \/ at[w] = "create"
  <2>1. /\ at[w] = "dh" => status[Dh(w)] = "Ok"
        /\ at[w] = "create" => status[Create(w)] = "Created"
    BY <1>1, <1>3 DEF Answered, OnTrack, RegisteredSoFar, Dh, Create, KdcRequests
  <2>2. QED
    BY <1>3, <2>1 DEF Good, Expected, Readable, Dh, Create
<1>4. CASE at[w] = "as" \/ at[w] = "tgs"
  <2>1. /\ at[w] = "as" => kdcStatus[As(w)] = "Ok"
        /\ at[w] = "tgs" => kdcStatus[Tgs(w)] = "Ok"
    BY <1>1, <1>4 DEF Answered, OnTrack, TicketsSoFar, As, Tgs, ServiceRequests, ApRequests,
       Exchanges, Creates
  <2>2. at[w] = "as" => Opens(reply[As(w)].challenge, ClientKey(w))
    BY <1>1, <2>1 DEF OnTrack, TicketsSoFar, Grants, Opens
  <2>3. at[w] = "tgs" => /\ Opens(reply[Tgs(w)].challenge, SessionKeyOf(w, "as"))
                         /\ Expiry(w, "tgs") <= Expiry(w, "as")
    <3>1. SUFFICES ASSUME at[w] = "tgs"
                   PROVE  /\ Opens(reply[Tgs(w)].challenge, SessionKeyOf(w, "as"))
                          /\ Expiry(w, "tgs") <= Expiry(w, "as")
      OBVIOUS
    <3>2. kdcPc[Tgs(w)] = "done" /\ kdcStatus[As(w)] = "Ok"
      BY <1>1, <2>1, <3>1 DEF OfWalk, OfTgs
    <3>3. Grants(w, As(w), "tgs", ClientKey(w)) /\ Grants(w, Tgs(w), Target, SessionKey(As(w)))
      BY <1>1, <2>1, <3>1, <3>2 DEF OnTrack, TicketsSoFar
    <3>4. K!Issued(Tgs(w)).lifetime <= K!Issued(As(w)).lifetime
      BY <1>1, <2>1, <3>1 DEF OfWalk, OfTgs
    <3>5. SessionKeyOf(w, "as") = SessionKey(As(w))
      BY <3>3 DEF Grants, SessionKeyOf, Reply, As
    <3>6. Expiry(w, "tgs") = K!Issued(Tgs(w)).lifetime /\ Expiry(w, "as") = K!Issued(As(w)).lifetime
      BY <3>3 DEF Grants, Expiry, Reply, As, Tgs
    <3>7. QED
      BY <3>3, <3>4, <3>5, <3>6 DEF Grants, Opens
  <2>4. QED
    BY <1>4, <2>1, <2>2, <2>3 DEF Good, Expected, Readable, As, Tgs
<1>5. CASE at[w] = "ap"
  <2>1. pc[Ap(w)] = "done" /\ status[Ap(w)] = "Accepted"
    BY <1>1, <1>5 DEF Answered, OnTrack, AnswersSoFar, Ap, KdcRequests
  <2>2. kdcStatus[Tgs(w)] = "Ok" /\ T!ServiceTicket(Ap(w)) = K!Issued(Tgs(w))
    BY <1>1, <2>1 DEF OfWalk, OfAp, ApLegs, Ap
  <2>3. reply[Tgs(w)].challenge.payload.sessionKey = K!Issued(Tgs(w)).sessionKey
    BY <1>1, <2>2 DEF OnTrack, TicketsSoFar, Grants, OfWalk, OfTgs
  <2>4. /\ ApRep(Ap(w)).key = SessionKeyOf(w, "tgs")
        /\ ApRep(Ap(w)).payload = input[Ap(w)].authenticator.payload
    BY <2>2, <2>3 DEF ApRep, Encrypt, T!Auth, SessionKeyOf, Reply, Tgs
  <2>5. QED
    BY <1>5, <2>1, <2>4 DEF Good, Expected, Readable, Opens, Ap
<1>6. CASE at[w] = "again" \/ at[w] = "tampered"
  <2>1. /\ at[w] = "again" => status[Again(w)] \in Refusal
        /\ at[w] = "tampered" => status[Tampering(w)] \in Refusal
    BY <1>1, <1>6 DEF Answered, OnTrack, AnswersSoFar, Again, Tampering, KdcRequests
  <2>2. QED
    BY <1>6, <2>1 DEF Good, Expected, Readable, Again, Tampering, Refusal
<1>7. QED
  BY <1>2, <1>3, <1>4, <1>5, <1>6 DEF Legs

\* The walk ends, and no other walk notices.
LEMMA EndGoesOn ==
  ASSUME WalkInv, Inv', NEW w \in Walks, End(w)
  PROVE  WalkInv'
<1>1. /\ UNCHANGED <<clock, redis, users, service, kdc, input, started>>
      /\ \/ at' = [at EXCEPT ![w] = "completed"]
         \/ at' = [at EXCEPT ![w] = "failed"] /\ Answered(w) /\ ~ Good(w)
  BY DEF End, Moves
<1>2. /\ UNCHANGED <<pc, status, kdcPc, kdcStatus, reply, userKey, ticketKey>>
      /\ UNCHANGED <<dh, keytab, replay, restarts>>
  BY <1>1 DEF redis, service, kdc
<1>3. Held' /\ Onward /\ DOMAIN at = Walks
  BY <1>1, <1>2 DEF WalkInv, Held, Onward, Inv, Tables
<1>4. Fresh'
  <2>1. SUFFICES ASSUME restarts = 0, Fresh
                 PROVE  SeedsThere' /\ \A v \in Walks : Recordless(v)'
    BY <1>2 DEF WalkInv, Fresh, ClientKey, R!String2Key
  <2>2. QED
    BY <1>2, <2>1 DEF Fresh, SeedsThere, Recordless, ReplayKeyOf, PrincipalKey
<1>5. ASSUME NEW v \in Walks
      PROVE  /\ Sent(v)' /\ (Undisturbed(v)' => Undisturbed(v) /\ OnTrack(v)')
             /\ at'[v] = "failed" => ~ Undisturbed(v)'
  <2>1. Rested(v)
    BY <1>1, <1>2 DEF Rested
  <2>2. /\ Settles(v) /\ Sent(v)'
        /\ Undisturbed(v) /\ Undisturbed(v)' => OnTrack(v)'
    BY <1>2, <1>3, <2>1, RestedGoesOn DEF ReplayKeyOf
  <2>3. Undisturbed(v)' => Undisturbed(v)
    BY <1>3, <2>2, CalmBefore
  <2>4. at'[v] = "failed" => at[v] = "failed" \/ (v = w /\ Answered(w) /\ ~ Good(w))
    BY <1>1, <1>3
  <2>5. at'[v] = "failed" => ~ Undisturbed(v)
    BY <2>4, AnsweredIsGood DEF WalkInv
  <2>6. QED
    BY <2>2, <2>3, <2>5
<1>6. QED
  BY <1>3, <1>4, <1>5 DEF WalkInv

-----------------------------------------------------------------------------
(* Steps of the script. *)

\* The client sends the request q of the walk w, and nothing else changes.
Sending(w, q, leg) ==
  /\ leg # "failed" /\ at' = [at EXCEPT ![w] = leg]
  /\ UNCHANGED <<clock, restarts, dh, keytab, replay, users, status, kdcStatus, userKey,
                 ticketKey, reply>>
  /\ DOMAIN started' = Walks /\ \A v \in Walks \ {w} : started'[v] = started[v]
  /\ \A p \in ServiceRequests \ {q} : pc'[p] = pc[p]
  /\ \A p \in KdcRequests \ {q} : kdcPc'[p] = kdcPc[p]
  /\ \A p \in (KdcRequests \cup ServiceRequests) \ {q} : input'[p] = input[p]
  /\ q \in {As(w), Tgs(w)} \cup ServiceLegs(w)
  /\ q = As(w) => kdcPc[q] = "idle" /\ kdcPc'[q] = "as.userKey"
  /\ q = Tgs(w) => kdcPc[q] = "idle" /\ kdcPc'[q] = "tgs.target"
  /\ q \in ServiceLegs(w) => pc[q] = "idle"
  /\ q = Dh(w) => pc'[q] = "dh.set"
  /\ q = Create(w) => pc'[q] = "dh.get"
  /\ q \in {Ap(w), Again(w), Tampering(w)} => pc'[q] = "lookup"

\* The requests of a walk, one by one.
LEMMA LegsApart ==
  ASSUME NEW w \in Walks
  PROVE  /\ {As(w), Tgs(w)} \subseteq KdcRequests
         /\ {Dh(w), Create(w), Ap(w), Again(w), Tampering(w)} = ServiceLegs(w)
         /\ ServiceLegs(w) \subseteq ServiceRequests
         /\ KdcRequests \cap ServiceRequests = {}
         /\ As(w) # Tgs(w) /\ Dh(w) # Create(w)
         /\ Dh(w) \notin {Ap(w), Again(w), Tampering(w)}
         /\ Create(w) \notin {Ap(w), Again(w), Tampering(w)}
         /\ Ap(w) # Again(w) /\ Ap(w) # Tampering(w) /\ Again(w) # Tampering(w)
<1>1. KdcRequests \cap ServiceRequests = {}
  BY DEF KdcRequests, ServiceRequests, ApRequests, Exchanges, Creates
<1>2. /\ As(w) # Tgs(w) /\ Dh(w) # Create(w)
      /\ Dh(w) \notin {Ap(w), Again(w), Tampering(w)}
      /\ Create(w) \notin {Ap(w), Again(w), Tampering(w)}
      /\ Ap(w) # Again(w) /\ Ap(w) # Tampering(w) /\ Again(w) # Tampering(w)
  BY DEF As, Tgs, Dh, Create, Ap, Again, Tampering
<1>3. QED
  BY <1>1, <1>2, LegsOfWalk

LEMMA LegsNamed ==
  ASSUME NEW w \in Walks, NEW q \in {As(w), Tgs(w)} \cup ServiceLegs(w)
  PROVE  q[1] = w
<1>1. q \in {As(w), Tgs(w), Dh(w), Create(w), Ap(w), Again(w), Tampering(w)}
  BY LegsApart
<1>2. QED
  BY <1>1 DEF As, Tgs, Dh, Create, Ap, Again, Tampering

LEMMA SendingFresh ==
  ASSUME WalkInv, NEW w \in Walks, NEW q, NEW leg, Sending(w, q, leg)
  PROVE  Fresh'
<1>1. SUFFICES ASSUME restarts = 0, Fresh
               PROVE  SeedsThere' /\ \A v \in Walks :
                        Recordless(v)' /\ (pc'[Create(v)] = "dh.del" => pc[Create(v)] = "dh.del")
  BY DEF WalkInv, Fresh, Sending, ClientKey, R!String2Key
<1>2. SeedsThere'
  BY <1>1 DEF Fresh, SeedsThere, Sending, PrincipalKey
<1>3. ASSUME NEW v \in Walks
      PROVE  /\ kdcPc'[Tgs(v)] \notin {"done"} \cup Shaping => kdcPc[Tgs(v)] \notin {"done"} \cup Shaping
             /\ pc'[Ap(v)] # "done" => pc[Ap(v)] # "done"
             /\ pc'[Create(v)] = "dh.del" => pc[Create(v)] = "dh.del"
  <2>1. /\ Tgs(v) \in KdcRequests /\ Ap(v) \in ServiceRequests /\ Create(v) \in ServiceRequests
    BY LegsApart
  <2>2. /\ q = Tgs(v) => q = Tgs(w)
        /\ q = Ap(v) => q = Ap(w)
        /\ q = Create(v) => q = Create(w)
    <3>1. q[1] = w
      BY LegsNamed DEF Sending
    <3>2. QED
      BY <3>1 DEF Tgs, Ap, Create
  <2>3. /\ q = Tgs(w) => kdcPc[q] = "idle"
        /\ q = Ap(w) => pc[q] = "idle"
        /\ q = Create(w) => pc'[q] = "dh.get"
    BY LegsApart DEF Sending
  <2>4. QED
    BY <2>1, <2>2, <2>3 DEF Sending, Shaping
<1>4. ASSUME NEW v \in Walks
      PROVE  Recordless(v)'
  <2>1. Recordless(v) /\ replay' = replay
    BY <1>1 DEF Fresh, Sending
  <2>2. QED
    BY <1>3, <2>1 DEF Recordless, ReplayKeyOf
<1>5. QED
  BY <1>2, <1>3, <1>4

\* What the request carries is up to each action: what it did not change stays.
LEMMA SendingGoesOn ==
  ASSUME WalkInv, Inv', NEW w \in Walks, NEW q, NEW leg, Sending(w, q, leg), Sent(w)',
         Undisturbed(w)' => OnTrack(w)'
  PROVE  WalkInv'
<1>1. Held' /\ Onward /\ DOMAIN at = Walks
  BY DEF WalkInv, Held, Inv, Tables, Onward, Sending
<1>2. Fresh'
  BY SendingFresh
<1>3. ASSUME NEW v \in Walks, v # w
      PROVE  /\ Sent(v)' /\ (Undisturbed(v)' => Undisturbed(v) /\ OnTrack(v)')
             /\ at'[v] = at[v]
  <2>1. q \notin {As(v), Tgs(v)} \cup ServiceLegs(v)
    <3>1. q[1] = w
      BY LegsNamed DEF Sending
    <3>2. \A p \in {As(v), Tgs(v)} \cup ServiceLegs(v) : p[1] = v
      BY LegsNamed
    <3>3. QED
      BY <1>3, <3>1, <3>2
  <2>2. Rested(v)
    <3>1. {As(v), Tgs(v)} \subseteq KdcRequests /\ ServiceLegs(v) \subseteq ServiceRequests
      BY LegsApart
    <3>2. QED
      BY <1>3, <2>1, <3>1 DEF Rested, Sending
  <2>3. dh' = dh /\ replay' = replay
    BY DEF Sending
  <2>4. /\ Settles(v) /\ Sent(v)'
        /\ Undisturbed(v) /\ Undisturbed(v)' => OnTrack(v)'
    BY <1>1, <2>2, <2>3, RestedGoesOn DEF ReplayKeyOf
  <2>5. Undisturbed(v)' => Undisturbed(v)
    BY <1>1, <2>4, CalmBefore
  <2>6. at'[v] = at[v]
    BY <1>1, <1>3 DEF Sending
  <2>7. QED
    BY <2>4, <2>5, <2>6
<1>4. at'[w] # "failed"
  BY <1>1 DEF Sending
<1>5. QED
  BY <1>1, <1>2, <1>3, <1>4 DEF WalkInv

\* A request that is sent leaves an undisturbed walk on its track.
LEMMA SendingOnTrack ==
  ASSUME WalkInv, NEW w \in Walks, NEW q, NEW leg, Sending(w, q, leg), q # Dh(w),
         started'[w] = started[w]
  PROVE  /\ Settles(w)
         /\ Undisturbed(w)' => OnTrack(w)'
<1>1. OfWalk(w) /\ Sent(w)
  BY DEF WalkInv, Inv
<1>2. /\ {As(w), Tgs(w)} \subseteq KdcRequests /\ ServiceLegs(w) \subseteq ServiceRequests
      /\ ServiceLegs(w) = {Dh(w), Create(w), Ap(w), Again(w), Tampering(w)}
  BY LegsApart
<1>3. Settles(w)
  <2>1. pc[Tampering(w)] # "idle" =>
          pc'[Tampering(w)] # "idle" /\ input'[Tampering(w)] = input[Tampering(w)]
    BY <1>2 DEF Sending
  <2>2. QED
    BY <2>1 DEF Settles, Sending
<1>4. ASSUME Undisturbed(w)'
      PROVE  OnTrack(w)'
  <2>1. Undisturbed(w) /\ OnTrack(w)
    <3>1. Onward
      BY DEF WalkInv, Held, Inv, Tables, Onward, Sending
    <3>2. QED
      BY <1>3, <1>4, <3>1, CalmBefore DEF WalkInv
  <2>2. RegisteredSoFar(w)'
    <3>1. pc'[Dh(w)] = pc[Dh(w)]
      BY <1>2 DEF Sending
    <3>2. /\ pc'[Create(w)] \in {"idle", "dh.get"} => pc[Create(w)] \in {"idle", "dh.get"}
          /\ pc'[Create(w)] = "done" => pc[Create(w)] = "done"
      BY <1>2 DEF Sending
    <3>3. QED
      BY <2>1, <3>1, <3>2 DEF OnTrack, RegisteredSoFar, Sending
  <2>3. TicketsSoFar(w)'
    <3>1. \A r \in {As(w), Tgs(w)} :
            \/ kdcPc'[r] = kdcPc[r]
            \/ kdcPc'[r] \in {"as.userKey", "tgs.target"}
      BY <1>2 DEF Sending
    <3>2. \A r \in {As(w), Tgs(w)} : kdcPc'[r] \in {"done", "as.serviceKey"} \cup Shaping =>
            kdcPc'[r] = kdcPc[r]
      BY <3>1 DEF Shaping
    <3>3. UNCHANGED <<kdcStatus, userKey, ticketKey, reply>>
      BY DEF Sending
    <3>4. TicketsSoFar(w)
      BY <2>1 DEF OnTrack
    <3>5. Grants(w, As(w), "tgs", ClientKey(w)) => Grants(w, As(w), "tgs", ClientKey(w))'
      BY <3>3 DEF Grants, K!Issued, ClientKey, R!String2Key
    <3>6. Grants(w, Tgs(w), Target, SessionKey(As(w))) => Grants(w, Tgs(w), Target, SessionKey(As(w)))'
      BY <3>3 DEF Grants, K!Issued
    <3>7. QED
      BY <3>2, <3>3, <3>4, <3>5, <3>6 DEF TicketsSoFar, Shaping, ClientKey, R!String2Key
  <2>4. AnswersSoFar(w)'
    <3>1. \A r \in {Ap(w), Again(w), Tampering(w)} :
            \/ pc'[r] = pc[r]
            \/ pc'[r] = "lookup"
      BY <1>2 DEF Sending
    <3>2. status' = status /\ replay' = replay
      BY DEF Sending
    <3>3. status[Ap(w)] = "Accepted" => input'[Ap(w)] = input[Ap(w)]
      BY <1>1, <1>2 DEF OfWalk, OfAp, ApLegs, Ap, Sending
    <3>4. status[Ap(w)] = "Accepted" => T!ReplayKey(Ap(w))' = T!ReplayKey(Ap(w))
      BY <3>3 DEF T!ReplayKey, T!Auth, T!ServiceTicket
    <3>5. QED
      BY <2>1, <3>1, <3>2, <3>4 DEF OnTrack, AnswersSoFar
  <2>5. QED
    BY <2>2, <2>3, <2>4 DEF OnTrack
<1>5. QED
  BY <1>3, <1>4

\* What it was sent stays, if the new request is what the script sends.
LEMMA SendingSent ==
  ASSUME WalkInv, NEW w \in Walks, NEW q, NEW leg, Sending(w, q, leg), q # Dh(w),
         started'[w] = started[w],
         q = Create(w) => status[Dh(w)] = "Ok" /\ input'[q].password.key = Dh(w),
         q = As(w) =>
           /\ input'[q].username = w /\ input'[q].serviceName = Target /\ input'[q].ip = Here
           /\ input'[q].preAuth.payload.username = w
           /\ input'[q].preAuth.payload.timestamp = clock,
         q = Tgs(w) =>
           /\ input'[q].id = Target /\ input'[q].ip = Here
           /\ input'[q].authenticator.key = reply[As(w)].challenge.payload.sessionKey
           /\ input'[q].authenticator.payload.timestamp = clock,
         q \in {Ap(w), Again(w), Tampering(w)} => input'[q].realm = Realm,
         q = Ap(w) =>
           /\ input'[q].ip = Here
           /\ input'[q].serviceTicket = reply[Tgs(w)].ticket
           /\ input'[q].authenticator.key = reply[Tgs(w)].challenge.payload.sessionKey
           /\ input'[q].authenticator.payload.username = w
           /\ input'[q].authenticator.payload.timestamp = clock,
         q = Again(w) => status[Ap(w)] = "Accepted" /\ pc[Ap(w)] # "idle" /\
                         input'[q].authenticator = input[Ap(w)].authenticator,
         q = Tampering(w) => status[Ap(w)] = "Accepted"
  PROVE  Sent(w)'
<1>1. Sent(w) /\ clock \in 1 .. MaxClock
  BY DEF WalkInv, Held
<1>2. /\ {As(w), Tgs(w)} \subseteq KdcRequests /\ ServiceLegs(w) \subseteq ServiceRequests
      /\ ServiceLegs(w) = {Dh(w), Create(w), Ap(w), Again(w), Tampering(w)}
      /\ As(w) # Tgs(w)
  BY LegsApart
<1>3. \A r \in {As(w), Tgs(w)} \ {q} : kdcPc'[r] = kdcPc[r] /\ input'[r] = input[r]
  BY <1>2 DEF Sending
<1>4. \A r \in ServiceLegs(w) \ {q} : pc'[r] = pc[r] /\ input'[r] = input[r]
  BY <1>2 DEF Sending
<1>5. /\ UNCHANGED <<clock, users, status, reply>> /\ started'[w] = started[w]
      /\ q \in ServiceLegs(w) => pc[q] = "idle"
      /\ q = Create(w) => pc'[q] = "dh.get"
  BY DEF Sending
<1>6. /\ Stamped(w, clock)'
      /\ \A stamp : Stamped(w, stamp) => Stamped(w, stamp)'
  BY <1>1, <1>5 DEF Stamped, Sent
<1>7. /\ started'[w] \in Nat /\ started'[w] <= clock'
      /\ status'[Dh(w)] # "Pending" => pc'[Dh(w)] = "done"
      /\ pc'[Dh(w)] # "idle" => input'[Dh(w)] = w
  <2>1. Dh(w) \in ServiceLegs(w) \ {q}
    BY <1>2
  <2>2. QED
    BY <1>1, <1>4, <1>5, <2>1 DEF Sent
<1>8. /\ pc'[Create(w)] # "idle" =>
           status'[Dh(w)] = "Ok" /\ input'[Create(w)].password.key = Dh(w)
      /\ pc'[Create(w)] \in {"idle", "dh.get", "db.findOne", "db.save"} =>
           users'[<<w, Realm>>] = None
  <2>1. CASE q = Create(w)
    BY <1>1, <1>2, <1>5, <2>1 DEF Sent
  <2>2. CASE q # Create(w)
    BY <1>1, <1>2, <1>4, <1>5, <2>2 DEF Sent
  <2>3. QED
    BY <2>1, <2>2
<1>9. kdcPc'[As(w)] # "idle" =>
        /\ input'[As(w)].username = w /\ input'[As(w)].serviceName = Target
        /\ input'[As(w)].ip = Here
        /\ input'[As(w)].preAuth.payload.username = w
        /\ Stamped(w, input[As(w)].preAuth.payload.timestamp)'
  <2>1. CASE q = As(w)
    BY <1>5, <1>6, <2>1 DEF Stamped
  <2>2. CASE q # As(w)
    BY <1>1, <1>3, <1>6, <2>2 DEF Sent, Stamped
  <2>3. QED
    BY <2>1, <2>2
<1>10. kdcPc'[Tgs(w)] # "idle" =>
         /\ input'[Tgs(w)].id = Target /\ input'[Tgs(w)].ip = Here
         /\ input'[Tgs(w)].authenticator.key = reply'[As(w)].challenge.payload.sessionKey
         /\ Stamped(w, input[Tgs(w)].authenticator.payload.timestamp)'
  <2>1. CASE q = Tgs(w)
    BY <1>5, <1>6, <2>1 DEF Stamped
  <2>2. CASE q # Tgs(w)
    BY <1>1, <1>3, <1>5, <1>6, <2>2 DEF Sent, Stamped
  <2>3. QED
    BY <2>1, <2>2
<1>11. \A l \in ApLegs : pc'[<<w, l>>] # "idle" => input'[<<w, l>>].realm = Realm
  <2>1. \A l \in ApLegs : <<w, l>> \in {Ap(w), Again(w), Tampering(w)}
    BY DEF ApLegs, Ap, Again, Tampering
  <2>2. QED
    BY <1>1, <1>2, <1>4, <2>1 DEF Sent
<1>12. pc'[Ap(w)] # "idle" =>
         /\ input'[Ap(w)].ip = Here
         /\ input'[Ap(w)].serviceTicket = reply'[Tgs(w)].ticket
         /\ input'[Ap(w)].authenticator.key = reply'[Tgs(w)].challenge.payload.sessionKey
         /\ input'[Ap(w)].authenticator.payload.username = w
         /\ Stamped(w, input[Ap(w)].authenticator.payload.timestamp)'
  <2>1. CASE q = Ap(w)
    BY <1>5, <1>6, <2>1 DEF Stamped
  <2>2. CASE q # Ap(w)
    BY <1>1, <1>2, <1>4, <1>5, <1>6, <2>2 DEF Sent, Stamped
  <2>3. QED
    BY <2>1, <2>2
<1>13. pc'[Again(w)] # "idle" =>
         /\ status'[Ap(w)] = "Accepted"
         /\ input'[Again(w)].authenticator = input'[Ap(w)].authenticator
  <2>1. CASE q = Again(w)
    BY <1>2, <1>4, <1>5, <2>1, LegsApart
  <2>2. CASE q # Again(w)
    <3>1. pc'[Again(w)] # "idle" => status[Ap(w)] = "Accepted" /\ pc[Ap(w)] = "done"
      BY <1>1, <1>2, <1>4, <2>2 DEF Sent, WalkInv, Inv, OfWalk, OfAp, ApLegs, Ap
    <3>2. QED
      BY <1>1, <1>2, <1>4, <1>5, <2>2, <3>1 DEF Sent
  <2>3. QED
    BY <2>1, <2>2
<1>14. pc'[Tampering(w)] # "idle" => status'[Ap(w)] = "Accepted"
  <2>1. CASE q = Tampering(w)
    BY <1>5, <2>1
  <2>2. CASE q # Tampering(w)
    BY <1>1, <1>2, <1>4, <1>5, <2>2 DEF Sent
  <2>3. QED
    BY <2>1, <2>2
<1>15. QED
  BY <1>7, <1>8, <1>9, <1>10, <1>11, <1>12, <1>13, <1>14 DEF Sent

\* The walk begins: nothing has been sent.
LEMMA KeyExchangeGoesOn ==
  ASSUME WalkInv, Inv', NEW w \in Walks, KeyExchange(w)
  PROVE  WalkInv'
<1> DEFINE q == Dh(w)
<1>1. /\ pc[q] = "idle" /\ pc' = [pc EXCEPT ![q] = "dh.set"] /\ status' = status
      /\ input' = [input EXCEPT ![q] = w]
      /\ at' = [at EXCEPT ![w] = "dh"] /\ started' = [started EXCEPT ![w] = clock]
      /\ UNCHANGED <<clock, restarts, dh, keytab, replay, users, kdcPc, kdcStatus, userKey,
                     ticketKey, reply>>
  BY DEF KeyExchange, R!PostExchange, R!Await, R!Answer, R!redis, ByRegistration, kdc, Dh
<1>2. /\ q \in ServiceLegs(w) /\ q \in ServiceRequests /\ q \notin KdcRequests
      /\ q \notin {Create(w), As(w), Tgs(w), Ap(w), Again(w), Tampering(w)}
      /\ Create(w) \in ServiceRequests
      /\ \A l \in ApLegs : <<w, l>> \in ServiceRequests \ {q}
  BY LegsApart DEF ServiceLegs, Dh, ApLegs
<1>3. /\ DOMAIN input = KdcRequests \cup ServiceRequests /\ DOMAIN pc = ServiceRequests
      /\ DOMAIN started = Walks /\ DOMAIN at = Walks /\ clock \in 1 .. MaxClock
      /\ Sent(w) /\ OfWalk(w)
  BY DEF WalkInv, Inv, Tables, Held
<1>4. Sending(w, q, "dh")
  BY <1>1, <1>2, <1>3 DEF Sending
\* Nothing else has been asked for.
<1>5. status[q] = "Pending" /\ pc[Create(w)] = "idle" /\ AsIdle(w)
  <2>1. status[q] = "Pending" /\ pc[Create(w)] = "idle"
    BY <1>1, <1>3 DEF Sent
  <2>2. QED
    BY <1>3, <2>1, InOrder DEF OfWalk, OfCreate
<1>6. pc'[q] = "dh.set" /\ status'[q] = "Pending" /\ pc'[Create(w)] = "idle" /\ AsIdle(w)'
  BY <1>1, <1>2, <1>3, <1>5 DEF AsIdle, TgsIdle, ApIdle
<1>7. /\ \A l \in ApLegs : pc'[<<w, l>>] = "idle" /\ status'[<<w, l>>] = "Pending"
      /\ kdcPc'[As(w)] = "idle" /\ kdcStatus'[As(w)] = "Pending"
      /\ kdcPc'[Tgs(w)] = "idle" /\ kdcStatus'[Tgs(w)] = "Pending"
  BY <1>6 DEF AsIdle, TgsIdle, ApIdle
<1>8. Sent(w)'
  <2>1. started'[w] = clock /\ clock' = clock /\ input'[q] = w /\ users'[<<w, Realm>>] = None
    BY <1>1, <1>2, <1>3, <1>5 DEF Sent
  <2>2. pc'[Ap(w)] = "idle" /\ pc'[Again(w)] = "idle" /\ pc'[Tampering(w)] = "idle"
    BY <1>7 DEF Ap, Again, Tampering, ApLegs
  <2>3. QED
    BY <1>3, <1>6, <1>7, <2>1, <2>2 DEF Sent
<1>9. OnTrack(w)'
  <2>1. RegisteredSoFar(w)'
    BY <1>6 DEF RegisteredSoFar
  <2>2. TicketsSoFar(w)'
    BY <1>7 DEF TicketsSoFar, Shaping
  <2>3. AnswersSoFar(w)'
    BY <1>7 DEF AnswersSoFar, Ap, Again, Tampering, ApLegs
  <2>4. QED
    BY <2>1, <2>2, <2>3 DEF OnTrack
<1>10. QED
  BY <1>4, <1>8, <1>9, SendingGoesOn

LEMMA RegisterGoesOn ==
  ASSUME WalkInv, Inv', NEW w \in Walks, Register(w)
  PROVE  WalkInv'
<1> DEFINE q == Create(w)
<1>1. /\ pc[q] = "idle" /\ pc' = [pc EXCEPT ![q] = "dh.get"] /\ status' = status
      /\ status[Dh(w)] = "Ok"
      /\ \E e \in {Dh(w)} : input' = [input EXCEPT ![q] =
           [username |-> w, realm |-> Realm, password |-> [key |-> e, payload |-> Password]]]
      /\ at' = [at EXCEPT ![w] = "create"] /\ started' = started
      /\ UNCHANGED <<clock, restarts, dh, keytab, replay, users, kdcPc, kdcStatus, userKey,
                     ticketKey, reply>>
  BY DEF Register, Continues, Good, Expected, Moves, R!PostCreate, R!KnownRealm, R!Await, R!redis,
     ByRegistration, kdc, Create, Dh
<1>2. /\ q \in ServiceLegs(w) /\ q \in ServiceRequests /\ q \notin KdcRequests
      /\ q \notin {Dh(w), As(w), Tgs(w), Ap(w), Again(w), Tampering(w)}
  BY LegsApart
<1>3. /\ DOMAIN input = KdcRequests \cup ServiceRequests /\ DOMAIN pc = ServiceRequests
      /\ DOMAIN started = Walks
  BY DEF WalkInv, Inv, Tables, Held
<1>4. Sending(w, q, "create")
  BY <1>1, <1>2, <1>3 DEF Sending
<1>5. input'[q].password.key = Dh(w)
  BY <1>1, <1>2, <1>3
<1>6. Sent(w)'
  BY <1>1, <1>2, <1>4, <1>5, SendingSent
<1>7. QED
  BY <1>1, <1>2, <1>4, <1>6, SendingGoesOn, SendingOnTrack

LEMMA AskTgtGoesOn ==
  ASSUME WalkInv, Inv', NEW w \in Walks, AskTgt(w)
  PROVE  WalkInv'
<1> DEFINE q == As(w)
<1>1. /\ kdcPc[q] = "idle" /\ kdcPc' = [kdcPc EXCEPT ![q] = "as.userKey"]
      /\ input' = [input EXCEPT ![q] =
           [exchange |-> "AS", realm |-> Realm, ip |-> Here, username |-> w,
            serviceName |-> Target, requestedLifetime |-> RequestedLifetime,
            preAuth |-> Authenticator(w, ClientKey(w))]]
      /\ at' = [at EXCEPT ![w] = "as"] /\ started' = started
      /\ UNCHANGED <<clock, restarts, dh, keytab, replay, users, pc, status, kdcStatus, userKey,
                     ticketKey, reply>>
  BY DEF AskTgt, Moves, K!PostAs, K!Await, K!redis, K!held, ByKdc, service, As
<1>2. /\ q \in KdcRequests /\ q \notin ServiceRequests
      /\ q \notin {Dh(w), Create(w), Tgs(w), Ap(w), Again(w), Tampering(w)} \cup ServiceLegs(w)
  BY LegsApart
<1>3. /\ DOMAIN input = KdcRequests \cup ServiceRequests /\ DOMAIN kdcPc = KdcRequests
      /\ DOMAIN started = Walks
  BY DEF WalkInv, Inv, Tables, Held
<1>4. Sending(w, q, "as")
  BY <1>1, <1>2, <1>3 DEF Sending
<1>5. /\ input'[q].username = w /\ input'[q].serviceName = Target /\ input'[q].ip = Here
      /\ input'[q].preAuth.payload.username = w
      /\ input'[q].preAuth.payload.timestamp = clock
  BY <1>1, <1>2, <1>3 DEF Authenticator, Encrypt
<1>6. Sent(w)'
  BY <1>1, <1>2, <1>4, <1>5, SendingSent
<1>7. QED
  BY <1>1, <1>2, <1>4, <1>6, SendingGoesOn, SendingOnTrack

LEMMA AskTicketGoesOn ==
  ASSUME WalkInv, Inv', NEW w \in Walks, AskTicket(w)
  PROVE  WalkInv'
<1> DEFINE q == Tgs(w)
<1>1. /\ kdcPc[q] = "idle" /\ kdcPc' = [kdcPc EXCEPT ![q] = "tgs.target"]
      /\ \E key \in {reply[As(w)].challenge.payload.sessionKey} : input' = [input EXCEPT ![q] =
           [exchange |-> "TGS", realm |-> Realm, ip |-> Here, id |-> Target,
            requestedLifetime |-> RequestedLifetime, tgt |-> reply[As(w)].ticket,
            authenticator |-> [key |-> key, payload |-> [username |-> w, timestamp |-> clock]]]]
      /\ at' = [at EXCEPT ![w] = "tgs"] /\ started' = started
      /\ UNCHANGED <<clock, restarts, dh, keytab, replay, users, pc, status, kdcStatus, userKey,
                     ticketKey, reply>>
  BY DEF AskTicket, Moves, K!PostTgs, K!Encrypt, K!Await, K!redis, K!held, ByKdc, service, As, Tgs
<1>2. /\ q \in KdcRequests /\ q \notin ServiceRequests
      /\ q \notin {Dh(w), Create(w), As(w), Ap(w), Again(w), Tampering(w)} \cup ServiceLegs(w)
  BY LegsApart
<1>3. /\ DOMAIN input = KdcRequests \cup ServiceRequests /\ DOMAIN kdcPc = KdcRequests
      /\ DOMAIN started = Walks
  BY DEF WalkInv, Inv, Tables, Held
<1>4. Sending(w, q, "tgs")
  BY <1>1, <1>2, <1>3 DEF Sending
<1>5. /\ input'[q].id = Target /\ input'[q].ip = Here
      /\ input'[q].authenticator.key = reply[As(w)].challenge.payload.sessionKey
      /\ input'[q].authenticator.payload.timestamp = clock
  BY <1>1, <1>2, <1>3
<1>6. Sent(w)'
  BY <1>1, <1>2, <1>4, <1>5, SendingSent
<1>7. QED
  BY <1>1, <1>2, <1>4, <1>6, SendingGoesOn, SendingOnTrack

\* What a request of the AP exchange carries when it is sent.
LEMMA PostApSends ==
  ASSUME WalkInv, NEW w \in Walks, NEW leg \in ApLegs, NEW ticket, NEW authenticator,
         PostAp(w, leg, ticket, authenticator)
  PROVE  /\ Sending(w, <<w, leg>>, leg) /\ started' = started
         /\ <<w, leg>> \notin {Dh(w), Create(w), As(w), Tgs(w)}
         /\ input'[<<w, leg>>].realm = Realm /\ input'[<<w, leg>>].ip = Here
         /\ input'[<<w, leg>>].serviceTicket = ticket
         /\ input'[<<w, leg>>].authenticator = authenticator
<1> DEFINE q == <<w, leg>>
<1>1. /\ pc[q] = "idle" /\ pc' = [pc EXCEPT ![q] = "lookup"]
      /\ input' = [input EXCEPT ![q] =
           [realm |-> Realm, ip |-> Here, serviceTicket |-> ticket,
            authenticator |-> authenticator]]
      /\ at' = [at EXCEPT ![w] = leg] /\ started' = started
      /\ UNCHANGED <<clock, restarts, dh, keytab, replay, users, status, kdcPc, kdcStatus, userKey,
                     ticketKey, reply>>
  BY DEF PostAp, Moves, T!Post, T!redis, ByTickets, kdc
<1>2. /\ q \in ServiceLegs(w) /\ q \in ServiceRequests /\ q \notin KdcRequests
      /\ q \notin {Dh(w), Create(w), As(w), Tgs(w)} /\ leg # "failed"
  <2>1. q \in {Ap(w), Again(w), Tampering(w)} /\ leg # "failed"
    BY DEF ApLegs, Ap, Again, Tampering
  <2>2. QED
    BY <2>1, LegsApart
<1>3. /\ DOMAIN input = KdcRequests \cup ServiceRequests /\ DOMAIN pc = ServiceRequests
      /\ DOMAIN started = Walks
  BY DEF WalkInv, Inv, Tables, Held
<1>4. Sending(w, q, leg)
  BY <1>1, <1>2, <1>3 DEF Sending
<1>5. QED
  BY <1>1, <1>2, <1>3, <1>4

LEMMA ApLegsGoOn ==
  ASSUME WalkInv, Inv', NEW w \in Walks, Present(w) \/ Replay(w) \/ Tamper(w)
  PROVE  WalkInv'
<1>1. /\ "ap" \in ApLegs /\ "again" \in ApLegs /\ "tampered" \in ApLegs
      /\ Ap(w) = <<w, "ap">> /\ Again(w) = <<w, "again">> /\ Tampering(w) = <<w, "tampered">>
      /\ Ap(w) # Again(w) /\ Ap(w) # Tampering(w) /\ Again(w) # Tampering(w)
  BY LegsApart DEF ApLegs, Ap, Again, Tampering
<1>2. OfWalk(w) /\ Sent(w)
  BY DEF WalkInv, Inv
<1>3. status[Ap(w)] = "Accepted" => pc[Ap(w)] # "idle"
  BY <1>1, <1>2 DEF OfWalk, OfAp
<1>4. CASE Present(w)
  <2> DEFINE key == reply[Tgs(w)].challenge.payload.sessionKey
             authenticator == [key |-> key, payload |-> [username |-> w, timestamp |-> clock]]
  <2>1. PostAp(w, "ap", reply[Tgs(w)].ticket, authenticator)
    BY <1>4 DEF Present, Reply, SessionKeyOf, Authenticator, Encrypt, Tgs
  <2>2. /\ Sending(w, Ap(w), "ap") /\ started' = started
        /\ Ap(w) \notin {Dh(w), Create(w), As(w), Tgs(w)}
        /\ input'[Ap(w)].realm = Realm /\ input'[Ap(w)].ip = Here
        /\ input'[Ap(w)].serviceTicket = reply[Tgs(w)].ticket
        /\ input'[Ap(w)].authenticator = authenticator
    <3> HIDE DEF authenticator
    <3>1. QED
      BY <1>1, <2>1, PostApSends
  <2>3. /\ input'[Ap(w)].authenticator.key = key
        /\ input'[Ap(w)].authenticator.payload.username = w
        /\ input'[Ap(w)].authenticator.payload.timestamp = clock
    BY <2>2
  <2>4. Sent(w)'
    BY <1>1, <2>2, <2>3, SendingSent
  <2>5. QED
    BY <2>2, <2>4, SendingGoesOn, SendingOnTrack
<1>5. CASE Replay(w)
  <2>1. /\ PostAp(w, "again", Reply(w, "tgs").ticket, input[Ap(w)].authenticator)
        /\ status[Ap(w)] = "Accepted"
    BY <1>1, <1>5 DEF Replay, Continues, Good, Expected
  <2>2. /\ Sending(w, Again(w), "again") /\ started' = started
        /\ Again(w) \notin {Dh(w), Create(w), As(w), Tgs(w)}
        /\ input'[Again(w)].realm = Realm
        /\ input'[Again(w)].authenticator = input[Ap(w)].authenticator
    BY <1>1, <2>1, PostApSends
  <2>3. Sent(w)'
    BY <1>1, <1>3, <2>1, <2>2, SendingSent
  <2>4. QED
    BY <2>2, <2>3, SendingGoesOn, SendingOnTrack
<1>6. CASE Tamper(w)
  <2>1. PICK ticket : PostAp(w, "tampered", ticket, Authenticator(w, SessionKeyOf(w, "tgs")))
    BY <1>6 DEF Tamper
  <2>2. status[Ap(w)] = "Accepted"
    <3>1. status[Again(w)] # "Pending"
      BY <1>1, <1>6 DEF Tamper, Continues, Good, Expected
    <3>2. pc[Again(w)] = "done"
      BY <1>1, <1>2, <3>1 DEF OfWalk, OfAp
    <3>3. QED
      BY <1>2, <3>2 DEF Sent
  <2>3. /\ Sending(w, Tampering(w), "tampered") /\ started' = started
        /\ Tampering(w) \notin {Dh(w), Create(w), As(w), Tgs(w)}
        /\ input'[Tampering(w)].realm = Realm
    BY <1>1, <2>1, PostApSends
  <2>4. Sent(w)'
    BY <1>1, <2>2, <2>3, SendingSent
  <2>5. QED
    BY <2>3, <2>4, SendingGoesOn, SendingOnTrack
<1>7. QED
  BY <1>4, <1>5, <1>6

-----------------------------------------------------------------------------

LEMMA WalkInitially == Init => WalkInv
<1> SUFFICES ASSUME Init
             PROVE  WalkInv
  OBVIOUS
<1>1. Inv
  BY Initially
<1>2. Held
  BY DEF Held, Init
<1>3. Fresh
  <2>1. DOMAIN replay = T!ReplayKeys /\ DOMAIN dh = Walks
    BY DEF Init, Cleared
  <2>2. SeedsThere
    <3>1. keytab = K!FullKeytab
      BY DEF Init
    <3>2. \A principal \in Principals \cup {"interval"} :
            /\ <<principal, Realm>> \in K!Names \X {Realm}
            /\ keytab[<<principal, Realm>>] = K!Seeded(principal, Realm)
      BY <3>1 DEF K!FullKeytab, K!Names
    <3>3. QED
      BY <3>2 DEF SeedsThere, K!Seeded, K!PrincipalKey, PrincipalKey
  <2>3. ASSUME NEW w \in Walks
        PROVE  /\ Recordless(w)
               /\ pc[Create(w)] = "dh.del" \/ status[Create(w)] = "Created" =>
                    keytab[<<w, Realm>>] = ClientKey(w)
    <3>1. \A principal \in Principals : \A stamp \in 1 .. MaxClock :
            replay[ReplayKeyOf(principal, w, stamp)] = 0
      <4>1. \A principal \in Principals : \A stamp \in 1 .. MaxClock :
              ReplayKeyOf(principal, w, stamp) \in T!ReplayKeys
        BY DEF ReplayKeyOf, T!ReplayKeys
      <4>2. QED
        BY <4>1 DEF Init, Cleared
    <3>2. pc[Create(w)] = "idle" /\ status[Create(w)] = "Pending"
      BY LegsApart DEF Init
    <3>3. QED
      BY <3>1, <3>2 DEF Recordless
  <2>4. QED
    BY <2>1, <2>2, <2>3 DEF Fresh
<1>4. ASSUME NEW w \in Walks
      PROVE  Sent(w) /\ OnTrack(w) /\ at[w] # "failed"
  <2>1. /\ \A q \in ServiceLegs(w) : pc[q] = "idle" /\ status[q] = "Pending"
        /\ \A r \in {As(w), Tgs(w)} : kdcPc[r] = "idle" /\ kdcStatus[r] = "Pending"
        /\ started[w] = 0 /\ clock = 1 /\ at[w] = "start"
        /\ users[<<w, Realm>>] = None
    BY LegsApart, LegsOfWalk DEF Init
  <2>2. /\ Dh(w) \in ServiceLegs(w) /\ Create(w) \in ServiceLegs(w) /\ Ap(w) \in ServiceLegs(w)
        /\ Again(w) \in ServiceLegs(w) /\ Tampering(w) \in ServiceLegs(w)
        /\ \A leg \in ApLegs : <<w, leg>> \in ServiceLegs(w)
    BY LegsApart DEF ServiceLegs
  <2>3. Sent(w)
    BY <2>1, <2>2 DEF Sent
  <2>4. OnTrack(w)
    BY <2>1, <2>2 DEF OnTrack, RegisteredSoFar, TicketsSoFar, AnswersSoFar, Shaping
  <2>5. QED
    BY <2>1, <2>3, <2>4
<1>5. QED
  BY <1>1, <1>2, <1>3, <1>4 DEF WalkInv

LEMMA NextGoesOn ==
  ASSUME LongEnough, WalkInv, [Next]_vars
  PROVE  WalkInv'
<1>1. Inv'
  BY NextKeeps DEF WalkInv
<1>2. \A q \in Exchanges : \E w \in Walks : q = Dh(w)
  BY DEF Exchanges, Dh
<1>3. \A q \in Creates : \E w \in Walks : q = Create(w)
  BY DEF Creates, Create
<1>4. CASE Tick \/ Snapshot \/ RedisRestart \/ UNCHANGED vars
  BY <1>1, <1>4, QuietGoesOn
<1>5. CASE KdcRestart
  BY <1>5, KdcRestartGoesOn DEF KdcRestart
<1>6. CASE Fail
  BY <1>2, <1>3, <1>6, KdcGoesOn, TicketsGoOn, ExchangeGoesOn, CreateGoesOn DEF Fail
<1>7. ASSUME NEW w \in Walks, Main(w) \/ Expire(w)
      PROVE  WalkInv'
  BY <1>1, <1>7, KeyExchangeGoesOn, RegisterGoesOn, AskTgtGoesOn, AskTicketGoesOn, ApLegsGoOn,
     EndGoesOn, QuietGoesOn DEF Main
<1>8. ASSUME NEW r \in KdcRequests, ServeKdc(r)
      PROVE  WalkInv'
  BY <1>8, KdcGoesOn DEF ServeKdc
<1>9. ASSUME NEW r \in ApRequests, ServeTickets(r)
      PROVE  WalkInv'
  BY <1>9, TicketsGoOn DEF ServeTickets
<1>10. ASSUME NEW r \in Exchanges \cup Creates, ServeRegistration(r)
       PROVE  WalkInv'
  <2>1. Exchanges \cap Creates = {}
    BY DEF Exchanges, Creates
  <2>2. QED
    BY <1>2, <1>3, <1>10, <2>1, ExchangeGoesOn, CreateGoesOn DEF ServeRegistration
<1>11. QED
  BY <1>4, <1>5, <1>6, <1>7, <1>8, <1>9, <1>10 DEF Next

\* Where the realm's policy lets a ticket last as long as a walk may take, a walk
\* that ended early was disturbed: a command of its requests failed, Redis
\* restarted, the walk outlasted its timestamps or its DH secret, or the ciphertext
\* that it altered began with an A already.  However many walks run at once, and
\* wherever the KDC restarts, nothing else makes a leg answer otherwise than the
\* script expects (UserService, AsService, TgsService, TicketsManagerService and
\* walk.mjs together).
THEOREM WalkCompletesHolds == LongEnough => (Spec => []WalkCompletes)
<1> SUFFICES ASSUME LongEnough
             PROVE  Spec => []WalkCompletes
  OBVIOUS
<1>1. Init => WalkInv
  BY WalkInitially
<1>2. WalkInv /\ [Next]_vars => WalkInv'
  BY NextGoesOn
<1>3. WalkInv => WalkCompletes
  BY DEF WalkInv, WalkCompletes
<1>4. QED
  BY <1>1, <1>2, <1>3, PTL DEF Spec
=============================================================================
