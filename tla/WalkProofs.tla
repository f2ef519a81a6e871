------------------------------ MODULE WalkProofs ------------------------------
(***************************************************************************)
(* Walk, proved for any number of walks, any skew, TTL, policy and clock,  *)
(* and any number of restarts: what the service accepts goes back through  *)
(* both tickets to the registration, and lies within the AS's grant; what  *)
(* the shared stores, the requests and the replies hold; and that the two  *)
(* applications together implement PrincipalRegistry.                      *)
(***************************************************************************)
EXTENDS Walk, TLAPS

As(w) == <<w, "as">>
Tgs(w) == <<w, "tgs">>
Create(w) == <<w, "create">>
ApLegs == {"ap", "again", "tampered"}

Shaping == {"shape.ticketKey", "shape.interval"}

\* The service's requests of a kind await the commands of that kind.
Ways ==
  /\ \A r \in Exchanges : pc[r] \in {"idle", "dh.set", "done"}
  /\ \A r \in Creates :
       pc[r] \in {"idle", "dh.get", "db.findOne", "db.save", "keytab.set", "dh.del", "done"}
  /\ \A r \in ApRequests : pc[r] \in {"idle", "lookup", "record", "done"}

\* Every request has an entry in each table, and every name a row.
Tables ==
  /\ clock \in Nat
  /\ DOMAIN input = KdcRequests \cup ServiceRequests
  /\ DOMAIN kdcPc = KdcRequests /\ DOMAIN kdcStatus = KdcRequests
  /\ DOMAIN reply = KdcRequests /\ DOMAIN root = KdcRequests
  /\ DOMAIN pc = ServiceRequests /\ DOMAIN status = ServiceRequests
  /\ DOMAIN checkedAt = KdcRequests \cup ApRequests
  /\ DOMAIN users = R!Names

\* The walk registers under its own name, and from the insert on the row holds
\* the key that the client derives.
OfCreate(w) ==
  LET c == Create(w) IN
  /\ pc[c] # "idle" =>
       /\ input[c].username = w /\ input[c].realm = Realm
       /\ input[c].password.payload = Password
  /\ status[c] # "Pending" => pc[c] = "done"
  /\ pc[c] \in {"keytab.set", "dh.del"} \/ status[c] = "Created" =>
       users[<<w, Realm>>] = ClientKey(w)

\* It pre-authenticates once it was told "Created"; the reply's ticket carries
\* the session key of this request, and a lifetime.
OfAs(w) ==
  LET r == As(w) IN
  /\ kdcPc[r] \in {"idle", "as.userKey", "as.serviceKey", "done"} \cup Shaping
  /\ kdcPc[r] # "idle" =>
       /\ status[Create(w)] = "Created"
       /\ input[r].exchange = "AS" /\ input[r].realm = Realm
       /\ input[r].preAuth.key = ClientKey(w)
       /\ input[r].requestedLifetime = RequestedLifetime
  /\ kdcStatus[r] # "Pending" => kdcPc[r] = "done"
  /\ kdcPc[r] \in Shaping \/ kdcStatus[r] = "Ok" => root[r] = r
  /\ kdcStatus[r] = "Ok" =>
       /\ K!Issued(r).sessionKey = SessionKey(r)
       /\ K!Issued(r).lifetime \in Nat

\* It presents the AS's ticket to the TGS; the ticket it gets for it carries its
\* name and expires no later.
OfTgs(w) ==
  LET r == Tgs(w) IN
  /\ kdcPc[r] \in {"idle", "tgs.target", "tgs.tgsKey", "tgs.replay", "done"} \cup Shaping
  /\ kdcPc[r] # "idle" =>
       /\ kdcStatus[As(w)] = "Ok"
       /\ input[r].exchange = "TGS" /\ input[r].realm = Realm
       /\ input[r].tgt = reply[As(w)].ticket
       /\ input[r].authenticator.payload.username = w
       /\ input[r].requestedLifetime = RequestedLifetime
  /\ kdcStatus[r] # "Pending" => kdcPc[r] = "done"
  /\ kdcPc[r] \in {"tgs.replay"} \cup Shaping \/ kdcStatus[r] = "Ok" => root[r] = As(w)
  /\ kdcStatus[r] = "Ok" =>
       /\ DOMAIN reply[r].ticket = {"key", "payload"}
       /\ K!Issued(r).sessionKey = SessionKey(r)
       /\ K!Issued(r).username = w
       /\ K!Issued(r).lifetime \in Nat
       /\ K!Issued(r).lifetime <= K!Issued(As(w)).lifetime

\* It presents what the TGS issued, altered or not, to the service, which lets
\* it pass in its name until it expires.
OfAp(w, leg) ==
  LET r == <<w, leg>> IN
  /\ pc[r] # "idle" =>
       /\ kdcStatus[Tgs(w)] = "Ok"
       /\ T!ServiceTicket(r) = K!Issued(Tgs(w))
  /\ status[r] # "Pending" => pc[r] = "done"
  /\ pc[r] = "record" \/ status[r] = "Accepted" =>
       /\ T!Auth(r).username = T!ServiceTicket(r).username
       /\ checkedAt[r] \in Nat /\ checkedAt[r] <= T!ServiceTicket(r).lifetime

OfWalk(w) == OfCreate(w) /\ OfAs(w) /\ OfTgs(w) /\ \A leg \in ApLegs : OfAp(w, leg)

\* The realm's policy is there, or it is not, in Redis and in its snapshot.
Policy ==
  /\ DOMAIN saved = {"keytab", "replay", "dh"}
  /\ DOMAIN keytab = K!Names \X {Realm} /\ DOMAIN saved.keytab = K!Names \X {Realm}
  /\ keytab[<<"interval", Realm>>] \in {LifetimeInterval, None}
  /\ saved.keytab[<<"interval", Realm>>] \in {LifetimeInterval, None}

Inv == Tables /\ Policy /\ Ways /\ \A w \in Walks : OfWalk(w)

USE SkewAssumption, WalkAssumption

\* The requests of a walk.
LEMMA RequestsOfWalk ==
  ASSUME NEW w \in Walks
  PROVE  /\ As(w) \in KdcRequests /\ Tgs(w) \in KdcRequests
         /\ Create(w) \in Creates
         /\ \A leg \in ApLegs : <<w, leg>> \in ApRequests
         /\ \A r \in KdcRequests : r[1] = w => r = As(w) \/ r = Tgs(w)
         /\ <<w, Realm>> \in R!Names
BY DEF As, Tgs, Create, ApLegs, KdcRequests, Creates, ApRequests, R!Names

\* Nothing that was accepted is beyond the registration and the AS's grant.
LEMMA InvImplies == Inv => AcceptedWithinGrant
<1> SUFFICES ASSUME Inv, NEW r \in ApRequests, status[r] = "Accepted"
             PROVE  LET tgs == T!ServiceTicket(r).sessionKey.session
                        as == root[tgs]
                    IN  /\ kdcStatus[as] = "Ok" /\ kdcStatus[tgs] = "Ok"
                        /\ input[as].preAuth.key = users[<<T!Auth(r).username, Realm>>]
                        /\ checkedAt[r] <= K!Issued(as).lifetime
  BY DEF AcceptedWithinGrant
<1>1. PICK w \in Walks, leg \in ApLegs : r = <<w, leg>>
  BY DEF ApRequests, ApLegs
<1>2. OfWalk(w)
  BY DEF Inv
<1>3. /\ kdcStatus[Tgs(w)] = "Ok" /\ T!ServiceTicket(r) = K!Issued(Tgs(w))
      /\ T!Auth(r).username = T!ServiceTicket(r).username
      /\ checkedAt[r] \in Nat /\ checkedAt[r] <= T!ServiceTicket(r).lifetime
  BY <1>1, <1>2, RequestsOfWalk DEF OfWalk, OfAp, Inv, Ways
<1>4. /\ kdcPc[Tgs(w)] = "done" /\ kdcStatus[As(w)] = "Ok" /\ root[Tgs(w)] = As(w)
      /\ K!Issued(Tgs(w)).sessionKey = SessionKey(Tgs(w)) /\ K!Issued(Tgs(w)).username = w
      /\ K!Issued(Tgs(w)).lifetime <= K!Issued(As(w)).lifetime
      /\ K!Issued(Tgs(w)).lifetime \in Nat /\ K!Issued(As(w)).lifetime \in Nat
  BY <1>2, <1>3 DEF OfWalk, OfTgs, OfAs
<1>5. input[As(w)].preAuth.key = users[<<w, Realm>>]
  BY <1>2, <1>4 DEF OfWalk, OfAs, OfCreate
<1>6. T!ServiceTicket(r).sessionKey.session = Tgs(w)
  BY <1>3, <1>4 DEF SessionKey
<1>7. QED
  BY <1>3, <1>4, <1>5, <1>6

-----------------------------------------------------------------------------
(* A step of one walk leaves the others alone. *)

Unmoved(w) ==
  /\ \A r \in {As(w), Tgs(w)} :
       /\ kdcPc'[r] = kdcPc[r] /\ kdcStatus'[r] = kdcStatus[r]
       /\ input'[r] = input[r] /\ reply'[r] = reply[r] /\ root'[r] = root[r]
  /\ \A r \in {Create(w)} \cup {<<w, leg>> : leg \in ApLegs} :
       pc'[r] = pc[r] /\ status'[r] = status[r] /\ input'[r] = input[r]
  /\ \A leg \in ApLegs : checkedAt'[<<w, leg>>] = checkedAt[<<w, leg>>]
  /\ users'[<<w, Realm>>] = users[<<w, Realm>>]

LEMMA UnmovedKeeps ==
  ASSUME NEW w \in Walks, OfWalk(w), Unmoved(w)
  PROVE  OfWalk(w)'
<1>1. OfCreate(w)'
  BY DEF OfWalk, OfCreate, Unmoved, ClientKey, R!String2Key
<1>2. OfAs(w)'
  BY DEF OfWalk, OfAs, Unmoved, ClientKey, R!String2Key, K!Issued
<1>3. OfTgs(w)'
  BY DEF OfWalk, OfTgs, Unmoved, K!Issued
<1>4. ASSUME NEW leg \in ApLegs
      PROVE  OfAp(w, leg)'
  BY DEF OfWalk, OfAp, Unmoved, K!Issued, T!ServiceTicket, T!Auth
<1>5. QED
  BY <1>1, <1>2, <1>3, <1>4 DEF OfWalk

-----------------------------------------------------------------------------
(* Steps of the KDC. *)

\* The ways a request of the KDC can move.
Refused(r) ==
  /\ kdcPc'[r] = "done" /\ kdcStatus'[r] \notin {"Pending", "Ok"}
  /\ reply' = reply /\ root' = root

Forward(r, from, to) ==
  kdcPc[r] = from /\ kdcPc'[r] = to /\ kdcStatus' = kdcStatus /\ reply' = reply

Minted(r) ==
  /\ kdcPc[r] = "shape.interval" /\ kdcPc'[r] = "done" /\ kdcStatus'[r] = "Ok"
  /\ root' = root
  /\ keytab[<<"interval", input[r].realm>>] # None
  /\ \E key \in {ticketKey[r]} :
       reply'[r].ticket =
         [key |-> key,
          payload |-> [principal |-> K!Principal(r), lifetime |-> K!ExpiresAt(r),
                       sessionKey |-> SessionKey(r),
                       username |-> IF input[r].exchange = "AS"
                                    THEN input[r].username ELSE K!Auth(r).username,
                       ip |-> input[r].ip]]

LEMMA KdcMoves ==
  ASSUME Inv, NEW r \in KdcRequests, K!Serve(r) \/ K!Fail(r)
  PROVE  \/ Refused(r)
         \/ Forward(r, "as.userKey", "as.serviceKey") /\ root' = root
         \/ Forward(r, "as.serviceKey", "shape.ticketKey") /\ root'[r] = r
         \/ Forward(r, "tgs.target", "tgs.tgsKey") /\ root' = root
         \/ /\ Forward(r, "tgs.tgsKey", "tgs.replay")
            /\ root'[r] = root[K!Tgt(r).sessionKey.session]
         \/ Forward(r, "tgs.replay", "shape.ticketKey") /\ root' = root
         \/ Forward(r, "shape.ticketKey", "shape.interval") /\ root' = root
         \/ Minted(r)
<1>1. CASE \/ K!RefusePreAuth(r) \/ K!RefuseTarget(r) \/ K!RefuseTgt(r) \/ K!RefuseReplay(r)
           \/ K!RefusePrincipal(r) \/ K!FailToShape(r) \/ K!Fail(r)
  <2>1. \E code \in {"BadRequest", "NotFound", "Unauthorized", "AlreadyUsed", "InternalError", "Failed"} :
          K!Answer(r, code)
    BY <1>1 DEF K!RefusePreAuth, K!RefuseTarget, K!RefuseTgt, K!RefuseReplay, K!RefusePrincipal,
       K!FailToShape, K!Fail, K!Throw
  <2>2. reply' = reply /\ root' = root
    BY <1>1 DEF K!RefusePreAuth, K!RefuseTarget, K!RefuseTgt, K!RefuseReplay, K!RefusePrincipal,
       K!FailToShape, K!Fail, K!Throw, K!held, K!history
  <2>3. QED
    BY <2>1, <2>2 DEF Refused, K!Answer, K!Await, Inv, Tables
<1>2. CASE K!GetUserKey(r) \/ K!FindTarget(r) \/ K!GenerateTicket(r) \/ K!GetTicketKey(r)
  BY <1>2 DEF K!GetUserKey, K!FindTarget, K!GenerateTicket, K!Recorded, K!GetTicketKey, K!Await,
     K!held, K!history, Forward, Inv, Tables
<1>3. CASE K!Authenticate(r) \/ K!Admit(r)
  BY <1>3 DEF K!Authenticate, K!Admit, K!Await, K!held, Forward, Inv, Tables
<1>4. CASE K!Shape(r)
  <2> DEFINE ticket == [principal |-> K!Principal(r), lifetime |-> K!ExpiresAt(r),
                        sessionKey |-> SessionKey(r),
                        username |-> IF input[r].exchange = "AS"
                                     THEN input[r].username ELSE K!Auth(r).username,
                        ip |-> input[r].ip]
  <2> HIDE DEF ticket
  <2>1. /\ kdcPc[r] = "shape.interval" /\ kdcPc'[r] = "done" /\ kdcStatus'[r] = "Ok"
        /\ root' = root /\ keytab[<<"interval", input[r].realm>>] # None
    BY <1>4 DEF K!Shape, K!Shapeable, K!Entry, K!Answer, K!Await, Inv, Tables
  <2>2. PICK challenge :
          reply' = [reply EXCEPT ![r] = [ticket |-> [key |-> ticketKey[r], payload |-> ticket],
                                         challenge |-> challenge]]
    BY <1>4 DEF K!Shape, ticket, K!Encrypt, K!SessionKey, SessionKey
  <2>3. reply'[r].ticket = [key |-> ticketKey[r], payload |-> ticket]
    BY <2>2 DEF Inv, Tables
  <2>4. QED
    BY <2>1, <2>3 DEF Minted, ticket
<1>5. QED
  BY <1>1, <1>2, <1>3, <1>4 DEF K!Serve

\* Only the request that moves is written to.
LEMMA KdcFrame ==
  ASSUME Inv, NEW r \in KdcRequests, K!Serve(r) \/ K!Fail(r), ByKdc
  PROVE  /\ \A q \in KdcRequests \ {r} :
              /\ kdcPc'[q] = kdcPc[q] /\ kdcStatus'[q] = kdcStatus[q]
              /\ reply'[q] = reply[q] /\ root'[q] = root[q]
         /\ \A q \in ApRequests : checkedAt'[q] = checkedAt[q]
         /\ UNCHANGED <<clock, input, keytab, saved, pc, status, users>>
         /\ kdcPc[r] \notin {"idle", "done"}
         /\ Tables'
<1>1. UNCHANGED <<pc, status, users>>
  BY DEF ByKdc, service
<1>2. r \notin ApRequests
  BY DEF KdcRequests, ApRequests
<1>3. CASE \/ K!RefusePreAuth(r) \/ K!RefuseTarget(r) \/ K!RefuseTgt(r) \/ K!RefuseReplay(r)
           \/ K!RefusePrincipal(r) \/ K!FailToShape(r)
  <2>1. /\ \E code \in {"BadRequest", "NotFound", "Unauthorized", "AlreadyUsed", "InternalError"} :
             K!Throw(r, code)
        /\ kdcPc[r] \notin {"idle", "done"}
    BY <1>3 DEF K!RefusePreAuth, K!RefuseTarget, K!RefuseTgt, K!RefuseReplay, K!RefusePrincipal,
       K!FailToShape
  <2>2. QED
    BY <1>1, <1>2, <2>1 DEF K!Throw, K!Answer, K!Await, K!redis, K!held, K!history, Inv, Tables
<1>4. CASE K!Fail(r)
  BY <1>1, <1>2, <1>4 DEF K!Fail, K!Recorded, K!Answer, K!Await, K!redis, K!held, Inv, Tables
<1>5. CASE K!GetUserKey(r) \/ K!FindTarget(r) \/ K!GenerateTicket(r) \/ K!GetTicketKey(r)
  BY <1>1, <1>2, <1>5 DEF K!GetUserKey, K!FindTarget, K!GenerateTicket, K!Recorded, K!GetTicketKey,
     K!Await, K!redis, K!held, K!history, Inv, Tables
<1>6. CASE K!Authenticate(r) \/ K!Admit(r) \/ K!Shape(r)
  BY <1>1, <1>2, <1>6 DEF K!Authenticate, K!Admit, K!Shape, K!Answer, K!Await, K!redis, K!held,
     Inv, Tables
<1>7. QED
  BY <1>3, <1>4, <1>5, <1>6 DEF K!Serve

\* A realm's policy clamps the lifetime the client asks for.
LEMMA LifetimeIsNat ==
  K!GetLifetime(RequestedLifetime, LifetimeInterval) \in Nat
BY DEF K!GetLifetime, K!Lesser, K!Greater

\* A request of the AS.
LEMMA AsKeeps ==
  ASSUME Inv, NEW w \in Walks, K!Serve(As(w)) \/ K!Fail(As(w)), ByKdc
  PROVE  OfWalk(w)'
<1> DEFINE r == As(w)
<1>1. r \in KdcRequests /\ Tgs(w) \in KdcRequests \ {r}
  BY RequestsOfWalk DEF As, Tgs
<1>2. OfWalk(w)
  BY DEF Inv
<1>3. /\ kdcPc'[Tgs(w)] = kdcPc[Tgs(w)] /\ kdcStatus'[Tgs(w)] = kdcStatus[Tgs(w)]
      /\ \A leg \in ApLegs : checkedAt'[<<w, leg>>] = checkedAt[<<w, leg>>]
      /\ UNCHANGED <<clock, input, keytab, saved, pc, status, users>>
      /\ kdcPc[r] \notin {"idle", "done"}
  BY <1>1, KdcFrame, RequestsOfWalk
\* Nothing has been asked for with its reply.
<1>4. /\ kdcPc[Tgs(w)] = "idle" /\ kdcStatus[Tgs(w)] = "Pending"
      /\ \A leg \in ApLegs : pc[<<w, leg>>] = "idle" /\ status[<<w, leg>>] = "Pending"
  BY <1>2, <1>3 DEF OfWalk, OfAs, OfTgs, OfAp
<1>5. OfCreate(w)'
  BY <1>2, <1>3 DEF OfWalk, OfCreate, ClientKey, R!String2Key
<1>6. OfTgs(w)'
  BY <1>3, <1>4 DEF OfTgs, Shaping
<1>7. ASSUME NEW leg \in ApLegs
      PROVE  OfAp(w, leg)'
  BY <1>3, <1>4 DEF OfAp
<1>8. OfAs(w)'
  <2>1. /\ kdcPc'[r] # "idle" =>
             /\ status'[Create(w)] = "Created"
             /\ input'[r].exchange = "AS" /\ input'[r].realm = Realm
             /\ input'[r].preAuth.key = ClientKey(w)
             /\ input'[r].requestedLifetime = RequestedLifetime
        /\ kdcStatus[r] = "Pending"
    BY <1>2, <1>3 DEF OfWalk, OfAs
  <2>2. CASE Refused(r)
    BY <2>1, <2>2 DEF OfAs, Refused, Shaping, ClientKey, R!String2Key
  <2>3. CASE \/ Forward(r, "as.userKey", "as.serviceKey") /\ root' = root
             \/ Forward(r, "as.serviceKey", "shape.ticketKey") /\ root'[r] = r
             \/ Forward(r, "shape.ticketKey", "shape.interval") /\ root' = root
    BY <1>2, <2>1, <2>3 DEF OfWalk, OfAs, Forward, Shaping, ClientKey, R!String2Key
  <2>4. CASE Minted(r)
    <3>1. keytab[<<"interval", Realm>>] = LifetimeInterval /\ root[r] = r /\ clock \in Nat
      BY <1>2, <1>3, <2>4 DEF OfWalk, OfAs, Minted, Shaping, Inv, Policy, Tables
    <3>2. K!ExpiresAt(r) \in Nat
      BY <1>2, <1>3, <3>1, LifetimeIsNat DEF K!ExpiresAt, K!Entry, OfWalk, OfAs
    <3>3. reply'[r].ticket.payload.sessionKey = SessionKey(r)
          /\ reply'[r].ticket.payload.lifetime = K!ExpiresAt(r)
      BY <2>4 DEF Minted
    <3>4. QED
      BY <2>1, <2>4, <3>1, <3>2, <3>3 DEF OfAs, Minted, Shaping, K!Issued, ClientKey, R!String2Key
  <2>5. QED
    BY <1>1, <1>2, <1>3, <2>2, <2>3, <2>4, KdcMoves DEF OfWalk, OfAs, Forward, Shaping
<1>9. QED
  BY <1>5, <1>6, <1>7, <1>8 DEF OfWalk

\* A request of the TGS: the AS's answer stays what it was, so the new ticket
\* lies within it.
LEMMA TgsKeeps ==
  ASSUME Inv, NEW w \in Walks, K!Serve(Tgs(w)) \/ K!Fail(Tgs(w)), ByKdc
  PROVE  OfWalk(w)'
<1> DEFINE r == Tgs(w)
<1>1. r \in KdcRequests /\ As(w) \in KdcRequests \ {r}
  BY RequestsOfWalk DEF As, Tgs
<1>2. OfWalk(w)
  BY DEF Inv
<1>3. /\ kdcPc'[As(w)] = kdcPc[As(w)] /\ kdcStatus'[As(w)] = kdcStatus[As(w)]
      /\ reply'[As(w)] = reply[As(w)] /\ root'[As(w)] = root[As(w)]
      /\ \A leg \in ApLegs : checkedAt'[<<w, leg>>] = checkedAt[<<w, leg>>]
      /\ UNCHANGED <<clock, input, keytab, saved, pc, status, users>>
      /\ kdcPc[r] \notin {"idle", "done"}
  BY <1>1, KdcFrame, RequestsOfWalk
<1>4. \A leg \in ApLegs : pc[<<w, leg>>] = "idle" /\ status[<<w, leg>>] = "Pending"
  BY <1>2, <1>3 DEF OfWalk, OfTgs, OfAp
<1>5. OfCreate(w)'
  BY <1>2, <1>3 DEF OfWalk, OfCreate, ClientKey, R!String2Key
<1>6. OfAs(w)'
  BY <1>2, <1>3 DEF OfWalk, OfAs, K!Issued, ClientKey, R!String2Key
<1>7. ASSUME NEW leg \in ApLegs
      PROVE  OfAp(w, leg)'
  BY <1>3, <1>4 DEF OfAp
<1>8. OfTgs(w)'
  <2>1. /\ kdcStatus'[As(w)] = "Ok"
        /\ input'[r].exchange = "TGS" /\ input'[r].realm = Realm
        /\ input'[r].tgt = reply'[As(w)].ticket
        /\ input'[r].authenticator.payload.username = w
        /\ input'[r].requestedLifetime = RequestedLifetime
        /\ kdcStatus[r] = "Pending"
    BY <1>2, <1>3 DEF OfWalk, OfTgs
  <2>2. CASE Refused(r)
    BY <2>1, <2>2 DEF OfTgs, Refused, Shaping
  <2>3. CASE \/ Forward(r, "tgs.target", "tgs.tgsKey") /\ root' = root
             \/ Forward(r, "tgs.replay", "shape.ticketKey") /\ root' = root
             \/ Forward(r, "shape.ticketKey", "shape.interval") /\ root' = root
    BY <1>2, <2>1, <2>3 DEF OfWalk, OfTgs, Forward, Shaping
  <2>4. CASE /\ Forward(r, "tgs.tgsKey", "tgs.replay")
             /\ root'[r] = root[K!Tgt(r).sessionKey.session]
    <3>1. root'[r] = As(w)
      BY <1>2, <1>3, <2>1, <2>4 DEF OfWalk, OfTgs, OfAs, K!Tgt, K!Issued, SessionKey
    <3>2. QED
      BY <2>1, <2>4, <3>1 DEF OfTgs, Forward, Shaping
  <2>5. CASE Minted(r)
    <3>1. keytab[<<"interval", Realm>>] = LifetimeInterval /\ root[r] = As(w) /\ clock \in Nat
      BY <1>2, <1>3, <2>1, <2>5 DEF OfWalk, OfTgs, Minted, Shaping, Inv, Policy, Tables
    <3>2. K!Tgt(r).lifetime = K!Issued(As(w)).lifetime /\ K!Issued(As(w)).lifetime \in Nat
      BY <1>2, <1>3 DEF OfWalk, OfTgs, OfAs, K!Tgt, K!Issued
    <3>3. K!ExpiresAt(r) \in Nat /\ K!ExpiresAt(r) <= K!Issued(As(w)).lifetime
      <4>1. K!ExpiresAt(r)
              = K!Lesser(clock + K!GetLifetime(RequestedLifetime, LifetimeInterval),
                         K!Tgt(r).lifetime)
        BY <1>2, <1>3, <3>1 DEF K!ExpiresAt, K!Entry, OfWalk, OfTgs
      <4>2. QED
        BY <3>1, <3>2, <4>1, LifetimeIsNat DEF K!Lesser
    <3>4. /\ DOMAIN reply'[r].ticket = {"key", "payload"}
          /\ reply'[r].ticket.payload.sessionKey = SessionKey(r)
          /\ reply'[r].ticket.payload.lifetime = K!ExpiresAt(r)
          /\ reply'[r].ticket.payload.username = w
      BY <1>3, <2>1, <2>5 DEF Minted, K!Auth
    <3>5. QED
      BY <1>3, <2>1, <2>5, <3>1, <3>3, <3>4 DEF OfTgs, Minted, Shaping, K!Issued
  <2>6. QED
    BY <1>1, <1>2, <1>3, <2>2, <2>3, <2>4, <2>5, KdcMoves DEF OfWalk, OfTgs, Forward, Shaping
<1>9. QED
  BY <1>5, <1>6, <1>7, <1>8 DEF OfWalk

LEMMA KdcKeeps ==
  ASSUME Inv, NEW r \in KdcRequests, K!Serve(r) \/ K!Fail(r), ByKdc
  PROVE  Inv'
<1>1. Tables' /\ UNCHANGED <<clock, input, keytab, saved, pc, status, users>>
  BY KdcFrame
<1>2. Policy' /\ Ways'
  BY <1>1 DEF Inv, Policy, Ways, K!Names
<1>3. ASSUME NEW w \in Walks
      PROVE  OfWalk(w)'
  <2>1. CASE r = As(w)
    BY <2>1, AsKeeps
  <2>2. CASE r = Tgs(w)
    BY <2>2, TgsKeeps
  <2>3. CASE r \notin {As(w), Tgs(w)}
    <3>1. \A q \in {As(w), Tgs(w)} :
            /\ kdcPc'[q] = kdcPc[q] /\ kdcStatus'[q] = kdcStatus[q]
            /\ input'[q] = input[q] /\ reply'[q] = reply[q] /\ root'[q] = root[q]
      <4>1. {As(w), Tgs(w)} \subseteq KdcRequests \ {r}
        BY <2>3, RequestsOfWalk
      <4>2. QED
        BY <1>1, <4>1, KdcFrame
    <3>2. \A leg \in ApLegs : checkedAt'[<<w, leg>>] = checkedAt[<<w, leg>>]
      BY KdcFrame, RequestsOfWalk
    <3>3. Unmoved(w)
      BY <1>1, <3>1, <3>2 DEF Unmoved
    <3>4. QED
      BY <3>3, UnmovedKeeps DEF Inv
  <2>4. QED
    BY <2>1, <2>2, <2>3
<1>4. QED
  BY <1>1, <1>2, <1>3 DEF Inv
-----------------------------------------------------------------------------
(* Steps of the application service: the AP exchange. *)

\* The legs follow one another: what has no answer yet has had nothing asked for
\* with it.
ApIdle(w) == \A leg \in ApLegs : pc[<<w, leg>>] = "idle" /\ status[<<w, leg>>] = "Pending"
TgsIdle(w) == kdcPc[Tgs(w)] = "idle" /\ kdcStatus[Tgs(w)] = "Pending" /\ ApIdle(w)
AsIdle(w) == kdcPc[As(w)] = "idle" /\ kdcStatus[As(w)] = "Pending" /\ TgsIdle(w)

LEMMA InOrder ==
  ASSUME NEW w \in Walks, OfWalk(w)
  PROVE  /\ status[Create(w)] # "Created" => AsIdle(w)
         /\ kdcStatus[As(w)] # "Ok" => TgsIdle(w)
         /\ kdcStatus[Tgs(w)] # "Ok" => ApIdle(w)
<1>1. kdcStatus[Tgs(w)] # "Ok" => ApIdle(w)
  BY DEF OfWalk, OfAp, ApIdle
<1>2. kdcStatus[As(w)] # "Ok" => TgsIdle(w)
  BY <1>1 DEF OfWalk, OfTgs, TgsIdle
<1>3. status[Create(w)] # "Created" => AsIdle(w)
  BY <1>2 DEF OfWalk, OfAs, AsIdle
<1>4. QED
  BY <1>1, <1>2, <1>3

LEMMA IdleIsOf ==
  ASSUME NEW w \in Walks
  PROVE  /\ ApIdle(w) => \A leg \in ApLegs : OfAp(w, leg)
         /\ TgsIdle(w) => OfTgs(w) /\ \A leg \in ApLegs : OfAp(w, leg)
         /\ AsIdle(w) => OfAs(w) /\ OfTgs(w) /\ \A leg \in ApLegs : OfAp(w, leg)
<1>1. ApIdle(w) => \A leg \in ApLegs : OfAp(w, leg)
  BY DEF ApIdle, OfAp
<1>2. TgsIdle(w) => OfTgs(w)
  BY DEF TgsIdle, OfTgs, Shaping
<1>3. AsIdle(w) => OfAs(w)
  BY DEF AsIdle, OfAs, Shaping
<1>4. QED
  BY <1>1, <1>2, <1>3 DEF TgsIdle, AsIdle

\* What the rest of the system keeps, the invariant of a request's walk needs.
LEMMA WalksKeep ==
  ASSUME Inv, Tables', Policy', Ways', NEW w \in Walks, OfWalk(w)',
         \A v \in Walks \ {w} : Unmoved(v)
  PROVE  Inv'
<1>1. \A v \in Walks \ {w} : OfWalk(v)'
  BY UnmovedKeeps DEF Inv
<1>2. QED
  BY <1>1 DEF Inv

\* The ways a request of the AP exchange can move.
LEMMA TicketsMoves ==
  ASSUME Inv, NEW r \in ApRequests, T!Serve(r) \/ T!Fail(r), ByTickets
  PROVE  /\ UNCHANGED <<clock, input, keytab, saved, users, kdc>>
         /\ pc[r] \notin {"idle", "done"}
         /\ \A q \in ServiceRequests \ {r} : pc'[q] = pc[q] /\ status'[q] = status[q]
         /\ \A q \in ApRequests \ {r} : checkedAt'[q] = checkedAt[q]
         /\ Tables'
         /\ \/ /\ pc'[r] = "done" /\ status'[r] \notin {"Pending", "Accepted"}
               /\ checkedAt' = checkedAt
            \/ /\ pc[r] = "lookup" /\ pc'[r] = "record" /\ status'[r] = status[r]
               /\ T!Auth(r).username = T!ServiceTicket(r).username
               /\ checkedAt'[r] = clock /\ clock <= T!ServiceTicket(r).lifetime
            \/ /\ pc[r] = "record" /\ pc'[r] = "done" /\ status'[r] = "Accepted"
               /\ checkedAt' = checkedAt
<1>1. /\ r \in ServiceRequests /\ r \in KdcRequests \cup ApRequests
      /\ ApRequests \subseteq ServiceRequests
  BY DEF ServiceRequests
<1>2. CASE T!RefuseRealm(r) \/ T!Refuse(r) \/ T!RefuseReplay(r)
  <2>1. /\ \E code \in {"NotFound", "Unauthorized", "AlreadyUsed"} : T!Throw(r, code)
        /\ pc[r] \notin {"idle", "done"}
    BY <1>2 DEF T!RefuseRealm, T!Refuse, T!RefuseReplay
  <2>2. QED
    BY <1>1, <2>1 DEF T!Throw, T!Answer, T!redis, ByTickets, kdc, Inv, Tables
<1>3. CASE T!Fail(r)
  BY <1>1, <1>3 DEF T!Fail, T!Answer, T!Recorded, T!redis, ByTickets, kdc, Inv, Tables
<1>4. CASE T!Record(r)
  BY <1>1, <1>4 DEF T!Record, T!Answer, T!Recorded, ByTickets, kdc, Inv, Tables
<1>5. CASE T!Admit(r)
  BY <1>1, <1>5 DEF T!Admit, T!Valid, T!redis, ByTickets, kdc, Inv, Tables
<1>6. QED
  BY <1>2, <1>3, <1>4, <1>5 DEF T!Serve

\* Other walks' requests are not this one.
LEMMA OthersApart ==
  ASSUME NEW w \in Walks, NEW v \in Walks \ {w}
  PROVE  /\ {As(v), Tgs(v)} \subseteq KdcRequests \ {As(w), Tgs(w)}
         /\ {Create(v)} \cup {<<v, leg>> : leg \in ApLegs} \subseteq ServiceRequests
         /\ \A q \in {Create(v)} \cup {<<v, leg>> : leg \in ApLegs} : q[1] = v
         /\ \A leg \in ApLegs : <<v, leg>> \in ApRequests
BY DEF As, Tgs, Create, ApLegs, KdcRequests, ServiceRequests, Creates, ApRequests

LEMMA TicketsKeep ==
  ASSUME Inv, NEW r \in ApRequests, T!Serve(r) \/ T!Fail(r), ByTickets
  PROVE  Inv'
<1>1. /\ UNCHANGED <<clock, input, keytab, saved, users, kdcPc, kdcStatus, reply, root>>
      /\ Tables'
  BY TicketsMoves DEF kdc
<1>2. Policy'
  BY <1>1 DEF Inv, Policy, K!Names
<1>3. PICK w \in Walks, leg \in ApLegs : r = <<w, leg>>
  BY DEF ApRequests, ApLegs
<1>4. Ways'
  <2>1. /\ ApRequests \subseteq ServiceRequests
        /\ Exchanges \cup Creates \subseteq ServiceRequests \ {r}
    BY DEF ServiceRequests, Exchanges, Creates, ApRequests
  <2>2. \A q \in Exchanges \cup Creates : pc'[q] = pc[q]
    BY <2>1, TicketsMoves
  <2>3. \A q \in ApRequests : pc'[q] \in {"idle", "lookup", "record", "done"}
    BY <2>1, TicketsMoves DEF Inv, Ways
  <2>4. QED
    BY <2>2, <2>3 DEF Inv, Ways
<1>5. ASSUME NEW v \in Walks \ {w}
      PROVE  Unmoved(v)
  <2>1. r \notin {Create(v)} \cup {<<v, l>> : l \in ApLegs}
    BY <1>3 DEF Create
  <2>2. QED
    BY <1>1, <2>1, OthersApart, TicketsMoves DEF Unmoved
<1>6. OfWalk(w)
  BY DEF Inv
<1>7. /\ OfCreate(w)' /\ OfAs(w)' /\ OfTgs(w)'
  <2>1. Create(w) \in ServiceRequests \ {r}
    BY <1>3 DEF Create, ServiceRequests, Creates, ApLegs
  <2>2. pc'[Create(w)] = pc[Create(w)] /\ status'[Create(w)] = status[Create(w)]
    BY <2>1, TicketsMoves
  <2>3. OfCreate(w)'
    BY <1>1, <1>6, <2>2 DEF OfWalk, OfCreate, ClientKey, R!String2Key
  <2>4. OfAs(w)'
    BY <1>1, <1>6, <2>2 DEF OfWalk, OfAs, K!Issued, ClientKey, R!String2Key
  <2>5. OfTgs(w)'
    BY <1>1, <1>6 DEF OfWalk, OfTgs, K!Issued
  <2>6. QED
    BY <2>3, <2>4, <2>5
<1>8. ASSUME NEW l \in ApLegs
      PROVE  OfAp(w, l)'
  <2>1. OfAp(w, l)
    BY <1>6 DEF OfWalk
  <2>2. /\ T!ServiceTicket(<<w, l>>)' = T!ServiceTicket(<<w, l>>)
        /\ T!Auth(<<w, l>>)' = T!Auth(<<w, l>>)
        /\ K!Issued(Tgs(w))' = K!Issued(Tgs(w))
    BY <1>1 DEF T!ServiceTicket, T!Auth, K!Issued
  <2>3. CASE l # leg
    <3>1. <<w, l>> \in ApRequests \ {r} /\ <<w, l>> \in ServiceRequests \ {r}
      BY <1>3, <2>3, RequestsOfWalk DEF ServiceRequests
    <3>2. QED
      BY <1>1, <2>1, <2>2, <3>1, TicketsMoves DEF OfAp
  <2>4. CASE l = leg
    <3>1. clock \in Nat
      BY DEF Inv, Tables
    <3>2. QED
      BY <1>1, <1>3, <2>1, <2>2, <2>4, <3>1, TicketsMoves DEF OfAp
  <2>5. QED
    BY <2>3, <2>4
<1>9. OfWalk(w)'
  BY <1>7, <1>8 DEF OfWalk
<1>10. QED
  BY <1>1, <1>2, <1>4, <1>5, <1>9, WalksKeep
-----------------------------------------------------------------------------
(* Steps of the application service: registration. *)

\* The ways a request of the registration can move.  The keytab and the table
\* are written under the name in the request.
LEMMA RegistrationMoves ==
  ASSUME Inv, NEW r \in Exchanges \cup Creates, ByRegistration,
         R!Fail(r) \/ (r \in Exchanges /\ R!ServeExchange(r))
           \/ (r \in Creates /\ R!ServeCreate(r))
  PROVE  /\ UNCHANGED <<clock, input, saved, kdc, checkedAt>>
         /\ pc[r] \notin {"idle", "done"} /\ r \in ServiceRequests
         /\ \A q \in ServiceRequests \ {r} : pc'[q] = pc[q] /\ status'[q] = status[q]
         /\ DOMAIN pc' = ServiceRequests /\ DOMAIN status' = ServiceRequests
         /\ \/ UNCHANGED keytab
            \/ /\ pc[r] = "keytab.set"
               /\ keytab' = [keytab EXCEPT ![R!Name(r)] = R!PrincipalKey(r)]
         /\ \/ UNCHANGED users
            \/ /\ pc[r] = "db.save"
               /\ users' = [users EXCEPT ![R!Name(r)] = R!PrincipalKey(r)]
         /\ \/ pc'[r] = "done" /\ status'[r] \notin {"Pending", "Created"}
            \/ pc[r] = "dh.del" /\ pc'[r] = "done" /\ status'[r] = "Created" /\ UNCHANGED users
            \/ /\ status' = status
               /\ \/ pc[r] = "dh.get" /\ pc'[r] = "db.findOne" /\ UNCHANGED users
                  \/ pc[r] = "db.findOne" /\ pc'[r] = "db.save" /\ UNCHANGED users
                  \/ /\ pc[r] = "db.save" /\ pc'[r] = "keytab.set"
                     /\ users' = [users EXCEPT ![R!Name(r)] = R!PrincipalKey(r)]
                  \/ pc[r] = "keytab.set" /\ pc'[r] = "dh.del" /\ UNCHANGED users
<1> USE DEF Inv, Tables, ByRegistration, stamps, R!Await, R!Answer, R!redis
<1>1. r \in ServiceRequests
  BY DEF ServiceRequests
<1>2. CASE R!Fail(r)
  BY <1>1, <1>2 DEF R!Fail, R!CacheSecret, R!Inserted, R!KeySet, R!SecretDeleted
<1>3. CASE r \in Exchanges /\ R!ServeExchange(r)
  BY <1>1, <1>3 DEF R!ServeExchange, R!KeyExchange, R!CacheSecret
<1>4. CASE R!RefusePassword(r) \/ R!RefuseExisting(r) \/ R!RefuseDuplicate(r)
  <2>1. /\ \E code \in {"Forbidden", "Unauthorized", "BadRequest", "Conflict", "InternalError"} :
             R!Throw(r, code)
        /\ pc[r] \notin {"idle", "done"}
    BY <1>4 DEF R!RefusePassword, R!RefuseExisting, R!RefuseDuplicate
  <2>2. QED
    BY <1>1, <2>1 DEF R!Throw
<1>5. CASE R!DecryptPassword(r) \/ R!FindNone(r)
  BY <1>1, <1>5 DEF R!DecryptPassword, R!FindNone
<1>6. CASE R!Save(r)
  BY <1>1, <1>6 DEF R!Save, R!Inserted
<1>7. CASE R!SetKey(r) \/ R!DeleteSecret(r)
  BY <1>1, <1>7 DEF R!SetKey, R!KeySet, R!DeleteSecret, R!SecretDeleted
<1>8. QED
  BY <1>2, <1>3, <1>4, <1>5, <1>6, <1>7 DEF R!ServeCreate

\* The keytab's entry of the policy is nobody's name.
LEMMA PolicyApart ==
  ASSUME Policy, NEW w \in Walks, NEW key,
         keytab' = [keytab EXCEPT ![<<w, Realm>>] = key], saved' = saved
  PROVE  Policy'
<1>1. <<"interval", Realm>> # <<w, Realm>> /\ "interval" \in K!Names
  BY DEF K!Names
<1>2. <<"interval", Realm>> \in DOMAIN keytab
  BY <1>1 DEF Policy
<1>3. QED
  BY <1>1, <1>2 DEF Policy, K!Names

LEMMA ExchangesKeep ==
  ASSUME Inv, NEW r \in Exchanges, ByRegistration, R!Fail(r) \/ R!ServeExchange(r)
  PROVE  Inv'
<1>1. pc[r] = "dh.set"
  BY RegistrationMoves DEF Inv, Ways
<1>2. /\ UNCHANGED <<clock, input, saved, keytab, users, checkedAt>>
      /\ UNCHANGED <<kdcPc, kdcStatus, reply, root>>
  BY <1>1, RegistrationMoves DEF kdc
<1>3. Tables' /\ Policy'
  BY <1>2, RegistrationMoves DEF Inv, Tables, Policy, K!Names, R!Names
<1>4. Creates \cup ApRequests \subseteq ServiceRequests \ {r}
  BY DEF ServiceRequests, Exchanges, Creates, ApRequests
<1>5. Ways'
  <2>1. \A q \in Creates \cup ApRequests : pc'[q] = pc[q]
    BY <1>4, RegistrationMoves
  <2>2. \A q \in Exchanges : pc'[q] \in {"idle", "dh.set", "done"}
    BY <1>1, RegistrationMoves DEF Inv, Ways, ServiceRequests
  <2>3. QED
    BY <2>1, <2>2 DEF Inv, Ways
<1>6. ASSUME NEW w \in Walks
      PROVE  Unmoved(w)
  <2>1. {Create(w)} \cup {<<w, leg>> : leg \in ApLegs} \subseteq Creates \cup ApRequests
    BY RequestsOfWalk
  <2>2. \A q \in {Create(w)} \cup {<<w, leg>> : leg \in ApLegs} :
          pc'[q] = pc[q] /\ status'[q] = status[q]
    BY <1>4, <2>1, RegistrationMoves
  <2>3. QED
    BY <1>2, <2>2 DEF Unmoved
<1>7. \A w \in Walks : OfWalk(w)'
  BY <1>6, UnmovedKeeps DEF Inv
<1>8. QED
  BY <1>3, <1>5, <1>7 DEF Inv

LEMMA CreatesKeep ==
  ASSUME Inv, NEW r \in Creates, ByRegistration, R!Fail(r) \/ R!ServeCreate(r)
  PROVE  Inv'
<1>1. PICK w \in Walks : r = Create(w)
  BY DEF Creates, Create
<1>2. OfWalk(w) /\ OfCreate(w)
  BY DEF Inv, OfWalk
<1>3. /\ UNCHANGED <<clock, input, saved, checkedAt, kdcPc, kdcStatus, reply, root>>
      /\ pc[r] \notin {"idle", "done"} /\ r \in ServiceRequests
  BY RegistrationMoves DEF kdc
<1>4. /\ status[r] = "Pending" /\ R!Name(r) = <<w, Realm>> /\ R!PrincipalKey(r) = ClientKey(w)
      /\ AsIdle(w)
  BY <1>1, <1>2, <1>3, InOrder DEF OfCreate, R!Name, R!PrincipalKey, ClientKey
<1>5. /\ DOMAIN users = R!Names /\ <<w, Realm>> \in R!Names
  BY RequestsOfWalk DEF Inv, Tables
<1>6. Tables'
  BY <1>3, <1>5, RegistrationMoves DEF Inv, Tables, R!Names
<1>7. Policy'
  <2>1. CASE UNCHANGED keytab
    BY <1>3, <2>1 DEF Inv, Policy, K!Names
  <2>2. CASE keytab' = [keytab EXCEPT ![<<w, Realm>>] = ClientKey(w)]
    BY <1>3, <2>2, PolicyApart DEF Inv
  <2>3. QED
    BY <1>4, <2>1, <2>2, RegistrationMoves
<1>8. \A q \in ServiceRequests \ {r} : pc'[q] = pc[q] /\ status'[q] = status[q]
  BY RegistrationMoves
<1>9. Ways'
  <2>1. /\ Exchanges \cup ApRequests \subseteq ServiceRequests \ {r}
        /\ Creates \subseteq ServiceRequests
    BY DEF ServiceRequests, Exchanges, Creates, ApRequests
  <2>2. \A q \in Exchanges \cup ApRequests : pc'[q] = pc[q]
    BY <1>8, <2>1
  <2>3. \A q \in Creates : pc'[q] \in
          {"idle", "dh.get", "db.findOne", "db.save", "keytab.set", "dh.del", "done"}
    BY <1>8, <2>1, RegistrationMoves DEF Inv, Ways
  <2>4. QED
    BY <2>2, <2>3 DEF Inv, Ways
<1>10. ASSUME NEW v \in Walks \ {w}
       PROVE  Unmoved(v)
  <2>1. {Create(v)} \cup {<<v, leg>> : leg \in ApLegs} \subseteq ServiceRequests \ {r}
    BY <1>1, OthersApart DEF Create
  <2>2. \A q \in {Create(v)} \cup {<<v, leg>> : leg \in ApLegs} :
          pc'[q] = pc[q] /\ status'[q] = status[q]
    BY <1>8, <2>1
  <2>3. users'[<<v, Realm>>] = users[<<v, Realm>>]
    <3>1. <<v, Realm>> \in DOMAIN users \ {<<w, Realm>>}
      BY <1>5, RequestsOfWalk
    <3>2. users' = users \/ users' = [users EXCEPT ![<<w, Realm>>] = ClientKey(w)]
      BY <1>4, RegistrationMoves
    <3>3. QED
      BY <3>1, <3>2
  <2>4. QED
    BY <1>3, <2>2, <2>3 DEF Unmoved
<1>11. OfCreate(w)'
  <2>1. /\ input'[r].username = w /\ input'[r].realm = Realm
        /\ input'[r].password.payload = Password
    BY <1>1, <1>2, <1>3 DEF OfCreate
  <2>2. CASE pc'[r] = "done" /\ status'[r] \notin {"Pending", "Created"}
    BY <1>1, <2>1, <2>2 DEF OfCreate
  <2>3. CASE /\ pc[r] = "db.save" /\ pc'[r] = "keytab.set" /\ status' = status
             /\ users' = [users EXCEPT ![<<w, Realm>>] = ClientKey(w)]
    BY <1>1, <1>4, <1>5, <2>1, <2>3 DEF OfCreate, ClientKey, R!String2Key
  <2>4. CASE /\ UNCHANGED users
             /\ \/ pc[r] = "dh.del" /\ pc'[r] = "done" /\ status'[r] = "Created"
                \/ /\ status' = status
                   /\ \/ pc[r] = "dh.get" /\ pc'[r] = "db.findOne"
                      \/ pc[r] = "db.findOne" /\ pc'[r] = "db.save"
                      \/ pc[r] = "keytab.set" /\ pc'[r] = "dh.del"
    BY <1>1, <1>2, <1>4, <2>1, <2>4 DEF OfCreate, ClientKey, R!String2Key
  <2>5. QED
    BY <1>4, <2>2, <2>3, <2>4, RegistrationMoves
<1>12. AsIdle(w)'
  <2>1. \A leg \in ApLegs : <<w, leg>> \in ServiceRequests \ {r}
    BY <1>1 DEF Create, ServiceRequests, ApRequests, ApLegs
  <2>2. QED
    BY <1>3, <1>4, <1>8, <2>1 DEF AsIdle, TgsIdle, ApIdle
<1>13. OfAs(w)' /\ OfTgs(w)' /\ \A leg \in ApLegs : OfAp(w, leg)'
  <2>1. OfAs(w)'
    BY <1>12 DEF AsIdle, OfAs, Shaping
  <2>2. OfTgs(w)'
    BY <1>12 DEF AsIdle, TgsIdle, OfTgs, Shaping
  <2>3. ASSUME NEW leg \in ApLegs
        PROVE  OfAp(w, leg)'
    BY <1>12 DEF AsIdle, TgsIdle, ApIdle, OfAp
  <2>4. QED
    BY <2>1, <2>2, <2>3
<1>14. OfWalk(w)'
  BY <1>11, <1>13 DEF OfWalk
<1>15. QED
  BY <1>6, <1>7, <1>9, <1>10, <1>14, WalksKeep
-----------------------------------------------------------------------------
(* Steps of the client, of Redis and of time. *)

\* Nothing but the lookup keys of Redis, the clock or the client changes.
LEMMA QuietKeeps ==
  ASSUME Inv, Policy', clock' \in Nat,
         UNCHANGED <<users, pc, status, kdcPc, kdcStatus, reply, root, input, checkedAt>>
  PROVE  Inv'
<1>1. Tables' /\ Ways'
  BY DEF Inv, Tables, Ways, R!Names
<1>2. ASSUME NEW w \in Walks
      PROVE  OfWalk(w)'
  BY UnmovedKeeps DEF Inv, Unmoved
<1>3. QED
  BY <1>1, <1>2 DEF Inv

LEMMA KdcRestartKeeps ==
  ASSUME Inv, K!KdcRestart, ByKdc
  PROVE  Inv'
<1>1. /\ UNCHANGED <<clock, saved, input, reply, checkedAt, root, users, pc, status>>
      /\ kdcPc' = [r \in KdcRequests |-> IF kdcPc[r] = "idle" THEN "idle" ELSE "done"]
      /\ kdcStatus' = [r \in KdcRequests |->
           IF kdcPc[r] \in {"idle", "done"} THEN kdcStatus[r] ELSE "Failed"]
      /\ keytab' = [e \in K!Names \X {Realm} |->
           IF e[1] \in Principals \cup {"interval"} THEN K!Seeded(e[1], e[2]) ELSE keytab[e]]
  BY DEF K!KdcRestart, K!held, K!history, ByKdc, service
<1>2. Tables' /\ Ways'
  BY <1>1 DEF Inv, Tables, Ways, R!Names
<1>3. Policy'
  <2>1. <<"interval", Realm>> \in K!Names \X {Realm}
    BY DEF K!Names
  <2>2. keytab'[<<"interval", Realm>>] = LifetimeInterval
    BY <1>1, <2>1 DEF K!Seeded
  <2>3. QED
    BY <1>1, <2>2 DEF Inv, Policy, K!Names
<1>4. ASSUME NEW w \in Walks
      PROVE  OfWalk(w)'
  <2>1. OfWalk(w)
    BY DEF Inv
  <2>2. \A r \in {As(w), Tgs(w)} :
          /\ kdcPc'[r] = "idle" <=> kdcPc[r] = "idle"
          /\ kdcPc'[r] \in {"idle", "done"}
          /\ kdcStatus'[r] = "Ok" <=> kdcStatus[r] = "Ok"
          /\ kdcStatus'[r] # "Pending" => kdcPc'[r] = "done"
    <3>1. \A r \in {As(w), Tgs(w)} : /\ r \in KdcRequests
                                     /\ kdcStatus[r] # "Pending" => kdcPc[r] = "done"
      BY <2>1, RequestsOfWalk DEF OfWalk, OfAs, OfTgs
    <3>2. QED
      BY <1>1, <3>1
  <2>3. OfCreate(w)'
    BY <1>1, <2>1 DEF OfWalk, OfCreate, ClientKey, R!String2Key
  <2>4. OfAs(w)'
    BY <1>1, <2>1, <2>2 DEF OfWalk, OfAs, Shaping, K!Issued, ClientKey, R!String2Key
  <2>5. OfTgs(w)'
    BY <1>1, <2>1, <2>2 DEF OfWalk, OfTgs, Shaping, K!Issued
  <2>6. ASSUME NEW leg \in ApLegs
        PROVE  OfAp(w, leg)'
    BY <1>1, <2>1, <2>2 DEF OfWalk, OfAp, K!Issued, T!ServiceTicket, T!Auth
  <2>7. QED
    BY <2>3, <2>4, <2>5, <2>6 DEF OfWalk
<1>5. QED
  BY <1>2, <1>3, <1>4 DEF Inv

\* The secret of a key exchange expires; nothing else is in Redis's snapshot.
LEMMA ExpireKeeps ==
  ASSUME Inv, NEW w \in Walks, Expire(w)
  PROVE  Inv'
<1>1. /\ UNCHANGED <<users, pc, status, kdcPc, kdcStatus, reply, root, input, checkedAt, clock,
                     keytab>>
      /\ \E secret : saved' = [saved EXCEPT !.dh = secret]
  BY DEF Expire, R!Expire, ByRegistration, kdc, stamps
<1>2. saved'.keytab = saved.keytab /\ DOMAIN saved' = DOMAIN saved
  BY <1>1 DEF Inv, Policy
<1>3. Policy'
  BY <1>1, <1>2 DEF Inv, Policy, K!Names
<1>4. QED
  BY <1>1, <1>3, QuietKeeps DEF Inv, Tables
\* A client sends one request, of walk w: the other walks have moved as little
\* as its other requests.
LEMMA SendingUnmoved ==
  ASSUME Inv, NEW w \in Walks, NEW sent \in KdcRequests \cup ServiceRequests, sent[1] = w,
         \A q \in KdcRequests \ {sent} : kdcPc'[q] = kdcPc[q],
         \A q \in ServiceRequests \ {sent} : pc'[q] = pc[q] /\ status'[q] = status[q],
         \A q \in (KdcRequests \cup ServiceRequests) \ {sent} : input'[q] = input[q],
         UNCHANGED <<kdcStatus, reply, root, checkedAt, users>>
  PROVE  \A v \in Walks \ {w} : Unmoved(v)
<1> SUFFICES ASSUME NEW v \in Walks \ {w}
             PROVE  Unmoved(v)
  OBVIOUS
<1>1. /\ {As(v), Tgs(v)} \subseteq KdcRequests \ {sent}
      /\ {Create(v)} \cup {<<v, leg>> : leg \in ApLegs} \subseteq ServiceRequests \ {sent}
  <2>1. \A r \in {As(v), Tgs(v)} : r[1] = v
    BY DEF As, Tgs
  <2>2. QED
    BY <2>1, OthersApart
<1>2. \A r \in {As(v), Tgs(v)} : kdcPc'[r] = kdcPc[r] /\ input'[r] = input[r]
  BY <1>1
<1>3. \A r \in {Create(v)} \cup {<<v, leg>> : leg \in ApLegs} :
        pc'[r] = pc[r] /\ status'[r] = status[r] /\ input'[r] = input[r]
  BY <1>1
<1>4. QED
  BY <1>2, <1>3 DEF Unmoved

LEMMA KeyExchangeKeeps ==
  ASSUME Inv, NEW w \in Walks, KeyExchange(w)
  PROVE  Inv'
<1> DEFINE e == <<w, "dh">>
<1>1. /\ e \in Exchanges /\ Exchanges \subseteq ServiceRequests
      /\ (KdcRequests \cup Creates \cup ApRequests) \subseteq (KdcRequests \cup ServiceRequests) \ {e}
      /\ Creates \cup ApRequests \subseteq ServiceRequests \ {e}
  BY DEF Exchanges, ServiceRequests, Creates, ApRequests, KdcRequests
<1>2. /\ input' = [input EXCEPT ![e] = w]
      /\ \/ pc' = [pc EXCEPT ![e] = "dh.set"] /\ status' = status
         \/ /\ pc' = [pc EXCEPT ![e] = "done"]
            /\ \E code \in {"BadRequest", "InternalError"} : status' = [status EXCEPT ![e] = code]
      /\ UNCHANGED <<clock, keytab, saved, users, kdcPc, kdcStatus, reply, root, checkedAt>>
  BY DEF KeyExchange, R!PostExchange, R!Await, R!Answer, R!redis, ByRegistration, kdc, stamps
<1>3. Tables' /\ Policy'
  BY <1>2 DEF Inv, Tables, Policy, K!Names, R!Names
<1>4. Ways'
  <2>1. \A q \in Exchanges : pc'[q] \in {"idle", "dh.set", "done"}
    BY <1>1, <1>2 DEF Inv, Ways, Tables
  <2>2. \A q \in Creates \cup ApRequests : pc'[q] = pc[q]
    BY <1>1, <1>2 DEF Inv, Tables
  <2>3. QED
    BY <2>1, <2>2 DEF Inv, Ways
<1>5. ASSUME NEW v \in Walks
      PROVE  Unmoved(v)
  <2>1. /\ {As(v), Tgs(v)} \subseteq KdcRequests
        /\ {Create(v)} \cup {<<v, leg>> : leg \in ApLegs} \subseteq Creates \cup ApRequests
    BY RequestsOfWalk
  <2>2. \A q \in KdcRequests \cup Creates \cup ApRequests : input'[q] = input[q]
    BY <1>1, <1>2
  <2>3. \A q \in Creates \cup ApRequests : pc'[q] = pc[q] /\ status'[q] = status[q]
    <3>1. ASSUME NEW q \in ServiceRequests \ {e}
          PROVE  pc'[q] = pc[q] /\ status'[q] = status[q]
      <4>1. DOMAIN pc = ServiceRequests /\ DOMAIN status = ServiceRequests
        BY DEF Inv, Tables
      <4>2. QED
        BY <1>2, <4>1
    <3>2. QED
      BY <1>1, <3>1
  <2>4. QED
    BY <1>2, <2>1, <2>2, <2>3 DEF Unmoved
<1>6. QED
  BY <1>3, <1>4, <1>5, UnmovedKeeps DEF Inv

LEMMA RegisterKeeps ==
  ASSUME Inv, NEW w \in Walks, Register(w)
  PROVE  Inv'
<1> DEFINE c == Create(w)
<1>1. /\ c \in Creates /\ c \in ServiceRequests /\ c[1] = w
      /\ Exchanges \cup ApRequests \subseteq ServiceRequests \ {c}
      /\ KdcRequests \subseteq (KdcRequests \cup ServiceRequests) \ {c}
  BY DEF Create, Exchanges, ServiceRequests, Creates, ApRequests, KdcRequests
<1>2. /\ pc[c] = "idle"
      /\ \E e \in {<<w, "dh">>} : input' = [input EXCEPT ![c] =
           [username |-> w, realm |-> Realm, password |-> [key |-> e, payload |-> Password]]]
      /\ pc' = [pc EXCEPT ![c] = "dh.get"] /\ status' = status
      /\ UNCHANGED <<clock, keytab, saved, users, kdcPc, kdcStatus, reply, root, checkedAt>>
  BY DEF Register, Create, R!PostCreate, R!KnownRealm, R!Await, R!redis, ByRegistration, kdc,
     stamps
<1>3. Tables' /\ Policy'
  BY <1>2 DEF Inv, Tables, Policy, K!Names, R!Names
<1>4. Ways'
  BY <1>1, <1>2 DEF Inv, Ways, Tables
<1>5. \A v \in Walks \ {w} : Unmoved(v)
  BY <1>1, <1>2, SendingUnmoved
<1>6. status[c] = "Pending" /\ AsIdle(w)
  BY <1>2, InOrder DEF Inv, OfWalk, OfCreate
<1>7. OfCreate(w)'
  BY <1>1, <1>2, <1>6 DEF OfCreate, Inv, Tables
<1>8. AsIdle(w)'
  <2>1. \A leg \in ApLegs : <<w, leg>> \in ServiceRequests \ {c}
    BY <1>1, RequestsOfWalk
  <2>2. QED
    BY <1>2, <1>6, <2>1 DEF AsIdle, TgsIdle, ApIdle
<1>9. OfAs(w)' /\ OfTgs(w)' /\ \A leg \in ApLegs : OfAp(w, leg)'
  <2>1. OfAs(w)'
    BY <1>8 DEF AsIdle, OfAs, Shaping
  <2>2. OfTgs(w)'
    BY <1>8 DEF AsIdle, TgsIdle, OfTgs, Shaping
  <2>3. ASSUME NEW leg \in ApLegs
        PROVE  OfAp(w, leg)'
    BY <1>8 DEF AsIdle, TgsIdle, ApIdle, OfAp
  <2>4. QED
    BY <2>1, <2>2, <2>3
<1>10. QED
  BY <1>3, <1>4, <1>5, <1>7, <1>9, WalksKeep DEF OfWalk

LEMMA AskTgtKeeps ==
  ASSUME Inv, NEW w \in Walks, AskTgt(w)
  PROVE  Inv'
<1> DEFINE r == As(w)
<1>1. /\ r \in KdcRequests /\ r[1] = w /\ Tgs(w) \in KdcRequests \ {r}
      /\ ServiceRequests \subseteq (KdcRequests \cup ServiceRequests) \ {r}
      /\ Create(w) \in (KdcRequests \cup ServiceRequests) \ {r}
  BY DEF As, Tgs, Create, Exchanges, ServiceRequests, Creates, ApRequests, KdcRequests
<1>2. /\ kdcPc[r] = "idle" /\ status[Create(w)] = "Created"
      /\ kdcPc' = [kdcPc EXCEPT ![r] = "as.userKey"]
      /\ input' = [input EXCEPT ![r] =
           [exchange |-> "AS", realm |-> Realm, ip |-> Here, username |-> w,
            serviceName |-> Target, requestedLifetime |-> RequestedLifetime,
            preAuth |-> Authenticator(w, ClientKey(w))]]
      /\ UNCHANGED <<clock, keytab, saved, users, pc, status, kdcStatus, reply, root, checkedAt>>
  BY DEF AskTgt, As, Create, Continues, Good, Expected, K!PostAs, K!Await, K!redis, K!held,
     K!history, ByKdc, service
<1>3. /\ input'[r].exchange = "AS" /\ input'[r].realm = Realm
      /\ input'[r].preAuth.key = ClientKey(w)
      /\ input'[r].requestedLifetime = RequestedLifetime
  BY <1>1, <1>2 DEF Inv, Tables, Authenticator, Encrypt
<1>4. Tables' /\ Policy' /\ Ways'
  BY <1>2 DEF Inv, Tables, Policy, Ways, K!Names, R!Names
<1>5. \A v \in Walks \ {w} : Unmoved(v)
  BY <1>1, <1>2, SendingUnmoved
<1>6. OfWalk(w) /\ kdcStatus[r] = "Pending" /\ TgsIdle(w)
  BY <1>2, InOrder DEF Inv, OfWalk, OfAs
<1>7. OfCreate(w)'
  <2>1. input'[Create(w)] = input[Create(w)]
    BY <1>1, <1>2
  <2>2. QED
    BY <1>2, <1>6, <2>1 DEF OfWalk, OfCreate, ClientKey, R!String2Key
<1>8. OfAs(w)'
  BY <1>1, <1>2, <1>3, <1>6 DEF OfAs, Inv, Tables, Shaping, ClientKey, R!String2Key
<1>9. OfTgs(w)'
  BY <1>1, <1>2, <1>6 DEF TgsIdle, OfTgs, Shaping
<1>10. ASSUME NEW leg \in ApLegs
       PROVE  OfAp(w, leg)'
  BY <1>2, <1>6 DEF TgsIdle, ApIdle, OfAp
<1>11. QED
  BY <1>4, <1>5, <1>7, <1>8, <1>9, <1>10, WalksKeep DEF OfWalk

LEMMA AskTicketKeeps ==
  ASSUME Inv, NEW w \in Walks, AskTicket(w)
  PROVE  Inv'
<1> DEFINE r == Tgs(w)
<1>1. /\ r \in KdcRequests /\ r[1] = w /\ As(w) \in KdcRequests \ {r}
      /\ ServiceRequests \subseteq (KdcRequests \cup ServiceRequests) \ {r}
      /\ {As(w), Create(w)} \subseteq (KdcRequests \cup ServiceRequests) \ {r}
  BY DEF As, Tgs, Create, Exchanges, ServiceRequests, Creates, ApRequests, KdcRequests
<1>2. /\ kdcPc[r] = "idle" /\ kdcStatus[As(w)] = "Ok"
      /\ kdcPc' = [kdcPc EXCEPT ![r] = "tgs.target"]
      /\ \E key \in {reply[As(w)].challenge.payload.sessionKey} : input' = [input EXCEPT ![r] =
           [exchange |-> "TGS", realm |-> Realm, ip |-> Here, id |-> Target,
            requestedLifetime |-> RequestedLifetime, tgt |-> reply[As(w)].ticket,
            authenticator |-> [key |-> key, payload |-> [username |-> w, timestamp |-> clock]]]]
      /\ UNCHANGED <<clock, keytab, saved, users, pc, status, kdcStatus, reply, root, checkedAt>>
  BY DEF AskTicket, As, Tgs, Continues, Good, Expected, K!PostTgs, K!Encrypt, K!Await, K!redis,
     K!held, K!history, ByKdc, service
<1>3. /\ input'[r].exchange = "TGS" /\ input'[r].realm = Realm
      /\ input'[r].tgt = reply[As(w)].ticket
      /\ input'[r].authenticator.payload.username = w
      /\ input'[r].requestedLifetime = RequestedLifetime
  BY <1>1, <1>2 DEF Inv, Tables
<1>4. Tables' /\ Policy' /\ Ways'
  BY <1>2 DEF Inv, Tables, Policy, Ways, K!Names, R!Names
<1>5. \A v \in Walks \ {w} : Unmoved(v)
  BY <1>1, <1>2, SendingUnmoved
<1>6. OfWalk(w) /\ kdcStatus[r] = "Pending" /\ ApIdle(w)
  BY <1>2, InOrder DEF Inv, OfWalk, OfTgs
<1>7. /\ input'[Create(w)] = input[Create(w)] /\ input'[As(w)] = input[As(w)]
      /\ kdcPc'[As(w)] = kdcPc[As(w)]
  BY <1>1, <1>2
<1>8. OfCreate(w)'
  BY <1>2, <1>6, <1>7 DEF OfWalk, OfCreate, ClientKey, R!String2Key
<1>9. OfAs(w)'
  BY <1>2, <1>6, <1>7 DEF OfWalk, OfAs, Shaping, K!Issued, ClientKey, R!String2Key
<1>10. OfTgs(w)'
  BY <1>1, <1>2, <1>3, <1>6 DEF OfTgs, Inv, Tables, Shaping
<1>11. ASSUME NEW leg \in ApLegs
       PROVE  OfAp(w, leg)'
  BY <1>2, <1>6 DEF ApIdle, OfAp
<1>12. QED
  BY <1>4, <1>5, <1>8, <1>9, <1>10, <1>11, WalksKeep DEF OfWalk

\* Whichever ticket the client presents, altered or not, carries what the TGS
\* issued.
LEMMA PostApKeeps ==
  ASSUME Inv, NEW w \in Walks, NEW leg \in ApLegs, NEW ticket, NEW authenticator,
         kdcStatus[Tgs(w)] = "Ok", ticket.payload = K!Issued(Tgs(w)),
         PostAp(w, leg, ticket, authenticator)
  PROVE  Inv'
<1> DEFINE r == <<w, leg>>
<1>1. /\ r \in ApRequests /\ r \in ServiceRequests /\ r[1] = w
      /\ Exchanges \cup Creates \subseteq ServiceRequests \ {r}
      /\ KdcRequests \subseteq (KdcRequests \cup ServiceRequests) \ {r}
      /\ Create(w) \in ServiceRequests \ {r}
      /\ As(w) \in KdcRequests /\ Tgs(w) \in KdcRequests
  BY DEF ApLegs, As, Tgs, Create, Exchanges, ServiceRequests, Creates, ApRequests, KdcRequests
<1>2. /\ pc[r] = "idle" /\ pc' = [pc EXCEPT ![r] = "lookup"]
      /\ input' = [input EXCEPT ![r] =
           [realm |-> Realm, ip |-> Here, serviceTicket |-> ticket,
            authenticator |-> authenticator]]
      /\ UNCHANGED <<clock, keytab, saved, users, status, kdcPc, kdcStatus, reply, root, checkedAt>>
  BY DEF PostAp, T!Post, T!redis, ByTickets, kdc
<1>3. T!ServiceTicket(r)' = K!Issued(Tgs(w))'
  BY <1>1, <1>2 DEF T!ServiceTicket, K!Issued, Inv, Tables
<1>4. Tables' /\ Policy'
  BY <1>2 DEF Inv, Tables, Policy, K!Names, R!Names
<1>5. Ways'
  BY <1>1, <1>2 DEF Inv, Ways, Tables
<1>6. \A v \in Walks \ {w} : Unmoved(v)
  BY <1>1, <1>2, SendingUnmoved
<1>7. OfWalk(w) /\ status[r] = "Pending"
  BY <1>2 DEF Inv, OfWalk, OfAp
<1>8. /\ \A q \in {Create(w), As(w), Tgs(w)} : input'[q] = input[q]
      /\ pc'[Create(w)] = pc[Create(w)]
  BY <1>1, <1>2
<1>9. OfCreate(w)'
  BY <1>2, <1>7, <1>8 DEF OfWalk, OfCreate, ClientKey, R!String2Key
<1>10. OfAs(w)'
  BY <1>2, <1>7, <1>8 DEF OfWalk, OfAs, K!Issued, ClientKey, R!String2Key
<1>11. OfTgs(w)'
  BY <1>2, <1>7, <1>8 DEF OfWalk, OfTgs, K!Issued
<1>12. ASSUME NEW l \in ApLegs
       PROVE  OfAp(w, l)'
  <2>1. CASE l = leg
    BY <1>1, <1>2, <1>3, <1>7, <2>1 DEF OfAp, Inv, Tables
  <2>2. CASE l # leg
    <3>1. <<w, l>> \in ServiceRequests \ {r} /\ <<w, l>> \in (KdcRequests \cup ServiceRequests) \ {r}
      BY <2>2, RequestsOfWalk DEF ServiceRequests
    <3>2. pc'[<<w, l>>] = pc[<<w, l>>] /\ input'[<<w, l>>] = input[<<w, l>>]
      BY <1>2, <3>1
    <3>3. QED
      BY <1>2, <1>7, <3>2 DEF OfWalk, OfAp, K!Issued, T!ServiceTicket, T!Auth
  <2>3. QED
    BY <2>1, <2>2
<1>13. QED
  BY <1>4, <1>5, <1>6, <1>9, <1>10, <1>11, <1>12, WalksKeep DEF OfWalk

LEMMA ApLegsKeep ==
  ASSUME Inv, NEW w \in Walks, Present(w) \/ Replay(w) \/ Tamper(w)
  PROVE  Inv'
<1>1. OfWalk(w) /\ OfTgs(w)
  BY DEF Inv, OfWalk
<1>2. kdcStatus[Tgs(w)] = "Ok"
  <2>1. CASE Present(w)
    BY <2>1 DEF Present, Continues, Good, Expected, Tgs
  <2>2. CASE Replay(w)
    <3>1. status[<<w, "ap">>] = "Accepted"
      BY <2>2 DEF Replay, Continues, Good, Expected
    <3>2. QED
      BY <1>1, <3>1 DEF OfWalk, OfAp, ApLegs
  <2>3. CASE Tamper(w)
    <3>1. status[<<w, "again">>] \in {"Unauthorized", "AlreadyUsed"}
      BY <2>3 DEF Tamper, Continues, Good, Expected
    <3>2. QED
      BY <1>1, <3>1 DEF OfWalk, OfAp, ApLegs
  <2>4. QED
    BY <2>1, <2>2, <2>3
<1>3. PICK leg \in ApLegs, ticket \in Tampered(Reply(w, "tgs").ticket) :
        \E authenticator : PostAp(w, leg, ticket, authenticator)
  BY DEF Present, Replay, Tamper, Tampered, ApLegs
<1>4. ticket.payload = K!Issued(Tgs(w))
  <2>1. Reply(w, "tgs").ticket = reply[Tgs(w)].ticket
    BY DEF Reply, Tgs
  <2>2. "payload" \in DOMAIN reply[Tgs(w)].ticket
    BY <1>1, <1>2 DEF OfTgs
  <2>3. QED
    BY <2>1, <2>2 DEF Tampered, K!Issued
<1>5. QED
  BY <1>2, <1>3, <1>4, PostApKeeps

-----------------------------------------------------------------------------
(* The invariant. *)

LEMMA Initially == Init => Inv
<1> SUFFICES ASSUME Init
             PROVE  Inv
  OBVIOUS
<1> USE DEF Init
<1>1. Tables
  BY DEF Tables
<1>2. Policy
  <2>1. /\ "interval" \in K!Names
        /\ DOMAIN K!FullKeytab = K!Names \X {Realm} /\ DOMAIN K!EmptyKeytab = K!Names \X {Realm}
    BY DEF K!FullKeytab, K!EmptyKeytab, K!Names
  <2>2. K!FullKeytab[<<"interval", Realm>>] = LifetimeInterval
    BY <2>1 DEF K!FullKeytab, K!Seeded
  <2>3. K!EmptyKeytab[<<"interval", Realm>>] = None
    BY <2>1 DEF K!EmptyKeytab
  <2>4. QED
    BY <2>1, <2>2, <2>3 DEF Policy, Cleared
<1>3. Ways
  BY DEF Ways, ServiceRequests
<1>4. ASSUME NEW w \in Walks
      PROVE  OfWalk(w)
  <2>1. AsIdle(w)
    BY RequestsOfWalk DEF AsIdle, TgsIdle, ApIdle, ServiceRequests
  <2>2. OfCreate(w)
    BY RequestsOfWalk DEF OfCreate, ServiceRequests
  <2>3. QED
    BY <2>1, <2>2, IdleIsOf DEF OfWalk
<1>5. QED
  BY <1>1, <1>2, <1>3, <1>4 DEF Inv

LEMMA NextKeeps ==
  ASSUME Inv, [Next]_vars
  PROVE  Inv'
<1>1. CASE Tick \/ Snapshot \/ RedisRestart \/ UNCHANGED vars \/ \E w \in Walks : End(w)
  <2>1. /\ UNCHANGED <<users, pc, status, kdcPc, kdcStatus, reply, root, input, checkedAt>>
        /\ clock' \in Nat
    BY <1>1 DEF Tick, Snapshot, RedisRestart, End, vars, redis, service, kdc, stamps, client,
       Inv, Tables
  <2>2. Policy'
    BY <1>1 DEF Tick, Snapshot, RedisRestart, End, vars, redis, Inv, Policy, K!Names
  <2>3. QED
    BY <2>1, <2>2, QuietKeeps
<1>2. CASE KdcRestart
  BY <1>2, KdcRestartKeeps DEF KdcRestart
<1>3. CASE Fail
  BY <1>3, KdcKeeps, TicketsKeep, ExchangesKeep, CreatesKeep DEF Fail
<1>4. ASSUME NEW w \in Walks, Main(w) \/ Expire(w)
      PROVE  Inv'
  <2>1. CASE End(w)
    BY <1>1, <2>1
  <2>2. QED
    BY <1>4, <2>1, KeyExchangeKeeps, RegisterKeeps, AskTgtKeeps, AskTicketKeeps, ApLegsKeep,
       ExpireKeeps DEF Main
<1>5. ASSUME NEW r \in KdcRequests, ServeKdc(r)
      PROVE  Inv'
  BY <1>5, KdcKeeps DEF ServeKdc
<1>6. ASSUME NEW r \in ApRequests, ServeTickets(r)
      PROVE  Inv'
  BY <1>6, TicketsKeep DEF ServeTickets
<1>7. ASSUME NEW r \in Exchanges \cup Creates, ServeRegistration(r)
      PROVE  Inv'
  <2>1. Exchanges \cap Creates = {}
    BY DEF Exchanges, Creates
  <2>2. QED
    BY <1>7, <2>1, ExchangesKeep, CreatesKeep DEF ServeRegistration
<1>8. QED
  BY <1>1, <1>2, <1>3, <1>4, <1>5, <1>6, <1>7 DEF Next

\* Whatever is lost, restarted or late: a request that the service accepts was
\* made with a ticket that the TGS issued for one of the AS, the AS opened the
\* pre-authenticator with the key that PostgreSQL holds for the user's name, and
\* the service checked the request within what the AS granted
\* (AsService, TgsService, TicketsManagerService and UserService together).
THEOREM AcceptedWithinGrantHolds == Spec => []AcceptedWithinGrant
<1>1. Init => Inv
  BY Initially
<1>2. Inv /\ [Next]_vars => Inv'
  BY NextKeeps
<1>3. Inv => AcceptedWithinGrant
  BY InvImplies
<1>4. QED
  BY <1>1, <1>2, <1>3, PTL DEF Spec

-----------------------------------------------------------------------------
(* Types: what is in the stores, what was posted and what was replied. *)

USE BodyAssumption

ClientKeys == {ClientKey(w) : w \in Walks}
SeedKeys == [principal: Principals, realm: {Realm}]

\* TypeOK in parts: what Redis and PostgreSQL hold ...
Stored ==
  /\ KeytabOK(keytab) /\ KeytabOK(saved.keytab)
  /\ replay \in [T!ReplayKeys -> Nat] /\ saved.replay \in [T!ReplayKeys -> Nat]
  /\ users \in [R!Names -> ClientKeys \cup {None}]

\* ... what was posted ...
Posted ==
  /\ DOMAIN input = KdcRequests \cup ServiceRequests
  /\ \A r \in KdcRequests : input[r] \in AsBody \cup TgsBody \cup {None}
  /\ \A r \in ApRequests : input[r] \in ApBody \cup {None}
  /\ \A r \in Creates : input[r] \in R!CreateUser \cup {None}
  /\ \A r \in Exchanges : input[r] \in Walks \cup {None}
  /\ \A r \in KdcRequests : (kdcPc[r] = "idle") = (input[r] = None)
  /\ \A r \in ServiceRequests : (pc[r] = "idle") = (input[r] = None)

\* ... what it was answered, and the keys read on the way ...
Replied ==
  /\ status \in [ServiceRequests -> T!Statuses \cup R!Statuses]
  /\ kdcStatus \in [KdcRequests -> K!Statuses]
  /\ userKey \in [KdcRequests -> ClientKeys \cup {None}]
  /\ ticketKey \in [KdcRequests -> SeedKeys \cup {None}]
  /\ reply \in [KdcRequests -> Replies \cup {None}]
  /\ \A r \in KdcRequests : (kdcStatus[r] = "Ok") = (reply[r] # None)

\* ... and where the walks are.
Walking ==
  /\ at \in [Walks -> Legs \cup {"start", "completed", "failed"}]
  /\ started \in [Walks -> 0 .. clock]
  /\ clock \in 1 .. MaxClock

LEMMA TypeParts == TypeOK /\ clock \in 1 .. MaxClock <=> Stored /\ Posted /\ Replied /\ Walking
BY DEF TypeOK, Stored, Posted, Replied, Walking, ClientKeys, SeedKeys

LEMMA NoneApart ==
  /\ None \notin ClientKeys /\ None \notin SeedKeys /\ None \notin Replies
  /\ None \notin Walks \cup R!CreateUser \cup AsBody \cup TgsBody \cup ApBody
  /\ LifetimeInterval # None
BY DEF ClientKeys, SeedKeys, ClientKey, R!String2Key

-----------------------------------------------------------------------------
(* Steps of the KDC. *)

\* What a request of the KDC carries once it is posted.
LEMMA KdcInput ==
  ASSUME Inv, Posted, NEW w \in Walks
  PROVE  /\ kdcPc[As(w)] # "idle" => input[As(w)] \in AsBody
         /\ kdcPc[Tgs(w)] # "idle" => input[Tgs(w)] \in TgsBody
<1>1. As(w) \in KdcRequests /\ Tgs(w) \in KdcRequests
  BY RequestsOfWalk
<1>2. \A r \in KdcRequests : kdcPc[r] # "idle" => input[r] \in AsBody \cup TgsBody
  BY DEF Posted
<1>3. /\ kdcPc[As(w)] # "idle" => input[As(w)].exchange = "AS"
      /\ kdcPc[Tgs(w)] # "idle" => input[Tgs(w)].exchange = "TGS"
  BY DEF Inv, OfWalk, OfAs, OfTgs
<1>4. /\ \A b \in AsBody : b.exchange = "AS"
      /\ \A b \in TgsBody : b.exchange = "TGS"
  BY DEF AsBody, TgsBody
<1>5. QED
  BY <1>1, <1>2, <1>3, <1>4

\* The keys that a request of the KDC reads are those of a user or a principal.
LEMMA KdcReads ==
  ASSUME Inv, Stored, Posted, NEW r \in KdcRequests, kdcPc[r] # "idle"
  PROVE  /\ input[r] \in AsBody =>
              K!Entry(input[r].username, input[r].realm) \in ClientKeys \cup {None}
         /\ K!Entry(K!Principal(r), input[r].realm) \in SeedKeys \cup {None}
         /\ K!Principal(r) \in Principals
<1>1. input[r] \in AsBody \/ input[r] \in TgsBody
  BY DEF Posted
<1>2. input[r].realm = Realm /\ K!Principal(r) \in Principals
  BY <1>1 DEF AsBody, TgsBody, K!Principal, K!TGS_PRINCIPAL
<1>3. input[r] \in AsBody => input[r].username \in Walks
  BY DEF AsBody
<1>4. \A w \in Walks : keytab[<<w, Realm>>] \in ClientKeys \cup {None}
  BY DEF Stored, KeytabOK, ClientKeys
<1>5. \A p \in Principals : keytab[<<p, Realm>>] \in SeedKeys \cup {None}
  <2>1. \A p \in Principals : PrincipalKey(p, Realm) \in SeedKeys
    BY DEF SeedKeys, PrincipalKey
  <2>2. QED
    BY <2>1 DEF Stored, KeytabOK
<1>6. QED
  BY <1>2, <1>3, <1>4, <1>5 DEF K!Entry

LEMMA SetNXKeepsType ==
  ASSUME NEW store \in [T!ReplayKeys -> Nat], NEW key, NEW now \in Nat
  PROVE  /\ K!SetNX(store, key, now) \in [T!ReplayKeys -> Nat]
         /\ T!SetNX(store, key, now) \in [T!ReplayKeys -> Nat]
<1>1. now + SKEW_MS \in Nat
  OBVIOUS
<1>2. [store EXCEPT ![key] = now + SKEW_MS] \in [T!ReplayKeys -> Nat]
  BY <1>1
<1>3. QED
  BY <1>2 DEF K!SetNX, T!SetNX

\* What is posted and stored does not depend on the state.
LEMMA Fixed ==
  /\ ClientKeys' = ClientKeys /\ SeedKeys' = SeedKeys /\ Replies' = Replies
  /\ AsBody' = AsBody /\ TgsBody' = TgsBody /\ ApBody' = ApBody
  /\ R!CreateUser' = R!CreateUser /\ R!Names' = R!Names
  /\ R!Statuses' = R!Statuses /\ T!Statuses' = T!Statuses /\ K!Statuses' = K!Statuses
  /\ T!ReplayKeys' = T!ReplayKeys
  /\ Legs' = Legs
BY DEF ClientKeys, SeedKeys, Replies, AsBody, TgsBody, ApBody, R!CreateUser, R!Names, R!Statuses,
   T!Statuses, K!Statuses, T!ReplayKeys, Legs, Sealed, ClientKey, R!String2Key, K!SessionKeys,
   K!Authenticator, K!Ticket, K!Challenge, K!Names, SessionKey

LEMMA StoredFrame ==
  ASSUME Stored, UNCHANGED <<keytab, saved, users>>, replay' \in [T!ReplayKeys -> Nat]
  PROVE  Stored'
BY Fixed DEF Stored, KeytabOK, K!Names, ClientKey, R!String2Key

LEMMA PostedFrame ==
  ASSUME Posted, UNCHANGED input,
         \A r \in KdcRequests : (kdcPc'[r] = "idle") = (kdcPc[r] = "idle"),
         \A r \in ServiceRequests : (pc'[r] = "idle") = (pc[r] = "idle")
  PROVE  Posted'
BY Fixed DEF Posted

LEMMA RepliedFrame ==
  ASSUME Replied, UNCHANGED <<status, kdcStatus, userKey, ticketKey, reply>>
  PROVE  Replied'
BY Fixed DEF Replied

LEMMA WalkingFrame ==
  ASSUME Walking, UNCHANGED <<at, started, clock>>
  PROVE  Walking'
BY DEF Walking, Legs

\* What an answer leaves of the types: the reply comes with the "Ok".
LEMMA KdcAnswered ==
  ASSUME Replied, NEW r \in KdcRequests, NEW code \in K!Statuses \ {"Ok"},
         kdcStatus[r] # "Ok", kdcStatus' = [kdcStatus EXCEPT ![r] = code],
         UNCHANGED <<status, userKey, ticketKey, reply>>
  PROVE  Replied'
<1>1. kdcStatus' \in [KdcRequests -> K!Statuses]
  BY DEF Replied
<1>2. \A q \in KdcRequests : (kdcStatus'[q] = "Ok") = (kdcStatus[q] = "Ok")
  BY DEF Replied
<1>3. QED
  BY <1>1, <1>2, Fixed DEF Replied

\* Minting: the body of the reply is one that the script can open.
LEMMA KdcMints ==
  ASSUME Inv, Stored, Posted, Replied, NEW r \in KdcRequests, NEW w \in Walks,
         r = As(w) \/ r = Tgs(w), K!Shape(r), kdcPc[r] # "idle"
  PROVE  \E body \in Replies : reply' = [reply EXCEPT ![r] = body]
<1> DEFINE payload == [principal |-> K!Principal(r), lifetime |-> K!ExpiresAt(r),
                       sessionKey |-> K!SessionKey(r)]
           user == IF input[r].exchange = "AS" THEN input[r].username ELSE K!Auth(r).username
           ticket == [principal |-> K!Principal(r), lifetime |-> K!ExpiresAt(r),
                      sessionKey |-> K!SessionKey(r), username |-> user, ip |-> input[r].ip]
<1>1. \/ r = As(w) /\ input[r] \in AsBody
      \/ r = Tgs(w) /\ input[r] \in TgsBody
  BY KdcInput
<1>2. K!Entry("interval", input[r].realm) = LifetimeInterval
  <2>1. input[r].realm = Realm
    BY <1>1 DEF AsBody, TgsBody
  <2>2. keytab[<<"interval", Realm>>] # None
    BY <2>1 DEF K!Shape, K!Shapeable, K!Entry
  <2>3. QED
    BY <2>1, <2>2 DEF K!Entry, Stored, KeytabOK
<1>3. K!Principal(r) \in K!Names
  BY KdcReads DEF K!Names
<1>4. K!SessionKey(r) \in K!SessionKeys
  BY DEF K!SessionKeys, K!SessionKey
<1>5. user \in Walks /\ input[r].ip = Here
  BY <1>1 DEF AsBody, TgsBody, K!Auth, Sealed, K!Authenticator
<1>6. K!ExpiresAt(r) \in Nat
  <2>1. clock + K!GetLifetime(input[r].requestedLifetime, LifetimeInterval) \in Nat
    <3>1. input[r].requestedLifetime = RequestedLifetime
      BY <1>1 DEF AsBody, TgsBody
    <3>2. QED
      BY <3>1, LifetimeIsNat DEF Inv, Tables
  <2>2. input[r].exchange # "AS" => K!Tgt(r).lifetime \in Nat
    BY <1>1 DEF AsBody, TgsBody, K!Tgt, Sealed, K!Ticket
  <2>3. QED
    BY <1>2, <2>1, <2>2 DEF K!ExpiresAt, K!Lesser
<1>7. ticket \in K!Ticket /\ payload \in K!Challenge
  BY <1>3, <1>4, <1>5, <1>6 DEF K!Ticket, K!Challenge
<1> DEFINE keys == [principal: Principals, realm: {Realm}] \cup {ClientKey(v) : v \in Walks}
                     \cup K!SessionKeys \cup {None}
<1>8. ticketKey[r] \in keys /\ K!ClientKey(r) \in keys
  <2>1. ticketKey[r] \in keys
    BY DEF Replied, SeedKeys
  <2>2. input[r].exchange = "AS" => K!ClientKey(r) \in keys
    BY DEF K!ClientKey, Replied, ClientKeys
  <2>3. input[r].exchange # "AS" => K!ClientKey(r) \in keys
    BY <1>1 DEF K!ClientKey, AsBody, TgsBody, K!Tgt, Sealed, K!Ticket
  <2>4. QED
    BY <2>1, <2>2, <2>3
<1>9. reply' = [reply EXCEPT ![r] = [ticket |-> [key |-> ticketKey[r], payload |-> ticket],
                                     challenge |-> [key |-> K!ClientKey(r), payload |-> payload]]]
  BY DEF K!Shape, K!Encrypt
<1>10. /\ [key |-> ticketKey[r], payload |-> ticket] \in Sealed(K!Ticket)
       /\ [key |-> K!ClientKey(r), payload |-> payload] \in Sealed(K!Challenge)
  BY <1>7, <1>8 DEF Sealed
<1>11. QED
  BY <1>9, <1>10 DEF Replies

LEMMA KdcReplies ==
  ASSUME Inv, Stored, Posted, Replied, NEW r \in KdcRequests, K!Serve(r) \/ K!Fail(r), ByKdc
  PROVE  Replied'
<1>1. PICK w \in Walks : r = As(w) \/ r = Tgs(w)
  BY DEF KdcRequests, As, Tgs
<1>2. /\ OfAs(w) /\ OfTgs(w) /\ kdcPc[r] \notin {"idle", "done"}
      /\ UNCHANGED <<clock, input, keytab, status>>
  BY KdcFrame DEF Inv, OfWalk
<1>3. kdcStatus[r] # "Ok" /\ reply[r] = None
  BY <1>1, <1>2 DEF OfAs, OfTgs, Replied
<1>4. CASE \/ K!RefusePreAuth(r) \/ K!RefuseTarget(r) \/ K!RefuseTgt(r) \/ K!RefuseReplay(r)
           \/ K!RefusePrincipal(r) \/ K!FailToShape(r) \/ K!Fail(r)
  <2>1. PICK code \in {"BadRequest", "NotFound", "Unauthorized", "AlreadyUsed", "InternalError",
                       "Failed"} : K!Answer(r, code) /\ UNCHANGED K!held
    BY <1>4 DEF K!RefusePreAuth, K!RefuseTarget, K!RefuseTgt, K!RefuseReplay, K!RefusePrincipal,
       K!FailToShape, K!Fail, K!Throw
  <2>2. code \in K!Statuses \ {"Ok"}
    BY DEF K!Statuses
  <2>3. QED
    BY <1>2, <1>3, <2>1, <2>2, KdcAnswered DEF K!Answer, K!held
<1>5. CASE K!GetUserKey(r)
  <2>1. input[r] \in AsBody
    BY <1>1, <1>2, <1>5, KdcInput DEF K!GetUserKey, OfTgs, Shaping
  <2>2. /\ userKey' = [userKey EXCEPT ![r] = K!Entry(input[r].username, input[r].realm)]
        /\ UNCHANGED <<ticketKey, reply, kdcStatus>>
    BY <1>5 DEF K!GetUserKey
  <2>3. userKey' \in [KdcRequests -> ClientKeys \cup {None}]
    BY <1>2, <2>1, <2>2, KdcReads DEF Replied
  <2>4. QED
    BY <1>2, <2>2, <2>3, Fixed DEF Replied
<1>6. CASE K!GetTicketKey(r)
  <2>1. /\ ticketKey' = [ticketKey EXCEPT ![r] = K!Entry(K!Principal(r), input[r].realm)]
        /\ UNCHANGED <<userKey, reply, kdcStatus>>
    BY <1>6 DEF K!GetTicketKey
  <2>2. ticketKey' \in [KdcRequests -> SeedKeys \cup {None}]
    BY <1>2, <2>1, KdcReads DEF Replied
  <2>3. QED
    BY <1>2, <2>1, <2>2, Fixed DEF Replied
<1>7. CASE K!Authenticate(r) \/ K!FindTarget(r) \/ K!Admit(r) \/ K!GenerateTicket(r)
  BY <1>2, <1>7, RepliedFrame DEF K!Authenticate, K!FindTarget, K!Admit, K!GenerateTicket, K!held
<1>8. CASE K!Shape(r)
  <2>1. PICK body \in Replies : reply' = [reply EXCEPT ![r] = body]
    BY <1>1, <1>2, <1>8, KdcMints
  <2>2. /\ kdcStatus' = [kdcStatus EXCEPT ![r] = "Ok"]
        /\ UNCHANGED <<userKey, ticketKey>>
    BY <1>8 DEF K!Shape, K!Answer
  <2>3. /\ reply' \in [KdcRequests -> Replies \cup {None}]
        /\ kdcStatus' \in [KdcRequests -> K!Statuses]
    BY <2>1, <2>2 DEF Replied, K!Statuses
  <2>4. \A q \in KdcRequests : (kdcStatus'[q] = "Ok") = (reply'[q] # None)
    BY <2>1, <2>2, NoneApart DEF Replied
  <2>5. QED
    BY <1>2, <2>2, <2>3, <2>4, Fixed DEF Replied
<1>9. QED
  BY <1>4, <1>5, <1>6, <1>7, <1>8 DEF K!Serve

\* A request records an authenticator, or leaves the cache alone.
LEMMA KdcRecords ==
  ASSUME Inv, Stored, NEW r \in KdcRequests, K!Serve(r) \/ K!Fail(r)
  PROVE  replay' \in [T!ReplayKeys -> Nat]
<1>1. K!Recorded(r) \/ UNCHANGED replay
  BY DEF K!Serve, K!RefusePreAuth, K!RefuseTarget, K!RefuseTgt, K!RefuseReplay,
     K!RefusePrincipal, K!FailToShape, K!Fail, K!Throw, K!GetUserKey, K!GetTicketKey,
     K!Authenticate, K!FindTarget, K!Admit, K!GenerateTicket, K!Shape, K!redis
<1>2. clock \in Nat
  BY DEF Inv, Tables
<1>3. QED
  BY <1>1, <1>2, SetNXKeepsType, Fixed DEF K!Recorded, Stored

LEMMA KdcTypes ==
  ASSUME Inv, Stored, Posted, Replied, Walking, NEW r \in KdcRequests, K!Serve(r) \/ K!Fail(r),
         ByKdc, UNCHANGED client
  PROVE  Stored' /\ Posted' /\ Replied' /\ Walking'
<1>1. /\ UNCHANGED <<clock, input, keytab, saved, pc, users>>
      /\ kdcPc[r] \notin {"idle", "done"} /\ kdcPc'[r] # "idle"
      /\ \A q \in KdcRequests \ {r} : kdcPc'[q] = kdcPc[q]
  BY KdcFrame, KdcMoves DEF Refused, Forward, Minted
<1>2. Stored'
  BY <1>1, KdcRecords, StoredFrame
<1>3. Posted'
  BY <1>1, PostedFrame
<1>4. Walking'
  BY <1>1, WalkingFrame DEF client
<1>5. QED
  BY <1>2, <1>3, <1>4, KdcReplies

LEMMA KdcRestartTypes ==
  ASSUME Inv, Stored, Posted, Replied, Walking, KdcRestart
  PROVE  Stored' /\ Posted' /\ Replied' /\ Walking'
<1>1. /\ UNCHANGED <<clock, replay, saved, input, users, pc, status, userKey, ticketKey, reply,
                     at, started>>
      /\ kdcPc' = [r \in KdcRequests |-> IF kdcPc[r] = "idle" THEN "idle" ELSE "done"]
      /\ kdcStatus' = [r \in KdcRequests |->
           IF kdcPc[r] \in {"idle", "done"} THEN kdcStatus[r] ELSE "Failed"]
      /\ keytab' = [e \in K!Names \X {Realm} |->
           IF e[1] \in Principals \cup {"interval"} THEN K!Seeded(e[1], e[2]) ELSE keytab[e]]
  BY DEF KdcRestart, K!KdcRestart, K!held, K!history, ByKdc, service, client
<1>2. KeytabOK(keytab')
  <2>1. \A n \in K!Names : keytab'[<<n, Realm>>] =
          IF n \in Principals \cup {"interval"} THEN K!Seeded(n, Realm) ELSE keytab[<<n, Realm>>]
    BY <1>1
  <2>2. Principals \cup Walks \cup {"interval"} = K!Names
    BY DEF K!Names
  <2>3. \A w \in Walks : keytab'[<<w, Realm>>] = keytab[<<w, Realm>>]
    BY <2>1, <2>2
  <2>4. \A p \in Principals : keytab'[<<p, Realm>>] = PrincipalKey(p, Realm)
    BY <2>1, <2>2 DEF K!Seeded, K!PrincipalKey, PrincipalKey
  <2>5. keytab'[<<"interval", Realm>>] = LifetimeInterval
    BY <2>1, <2>2 DEF K!Seeded
  <2>6. QED
    BY <1>1, <2>3, <2>4, <2>5 DEF Stored, KeytabOK
<1>3. Stored'
  BY <1>1, <1>2, Fixed DEF Stored, KeytabOK, K!Names, ClientKey, R!String2Key
<1>4. Posted'
  BY <1>1, PostedFrame
<1>5. \A r \in KdcRequests : kdcPc[r] \notin {"idle", "done"} => kdcStatus[r] # "Ok"
  <2>1. \A r \in KdcRequests : \E w \in Walks : r = As(w) \/ r = Tgs(w)
    BY DEF KdcRequests, As, Tgs
  <2>2. QED
    BY <2>1 DEF Inv, OfWalk, OfAs, OfTgs
<1>6. Replied'
  <2>1. kdcStatus' \in [KdcRequests -> K!Statuses]
    BY <1>1 DEF Replied, K!Statuses
  <2>2. \A r \in KdcRequests : (kdcStatus'[r] = "Ok") = (kdcStatus[r] = "Ok")
    BY <1>1, <1>5
  <2>3. QED
    BY <1>1, <2>1, <2>2, Fixed DEF Replied
<1>7. QED
  BY <1>1, <1>3, <1>4, <1>6, WalkingFrame

-----------------------------------------------------------------------------
(* Steps of the application service. *)

LEMMA TicketsTypes ==
  ASSUME Inv, Stored, Posted, Replied, Walking, NEW r \in ApRequests, T!Serve(r) \/ T!Fail(r),
         ByTickets, UNCHANGED client
  PROVE  Stored' /\ Posted' /\ Replied' /\ Walking'
<1>1. /\ UNCHANGED <<clock, input, keytab, saved, users, kdcPc, kdcStatus, userKey, ticketKey,
                     reply>>
      /\ pc[r] \notin {"idle", "done"} /\ pc'[r] # "idle"
      /\ \A q \in ServiceRequests \ {r} : pc'[q] = pc[q]
  BY TicketsMoves DEF kdc
<1>2. T!Recorded(r) \/ UNCHANGED replay
  BY DEF T!Serve, T!RefuseRealm, T!Refuse, T!RefuseReplay, T!Throw, T!Admit, T!Record, T!Fail,
     T!redis
<1>3. replay' \in [T!ReplayKeys -> Nat]
  <2>1. clock \in Nat
    BY DEF Inv, Tables
  <2>2. QED
    BY <1>2, <2>1, SetNXKeepsType, Fixed DEF T!Recorded, Stored
<1>4. \/ UNCHANGED status
      \/ \E code \in T!Statuses : status' = [status EXCEPT ![r] = code]
  BY DEF T!Serve, T!RefuseRealm, T!Refuse, T!RefuseReplay, T!Throw, T!Admit, T!Record, T!Fail,
     T!Answer, T!Statuses
<1>5. Replied'
  BY <1>1, <1>4, Fixed DEF Replied
<1>6. Posted'
  BY <1>1, PostedFrame
<1>7. QED
  BY <1>1, <1>3, <1>5, <1>6, StoredFrame, WalkingFrame DEF client

\* The keytab's names are apart: what registration writes is no seeded entry.
LEMMA KeyWritten ==
  ASSUME NEW keys, KeytabOK(keys), NEW w \in Walks
  PROVE  KeytabOK([keys EXCEPT ![<<w, Realm>>] = ClientKey(w)])
<1> DEFINE written == [keys EXCEPT ![<<w, Realm>>] = ClientKey(w)]
<1>1. DOMAIN written = DOMAIN keys /\ DOMAIN keys = K!Names \X {Realm}
  BY DEF KeytabOK
<1>2. \A n \in K!Names \ {w} : written[<<n, Realm>>] = keys[<<n, Realm>>]
  BY <1>1
<1>3. written[<<w, Realm>>] = ClientKey(w)
  BY <1>1 DEF K!Names
<1>4. Principals \cup {"interval"} \subseteq K!Names \ {w} /\ Walks \subseteq K!Names
  BY DEF K!Names
<1>5. QED
  BY <1>1, <1>2, <1>3, <1>4 DEF KeytabOK

LEMMA RegistrationTypes ==
  ASSUME Inv, Stored, Posted, Replied, Walking, NEW r \in Exchanges \cup Creates,
         ByRegistration, UNCHANGED client,
         R!Fail(r) \/ (r \in Exchanges /\ R!ServeExchange(r))
           \/ (r \in Creates /\ R!ServeCreate(r))
  PROVE  Stored' /\ Posted' /\ Replied' /\ Walking'
<1>1. /\ UNCHANGED <<clock, input, saved, replay, kdcPc, kdcStatus, userKey, ticketKey, reply>>
      /\ pc[r] \notin {"idle", "done"} /\ pc'[r] # "idle"
      /\ \A q \in ServiceRequests \ {r} : pc'[q] = pc[q]
  BY RegistrationMoves DEF kdc, ByRegistration
<1>2. Stored'
  <2>1. CASE UNCHANGED <<keytab, users>>
    BY <1>1, <2>1, Fixed, StoredFrame DEF Stored
  <2>2. CASE ~ UNCHANGED <<keytab, users>>
    <3>1. pc[r] \in {"keytab.set", "db.save"}
      BY <2>2, RegistrationMoves
    <3>2. PICK w \in Walks : r = Create(w)
      BY <3>1 DEF Inv, Ways, Creates, Create
    <3>3. R!Name(r) = <<w, Realm>> /\ R!PrincipalKey(r) = ClientKey(w)
      BY <1>1, <3>2 DEF Inv, OfWalk, OfCreate, R!Name, R!PrincipalKey, ClientKey
    <3>4. KeytabOK(keytab')
      BY <3>3, KeyWritten, RegistrationMoves DEF Stored
    <3>5. users' \in [R!Names -> ClientKeys \cup {None}]
      BY <3>3, RegistrationMoves DEF Stored, ClientKeys
    <3>6. QED
      BY <1>1, <3>4, <3>5, Fixed DEF Stored, KeytabOK, K!Names, ClientKey, R!String2Key
  <2>3. QED
    BY <2>1, <2>2
<1>3. \/ UNCHANGED status
      \/ \E code \in R!Statuses : status' = [status EXCEPT ![r] = code]
  BY DEF R!Fail, R!ServeExchange, R!KeyExchange, R!ServeCreate, R!RefusePassword,
     R!DecryptPassword, R!RefuseExisting, R!FindNone, R!Save, R!RefuseDuplicate, R!SetKey,
     R!DeleteSecret, R!Throw, R!Answer, R!Statuses
<1>4. Replied'
  BY <1>1, <1>3, Fixed DEF Replied
<1>5. Posted'
  BY <1>1, PostedFrame
<1>6. QED
  BY <1>1, <1>2, <1>4, <1>5, WalkingFrame DEF client

-----------------------------------------------------------------------------
(* Steps of the client, of Redis and of time. *)

\* A client sends a body of the kind that the request takes.
LEMMA PostedBySend ==
  ASSUME Posted, NEW sent \in KdcRequests \cup ServiceRequests,
         NEW body \in Walks \cup R!CreateUser \cup AsBody \cup TgsBody \cup ApBody,
         sent \in KdcRequests => body \in AsBody \cup TgsBody,
         sent \in ApRequests => body \in ApBody,
         sent \in Creates => body \in R!CreateUser,
         sent \in Exchanges => body \in Walks,
         input' = [input EXCEPT ![sent] = body],
         \A q \in KdcRequests : IF q = sent THEN kdcPc'[q] # "idle" ELSE kdcPc'[q] = kdcPc[q],
         \A q \in ServiceRequests : IF q = sent THEN pc'[q] # "idle" ELSE pc'[q] = pc[q]
  PROVE  Posted'
<1>1. /\ body # None /\ DOMAIN input = KdcRequests \cup ServiceRequests
      /\ ApRequests \subseteq ServiceRequests /\ Creates \subseteq ServiceRequests
      /\ Exchanges \subseteq ServiceRequests
  BY NoneApart DEF Posted, ServiceRequests
<1>2. \A q \in KdcRequests \cup ServiceRequests :
        input'[q] = IF q = sent THEN body ELSE input[q]
  BY <1>1
<1>3. /\ DOMAIN input' = KdcRequests \cup ServiceRequests
      /\ \A r \in KdcRequests : input'[r] \in AsBody \cup TgsBody \cup {None}
      /\ \A r \in ApRequests : input'[r] \in ApBody \cup {None}
      /\ \A r \in Creates : input'[r] \in R!CreateUser \cup {None}
      /\ \A r \in Exchanges : input'[r] \in Walks \cup {None}
  BY <1>1, <1>2 DEF Posted
<1>4. /\ \A r \in KdcRequests : (kdcPc'[r] = "idle") = (input'[r] = None)
      /\ \A r \in ServiceRequests : (pc'[r] = "idle") = (input'[r] = None)
  BY <1>1, <1>2 DEF Posted
<1>5. QED
  BY <1>3, <1>4, Fixed DEF Posted

LEMMA WalkingOn ==
  ASSUME Walking, NEW w \in Walks, NEW leg \in Legs \cup {"completed", "failed"},
         Moves(w, leg), UNCHANGED clock
  PROVE  Walking'
BY DEF Walking, Moves, Legs

\* The session keys that the script reads, and what it seals under a key.
LEMMA ScriptReads ==
  ASSUME Replied, Walking, NEW w \in Walks
  PROVE  /\ kdcStatus[As(w)] = "Ok" => SessionKeyOf(w, "as") \in K!SessionKeys
         /\ kdcStatus[Tgs(w)] = "Ok" => SessionKeyOf(w, "tgs") \in K!SessionKeys
         /\ kdcStatus[As(w)] = "Ok" => Reply(w, "as").ticket \in Sealed(K!Ticket)
         /\ kdcStatus[Tgs(w)] = "Ok" => Reply(w, "tgs").ticket \in Sealed(K!Ticket)
         /\ \A key \in ClientKeys \cup K!SessionKeys :
              Authenticator(w, key) \in Sealed(K!Authenticator)
<1>1. ASSUME NEW leg \in {"as", "tgs"}, kdcStatus[<<w, leg>>] = "Ok"
      PROVE  Reply(w, leg) \in Replies
  BY <1>1 DEF KdcRequests, Reply, Replied
<1>2. ASSUME NEW body \in Replies
      PROVE  /\ body.ticket \in Sealed(K!Ticket)
             /\ body.challenge.payload.sessionKey \in K!SessionKeys
  BY DEF Replies, Sealed, K!Challenge
<1>3. ASSUME NEW key \in ClientKeys \cup K!SessionKeys
      PROVE  Authenticator(w, key) \in Sealed(K!Authenticator)
  <2>1. [username |-> w, timestamp |-> clock] \in K!Authenticator
    BY DEF K!Authenticator, Walking
  <2>2. QED
    BY <2>1 DEF Authenticator, Encrypt, Sealed, ClientKeys
<1>4. QED
  BY <1>1, <1>2, <1>3 DEF As, Tgs, SessionKeyOf

LEMMA KeyExchangeTypes ==
  ASSUME Inv, Stored, Posted, Replied, Walking, NEW w \in Walks, KeyExchange(w)
  PROVE  Stored' /\ Posted' /\ Replied' /\ Walking'
<1> DEFINE e == <<w, "dh">>
<1>1. /\ e \in Exchanges /\ Exchanges \subseteq ServiceRequests
      /\ e \notin KdcRequests \cup ApRequests \cup Creates
      /\ DOMAIN pc = ServiceRequests
  BY DEF Exchanges, ServiceRequests, Creates, ApRequests, KdcRequests, Inv, Tables
<1>2. /\ input' = [input EXCEPT ![e] = w]
      /\ \/ pc' = [pc EXCEPT ![e] = "dh.set"] /\ status' = status
         \/ /\ pc' = [pc EXCEPT ![e] = "done"]
            /\ \E code \in R!Statuses : status' = [status EXCEPT ![e] = code]
      /\ UNCHANGED <<clock, keytab, saved, replay, users, kdcPc, kdcStatus, userKey, ticketKey,
                     reply>>
  BY DEF KeyExchange, R!PostExchange, R!Await, R!Answer, R!redis, R!Statuses, ByRegistration, kdc,
     stamps
<1>3. Posted'
  <2>1. /\ \A q \in ServiceRequests : IF q = e THEN pc'[q] # "idle" ELSE pc'[q] = pc[q]
        /\ \A q \in KdcRequests : IF q = e THEN kdcPc'[q] # "idle" ELSE kdcPc'[q] = kdcPc[q]
    BY <1>1, <1>2
  <2>2. e \in KdcRequests \cup ServiceRequests
    BY <1>1
  <2>3. input' = [input EXCEPT ![e] = w]
    BY <1>2
  <2> HIDE DEF e
  <2>4. QED
    BY <1>1, <2>1, <2>2, <2>3, PostedBySend
<1>4. Stored'
  BY <1>2, StoredFrame DEF Stored
<1>5. Replied'
  BY <1>2, Fixed DEF Replied
<1>6. Walking'
  BY <1>2 DEF KeyExchange, Walking, Legs
<1>7. QED
  BY <1>3, <1>4, <1>5, <1>6

LEMMA RegisterTypes ==
  ASSUME Inv, Stored, Posted, Replied, Walking, NEW w \in Walks, Register(w)
  PROVE  Stored' /\ Posted' /\ Replied' /\ Walking'
<1> DEFINE c == Create(w)
           body == [username |-> w, realm |-> Realm,
                    password |-> [key |-> <<w, "dh">>, payload |-> Password]]
<1>1. /\ c \in Creates /\ Creates \subseteq ServiceRequests
      /\ c \notin KdcRequests \cup ApRequests \cup Exchanges
      /\ DOMAIN pc = ServiceRequests
  BY DEF Create, Exchanges, ServiceRequests, Creates, ApRequests, KdcRequests, Inv, Tables
<1>2. /\ input' = [input EXCEPT ![c] = body]
      /\ pc' = [pc EXCEPT ![c] = "dh.get"]
      /\ UNCHANGED <<clock, keytab, saved, replay, users, status, kdcPc, kdcStatus, userKey,
                     ticketKey, reply>>
  BY DEF Register, Create, R!PostCreate, R!KnownRealm, R!Await, R!redis, ByRegistration, kdc,
     stamps
<1>3. body \in R!CreateUser
  BY DEF R!CreateUser, Exchanges
<1>4. Posted'
  <2>1. /\ \A q \in ServiceRequests : IF q = c THEN pc'[q] # "idle" ELSE pc'[q] = pc[q]
        /\ \A q \in KdcRequests : IF q = c THEN kdcPc'[q] # "idle" ELSE kdcPc'[q] = kdcPc[q]
    BY <1>1, <1>2
  <2>2. QED
    BY <1>1, <1>2, <1>3, <2>1, PostedBySend
<1>5. Stored' /\ Replied'
  BY <1>2, StoredFrame, RepliedFrame DEF Stored
<1>6. Walking'
  BY <1>2, WalkingOn DEF Register, Legs
<1>7. QED
  BY <1>4, <1>5, <1>6

LEMMA AskTgtTypes ==
  ASSUME Inv, Stored, Posted, Replied, Walking, NEW w \in Walks, AskTgt(w)
  PROVE  Stored' /\ Posted' /\ Replied' /\ Walking'
<1> DEFINE r == As(w)
           body == [exchange |-> "AS", realm |-> Realm, ip |-> Here, username |-> w,
                    serviceName |-> Target, requestedLifetime |-> RequestedLifetime,
                    preAuth |-> Authenticator(w, ClientKey(w))]
<1>1. /\ r \in KdcRequests /\ r \notin ServiceRequests
      /\ r \notin ApRequests \cup Creates \cup Exchanges
      /\ DOMAIN kdcPc = KdcRequests
  BY DEF As, Exchanges, ServiceRequests, Creates, ApRequests, KdcRequests, Inv, Tables
<1>2. /\ kdcPc' = [kdcPc EXCEPT ![r] = "as.userKey"]
      /\ input' = [input EXCEPT ![r] = body]
      /\ UNCHANGED <<clock, keytab, saved, replay, users, pc, status, kdcStatus, userKey,
                     ticketKey, reply>>
  BY DEF AskTgt, As, K!PostAs, K!Await, K!redis, K!held, K!history, ByKdc, service
<1>3. body \in AsBody
  <2>1. Authenticator(w, ClientKey(w)) \in Sealed(K!Authenticator)
    BY ScriptReads DEF ClientKeys
  <2>2. QED
    BY <2>1 DEF AsBody
<1>4. Posted'
  <2>1. /\ \A q \in ServiceRequests : IF q = r THEN pc'[q] # "idle" ELSE pc'[q] = pc[q]
        /\ \A q \in KdcRequests : IF q = r THEN kdcPc'[q] # "idle" ELSE kdcPc'[q] = kdcPc[q]
    BY <1>1, <1>2
  <2>2. QED
    BY <1>1, <1>2, <1>3, <2>1, PostedBySend
<1>5. Stored' /\ Replied'
  BY <1>2, StoredFrame, RepliedFrame DEF Stored
<1>6. Walking'
  BY <1>2, WalkingOn DEF AskTgt, Legs
<1>7. QED
  BY <1>4, <1>5, <1>6

LEMMA AskTicketTypes ==
  ASSUME Inv, Stored, Posted, Replied, Walking, NEW w \in Walks, AskTicket(w)
  PROVE  Stored' /\ Posted' /\ Replied' /\ Walking'
<1> DEFINE r == Tgs(w)
           body == [exchange |-> "TGS", realm |-> Realm, ip |-> Here, id |-> Target,
                    requestedLifetime |-> RequestedLifetime, tgt |-> Reply(w, "as").ticket,
                    authenticator |-> Authenticator(w, SessionKeyOf(w, "as"))]
<1>1. /\ r \in KdcRequests /\ r \notin ServiceRequests
      /\ r \notin ApRequests \cup Creates \cup Exchanges
      /\ DOMAIN kdcPc = KdcRequests
  BY DEF Tgs, Exchanges, ServiceRequests, Creates, ApRequests, KdcRequests, Inv, Tables
<1>2. /\ kdcPc' = [kdcPc EXCEPT ![r] = "tgs.target"]
      /\ input' = [input EXCEPT ![r] = body]
      /\ UNCHANGED <<clock, keytab, saved, replay, users, pc, status, kdcStatus, userKey,
                     ticketKey, reply>>
  BY DEF AskTicket, Tgs, K!PostTgs, K!Await, K!redis, K!held, K!history, K!Encrypt, ByKdc, service,
     Reply, SessionKeyOf, Authenticator, Encrypt
<1>3. body \in TgsBody
  <2>1. kdcStatus[As(w)] = "Ok"
    BY DEF AskTicket, As, Continues, Good, Expected
  <2>2. /\ Authenticator(w, SessionKeyOf(w, "as")) \in Sealed(K!Authenticator)
        /\ Reply(w, "as").ticket \in Sealed(K!Ticket)
    BY <2>1, ScriptReads
  <2>3. QED
    BY <2>2 DEF TgsBody
<1>4. Posted'
  <2>1. /\ \A q \in ServiceRequests : IF q = r THEN pc'[q] # "idle" ELSE pc'[q] = pc[q]
        /\ \A q \in KdcRequests : IF q = r THEN kdcPc'[q] # "idle" ELSE kdcPc'[q] = kdcPc[q]
    BY <1>1, <1>2
  <2>2. QED
    BY <1>1, <1>2, <1>3, <2>1, PostedBySend
<1>5. Stored' /\ Replied'
  BY <1>2, StoredFrame, RepliedFrame DEF Stored
<1>6. Walking'
  BY <1>2, WalkingOn DEF AskTicket, Legs
<1>7. QED
  BY <1>4, <1>5, <1>6

\* An altered ticket is one that opens under no key.
LEMMA PostApTypes ==
  ASSUME Inv, Stored, Posted, Replied, Walking, NEW w \in Walks,
         Present(w) \/ Replay(w) \/ Tamper(w)
  PROVE  Stored' /\ Posted' /\ Replied' /\ Walking'
<1>1. OfWalk(w) /\ \A leg \in ApLegs : OfAp(w, leg)
  BY DEF Inv, OfWalk
<1>2. kdcStatus[Tgs(w)] = "Ok"
  <2>1. Expected(w) /\ at[w] \in {"tgs", "ap", "again"}
    BY DEF Present, Replay, Tamper, Continues, Good
  <2>2. CASE at[w] = "tgs"
    BY <2>1, <2>2 DEF Expected, Tgs
  <2>3. CASE at[w] \in {"ap", "again"}
    BY <1>1, <2>1, <2>3 DEF Expected, OfAp, ApLegs
  <2>4. QED
    BY <2>1, <2>2, <2>3
<1>3. /\ Reply(w, "tgs").ticket \in Sealed(K!Ticket)
      /\ Authenticator(w, SessionKeyOf(w, "tgs")) \in Sealed(K!Authenticator)
  BY <1>2, ScriptReads
<1>4. PICK leg \in ApLegs, ticket \in Sealed(K!Ticket), authenticator \in Sealed(K!Authenticator) :
        PostAp(w, leg, ticket, authenticator)
  <2>1. CASE Present(w)
    BY <1>3, <2>1 DEF Present, ApLegs
  <2>2. CASE Replay(w)
    <3>1. pc[<<w, "ap">>] = "done" /\ <<w, "ap">> \in ApRequests
      BY <1>1, <2>2 DEF Replay, Continues, Good, Expected, OfAp, ApLegs, ApRequests
    <3>2. input[<<w, "ap">>] \in ApBody
      BY <3>1 DEF Posted, ServiceRequests
    <3>3. input[<<w, "ap">>].authenticator \in Sealed(K!Authenticator)
      BY <3>2 DEF ApBody
    <3>4. QED
      BY <1>3, <2>2, <3>3 DEF Replay, ApLegs
  <2>3. CASE Tamper(w)
    <3>1. Tampered(Reply(w, "tgs").ticket) \subseteq Sealed(K!Ticket)
      BY <1>3 DEF Tampered, Sealed
    <3>2. QED
      BY <1>3, <2>3, <3>1 DEF Tamper, ApLegs
  <2>4. QED
    BY <2>1, <2>2, <2>3
<1> DEFINE r == <<w, leg>>
           body == [realm |-> Realm, ip |-> Here, serviceTicket |-> ticket,
                    authenticator |-> authenticator]
<1>5. /\ r \in ApRequests /\ ApRequests \subseteq ServiceRequests
      /\ r \notin KdcRequests \cup Creates \cup Exchanges
      /\ DOMAIN pc = ServiceRequests
  BY DEF ApLegs, Exchanges, ServiceRequests, Creates, ApRequests, KdcRequests, Inv, Tables
<1>6. /\ pc' = [pc EXCEPT ![r] = "lookup"] /\ input' = [input EXCEPT ![r] = body]
      /\ UNCHANGED <<clock, keytab, saved, replay, users, status, kdcPc, kdcStatus, userKey,
                     ticketKey, reply>>
  BY <1>4 DEF PostAp, T!Post, T!redis, ByTickets, kdc
<1>7. body \in ApBody
  BY DEF ApBody
<1>8. Posted'
  <2>1. /\ \A q \in ServiceRequests : IF q = r THEN pc'[q] # "idle" ELSE pc'[q] = pc[q]
        /\ \A q \in KdcRequests : IF q = r THEN kdcPc'[q] # "idle" ELSE kdcPc'[q] = kdcPc[q]
    BY <1>5, <1>6
  <2>2. QED
    BY <1>5, <1>6, <1>7, <2>1, PostedBySend
<1>9. Stored' /\ Replied'
  BY <1>6, StoredFrame, RepliedFrame DEF Stored
<1>10. Walking'
  BY <1>4, <1>6, WalkingOn DEF PostAp, ApLegs, Legs
<1>11. QED
  BY <1>8, <1>9, <1>10

\* Time passes, Redis takes a snapshot or restarts, a secret expires, a walk
\* ends: nothing is sent and nothing answered.
LEMMA QuietTypes ==
  ASSUME Inv, Stored, Posted, Replied, Walking,
         \/ Tick \/ Snapshot \/ RedisRestart \/ UNCHANGED vars
         \/ \E w \in Walks : End(w) \/ Expire(w)
  PROVE  Stored' /\ Posted' /\ Replied' /\ Walking'
<1>1. UNCHANGED <<input, pc, kdcPc, users, status, kdcStatus, userKey, ticketKey, reply>>
  BY DEF Tick, Snapshot, RedisRestart, vars, End, Expire, R!Expire, ByRegistration, redis,
     service, kdc, stamps
<1>2. /\ keytab' \in {keytab, saved.keytab} /\ replay' \in {replay, saved.replay}
      /\ saved'.keytab \in {keytab, saved.keytab} /\ saved'.replay \in {replay, saved.replay}
  <2>1. CASE \E w \in Walks : Expire(w)
    <3>1. UNCHANGED <<keytab, replay>> /\ \E secret : saved' = [saved EXCEPT !.dh = secret]
      BY <2>1 DEF Expire, R!Expire, ByRegistration
    <3>2. QED
      BY <3>1 DEF Inv, Policy
  <2>2. CASE Tick \/ Snapshot \/ RedisRestart \/ UNCHANGED vars \/ \E w \in Walks : End(w)
    BY <2>2 DEF Tick, Snapshot, RedisRestart, vars, End, redis
  <2>3. QED
    BY <2>1, <2>2
<1>3. Stored'
  <2>1. /\ KeytabOK(keytab') /\ KeytabOK(saved'.keytab)
        /\ replay' \in [T!ReplayKeys -> Nat] /\ saved'.replay \in [T!ReplayKeys -> Nat]
    BY <1>2 DEF Stored
  <2>2. QED
    BY <1>1, <2>1, Fixed DEF Stored, KeytabOK, K!Names, ClientKey, R!String2Key
<1>4. Posted' /\ Replied'
  BY <1>1, PostedFrame, RepliedFrame
<1>5. Walking'
  <2>1. CASE Tick
    BY <2>1 DEF Tick, client, Walking, Legs
  <2>2. CASE Snapshot \/ RedisRestart \/ UNCHANGED vars \/ \E w \in Walks : Expire(w)
    BY <2>2, WalkingFrame DEF Snapshot, RedisRestart, vars, Expire, ByRegistration, client
  <2>3. CASE \E w \in Walks : End(w)
    BY <2>3, WalkingOn DEF End
  <2>4. QED
    BY <2>1, <2>2, <2>3
<1>6. QED
  BY <1>3, <1>4, <1>5

-----------------------------------------------------------------------------

LEMMA TypesInitially == Init => Stored /\ Posted /\ Replied /\ Walking
<1> SUFFICES ASSUME Init
             PROVE  Stored /\ Posted /\ Replied /\ Walking
  OBVIOUS
<1> USE DEF Init
<1>1. KeytabOK(K!FullKeytab) /\ KeytabOK(K!EmptyKeytab)
  <2>1. /\ K!Names = Principals \cup Walks \cup {"interval"}
        /\ DOMAIN K!FullKeytab = K!Names \X {Realm} /\ DOMAIN K!EmptyKeytab = K!Names \X {Realm}
    BY DEF K!Names, K!FullKeytab, K!EmptyKeytab
  <2>2. \A n \in K!Names :
          /\ K!FullKeytab[<<n, Realm>>] = IF n \in Walks THEN None ELSE K!Seeded(n, Realm)
          /\ K!EmptyKeytab[<<n, Realm>>] = None
    BY DEF K!FullKeytab, K!EmptyKeytab
  <2>3. /\ \A p \in Principals : K!Seeded(p, Realm) = PrincipalKey(p, Realm)
        /\ K!Seeded("interval", Realm) = LifetimeInterval
    BY DEF K!Seeded, K!PrincipalKey, PrincipalKey
  <2>4. QED
    BY <2>1, <2>2, <2>3 DEF KeytabOK
<1>2. Stored
  <2>1. /\ KeytabOK(keytab) /\ KeytabOK(saved.keytab)
        /\ replay = [k \in T!ReplayKeys |-> 0] /\ saved.replay = [k \in T!ReplayKeys |-> 0]
    BY <1>1 DEF Cleared
  <2>2. QED
    BY <2>1 DEF Stored
<1>3. Posted
  BY DEF Posted, ServiceRequests
<1>4. Replied
  BY DEF Replied, K!Statuses, T!Statuses
<1>5. Walking
  BY DEF Walking
<1>6. QED
  BY <1>2, <1>3, <1>4, <1>5

LEMMA TypesKept ==
  ASSUME Inv, Stored, Posted, Replied, Walking, [Next]_vars
  PROVE  Stored' /\ Posted' /\ Replied' /\ Walking'
<1>1. CASE Fail
  BY <1>1, KdcTypes, TicketsTypes, RegistrationTypes DEF Fail
<1>2. ASSUME NEW w \in Walks, Main(w) \/ Expire(w)
      PROVE  Stored' /\ Posted' /\ Replied' /\ Walking'
  BY <1>2, KeyExchangeTypes, RegisterTypes, AskTgtTypes, AskTicketTypes, PostApTypes, QuietTypes
     DEF Main
<1>3. ASSUME NEW r \in KdcRequests, ServeKdc(r)
      PROVE  Stored' /\ Posted' /\ Replied' /\ Walking'
  BY <1>3, KdcTypes DEF ServeKdc
<1>4. ASSUME NEW r \in ApRequests, ServeTickets(r)
      PROVE  Stored' /\ Posted' /\ Replied' /\ Walking'
  BY <1>4, TicketsTypes DEF ServeTickets
<1>5. ASSUME NEW r \in Exchanges \cup Creates, ServeRegistration(r)
      PROVE  Stored' /\ Posted' /\ Replied' /\ Walking'
  BY <1>5, RegistrationTypes DEF ServeRegistration
<1>6. CASE Tick \/ Snapshot \/ RedisRestart \/ UNCHANGED vars
  BY <1>6, QuietTypes
<1>7. QED
  BY <1>1, <1>2, <1>3, <1>4, <1>5, <1>6, KdcRestartTypes DEF Next

\* The types of all the stores hold across the applications that share them:
\* under a user's name the keytab holds that user's key or nothing, whoever wrote
\* last or whichever snapshot Redis came back from; a request is answered "Ok" if
\* and only if its reply is there, and what it is answered with opens as
\* walk.mjs reads it.
THEOREM TypeCorrect == Spec => []TypeOK
<1>1. Init => Inv /\ Stored /\ Posted /\ Replied /\ Walking
  BY Initially, TypesInitially
<1>2. Inv /\ Stored /\ Posted /\ Replied /\ Walking /\ [Next]_vars
        => (Inv /\ Stored /\ Posted /\ Replied /\ Walking)'
  BY NextKeeps, TypesKept
<1>3. Stored /\ Posted /\ Replied /\ Walking => TypeOK
  BY TypeParts
<1>4. QED
  BY <1>1, <1>2, <1>3, PTL DEF Spec

-----------------------------------------------------------------------------
(* The registry. *)

\* What Redis may come back to, it has learnt before and still holds.
NothingAhead ==
  \A n \in R!Names : saved.keytab[n] # None => keytab[n] # None

\* What a step can do to the two stores of a user's key.
Same == UNCHANGED users /\ \A n \in R!Names : keytab'[n] = keytab[n]
Inserts(n) ==
  /\ users[n] = None /\ \E key \in ClientKeys : users' = [users EXCEPT ![n] = key]
  /\ UNCHANGED keytab
Publishes(n) ==
  /\ users[n] \in ClientKeys /\ keytab' = [keytab EXCEPT ![n] = users[n]]
  /\ UNCHANGED users
ComesBack == UNCHANGED users /\ keytab' = saved.keytab

LEMMA RegistrationStores ==
  ASSUME Inv, NEW r \in Exchanges \cup Creates, ByRegistration,
         R!Fail(r) \/ (r \in Exchanges /\ R!ServeExchange(r))
           \/ (r \in Creates /\ R!ServeCreate(r))
  PROVE  /\ Same \/ \E n \in R!Names : Inserts(n) \/ Publishes(n)
         /\ saved' = saved
<1>1. /\ R!Inserted(r) \/ R!KeySet(r) \/ UNCHANGED <<users, keytab>>
      /\ saved' = saved
  BY DEF R!Fail, R!CacheSecret, R!SecretDeleted, R!Inserted, R!KeySet, R!ServeExchange,
     R!KeyExchange, R!ServeCreate, R!RefusePassword, R!DecryptPassword, R!RefuseExisting,
     R!FindNone, R!Save, R!RefuseDuplicate, R!SetKey, R!DeleteSecret, R!Throw, R!redis
<1>2. CASE UNCHANGED <<users, keytab>>
  BY <1>1, <1>2 DEF Same
<1>3. CASE R!Inserted(r) \/ R!KeySet(r)
  <2>1. PICK w \in Walks : r = Create(w)
    BY <1>3 DEF R!Inserted, R!KeySet, Inv, Ways, Creates, Create
  <2>2. /\ R!Name(r) = <<w, Realm>> /\ R!PrincipalKey(r) = ClientKey(w)
        /\ pc[r] = "keytab.set" => users[<<w, Realm>>] = ClientKey(w)
    BY <1>3, <2>1 DEF R!Inserted, R!KeySet, Inv, OfWalk, OfCreate, R!Name, R!PrincipalKey, ClientKey
  <2>3. <<w, Realm>> \in R!Names /\ ClientKey(w) \in ClientKeys
    BY RequestsOfWalk DEF ClientKeys
  <2>4. CASE R!Inserted(r)
    <3>1. Inserts(<<w, Realm>>)
      BY <2>2, <2>3, <2>4 DEF R!Inserted, R!redis, Inserts
    <3>2. QED
      BY <1>1, <2>3, <3>1
  <2>5. CASE R!KeySet(r)
    <3>1. Publishes(<<w, Realm>>)
      BY <2>2, <2>3, <2>5 DEF R!KeySet, Publishes
    <3>2. QED
      BY <1>1, <2>3, <3>1
  <2>6. QED
    BY <1>3, <2>4, <2>5
<1>4. QED
  BY <1>1, <1>2, <1>3

\* The KDC writes principals and policies, never a user's entry.
LEMMA StepStores ==
  ASSUME Inv, [Next]_vars
  PROVE  /\ Same \/ ComesBack \/ \E n \in R!Names : Inserts(n) \/ Publishes(n)
         /\ \/ saved'.keytab = saved.keytab
            \/ Same /\ saved'.keytab = keytab
<1>1. CASE Fail \/ \E r \in Exchanges \cup Creates : ServeRegistration(r)
  <2>1. CASE \E r \in Exchanges \cup Creates :
               ByRegistration /\ (R!Fail(r) \/ (r \in Exchanges /\ R!ServeExchange(r))
                                    \/ (r \in Creates /\ R!ServeCreate(r)))
    BY <2>1, RegistrationStores
  <2>2. CASE \E r \in KdcRequests : K!Fail(r) /\ ByKdc
    BY <2>2, KdcFrame DEF Same
  <2>3. CASE \E r \in ApRequests : ByTickets /\ T!Fail(r)
    BY <2>3, TicketsMoves DEF Same
  <2>4. QED
    BY <1>1, <2>1, <2>2, <2>3 DEF Fail, ServeRegistration
<1>2. CASE KdcRestart
  <2>1. /\ UNCHANGED <<users, saved>>
        /\ keytab' = [e \in K!Names \X {Realm} |->
             IF e[1] \in Principals \cup {"interval"} THEN K!Seeded(e[1], e[2]) ELSE keytab[e]]
    BY <1>2 DEF KdcRestart, K!KdcRestart, ByKdc
  <2>2. ASSUME NEW n \in R!Names
        PROVE  keytab'[n] = keytab[n]
    <3>1. n \in K!Names \X {Realm} /\ n[1] \notin Principals \cup {"interval"}
      BY DEF R!Names, K!Names
    <3>2. QED
      BY <2>1, <3>1
  <2>3. QED
    BY <2>1, <2>2 DEF Same
<1>3. CASE Snapshot \/ RedisRestart
  BY <1>3 DEF Snapshot, RedisRestart, Same, ComesBack
<1>4. CASE Tick \/ UNCHANGED vars \/ \E w \in Walks : End(w)
  BY <1>4 DEF Tick, vars, redis, End, Same
<1>5. CASE \E w \in Walks : Expire(w)
  <2>1. UNCHANGED <<users, keytab>> /\ \E secret : saved' = [saved EXCEPT !.dh = secret]
    BY <1>5 DEF Expire, R!Expire, ByRegistration
  <2>2. QED
    BY <2>1 DEF Inv, Policy, Same
<1>6. CASE \E w \in Walks : KeyExchange(w) \/ Register(w)
  BY <1>6 DEF KeyExchange, R!PostExchange, Register, R!PostCreate, R!redis, Same
<1>7. CASE \E w \in Walks : AskTgt(w) \/ AskTicket(w)
  BY <1>7 DEF AskTgt, AskTicket, K!PostAs, K!PostTgs, K!redis, ByKdc, Same
<1>8. CASE \E w \in Walks : Present(w) \/ Replay(w) \/ Tamper(w)
  BY <1>8 DEF Present, Replay, Tamper, PostAp, T!Post, T!redis, ByTickets, Same
<1>9. CASE \E r \in KdcRequests : ServeKdc(r)
  BY <1>9, KdcFrame DEF ServeKdc, Same
<1>10. CASE \E r \in ApRequests : ServeTickets(r)
  BY <1>10, TicketsMoves DEF ServeTickets, Same
<1>11. QED
  BY <1>1, <1>2, <1>3, <1>4, <1>5, <1>6, <1>7, <1>8, <1>9, <1>10 DEF Next, Main

Known == [n \in R!Names |-> keytab[n]]

LEMMA StepImplements ==
  ASSUME Inv, Stored, NothingAhead, [Next]_vars
  PROVE  NothingAhead' /\ [Registry!Next]_<<users, Known>>
<1>1. /\ R!Names \subseteq DOMAIN keytab /\ DOMAIN users = R!Names
      /\ \A n \in R!Names : saved.keytab[n] # None => saved.keytab[n] = keytab[n]
  <2>1. R!Names \subseteq DOMAIN keytab /\ DOMAIN users = R!Names
    BY DEF Stored, KeytabOK, R!Names, K!Names
  <2>2. ASSUME NEW n \in R!Names, saved.keytab[n] # None
        PROVE  saved.keytab[n] = keytab[n]
    <3>1. PICK w \in Walks : n = <<w, Realm>>
      BY DEF R!Names
    <3>2. saved.keytab[n] \in {ClientKey(w), None} /\ keytab[n] \in {ClientKey(w), None}
      BY <3>1 DEF Stored, KeytabOK
    <3>3. QED
      BY <2>2, <3>2 DEF NothingAhead
  <2>3. QED
    BY <2>1, <2>2
<1>2. Known' = [n \in R!Names |-> keytab'[n]]
  BY Fixed DEF Known
<1>3. CASE Same
  <2>1. UNCHANGED <<users, Known>>
    BY <1>2, <1>3 DEF Same, Known
  <2>2. \A n \in R!Names : saved'.keytab[n] \in {saved.keytab[n], keytab[n]} /\ keytab'[n] = keytab[n]
    BY <1>3, StepStores DEF Same
  <2>3. NothingAhead'
    BY <2>2, Fixed DEF NothingAhead
  <2>4. QED
    BY <2>1, <2>3
<1>4. CASE ComesBack
  <2>1. saved'.keytab = saved.keytab \/ (saved'.keytab = keytab /\ Same)
    BY StepStores
  <2>2. NothingAhead'
    BY <1>4, <2>1, Fixed DEF NothingAhead, ComesBack, Same
  <2>3. Registry!Next
    <3> DEFINE gone == {n \in R!Names : saved.keytab[n] = None}
    <3>1. Known' = [n \in R!Names |-> IF n \in gone THEN None ELSE Known[n]]
      BY <1>1, <1>2, <1>4 DEF ComesBack, Known
    <3>2. Registry!Forget(gone)
      BY <1>4, <3>1 DEF Registry!Forget, ComesBack, Known
    <3>3. gone \in SUBSET R!Names
      OBVIOUS
    <3> HIDE DEF gone
    <3>4. QED
      BY <3>2, <3>3 DEF Registry!Next, Registry!Forget
  <2>4. QED
    BY <2>2, <2>3
<1>5. ASSUME NEW n \in R!Names, Inserts(n)
      PROVE  NothingAhead' /\ [Registry!Next]_<<users, Known>>
  <2>1. saved'.keytab = saved.keytab \/ (saved'.keytab = keytab /\ Same)
    BY StepStores
  <2>2. NothingAhead'
    BY <1>5, <2>1, Fixed DEF NothingAhead, Inserts
  <2>3. PICK key \in ClientKeys : Registry!Register(n, key)
    BY <1>2, <1>5 DEF Inserts, Registry!Register, Known
  <2>4. QED
    BY <2>2, <2>3 DEF Registry!Next, ClientKeys
<1>6. ASSUME NEW n \in R!Names, Publishes(n)
      PROVE  NothingAhead' /\ [Registry!Next]_<<users, Known>>
  <2>1. /\ keytab'[n] = users[n] /\ users[n] # None
        /\ \A m \in R!Names \ {n} : keytab'[m] = keytab[m]
    BY <1>1, <1>6, NoneApart DEF Publishes
  <2>2. saved'.keytab = saved.keytab \/ saved'.keytab = keytab
    BY StepStores
  <2>3. NothingAhead'
    BY <2>1, <2>2, Fixed DEF NothingAhead
  <2>4. Known' = [Known EXCEPT ![n] = users[n]]
    BY <1>2, <2>1 DEF Known
  <2>5. Registry!Publish(n)
    BY <1>6, <2>1, <2>4 DEF Publishes, Registry!Publish, Known
  <2>6. QED
    BY <2>3, <2>5 DEF Registry!Next
<1>7. QED
  BY <1>3, <1>4, <1>5, <1>6, StepStores

\* Registration, the KDC's seeding at every boot and Redis, which restarts from
\* a snapshot of the keytab that both write, implement PrincipalRegistry: a name
\* gets one key, once and for good, and the KDC finds that key or none
\* (UserService.create, KeytabSeeder, docker-compose.yml's redis-server).
THEOREM WalkImplements == Spec => RegistryPromise
<1>1. Init => NothingAhead /\ Registry!Init
  <2> SUFFICES ASSUME Init
               PROVE  NothingAhead /\ Registry!Init
    OBVIOUS
  <2>1. \A n \in R!Names : K!FullKeytab[n] = None /\ K!EmptyKeytab[n] = None
    BY DEF R!Names, K!Names, K!FullKeytab, K!EmptyKeytab
  <2>2. QED
    BY <2>1 DEF Init, Cleared, NothingAhead, Registry!Init
<1>2. Inv /\ Stored /\ Posted /\ Replied /\ Walking /\ NothingAhead /\ [Next]_vars
        => (Inv /\ Stored /\ Posted /\ Replied /\ Walking /\ NothingAhead)'
             /\ [Registry!Next]_<<users, Known>>
  BY NextKeeps, TypesKept, StepImplements
<1>3. Init => Inv /\ Stored /\ Posted /\ Replied /\ Walking
  BY Initially, TypesInitially
<1>4. QED
  BY <1>1, <1>2, <1>3, PTL DEF Spec, RegistryPromise, Registry!Spec, Known
=============================================================================
