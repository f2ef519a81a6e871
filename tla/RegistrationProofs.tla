-------------------------- MODULE RegistrationProofs --------------------------
(***************************************************************************)
(* Registration, proved for any number of clients, any names and any       *)
(* number of restarts of Redis: what the KDC finds in the keytab is what   *)
(* PostgreSQL holds, and a name is registered once.                        *)
(***************************************************************************)
EXTENDS Registration, TLAPS

\* A request that has arrived carries an input of its kind, and takes the way
\* of its kind.
Arrived ==
  /\ \A e \in Exchanges :
       /\ pc[e] \in {"idle", "dh.set", "done"}
       /\ pc[e] # "idle" => input[e] \in Users
  /\ \A c \in Creates :
       /\ pc[c] # "dh.set"
       /\ pc[c] # "idle" => input[c] \in CreateUser
       /\ status[c] \in {"Created", "Failed"} => pc[c] = "done"

\* The create has inserted its row and gone on.
Won(c) == pc[c] \in {"keytab.set", "dh.del"} \/ status[c] = "Created"

\* The row of a create that won holds its key, and no other create won it.
WinnersRow ==
  \A c \in Creates :
    Won(c) =>
      /\ users[Name(c)] = PrincipalKey(c)
      /\ \A d \in Creates : Won(d) /\ Name(d) = Name(c) => d = c

\* The keytab and its snapshot never disagree with the table, and the snapshot
\* has no entry that the keytab lacks.
Agrees ==
  \A n \in Names :
    /\ keytab[n] # None => keytab[n] = users[n]
    /\ saved.keytab[n] # None => saved.keytab[n] = users[n] /\ keytab[n] # None

\* Until Redis restarts, the entry a create wrote is there.
EntryWritten ==
  \A c \in Creates :
    restarts = 0 /\ (pc[c] = "dh.del" \/ status[c] = "Created") =>
      keytab[Name(c)] = PrincipalKey(c)

Inv ==
  /\ TypeOK
  /\ Arrived
  /\ WinnersRow
  /\ Agrees
  /\ EntryWritten
  /\ HalfRegisteredOnlyAfterFailure

USE RegistrationAssumption DEF Requests

\* The name and the key of a create that has arrived.
LEMMA NameType ==
  ASSUME Inv, NEW c \in Creates, pc[c] # "idle"
  PROVE  /\ Name(c) \in Names
         /\ PrincipalKey(c) \in Key
         /\ PrincipalKey(c) # None
         /\ input[c].username \in Users
<1>1. input[c] \in CreateUser
  BY DEF Inv, Arrived
<1>2. QED
  BY <1>1 DEF CreateUser, Name, Names, PrincipalKey, String2Key, Key

\* As long as its input stays, so do the name and the key of a create.
LEMMA SameName ==
  ASSUME NEW c \in Creates, input'[c] = input[c]
  PROVE  Name(c)' = Name(c) /\ PrincipalKey(c)' = PrincipalKey(c)
BY DEF Name, PrincipalKey, String2Key

\* A request is answered and neither the table nor the keytab changes.
LEMMA AnswerKeepsInv ==
  ASSUME Inv, NEW r \in Requests, NEW code \in Statuses \ {"Created"},
         pc[r] \notin {"idle", "done"}, pc[r] = "keytab.set" => code = "Failed",
         Answer(r, code), dh' \in [Users -> Exchanges \cup {None}],
         UNCHANGED <<keytab, saved, restarts, expired, users, input>>
  PROVE  Inv'
<1>1. TypeOK'
  BY DEF Inv, TypeOK, Answer, Await, Commands
<1>2. \A c \in Creates : Name(c)' = Name(c) /\ PrincipalKey(c)' = PrincipalKey(c)
  BY SameName
<1>3. Arrived'
  BY DEF Inv, TypeOK, Arrived, Answer, Await
<1>4. \A c \in Creates : Won(c)' => Won(c)
  BY DEF Inv, TypeOK, Won, Answer, Await
<1>5. WinnersRow'
  BY <1>2, <1>4 DEF Inv, WinnersRow
<1>6. Agrees'
  BY DEF Inv, Agrees
<1>7. EntryWritten'
  BY <1>2 DEF Inv, TypeOK, EntryWritten, Answer, Await
<1>8. HalfRegisteredOnlyAfterFailure'
  <2> SUFFICES ASSUME NEW n \in Names, restarts = 0, users[n] # None, keytab[n] = None
               PROVE  \E c \in Creates :
                        /\ pc'[c] = "keytab.set" \/ status'[c] = "Failed"
                        /\ Name(c) = n
                        /\ PrincipalKey(c) = users[n]
    BY <1>2 DEF HalfRegisteredOnlyAfterFailure
  <2>1. PICK c \in Creates :
          /\ pc[c] = "keytab.set" \/ status[c] = "Failed"
          /\ Name(c) = n
          /\ PrincipalKey(c) = users[n]
    BY DEF Inv, HalfRegisteredOnlyAfterFailure
  <2>2. pc'[c] = "keytab.set" \/ status'[c] = "Failed"
    BY <2>1 DEF Inv, TypeOK, Arrived, Answer, Await
  <2>3. QED
    BY <2>1, <2>2
<1>9. QED
  BY <1>1, <1>3, <1>5, <1>6, <1>7, <1>8 DEF Inv

\* A create goes on before it has written anything.
LEMMA ForwardKeepsInv ==
  ASSUME Inv, NEW c \in Creates, DecryptPassword(c) \/ FindNone(c)
  PROVE  Inv'
<1>1. /\ pc[c] \in {"dh.get", "db.findOne"}
      /\ \E next \in {"db.findOne", "db.save"} : pc' = [pc EXCEPT ![c] = next]
      /\ UNCHANGED <<dh, keytab, saved, restarts, expired, users, input, status>>
  BY DEF DecryptPassword, FindNone, Await, redis
<1>2. TypeOK'
  BY <1>1 DEF Inv, TypeOK, Commands
<1>3. \A d \in Creates : Name(d)' = Name(d) /\ PrincipalKey(d)' = PrincipalKey(d)
  BY <1>1, SameName
<1>4. Arrived'
  BY <1>1 DEF Inv, TypeOK, Arrived
<1>5. \A d \in Creates : Won(d)' => Won(d)
  BY <1>1 DEF Inv, TypeOK, Won
<1>6. WinnersRow' /\ Agrees'
  BY <1>1, <1>3, <1>5 DEF Inv, WinnersRow, Agrees
<1>7. EntryWritten'
  BY <1>1, <1>3 DEF Inv, TypeOK, EntryWritten
<1>8. HalfRegisteredOnlyAfterFailure'
  <2>1. \A d \in Creates :
          pc[d] = "keytab.set" \/ status[d] = "Failed"
            => pc'[d] = "keytab.set" \/ status'[d] = "Failed"
    BY <1>1 DEF Inv, TypeOK
  <2>2. QED
    BY <1>1, <1>3, <2>1 DEF Inv, HalfRegisteredOnlyAfterFailure
<1>9. QED
  BY <1>2, <1>4, <1>6, <1>7, <1>8 DEF Inv

\* The row is inserted, and the create goes on or fails.
LEMMA InsertedKeepsInv ==
  ASSUME Inv, NEW c \in Creates, Inserted(c), UNCHANGED input,
         \/ Await(c, "keytab.set") /\ UNCHANGED status
         \/ Answer(c, "Failed")
  PROVE  Inv'
<1> DEFINE n == Name(c)
           k == PrincipalKey(c)
<1>1. /\ pc[c] = "db.save" /\ users[n] = None
      /\ users' = [users EXCEPT ![n] = k]
      /\ UNCHANGED <<dh, keytab, saved, restarts, expired>>
  BY DEF Inserted, redis
<1>2. n \in Names /\ k \in Key /\ k # None
  BY <1>1, NameType
<1>3. \A d \in Creates : Name(d)' = Name(d) /\ PrincipalKey(d)' = PrincipalKey(d)
  BY SameName
<1>4. TypeOK'
  BY <1>1, <1>2 DEF Inv, TypeOK, Answer, Await, Commands, Statuses
<1>5. Arrived'
  BY <1>1 DEF Inv, TypeOK, Arrived, Answer, Await
<1>6. \A d \in Creates : d # c => (Won(d)' <=> Won(d))
  BY DEF Inv, TypeOK, Won, Answer, Await
<1>7. \A d \in Creates : Won(d) => Name(d) # n
  <2> SUFFICES ASSUME NEW d \in Creates, Won(d), Name(d) = n
               PROVE  FALSE
    OBVIOUS
  <2>1. pc[d] # "idle"
    BY DEF Inv, Arrived, Won
  <2>2. users[n] = PrincipalKey(d) /\ PrincipalKey(d) # None
    BY <2>1, NameType DEF Inv, WinnersRow
  <2>3. QED
    BY <1>1, <2>2
<1>8. WinnersRow'
  <2> SUFFICES ASSUME NEW d \in Creates, Won(d)'
               PROVE  /\ users'[Name(d)] = PrincipalKey(d)
                      /\ \A b \in Creates : Won(b)' /\ Name(b) = Name(d) => b = d
    BY <1>3 DEF WinnersRow
  <2>1. CASE d = c
    BY <1>1, <1>2, <1>6, <1>7, <2>1 DEF Inv, TypeOK
  <2>2. CASE d # c
    <3>1. Won(d) /\ Name(d) # n
      BY <1>6, <1>7, <2>2
    <3>2. users'[Name(d)] = users[Name(d)]
      BY <1>1, <3>1 DEF Inv, TypeOK
    <3>3. QED
      BY <1>6, <3>1, <3>2 DEF Inv, WinnersRow
  <2>3. QED
    BY <2>1, <2>2
<1>9. Agrees'
  BY <1>1, <1>2 DEF Inv, TypeOK, Agrees
<1>10. EntryWritten'
  BY <1>1, <1>3 DEF Inv, TypeOK, EntryWritten, Answer, Await
<1>11. HalfRegisteredOnlyAfterFailure'
  <2> SUFFICES ASSUME NEW m \in Names, restarts = 0, users'[m] # None, keytab[m] = None
               PROVE  \E d \in Creates :
                        /\ pc'[d] = "keytab.set" \/ status'[d] = "Failed"
                        /\ Name(d) = m
                        /\ PrincipalKey(d) = users'[m]
    BY <1>1, <1>3 DEF HalfRegisteredOnlyAfterFailure
  <2>1. CASE m = n
    <3>1. pc'[c] = "keytab.set" \/ status'[c] = "Failed"
      BY DEF Inv, TypeOK, Answer, Await
    <3>2. users'[m] = k
      BY <1>1, <1>2, <2>1 DEF Inv, TypeOK
    <3>3. QED
      BY <2>1, <3>1, <3>2
  <2>2. CASE m # n
    <3>1. users'[m] = users[m]
      BY <1>1, <2>2 DEF Inv, TypeOK
    <3>2. PICK d \in Creates :
            /\ pc[d] = "keytab.set" \/ status[d] = "Failed"
            /\ Name(d) = m
            /\ PrincipalKey(d) = users[m]
      BY <3>1 DEF Inv, HalfRegisteredOnlyAfterFailure
    <3>3. d # c
      BY <2>2, <3>2
    <3>4. pc'[d] = "keytab.set" \/ status'[d] = "Failed"
      BY <3>2, <3>3 DEF Inv, TypeOK, Answer, Await
    <3>5. QED
      BY <3>1, <3>2, <3>4
  <2>3. QED
    BY <2>1, <2>2
<1>12. QED
  BY <1>4, <1>5, <1>8, <1>9, <1>10, <1>11 DEF Inv

\* The keytab entry is written, and the create goes on or fails.
LEMMA KeySetKeepsInv ==
  ASSUME Inv, NEW c \in Creates, KeySet(c), UNCHANGED input,
         \/ Await(c, "dh.del") /\ UNCHANGED status
         \/ Answer(c, "Failed")
  PROVE  Inv'
<1> DEFINE n == Name(c)
           k == PrincipalKey(c)
<1>1. /\ pc[c] = "keytab.set" /\ Won(c)
      /\ keytab' = [keytab EXCEPT ![n] = k]
      /\ UNCHANGED <<dh, saved, restarts, expired, users>>
  BY DEF KeySet, Won
<1>2. n \in Names /\ k \in Key /\ k # None /\ users[n] = k
  BY <1>1, NameType DEF Inv, WinnersRow
<1>3. \A d \in Creates : Name(d)' = Name(d) /\ PrincipalKey(d)' = PrincipalKey(d)
  BY SameName
<1>4. TypeOK'
  BY <1>1, <1>2 DEF Inv, TypeOK, Answer, Await, Commands, Statuses
<1>5. Arrived'
  BY <1>1 DEF Inv, TypeOK, Arrived, Answer, Await
<1>6. \A d \in Creates : Won(d)' => Won(d)
  BY <1>1 DEF Inv, TypeOK, Won, Answer, Await
<1>7. WinnersRow'
  BY <1>1, <1>3, <1>6 DEF Inv, WinnersRow
<1>8. Agrees'
  BY <1>1, <1>2 DEF Inv, TypeOK, Agrees
<1>9. EntryWritten'
  <2> SUFFICES ASSUME NEW d \in Creates, restarts = 0, pc'[d] = "dh.del" \/ status'[d] = "Created"
               PROVE  keytab'[Name(d)] = PrincipalKey(d)
    BY <1>1, <1>3 DEF EntryWritten
  <2>1. CASE d = c
    BY <1>1, <1>2, <2>1 DEF Inv, TypeOK
  <2>2. CASE d # c
    <3>1. pc[d] = "dh.del" \/ status[d] = "Created"
      BY <2>2 DEF Inv, TypeOK, Answer, Await
    <3>2. keytab[Name(d)] = PrincipalKey(d) /\ Name(d) # n
      BY <1>1, <2>2, <3>1 DEF Inv, EntryWritten, WinnersRow, Won
    <3>3. QED
      BY <1>1, <3>2 DEF Inv, TypeOK
  <2>3. QED
    BY <2>1, <2>2
<1>10. HalfRegisteredOnlyAfterFailure'
  <2> SUFFICES ASSUME NEW m \in Names, restarts = 0, users[m] # None, keytab'[m] = None
               PROVE  \E d \in Creates :
                        /\ pc'[d] = "keytab.set" \/ status'[d] = "Failed"
                        /\ Name(d) = m
                        /\ PrincipalKey(d) = users[m]
    BY <1>1, <1>3 DEF HalfRegisteredOnlyAfterFailure
  <2>1. m # n /\ keytab[m] = None
    BY <1>1, <1>2 DEF Inv, TypeOK
  <2>2. PICK d \in Creates :
          /\ pc[d] = "keytab.set" \/ status[d] = "Failed"
          /\ Name(d) = m
          /\ PrincipalKey(d) = users[m]
    BY <2>1 DEF Inv, HalfRegisteredOnlyAfterFailure
  <2>3. d # c
    BY <2>1, <2>2
  <2>4. pc'[d] = "keytab.set" \/ status'[d] = "Failed"
    BY <2>2, <2>3 DEF Inv, TypeOK, Answer, Await
  <2>5. QED
    BY <2>2, <2>4
<1>11. QED
  BY <1>4, <1>5, <1>7, <1>8, <1>9, <1>10 DEF Inv

\* The secret is deleted; the create ends.
LEMMA SecretDeletedKeepsInv ==
  ASSUME Inv, NEW c \in Creates, NEW code \in {"Created", "Failed"},
         SecretDeleted(c), UNCHANGED input, Answer(c, code)
  PROVE  Inv'
<1>1. /\ pc[c] = "dh.del"
      /\ dh' = [dh EXCEPT ![input[c].username] = None]
      /\ UNCHANGED <<keytab, saved, restarts, expired, users>>
  BY DEF SecretDeleted
<1>2. \A d \in Creates : Name(d)' = Name(d) /\ PrincipalKey(d)' = PrincipalKey(d)
  BY SameName
<1>3. TypeOK'
  BY <1>1 DEF Inv, TypeOK, Answer, Await, Commands, Statuses
<1>4. Arrived'
  BY <1>1 DEF Inv, TypeOK, Arrived, Answer, Await
<1>5. \A d \in Creates : Won(d)' => Won(d)
  BY <1>1 DEF Inv, TypeOK, Won, Answer, Await
<1>6. WinnersRow' /\ Agrees'
  BY <1>1, <1>2, <1>5 DEF Inv, WinnersRow, Agrees
<1>7. EntryWritten'
  BY <1>1, <1>2 DEF Inv, TypeOK, EntryWritten, Answer, Await
<1>8. HalfRegisteredOnlyAfterFailure'
  <2>1. \A d \in Creates :
          pc[d] = "keytab.set" \/ status[d] = "Failed"
            => pc'[d] = "keytab.set" \/ status'[d] = "Failed"
    BY <1>1 DEF Inv, TypeOK, Arrived, Answer, Await
  <2>2. QED
    BY <1>1, <1>2, <2>1 DEF Inv, HalfRegisteredOnlyAfterFailure
<1>9. QED
  BY <1>3, <1>4, <1>6, <1>7, <1>8 DEF Inv

\* A key exchange arrives, and is refused at once or awaits Redis.
LEMMA PostExchangeKeepsInv ==
  ASSUME Inv, NEW e \in Exchanges, NEW u \in Users, NEW group \in Groups,
         NEW valid \in BOOLEAN, PostExchange(e, u, group, valid)
  PROVE  Inv'
<1>1. /\ pc[e] = "idle"
      /\ input' = [input EXCEPT ![e] = u]
      /\ \E next \in {"dh.set", "done"} : pc' = [pc EXCEPT ![e] = next]
      /\ \E code \in {status[e], "BadRequest", "InternalError"} :
           status' = [status EXCEPT ![e] = code]
      /\ UNCHANGED <<dh, keytab, saved, restarts, expired, users>>
  BY DEF PostExchange, Answer, Await, redis, Inv, TypeOK
<1>2. \A c \in Creates : c # e /\ pc'[c] = pc[c] /\ status'[c] = status[c] /\ input'[c] = input[c]
  BY <1>1 DEF Inv, TypeOK
<1>3. \A c \in Creates : Name(c)' = Name(c) /\ PrincipalKey(c)' = PrincipalKey(c)
  BY <1>2, SameName
<1>4. TypeOK'
  BY <1>1 DEF Inv, TypeOK, Commands, Statuses
<1>5. Arrived'
  BY <1>1, <1>2 DEF Inv, TypeOK, Arrived
<1>6. \A c \in Creates : Won(c)' <=> Won(c)
  BY <1>2 DEF Won
<1>7. WinnersRow' /\ Agrees' /\ EntryWritten'
  BY <1>1, <1>2, <1>3, <1>6 DEF Inv, WinnersRow, Agrees, EntryWritten
<1>8. HalfRegisteredOnlyAfterFailure'
  BY <1>1, <1>2, <1>3 DEF Inv, HalfRegisteredOnlyAfterFailure
<1>9. QED
  BY <1>4, <1>5, <1>7, <1>8 DEF Inv

\* A create arrives.
LEMMA PostCreateKeepsInv ==
  ASSUME Inv, NEW c \in Creates, NEW u \in Users, NEW realm \in Realms,
         NEW e \in Exchanges, NEW p \in Passwords, PostCreate(c, u, realm, e, p)
  PROVE  Inv'
<1> DEFINE i == [username |-> u, realm |-> realm, password |-> [key |-> e, payload |-> p]]
<1>1. /\ pc[c] = "idle"
      /\ input' = [input EXCEPT ![c] = i]
      /\ \/ pc' = [pc EXCEPT ![c] = "dh.get"] /\ status' = status
         \/ /\ pc' = [pc EXCEPT ![c] = "done"]
            /\ status' = [status EXCEPT ![c] = "BadRequest"]
      /\ UNCHANGED <<dh, keytab, saved, restarts, expired, users>>
  BY DEF PostCreate, Answer, Await, redis
<1>2. i \in CreateUser
  BY DEF CreateUser
<1>3. \A d \in Creates : d # c => pc'[d] = pc[d] /\ status'[d] = status[d] /\ input'[d] = input[d]
  BY <1>1 DEF Inv, TypeOK
<1>4. \A d \in Creates : d # c => Name(d)' = Name(d) /\ PrincipalKey(d)' = PrincipalKey(d)
  BY <1>3, SameName
<1>5. /\ pc'[c] \in {"dh.get", "done"} /\ status'[c] \notin {"Created", "Failed"}
      /\ status[c] \notin {"Created", "Failed"}
  BY <1>1 DEF Inv, TypeOK, Arrived
<1>6. TypeOK'
  BY <1>1, <1>2 DEF Inv, TypeOK, Commands, Statuses
<1>7. Arrived'
  BY <1>1, <1>2, <1>3, <1>5 DEF Inv, TypeOK, Arrived
<1>8. \A d \in Creates : Won(d)' <=> Won(d)
  BY <1>1, <1>3, <1>5 DEF Won
<1>9. ~ Won(c)
  BY <1>1, <1>5 DEF Won
<1>10. WinnersRow' /\ Agrees'
  BY <1>1, <1>4, <1>8, <1>9 DEF Inv, WinnersRow, Agrees
<1>11. EntryWritten'
  BY <1>1, <1>3, <1>4, <1>5 DEF Inv, EntryWritten
<1>12. HalfRegisteredOnlyAfterFailure'
  BY <1>1, <1>3, <1>4, <1>5 DEF Inv, HalfRegisteredOnlyAfterFailure
<1>13. QED
  BY <1>6, <1>7, <1>10, <1>11, <1>12 DEF Inv

\* Redis forgets a secret, writes a snapshot or restarts.
LEMMA RedisKeepsInv ==
  ASSUME Inv, Snapshot \/ RedisRestart \/ \E u \in Users : Expire(u)
  PROVE  Inv'
<1>1. UNCHANGED <<users, pc, input, status>>
  BY DEF Snapshot, RedisRestart, Expire
<1>2. /\ restarts' \in 0 .. MaxRestarts
      /\ restarts' = 0 => restarts = 0 /\ keytab' = keytab
      /\ expired' \in SUBSET Users
  BY DEF Inv, TypeOK, Snapshot, RedisRestart, Expire
<1>3. \A c \in Creates : Name(c)' = Name(c) /\ PrincipalKey(c)' = PrincipalKey(c)
  BY <1>1, SameName
<1>4. /\ keytab' \in {keytab, saved.keytab}
      /\ saved'.keytab \in {keytab, saved.keytab}
      /\ keytab' \in {keytab, saved'.keytab}
  BY DEF Inv, TypeOK, Snapshot, RedisRestart, Expire
<1>5. /\ dh' \in [Users -> Exchanges \cup {None}]
      /\ saved' \in [dh: [Users -> Exchanges \cup {None}], keytab: [Names -> Key \cup {None}]]
  BY DEF Inv, TypeOK, Snapshot, RedisRestart, Expire
<1>6. TypeOK'
  BY <1>1, <1>2, <1>4, <1>5 DEF Inv, TypeOK
<1>7. Arrived'
  BY <1>1 DEF Inv, Arrived
<1>8. WinnersRow'
  BY <1>1, <1>3 DEF Inv, WinnersRow, Won
<1>9. Agrees'
  BY <1>1, <1>4 DEF Inv, Agrees
<1>10. EntryWritten' /\ HalfRegisteredOnlyAfterFailure'
  BY <1>1, <1>2, <1>3 DEF Inv, EntryWritten, HalfRegisteredOnlyAfterFailure
<1>11. QED
  BY <1>6, <1>7, <1>8, <1>9, <1>10 DEF Inv

LEMMA FailKeepsInv ==
  ASSUME Inv, NEW r \in Requests, Fail(r)
  PROVE  Inv'
<1>1. CASE UNCHANGED <<redis, users>>
  BY <1>1, AnswerKeepsInv DEF Fail, redis, Statuses, Inv, TypeOK
<1>2. CASE CacheSecret(r) /\ UNCHANGED users
  <2>1. r \in Exchanges /\ input[r] \in Users
    BY <1>2 DEF CacheSecret, Inv, Arrived
  <2>2. dh' \in [Users -> Exchanges \cup {None}]
    BY <1>2, <2>1 DEF CacheSecret, Inv, TypeOK
  <2>3. QED
    BY <1>2, <2>2, AnswerKeepsInv DEF Fail, CacheSecret, Statuses
<1>3. CASE Inserted(r) \/ KeySet(r) \/ SecretDeleted(r)
  <2>1. r \in Creates
    BY <1>3 DEF Inserted, KeySet, SecretDeleted, Inv, Arrived
  <2>2. QED
    BY <1>3, <2>1, InsertedKeepsInv, KeySetKeepsInv, SecretDeletedKeepsInv DEF Fail
<1>4. QED
  BY <1>1, <1>2, <1>3 DEF Fail

LEMMA ServeKeepsInv ==
  /\ \A e \in Exchanges : Inv /\ ServeExchange(e) => Inv'
  /\ \A c \in Creates : Inv /\ ServeCreate(c) => Inv'
<1>1. ASSUME NEW e \in Exchanges, Inv, ServeExchange(e)
      PROVE  Inv'
  <2>1. input[e] \in Users
    BY <1>1 DEF ServeExchange, KeyExchange, CacheSecret, Inv, Arrived
  <2>2. dh' \in [Users -> Exchanges \cup {None}]
    BY <1>1, <2>1 DEF ServeExchange, KeyExchange, CacheSecret, Inv, TypeOK
  <2>3. QED
    BY <1>1, <2>2, AnswerKeepsInv DEF ServeExchange, KeyExchange, CacheSecret, Statuses
<1>2. ASSUME NEW c \in Creates, Inv, ServeCreate(c)
      PROVE  Inv'
  <2>1. CASE RefusePassword(c) \/ RefuseExisting(c) \/ RefuseDuplicate(c)
    <3>1. \E code \in Statuses \ {"Created"} : Throw(c, code)
      BY <2>1 DEF RefusePassword, RefuseExisting, RefuseDuplicate, Statuses
    <3>2. pc[c] \in {"dh.get", "db.findOne", "db.save"}
      BY <2>1 DEF RefusePassword, RefuseExisting, RefuseDuplicate
    <3>3. QED
      BY <1>2, <3>1, <3>2, AnswerKeepsInv DEF Throw, redis, Inv, TypeOK
  <2>2. CASE DecryptPassword(c) \/ FindNone(c)
    BY <1>2, <2>2, ForwardKeepsInv
  <2>3. CASE Save(c)
    BY <1>2, <2>3, InsertedKeepsInv DEF Save
  <2>4. CASE SetKey(c)
    BY <1>2, <2>4, KeySetKeepsInv DEF SetKey
  <2>5. CASE DeleteSecret(c)
    BY <1>2, <2>5, SecretDeletedKeepsInv DEF DeleteSecret
  <2>6. QED
    BY <1>2, <2>1, <2>2, <2>3, <2>4, <2>5 DEF ServeCreate
<1>3. QED
  BY <1>1, <1>2

LEMMA InitInv == Init => Inv
BY DEF Init, Inv, TypeOK, Arrived, WinnersRow, Won, Agrees, EntryWritten,
       HalfRegisteredOnlyAfterFailure, Commands, Statuses

LEMMA NextKeepsInv == Inv /\ [Next]_vars => Inv'
<1> SUFFICES ASSUME Inv, [Next]_vars
             PROVE  Inv'
  OBVIOUS
<1>1. CASE Snapshot \/ RedisRestart \/ \E u \in Users : Expire(u)
  BY <1>1, RedisKeepsInv
<1>2. CASE \E r \in Requests : Fail(r)
  BY <1>2, FailKeepsInv
<1>3. ASSUME NEW e \in Exchanges,
             \/ \E u \in Users, g \in Groups, valid \in BOOLEAN : PostExchange(e, u, g, valid)
             \/ ServeExchange(e)
      PROVE  Inv'
  BY <1>3, PostExchangeKeepsInv, ServeKeepsInv
<1>4. ASSUME NEW c \in Creates,
             \/ \E u \in Users, realm \in Realms, e \in Exchanges, p \in Passwords :
                  PostCreate(c, u, realm, e, p)
             \/ ServeCreate(c)
      PROVE  Inv'
  BY <1>4, PostCreateKeepsInv, ServeKeepsInv
<1>5. CASE UNCHANGED vars
  BY <1>5 DEF vars, redis, Inv, TypeOK, Arrived, WinnersRow, Won, Agrees, EntryWritten,
              HalfRegisteredOnlyAfterFailure, Name, PrincipalKey, String2Key
<1>6. QED
  BY <1>1, <1>2, <1>3, <1>4, <1>5 DEF Next

\* The strengthened invariant holds in every reachable state.
THEOREM Invariance == Spec => []Inv
BY InitInv, NextKeepsInv, PTL DEF Spec

\* Type correctness of registration.
THEOREM TypeCorrect == Spec => []TypeOK
<1>1. Inv => TypeOK
  BY DEF Inv
<1>2. QED
  BY <1>1, Invariance, PTL

\* The keytab entry of a user, if there is one, is the key in the user's row:
\* create() saves before it sets, and the unique index lets one save through.
THEOREM KeytabAgreesWithDbHolds == Spec => []KeytabAgreesWithDb
<1>1. Inv => KeytabAgreesWithDb
  BY DEF Inv, Agrees, KeytabAgreesWithDb
<1>2. QED
  BY <1>1, Invariance, PTL

\* Of the clients that race for a name one is told "Created", and the key the
\* stores hold is that client's.
THEOREM CreatedIsExclusiveHolds == Spec => []CreatedIsExclusive
<1>1. Inv => CreatedIsExclusive
  BY DEF Inv, WinnersRow, Won, EntryWritten, CreatedIsExclusive
<1>2. QED
  BY <1>1, Invariance, PTL

\* A user is left with a row and no keytab entry only by a create that failed
\* between save and set, as long as Redis does not restart.
THEOREM HalfRegisteredHolds == Spec => []HalfRegisteredOnlyAfterFailure
<1>1. Inv => HalfRegisteredOnlyAfterFailure
  BY DEF Inv
<1>2. QED
  BY <1>1, Invariance, PTL

\* A step of Redis makes the KDC forget some names, or is none of the registry's.
LEMMA RedisImplements ==
  ASSUME Inv, Snapshot \/ RedisRestart \/ \E u \in Users : Expire(u)
  PROVE  [Registry!Next]_<<users, keytab>>
<1>1. CASE Snapshot \/ \E u \in Users : Expire(u)
  BY <1>1 DEF Snapshot, Expire
<1>2. CASE RedisRestart
  <2> DEFINE lost == {n \in Names : saved.keytab[n] = None}
  <2>1. \A n \in Names : n \notin lost => saved.keytab[n] = keytab[n]
    BY DEF Inv, Agrees
  <2>2. saved.keytab = [n \in Names |-> saved.keytab[n]]
    BY DEF Inv, TypeOK
  <2>3. keytab' = [n \in Names |-> IF n \in lost THEN None ELSE keytab[n]] /\ users' = users
    BY <1>2, <2>1, <2>2 DEF RedisRestart
  <2>4. Registry!Forget(lost)
    BY <2>3 DEF Registry!Forget
  <2>5. QED
    BY <2>4 DEF Registry!Next
<1>3. QED
  BY <1>1, <1>2

\* The insert of a row registers its name.
LEMMA InsertedImplements ==
  ASSUME Inv, NEW c \in Creates, Inserted(c)
  PROVE  Registry!Next
<1>1. Name(c) \in Names /\ PrincipalKey(c) \in Key
  BY NameType DEF Inserted
<1>2. Registry!Register(Name(c), PrincipalKey(c))
  BY DEF Inserted, redis, Registry!Register
<1>3. QED
  BY <1>1, <1>2 DEF Registry!Next

\* The write of the keytab publishes the key.
LEMMA KeySetImplements ==
  ASSUME Inv, NEW c \in Creates, KeySet(c)
  PROVE  Registry!Next
<1>1. Name(c) \in Names /\ PrincipalKey(c) # None
  BY NameType DEF KeySet
<1>2. users[Name(c)] = PrincipalKey(c)
  BY DEF KeySet, Inv, WinnersRow, Won
<1>3. Registry!Publish(Name(c))
  BY <1>1, <1>2 DEF KeySet, Registry!Publish
<1>4. QED
  BY <1>1, <1>3 DEF Registry!Next

\* Registration implements PrincipalRegistry: what races, fails or restarts in
\* the two stores shows as one registration per name, its publication, and
\* forgetting.
THEOREM Implements == Spec => RegistryPromise
<1>1. Init => Registry!Init
  BY DEF Init, Registry!Init
<1>2. Inv /\ [Next]_vars => [Registry!Next]_<<users, keytab>>
  <2> SUFFICES ASSUME Inv, Next
               PROVE  [Registry!Next]_<<users, keytab>>
    BY DEF vars, redis
  <2>1. CASE Snapshot \/ RedisRestart \/ \E u \in Users : Expire(u)
    BY <2>1, RedisImplements
  <2>2. ASSUME NEW r \in Requests, Fail(r)
        PROVE  [Registry!Next]_<<users, keytab>>
    <3>1. CASE UNCHANGED <<redis, users>> \/ (CacheSecret(r) /\ UNCHANGED users)
      BY <3>1 DEF redis, CacheSecret
    <3>2. CASE Inserted(r) \/ KeySet(r) \/ SecretDeleted(r)
      <4>1. r \in Creates
        BY <3>2 DEF Inserted, KeySet, SecretDeleted, Inv, Arrived
      <4>2. QED
        BY <3>2, <4>1, InsertedImplements, KeySetImplements DEF SecretDeleted
    <3>3. QED
      BY <2>2, <3>1, <3>2 DEF Fail
  <2>3. ASSUME NEW e \in Exchanges,
               \/ \E u \in Users, g \in Groups, valid \in BOOLEAN : PostExchange(e, u, g, valid)
               \/ ServeExchange(e)
        PROVE  UNCHANGED <<users, keytab>>
    BY <2>3 DEF PostExchange, ServeExchange, KeyExchange, CacheSecret, redis
  <2>4. ASSUME NEW c \in Creates,
               \/ \E u \in Users, realm \in Realms, e \in Exchanges, p \in Passwords :
                    PostCreate(c, u, realm, e, p)
               \/ ServeCreate(c)
        PROVE  [Registry!Next]_<<users, keytab>>
    <3>1. CASE Save(c) \/ SetKey(c)
      BY <3>1, InsertedImplements, KeySetImplements DEF Save, SetKey
    <3>2. CASE ~ (Save(c) \/ SetKey(c))
      BY <2>4, <3>2 DEF PostCreate, ServeCreate, RefusePassword, DecryptPassword,
         RefuseExisting, FindNone, RefuseDuplicate, DeleteSecret, SecretDeleted, Throw, redis
    <3>3. QED
      BY <3>1, <3>2
  <2>5. QED
    BY <2>1, <2>2, <2>3, <2>4 DEF Next
<1>3. QED
  BY <1>1, <1>2, Invariance, PTL DEF Spec, RegistryPromise, Registry!Spec

\* No step replaces the key of a principal.
THEOREM KeyNeverReplacedHolds == Spec => KeyNeverReplaced
<1>1. Inv /\ Inv' /\ [Next]_vars =>
        [\A n \in Names : keytab[n] # None => keytab'[n] \in {keytab[n], None}]_vars
  <2> SUFFICES ASSUME Inv, Inv', Next, NEW n \in Names, keytab[n] # None, keytab'[n] # None
               PROVE  keytab'[n] = keytab[n]
    OBVIOUS
  <2>1. keytab[n] = users[n] /\ keytab'[n] = users'[n] /\ users[n] # None
    BY DEF Inv, Agrees
  <2>2. users'[n] = users[n]
    BY <2>1 DEF Next, Snapshot, RedisRestart, Expire, Fail, redis, CacheSecret, Inserted,
       KeySet, SecretDeleted, PostExchange, ServeExchange, KeyExchange, PostCreate,
       ServeCreate, RefusePassword, DecryptPassword, RefuseExisting, FindNone, Save,
       RefuseDuplicate, SetKey, DeleteSecret, Throw, Inv, TypeOK
  <2>3. QED
    BY <2>1, <2>2
<1>2. QED
  BY <1>1, Invariance, PTL DEF Spec, KeyNeverReplaced

-----------------------------------------------------------------------------
(* Who finds no secret. *)

\* A registration under name u got as far as deleting a secret, or may have.
Rival(u) ==
  \E d \in Creates :
    /\ status[d] \in {"Created", "Failed"}
    /\ input[d].username = u
    /\ users[Name(d)] = PrincipalKey(d)

\* An answered request is over, and a create seals its password under the secret
\* of an exchange that was answered.
OfExchange ==
  /\ \A r \in Requests : status[r] # "Pending" => pc[r] = "done"
  /\ \A c \in Creates :
       pc[c] # "idle" =>
         input[c].password.key \in Exchanges /\ status[input[c].password.key] = "Ok"

\* Until Redis restarts or a TTL runs out, a name for which an exchange was
\* answered has a secret, or a rival has registered under it.
SecretOrRival ==
  \A u \in Users, e \in Exchanges :
    restarts = 0 /\ status[e] = "Ok" /\ input[e] = u /\ u \notin expired =>
      dh[u] # None \/ Rival(u)

\* RefusedOnlyAfterRival's first half, name by name.
RefusedToRival ==
  \A u \in Users, c \in Creates :
    /\ restarts = 0 /\ status[c] = "Forbidden" /\ u \notin expired
    /\ input[c].username = u /\ input[input[c].password.key] = u
    => Rival(u)

RivalInv == Inv /\ OfExchange /\ SecretOrRival /\ RefusedToRival

\* What a step must leave alone for rivals to remain: rows, and the requests that
\* were answered.
Settled ==
  /\ \A r \in Requests :
       status[r] # "Pending" => status'[r] = status[r] /\ input'[r] = input[r]
  /\ \A n \in Names : users[n] # None => users'[n] = users[n]
  /\ restarts' = 0 => restarts = 0
  /\ expired \subseteq expired'

\* What is a rival once remains one.
LEMMA RivalsRemain ==
  ASSUME Inv, Settled, NEW u, Rival(u)
  PROVE  Rival(u)'
<1>1. PICK d \in Creates :
        /\ status[d] \in {"Created", "Failed"}
        /\ input[d].username = u
        /\ users[Name(d)] = PrincipalKey(d)
  BY DEF Rival
<1>2. pc[d] # "idle"
  BY <1>1 DEF Inv, Arrived
<1>3. Name(d) \in Names /\ users[Name(d)] # None
  BY <1>1, <1>2, NameType
<1>4. status'[d] = status[d] /\ input'[d] = input[d]
  BY <1>1 DEF Settled
<1>5. Name(d)' = Name(d) /\ PrincipalKey(d)' = PrincipalKey(d)
  BY <1>4, SameName
<1>6. QED
  BY <1>1, <1>3, <1>4, <1>5 DEF Rival, Settled

\* A step that refuses a create only when its name has no secret, and takes a
\* secret away only for a rival, a TTL or a restart.
LEMMA StepKeepsRivalInv ==
  ASSUME RivalInv, Inv', OfExchange', Settled,
         \A e \in Exchanges : status'[e] = "Ok" =>
           input'[e] = input[e] /\ (status[e] = "Ok" \/ dh'[input[e]] # None),
         \A u \in Users : dh[u] # None =>
           dh'[u] # None \/ u \in expired' \/ restarts' # 0 \/ Rival(u)',
         \A c \in Creates : status'[c] = "Forbidden" /\ status[c] # "Forbidden" =>
           pc[c] # "idle" /\ dh[input[c].username] = None /\ input' = input
  PROVE  RivalInv'
<1>1. SecretOrRival'
  <2> SUFFICES ASSUME NEW u \in Users, NEW e \in Exchanges, restarts' = 0, status'[e] = "Ok",
                      input'[e] = u, u \notin expired', dh'[u] = None
               PROVE  Rival(u)'
    BY DEF SecretOrRival
  <2>1. status[e] = "Ok" /\ input[e] = u
    OBVIOUS
  <2>2. dh[u] # None \/ Rival(u)
    BY <2>1 DEF RivalInv, SecretOrRival, Settled
  <2>3. QED
    BY <2>2, RivalsRemain DEF RivalInv
<1>2. RefusedToRival'
  <2> SUFFICES ASSUME NEW u \in Users, NEW c \in Creates, restarts' = 0,
                      status'[c] = "Forbidden", u \notin expired', input'[c].username = u,
                      input'[input'[c].password.key] = u
               PROVE  Rival(u)'
    BY DEF RefusedToRival
  <2>1. restarts = 0 /\ u \notin expired
    BY DEF Settled
  <2>2. Rival(u)
    <3>1. CASE status[c] = "Forbidden"
      <4>1. input'[c] = input[c] /\ pc[c] = "done"
        BY <3>1 DEF Settled, RivalInv, OfExchange
      <4>2. PICK e \in Exchanges : e = input[c].password.key /\ status[e] = "Ok"
        BY <4>1 DEF RivalInv, OfExchange
      <4>3. input'[e] = input[e]
        BY <4>2 DEF Settled
      <4>4. QED
        BY <2>1, <3>1, <4>1, <4>2, <4>3 DEF RivalInv, RefusedToRival
    <3>2. CASE status[c] # "Forbidden"
      <4>1. pc[c] # "idle" /\ dh[u] = None /\ input' = input
        BY <3>2
      <4>2. PICK e \in Exchanges : e = input[c].password.key /\ status[e] = "Ok"
        BY <4>1 DEF RivalInv, OfExchange
      <4>3. QED
        BY <2>1, <4>1, <4>2 DEF RivalInv, SecretOrRival
    <3>3. QED
      BY <3>1, <3>2
  <2>3. QED
    BY <2>2, RivalsRemain DEF RivalInv
<1>3. QED
  BY <1>1, <1>2 DEF RivalInv

\* A create at its del has won its row: once it is answered it is a rival.
LEMMA DeletedByRival ==
  ASSUME Inv, NEW c \in Creates, SecretDeleted(c), UNCHANGED input,
         NEW code \in {"Created", "Failed"}, Answer(c, code)
  PROVE  Rival(input[c].username)'
<1>1. users[Name(c)] = PrincipalKey(c)
  BY DEF SecretDeleted, Inv, WinnersRow, Won
<1>2. Name(c)' = Name(c) /\ PrincipalKey(c)' = PrincipalKey(c)
  BY SameName
<1>3. QED
  BY <1>1, <1>2 DEF Rival, SecretDeleted, Answer, Inv, TypeOK

\* Redis loses secrets in a restart and to their TTL, and no request notices.
LEMMA RedisKeepsRivalInv ==
  ASSUME RivalInv, Inv', Snapshot \/ RedisRestart \/ \E u \in Users : Expire(u)
  PROVE  RivalInv'
<1>1. UNCHANGED <<users, pc, input, status>>
  BY DEF Snapshot, RedisRestart, Expire
<1>2. OfExchange'
  BY <1>1 DEF RivalInv, OfExchange
<1>3. Settled
  BY <1>1 DEF Settled, Snapshot, RedisRestart, Expire, RivalInv, Inv, TypeOK
<1>4. \A u \in Users : dh[u] # None => dh'[u] # None \/ u \in expired' \/ restarts' # 0
  BY DEF Snapshot, RedisRestart, Expire, RivalInv, Inv, TypeOK
<1>5. \A e \in Exchanges : status'[e] = "Ok" => input'[e] = input[e] /\ status[e] = "Ok"
  BY <1>1
<1>6. QED
  BY <1>1, <1>2, <1>3, <1>4, <1>5, StepKeepsRivalInv

\* An exchange arrives, or its secret is cached: over another one, perhaps, but
\* the name has one.
LEMMA ExchangeKeepsRivalInv ==
  ASSUME RivalInv, Inv', NEW e \in Exchanges,
         \/ \E u \in Users, g \in Groups, valid \in BOOLEAN : PostExchange(e, u, g, valid)
         \/ KeyExchange(e)
  PROVE  RivalInv'
<1>1. /\ pc[e] \in {"idle", "dh.set"}
      /\ pc[e] = "dh.set" => input' = input
      /\ \A r \in Requests \ {e} :
           pc'[r] = pc[r] /\ input'[r] = input[r] /\ status'[r] = status[r]
      /\ status'[e] # status[e] => pc'[e] = "done"
      /\ UNCHANGED <<users, restarts, expired>>
  BY DEF PostExchange, KeyExchange, CacheSecret, Answer, Await, redis, RivalInv, Inv, TypeOK
<1>2. status[e] = "Pending"
  BY <1>1 DEF RivalInv, OfExchange
<1>3. Settled
  BY <1>1, <1>2 DEF Settled
<1>4. OfExchange'
  BY <1>1, <1>2 DEF RivalInv, OfExchange
<1>5. \A u \in Users : dh[u] # None => dh'[u] # None
  BY DEF PostExchange, KeyExchange, CacheSecret, redis, RivalInv, Inv, TypeOK
<1>6. status'[e] = "Ok" => input' = input /\ dh'[input[e]] # None
  BY <1>2 DEF PostExchange, KeyExchange, CacheSecret, Answer, Await, RivalInv, Inv, TypeOK, Arrived
<1>7. QED
  BY <1>1, <1>3, <1>4, <1>5, <1>6, StepKeepsRivalInv

\* A create arrives.
LEMMA PostCreateKeepsRivalInv ==
  ASSUME RivalInv, Inv', NEW c \in Creates, NEW u \in Users, NEW realm \in Realms,
         NEW e \in Exchanges, NEW p \in Passwords, PostCreate(c, u, realm, e, p)
  PROVE  RivalInv'
<1>1. /\ \A r \in Requests \ {c} :
           pc'[r] = pc[r] /\ input'[r] = input[r] /\ status'[r] = status[r]
      /\ pc[c] = "idle"
      /\ status'[c] # status[c] => pc'[c] = "done"
      /\ status'[c] \notin {"Ok", "Forbidden"} \/ status'[c] = status[c]
      /\ input'[c].password.key = e /\ status[e] = "Ok"
      /\ UNCHANGED <<dh, restarts, expired, users>>
  BY DEF PostCreate, Answer, Await, redis, RivalInv, Inv, TypeOK
<1>2. status[c] = "Pending"
  BY <1>1 DEF RivalInv, OfExchange
<1>3. Settled
  BY <1>1, <1>2 DEF Settled
<1>4. OfExchange'
  <2>1. \A r \in Requests : status'[r] # "Pending" => pc'[r] = "done"
    BY <1>1, <1>2 DEF RivalInv, OfExchange
  <2>2. \A d \in Creates : pc'[d] # "idle" =>
          input'[d].password.key \in Exchanges /\ status'[input'[d].password.key] = "Ok"
    <3> SUFFICES ASSUME NEW d \in Creates, pc'[d] # "idle"
                 PROVE  \E x \in Exchanges : input'[d].password.key = x /\ status[x] = "Ok"
      BY <1>1
    <3>1. QED
      BY <1>1 DEF RivalInv, OfExchange
  <2>3. QED
    BY <2>1, <2>2 DEF OfExchange
<1>5. QED
  BY <1>1, <1>2, <1>3, <1>4, StepKeepsRivalInv

\* A create goes on without deleting a secret.
LEMMA ServeKeepsRivalInv ==
  ASSUME RivalInv, Inv', NEW c \in Creates, ServeCreate(c), ~ DeleteSecret(c)
  PROVE  RivalInv'
<1>1. /\ \A r \in Requests \ {c} : pc'[r] = pc[r] /\ status'[r] = status[r]
      /\ pc[c] \notin {"idle", "done"}
      /\ pc'[c] # "idle"
      /\ status'[c] # status[c] => pc'[c] = "done"
      /\ status'[c] # "Ok" \/ status'[c] = status[c]
      /\ UNCHANGED <<dh, restarts, expired, input>>
  <2>1. CASE RefusePassword(c) \/ RefuseExisting(c) \/ RefuseDuplicate(c)
    BY <2>1 DEF RefusePassword, RefuseExisting, RefuseDuplicate, Throw, Answer, Await, redis,
       RivalInv, Inv, TypeOK
  <2>2. CASE DecryptPassword(c) \/ FindNone(c) \/ Save(c) \/ SetKey(c)
    BY <2>2 DEF DecryptPassword, FindNone, Save, Inserted, SetKey, KeySet, Await, redis,
       RivalInv, Inv, TypeOK
  <2>3. QED
    BY <2>1, <2>2 DEF ServeCreate
<1>2. status[c] = "Pending"
  BY <1>1 DEF RivalInv, OfExchange
<1>3. Settled
  <2>1. \A n \in Names : users[n] # None => users'[n] = users[n]
    BY DEF ServeCreate, RefusePassword, DecryptPassword, RefuseExisting, FindNone, Save, Inserted,
       RefuseDuplicate, SetKey, KeySet, Throw, RivalInv, Inv, TypeOK
  <2>2. QED
    BY <1>1, <1>2, <2>1 DEF Settled
<1>4. OfExchange'
  BY <1>1, <1>2 DEF RivalInv, OfExchange
<1>5. status'[c] = "Forbidden" => dh[input[c].username] = None
  BY <1>2 DEF ServeCreate, RefusePassword, DecryptPassword, RefuseExisting, FindNone, Save,
     RefuseDuplicate, SetKey, Throw, Answer, Await, RivalInv, Inv, TypeOK
<1>6. QED
  BY <1>1, <1>2, <1>3, <1>4, <1>5, StepKeepsRivalInv

\* A request that is not idle is answered with an error or with "Created", and
\* if its command took a secret away it is a rival.
LEMMA AnswerKeepsRivalInv ==
  ASSUME RivalInv, Inv', NEW r \in Requests, pc[r] \notin {"idle", "done"},
         NEW code \in {"Created", "Failed"}, Answer(r, code), UNCHANGED input,
         \/ UNCHANGED <<redis, users>>
         \/ CacheSecret(r) /\ UNCHANGED users
         \/ Inserted(r)
         \/ KeySet(r)
         \/ SecretDeleted(r)
  PROVE  RivalInv'
<1>1. /\ \A x \in Requests \ {r} : pc'[x] = pc[x] /\ status'[x] = status[x]
      /\ pc'[r] = "done" /\ status'[r] = code
  BY DEF Answer, Await, RivalInv, Inv, TypeOK
<1>2. status[r] = "Pending"
  BY DEF RivalInv, OfExchange
<1>3. Settled
  <2>1. UNCHANGED <<restarts, expired>>
    BY DEF CacheSecret, Inserted, KeySet, SecretDeleted, redis
  <2>2. \A n \in Names : users[n] # None => users'[n] = users[n]
    BY DEF CacheSecret, Inserted, KeySet, SecretDeleted, RivalInv, Inv, TypeOK
  <2>3. QED
    BY <1>1, <1>2, <2>1, <2>2 DEF Settled
<1>4. OfExchange'
  BY <1>1, <1>2 DEF RivalInv, OfExchange
<1>5. \A u \in Users : dh[u] # None => dh'[u] # None \/ Rival(u)'
  <2>1. CASE SecretDeleted(r)
    <3>1. r \in Creates
      BY <2>1 DEF SecretDeleted, RivalInv, Inv, Arrived
    <3>2. Rival(input[r].username)'
      BY <2>1, <3>1, DeletedByRival DEF RivalInv
    <3>3. QED
      BY <2>1, <3>2 DEF SecretDeleted, RivalInv, Inv, TypeOK
  <2>2. CASE CacheSecret(r)
    BY <2>2 DEF CacheSecret, RivalInv, Inv, TypeOK, Arrived
  <2>3. CASE UNCHANGED redis \/ Inserted(r) \/ KeySet(r)
    BY <2>3 DEF redis, Inserted, KeySet
  <2>4. QED
    BY <2>1, <2>2, <2>3
<1>6. QED
  BY <1>1, <1>2, <1>3, <1>4, <1>5, StepKeepsRivalInv

LEMMA InitRivalInv == Init => RivalInv
BY InitInv DEF Init, RivalInv, OfExchange, SecretOrRival, RefusedToRival

LEMMA NextKeepsRivalInv == RivalInv /\ [Next]_vars => RivalInv'
<1> SUFFICES ASSUME RivalInv, [Next]_vars
             PROVE  RivalInv'
  OBVIOUS
<1>1. Inv'
  BY NextKeepsInv DEF RivalInv
<1>2. CASE Snapshot \/ RedisRestart \/ \E u \in Users : Expire(u)
  BY <1>1, <1>2, RedisKeepsRivalInv
<1>3. ASSUME NEW r \in Requests, Fail(r)
      PROVE  RivalInv'
  BY <1>1, <1>3, AnswerKeepsRivalInv DEF Fail
<1>4. ASSUME NEW e \in Exchanges,
             \/ \E u \in Users, g \in Groups, valid \in BOOLEAN : PostExchange(e, u, g, valid)
             \/ ServeExchange(e)
      PROVE  RivalInv'
  BY <1>1, <1>4, ExchangeKeepsRivalInv DEF ServeExchange
<1>5. ASSUME NEW c \in Creates,
             \E u \in Users, realm \in Realms, e \in Exchanges, p \in Passwords :
               PostCreate(c, u, realm, e, p)
      PROVE  RivalInv'
  BY <1>1, <1>5, PostCreateKeepsRivalInv
<1>6. ASSUME NEW c \in Creates, ServeCreate(c)
      PROVE  RivalInv'
  <2>1. CASE DeleteSecret(c)
    BY <1>1, <2>1, AnswerKeepsRivalInv DEF DeleteSecret, SecretDeleted
  <2>2. CASE ~ DeleteSecret(c)
    BY <1>1, <1>6, <2>2, ServeKeepsRivalInv
  <2>3. QED
    BY <2>1, <2>2
<1>7. CASE UNCHANGED vars
  <2>1. RivalInv = RivalInv'
    BY <1>1, <1>7 DEF vars, redis, RivalInv, OfExchange, SecretOrRival, RefusedToRival, Rival,
       Name, PrincipalKey, String2Key
  <2>2. QED
    BY <2>1
<1>8. QED
  BY <1>2, <1>3, <1>4, <1>5, <1>6, <1>7 DEF Next

-----------------------------------------------------------------------------
(* What a secret can register. *)

\* user.service.ts, the secret "is single-use", as far as it holds: a secret
\* registers no name but the one its exchange was made for, and no second user in
\* one realm, however often and under whichever name it is tried.
SecretStaysWithName ==
  \A c \in Creates :
    status[c] = "Created" =>
      /\ input[input[c].password.key] = input[c].username
      /\ \A d \in Creates \ {c} :
           status[d] = "Created" /\ input[d].password.key = input[c].password.key
             => input[d].realm # input[c].realm

\* Under a name is cached what an exchange for that name has made.
CachedByName(store) ==
  \A u \in Users : store[u] # None => pc[store[u]] # "idle" /\ input[store[u]] = u

\* The create has found the secret that its password is sealed under.
Unsealed(c) ==
  pc[c] \in {"db.findOne", "db.save", "keytab.set", "dh.del"} \/ status[c] = "Created"

\* Another exchange for the create's name.
Overwriter(c, e) == e # input[c].password.key /\ input[e] = input[c].username

SecretInv ==
  /\ RivalInv
  /\ CachedByName(dh) /\ CachedByName(saved.dh)
  /\ \A c \in Creates :
       /\ Unsealed(c) => input[input[c].password.key] = input[c].username
       /\ status[c] = "Unauthorized" =>
            \E e \in Exchanges : pc[e] # "idle" /\ Overwriter(c, e)

\* What a step can do to the inputs and the secrets: inputs stay, and only an
\* exchange brings a secret that was neither cached nor in the snapshot.
InputsStay ==
  \A r \in Requests : pc[r] # "idle" => pc'[r] # "idle" /\ input'[r] = input[r]

SecretsFrom(store) ==
  \A u \in Users :
    \/ store[u] \in {None, dh[u], saved.dh[u]}
    \/ store[u] \in Exchanges /\ pc[store[u]] # "idle" /\ input[store[u]] = u

UnsealedBySecret ==
  \A c \in Creates :
    Unsealed(c)' => \/ Unsealed(c)
                    \/ pc[c] = "dh.get" /\ dh[input[c].username] = input[c].password.key

RefusedBySecret ==
  \A c \in Creates :
    status'[c] = "Unauthorized" =>
      \/ status[c] = "Unauthorized"
      \/ pc[c] = "dh.get" /\ dh[input[c].username] \notin {None, input[c].password.key}

\* A secret stays under its name in what is cached next.
LEMMA SecretsStay ==
  ASSUME SecretInv, InputsStay, NEW store, SecretsFrom(store)
  PROVE  \A u \in Users : store[u] # None => pc'[store[u]] # "idle" /\ input'[store[u]] = u
<1> SUFFICES ASSUME NEW u \in Users, store[u] # None
             PROVE  pc'[store[u]] # "idle" /\ input'[store[u]] = u
  OBVIOUS
<1>1. dh[u] \in Exchanges \cup {None} /\ saved.dh[u] \in Exchanges \cup {None}
  BY DEF SecretInv, RivalInv, Inv, TypeOK
<1>2. store[u] \in Exchanges /\ pc[store[u]] # "idle" /\ input[store[u]] = u
  BY <1>1 DEF SecretsFrom, SecretInv, CachedByName
<1>3. QED
  BY <1>2 DEF InputsStay

LEMMA StepKeepsSecrets ==
  ASSUME SecretInv, RivalInv', InputsStay, UnsealedBySecret, RefusedBySecret,
         SecretsFrom(dh'), SecretsFrom(saved'.dh)
  PROVE  SecretInv'
<1>1. CachedByName(dh)' /\ CachedByName(saved.dh)'
  <2>1. \A u \in Users : dh'[u] # None => pc'[dh'[u]] # "idle" /\ input'[dh'[u]] = u
    BY SecretsStay
  <2>2. \A u \in Users :
          saved'.dh[u] # None => pc'[saved'.dh[u]] # "idle" /\ input'[saved'.dh[u]] = u
    BY SecretsStay
  <2>3. QED
    BY <2>1, <2>2 DEF CachedByName
<1>2. ASSUME NEW c \in Creates, Unsealed(c)'
      PROVE  input'[input'[c].password.key] = input'[c].username
  <2>1. pc[c] # "idle"
    BY <1>2 DEF UnsealedBySecret, Unsealed, SecretInv, RivalInv, Inv, Arrived
  <2>2. PICK e \in Exchanges : e = input[c].password.key /\ status[e] = "Ok"
    BY <2>1 DEF SecretInv, RivalInv, OfExchange
  <2>3. pc[e] # "idle"
    BY <2>2 DEF SecretInv, RivalInv, OfExchange
  <2>4. input'[e] = input[e] /\ input'[c] = input[c]
    BY <2>1, <2>3 DEF InputsStay
  <2>5. input[e] = input[c].username
    <3>1. CASE Unsealed(c)
      BY <2>2, <3>1 DEF SecretInv
    <3>2. CASE dh[input[c].username] = input[c].password.key
      <4>1. input[c].username \in Users
        BY <2>1, NameType DEF SecretInv, RivalInv
      <4>2. e # None
        OBVIOUS
      <4>3. QED
        BY <2>2, <3>2, <4>1, <4>2 DEF SecretInv, CachedByName
    <3>3. QED
      BY <1>2, <3>1, <3>2 DEF UnsealedBySecret
  <2>6. QED
    BY <2>2, <2>4, <2>5
<1>3. ASSUME NEW c \in Creates, status'[c] = "Unauthorized"
      PROVE  \E e \in Exchanges : pc'[e] # "idle" /\ Overwriter(c, e)'
  <2>1. pc[c] # "idle"
    BY <1>3 DEF RefusedBySecret, SecretInv, RivalInv, OfExchange
  <2>2. PICK e \in Exchanges : pc[e] # "idle" /\ Overwriter(c, e)
    <3>1. CASE status[c] = "Unauthorized"
      BY <3>1 DEF SecretInv
    <3>2. CASE dh[input[c].username] \notin {None, input[c].password.key}
      <4>1. input[c].username \in Users
        BY <2>1, NameType DEF SecretInv, RivalInv
      <4>2. dh[input[c].username] \in Exchanges
        BY <3>2, <4>1 DEF SecretInv, RivalInv, Inv, TypeOK
      <4>3. QED
        BY <3>2, <4>1, <4>2 DEF SecretInv, CachedByName, Overwriter
    <3>3. QED
      BY <1>3, <3>1, <3>2 DEF RefusedBySecret
  <2>3. QED
    BY <2>1, <2>2 DEF InputsStay, Overwriter
<1>4. QED
  BY <1>1, <1>2, <1>3 DEF SecretInv

\* What an exchange brings is its own secret, under the name it was made for.
LEMMA CacheSecretBrings ==
  ASSUME Inv, NEW r \in Requests, CacheSecret(r)
  PROVE  SecretsFrom(dh')
<1>1. r \in Exchanges /\ input[r] \in Users /\ pc[r] # "idle"
  BY DEF CacheSecret, Inv, Arrived
<1>2. QED
  BY <1>1 DEF CacheSecret, SecretsFrom, Inv, TypeOK

\* An answer to a request leaves every input, and no create got past its secret
\* by it.
LEMMA AnswerKeepsSecrets ==
  ASSUME SecretInv, RivalInv', NEW r \in Requests, pc[r] \notin {"idle", "done"},
         NEW code \in Statuses, Answer(r, code), code = "Created" => Unsealed(r),
         code = "Unauthorized" =>
           pc[r] = "dh.get" /\ dh[input[r].username] \notin {None, input[r].password.key},
         UNCHANGED input, UNCHANGED saved, SecretsFrom(dh')
  PROVE  SecretInv'
<1>1. /\ pc'[r] = "done" /\ status'[r] = code
      /\ \A x \in Requests \ {r} : pc'[x] = pc[x] /\ status'[x] = status[x]
  BY DEF Answer, Await, SecretInv, RivalInv, Inv, TypeOK
<1>2. InputsStay
  BY <1>1 DEF InputsStay
<1>3. UnsealedBySecret
  BY <1>1 DEF UnsealedBySecret, Unsealed
<1>4. RefusedBySecret
  BY <1>1 DEF RefusedBySecret
<1>5. SecretsFrom(saved'.dh)
  BY DEF SecretsFrom
<1>6. QED
  BY <1>2, <1>3, <1>4, <1>5, StepKeepsSecrets

LEMMA FailKeepsSecrets ==
  ASSUME SecretInv, RivalInv', NEW r \in Requests, Fail(r)
  PROVE  SecretInv'
<1>1. /\ pc[r] \notin {"idle", "done"} /\ Answer(r, "Failed") /\ UNCHANGED <<input, saved>>
      /\ UNCHANGED dh \/ CacheSecret(r) \/ SecretDeleted(r)
  BY DEF Fail, CacheSecret, Inserted, KeySet, SecretDeleted, redis
<1>2. SecretsFrom(dh')
  <2>1. CASE UNCHANGED dh
    BY <2>1 DEF SecretsFrom
  <2>2. CASE CacheSecret(r)
    BY <2>2, CacheSecretBrings DEF SecretInv, RivalInv
  <2>3. CASE SecretDeleted(r)
    BY <2>3 DEF SecretDeleted, SecretsFrom, SecretInv, RivalInv, Inv, TypeOK
  <2>4. QED
    BY <1>1, <2>1, <2>2, <2>3
<1>3. QED
  BY <1>1, <1>2, AnswerKeepsSecrets DEF Statuses

\* A create opens its password with the secret under its name, or gets on from
\* there.
LEMMA ServeKeepsSecrets ==
  ASSUME SecretInv, RivalInv', NEW c \in Creates, ServeCreate(c)
  PROVE  SecretInv'
<1>1. CASE RefusePassword(c) \/ RefuseExisting(c) \/ RefuseDuplicate(c)
  <2>1. PICK code \in Statuses \ {"Created"} :
          /\ Throw(c, code)
          /\ code = "Unauthorized" =>
               /\ pc[c] = "dh.get"
               /\ dh[input[c].username] \notin {None, input[c].password.key}
    BY <1>1 DEF RefusePassword, RefuseExisting, RefuseDuplicate, Statuses
  <2>2. pc[c] \notin {"idle", "done"}
    BY <1>1 DEF RefusePassword, RefuseExisting, RefuseDuplicate
  <2>3. UNCHANGED <<dh, saved, input>> /\ Answer(c, code)
    BY <2>1 DEF Throw, redis
  <2>4. QED
    BY <2>1, <2>2, <2>3, AnswerKeepsSecrets DEF SecretsFrom
<1>2. CASE DeleteSecret(c)
  <2>1. SecretsFrom(dh')
    BY <1>2 DEF DeleteSecret, SecretDeleted, SecretsFrom, SecretInv, RivalInv, Inv, TypeOK
  <2>2. QED
    BY <1>2, <2>1, AnswerKeepsSecrets DEF DeleteSecret, SecretDeleted, Unsealed, Statuses
<1>3. CASE DecryptPassword(c) \/ FindNone(c) \/ Save(c) \/ SetKey(c)
  <2>1. /\ UNCHANGED <<dh, saved, input, status>>
        /\ \A x \in Requests \ {c} : pc'[x] = pc[x]
        /\ pc'[c] # "idle"
        /\ \/ pc[c] \in {"db.findOne", "db.save", "keytab.set"}
           \/ pc[c] = "dh.get" /\ dh[input[c].username] = input[c].password.key
    BY <1>3 DEF DecryptPassword, FindNone, Save, Inserted, SetKey, KeySet, Await, redis,
       SecretInv, RivalInv, Inv, TypeOK
  <2>2. InputsStay /\ SecretsFrom(dh') /\ SecretsFrom(saved'.dh)
    BY <2>1 DEF InputsStay, SecretsFrom
  <2>3. UnsealedBySecret /\ RefusedBySecret
    BY <2>1 DEF UnsealedBySecret, Unsealed, RefusedBySecret
  <2>4. QED
    BY <2>2, <2>3, StepKeepsSecrets
<1>4. QED
  BY <1>1, <1>2, <1>3 DEF ServeCreate

\* A request arrives.
LEMMA PostKeepsSecrets ==
  ASSUME SecretInv, RivalInv', NEW r \in Requests,
         \/ \E u \in Users, g \in Groups, valid \in BOOLEAN : PostExchange(r, u, g, valid)
         \/ \E u \in Users, realm \in Realms, e \in Exchanges, p \in Passwords :
              PostCreate(r, u, realm, e, p)
  PROVE  SecretInv'
<1>1. /\ pc[r] = "idle" /\ UNCHANGED <<dh, saved>>
      /\ \A x \in Requests \ {r} :
           pc'[x] = pc[x] /\ input'[x] = input[x] /\ status'[x] = status[x]
      /\ pc'[r] \in {"dh.set", "dh.get", "done"}
      /\ status'[r] # status[r] => status'[r] \in {"BadRequest", "InternalError"}
  BY DEF PostExchange, PostCreate, Answer, Await, redis, SecretInv, RivalInv, Inv, TypeOK
<1>2. InputsStay /\ SecretsFrom(dh') /\ SecretsFrom(saved'.dh)
  BY <1>1 DEF InputsStay, SecretsFrom
<1>3. UnsealedBySecret /\ RefusedBySecret
  BY <1>1 DEF UnsealedBySecret, Unsealed, RefusedBySecret
<1>4. QED
  BY <1>2, <1>3, StepKeepsSecrets

\* Redis takes a snapshot or restarts, or a TTL ends.
LEMMA RedisKeepsSecrets ==
  ASSUME SecretInv, RivalInv', Snapshot \/ RedisRestart \/ \E u \in Users : Expire(u)
  PROVE  SecretInv'
<1>1. UNCHANGED <<pc, input, status>>
  BY DEF Snapshot, RedisRestart, Expire
<1>2. InputsStay /\ UnsealedBySecret /\ RefusedBySecret
  BY <1>1 DEF InputsStay, UnsealedBySecret, Unsealed, RefusedBySecret
<1>3. SecretsFrom(dh') /\ SecretsFrom(saved'.dh)
  BY DEF Snapshot, RedisRestart, Expire, SecretsFrom, SecretInv, RivalInv, Inv, TypeOK
<1>4. QED
  BY <1>2, <1>3, StepKeepsSecrets

LEMMA NextKeepsSecrets == SecretInv /\ [Next]_vars => SecretInv'
<1> SUFFICES ASSUME SecretInv, [Next]_vars
             PROVE  SecretInv'
  OBVIOUS
<1>1. RivalInv'
  BY NextKeepsRivalInv DEF SecretInv
<1>2. CASE Snapshot \/ RedisRestart \/ \E u \in Users : Expire(u)
  BY <1>1, <1>2, RedisKeepsSecrets
<1>3. ASSUME NEW r \in Requests, Fail(r)
      PROVE  SecretInv'
  BY <1>1, <1>3, FailKeepsSecrets
<1>4. ASSUME NEW e \in Exchanges,
             \/ \E u \in Users, g \in Groups, valid \in BOOLEAN : PostExchange(e, u, g, valid)
             \/ ServeExchange(e)
      PROVE  SecretInv'
  <2>1. CASE ServeExchange(e)
    <3>1. /\ pc[e] = "dh.set" /\ CacheSecret(e) /\ Answer(e, "Ok")
          /\ UNCHANGED <<saved, input>>
      BY <2>1 DEF ServeExchange, KeyExchange, CacheSecret
    <3>2. SecretsFrom(dh')
      BY <3>1, CacheSecretBrings DEF SecretInv, RivalInv
    <3>3. QED
      BY <1>1, <3>1, <3>2, AnswerKeepsSecrets DEF Statuses
  <2>2. CASE ~ ServeExchange(e)
    BY <1>1, <1>4, <2>2, PostKeepsSecrets
  <2>3. QED
    BY <2>1, <2>2
<1>5. ASSUME NEW c \in Creates,
             \E u \in Users, realm \in Realms, e \in Exchanges, p \in Passwords :
               PostCreate(c, u, realm, e, p)
      PROVE  SecretInv'
  BY <1>1, <1>5, PostKeepsSecrets
<1>6. ASSUME NEW c \in Creates, ServeCreate(c)
      PROVE  SecretInv'
  BY <1>1, <1>6, ServeKeepsSecrets
<1>7. CASE UNCHANGED vars
  <2>1. UNCHANGED <<dh, saved, pc, input, status>>
    BY <1>7 DEF vars, redis
  <2>2. /\ InputsStay /\ UnsealedBySecret /\ RefusedBySecret
        /\ SecretsFrom(dh') /\ SecretsFrom(saved'.dh)
    BY <2>1 DEF InputsStay, UnsealedBySecret, Unsealed, RefusedBySecret, SecretsFrom
  <2>3. QED
    BY <1>1, <2>2, StepKeepsSecrets
<1>8. QED
  BY <1>2, <1>3, <1>4, <1>5, <1>6, <1>7 DEF Next

LEMMA InitSecretInv == Init => SecretInv
BY InitRivalInv DEF Init, SecretInv, CachedByName, Unsealed

\* A client that is refused for want of a secret has a rival under its name that
\* registered, one that is refused for a wrong secret a rival that made a key
\* exchange, whichever exchanges, failures and registrations under other names
\* interleaved.
THEOREM RefusedOnlyAfterRivalHolds == Spec => []RefusedOnlyAfterRival
<1>1. SecretInv => RefusedOnlyAfterRival
  <2>1. ASSUME RivalInv, NEW c \in Creates, restarts = 0, status[c] = "Forbidden",
               input[input[c].password.key] = input[c].username,
               input[c].username \notin expired
        PROVE  Rival(input[c].username)
    <3>1. input[c].username \in Users
      BY <2>1, NameType DEF RivalInv, OfExchange
    <3>2. QED
      BY <2>1, <3>1 DEF RivalInv, RefusedToRival
  <2>2. ASSUME SecretInv, NEW c \in Creates, status[c] = "Unauthorized"
        PROVE  \E e \in Exchanges \ {input[c].password.key} : input[e] = input[c].username
    BY <2>2 DEF SecretInv, Overwriter
  <2>3. QED
    BY <2>1, <2>2 DEF RefusedOnlyAfterRival, Rival, SecretInv
<1>2. QED
  BY <1>1, InitSecretInv, NextKeepsSecrets, PTL DEF Spec

\* However secrets, registrations, failures and restarts interleave, a secret
\* registers the name of its exchange only, once per realm (keyExchange and
\* create of user.service.ts).  The run registration_secret_reuse shows the
\* second realm.
THEOREM SecretStaysWithNameHolds == Spec => []SecretStaysWithName
<1>1. SecretInv => SecretStaysWithName
  <2> SUFFICES ASSUME SecretInv, NEW c \in Creates, status[c] = "Created"
               PROVE  /\ input[input[c].password.key] = input[c].username
                      /\ \A d \in Creates \ {c} :
                           /\ status[d] = "Created"
                           /\ input[d].password.key = input[c].password.key
                           => input[d].realm # input[c].realm
    BY DEF SecretStaysWithName
  <2>1. \A d \in Creates :
          status[d] = "Created" => input[input[d].password.key] = input[d].username
    BY DEF SecretInv, Unsealed
  <2>2. \A d \in Creates :
          status[d] = "Created" /\ Name(d) = Name(c) => d = c
    BY DEF SecretInv, RivalInv, Inv, WinnersRow, Won
  <2>3. QED
    BY <2>1, <2>2 DEF Name
<1>2. QED
  BY <1>1, InitSecretInv, NextKeepsSecrets, PTL DEF Spec
=============================================================================
