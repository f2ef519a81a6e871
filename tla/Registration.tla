----------------------------- MODULE Registration -----------------------------
(***************************************************************************)
(* Principal registration in the application service: POST /user/dh        *)
(* (UserService.keyExchange) and POST /user/:realm (UserService.create).   *)
(*                                                                         *)
(* A registration touches two stores with no transaction around them: the  *)
(* row in PostgreSQL, which survives, and the keytab entry in Redis, which *)
(* the KDC reads and a restart of Redis may lose.  Each action is one      *)
(* command to a store with the code that runs when it answers; requests    *)
(* interleave at every await, and each command may fail before or after it *)
(* took effect.                                                            *)
(***************************************************************************)
EXTENDS Naturals

CONSTANTS
  Exchanges,    \* the POST /user/dh requests; each stands for its DH secret too
  Creates,      \* the POST /user/:realm requests
  Users,        \* usernames, each with entries of its own in Redis: none is that of
                \* a seeded principal, interval, dh or dh@...
  Realms,       \* the realms in the path of a request
  Configured,   \* those of them that are configured
  Passwords,    \* the passwords clients choose
  Short,        \* those under 8 characters
  Groups,       \* the DH groups clients ask for
  GROUPS,       \* those on the service's list
  None,         \* undefined, null
  MaxRestarts   \* bound on the restarts of Redis

Names == Users \X Realms

\* string2key: the password salted with the realm and the username.
Key == [password: Passwords, realm: Realms, username: Users]

\* Mutant: the password itself is stored.
String2KeyIdentity(password, realm, username) == password

String2Key(password, realm, username) ==
  [password |-> password, realm |-> realm, username |-> username]

ASSUME RegistrationAssumption ==
  /\ Configured \subseteq Realms
  /\ "dh" \in Users => Users \cap Realms = {}  \* dh@<username>, <username>@<realm>
  /\ Short \subseteq Passwords
  /\ GROUPS \subseteq Groups
  /\ Exchanges \cap Creates = {}
  /\ None \notin Exchanges \cup Users \cup Realms \cup Key
  /\ MaxRestarts \in Nat

CreateUser == [username: Users, realm: Realms,
               password: [key: Exchanges, payload: Passwords]]

VARIABLES
  dh,        \* dh@<username> in Redis: the exchange whose secret is cached
  keytab,    \* <username>@<realm> in Redis
  users,     \* the User table of PostgreSQL: principalKey by username and realm
  saved,     \* the last snapshot of Redis
  restarts,  \* restarts of Redis so far
  pc,        \* the command each request awaits
  input,     \* what each request carries
  status,    \* how each request was answered
  expired    \* history: the users who lost a secret to its TTL

redis == <<dh, keytab, saved, restarts, expired>>
vars == <<redis, users, pc, input, status>>

Requests == Exchanges \cup Creates

Init ==
  /\ dh = [u \in Users |-> None]
  /\ keytab = [n \in Names |-> None]
  /\ users = [n \in Names |-> None]
  /\ saved = [dh |-> dh, keytab |-> keytab]
  /\ restarts = 0
  /\ pc = [r \in Requests |-> "idle"]
  /\ input = [r \in Requests |-> None]
  /\ status = [r \in Requests |-> "Pending"]
  /\ expired = {}

Await(r, command) == pc' = [pc EXCEPT ![r] = command]

Answer(r, code) ==
  /\ Await(r, "done")
  /\ status' = [status EXCEPT ![r] = code]

\* An exception: nothing but the answer changes.
Throw(r, code) ==
  /\ Answer(r, code)
  /\ UNCHANGED <<redis, users, input>>

-----------------------------------------------------------------------------
(* keyExchange *)

\* The service makes its half and the secret at once, and caches the secret.
\* A group that is not on the list is a 400, a public key that OpenSSL rejects
\* is an error that is no HttpException.
PostExchange(e, u, group, validKey) ==
  /\ pc[e] = "idle"
  /\ input' = [input EXCEPT ![e] = u]
  /\ \/ group \notin GROUPS /\ Answer(e, "BadRequest")
     \/ group \in GROUPS /\ ~ validKey /\ Answer(e, "InternalError")
     \/ group \in GROUPS /\ validKey /\ Await(e, "dh.set") /\ UNCHANGED status
  /\ UNCHANGED <<redis, users>>

CacheSecret(e) ==
  /\ pc[e] = "dh.set"
  /\ dh' = [dh EXCEPT ![input[e]] = e]
  /\ UNCHANGED <<keytab, saved, restarts, expired>>

KeyExchange(e) ==
  /\ CacheSecret(e)
  /\ Answer(e, "Ok")
  /\ UNCHANGED <<users, input>>

-----------------------------------------------------------------------------
(* create *)

Name(c) == <<input[c].username, input[c].realm>>

PrincipalKey(c) ==
  String2Key(input[c].password.payload, input[c].realm, input[c].username)

\* The realm has a section in the service's own configuration.
KnownRealm(realm) == realm \in Configured

\* The client seals its password under the secret of an exchange it completed.
PostCreate(c, u, realm, e, password) ==
  /\ pc[c] = "idle"
  /\ status[e] = "Ok"
  /\ input' = [input EXCEPT ![c] =
       [username |-> u, realm |-> realm,
        password |-> [key |-> e, payload |-> password]]]
  /\ IF KnownRealm(realm)
     THEN Await(c, "dh.get") /\ UNCHANGED status
     ELSE Answer(c, "BadRequest")
  /\ UNCHANGED <<redis, users>>

\* Mutant: a password that does not open uses the secret up.
RefusePasswordConsuming(c) ==
  /\ pc[c] = "dh.get"
  /\ LET shared == dh[input[c].username]
     IN  \/ shared = None /\ Answer(c, "Forbidden")
         \/ shared \notin {None, input[c].password.key} /\ Answer(c, "Unauthorized")
  /\ dh' = [dh EXCEPT ![input[c].username] = None]
  /\ UNCHANGED <<keytab, saved, restarts, expired, users, input>>

\* No secret, another one, or a password that is too short.
RefusePassword(c) ==
  /\ pc[c] = "dh.get"
  /\ LET shared == dh[input[c].username]
         password == input[c].password
     IN  \/ shared = None /\ Throw(c, "Forbidden")
         \/ shared \notin {None, password.key} /\ Throw(c, "Unauthorized")
         \/ shared = password.key /\ password.payload \in Short /\ Throw(c, "BadRequest")

\* Mutant: the keytab is written before the duplicate is noticed, as an earlier
\* version did.
DecryptPasswordEarlyKey(c) ==
  /\ pc[c] = "dh.get"
  /\ dh[input[c].username] = input[c].password.key
  /\ input[c].password.payload \notin Short
  /\ Await(c, "db.findOne")
  /\ keytab' = [keytab EXCEPT ![Name(c)] = PrincipalKey(c)]
  /\ UNCHANGED <<dh, saved, restarts, expired, users, input, status>>

DecryptPassword(c) ==
  /\ pc[c] = "dh.get"
  /\ dh[input[c].username] = input[c].password.key
  /\ input[c].password.payload \notin Short
  /\ Await(c, "db.findOne")
  /\ UNCHANGED <<redis, users, input, status>>

RefuseExisting(c) ==
  /\ pc[c] = "db.findOne"
  /\ users[Name(c)] # None
  /\ Throw(c, "Conflict")

FindNone(c) ==
  /\ pc[c] = "db.findOne"
  /\ users[Name(c)] = None
  /\ Await(c, "db.save")
  /\ UNCHANGED <<redis, users, input, status>>

\* Mutant: no unique index on username and realm; the later row wins.
InsertedAgain(c) ==
  /\ pc[c] = "db.save"
  /\ users' = [users EXCEPT ![Name(c)] = PrincipalKey(c)]
  /\ UNCHANGED redis

\* The row is inserted; the unique index admits one per username and realm.
Inserted(c) ==
  /\ pc[c] = "db.save"
  /\ users[Name(c)] = None
  /\ users' = [users EXCEPT ![Name(c)] = PrincipalKey(c)]
  /\ UNCHANGED redis

\* Mutant: the keytab is not written.
SaveOnly(c) ==
  /\ Inserted(c)
  /\ Await(c, "dh.del")
  /\ UNCHANGED <<input, status>>

Save(c) ==
  /\ Inserted(c)
  /\ Await(c, "keytab.set")
  /\ UNCHANGED <<input, status>>

\* Mutant: the failed insert is not reported.
RefuseDuplicateSilently(c) ==
  /\ pc[c] = "db.save"
  /\ users[Name(c)] # None
  /\ UNCHANGED vars

\* Another request inserted the row since findOne: TypeORM's QueryFailedError
\* is no HttpException.
RefuseDuplicate(c) ==
  /\ pc[c] = "db.save"
  /\ users[Name(c)] # None
  /\ Throw(c, "InternalError")

KeySet(c) ==
  /\ pc[c] = "keytab.set"
  /\ keytab' = [keytab EXCEPT ![Name(c)] = PrincipalKey(c)]
  /\ UNCHANGED <<dh, saved, restarts, expired, users>>

SetKey(c) ==
  /\ KeySet(c)
  /\ Await(c, "dh.del")
  /\ UNCHANGED <<input, status>>

\* del removes whatever secret is cached for the username by now.
SecretDeleted(c) ==
  /\ pc[c] = "dh.del"
  /\ dh' = [dh EXCEPT ![input[c].username] = None]
  /\ UNCHANGED <<keytab, saved, restarts, expired, users>>

DeleteSecret(c) ==
  /\ SecretDeleted(c)
  /\ Answer(c, "Created")
  /\ UNCHANGED input

-----------------------------------------------------------------------------
(* Redis, PostgreSQL and failures. *)

\* A command fails, or its reply is lost after it took effect, or the process
\* stops at the await.
Fail(r) ==
  /\ pc[r] \notin {"idle", "done"}
  /\ Answer(r, "Failed")
  /\ \/ UNCHANGED <<redis, users>>
     \/ CacheSecret(r) /\ UNCHANGED users
     \/ Inserted(r) \/ KeySet(r) \/ SecretDeleted(r)
  /\ UNCHANGED input

\* DH_TTL_SECONDS have passed since the exchange; when that is relative to the
\* other steps is left open.
Expire(u) ==
  /\ dh[u] # None
  /\ dh' = [dh EXCEPT ![u] = None]
  /\ saved' = [saved EXCEPT !.dh[u] = IF @ = dh[u] THEN None ELSE @]
  /\ expired' = expired \cup {u}
  /\ UNCHANGED <<keytab, restarts, users, pc, input, status>>

\* redis-server --save 20 1 writes a snapshot from time to time ...
Snapshot ==
  /\ restarts < MaxRestarts
  /\ saved' = [dh |-> dh, keytab |-> keytab]
  /\ UNCHANGED <<dh, keytab, restarts, expired, users, pc, input, status>>

\* ... and a restart loses what came after the last one.
RedisRestart ==
  /\ restarts < MaxRestarts
  /\ restarts' = restarts + 1
  /\ dh' = saved.dh
  /\ keytab' = saved.keytab
  /\ UNCHANGED <<saved, expired, users, pc, input, status>>

-----------------------------------------------------------------------------

\* The steps the service takes by itself once a request has arrived.
ServeExchange(e) == KeyExchange(e)

ServeCreate(c) ==
  \/ RefusePassword(c) \/ DecryptPassword(c)
  \/ RefuseExisting(c) \/ FindNone(c)
  \/ Save(c) \/ RefuseDuplicate(c)
  \/ SetKey(c) \/ DeleteSecret(c)

Next ==
  \/ Snapshot
  \/ RedisRestart
  \/ \E u \in Users : Expire(u)
  \/ \E r \in Requests : Fail(r)
  \/ \E e \in Exchanges :
       \/ \E u \in Users, g \in Groups, valid \in BOOLEAN : PostExchange(e, u, g, valid)
       \/ ServeExchange(e)
  \/ \E c \in Creates :
       \/ \E u \in Users, realm \in Realms, e \in Exchanges, p \in Passwords :
            PostCreate(c, u, realm, e, p)
       \/ ServeCreate(c)

Spec == Init /\ [][Next]_vars

\* Redis and PostgreSQL answer and the event loop runs every continuation.
FairSpec ==
  /\ Spec
  /\ \A e \in Exchanges : WF_vars(ServeExchange(e))
  /\ \A c \in Creates : WF_vars(ServeCreate(c))

-----------------------------------------------------------------------------

Commands ==
  {"idle", "dh.set", "dh.get", "db.findOne", "db.save", "keytab.set", "dh.del", "done"}

Statuses ==
  {"Pending", "BadRequest", "Unauthorized", "Forbidden", "Conflict",
   "InternalError", "Failed", "Ok", "Created"}

TypeOK ==
  /\ dh \in [Users -> Exchanges \cup {None}]
  /\ keytab \in [Names -> Key \cup {None}]
  /\ users \in [Names -> Key \cup {None}]
  /\ saved \in [dh: [Users -> Exchanges \cup {None}], keytab: [Names -> Key \cup {None}]]
  /\ restarts \in 0 .. MaxRestarts
  /\ pc \in [Requests -> Commands]
  /\ input \in [Requests -> CreateUser \cup Users \cup {None}]
  /\ status \in [Requests -> Statuses]
  /\ expired \in SUBSET Users

\* The key the KDC would use for a user is the one in that user's row, whatever
\* raced, failed or restarted: the keytab is never ahead of PostgreSQL and never
\* holds the key of a registration that lost.
KeytabAgreesWithDb ==
  \A n \in Names : keytab[n] # None => keytab[n] = users[n]

\* "Created" means it: of the requests for one username and realm only one is
\* told so, the row holds the key of its password, and so does the keytab until
\* Redis restarts.
CreatedIsExclusive ==
  \A c \in Creates :
    status[c] = "Created" =>
      /\ users[Name(c)] = PrincipalKey(c)
      /\ restarts = 0 => keytab[Name(c)] = PrincipalKey(c)
      /\ \A d \in Creates : status[d] = "Created" /\ Name(d) = Name(c) => d = c

\* A user with a row and no keytab entry can neither log in (the AS finds no
\* key) nor register again (409).  Without a restart of Redis it takes a create
\* that failed between its two writes; otherwise the entry is on its way.
HalfRegisteredOnlyAfterFailure ==
  \A n \in Names :
    restarts = 0 /\ users[n] # None /\ keytab[n] = None =>
      \E c \in Creates :
        /\ pc[c] = "keytab.set" \/ status[c] = "Failed"
        /\ Name(c) = n
        /\ PrincipalKey(c) = users[n]

\* user.service.spec.ts, "rejects a duplicate principal without touching the
\* keytab": a principal's key is never replaced by another.
KeyNeverReplaced ==
  [][\A n \in Names : keytab[n] # None => keytab'[n] \in {keytab[n], None}]_vars

\* A client whose exchange for its name was answered finds no secret (403) only
\* when another registration under that name has inserted its row and been
\* answered or failed, whichever exchange its secret came from: keyExchange itself
\* never takes one away, and a registration under another name neither.  It finds
\* a secret that does not open its password (401) only when there was another
\* exchange for the name.
RefusedOnlyAfterRival ==
  \A c \in Creates :
    /\ /\ restarts = 0 /\ status[c] = "Forbidden"
       /\ input[input[c].password.key] = input[c].username
       /\ input[c].username \notin expired
       =>
         \E d \in Creates :
           /\ status[d] \in {"Created", "Failed"}
           /\ input[d].username = input[c].username
           /\ users[Name(d)] = PrincipalKey(d)
    /\ status[c] = "Unauthorized" =>
         \E e \in Exchanges \ {input[c].password.key} : input[e] = input[c].username

\* Registration, with its two stores and its failures, implements the registry
\* of PrincipalRegistry: PostgreSQL registers, the keytab is what the KDC knows.
Registry == INSTANCE PrincipalRegistry WITH registered <- users, known <- keytab

RegistryPromise == Registry!Spec

\* Every request that arrives is answered.
Answered ==
  \A r \in Requests : pc[r] # "idle" ~> pc[r] = "done"

\* user.service.ts: the secret "is single-use: create() deletes it".  (Not so:
\* see the run registration_secret_reuse.)
SecretRegistersOnce ==
  \A c, d \in Creates :
    /\ status[c] = "Created" /\ status[d] = "Created"
    /\ input[c].password.key = input[d].password.key
    => c = d
=============================================================================
