# Nesty-kerberos: specification

TLA+ modules of the protocol logic in this repository, TLC configurations that
check them on small instances, and TLAPS proofs of what matters most for every
size. `PROJECT.json` relates each definition to the lines it models, lists the
runs, the mutants that show each property can fail, and the hazards.

## 1. The system

Two NestJS applications share one Redis; one of them also owns a PostgreSQL.

| Component | State | Operations |
|---|---|---|
| Authentication Service (`kdc/src/as`) | none of its own; reads the keytab | `POST /as/:realm` |
| Ticket Granting Service (`kdc/src/tgs`) | replay entries in Redis | `POST /tgs/:realm` |
| KDC interceptor (`kdc/src/common/interceptors`) | none; reads keytab and policy | `prepare` before the handler, `shape` after it |
| Keytab seeder, realm configuration (`kdc/src/common/keytab`, `config/realms.ts`) | `<principal>@<realm>`, `interval@<realm>` in Redis | once, at boot, before the KDC listens |
| AP exchange (`service/src/tickets-manager`, `service/.../kerberos.interceptor.ts`) | replay entries in Redis | `POST /tickets-manager/:realm` |
| Principal registration (`service/src/user`) | `dh@<user>` and `<user>@<realm>` in Redis, the `User` table | `POST /user/dh`, `POST /user/:realm` |
| Replay cache (`common/cache`, one copy per application) | `replay:...` in Redis, with a TTL | `isReplay` |
| Crypto service (`common/crypto`, two copies) | none | `encrypt`, `decrypt`, `string2key`, `genKey`, `getLifetime` |
| Diffie-Hellman service (`service/.../dh`) | none | `getPublicKey`, `deriveKey` |
| Client (`scripts/walk.mjs`, `*/test/kerberos-client.ts`) | its password, tickets, session keys | register, AS, TGS, AP |
| Redis, PostgreSQL (`docker-compose.yml`) | external | atomic commands, TTLs, snapshots (`--save 20 1`), a unique index |
| Wiring (`*.module.ts`, `main.ts`), scaffold `GET /` | none | - |

How they interact:

- The client talks HTTP to both applications. The applications never call each
  other: what the AS and the TGS tell a service travels inside tickets, and the
  rest goes through Redis. The seeder (KDC) and registration (service) write the
  keytab; the AS, the TGS and the AP exchange read it.
- Nest runs interceptor, validation pipe, handler, and the interceptor's mapping
  of the result, in this order, as one chain of promises. JavaScript runs the
  code between two awaits without interruption; every await (a command to Redis
  or PostgreSQL) lets other requests run, lets time pass, and may fail.

What is hard here, and what each part has to get right:

- **AP exchange, TGS.** Requests with the same authenticator overlap; the
  timestamp is checked before the await that records it; the record's lifetime
  and the window are counted from different instants. *Right* means: within the
  window a repetition is refused, and nobody else is; what was recorded is
  answered.
- **AS, TGS, interceptor.** Keys are looked up at one await and used at a later
  one, with Redis or the KDC possibly restarting between; TGTs can be exchanged
  for TGTs, in chains of any length; three bounds on an expiry are applied in
  some order. *Right* means: every ticket goes back to a pre-authentication by
  the user it names, from the same address, and expires no later than the TGT at
  the start of its chain.
- **Registration.** Four awaited commands before the last one, in two stores with
  no transaction; each may fail before or after it took effect; two requests race
  for one name; Redis forgets what came after its last snapshot. *Right* means:
  the keytab never disagrees with PostgreSQL, one winner per name, and a
  half-registered user only after a failure.
- **Seeding.** One `SET` per entry, on a Redis that the service is using; the KDC
  may stop or fail half-way, boot again with other keys, and Redis may restart from
  half a keytab. *Right* means: a KDC that listens has what it is configured with,
  a realm's policy comes with its principals, and users keep their keys.
- **The walk.** Seven HTTP requests, three places that hold keys (the client,
  PostgreSQL, Redis), a test of time at every leg. *Right* means: undisturbed it completes,
  and what the service accepts goes back to a registration.

`PROJECT.json` lists these, each at its line, under `hazards`.

## 2. Modules

```
 CryptoService   ReplayCache          AcceptOnce (abstract)
       \        /         \              ^  ^
   TicketsManager          Kdc  --------+  |   each implements AcceptOnce
       |  |                 |              |
       |  +-----------------|--------------+
       |                    |     PrincipalRegistry (abstract)
       |                    |          ^       ^
       |                    |          |  Registration       KeytabSeeder
       |                    |          |       |
       +--------- Walk -----+----------|-------+
                    |   implements     |
                    +------------------+

 <M>Proofs has the proofs about <M>: AcceptOnceProofs, TicketsManagerProofs,
 KdcProofs, KdcReplayProofs, RegistrationProofs, KeytabSeederProofs, WalkProofs and,
 on top of it, WalkCompletesProofs.
```

`MC<module>` gives the constants of a module their values for TLC.

**`CryptoService`** is symbolic: an envelope is a key and a payload, and opens
under that key only; keys made by PBKDF2 or at random are distinct values.
`getLifetime` is modelled as it computes. The DTOs admit only integers >= 0 for a
lifetime, so its non-finite branch is not reachable and is left out.

**`ReplayCache`** is `isReplay`: one atomic `SET NX PX`. An entry is the last
instant at which Redis still has it (Redis drops a key when the clock is
*past* its deadline), 0 is "never set", so clocks start at 1.

**`AcceptOnce`** is the promise the replay defence makes, with no tickets, keys
or Redis: a log of accepted authenticators. An acceptance of an authenticator
that was checked at one time and is recorded at another is allowed if the
timestamp was within the skew at the check and no acceptance of the same one was
recorded in the last `Skew` units, unless a record was lost (`Lose`): a restart of
Redis may drop the record of an acceptance, and the promise is about the others.
What follows from this alone is stated and
proved in this module's terms, and carries over to whatever implements it.

**`TicketsManager`** is the AP exchange. A request awaits one of two Redis
commands: `lookup` (the service's key) and `record` (`SET NX`).

| Action | Code |
|---|---|
| `Post` | the interceptor starts, `get <SERVICE_NAME>@<realm>` is sent |
| `RefuseRealm` | the key is missing: 404 |
| `Refuse` | ticket or authenticator does not open, or a check of `generateTicket` fails: 401 |
| `Admit` | all checks pass (`checkedAt`), `SET NX` is sent |
| `Record` | Redis had no entry (`setAt`); the AP_REP is sent |
| `RefuseReplay` | Redis had one: "Authenticator already used" |
| `Fail` | a command fails, its reply is lost, or the process stops; a lost `SET NX` may have taken effect |
| `Seed` | the KDC's seeder writes this service's key for a realm |
| `Snapshot`, `RedisRestart` | `--save 20 1`; a restart brings the last snapshot back, `lost` are the requests whose record it dropped |

**`Kdc`** is both exchanges of the KDC. A request awaits `as.userKey`,
`as.serviceKey` or `tgs.target`, `tgs.tgsKey`, `tgs.replay`, and then
`shape.ticketKey`, `shape.interval`.

| Action | Code |
|---|---|
| `PostAs`, `GetUserKey`, `Authenticate`, `RefusePreAuth` | `AsService.authenticate`: two lookups, the pre-authentication |
| `PostTgs` | a client presents the ticket of *any* earlier reply and an authenticator under the session key of *any* earlier challenge: chains grow, and mismatched pairs occur |
| `FindTarget`, `RefuseTarget` | `TgsInterceptor.prepare`, the target's existence |
| `Admit`, `RefuseTgt` | the TGS's key, both decryptions, the checks of `generateTicket` |
| `GenerateTicket`, `RefuseReplay` | `SET NX` and the payload |
| `GetTicketKey`, `RefusePrincipal` | `shape`, the ticket key |
| `Shape`, `FailToShape` | the policy, the expiry, both envelopes; a missing policy or a target that is no key is a 500 |
| `Fail`, `Snapshot`, `RedisRestart`, `KdcRestart`, `Tick` | failures and time |

The keytab holds `interval@<realm>` beside the principals' keys, as in Redis, so a
request can name `interval` as its target. `root` is a history variable: the AS
request at the start of a chain.

**`Registration`** is `keyExchange` and `create`, one action per command:
`dh.set`; then `dh.get`, `db.findOne`, `db.save`, `keytab.set`, `dh.del`. The
secret of an exchange is the exchange's identity. `RefuseDuplicate` is the unique
index refusing the second of two racing inserts, which surfaces as a 500.
`Expire` is the two-minute TTL of a secret, with no relation to the other steps
assumed; `expired` remembers whose it took.

**`PrincipalRegistry`** is what registration promises: a name gets one key, once and
for good, and the KDC knows that key or none. PostgreSQL's table implements
`registered`, the keytab `known`; an insert is `Register`, the `SET` is `Publish`, a
restart of Redis is `Forget`, everything else a stutter.

**`KeytabSeeder`** is the boot of the KDC.

| Action | Code |
|---|---|
| `Boot` | the configuration loads (`requireKey`), the bootstrap hook starts |
| `Seed`, `SeedFails` | one `SET` of the two loops in `KeytabSeeder`; it may fail before or after it took effect, which ends the process |
| `Listen` | the hook has resolved, `app.listen()` |
| `Stop` | the process is stopped or crashes, while seeding or later |
| `Register` | the application service writes a user's entry, under whatever name: a principal's or `interval` included |
| `Snapshot`, `RedisRestart` | as above |

A value of the keytab says which environment it came from, so that a boot with
other keys can be told from the one before; and a user's key is told from what the
seeder writes (`Configured`), since the two meet in one entry when a user has one of
the KDC's own names (`SeederNames`). `Usernames` is any set. The service's own configuration holds
the same keys, but no code of the service reads them (`UserService.create` only asks
whether the realm is there), so that two files that disagree do no harm, other than
README.md expects.

**`Walk`** is `scripts/walk.mjs`, and the composition of `Registration`,
`TicketsManager` (together the application service) and `Kdc` as instances over one
Redis, one PostgreSQL and one clock. Each action of the script takes a reply and
posts the next request (`KeyExchange`, `Register`, `AskTgt`, `AskTicket`, `Present`,
`Replay`, `Tamper`, `End`); the applications' steps are their modules' own actions,
with a frame that leaves the rest alone. The key under which a user's entry is
written is registration's `String2Key`, and the client derives its own with the same
function: nothing in the composition says that the two meet, the walk finds out. The
AP exchange sees one entry of the keytab (`keytab <- ...` in the instance `T`).
Restarts of Redis are `Walk`'s own action, for all three at once.

What the script posts (`AsBody`, `TgsBody`, `ApBody`) and what it reads (`Replies`) are
sets of records; `TypeOK` says what the stores, the requests and the replies hold in
the composition, which no component's own type invariant does: each of those is about
a Redis that one application has to itself. `Registry` maps the composition to
`PrincipalRegistry`, as `Registration` does alone, but here the KDC writes the keytab
at every boot and Redis comes back from a snapshot of what both wrote.

## 3. What the runs show

| Run | Properties | Shows |
|---|---|---|
| `accept_once` | `TypeOK`, `Spacing`, `SecondNeedsLeadOrDelay`, `AtMostTwiceWhenPrompt` | what the promise amounts to, records lost on the way included |
| `ap_exchange` | `TypeOK`, `RecordOutlivesWindow`, `RepeatedOnlyLate`, `ReplayPromise`, `RefusedOnlyIfRecorded`, `Answered` | every check of the AP exchange, with failures, seeding and a restart of Redis; the record covers the window; the exchange implements `AcceptOnce`, and what it accepts again it accepts late; nobody is refused as a replay without another's record of at most `SKEW_MS` ago; every request is answered |
| `kdc_errors` | `TypeOK`, `RecordedThenIssued`, `Answered` | every refusal of the KDC, restarts included; what is recorded gets its ticket, or has the policy's entry for a target (500), or met a restart or a failure; every request is answered, through a restart as well |
| `kdc_tickets` | `TracesToPreAuthentication`, `WithinGrant`, `ShortOnlyWithTgt`, `RepeatedOnlyLate`, `ReplayPromise`, `RefusedOnlyIfRecorded` | chains of up to three tickets with a restart of Redis or the KDC in between: origin and expiry of every ticket, and that its session key is sealed for the one who proved the key; it falls short of the policy's minimum only where its TGT ends; the TGS implements `AcceptOnce` and records an authenticator again only late, a snapshot locks nobody out |
| `registration` | `TypeOK`, `KeytabAgreesWithDb`, `CreatedIsExclusive`, `HalfRegisteredOnlyAfterFailure`, `RefusedOnlyAfterRival`, `KeyNeverReplaced`, `RegistryPromise`, `Answered` | two racing registrations, every refusal, failures and a restart of Redis; a client that made its key exchange loses the secret only to a rival that registered (403), and finds another in its place only after another exchange (401); registration implements `PrincipalRegistry` |
| `keytab_seeding` | `TypeOK`, `ListeningMeansSeeded`, `PolicyMeansPrincipals`, `UsersKept`, `SeedingEnds` | boots with old, new and incomplete keys, cut short anywhere, with a restart of Redis and registrations in between, under the KDC's own names (`service_1`, `interval`): what a listening KDC can find at its entries, and whose key gives way to whose |
| `walk` | `TypeOK`, `WalkCompletes`, `AcceptedWithinGrant`, `WalkEnds`, `RegistryPromise` | the whole protocol: undisturbed, the script completes, a restart of the KDC between two requests included; what the service accepts was pre-authenticated with the key PostgreSQL holds and within the AS's grant, whatever was lost; the script ends; with both applications writing one keytab, it implements `PrincipalRegistry` |

Five more runs state what a comment, a test or the README says and find it not
so:

| Run | Statement | What happens |
|---|---|---|
| `ap_replay_window` | an authenticator is accepted at most once | a client clock that is ahead by `d` leaves a gap of `d` between the end of the record and the end of the window |
| `kdc_minimum` | a ticket is good for at least the minimum | the cap by the TGT comes after the clamp |
| `registration_secret_reuse` | a secret registers one principal | two creates in two realms that overlap both read it |
| `keytab_writers` | a principal's entry holds what the KDC configured | registration writes into the same keytab, and a user's name may be a principal's (or `interval`, which makes the policy's entry the user's key) |
| `walk_tamper` | a tampered ticket is refused | the script's tampering changes nothing in one ciphertext of 64 |

Two authenticators of one user and one millisecond share a replay key, whatever
their tickets; `RefusedOnlyIfRecorded` therefore speaks of "the same user and
timestamp" and not of the same authenticator.

What the conditions of the properties leave out is as much a result:

- `ListeningMeansSeeded` and `PolicyMeansPrincipals` end at a restart of Redis since
  the boot, or under a running seeder. What such a restart takes away comes back
  only with the next boot of the KDC.
- All three seeding properties make room for a user with one of the KDC's own names.
  `ListeningMeansSeeded` lets that user's key stand in the entry, `UsersKept` lets a
  seeding KDC put its own in the key's place, and to `PolicyMeansPrincipals` a user's
  key under `interval` is no policy. Neither application notices.
- `HalfRegisteredOnlyAfterFailure`, and `RefusedOnlyAfterRival` for a 403, end at a
  restart as well; an entry lost that way is never written again from PostgreSQL.
- `RecordedThenIssued`: the target `interval` passes the existence check and fails in
  `encrypt` when the authenticator is used up; and a restart between the lookups may
  take the target (404) or the policy (500) away.
- `WalkEnds` takes for granted that both applications answer. The script has no
  timeout, so a server that does not keeps it waiting for ever.
- `ShortOnlyWithTgt` is what `kdc_minimum` leaves of the minimum: the cap by the TGT is
  the only thing that shortens a ticket below it. `SecretStaysWithName` is what
  `registration_secret_reuse` leaves of the single use: the name stays the exchange's,
  and a second registration needs another realm. The run `registration` has one name,
  so this one is a theorem only (`RegistrationProofs`).
- `WalkCompletes` needs the walk to be within `SKEW_MS` and the secret's TTL of its
  start. Later, even the repeated authenticator may be let through: its check is
  before, its record after the end of the first record.

### Bounds, and why they are enough

- **Clock.** `SKEW_MS` is 1 or 2 and `MaxClock` 3 to 7, so that an authenticator
  enters its window, leaves it, and its record expires within a run. The
  properties compare sums of instants and `SKEW_MS`; the proofs remove the bound
  for all that they cover (section 4). In `walk` the skew, the secret's TTL and the
  lifetime are 1 and the clock reaches 3: each of them ends in the middle of a run.
- **Requests.** Two suffice for a race (the proofs are for any number), three for the statements about three
  acceptances and for chains AS - TGS - TGS. Registration has two exchanges and
  two creates, under one name: a secret replaced, a name contested. `walk` has one client; two would
  use different names (they are random), hence different entries of every store.
- **Boots.** Two boots with at most one restart of Redis: cut short, then again
  with other keys, on a snapshot of either. Two realms with two principals each make
  both loops of the seeder turn. Two users, one of each kind that clashes with the
  KDC's names; other names have entries nobody else writes, and the theorems are for
  any names and any number of restarts.
- **One client.** `kdc_tickets` has chains of one user from one address in one realm:
  that the user and the address survive the chain, and that no other user's key seals a
  challenge, rests on `TracesToPreAuthenticationHolds`, which is for any of them.
- **Inputs.** `MCTicketsManager` and `MCKdc` enumerate well-formed requests and
  one that fails each check; where the question is timing, the well-formed ones
  only, so that the state space goes into interleavings.
- **Restarts.** At most one (`MaxRestarts`; in `walk` one of Redis
  and one of the KDC); snapshots are taken only while a
  restart is still to come, since a snapshot nobody restarts from changes nothing.
- **Symmetry** over requests in runs without liveness.
  Requests start alike and no definition tells them apart.
- **Deadlock** is not checked: clients need not send anything, and the clock stops
  at its bound. That requests do not get stuck is `Answered`.

### Fairness

Weak fairness of `Serve(r)` for each request (`ServeExchange`, `ServeCreate` in
Registration), and nothing else: Redis and PostgreSQL answer, and Node's event
loop runs every continuation that is ready. `KeytabSeeder` has weak fairness of the
seeder's own steps, which says the same of its loop. In `Walk` the script's steps
are fair too, once it was started: a process left to run goes on when its `await`
returns; it need not be started. No fairness of clients, of the clock,
of restarts or of failures is assumed otherwise. The steps of a request, once enabled,
stay enabled or are replaced by its other ones until it takes one, so the weak
form is enough.

## 4. What is proved

TLAPS proves these for every number of requests, any inputs, any skew and any
clock bound, from the named assumptions on the constants.

- **`AcceptOnceProofs`** (`AcceptOnceAssumption`). The inductive invariant adds
  `History` to type and `Spacing`: each logged acceptance was within the skew when
  checked, was recorded later, and has its own request. `Spacing` does not bound an
  acceptance from above; `History` does. From the two follow
  `SecondNeedsLeadOrDelay` and `AtMostTwiceWhenPrompt`, for acceptances whose records
  were not lost: three records would span more than twice the skew, which is the
  width of the window. `Lose` only takes acceptances out of these statements.
- **`TicketsManagerProofs`** (`SkewAssumption`, the assumption of the module). The
  invariant says for each `pc` what has been checked and when, that a request
  with `setAt # 0` that is not in `lost` has an entry whose deadline is at least
  `setAt + SKEW_MS`, and, conversely, that an entry comes from a request that set it,
  in the cache and in its snapshot (`OwnedIn`), so that a restart brings nothing back
  that was never set, or not for so long. A request in `lost` had set its entry
  (`LostWasSet`). The first half gives `RecordOutlivesWindow`, the second
  `RefusedOnlyIfRecorded`. With both, every step maps to a step of `AcceptOnce` or
  to a stutter: `Record` to `Accept`, `Tick` to `Advance`, `RedisRestart` to `Lose`,
  all others to a stutter. `Implements` is `Spec => ReplayPromise`.
  A repetition in `TicketsManager` is one in `AcceptOnce`: `RepeatedOnlyLate` follows
  from `Spacing` and `SecondNeedsLeadOrDelay`, which are not proved again but carried
  over by the refinement (`AcceptOnceProofs` is instantiated with the mapping).
- **`KdcProofs`** (`KdcAssumption`). Types, `TracesToPreAuthentication`,
  `WithinGrant`, `ShortOnlyWithTgt`, `RecordedThenIssued`. The invariant says per request (`Sound`) what
  has been read, tested and decided at each command, on top of two facts about data:
  an entry of the keytab, in Redis or in its snapshot, holds nothing but the value that
  belongs there (`KeytabAsWritten`), and a ticket carries the session key of the request
  it answers, under the key of the principal it names (`Minted`). The challenge's key is
  the one read at the first lookup, which `KeytabAsWritten` makes the user's whatever
  restarted since; `EndsWell` is about what follows a record. The argument is not an induction
  over the chain: `root` and the expiry are handed on from a request's ticket to the
  next, so it is enough that the presented ticket comes from an answered request for
  which the statement holds, and that an answered request stays as it is
  (`UnmovedKeepsSound`).
- **`KdcReplayProofs`** (`KdcAssumption`). `RefusedOnlyIfRecorded`, `ReplayPromise`
  and `RepeatedOnlyLate` for the TGS, along the lines of `TicketsManagerProofs`; the
  invariant `ReplayInv` is about the cache, its snapshot and `lost`.
- **`RegistrationProofs`** (`RegistrationAssumption`). Type correctness,
  `KeytabAgreesWithDb`, `CreatedIsExclusive`, `HalfRegisteredOnlyAfterFailure`, the
  action property `KeyNeverReplaced`, and `Implements`: `Spec => RegistryPromise`.
  `KeytabAgreesWithDb` is not inductive:
  `SetKey` writes the request's key, so the invariant ties each request past its
  insert to the row it inserted and says that no other request did; and
  `RedisRestart` writes what the snapshot holds, so it says the same of the
  snapshot. Rows are never changed, which keeps old snapshots right, and a
  snapshot has no entry that the keytab lacks, which makes a restart a `Forget`.
  `RefusedOnlyAfterRival` has an invariant of its own (`RivalInv`): a name with an
  answered exchange has its secret in Redis, or lost it to the TTL, or another
  registration has inserted the row. The proof showed that the statement needs the
  condition that the exchange was made for the name that is registered: a client
  that seals its password under the secret of an exchange for another name is
  refused without any rival. The run has one name and could not tell. Its second half,
  about a secret that does not open the password, rests on what is cached under a name
  being an exchange's for that name (`CachedByName`, below).
  On top of it, `SecretStaysWithName`: `SecretInv` says that under a name is cached, in
  Redis and in its snapshot, what an exchange for that name made (`CachedByName`), so
  a create that got past its first command used a secret of its own name; that only one
  of them is told "Created" per realm is `CreatedIsExclusive`.
- **`KeytabSeederProofs`** (`KeytabSeederAssumption`). Types, `ListeningMeansSeeded`,
  `PolicyMeansPrincipals`, `UsersKept`, and what `keytab_writers` refutes,
  `PrincipalsAsConfigured`. The invariant follows the two loops: the slots they have
  passed hold this boot's configuration, or the key of the user who has registered
  under that name since, until Redis restarts (`SeededSoFar`); a policy comes after its
  principals, in the keytab and in its snapshot (`PolicyLast`); and the entry of a
  principal that is no user's name holds what the seeder writes (`OwnersOf`). The
  assumption says nothing of usernames: the first four hold whoever registers, under a
  principal's name or `interval` as well. `PrincipalsAsConfigured` alone has a
  hypothesis, `Usernames \cap Principals = {}`, the condition that the code does not
  enforce and `keytab_writers` lacks.
- **`WalkProofs`** (`SkewAssumption`, `WalkAssumption`; for the second part,
  `BodyAssumption`). `AcceptedWithinGrant` for any number of walks at once. The modules' own theorems do not carry over: each of them
  owns its Redis, and `Walk` restarts it for all three. The invariant `Inv` follows one
  walk (`OfWalk`): what a leg presents is what the leg before was answered with, and
  an answer, once given, stays. `InOrder` says that a leg without an answer has had
  nothing asked for with it, so a step of one leg disturbs no later one;
  `UnmovedKeeps` does the rest for the other walks. `RedisRestart` needs nothing: what
  is lost is refused, and the invariant says of the keytab only that the realm's
  policy is the configured one or gone (`Policy`).

  The second part is `TypeOK` and that `Walk` implements `PrincipalRegistry`. The types
  are four parts, each with its own frame: what the stores hold (`Stored`), what was
  posted (`Posted`), what was answered (`Replied`) and where the walks are (`Walking`);
  a step is shown to keep the parts that it can disturb, on top of `Inv`, which says
  what a request that awaits a command has been through. The type of the keytab is a
  statement about two writers: under a user's name it has that user's key or nothing,
  under a principal's that principal's, because their names are apart. The type of a
  reply needs which keys the request read at its earlier awaits, and that `reply` is set
  by the step that answers "Ok" and by no other, a restart of the KDC included.
  The refinement needs one more fact, `NothingAhead`: what the snapshot has for a user
  the keytab has too, so that a restart only forgets. With `Stored` the two are equal. `StepImplements` then maps an insert to `Register`, the `SET` to
  `Publish`, a restart to `Forget`, and every other step of the applications, the script
  and the clock to a stutter: the KDC's boot writes principals and policies only.
  `BodyAssumption` says that `None` is no walk, body or reply: an absent input or reply
  is not one that is there.

- **`WalkCompletesProofs`** (`SkewAssumption`, `WalkAssumption`, and `LongEnough`).
  `WalkCompletes`: no walk that is `Undisturbed` has failed. The invariant `WalkInv`
  adds three parts to `Inv`. `Sent(w)` says what the script has sent, disturbed or not,
  and that its timestamps are from after its start. `Fresh` says what Redis holds until
  it restarts: the seeded entries, a registered walk's key, and no record of an
  authenticator whose request has not been answered. `OnTrack(w)` says what an
  undisturbed walk was answered so far; above all, that both tickets are good until
  `started + Horizon` and that the record of the accepted authenticator lasts as long,
  which is why the second one is refused. An undisturbed walk was undisturbed before
  every step (`CalmBefore`), since time goes on and answers stay; so `OnTrack` need not
  hold of a walk that was disturbed. A step of one walk leaves `OnTrack` of the others
  alone because every key of Redis that it writes has the walk's name in it
  (`ReplayKeyOf`, `RestedGoesOn`); a restart of the KDC turns what it interrupts into
  failures and writes the entries that are there already.

  `LongEnough` says that the lifetime which the realm's policy grants is at least
  `Horizon`, the lesser of `SKEW_MS` and the secret's TTL. Without it the statement is
  false: a walk that takes its time is within its timestamps and holds an expired
  ticket. The configuration has 3 hours against 2 minutes, the run 1 against 1.
  `WalkAssumption` also says that the two services are distinct principals and that
  `None` is no key, policy or exchange: an absent value is not one that is there.

TLC checked these invariants on the instances of the runs as well.

Every safety and action property that a run checks has a theorem, and each
refinement. Only model-checked are `Answered`, `SeedingEnds` and `WalkEnds`, since
liveness under fairness and `ENABLED` are out of the prover's reach here; so are
induction over data and recursive operators (the modules have none). The other statements refuted in section 3
have no theorem: they are false.

## 5. What is not modelled

- Ciphers, PBKDF2, HKDF and the Diffie-Hellman arithmetic: symbolic.
- DTO validation (400 before the handler) and malformed plaintexts: no state
  changes, and the inputs are those the DTOs admit.
- The ticket's issue time, which no server reads; role and names of a user.
- Usernames that clash with other keys of Redis. `CreateUserDto` admits any string of 1
  to 64 characters, and no code keeps these apart:
  - *a principal's name, or `interval`*: registration writes the principal's entry or
    the realm's policy. `KeytabSeeder` models both; the other modules leave such names
    out (`KdcAssumption`; `WalkAssumption`, the script draws its names at random; the
    comment on `Users` in `Registration`). For such a user `KeytabAgreesWithDb` and
    `KeyNeverReplaced` do not hold once the KDC seeds.
  - *`dh`, or a name that begins with `dh@`*: `dh@<username>`, the secret of an
    exchange, is then also a `<username>@<realm>`. An exchange for a username that is a
    realm's name overwrites that realm's entry of a user `dh`, and the secret's TTL
    removes it. `Registration` keeps secrets and entries in two maps, which is right for
    every other name; `RegistrationAssumption` and the comment on `Users` leave these
    out, and what is said above of registration does not cover them.
- The unique index itself. TypeORM creates it from the entity only outside of
  production (`synchronize`, service/src/app.module.ts:31); the model takes it for
  given. A restart of PostgreSQL loses no row and is not modelled.
- Clients that stop in the middle of a walk are behaviours of `Walk!Spec` (no step
  is forced without fairness); two walks under one name are left out.
- Module wiring and the scaffold route keep no state.

## 6. Plan

Done, in this order: `CryptoService`, `ReplayCache`, `AcceptOnce` with its proofs,
`TicketsManager` with its proofs, `Kdc`, `Registration` with its proofs; then
restarts and lost records in `AcceptOnce`, `TicketsManager` and `Kdc`,
`KeytabSeeder`, `PrincipalRegistry` with the proof that `Registration` implements it,
and `Walk`.

Then the proofs about `Kdc`, `KeytabSeeder` and `Walk`, `RefusedOnlyAfterRival`, and
`AcceptOnce`'s consequences carried over to what implements it.

Last, the types of `Walk`, that it implements `PrincipalRegistry`, and what is true of the
statements that `kdc_minimum` and `registration_secret_reuse` refute.

Open: nothing of the plan. A proof of the liveness properties would need a prover for
`ENABLED`; two walks under one name, and principals that are also users' names, would
need another `Walk`, and the names `dh` and `dh@...` a `Registration` with secrets and
entries in one map.
