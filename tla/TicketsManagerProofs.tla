------------------------- MODULE TicketsManagerProofs -------------------------
(***************************************************************************)
(* The AP exchange, proved for any number of requests, any inputs and any  *)
(* SKEW_MS: its type invariant, that a replay record outlives the window   *)
(* of the timestamp check, that only a recorded authenticator is refused   *)
(* as used, and that the exchange implements AcceptOnce.                   *)
(***************************************************************************)
EXTENDS TicketsManager, TLAPS

\* A request that has arrived carries one of the inputs.
Arrived == \A r \in Requests : pc[r] # "idle" => input[r] \in Inputs

\* What each request's history says at each point of its way.
Timeline ==
  \A r \in Requests :
    /\ pc[r] # "done" => setAt[r] = 0 /\ status[r] = "Pending"
    /\ pc[r] = "record" =>
         /\ checkedAt[r] \in 1 .. clock
         /\ WithinSkew(Auth(r).timestamp, checkedAt[r])
    /\ setAt[r] # 0 =>
         /\ setAt[r] <= clock
         /\ checkedAt[r] \in 1 .. setAt[r]
         /\ WithinSkew(Auth(r).timestamp, checkedAt[r])
    /\ status[r] = "Accepted" => setAt[r] # 0

\* Redis holds an entry at least SKEW_MS longer than any SET of that key whose
\* record no restart has dropped.
Held ==
  \A r \in Requests \ lost :
    setAt[r] # 0 => setAt[r] + SKEW_MS <= replay[ReplayKey(r)]

\* Every entry of the cache, or of its snapshot, was set by some request.
OwnedIn(store) ==
  \A k \in ReplayKeys :
    store[k] # 0 =>
      \E q \in Requests :
        setAt[q] # 0 /\ ReplayKey(q) = k /\ store[k] = setAt[q] + SKEW_MS

Owned == OwnedIn(replay) /\ OwnedIn(saved.replay)

\* Only a request that was recorded can lose its record.
LostWasSet == \A r \in lost : setAt[r] # 0

Inv ==
  /\ TypeOK
  /\ clock <= MaxClock
  /\ Arrived
  /\ Timeline
  /\ Held
  /\ Owned
  /\ LostWasSet

USE SkewAssumption, TicketsManagerAssumption

\* The replay key and the timestamp of a request that has arrived.
LEMMA KeyType ==
  ASSUME Inv, NEW r \in Requests, pc[r] # "idle"
  PROVE  /\ ReplayKey(r) \in ReplayKeys
         /\ Auth(r) \in Authenticator
         /\ ReplayKey(r).timestamp = Auth(r).timestamp
         /\ ReplayKey(r).username = Auth(r).username
         /\ ReplayKey(r).realm = input[r].realm
         /\ Auth(r).timestamp \in Int
<1>1. input[r] \in Input
  BY DEF Inv, Arrived
<1>2. /\ input[r].realm \in Realms
      /\ ServiceTicket(r) \in Ticket
      /\ Auth(r) \in Authenticator
  BY <1>1 DEF Input, ServiceTicket, Auth
<1>3. QED
  BY <1>2 DEF ReplayKey, ReplayKeys, Ticket, Authenticator

\* A request is answered and nothing is recorded: the refusals, and a failure
\* whose SET did not take effect.
LEMMA AnswerKeepsInv ==
  ASSUME Inv, NEW r \in Requests, NEW reply \in Statuses \ {"Accepted"},
         pc[r] # "idle", Answer(r, reply),
         UNCHANGED <<clock, redis, input, checkedAt, setAt, lost>>
  PROVE  Inv'
<1>1. TypeOK'
  BY DEF Inv, TypeOK, Answer, redis
<1>2. Arrived'
  BY DEF Inv, TypeOK, Arrived, Answer
<1>3. Timeline'
  BY DEF Inv, TypeOK, Timeline, Answer, Auth
<1>4. Held' /\ Owned' /\ LostWasSet'
  BY DEF Inv, Held, Owned, OwnedIn, LostWasSet, ReplayKey, ServiceTicket, Auth, redis
<1>5. QED
  BY <1>1, <1>2, <1>3, <1>4 DEF Inv

\* A request's SET NX takes effect, whatever the answer is.
LEMMA RecordedKeepsInv ==
  ASSUME Inv, NEW r \in Requests, NEW reply \in Statuses,
         Recorded(r), Answer(r, reply),
         UNCHANGED <<clock, input, checkedAt, lost>>
  PROVE  Inv'
<1> DEFINE k == ReplayKey(r)
<1>1. k \in ReplayKeys /\ pc[r] = "record" /\ setAt[r] = 0
  BY KeyType DEF Recorded, Inv, Timeline
<1>2. /\ replay' = [replay EXCEPT ![k] = clock + SKEW_MS]
      /\ setAt' = [setAt EXCEPT ![r] = clock]
      /\ replay[k] < clock
      /\ UNCHANGED <<keytab, saved, restarts>>
  BY <1>1 DEF Recorded, SetNX, Live, Inv, TypeOK
<1>3. \A q \in Requests : ReplayKey(q)' = ReplayKey(q) /\ Auth(q)' = Auth(q)
  BY DEF ReplayKey, ServiceTicket, Auth
<1>4. TypeOK'
  BY <1>1, <1>2 DEF Inv, TypeOK, Answer
<1>5. Arrived'
  BY <1>1 DEF Inv, TypeOK, Arrived, Answer
<1>6. Timeline'
  <2> SUFFICES ASSUME NEW q \in Requests
               PROVE  /\ pc'[q] # "done" => setAt'[q] = 0 /\ status'[q] = "Pending"
                      /\ pc'[q] = "record" =>
                           /\ checkedAt[q] \in 1 .. clock
                           /\ WithinSkew(Auth(q).timestamp, checkedAt[q])
                      /\ setAt'[q] # 0 =>
                           /\ setAt'[q] <= clock
                           /\ checkedAt[q] \in 1 .. setAt'[q]
                           /\ WithinSkew(Auth(q).timestamp, checkedAt[q])
                      /\ status'[q] = "Accepted" => setAt'[q] # 0
    BY <1>3 DEF Timeline, WithinSkew
  <2>1. CASE q = r
    BY <1>1, <1>2, <2>1 DEF Inv, TypeOK, Timeline, Answer
  <2>2. CASE q # r
    BY <1>2, <2>2 DEF Inv, TypeOK, Timeline, Answer
  <2>3. QED
    BY <2>1, <2>2
<1>7. Held'
  <2> SUFFICES ASSUME NEW q \in Requests \ lost, setAt'[q] # 0
               PROVE  setAt'[q] + SKEW_MS <= replay'[ReplayKey(q)]
    BY <1>3 DEF Held
  <2>1. CASE q = r
    BY <1>1, <1>2, <2>1 DEF Inv, TypeOK
  <2>2. CASE q # r
    <3>1. setAt[q] # 0 /\ setAt'[q] = setAt[q] /\ pc[q] # "idle"
      BY <1>2, <2>2 DEF Inv, TypeOK, Timeline
    <3>2. setAt[q] + SKEW_MS <= replay[ReplayKey(q)] /\ setAt[q] <= clock
      BY <3>1 DEF Inv, Held, Timeline
    <3>3. ReplayKey(q) \in ReplayKeys
      BY <3>1, KeyType
    <3>4. QED
      BY <1>2, <3>1, <3>2, <3>3 DEF Inv, TypeOK
  <2>3. QED
    BY <2>1, <2>2
<1>8. Owned'
  <2>1. ASSUME NEW store, NEW j \in ReplayKeys, OwnedIn(store), store[j] # 0
        PROVE  \E q \in Requests :
                 setAt'[q] # 0 /\ ReplayKey(q) = j /\ store[j] = setAt'[q] + SKEW_MS
    <3>1. PICK q \in Requests :
            setAt[q] # 0 /\ ReplayKey(q) = j /\ store[j] = setAt[q] + SKEW_MS
      BY <2>1 DEF OwnedIn
    <3>2. setAt'[q] = setAt[q]
      BY <1>1, <1>2, <3>1 DEF Inv, TypeOK
    <3>3. QED
      BY <3>1, <3>2
  <2>2. OwnedIn(saved.replay)'
    BY <1>2, <1>3, <2>1 DEF OwnedIn, Inv, Owned
  <2>3. ASSUME NEW j \in ReplayKeys, replay'[j] # 0
        PROVE  \E q \in Requests :
                 setAt'[q] # 0 /\ ReplayKey(q) = j /\ replay'[j] = setAt'[q] + SKEW_MS
    <3>1. CASE j = k
      BY <1>1, <1>2, <3>1 DEF Inv, TypeOK
    <3>2. CASE j # k
      <4>1. replay'[j] = replay[j]
        BY <1>2, <3>2 DEF Inv, TypeOK
      <4>2. QED
        BY <2>1, <2>3, <4>1 DEF Inv, Owned
    <3>3. QED
      BY <3>1, <3>2
  <2>4. OwnedIn(replay)'
    BY <1>3, <2>3 DEF OwnedIn
  <2>5. QED
    BY <2>2, <2>4 DEF Owned
<1>9. LostWasSet'
  BY <1>2 DEF Inv, TypeOK, LostWasSet
<1>10. QED
  BY <1>4, <1>5, <1>6, <1>7, <1>8, <1>9 DEF Inv

LEMMA PostKeepsInv ==
  ASSUME Inv, NEW r \in Requests, NEW i \in Inputs, Post(r, i)
  PROVE  Inv'
<1>1. /\ \A q \in Requests : q # r => input'[q] = input[q] /\ pc'[q] = pc[q]
      /\ pc'[r] = "lookup" /\ input'[r] = i /\ setAt[r] = 0
      /\ status[r] = "Pending"
  BY DEF Inv, TypeOK, Timeline, Post
<1>2. TypeOK'
  BY DEF Inv, TypeOK, Post, redis
<1>3. Arrived'
  BY <1>1 DEF Inv, Arrived
<1>4. \A q \in Requests : q # r => ReplayKey(q)' = ReplayKey(q) /\ Auth(q)' = Auth(q)
  BY <1>1 DEF ReplayKey, ServiceTicket, Auth
<1>5. Timeline'
  BY <1>1, <1>4 DEF Inv, Timeline, Post, WithinSkew
<1>6. Held' /\ Owned' /\ LostWasSet'
  BY <1>1, <1>4 DEF Inv, Held, Owned, OwnedIn, LostWasSet, Post, redis
<1>7. QED
  BY <1>2, <1>3, <1>5, <1>6 DEF Inv, Post

LEMMA AdmitKeepsInv ==
  ASSUME Inv, NEW r \in Requests, Admit(r)
  PROVE  Inv'
<1>1. TypeOK'
  BY DEF Inv, TypeOK, Admit, redis
<1>2. Arrived'
  BY DEF Inv, TypeOK, Arrived, Admit
<1>3. \A q \in Requests : ReplayKey(q)' = ReplayKey(q) /\ Auth(q)' = Auth(q)
  BY DEF Admit, ReplayKey, ServiceTicket, Auth
<1>4. Timeline'
  BY <1>3 DEF Inv, TypeOK, Timeline, Admit, Valid, WithinSkew
<1>5. Held' /\ Owned' /\ LostWasSet'
  BY <1>3 DEF Inv, Held, Owned, OwnedIn, LostWasSet, Admit, redis
<1>6. QED
  BY <1>1, <1>2, <1>4, <1>5 DEF Inv, Admit

\* The steps of the environment: time, the seeder, Redis's snapshots and
\* restarts.  The requests stay where they are.
Environment == Tick \/ (\E realm \in Realms : Seed(realm)) \/ Snapshot \/ RedisRestart

LEMMA EnvironmentKeepsInv ==
  ASSUME Inv, Environment
  PROVE  Inv'
<1>1. /\ UNCHANGED <<pc, input, status, checkedAt, setAt>>
      /\ clock' \in Nat \ {0} /\ clock' >= clock /\ clock' <= MaxClock
  BY DEF Inv, TypeOK, Environment, Tick, Seed, Snapshot, RedisRestart
<1>2. \A q \in Requests : ReplayKey(q)' = ReplayKey(q) /\ Auth(q)' = Auth(q)
  BY <1>1 DEF ReplayKey, ServiceTicket, Auth
<1>3. /\ keytab' \in [Realms -> Keys \cup {None}]
      /\ replay' \in [ReplayKeys -> Nat]
      /\ saved' \in [keytab: [Realms -> Keys \cup {None}], replay: [ReplayKeys -> Nat]]
      /\ restarts' \in 0 .. MaxRestarts
      /\ lost' \in SUBSET Requests
  BY DEF Inv, TypeOK, Environment, Tick, Seed, Snapshot, RedisRestart, PrincipalKey,
         Keys, redis
<1>4. TypeOK'
  BY <1>1, <1>3 DEF Inv, TypeOK
<1>5. Arrived'
  BY <1>1 DEF Inv, Arrived
<1>6. Timeline'
  BY <1>1, <1>2 DEF Inv, TypeOK, Timeline, WithinSkew
<1>7. Held'
  <2> SUFFICES ASSUME NEW r \in Requests \ lost', setAt[r] # 0
               PROVE  setAt[r] + SKEW_MS <= replay'[ReplayKey(r)]
    BY <1>1, <1>2 DEF Held
  <2>1. CASE RedisRestart
    <3>1. ReplayKey(r) \in ReplayKeys
      BY KeyType DEF Inv, Timeline
    <3>2. saved.replay[ReplayKey(r)] \in Nat /\ setAt[r] + SKEW_MS \in Nat
      BY <3>1 DEF Inv, TypeOK
    <3>3. ~ saved.replay[ReplayKey(r)] < setAt[r] + SKEW_MS
      BY <2>1 DEF RedisRestart
    <3>4. QED
      BY <2>1, <3>2, <3>3 DEF RedisRestart
  <2>2. CASE ~ RedisRestart
    <3>1. UNCHANGED <<replay, lost>>
      BY <2>2 DEF Environment, Tick, Seed, Snapshot, redis
    <3>2. QED
      BY <3>1 DEF Inv, Held
  <2>3. QED
    BY <2>1, <2>2
<1>8. Owned'
  <2>1. replay' \in {replay, saved.replay} /\ saved'.replay \in {replay, saved.replay}
    BY DEF Environment, Tick, Seed, Snapshot, RedisRestart, redis
  <2>2. QED
    BY <1>1, <1>2, <2>1 DEF Inv, Owned, OwnedIn
<1>9. LostWasSet'
  BY <1>1 DEF Inv, LostWasSet, Environment, Tick, Seed, Snapshot, RedisRestart
<1>10. QED
  BY <1>1, <1>4, <1>5, <1>6, <1>7, <1>8, <1>9 DEF Inv

LEMMA InitInv == Init => Inv
BY DEF Init, Inv, TypeOK, Arrived, Timeline, Held, Owned, OwnedIn, LostWasSet, Statuses

LEMMA NextKeepsInv == Inv /\ [Next]_vars => Inv'
<1> SUFFICES ASSUME Inv, [Next]_vars
             PROVE  Inv'
  OBVIOUS
<1>1. CASE Environment
  BY <1>1, EnvironmentKeepsInv
<1>2. CASE \E r \in Requests, i \in Inputs : Post(r, i)
  BY <1>2, PostKeepsInv
<1>3. ASSUME NEW r \in Requests, Serve(r)
      PROVE  Inv'
  <2>1. CASE RefuseRealm(r)
    BY <2>1, AnswerKeepsInv DEF RefuseRealm, Throw, Statuses
  <2>2. CASE Refuse(r)
    BY <2>2, AnswerKeepsInv DEF Refuse, Throw, Statuses
  <2>3. CASE Admit(r)
    BY <2>3, AdmitKeepsInv
  <2>4. CASE Record(r)
    BY <2>4, RecordedKeepsInv DEF Record, Statuses
  <2>5. CASE RefuseReplay(r)
    BY <2>5, AnswerKeepsInv DEF RefuseReplay, Throw, Statuses
  <2>6. QED
    BY <1>3, <2>1, <2>2, <2>3, <2>4, <2>5 DEF Serve
<1>4. ASSUME NEW r \in Requests, Fail(r)
      PROVE  Inv'
  BY <1>4, AnswerKeepsInv, RecordedKeepsInv DEF Fail, Statuses
<1>5. CASE UNCHANGED vars
  BY <1>5 DEF Inv, TypeOK, Arrived, Timeline, Held, Owned, OwnedIn, LostWasSet, vars, redis,
              ReplayKey, ServiceTicket, Auth
<1>6. QED
  BY <1>1, <1>2, <1>3, <1>4, <1>5 DEF Next, Environment

\* The strengthened invariant holds in every reachable state.
THEOREM Invariance == Spec => []Inv
BY InitInv, NextKeepsInv, PTL DEF Spec

\* Type correctness of the AP exchange.
THEOREM TypeCorrect == Spec => []TypeOK
<1>1. Inv => TypeOK
  BY DEF Inv
<1>2. QED
  BY <1>1, Invariance, PTL

\* The TTL of a replay entry (tickets-manager.service.ts passes SKEW_MS to
\* isReplay) covers the rest of the authenticator's window whenever its
\* timestamp was not in the future and no restart dropped the entry.
THEOREM RecordOutlivesWindowHolds == Spec => []RecordOutlivesWindow
<1>1. Inv => RecordOutlivesWindow
  <2> SUFFICES ASSUME Inv, NEW r \in Requests \ lost, setAt[r] # 0,
                      Auth(r).timestamp <= setAt[r],
                      clock <= Auth(r).timestamp + SKEW_MS
               PROVE  clock <= replay[ReplayKey(r)]
    BY DEF RecordOutlivesWindow, Live
  <2>1. ReplayKey(r) \in ReplayKeys /\ Auth(r).timestamp \in Int
    BY KeyType DEF Inv, Timeline
  <2>2. setAt[r] + SKEW_MS <= replay[ReplayKey(r)]
    BY DEF Inv, Held
  <2>3. clock \in Nat /\ setAt[r] \in Nat /\ replay[ReplayKey(r)] \in Nat
    BY <2>1 DEF Inv, TypeOK
  <2>4. QED
    BY <2>1, <2>2, <2>3
<1>2. QED
  BY <1>1, Invariance, PTL

\* A 401 "Authenticator already used" always has a recorded authenticator of
\* another request behind it.
THEOREM RefusedOnlyIfRecordedHolds == Spec => RefusedOnlyIfRecorded
<1>1. Inv /\ [Next]_vars => [RefusesOnlyRecorded]_vars
  <2> SUFFICES ASSUME Inv, Next, NEW r \in Requests,
                      status'[r] = "AlreadyUsed", status[r] # "AlreadyUsed"
               PROVE  RefusalIsOfRecorded(r)
    BY DEF RefusesOnlyRecorded
  <2>1. RefuseReplay(r)
    BY DEF Next, Tick, Snapshot, RedisRestart, Seed, Post, Serve, Fail, RefuseRealm,
           Refuse, Admit, Record, RefuseReplay, Throw, Answer, Inv, TypeOK
  <2>2. /\ pc[r] = "record"
        /\ setAt[r] = 0
        /\ ReplayKey(r) \in ReplayKeys
        /\ clock <= replay[ReplayKey(r)]
    BY <2>1, KeyType DEF RefuseReplay, Live, Inv, Timeline
  <2>3. PICK q \in Requests :
          /\ setAt[q] # 0
          /\ ReplayKey(q) = ReplayKey(r)
          /\ replay[ReplayKey(r)] = setAt[q] + SKEW_MS
    BY <2>2 DEF Inv, Owned, OwnedIn, TypeOK
  <2>4. q # r /\ checkedAt[q] # 0 /\ clock <= setAt[q] + SKEW_MS
    BY <2>2, <2>3 DEF Inv, Timeline
  <2>5. pc[q] # "idle" /\ pc[r] # "idle"
    BY <2>2, <2>3 DEF Inv, Timeline
  <2>6. /\ Auth(q) \in Authenticator /\ Auth(r) \in Authenticator
        /\ Auth(q).username = Auth(r).username
        /\ Auth(q).timestamp = Auth(r).timestamp
        /\ input[q].realm = input[r].realm
    BY <2>3, <2>5, KeyType
  <2>7. Auth(q) = Auth(r)
    BY <2>6 DEF Authenticator
  <2>8. QED
    BY <2>3, <2>4, <2>6, <2>7 DEF RefusalIsOfRecorded
<1>2. QED
  BY <1>1, Invariance, PTL DEF Spec, RefusedOnlyIfRecorded

-----------------------------------------------------------------------------

\* The refinement: each request answered with an AP_REP is an acceptance.

Entry(r) ==
  [by |-> r, id |-> ReplayKey(r), checked |-> checkedAt[r], recorded |-> setAt[r]]

Lost == {a \in Acceptances : a.by \in lost}

LEMMA InitImplements == Init => Promise!Init
BY DEF Init, Promise!Init, Acceptances

\* A step that neither accepts a request nor changes what is known of those
\* accepted leaves the acceptances alone.
LEMMA SameAcceptances ==
  ASSUME Inv,
         \A q \in Requests : status'[q] = "Accepted" <=> status[q] = "Accepted",
         \A q \in Requests :
           status[q] = "Accepted" =>
             input'[q] = input[q] /\ checkedAt'[q] = checkedAt[q] /\ setAt'[q] = setAt[q]
  PROVE  /\ Acceptances' = Acceptances
         /\ lost' = lost => Lost' = Lost
<1>1. \A q \in Requests : status[q] = "Accepted" => ReplayKey(q)' = ReplayKey(q)
  BY DEF ReplayKey, ServiceTicket, Auth
<1>2. {q \in Requests : status'[q] = "Accepted"} = {q \in Requests : status[q] = "Accepted"}
  OBVIOUS
<1>3. QED
  BY <1>1, <1>2 DEF Acceptances, Lost

\* A restart of Redis loses the records of the requests it adds to lost.
LEMMA RestartImplements ==
  ASSUME Inv, RedisRestart
  PROVE  Promise!Lose
<1>1. Acceptances' = Acceptances /\ clock' = clock /\ lost \subseteq lost'
  BY SameAcceptances DEF RedisRestart
<1>2. Lost' = Lost \cup {a \in Acceptances : a.by \in lost'}
  BY <1>1 DEF Lost
<1>3. QED
  BY <1>1, <1>2 DEF Promise!Lose, Lost

LEMMA RecordImplements ==
  ASSUME Inv, NEW r \in Requests, Record(r)
  PROVE  Promise!Accept(r, ReplayKey(r), checkedAt[r])
<1> DEFINE k == ReplayKey(r)
           new == [by |-> r, id |-> k, checked |-> checkedAt[r], recorded |-> clock]
<1>1. /\ pc[r] = "record" /\ status[r] = "Pending"
      /\ k \in ReplayKeys /\ k.timestamp = Auth(r).timestamp
      /\ checkedAt[r] \in 1 .. clock
      /\ WithinSkew(Auth(r).timestamp, checkedAt[r])
      /\ replay[k] < clock
  BY KeyType DEF Record, Recorded, Live, Inv, Timeline, TypeOK
<1>2. /\ \A a \in Acceptances : a.by # r
      /\ \A a \in Acceptances \ Lost : a.id = k => clock > a.recorded + SKEW_MS
  <2> SUFFICES ASSUME NEW q \in Requests, status[q] = "Accepted"
               PROVE  /\ q # r
                      /\ q \notin lost /\ ReplayKey(q) = k => clock > setAt[q] + SKEW_MS
    BY DEF Acceptances, Lost
  <2>1. q # r
    BY <1>1
  <2> SUFFICES ASSUME q \notin lost
               PROVE  ReplayKey(q) = k => clock > setAt[q] + SKEW_MS
    BY <2>1
  <2>2. setAt[q] # 0 /\ setAt[q] + SKEW_MS <= replay[ReplayKey(q)]
    BY DEF Inv, Timeline, Held
  <2>3. ReplayKey(q) = k => setAt[q] + SKEW_MS <= replay[k] /\ replay[k] \in Nat
    BY <1>1, <2>2 DEF Inv, TypeOK
  <2>4. setAt[q] \in Nat /\ clock \in Nat
    BY DEF Inv, TypeOK
  <2>5. QED
    BY <1>1, <2>1, <2>3, <2>4
<1>3. Acceptances' = Acceptances \cup {new}
  <2>1. \A q \in Requests : ReplayKey(q)' = ReplayKey(q)
    BY DEF Record, ReplayKey, ServiceTicket, Auth
  <2>2. /\ status' = [status EXCEPT ![r] = "Accepted"]
        /\ setAt' = [setAt EXCEPT ![r] = clock]
        /\ checkedAt' = checkedAt
    BY DEF Record, Recorded, Answer
  <2>3. {q \in Requests : status'[q] = "Accepted"}
          = {q \in Requests : status[q] = "Accepted"} \cup {r}
    BY <2>2 DEF Inv, TypeOK
  <2>4. \A q \in Requests : status[q] = "Accepted" => setAt'[q] = setAt[q]
    BY <1>1, <2>2 DEF Inv, TypeOK
  <2>5. setAt'[r] = clock
    BY <2>2 DEF Inv, TypeOK
  <2>6. QED
    BY <2>1, <2>2, <2>3, <2>4, <2>5 DEF Acceptances
<1>4. Lost' = Lost
  <2>1. r \notin lost /\ lost' = lost
    BY <1>1 DEF Record, Inv, Timeline, LostWasSet
  <2>2. QED
    BY <1>3, <2>1 DEF Lost
<1>5. Promise!Within([j \in ReplayKeys |-> j.timestamp][k], checkedAt[r])
  BY <1>1 DEF Promise!Within, WithinSkew
<1>6. checkedAt[r] <= clock /\ clock' = clock
  BY <1>1 DEF Record, Inv, TypeOK
<1>7. QED
  BY <1>2, <1>3, <1>5, <1>6, <1>4 DEF Promise!Accept, Promise!Unrecorded, Promise!Entry, Lost

LEMMA StepImplements == Inv /\ [Next]_vars => [Promise!Next]_(Promise!vars)
<1> SUFFICES ASSUME Inv, [Next]_vars
             PROVE  \/ Promise!Next
                    \/ clock' = clock /\ Acceptances' = Acceptances /\ Lost' = Lost
  BY DEF Promise!vars, Lost
<1>1. CASE Tick
  <2>1. Acceptances' = Acceptances /\ Lost' = Lost
    BY <1>1, SameAcceptances DEF Tick
  <2>2. QED
    BY <1>1, <2>1 DEF Tick, Promise!Next, Promise!Advance, Lost
<1>2. CASE (\E realm \in Realms : Seed(realm)) \/ Snapshot
  BY <1>2, SameAcceptances DEF Seed, Snapshot
<1>3. CASE RedisRestart
  BY <1>3, RestartImplements DEF Promise!Next
<1>4. ASSUME NEW r \in Requests, NEW i \in Inputs, Post(r, i)
      PROVE  clock' = clock /\ Acceptances' = Acceptances /\ Lost' = Lost
  <2>1. status[r] = "Pending"
    BY <1>4 DEF Post, Inv, Timeline
  <2>2. QED
    BY <1>4, <2>1, SameAcceptances DEF Post, Inv, TypeOK
<1>5. ASSUME NEW r \in Requests,
             \/ RefuseRealm(r) \/ Refuse(r) \/ Admit(r) \/ RefuseReplay(r) \/ Fail(r)
      PROVE  clock' = clock /\ Acceptances' = Acceptances /\ Lost' = Lost
  <2>1. status[r] = "Pending"
    BY <1>5 DEF RefuseRealm, Refuse, Admit, RefuseReplay, Fail, Inv, Timeline
  <2>2. QED
    BY <1>5, <2>1, SameAcceptances
    DEF RefuseRealm, Refuse, Admit, RefuseReplay, Fail, Throw, Recorded, Answer, Inv, TypeOK
<1>6. ASSUME NEW r \in Requests, Record(r)
      PROVE  Promise!Next
  <2>1. ReplayKey(r) \in ReplayKeys /\ checkedAt[r] \in 1 .. MaxClock
    BY <1>6, KeyType DEF Record, Recorded, Inv, Timeline, TypeOK
  <2>2. QED
    BY <1>6, <2>1, RecordImplements DEF Promise!Next
<1>7. CASE UNCHANGED vars
  BY <1>7, SameAcceptances DEF vars
<1>8. QED
  BY <1>1, <1>2, <1>4, <1>5, <1>6, <1>7, <1>3 DEF Next, Serve

\* The AP exchange implements AcceptOnce: what is proved of the promise holds
\* of the service.
THEOREM Implements == Spec => ReplayPromise
BY InitImplements, StepImplements, Invariance, PTL
DEF Spec, ReplayPromise, Promise!Spec

-----------------------------------------------------------------------------
(* What AcceptOnceProofs proves of the promise, carried over. *)

Log == INSTANCE AcceptOnceProofs WITH
  Ids <- ReplayKeys,
  StampOf <- [k \in ReplayKeys |-> k.timestamp],
  Skew <- SKEW_MS,
  accepted <- Acceptances,
  lost <- {a \in Acceptances : a.by \in lost}

LEMMA LogAssumption ==
  /\ SKEW_MS \in Nat /\ MaxClock \in Nat
  /\ [k \in ReplayKeys |-> k.timestamp] \in [ReplayKeys -> Int]
BY DEF ReplayKeys

\* The promise is the specification that AcceptOnceProofs proves about.
LEMMA PromiseIsLog == ReplayPromise => Log!Spec
<1>1. Promise!Init => Log!Init
  BY DEF Promise!Init, Log!Init
<1>2. Promise!Next => Log!Next
  BY Zenon DEF Promise!Next, Log!Next, Promise!Advance, Log!Advance, Promise!Lose, Log!Lose,
     Promise!Accept, Log!Accept, Promise!Entry, Log!Entry, Promise!Within, Log!Within,
     Promise!Unrecorded, Log!Unrecorded
<1>3. [Promise!Next]_(Promise!vars) => [Log!Next]_(Log!vars)
  BY <1>2 DEF Promise!vars, Log!vars
<1>4. QED
  BY <1>1, <1>3, PTL DEF ReplayPromise, Promise!Spec, Log!Spec

\* Of two acceptances of one authenticator the second is late, as it follows from
\* the promise: nothing is proved of Redis or of the requests again.
THEOREM RepeatedOnlyLateHolds == Spec => []RepeatedOnlyLate
<1>1. Inv /\ Log!Spacing /\ Log!SecondNeedsLeadOrDelay => RepeatedOnlyLate
  <2> SUFFICES ASSUME Inv, Log!Spacing, Log!SecondNeedsLeadOrDelay,
                      NEW q \in Requests \ lost, NEW r \in Requests \ lost,
                      status[q] = "Accepted", status[r] = "Accepted",
                      q # r, ReplayKey(q) = ReplayKey(r), setAt[q] <= setAt[r]
               PROVE  /\ setAt[r] > setAt[q] + SKEW_MS
                      /\ setAt[r] - checkedAt[r] > setAt[q] - Auth(q).timestamp
    BY DEF RepeatedOnlyLate
  <2> DEFINE a == [by |-> q, id |-> ReplayKey(q), checked |-> checkedAt[q], recorded |-> setAt[q]]
             b == [by |-> r, id |-> ReplayKey(r), checked |-> checkedAt[r], recorded |-> setAt[r]]
  <2>1. /\ a \in Acceptances \ {x \in Acceptances : x.by \in lost}
        /\ b \in Acceptances \ {x \in Acceptances : x.by \in lost}
    BY DEF Acceptances
  <2>2. /\ a # b /\ a.id = b.id /\ a.recorded = setAt[q] /\ b.recorded = setAt[r]
        /\ b.checked = checkedAt[r]
    OBVIOUS
  <2>3. setAt[q] \in Nat /\ setAt[r] \in Nat /\ SKEW_MS \in Nat
    BY DEF Inv, TypeOK
  <2> HIDE DEF a, b
  <2>4. setAt[r] > setAt[q] + SKEW_MS
    BY <2>1, <2>2, <2>3 DEF Log!Spacing
  <2>5. b.recorded - b.checked > a.recorded - [k \in ReplayKeys |-> k.timestamp][a.id]
    BY <2>1, <2>2, <2>3, <2>4 DEF Log!SecondNeedsLeadOrDelay
  <2>6. ReplayKey(q) \in ReplayKeys /\ ReplayKey(q).timestamp = Auth(q).timestamp
    BY KeyType DEF Inv, Timeline
  <2>7. a.id = ReplayKey(q)
    BY DEF a
  <2>8. QED
    BY <2>2, <2>4, <2>5, <2>6, <2>7
<1>2. Log!Spec => []Log!Spacing /\ []Log!SecondNeedsLeadOrDelay
  BY LogAssumption, Log!SpacingHolds, Log!SecondNeedsLeadOrDelayHolds, PTL
<1>3. QED
  BY <1>1, <1>2, Invariance, Implements, PromiseIsLog, PTL
=============================================================================
