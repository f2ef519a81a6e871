---------------------------- MODULE KdcReplayProofs ----------------------------
(***************************************************************************)
(* The replay defence of the TGS, proved for any number of requests, any   *)
(* inputs and SKEW_MS and any number of restarts: only an authenticator    *)
(* that was recorded is refused as used, and the TGS implements            *)
(* AcceptOnce.                                                             *)
(***************************************************************************)
EXTENDS KdcProofs

\* When request r's authenticator was checked and recorded.
Timeline(r) ==
  /\ pc[r] = "tgs.replay" =>
       checkedAt[r] \in 1 .. clock /\ WithinSkew(Auth(r).timestamp, checkedAt[r])
  /\ setAt[r] # 0 =>
       /\ setAt[r] <= clock
       /\ checkedAt[r] \in 1 .. setAt[r]
       /\ WithinSkew(Auth(r).timestamp, checkedAt[r])

\* Redis holds an entry at least SKEW_MS longer than any SET of that key whose
\* record no restart has dropped.
Held ==
  \A r \in Requests \ lost :
    setAt[r] # 0 => setAt[r] + SKEW_MS <= replay[ReplayKey(r)]

\* Every entry of the cache, or of its snapshot, was set by some request.
OwnedIn(store) ==
  \A k \in ReplayKeys :
    store[k] # 0 =>
      \E q \in Requests :
        setAt[q] # 0 /\ ReplayKey(q) = k /\ store[k] = setAt[q] + SKEW_MS

ReplayInv ==
  /\ Inv
  /\ clock <= MaxClock
  /\ \A r \in Requests : Timeline(r)
  /\ Held
  /\ OwnedIn(replay) /\ OwnedIn(saved.replay)
  /\ \A r \in lost : setAt[r] # 0

USE SkewAssumption, KdcAssumption

\* The replay key and the timestamp of a request that may be recorded.
LEMMA KeyType ==
  ASSUME Inv, NEW r \in Requests, IsTgs(r)
  PROVE  /\ ReplayKey(r) \in ReplayKeys
         /\ Auth(r) \in Authenticator
         /\ ReplayKey(r).timestamp = Auth(r).timestamp
         /\ ReplayKey(r).username = Auth(r).username
         /\ ReplayKey(r).realm = input[r].realm
         /\ Auth(r).timestamp \in Int
BY TgsInputType DEF IsTgs, ReplayKey, ReplayKeys, Auth

LEMMA RecordableIsTgs ==
  ASSUME Inv, NEW r \in Requests, setAt[r] # 0 \/ pc[r] = "tgs.replay"
  PROVE  /\ IsTgs(r) /\ pc[r] # "idle"
         /\ pc[r] = "tgs.replay" => setAt[r] = 0
BY DEF Inv, Sound, Arrived, RecordedLeads, Shaping

\* Nothing is recorded or lost, and who is about to record has been checked.
LEMMA QuietStepKeeps ==
  ASSUME ReplayInv, Inv', UNCHANGED <<replay, saved, setAt, lost>>,
         clock' \in clock .. MaxClock,
         \A q \in Requests :
           setAt[q] # 0 => input'[q] = input[q] /\ checkedAt'[q] = checkedAt[q],
         \A q \in Requests :
           pc'[q] = "tgs.replay" =>
             /\ checkedAt'[q] \in 1 .. clock
             /\ WithinSkew(input'[q].authenticator.payload.timestamp, checkedAt'[q])
  PROVE  ReplayInv'
<1>1. \A q \in Requests :
        setAt[q] # 0 => ReplayKey(q)' = ReplayKey(q) /\ Auth(q)' = Auth(q)
  BY DEF ReplayKey, Auth
<1>2. ASSUME NEW q \in Requests
      PROVE  Timeline(q)'
  <2>1. /\ clock \in Nat /\ clock' \in Nat /\ clock <= clock' /\ setAt[q] \in Nat
        /\ MaxClock \in Nat
    BY DEF ReplayInv, Inv, TypeOK
  <2>2. pc'[q] = "tgs.replay" =>
          checkedAt'[q] \in 1 .. clock' /\ WithinSkew(Auth(q)'.timestamp, checkedAt'[q])
    BY <2>1 DEF Auth
  <2>3. setAt'[q] # 0 =>
          /\ setAt'[q] <= clock'
          /\ checkedAt'[q] \in 1 .. setAt'[q]
          /\ WithinSkew(Auth(q)'.timestamp, checkedAt'[q])
    BY <1>1, <2>1 DEF ReplayInv, Timeline
  <2>4. QED
    BY <2>2, <2>3 DEF Timeline, WithinSkew
<1>3. Held'
  BY <1>1 DEF ReplayInv, Held
<1>4. OwnedIn(replay)' /\ OwnedIn(saved.replay)'
  BY <1>1 DEF ReplayInv, OwnedIn
<1>5. clock' <= MaxClock
  BY DEF ReplayInv, Inv, TypeOK
<1>6. QED
  BY <1>2, <1>3, <1>4, <1>5 DEF ReplayInv

\* A request's SET NX takes effect, whatever becomes of it then.
LEMMA RecordedKeeps ==
  ASSUME ReplayInv, Inv', NEW r \in Requests, NEW to, to # "tgs.replay",
         Recorded(r), Await(r, to), UNCHANGED <<clock, input, checkedAt, lost>>
  PROVE  ReplayInv'
<1> DEFINE k == ReplayKey(r)
<1>1. k \in ReplayKeys /\ pc[r] = "tgs.replay" /\ setAt[r] = 0
  BY KeyType, RecordableIsTgs DEF Recorded, ReplayInv
<1>2. /\ clock \in Nat \ {0} /\ replay \in [ReplayKeys -> Nat] /\ setAt \in [Requests -> Nat]
      /\ pc \in [Requests -> Commands]
  BY DEF ReplayInv, Inv, TypeOK
<1>3. /\ replay' = [replay EXCEPT ![k] = clock + SKEW_MS]
      /\ setAt' = [setAt EXCEPT ![r] = clock]
      /\ pc' = [pc EXCEPT ![r] = to]
      /\ replay[k] < clock
      /\ saved' = saved
  BY <1>1, <1>2 DEF Recorded, Await, SetNX, Live
<1>4. \A q \in Requests : ReplayKey(q)' = ReplayKey(q) /\ Auth(q)' = Auth(q)
  BY DEF ReplayKey, Auth
<1>5. ASSUME NEW q \in Requests
      PROVE  Timeline(q)'
  <2>1. CASE q = r
    BY <1>1, <1>2, <1>3, <1>4, <2>1 DEF ReplayInv, Timeline, WithinSkew
  <2>2. CASE q # r
    BY <1>2, <1>3, <1>4, <2>2 DEF ReplayInv, Timeline, WithinSkew
  <2>3. QED
    BY <2>1, <2>2
<1>6. Held'
  <2> SUFFICES ASSUME NEW q \in Requests \ lost, setAt'[q] # 0
               PROVE  setAt'[q] + SKEW_MS <= replay'[ReplayKey(q)]
    BY <1>4 DEF Held
  <2>1. CASE q = r
    BY <1>1, <1>2, <1>3, <2>1
  <2>2. CASE q # r
    <3>1. setAt[q] # 0 /\ setAt'[q] = setAt[q]
      BY <1>2, <1>3, <2>2
    <3>2. setAt[q] + SKEW_MS <= replay[ReplayKey(q)] /\ setAt[q] <= clock
      BY <3>1 DEF ReplayInv, Held, Timeline
    <3>3. ReplayKey(q) \in ReplayKeys
      BY <3>1, KeyType, RecordableIsTgs DEF ReplayInv
    <3>4. QED
      BY <1>1, <1>2, <1>3, <3>1, <3>2, <3>3
  <2>3. QED
    BY <2>1, <2>2
<1>7. \A q \in Requests : setAt[q] # 0 => setAt'[q] = setAt[q]
  BY <1>1, <1>2, <1>3
<1>8. OwnedIn(saved.replay)'
  BY <1>3, <1>4, <1>7 DEF ReplayInv, OwnedIn
<1>9. OwnedIn(replay)'
  <2> SUFFICES ASSUME NEW j \in ReplayKeys, replay'[j] # 0
               PROVE  \E q \in Requests :
                        setAt'[q] # 0 /\ ReplayKey(q) = j /\ replay'[j] = setAt'[q] + SKEW_MS
    BY <1>4 DEF OwnedIn
  <2>1. CASE j = k
    BY <1>1, <1>2, <1>3, <2>1
  <2>2. CASE j # k
    <3>1. replay'[j] = replay[j]
      BY <1>2, <1>3, <2>2
    <3>2. PICK q \in Requests :
            setAt[q] # 0 /\ ReplayKey(q) = j /\ replay[j] = setAt[q] + SKEW_MS
      BY <3>1 DEF ReplayInv, OwnedIn
    <3>3. QED
      BY <1>7, <3>1, <3>2
  <2>3. QED
    BY <2>1, <2>2
<1>10. \A q \in lost' : setAt'[q] # 0
  BY <1>7 DEF ReplayInv, Inv, TypeOK
<1>11. QED
  BY <1>5, <1>6, <1>8, <1>9, <1>10 DEF ReplayInv

\* Redis takes a snapshot or restarts.
LEMMA RedisKeeps ==
  ASSUME ReplayInv, Inv', Snapshot \/ RedisRestart
  PROVE  ReplayInv'
<1>1. UNCHANGED <<clock, pc, input, checkedAt, setAt>>
  BY DEF Snapshot, RedisRestart, history
<1>2. \A q \in Requests : ReplayKey(q)' = ReplayKey(q) /\ Auth(q)' = Auth(q)
  BY <1>1 DEF ReplayKey, Auth
<1>3. \A q \in Requests : Timeline(q)'
  BY <1>1, <1>2 DEF ReplayInv, Timeline, WithinSkew
<1>4. Held'
  <2>1. CASE Snapshot
    BY <1>1, <1>2, <2>1 DEF Snapshot, history, ReplayInv, Held
  <2>2. CASE RedisRestart
    <3> SUFFICES ASSUME NEW r \in Requests \ lost', setAt[r] # 0
                 PROVE  setAt[r] + SKEW_MS <= replay'[ReplayKey(r)]
      BY <1>1, <1>2 DEF Held
    <3>1. ReplayKey(r) \in ReplayKeys
      BY KeyType, RecordableIsTgs DEF ReplayInv
    <3>2. saved.replay[ReplayKey(r)] \in Nat /\ setAt[r] + SKEW_MS \in Nat
      BY <3>1 DEF ReplayInv, Inv, TypeOK
    <3>3. ~ saved.replay[ReplayKey(r)] < setAt[r] + SKEW_MS
      BY <2>2 DEF RedisRestart
    <3>4. QED
      BY <2>2, <3>2, <3>3 DEF RedisRestart
  <2>3. QED
    BY <2>1, <2>2
<1>5. OwnedIn(replay)' /\ OwnedIn(saved.replay)'
  <2>1. replay' \in {replay, saved.replay} /\ saved'.replay \in {replay, saved.replay}
    BY DEF Snapshot, RedisRestart
  <2>2. QED
    BY <1>1, <1>2, <2>1 DEF ReplayInv, OwnedIn
<1>6. \A q \in lost' : setAt'[q] # 0
  BY <1>1 DEF ReplayInv, Snapshot, RedisRestart, history
<1>7. QED
  BY <1>1, <1>3, <1>4, <1>5, <1>6 DEF ReplayInv

\* The steps of a request that leave Redis alone, Admit apart.
Moves(r) ==
  \/ \E i \in AsInputs : PostAs(r, i)
  \/ \E q, p \in Requests, c \in TgsInputs : PostTgs(r, q, p, c)
  \/ GetUserKey(r) \/ RefusePreAuth(r) \/ Authenticate(r) \/ RefuseTarget(r)
  \/ FindTarget(r) \/ RefuseTgt(r) \/ RefuseReplay(r) \/ GetTicketKey(r)
  \/ RefusePrincipal(r) \/ Shape(r) \/ FailToShape(r)
  \/ Fail(r) /\ UNCHANGED <<redis, setAt>>

LEMMA MovesFacts ==
  ASSUME Inv, NEW r \in Requests, Moves(r)
  PROVE  /\ UNCHANGED <<clock, redis, setAt, lost>>
         /\ \E to \in Commands \ {"tgs.replay"} : pc' = [pc EXCEPT ![r] = to]
         /\ \A q \in Requests \ {r} : input'[q] = input[q] /\ checkedAt'[q] = checkedAt[q]
         /\ setAt[r] # 0 => input'[r] = input[r] /\ checkedAt'[r] = checkedAt[r]
<1>1. CASE \/ \E i \in AsInputs : PostAs(r, i)
           \/ \E q, p \in Requests, c \in TgsInputs : PostTgs(r, q, p, c)
  <2>1. setAt[r] = 0
    BY <1>1, RecordableIsTgs DEF PostAs, PostTgs
  <2>2. \E to \in {"as.userKey", "tgs.target"} : pc' = [pc EXCEPT ![r] = to]
    BY <1>1 DEF PostAs, PostTgs, Await
  <2>3. /\ UNCHANGED <<clock, redis, setAt, lost, checkedAt>>
        /\ \A q \in Requests \ {r} : input'[q] = input[q]
    BY <1>1 DEF PostAs, PostTgs, history, Inv, TypeOK
  <2>4. QED
    BY <2>1, <2>2, <2>3 DEF Commands
<1>2. CASE GetUserKey(r) \/ FindTarget(r) \/ GetTicketKey(r) \/ Shape(r)
  BY <1>2 DEF GetUserKey, FindTarget, GetTicketKey, Shape, Answer, Await, history, Commands
<1>3. CASE Authenticate(r)
  <2>1. setAt[r] = 0
    BY <1>3 DEF Authenticate, Inv, Sound, RecordedLeads, Shaping
  <2>2. QED
    BY <1>3, <2>1 DEF Authenticate, Await, history, Inv, TypeOK, Commands
<1>4. CASE \/ RefusePreAuth(r) \/ RefuseTarget(r) \/ RefuseTgt(r) \/ RefuseReplay(r)
           \/ RefusePrincipal(r) \/ FailToShape(r)
  BY <1>4
  DEF RefusePreAuth, RefuseTarget, RefuseTgt, RefuseReplay, RefusePrincipal, FailToShape,
      Throw, Answer, Await, history, Commands
<1>5. CASE Fail(r) /\ UNCHANGED <<redis, setAt>>
  BY <1>5 DEF Fail, Answer, Await, Commands
<1>6. QED
  BY <1>1, <1>2, <1>3, <1>4, <1>5 DEF Moves

LEMMA MovesKeep ==
  ASSUME ReplayInv, Inv', NEW r \in Requests, Moves(r)
  PROVE  ReplayInv'
<1>1. /\ UNCHANGED <<clock, redis, setAt, lost>>
      /\ \A q \in Requests \ {r} : input'[q] = input[q] /\ checkedAt'[q] = checkedAt[q]
      /\ setAt[r] # 0 => input'[r] = input[r] /\ checkedAt'[r] = checkedAt[r]
  BY MovesFacts DEF ReplayInv
<1>2. PICK to \in Commands \ {"tgs.replay"} : pc' = [pc EXCEPT ![r] = to]
  BY MovesFacts DEF ReplayInv
<1>3. \A q \in Requests : pc'[q] = "tgs.replay" => q # r /\ pc[q] = "tgs.replay"
  BY <1>2 DEF ReplayInv, Inv, TypeOK
<1>4. \A q \in Requests :
        pc'[q] = "tgs.replay" =>
          /\ checkedAt'[q] \in 1 .. clock
          /\ WithinSkew(input'[q].authenticator.payload.timestamp, checkedAt'[q])
  BY <1>1, <1>3 DEF ReplayInv, Timeline, Auth
<1>5. clock' \in clock .. MaxClock
  BY <1>1 DEF ReplayInv, Inv, TypeOK
<1>6. QED
  BY <1>1, <1>4, <1>5, QuietStepKeeps DEF redis

LEMMA AdmitKeeps ==
  ASSUME ReplayInv, Inv', NEW r \in Requests, Admit(r)
  PROVE  ReplayInv'
<1>1. /\ UNCHANGED <<clock, redis, input, setAt, lost>>
      /\ checkedAt' = [checkedAt EXCEPT ![r] = clock]
      /\ pc' = [pc EXCEPT ![r] = "tgs.replay"]
      /\ WithinSkew(Auth(r).timestamp, clock)
  BY DEF Admit, Valid, Await
<1>2. clock \in 1 .. clock /\ clock' \in clock .. MaxClock
  BY <1>1 DEF ReplayInv, Inv, TypeOK
<1>3. setAt[r] = 0
  BY RecordableIsTgs DEF Admit, ReplayInv, Inv, Sound, RecordedLeads, Shaping
<1>4. \A q \in Requests :
        setAt[q] # 0 => input'[q] = input[q] /\ checkedAt'[q] = checkedAt[q]
  BY <1>1, <1>3 DEF ReplayInv, Inv, TypeOK
<1>5. ASSUME NEW q \in Requests, pc'[q] = "tgs.replay"
      PROVE  /\ checkedAt'[q] \in 1 .. clock
             /\ WithinSkew(input'[q].authenticator.payload.timestamp, checkedAt'[q])
  <2>1. CASE q = r
    BY <1>1, <1>2, <2>1 DEF ReplayInv, Inv, TypeOK, Auth
  <2>2. CASE q # r
    BY <1>1, <1>5, <2>2 DEF ReplayInv, Inv, TypeOK, Timeline, Auth
  <2>3. QED
    BY <2>1, <2>2
<1>6. QED
  BY <1>1, <1>2, <1>4, <1>5, QuietStepKeeps DEF redis

LEMMA QuietEnvironmentKeeps ==
  ASSUME ReplayInv, Inv', Tick \/ KdcRestart \/ UNCHANGED vars
  PROVE  ReplayInv'
<1>1. /\ UNCHANGED <<replay, saved, setAt, lost, input, checkedAt>>
      /\ clock' \in clock .. MaxClock
  BY DEF Tick, KdcRestart, vars, redis, history, ReplayInv, Inv, TypeOK
<1>2. \A q \in Requests : pc'[q] = "tgs.replay" => pc[q] = "tgs.replay"
  BY DEF Tick, KdcRestart, vars
<1>3. \A q \in Requests :
        pc'[q] = "tgs.replay" =>
          /\ checkedAt'[q] \in 1 .. clock
          /\ WithinSkew(input'[q].authenticator.payload.timestamp, checkedAt'[q])
  BY <1>1, <1>2 DEF ReplayInv, Timeline, Auth
<1>4. QED
  BY <1>1, <1>3, QuietStepKeeps

\* Every step is of one of these kinds.
LEMMA StepKinds ==
  ASSUME [Next]_vars
  PROVE  \/ Tick \/ KdcRestart \/ UNCHANGED vars
         \/ Snapshot \/ RedisRestart
         \/ \E r \in Requests :
              \/ Moves(r)
              \/ Admit(r)
              \/ GenerateTicket(r)
              \/ Fail(r) /\ Recorded(r)
BY DEF Next, Serve, Moves, Fail

LEMMA InitReplayInv == Init => ReplayInv
<1>1. Init => clock <= MaxClock
  BY DEF Init
<1>2. QED
  BY <1>1, InitInv DEF Init, ReplayInv, Timeline, Held, OwnedIn, NoReplays

LEMMA NextKeepsReplayInv == ReplayInv /\ [Next]_vars => ReplayInv'
<1> SUFFICES ASSUME ReplayInv, [Next]_vars
             PROVE  ReplayInv'
  OBVIOUS
<1>1. Inv'
  BY NextKeepsInv DEF ReplayInv
<1>2. CASE Tick \/ KdcRestart \/ UNCHANGED vars
  BY <1>1, <1>2, QuietEnvironmentKeeps
<1>3. CASE Snapshot \/ RedisRestart
  BY <1>1, <1>3, RedisKeeps
<1>4. ASSUME NEW r \in Requests, Moves(r) \/ Admit(r)
      PROVE  ReplayInv'
  BY <1>1, <1>4, MovesKeep, AdmitKeeps
<1>5. ASSUME NEW r \in Requests, GenerateTicket(r) \/ (Fail(r) /\ Recorded(r))
      PROVE  ReplayInv'
  BY <1>1, <1>5, RecordedKeeps DEF GenerateTicket, Fail, Answer
<1>6. QED
  BY <1>2, <1>3, <1>4, <1>5, StepKinds

\* The invariant of the replay cache and its history holds throughout.
THEOREM ReplayInvariance == Spec => []ReplayInv
BY InitReplayInv, NextKeepsReplayInv, PTL DEF Spec

\* The body of RefusedOnlyIfRecorded.
RefusesOnlyRecorded ==
  \A r \in Requests :
    status'[r] = "AlreadyUsed" /\ status[r] # "AlreadyUsed" => RefusalIsOfRecorded(r)

\* The TGS's 401 "Authenticator already used" always has a recorded authenticator
\* of another request behind it (tgs.service.ts, replay-cache.service.ts).
THEOREM RefusedOnlyIfRecordedHolds == Spec => RefusedOnlyIfRecorded
<1>1. ReplayInv /\ [Next]_vars => [RefusesOnlyRecorded]_vars
  <2> SUFFICES ASSUME ReplayInv, Next, NEW r \in Requests,
                      status'[r] = "AlreadyUsed", status[r] # "AlreadyUsed"
               PROVE  RefusalIsOfRecorded(r)
    BY DEF RefusesOnlyRecorded
  <2>1. RefuseReplay(r)
    <3>1. status \in [Requests -> Statuses]
      BY DEF ReplayInv, Inv, TypeOK
    <3>2. status' # status
      OBVIOUS
    <3>3. ~ (Tick \/ Snapshot \/ RedisRestart \/ KdcRestart)
      BY DEF Tick, Snapshot, RedisRestart, KdcRestart
    <3>4. PICK a \in Requests :
            \/ \E i \in AsInputs : PostAs(a, i)
            \/ \E q, p \in Requests, c \in TgsInputs : PostTgs(a, q, p, c)
            \/ Serve(a)
            \/ Fail(a)
      BY <3>3 DEF Next
    <3>5. a = r
      BY <3>1, <3>4
      DEF PostAs, PostTgs, Serve, Fail, GetUserKey, RefusePreAuth, Authenticate,
          RefuseTarget, FindTarget, RefuseTgt, Admit, GenerateTicket, RefuseReplay,
          GetTicketKey, RefusePrincipal, Shape, FailToShape, Throw, Answer
    <3>6. QED
      BY <3>1, <3>2, <3>4, <3>5
      DEF PostAs, PostTgs, Serve, Fail, GetUserKey, RefusePreAuth, Authenticate,
          RefuseTarget, FindTarget, RefuseTgt, Admit, GenerateTicket, RefuseReplay,
          GetTicketKey, RefusePrincipal, Shape, FailToShape, Throw, Answer
  <2>2. /\ pc[r] = "tgs.replay" /\ IsTgs(r) /\ setAt[r] = 0
        /\ ReplayKey(r) \in ReplayKeys
        /\ clock <= replay[ReplayKey(r)]
        /\ clock # 0 /\ clock \in Nat /\ replay[ReplayKey(r)] \in Nat
    BY <2>1, KeyType, RecordableIsTgs DEF RefuseReplay, Live, ReplayInv, Inv, TypeOK
  <2>3. PICK q \in Requests :
          /\ setAt[q] # 0
          /\ ReplayKey(q) = ReplayKey(r)
          /\ replay[ReplayKey(r)] = setAt[q] + SKEW_MS
    BY <2>2 DEF ReplayInv, OwnedIn
  <2>4. q # r /\ clock <= setAt[q] + SKEW_MS
    BY <2>2, <2>3
  <2>5. /\ Auth(q) \in Authenticator /\ Auth(r) \in Authenticator
        /\ Auth(q).username = Auth(r).username
        /\ Auth(q).timestamp = Auth(r).timestamp
        /\ input[q].realm = input[r].realm
    BY <2>2, <2>3, KeyType, RecordableIsTgs DEF ReplayInv
  <2>6. Auth(q) = Auth(r)
    BY <2>5 DEF Authenticator
  <2>7. QED
    BY <2>3, <2>4, <2>5, <2>6 DEF RefusalIsOfRecorded
<1>2. QED
  BY <1>1, ReplayInvariance, PTL DEF Spec, RefusedOnlyIfRecorded, RefusesOnlyRecorded

-----------------------------------------------------------------------------
(* The refinement: each authenticator the TGS records is an acceptance. *)

Lost == {a \in Acceptances : a.by \in lost}

LEMMA InitImplements == Init => Promise!Init
BY DEF Init, Promise!Init, Acceptances

\* A step that records nothing leaves the acceptances alone.
LEMMA SameAcceptances ==
  ASSUME Inv, setAt' = setAt,
         \A q \in Requests :
           setAt[q] # 0 => input'[q] = input[q] /\ checkedAt'[q] = checkedAt[q]
  PROVE  /\ Acceptances' = Acceptances
         /\ lost' = lost => Lost' = Lost
<1>1. \A q \in Requests : setAt[q] # 0 => ReplayKey(q)' = ReplayKey(q)
  BY DEF ReplayKey, Auth
<1>2. QED
  BY <1>1 DEF Acceptances, Lost

\* A restart of Redis loses the records of the requests it adds to lost.
LEMMA RestartImplements ==
  ASSUME Inv, RedisRestart
  PROVE  Promise!Lose
<1>1. Acceptances' = Acceptances /\ clock' = clock /\ lost \subseteq lost'
  BY SameAcceptances DEF RedisRestart
<1>2. Lost' = Lost \cup {a \in Acceptances : a.by \in lost'}
  BY <1>1 DEF Lost
<1>3. QED
  BY <1>1, <1>2 DEF Promise!Lose, Lost

LEMMA RecordImplements ==
  ASSUME ReplayInv, NEW r \in Requests, Recorded(r),
         UNCHANGED <<clock, input, checkedAt, lost>>
  PROVE  Promise!Accept(r, ReplayKey(r), checkedAt[r])
<1> DEFINE k == ReplayKey(r)
           new == [by |-> r, id |-> k, checked |-> checkedAt[r], recorded |-> clock]
<1>1. /\ pc[r] = "tgs.replay" /\ setAt[r] = 0
      /\ k \in ReplayKeys /\ k.timestamp = Auth(r).timestamp
      /\ checkedAt[r] \in 1 .. clock
      /\ WithinSkew(Auth(r).timestamp, checkedAt[r])
      /\ replay[k] < clock
  BY KeyType, RecordableIsTgs DEF Recorded, Live, ReplayInv, Inv, TypeOK, Timeline
<1>2. /\ \A a \in Acceptances : a.by # r
      /\ \A a \in Acceptances \ Lost : a.id = k => clock > a.recorded + SKEW_MS
  <2> SUFFICES ASSUME NEW q \in Requests, setAt[q] # 0
               PROVE  /\ q # r
                      /\ q \notin lost /\ ReplayKey(q) = k => clock > setAt[q] + SKEW_MS
    BY DEF Acceptances, Lost
  <2>1. q # r
    BY <1>1
  <2> SUFFICES ASSUME q \notin lost
               PROVE  ReplayKey(q) = k => clock > setAt[q] + SKEW_MS
    BY <2>1
  <2>2. setAt[q] + SKEW_MS <= replay[ReplayKey(q)]
    BY DEF ReplayInv, Held
  <2>3. setAt[q] \in Nat /\ clock \in Nat /\ replay[k] \in Nat
    BY <1>1 DEF ReplayInv, Inv, TypeOK
  <2>4. QED
    BY <1>1, <2>2, <2>3
<1>3. Acceptances' = Acceptances \cup {new}
  <2>1. \A q \in Requests : ReplayKey(q)' = ReplayKey(q)
    BY DEF ReplayKey, Auth
  <2>2. setAt' = [setAt EXCEPT ![r] = clock] /\ clock # 0
    BY DEF Recorded, ReplayInv, Inv, TypeOK
  <2>3. setAt'[r] = clock /\ \A q \in Requests \ {r} : setAt'[q] = setAt[q]
    BY <2>2 DEF ReplayInv, Inv, TypeOK
  <2>4. {q \in Requests : setAt'[q] # 0} = {q \in Requests : setAt[q] # 0} \cup {r}
    BY <2>2, <2>3
  <2>5. QED
    BY <1>1, <2>1, <2>3, <2>4 DEF Acceptances
<1>4. Lost' = Lost
  <2>1. r \notin lost
    BY <1>1 DEF ReplayInv
  <2>2. QED
    BY <1>3, <2>1 DEF Lost
<1>5. Promise!Within([j \in ReplayKeys |-> j.timestamp][k], checkedAt[r])
  BY <1>1 DEF Promise!Within, WithinSkew
<1>6. checkedAt[r] <= clock
  BY <1>1 DEF ReplayInv, Inv, TypeOK
<1>7. QED
  BY <1>2, <1>3, <1>4, <1>5, <1>6 DEF Promise!Accept, Promise!Unrecorded, Promise!Entry, Lost

LEMMA StepImplements == ReplayInv /\ [Next]_vars => [Promise!Next]_(Promise!vars)
<1> SUFFICES ASSUME ReplayInv, [Next]_vars
             PROVE  \/ Promise!Next
                    \/ clock' = clock /\ Acceptances' = Acceptances /\ Lost' = Lost
  BY DEF Promise!vars, Lost
<1> USE DEF ReplayInv
<1>1. CASE Tick
  <2>1. Acceptances' = Acceptances /\ Lost' = Lost
    BY <1>1, SameAcceptances DEF Tick, history
  <2>2. QED
    BY <1>1, <2>1 DEF Tick, Promise!Next, Promise!Advance, Lost
<1>2. CASE Snapshot \/ KdcRestart \/ UNCHANGED vars
  BY <1>2, SameAcceptances DEF Snapshot, KdcRestart, vars, history
<1>3. CASE RedisRestart
  BY <1>3, RestartImplements DEF Promise!Next
<1>4. ASSUME NEW r \in Requests, Moves(r)
      PROVE  clock' = clock /\ Acceptances' = Acceptances /\ Lost' = Lost
  BY <1>4, MovesFacts, SameAcceptances
<1>5. ASSUME NEW r \in Requests, Admit(r)
      PROVE  clock' = clock /\ Acceptances' = Acceptances /\ Lost' = Lost
  <2>1. setAt[r] = 0
    BY <1>5 DEF Admit, Inv, Sound, RecordedLeads, Shaping
  <2>2. \A q \in Requests : setAt[q] # 0 => checkedAt'[q] = checkedAt[q]
    BY <1>5, <2>1 DEF Admit, Inv, TypeOK
  <2>3. QED
    BY <1>5, <2>2, SameAcceptances DEF Admit
<1>6. ASSUME NEW r \in Requests, GenerateTicket(r) \/ (Fail(r) /\ Recorded(r))
      PROVE  Promise!Next
  <2>1. Recorded(r) /\ UNCHANGED <<clock, input, checkedAt, lost>>
    BY <1>6 DEF GenerateTicket, Fail
  <2>2. ReplayKey(r) \in ReplayKeys /\ checkedAt[r] \in 1 .. MaxClock
    BY <2>1, KeyType, RecordableIsTgs DEF Recorded, Timeline, Inv, TypeOK
  <2>3. QED
    BY <2>1, <2>2, RecordImplements DEF Promise!Next
<1>7. QED
  BY <1>1, <1>2, <1>3, <1>4, <1>5, <1>6, StepKinds

\* The TGS implements AcceptOnce: what is proved of the promise holds of it.
THEOREM Implements == Spec => ReplayPromise
BY InitImplements, StepImplements, ReplayInvariance, PTL
DEF Spec, ReplayPromise, Promise!Spec

-----------------------------------------------------------------------------
(* What AcceptOnceProofs proves of the promise, carried over. *)

Log == INSTANCE AcceptOnceProofs WITH
  Ids <- ReplayKeys,
  StampOf <- [k \in ReplayKeys |-> k.timestamp],
  Skew <- SKEW_MS,
  accepted <- Acceptances,
  lost <- {a \in Acceptances : a.by \in lost}

LEMMA LogAssumption ==
  /\ SKEW_MS \in Nat /\ MaxClock \in Nat
  /\ [k \in ReplayKeys |-> k.timestamp] \in [ReplayKeys -> Int]
BY DEF ReplayKeys

\* The promise is the specification that AcceptOnceProofs proves about.
LEMMA PromiseIsLog == ReplayPromise => Log!Spec
<1>1. Promise!Init => Log!Init
  BY DEF Promise!Init, Log!Init
<1>2. Promise!Next => Log!Next
  BY Zenon DEF Promise!Next, Log!Next, Promise!Advance, Log!Advance, Promise!Lose, Log!Lose,
     Promise!Accept, Log!Accept, Promise!Entry, Log!Entry, Promise!Within, Log!Within,
     Promise!Unrecorded, Log!Unrecorded
<1>3. [Promise!Next]_(Promise!vars) => [Log!Next]_(Log!vars)
  BY <1>2 DEF Promise!vars, Log!vars
<1>4. QED
  BY <1>1, <1>3, PTL DEF ReplayPromise, Promise!Spec, Log!Spec

\* Of two acceptances of one authenticator the second is late, as it follows from
\* the promise: nothing is proved of Redis or of the requests again.
THEOREM RepeatedOnlyLateHolds == Spec => []RepeatedOnlyLate
<1>1. ReplayInv /\ Log!Spacing /\ Log!SecondNeedsLeadOrDelay => RepeatedOnlyLate
  <2> SUFFICES ASSUME ReplayInv, Log!Spacing, Log!SecondNeedsLeadOrDelay,
                      NEW q \in Requests \ lost, NEW r \in Requests \ lost,
                      setAt[q] # 0, setAt[r] # 0,
                      q # r, ReplayKey(q) = ReplayKey(r), setAt[q] <= setAt[r]
               PROVE  /\ setAt[r] > setAt[q] + SKEW_MS
                      /\ setAt[r] - checkedAt[r] > setAt[q] - Auth(q).timestamp
    BY DEF RepeatedOnlyLate
  <2> DEFINE a == [by |-> q, id |-> ReplayKey(q), checked |-> checkedAt[q], recorded |-> setAt[q]]
             b == [by |-> r, id |-> ReplayKey(r), checked |-> checkedAt[r], recorded |-> setAt[r]]
  <2>1. /\ a \in Acceptances \ {x \in Acceptances : x.by \in lost}
        /\ b \in Acceptances \ {x \in Acceptances : x.by \in lost}
    BY DEF Acceptances
  <2>2. /\ a # b /\ a.id = b.id /\ a.recorded = setAt[q] /\ b.recorded = setAt[r]
        /\ b.checked = checkedAt[r]
    OBVIOUS
  <2>3. setAt[q] \in Nat /\ setAt[r] \in Nat /\ SKEW_MS \in Nat
    BY DEF ReplayInv, Inv, TypeOK
  <2> HIDE DEF a, b
  <2>4. setAt[r] > setAt[q] + SKEW_MS
    BY <2>1, <2>2, <2>3 DEF Log!Spacing
  <2>5. b.recorded - b.checked > a.recorded - [k \in ReplayKeys |-> k.timestamp][a.id]
    BY <2>1, <2>2, <2>3, <2>4 DEF Log!SecondNeedsLeadOrDelay
  <2>6. ReplayKey(q) \in ReplayKeys /\ ReplayKey(q).timestamp = Auth(q).timestamp
    BY KeyType, RecordableIsTgs DEF ReplayInv
  <2>7. a.id = ReplayKey(q)
    BY DEF a
  <2>8. QED
    BY <2>2, <2>4, <2>5, <2>6, <2>7
<1>2. Log!Spec => []Log!Spacing /\ []Log!SecondNeedsLeadOrDelay
  BY LogAssumption, Log!SpacingHolds, Log!SecondNeedsLeadOrDelayHolds, PTL
<1>3. QED
  BY <1>1, <1>2, ReplayInvariance, Implements, PromiseIsLog, PTL
=============================================================================
