--------------------------- MODULE AcceptOnceProofs ---------------------------
(***************************************************************************)
(* What the replay promise guarantees, proved for any number of requests   *)
(* and authenticators, any skew and any clock.                             *)
(***************************************************************************)
EXTENDS AcceptOnce, TLAPS

\* What each acceptance records: the timestamp was within the skew when it was
\* checked, the record came later, and every request is accepted once.
History ==
  \A a \in accepted :
    /\ Within(StampOf[a.id], a.checked)
    /\ a.checked <= a.recorded
    /\ a.recorded <= clock
    /\ \A b \in accepted : a.by = b.by => a = b

Inv == TypeOK /\ History /\ Spacing

USE AcceptOnceAssumption

LEMMA AcceptKeepsInv ==
  ASSUME Inv, NEW r \in Requests, NEW id \in Ids, NEW checked \in 1 .. MaxClock,
         Accept(r, id, checked)
  PROVE  Inv'
<1> DEFINE e == Entry(r, id, checked)
<1>1. /\ accepted' = accepted \cup {e}
      /\ clock' = clock /\ lost' = lost
  BY DEF Accept, Entry
<1>2. e \in Acceptance
  BY DEF Inv, TypeOK, Acceptance, Entry
<1>3. TypeOK'
  BY <1>1, <1>2 DEF Inv, TypeOK
<1>4. /\ e.by = r /\ e.id = id /\ e.checked = checked /\ e.recorded = clock
  BY DEF Entry
<1>5. /\ \A a \in accepted : a.by # r
      /\ \A a \in accepted \ lost : a.id = id => clock > a.recorded + Skew
      /\ e \notin lost
  BY <1>4 DEF Accept, Unrecorded, Inv, TypeOK
<1>6. History'
  <2> SUFFICES ASSUME NEW a \in accepted', NEW b \in accepted'
               PROVE  /\ Within(StampOf[a.id], a.checked)
                      /\ a.checked <= a.recorded
                      /\ a.recorded <= clock
                      /\ a.by = b.by => a = b
    BY <1>1 DEF History, Within
  <2>1. CASE a \in accepted
    <3>1. a.by = b.by => a = b
      BY <1>1, <1>4, <1>5, <2>1 DEF Inv, History
    <3>2. QED
      BY <2>1, <3>1 DEF Inv, History
  <2>2. CASE a = e
    <3>1. a.by = b.by => a = b
      BY <1>1, <1>4, <1>5, <2>2
    <3>2. Within(StampOf[e.id], e.checked) /\ e.checked <= clock
      BY <1>4 DEF Accept
    <3>3. clock <= clock
      BY DEF Inv, TypeOK
    <3>4. QED
      BY <1>4, <2>2, <3>1, <3>2, <3>3
  <2>3. QED
    BY <1>1, <2>1, <2>2
<1>7. Spacing'
  <2> SUFFICES ASSUME NEW a \in accepted' \ lost, NEW b \in accepted',
                      a.id = b.id, a # b
               PROVE  \/ b.recorded > a.recorded + Skew
                      \/ a.recorded > b.recorded + Skew
                      \/ b \in lost /\ b.recorded <= a.recorded
    BY <1>1 DEF Spacing
  <2>1. CASE a \in accepted /\ b \in accepted
    BY <2>1 DEF Inv, Spacing
  <2>2. CASE a = e /\ b \in accepted
    <3>1. b.recorded <= e.recorded
      BY <1>4, <2>2 DEF Inv, History
    <3>2. QED
      BY <1>4, <1>5, <2>2, <3>1
  <2>3. CASE a \in accepted /\ b = e
    BY <1>4, <1>5, <2>3
  <2>4. QED
    BY <1>1, <2>1, <2>2, <2>3
<1>8. QED
  BY <1>3, <1>6, <1>7 DEF Inv

LEMMA AdvanceKeepsInv ==
  ASSUME Inv, Advance
  PROVE  Inv'
<1>1. TypeOK'
  BY DEF Inv, TypeOK, Advance
<1>2. History'
  <2> SUFFICES ASSUME NEW a \in accepted
               PROVE  /\ Within(StampOf[a.id], a.checked)
                      /\ a.checked <= a.recorded
                      /\ a.recorded <= clock + 1
                      /\ \A b \in accepted : a.by = b.by => a = b
    BY DEF History, Within, Advance
  <2>1. a.recorded \in Nat /\ clock \in Nat
    BY DEF Inv, TypeOK, Acceptance
  <2>2. QED
    BY <2>1 DEF Inv, History
<1>3. Spacing'
  BY DEF Inv, Spacing, Advance
<1>4. QED
  BY <1>1, <1>2, <1>3 DEF Inv

LEMMA LoseKeepsInv ==
  ASSUME Inv, Lose
  PROVE  Inv'
<1>1. UNCHANGED <<clock, accepted>> /\ lost \subseteq lost' /\ lost' \subseteq accepted
  BY DEF Inv, TypeOK, Lose
<1>2. TypeOK' /\ History'
  BY <1>1 DEF Inv, TypeOK, History, Within
<1>3. Spacing'
  BY <1>1 DEF Inv, Spacing
<1>4. QED
  BY <1>2, <1>3 DEF Inv

\* The strengthened invariant holds throughout.
THEOREM Invariance == Spec => []Inv
<1>1. Init => Inv
  BY DEF Init, Inv, TypeOK, History, Spacing
<1>2. Inv /\ [Next]_vars => Inv'
  <2> SUFFICES ASSUME Inv, [Next]_vars
               PROVE  Inv'
    OBVIOUS
  <2>1. CASE Advance
    BY <2>1, AdvanceKeepsInv
  <2>2. CASE \E r \in Requests, id \in Ids, checked \in 1 .. MaxClock :
               Accept(r, id, checked)
    BY <2>2, AcceptKeepsInv
  <2>3. CASE Lose
    BY <2>3, LoseKeepsInv
  <2>4. CASE UNCHANGED vars
    BY <2>4 DEF Inv, TypeOK, History, Spacing, Within, vars
  <2>5. QED
    BY <2>1, <2>2, <2>3, <2>4 DEF Next
<1>3. QED
  BY <1>1, <1>2, PTL DEF Spec

\* The log of acceptances (replay-cache.service.ts, as its callers see it) and
\* the clock keep their types.
THEOREM TypeCorrect == Spec => []TypeOK
<1>1. Inv => TypeOK
  BY DEF Inv
<1>2. QED
  BY <1>1, Invariance, PTL

\* Two acceptances of one authenticator are more than Skew apart (the SET NX
\* of replay-cache.service.ts), unless a restart lost the earlier record.
THEOREM SpacingHolds == Spec => []Spacing
<1>1. Inv => Spacing
  BY DEF Inv
<1>2. QED
  BY <1>1, Invariance, PTL

\* No second acceptance without a lost record, a client clock that is ahead or a delay
\* between the timestamp check and the record that exceeds the age of the
\* authenticator when it was first recorded.
THEOREM SecondNeedsLeadOrDelayHolds == Spec => []SecondNeedsLeadOrDelay
<1>1. Inv => SecondNeedsLeadOrDelay
  <2> SUFFICES ASSUME Inv, NEW a \in accepted \ lost, NEW b \in accepted,
                      a.id = b.id, a.recorded < b.recorded
               PROVE  b.recorded - b.checked > a.recorded - StampOf[a.id]
    BY DEF SecondNeedsLeadOrDelay
  <2>1. /\ a.recorded \in Nat /\ b.recorded \in Nat
        /\ a.checked \in Nat /\ b.checked \in Nat
        /\ StampOf[a.id] \in Int
    BY DEF Inv, TypeOK, Acceptance
  <2>2. a # b
    BY <2>1
  <2>3. b.recorded > a.recorded + Skew
    BY <2>1, <2>2 DEF Inv, Spacing
  <2>4. b.checked - StampOf[a.id] <= Skew
    BY DEF Inv, History, Within
  <2>5. QED
    BY <2>1, <2>3, <2>4
<1>2. QED
  BY <1>1, Invariance, PTL

\* With no delay between check and record and no record lost, no authenticator
\* is accepted three times: the three records would span more than twice the skew, the width of
\* the window in which its timestamp passes.
THEOREM AtMostTwiceWhenPromptHolds == Spec => []AtMostTwiceWhenPrompt
<1>1. Inv => AtMostTwiceWhenPrompt
  <2> SUFFICES ASSUME Inv, \A a \in accepted : a.recorded = a.checked,
                      NEW a \in accepted \ lost, NEW b \in accepted \ lost,
                      NEW c \in accepted \ lost,
                      a.id = b.id, b.id = c.id, a # b, b # c, a # c
               PROVE  FALSE
    BY DEF AtMostTwiceWhenPrompt
  <2>1. /\ a.recorded \in Nat /\ b.recorded \in Nat /\ c.recorded \in Nat
        /\ StampOf[a.id] \in Int /\ Skew \in Nat
    BY DEF Inv, TypeOK, Acceptance
  <2>2. /\ a.recorded > b.recorded + Skew \/ b.recorded > a.recorded + Skew
        /\ b.recorded > c.recorded + Skew \/ c.recorded > b.recorded + Skew
        /\ a.recorded > c.recorded + Skew \/ c.recorded > a.recorded + Skew
    BY DEF Inv, Spacing
  <2>3. /\ a.recorded - StampOf[a.id] <= Skew /\ StampOf[a.id] - a.recorded <= Skew
        /\ b.recorded - StampOf[a.id] <= Skew /\ StampOf[a.id] - b.recorded <= Skew
        /\ c.recorded - StampOf[a.id] <= Skew /\ StampOf[a.id] - c.recorded <= Skew
    BY DEF Inv, History, Within
  <2>4. QED
    BY <2>1, <2>2, <2>3
<1>2. QED
  BY <1>1, Invariance, PTL
=============================================================================
