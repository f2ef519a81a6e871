------------------------------ MODULE AcceptOnce ------------------------------
(***************************************************************************)
(* What the replay defence of the TGS and of the application service       *)
(* promises, without tickets, keys or Redis: a log of the authenticators   *)
(* that were accepted and the rule a new acceptance must obey.             *)
(*                                                                         *)
(* An authenticator is known by an identity (realm, principal, username    *)
(* and timestamp in the code) and carries the client's timestamp.  It is   *)
(* compared with the server's clock at one moment (checked) and recorded   *)
(* in the replay cache at a later one (recorded): the two are separated    *)
(* by an await.  TicketsManager and Kdc are shown to implement this.       *)
(***************************************************************************)
EXTENDS Integers

CONSTANTS
  Requests,  \* the requests that may be accepted
  Ids,       \* the identities of authenticators
  StampOf,   \* the client's timestamp in each authenticator
  Skew,      \* SKEW_MS: tolerance of the timestamp check, TTL of a record
  MaxClock   \* bound on the clock

ASSUME AcceptOnceAssumption ==
  /\ Skew \in Nat
  /\ MaxClock \in Nat
  /\ StampOf \in [Ids -> Int]

VARIABLES
  clock,     \* the server's Date.now()
  accepted,  \* the acceptances so far
  lost       \* those whose record a restart of the cache has dropped

vars == <<clock, accepted, lost>>

Acceptance == [by: Requests, id: Ids, checked: Nat, recorded: Nat]

Init ==
  /\ clock = 1
  /\ accepted = {}
  /\ lost = {}

\* Mutant: any timestamp will do.
WithinAlways(stamp, now) == TRUE

\* |now - stamp| <= Skew
Within(stamp, now) == now - stamp <= Skew /\ stamp - now <= Skew

\* Mutant: the cache is not asked.
UnrecordedAlways(id) == TRUE

\* The cache holds no record of this authenticator.
Unrecorded(id) ==
  \A a \in accepted \ lost : a.id = id => clock > a.recorded + Skew

\* Mutant: the entry names the request where the authenticator belongs.
EntrySwapped(r, id, checked) ==
  [by |-> id, id |-> r, checked |-> checked, recorded |-> clock]

Entry(r, id, checked) ==
  [by |-> r, id |-> id, checked |-> checked, recorded |-> clock]

\* Request r is accepted on the strength of authenticator id, whose timestamp
\* was compared with the clock at time checked.
Accept(r, id, checked) ==
  /\ \A a \in accepted : a.by # r
  /\ Unrecorded(id)
  /\ checked <= clock
  /\ Within(StampOf[id], checked)
  /\ accepted' = accepted \cup {Entry(r, id, checked)}
  /\ UNCHANGED <<clock, lost>>

\* The cache restarts from an older snapshot: any records may be gone.
Lose ==
  /\ \E gone \in SUBSET accepted : lost' = lost \cup gone
  /\ UNCHANGED <<clock, accepted>>

Advance ==
  /\ clock < MaxClock
  /\ clock' = clock + 1
  /\ UNCHANGED <<accepted, lost>>

Next ==
  \/ Advance
  \/ Lose
  \/ \E r \in Requests, id \in Ids, checked \in 1 .. MaxClock :
       Accept(r, id, checked)

Spec == Init /\ [][Next]_vars

-----------------------------------------------------------------------------

TypeOK ==
  /\ clock \in Nat
  /\ accepted \in SUBSET Acceptance
  /\ lost \in SUBSET accepted

\* Two acceptances of one authenticator are more than Skew apart, unless the
\* earlier one's record was lost: a record outlives every repetition that comes
\* within Skew of it.
Spacing ==
  \A a \in accepted \ lost, b \in accepted :
    a.id = b.id /\ a # b =>
      \/ b.recorded > a.recorded + Skew
      \/ a.recorded > b.recorded + Skew
      \/ b \in lost /\ b.recorded <= a.recorded

\* An authenticator is accepted a second time only if the first record was
\* lost, or the second request spent longer between the timestamp check and the
\* record than the authenticator's age at the first acceptance.  With a client
\* clock that is not ahead, no delay between the two steps and no restart of
\* the cache this cannot happen.
SecondNeedsLeadOrDelay ==
  \A a \in accepted \ lost, b \in accepted :
    a.id = b.id /\ a.recorded < b.recorded =>
      b.recorded - b.checked > a.recorded - StampOf[a.id]

\* When every request is recorded in the instant it is checked, three
\* acceptances of one authenticator take a lost record, however far ahead the
\* client's clock is.
AtMostTwiceWhenPrompt ==
  (\A a \in accepted : a.recorded = a.checked) =>
    \A a, b, c \in accepted \ lost :
      ~ /\ a.id = b.id /\ b.id = c.id
        /\ a # b /\ b # c /\ a # c

=============================================================================
