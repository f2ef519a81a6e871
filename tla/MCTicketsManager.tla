-------------------------- MODULE MCTicketsManager --------------------------
(***************************************************************************)
(* Instance of TicketsManager.  Alice holds two service tickets: the first *)
(* expires in the middle of the run.  The inputs are her well-formed       *)
(* requests, each of which any number of requests may carry (a resend, as  *)
(* scripts/walk.mjs and the tests do it), and one request per check that   *)
(* the tests exercise: another address, a ticket that names another        *)
(* service, one that is sealed for it, an authenticator that opens under   *)
(* no key, another username.  A realm without a key is one that is not     *)
(* seeded yet.                                                             *)
(***************************************************************************)
EXTENDS TicketsManager

CONSTANTS insat, service_1, service_2, alice, bob, here, there, r1, r2

MCSessionKeys == {SessionKey(1), SessionKey(2)}

TicketOf(n, expiry) ==
  [principal |-> service_1, lifetime |-> expiry, sessionKey |-> SessionKey(n),
   username |-> alice, ip |-> here]

Body(key, ticket, authKey, username, stamp) ==
  [realm |-> insat, ip |-> here,
   serviceTicket |-> Encrypt(ticket, key),
   authenticator |-> Encrypt([username |-> username, timestamp |-> stamp], authKey)]

OwnKey == PrincipalKey(service_1, insat)
Short == TicketOf(1, 3)
Long == TicketOf(2, 9)

\* A well-formed request of a session, stamped t.
RequestOf(ticket, t) == Body(OwnKey, ticket, ticket.sessionKey, alice, t)

\* One request per check.
Irregular(t) ==
  LET good == RequestOf(Long, t) IN
  { [good EXCEPT !.ip = there],
    [good EXCEPT !.serviceTicket.payload.principal = service_2],
    [good EXCEPT !.serviceTicket.key = PrincipalKey(service_2, insat)],
    [good EXCEPT !.authenticator.key = None],
    [good EXCEPT !.authenticator.payload.username = bob] }

MCInputs == {RequestOf(Short, 2), RequestOf(Long, 2), RequestOf(Long, 3)} \cup Irregular(2)
MCFewInputs == {RequestOf(Long, 3)}
=============================================================================
