---------------------------------- MODULE MCKdc ----------------------------------
(***************************************************************************)
(* Instances of Kdc: alice is registered, bob is not.  A client takes the  *)
(* AS exchange and then asks the TGS for a service's ticket, for another   *)
(* TGT, or for something it cannot have.                                   *)
(***************************************************************************)
EXTENDS Kdc, TLC

CONSTANTS insat, enit, here, there, r1, r2, r3

MCInterval == [min |-> 2, max |-> 3]

\* alice's AS request, stamped t, for a lifetime of n.
AsOf(t, n) ==
  [exchange |-> "AS", realm |-> insat, ip |-> here, username |-> "alice",
   serviceName |-> TGS_PRINCIPAL, requestedLifetime |-> n,
   preAuth |-> Encrypt([username |-> "alice", timestamp |-> t],
                       PrincipalKey("alice", insat))]

\* alice's TGS request for target id, stamped t, for a lifetime of n.
TgsOf(id, t, n) ==
  [realm |-> insat, ip |-> here, id |-> id, requestedLifetime |-> n,
   authenticator |-> [username |-> "alice", timestamp |-> t]]

\* What the AS refuses: an unknown user, an unknown service, another's key and
\* another's name in the pre-authenticator.
IrregularAs(t) ==
  { [AsOf(t, 2) EXCEPT !.username = "bob"],
    [AsOf(t, 2) EXCEPT !.serviceName = None],
    [AsOf(t, 2) EXCEPT !.preAuth.key = PrincipalKey("alice", enit)],
    [AsOf(t, 2) EXCEPT !.preAuth.payload.username = "bob"] }

\* What the TGS refuses or stumbles on: no target, an unknown one, the policy's
\* entry, another realm, address or name.
IrregularTgs(t) ==
  { TgsOf(None, t, 2), TgsOf("bob", t, 2), TgsOf("interval", t, 2),
    [TgsOf("service_1", t, 2) EXCEPT !.realm = enit],
    [TgsOf("service_1", t, 2) EXCEPT !.ip = there],
    [TgsOf("service_1", t, 2) EXCEPT !.authenticator.username = "bob"] }

OneAs == {AsOf(2, 9)}
OneTgs == {TgsOf("service_1", 3, 2)}
ChainTgs == {TgsOf(TGS_PRINCIPAL, 2, 9), TgsOf("service_1", 3, 1)}

AllAs == OneAs \cup IrregularAs(2)
AllTgs == {TgsOf("service_1", 2, 2)} \cup IrregularTgs(2)

Symmetry == Permutations(Requests)
=============================================================================
