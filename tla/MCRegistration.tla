---------------------------- MODULE MCRegistration ----------------------------
(* Instances of Registration: two key exchanges and two creates of one user,  *)
(* in configured realms and in one that is not, with good and short passwords. *)
EXTENDS Registration

CONSTANTS e1, e2, c1, c2, alice, insat, enit, other, one, two, short
=============================================================================
