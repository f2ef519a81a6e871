---------------------------- MODULE MCKeytabSeeder ----------------------------
(* Instances of KeytabSeeder: two realms with two principals each, booted     *)
(* from two environments that work and one that lacks a key.                 *)
EXTENDS KeytabSeeder

CONSTANTS old, new, incomplete

MCREALMS == <<"insat", "enit">>
MCPRINCIPALS == <<"tgs", "service_1">>
=============================================================================
