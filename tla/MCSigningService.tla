-------------------------- MODULE MCSigningService --------------------------
(* Small instances of SigningService for TLC. *)
EXTENDS SigningService, TLC

CONSTANTS s1, s2, c1, v1

TwoServers == {s1, s2}
OneChat == {c1}
OneVerifier == {v1}
=============================================================================
