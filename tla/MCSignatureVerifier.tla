------------------------ MODULE MCSignatureVerifier ------------------------
(* Small instances of SignatureVerifier for TLC. *)
EXTENDS SignatureVerifier, TLC

CONSTANTS s1, s2, c1, v1

OneServer == {s1}
TwoServers == {s1, s2}
OneChat == {c1}
OneVerifier == {v1}
============================================================================
