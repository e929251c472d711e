----------------------------- MODULE MCHostApi -----------------------------
(* A small instance of HostApi for TLC. *)
EXTENDS HostApi, TLC

CONSTANTS a, b

TwoCalls == {a, b}
============================================================================
