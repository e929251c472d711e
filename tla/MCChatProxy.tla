---------------------------- MODULE MCChatProxy ----------------------------
(* Small instances of ChatProxy for TLC. *)
EXTENDS ChatProxy, TLC

CONSTANTS r1, r2

OneRequest == {r1}
TwoRequests == {r1, r2}
============================================================================
