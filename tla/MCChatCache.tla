---------------------------- MODULE MCChatCache ----------------------------
(* Small instances of ChatCache for TLC. *)
EXTENDS ChatCache, TLC

CONSTANTS s1, s2, c1, c2, c3

OneServer == {s1}
TwoServers == {s1, s2}
OneChat == {c1}
TwoChats == {c1, c2}
ThreeChats == {c1, c2, c3}
============================================================================
