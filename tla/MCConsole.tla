----------------------------- MODULE MCConsole ------------------------------
(***************************************************************************)
(* A small instance of Console for TLC: two moves of player 1 and one of   *)
(* player 2, the keys that start and leave a match, reports of two keys.   *)
(***************************************************************************)
EXTENDS Console

MatchKeys == {KeyW, KeyD, P2Aliases[1], KeyEnter, KeySpace, KeyR}
=============================================================================
