---------------------------- MODULE MCCollision ----------------------------
(* Instantiates Collision for TLC: two keys of the collided prefix, two  *)
(* values, and up to five log entries, enough for compact's inserts, a   *)
(* reopen and two more writes.                                            *)
EXTENDS Collision

MCKeys == {1, 2}
MCVals == {"v1", "v2"}
MCMaxLog == 5
=============================================================================
