--------------------------- MODULE MCCollisionLog ---------------------------
(* Instantiates CollisionLog for TLC: two one-byte keys (key_len = 1), an *)
(* empty value and a two-byte one, so entries have different lengths and *)
(* offsets, and up to five entries, as MCCollision.                       *)
EXTENDS CollisionLog

MCKeys == {<<1>>, <<2>>}
MCVals == {<<>>, <<7, 8>>}
MCMaxLog == 5
=============================================================================
