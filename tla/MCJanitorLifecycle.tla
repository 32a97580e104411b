------------------------- MODULE MCJanitorLifecycle -------------------------
(* A small instance of JanitorLifecycle for TLC. *)
EXTENDS JanitorLifecycle

CONSTANTS s1, s2, s3

ThreeStores == {s1, s2, s3}
=============================================================================
