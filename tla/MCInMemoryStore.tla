-------------------------- MODULE MCInMemoryStore ---------------------------
(* Small instances of InMemoryStore for TLC. *)
EXTENDS InMemoryStore

CONSTANTS k1, c1, c2

OneKey == {k1}
OneProc == {c1}
TwoProcs == {c1, c2}
=============================================================================
