---------------------------- MODULE MCPageCache -----------------------------
(* Small instances of PageCache for TLC. *)
EXTENDS PageCache, FiniteSets

CONSTANTS r1, r2, r3, u1, u2, b1

ThreeRequests == {r1, r2, r3}
TwoUris == {u1, u2}
OnlyFirst == {u1}
OnlySecond == {u2}
OneViaSite == {r3}
OneBuffer == {b1}
TwoThenOne == [u \in Uris |-> IF u = u1 THEN 2 ELSE 1]
TwoFail == [r \in Requests |-> IF r = r3 THEN 0 ELSE 404]
OneDirect == {r1}
OnePiece == [u \in Uris |-> 1]
=============================================================================
