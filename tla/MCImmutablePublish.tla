------------------------- MODULE MCImmutablePublish -------------------------
(* Three overlapping calls over two paths and two contents: two calls can   *)
(* race for one path with equal or different bytes while a third publishes  *)
(* elsewhere or recovers after the power failure.                           *)
EXTENDS ImmutablePublish, TLC

CONSTANTS c1, c2, c3, p1, p2, v1, v2

MCCalls == {c1, c2, c3}
MCPaths == {p1, p2}
MCContents == {v1, v2}

Symmetry == Permutations(MCCalls) \cup Permutations(MCPaths) \cup Permutations(MCContents)
=============================================================================
