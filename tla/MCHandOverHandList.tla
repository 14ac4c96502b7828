------------------------- MODULE MCHandOverHandList -------------------------
(***************************************************************************)
(* A small instance of HandOverHandList for TLC.                           *)
(***************************************************************************)
EXTENDS HandOverHandList, TLC

CONSTANTS a, b, c, n1, n2, n3, v1, v2

Threads == {a, b, c}
Nodes   == {n1, n2, n3}
Values  == {v1, v2}

\* Two threads that remove, one of which fills the list too, and a third
\* that walks it in every other way.
RoleCalls ==
  (a :> {"push_front", "remove_if"}) @@
  (b :> {"push_front", "for_each", "find_first_if"}) @@
  (c :> {"remove_if"})
=============================================================================
