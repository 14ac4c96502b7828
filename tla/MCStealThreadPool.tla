------------------------- MODULE MCStealThreadPool -------------------------
(***************************************************************************)
(* A small instance of StealThreadPool for TLC.                            *)
(***************************************************************************)
EXTENDS StealThreadPool, TLC

CONSTANTS k1, k2, k3

Tasks == {k1, k2, k3}

\* k1 submits k2 and k3, and waits for both.
Tree == (k1 :> {k2, k3}) @@ (k2 :> {}) @@ (k3 :> {})
=============================================================================
