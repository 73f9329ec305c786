---------------------------- MODULE MCTaskRegistry ----------------------------
(* TaskRegistry for TLC: two calls in one trace; no call is in the other,  *)
(* which the revoke threads cancel as well.                                *)
EXTENDS TaskRegistry, TLC

CONSTANTS t1, t2, x, y

MCTraceOf == (t1 :> x) @@ (t2 :> x)
=============================================================================
