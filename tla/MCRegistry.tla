------------------------------- MODULE MCRegistry -------------------------------
(* Registry for TLC: two agents that may want one name, two capabilities.  *)
EXTENDS Registry

CONSTANTS a, b, n, m, doc, r, w

MCDemo == [agent |-> a, name |-> n, type |-> doc, caps |-> {r, w}]
MCAsks == {[agent |-> x, name |-> y, type |-> doc, caps |-> s] :
             x \in {a, b}, y \in {n, m}, s \in {{r}, {r, w}}}
MCPuts == {[type |-> doc, caps |-> {r}], [type |-> Star, caps |-> {w}]}
=============================================================================
