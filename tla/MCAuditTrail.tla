------------------------------ MODULE MCAuditTrail ------------------------------
(* AuditTrail for TLC: no action tells two requests or two agents apart.   *)
(* Requests relay no chain, one as the gateway hands it on, or one         *)
(* that only a client makes up: a denied hop, an agent's own root hop.     *)
EXTENDS AuditTrail, TLC

OneHop(s, t, what) == <<[from |-> s, to |-> t, what |-> what]>>
Calls == {c \in Agents \X Agents : c[1] # c[2]}
SomeChains ==
  {<<>>} \cup {OneHop(s, t, "root") : s \in Users, t \in Agents} \cup {OneHop(s, s, "root") : s \in Agents}
         \cup {OneHop(c[1], c[2], what) : c \in Calls, what \in {"allow", "deny"}}

Symmetry == Permutations(Requests) \cup Permutations(Agents)
=============================================================================
