------------------------------- MODULE MCGateway -------------------------------
(* Gateway for TLC: one user u, agents a1 and a2; a root task q1 and a     *)
(* call q2 from agent to agent, in one trace.                              *)
EXTENDS Gateway, TLC

CONSTANTS u, a1, a2, q1, q2, x, c1, c2

Asks(p, actor, caps, ucaps) == [agent |-> p, actor |-> actor, user |-> u, caps |-> caps, ucaps |-> ucaps]
Calls(target, caps, ucaps, actor) == [target |-> target, caps |-> caps, ucaps |-> ucaps, actor |-> actor]

InX == (q1 :> x) @@ (q2 :> x)

\* Revocation, which looks at paths and traces and not at who is called: a1 calls
\* itself, a2 is not active, and the user can relay its token's credential, too.
AllCaps    == (a1 :> {c1}) @@ (a2 :> {c1})
PlainAsks  == {Asks(u, "user", {c1}, {c1}), Asks(a1, "agent", {c1}, {c1})}
PlainCalls == {Calls(a1, {c1}, {c1}, "agent"), Calls(a2, {c1}, {c1}, "user")}

\* Authorization: a2 has less than a1, the user less than the token, and contexts
\* name the user capabilities of their credential, others or none.
A2Limited    == (a1 :> {c1, c2}) @@ (a2 :> {c1})
LimitedAsks  == {Asks(u, "user", {c1, c2}, {c1}), Asks(a1, "agent", {c1, c2}, {})}
LimitedCalls == {Calls(a1, {c1, c2}, {c1}, "agent"), Calls(a2, {c1}, {}, "agent"),
                 Calls(a2, {c1, c2}, {c1, c2}, "agent")}

Symmetry == Permutations(Jtis)
=============================================================================
