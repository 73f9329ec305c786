------------------------------- MODULE Authority -------------------------------
(***************************************************************************)
(* What the token store and the credential store promise, without rows,    *)
(* flags, snapshots or threads: which credentials a validation accepts.    *)
(* A delegation is one step, taken while the parent is accepted itself and *)
(* handing on no more than the parent has; a revocation takes everything   *)
(* below the token away in one step, and none of it comes back.            *)
(***************************************************************************)
EXTENDS Credentials

VARIABLES now,     \* the clock
          usable,  \* the credentials that are accepted
          dead     \* root credentials whose revocation has returned

vars == <<now, usable, dead>>

Init ==
  /\ now = 0
  /\ usable = {}
  /\ dead = {}

\* A token's root is accepted, under a jti that was never used.
Issue(c) ==
  /\ Len(c) = 1
  /\ c[1].iat = now /\ c[1].exp > now
  /\ c[1].issuer = c[1].subject /\ c[1].trace = None
  /\ \A d \in usable \cup dead : d[1].req # c[1].req
  /\ usable' = usable \cup {c}
  /\ UNCHANGED <<now, dead>>

\* The holder of an accepted credential hands on no more than it has.
Delegate(c) ==
  LET n == Len(c) - 1
      p == Path(c, n)
  IN /\ Len(c) > 1
     /\ p \in usable
     /\ c[n + 1].iat = now /\ c[n + 1].exp \in now + 1 .. c[n].exp
     /\ c[n + 1].issuer = c[n].subject /\ c[n + 1].user = c[n].user
     /\ c[n + 1].caps \subseteq c[n].caps /\ c[n + 1].ucaps \subseteq c[n].ucaps
     /\ c[n].trace \in {None, c[n + 1].trace}
     /\ usable' = usable \cup {c}
     /\ UNCHANGED <<now, dead>>

\* A token's root and all that hangs below it, for good.
Revoke(root) ==
  /\ Len(root) = 1
  /\ usable' = {c \in usable : ~Under(root, c)}
  /\ dead' = dead \cup {root}
  /\ UNCHANGED now

Tick ==
  /\ now' = now + 1
  /\ usable' = {c \in usable : c[Len(c)].exp > now'}
  /\ UNCHANGED dead

Next ==
  \/ \E c \in usable' : Issue(c) \/ Delegate(c)
  \/ \E root \in dead' : Revoke(root)
  \/ Tick

Spec == Init /\ [][Next]_vars
=============================================================================
