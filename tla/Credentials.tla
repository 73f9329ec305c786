------------------------------ MODULE Credentials ------------------------------
(***************************************************************************)
(* Delegation credentials: app/delegation/credential_crypto.py, the        *)
(* validation of app/delegation/service.py and the tree walk of            *)
(* app/store/delegation_credentials.py.                                    *)
(*                                                                         *)
(* A credential id is the hash of its parent's id and of its own content,  *)
(* so a credential is named by its whole delegation path.  The model takes *)
(* the path itself as the id: a non-empty sequence of links, one per       *)
(* delegation.  The parent of <<l1, ..., ln>> is <<l1, ..., ln-1>> and its *)
(* root is <<l1>>.  Two credentials with the same parent and content have  *)
(* the same id here as they have in the code, and verify_credential_       *)
(* integrity holds of every stored row because no code writes one whose    *)
(* content differs from its id (signatures and keys are abstracted).       *)
(***************************************************************************)
EXTENDS Naturals, Sequences

CONSTANTS Users,      \* user ids
          Agents,     \* agent ids
          Caps,       \* capability names
          Traces,     \* trace ids
          Requests,   \* request ids of A2A requests
          Jtis,       \* token ids; the root credential carries it as request id
          None        \* the absent trace of a root credential

Principals == Users \cup Agents

\* credential_self_content without the parent and root ids the path stands for.
Link == [issuer : Principals, subject : Principals, user : Users,
         caps : SUBSET Caps, ucaps : SUBSET Caps, iat : Nat, exp : Nat,
         trace : Traces \cup {None}, req : Requests \cup Jtis]

Credential == {c \in Seq(Link) : c # <<>>}

\* The ancestor of c after k links, c itself for k = Len(c).
Path(c, k) == SubSeq(c, 1, k)
Holder(c)  == c[Len(c)].subject
CapsOf(c)  == c[Len(c)].caps
BoundTrace(c) == c[Len(c)].trace

\* d is c or one of its descendants.
Under(c, d) == Len(c) <= Len(d) /\ Path(d, Len(c)) = c

\* issue_token: the self-issued root of a bearer token.
RootLink(p, u, caps, ucaps, now, ttl, j) ==
  [issuer |-> p, subject |-> p, user |-> u, caps |-> caps, ucaps |-> ucaps,
   iat |-> now, exp |-> now + ttl, trace |-> None, req |-> j]

\* A slip for the checks below: the request id is the parent's, like the user.
ChildLinkOfParentRequest(p, s, caps, tr, rq, now) ==
  [issuer |-> Holder(p), subject |-> s, user |-> p[Len(p)].user,
   caps |-> caps, ucaps |-> p[Len(p)].ucaps,
   iat |-> now, exp |-> p[Len(p)].exp, trace |-> tr, req |-> p[Len(p)].req]

\* build_delegation_credential as build_child_auth_context calls it: the holder
\* of the parent issues, user and user capabilities are inherited, and
\* min(exp, parent.exp) is the parent's expiry.
ChildLink(p, s, caps, tr, rq, now) ==
  [issuer |-> Holder(p), subject |-> s, user |-> p[Len(p)].user,
   caps |-> caps, ucaps |-> p[Len(p)].ucaps,
   iat |-> now, exp |-> p[Len(p)].exp, trace |-> tr, req |-> rq]

\* A slip for the checks below: only the presented credential is validated.
ValidLeafOnly(creds, revoked, now, c) ==
  c \in creds \ revoked /\ c[Len(c)].exp > now

\* get_credential and validate_credential_branch: every credential on the path
\* is stored, not revoked and not expired, and no link widens its parent.
ValidBranch(creds, revoked, now, c) ==
  /\ \A k \in 1 .. Len(c) : Path(c, k) \in creds \ revoked /\ c[k].exp > now
  /\ \A k \in 1 .. Len(c) - 1 : /\ c[k + 1].exp <= c[k].exp
                                /\ c[k + 1].caps \subseteq c[k].caps
                                /\ c[k + 1].ucaps \subseteq c[k].ucaps

\* revoke_credential_tree: the stored credentials reachable from root through
\* parent_credential_id, root included.
Tree(creds, root) ==
  {c \in creds : Under(root, c) /\ \A k \in Len(root) .. Len(c) : Path(c, k) \in creds}
=============================================================================
