------------------------------- MODULE Delegation -------------------------------
(***************************************************************************)
(* The token store and the credential store under concurrent delegation,   *)
(* revocation and the passing of time.                                     *)
(*                                                                         *)
(* build_child_auth_context runs on the event loop without an await: one   *)
(* delegation is under way at a time (`building`).  The revoke route runs  *)
(* in worker threads; each store call is a transaction of its own, so a    *)
(* thread and the loop interleave between any two of them.  batch_revoke_  *)
(* tokens_by_agent and cleanup_expired_tokens have no caller in the        *)
(* repository; they are modelled as maintenance jobs that may run at any   *)
(* time.                                                                   *)
(*                                                                         *)
(* What a request may delegate is over-approximated by any subset of the   *)
(* parent's capabilities; Gateway models the decision itself.              *)
(***************************************************************************)
EXTENDS Credentials, FiniteSets

CONSTANTS Threads,    \* worker threads that serve the revoke route
          MaxTime,    \* bound: the clock stops here
          MaxTTL,     \* bound: longest token lifetime asked for
          MaxDepth,   \* bound: longest delegation path
          MaxCreds    \* bound: most stored credentials

ASSUME NoneNoTrace == None \notin Traces
ASSUME MaxTTLAssumption == MaxTTL \in Nat

VARIABLES now,           \* int(time.time())
          creds,         \* rows of delegation_credentials
          revoked,       \* those with revoked = 1
          token,         \* rows of tokens: jti -> its root credential, <<>> if no row
          tokenRevoked,  \* tokens with revoked = 1
          building,      \* the delegation between validation and insert, or None
          pc,            \* revoke thread -> its next step
          job,           \* revoke thread -> the root credential it revokes
          snapshot,      \* revoke thread -> the tree it read
          answered       \* root credentials whose revocation has returned

storeVars == <<creds, revoked, token, tokenRevoked>>
revokeVars == <<pc, job, snapshot, answered>>
vars == <<now, storeVars, building, revokeVars>>

Build == [parent : Credential, subject : Agents, caps : SUBSET Caps,
          trace : Traces, req : Requests]

TypeOK ==
  /\ now \in Nat
  /\ creds \in SUBSET Credential
  /\ revoked \in SUBSET creds
  /\ token \in [Jtis -> creds \cup {<<>>}]
  /\ tokenRevoked \in SUBSET Jtis
  /\ building \in Build \cup {None}
  /\ pc \in [Threads -> {"idle", "list", "update"}]
  /\ job \in [Threads -> creds \cup {<<>>}]
  /\ snapshot \in [Threads -> SUBSET creds]
  /\ answered \in SUBSET creds

Init ==
  /\ now = 0
  /\ creds = {}
  /\ revoked = {}
  /\ token = [j \in Jtis |-> <<>>]
  /\ tokenRevoked = {}
  /\ building = None
  /\ pc = [r \in Threads |-> "idle"]
  /\ job = [r \in Threads |-> <<>>]
  /\ snapshot = [r \in Threads |-> {}]
  /\ answered = {}

-----------------------------------------------------------------------------
\* POST /identity/tokens: issue_token stores the self-issued root credential and
\* then the token.  The jti is a fresh uuid nobody knows before the answer.
IssueToken(j, p, u, caps, ucaps, ttl) ==
  LET c == <<RootLink(p, u, caps, ucaps, now, ttl, j)>>
  IN /\ \A d \in creds : d[1].req # j
     /\ creds' = creds \cup {c}
     /\ token' = [token EXCEPT ![j] = c]
     /\ UNCHANGED <<now, revoked, tokenRevoked, building, revokeVars>>

\* A slip: the capability comparison with the parent is forgotten.
BeginBuildUnchecked(p, s, caps, tr, rq) ==
  /\ building = None
  /\ ValidBranch(creds, revoked, now, p)
  /\ BoundTrace(p) \in {None, tr}
  /\ building' = [parent |-> p, subject |-> s, caps |-> caps, trace |-> tr, req |-> rq]
  /\ UNCHANGED <<now, storeVars, revokeVars>>

\* A slip: the trace of the presented credential is not compared.
BeginBuildAnyTrace(p, s, caps, tr, rq) ==
  /\ building = None
  /\ ValidBranch(creds, revoked, now, p)
  /\ caps \subseteq CapsOf(p)
  /\ building' = [parent |-> p, subject |-> s, caps |-> caps, trace |-> tr, req |-> rq]
  /\ UNCHANGED <<now, storeVars, revokeVars>>

\* build_child_auth_context up to the insert: the parent's branch is valid now,
\* the child's capabilities are the parent's or fewer.  The presented credential
\* is a token's root, or belongs to the envelope's trace
\* (trusted_auth_context_for_envelope).
BeginBuild(p, s, caps, tr, rq) ==
  /\ building = None
  /\ ValidBranch(creds, revoked, now, p)
  /\ BoundTrace(p) \in {None, tr}
  /\ caps \subseteq CapsOf(p)
  /\ building' = [parent |-> p, subject |-> s, caps |-> caps, trace |-> tr, req |-> rq]
  /\ UNCHANGED <<now, storeVars, revokeVars>>

\* The credential being built, stamped with the current second.
Built == LET b == building
         IN Append(b.parent, ChildLink(b.parent, b.subject, b.caps, b.trace, b.req, now))

\* A slip: the request id, not the credential id, is the primary key.
UpsertChildByRequest ==
  /\ building # None
  /\ creds' = {c \in creds : c[Len(c)].req # building.req} \cup {Built}
  /\ revoked' = (revoked \cap creds') \ {Built}
  /\ building' = None
  /\ UNCHANGED <<now, token, tokenRevoked, revokeVars>>

\* upsert_credential: INSERT OR REPLACE with revoked = 0, whatever was there.
UpsertChild ==
  /\ building # None
  /\ creds' = creds \cup {Built}
  /\ revoked' = revoked \ {Built}
  /\ building' = None
  /\ UNCHANGED <<now, token, tokenRevoked, revokeVars>>

-----------------------------------------------------------------------------
(* POST /identity/tokens/{jti}/revoke, one transaction per step.           *)

\* A slip: a token nobody issued is not refused.
RevokeAnyToken(r, j) ==
  /\ pc[r] = "idle"
  /\ tokenRevoked' = tokenRevoked \cup {j}
  /\ job' = [job EXCEPT ![r] = token[j]]
  /\ pc' = [pc EXCEPT ![r] = "list"]
  /\ UNCHANGED <<now, creds, revoked, token, building, snapshot, answered>>

\* revoke_token_and_credentials: get_token, then UPDATE tokens SET revoked = 1.
RevokeToken(r, j) ==
  /\ pc[r] = "idle"
  /\ token[j] # <<>>
  /\ tokenRevoked' = tokenRevoked \cup {j}
  /\ job' = [job EXCEPT ![r] = token[j]]
  /\ pc' = [pc EXCEPT ![r] = "list"]
  /\ UNCHANGED <<now, creds, revoked, token, building, snapshot, answered>>

\* A slip: the walk collects the children and leaves the root itself out.
ListBelowRoot(r) ==
  /\ pc[r] = "list"
  /\ snapshot' = [snapshot EXCEPT ![r] = Tree(creds, job[r]) \ {job[r]}]
  /\ pc' = [pc EXCEPT ![r] = "update"]
  /\ UNCHANGED <<now, storeVars, building, job, answered>>

\* revoke_credential_tree reads the rows of the root and walks them.
ListTree(r) ==
  /\ pc[r] = "list"
  /\ snapshot' = [snapshot EXCEPT ![r] = Tree(creds, job[r])]
  /\ pc' = [pc EXCEPT ![r] = "update"]
  /\ UNCHANGED <<now, storeVars, building, job, answered>>

\* UPDATE delegation_credentials SET revoked = 1 for what was read; the route
\* answers.
UpdateTree(r) ==
  /\ pc[r] = "update"
  /\ revoked' = revoked \cup snapshot[r]
  /\ answered' = answered \cup {job[r]}
  /\ pc' = [pc EXCEPT ![r] = "idle"]
  /\ job' = [job EXCEPT ![r] = <<>>]
  /\ snapshot' = [snapshot EXCEPT ![r] = {}]
  /\ UNCHANGED <<now, creds, token, tokenRevoked, building>>

-----------------------------------------------------------------------------
\* batch_revoke_tokens_by_agent: the live tokens of one principal, no cascade.
BatchRevoke(p) ==
  /\ tokenRevoked' = tokenRevoked \cup
       {j \in Jtis : token[j] # <<>> /\ Holder(token[j]) = p /\ token[j][1].exp > now}
  /\ UNCHANGED <<now, creds, revoked, token, building, revokeVars>>

\* A slip: the comparison is turned round.
CleanupLiveTokens ==
  /\ token' = [j \in Jtis |->
       IF token[j] # <<>> /\ token[j][1].exp > now THEN <<>> ELSE token[j]]
  /\ UNCHANGED <<now, creds, revoked, tokenRevoked, building, revokeVars>>

\* cleanup_expired_tokens: DELETE FROM tokens WHERE exp < now.
CleanupExpiredTokens ==
  /\ token' = [j \in Jtis |->
       IF token[j] # <<>> /\ token[j][1].exp < now THEN <<>> ELSE token[j]]
  /\ UNCHANGED <<now, creds, revoked, tokenRevoked, building, revokeVars>>

Tick ==
  /\ now < MaxTime
  /\ now' = now + 1
  /\ UNCHANGED <<storeVars, building, revokeVars>>

-----------------------------------------------------------------------------
Room == Cardinality(creds) < MaxCreds

Next ==
  \/ \E j \in Jtis, p \in Principals, u \in Users, caps, ucaps \in SUBSET Caps, ttl \in 1 .. MaxTTL :
        Room /\ IssueToken(j, p, u, caps, ucaps, ttl)
  \/ \E p \in creds, s \in Agents, tr \in Traces, rq \in Requests : \E caps \in SUBSET Caps :
        Room /\ Len(p) < MaxDepth /\ BeginBuild(p, s, caps, tr, rq)
  \/ UpsertChild
  \/ \E r \in Threads : ListTree(r) \/ UpdateTree(r) \/ \E j \in Jtis : RevokeToken(r, j)
  \/ \E p \in Principals : BatchRevoke(p)
  \/ CleanupExpiredTokens
  \/ Tick

Spec == Init /\ [][Next]_vars

-----------------------------------------------------------------------------
(* Properties.                                                             *)

\* Every ancestor of a stored credential is stored: no interleaving of
\* delegations, revocations and clean-ups leaves a credential whose chain
\* cannot be walked to its root.
ParentsStored == \A c \in creds : \A k \in 1 .. Len(c) : Path(c, k) \in creds

\* Along a stored path, capabilities and user capabilities only shrink, expiry
\* only moves earlier and the delegated user never changes - between any two
\* links, not only between neighbours ("child credential 能力不得超过 parent",
\* "过期时间不得晚于 parent").
Attenuation ==
  \A c \in creds : \A i, k \in 1 .. Len(c) : i <= k =>
    /\ c[k].caps \subseteq c[i].caps
    /\ c[k].ucaps \subseteq c[i].ucaps
    /\ c[k].exp <= c[i].exp
    /\ c[k].user = c[i].user

\* All delegations below a root belong to one trace.  Revocation depends on it:
\* the traces it cancels are read off the credentials.
OneTrace ==
  \A c \in creds : \A i, k \in 2 .. Len(c) : c[k].trace = c[i].trace /\ c[k].trace # None

\* Who delegates is who holds the parent, so a path reads as a chain of custody.
HolderIssues ==
  \A c \in creds : \A k \in 2 .. Len(c) : c[k].issuer = c[k - 1].subject

\* Once a revocation has answered, nothing below that token is ever accepted
\* again, including credentials inserted by delegations that overtook it and
\* rows whose revoked flag a repeated request has reset: the root stays revoked
\* and every validation walks to the root.
RevocationIsFinal ==
  \A root \in answered : \A c \in creds : Under(root, c) => ~ValidBranch(creds, revoked, now, c)

\* Clean-up never strands a usable tree: once the token row is gone the token
\* can no longer be revoked, so no credential below it may still be valid.
CleanupStrandsNothing ==
  \A c \in creds : (\A j \in Jtis : token[j] # Path(c, 1)) => ~ValidBranch(creds, revoked, now, c)

\* Seen through the credentials that validate_credential_branch accepts, the
\* stores implement Authority: validation and insert, and the list and the
\* update of a revocation, come to one step each, however they interleave.
Usable == {c \in creds : ValidBranch(creds, revoked, now, c)}

Promise == INSTANCE Authority WITH usable <- Usable, dead <- answered

ImplementsAuthority == Promise!Spec
=============================================================================
