---------------------------- MODULE DelegationProofs ----------------------------
(***************************************************************************)
(* Proofs about Delegation, for every set of principals, capabilities,     *)
(* traces, requests, tokens and threads and for every bound.               *)
(*                                                                         *)
(* What makes revocation final is not the cascade (which misses what is    *)
(* inserted late) but that the root is revoked, stays so (only child       *)
(* credentials are inserted again) and is on every path that is validated. *)
(*                                                                         *)
(* So what is accepted depends on stored rows, their expiry and the marks  *)
(* of roots only (UsableIs), and on that form each step of the stores is a *)
(* step of Authority or none.                                              *)
(***************************************************************************)
EXTENDS Delegation, CredentialProofs

-----------------------------------------------------------------------------
(* The inductive invariant.                                                *)

\* The delegation under way was validated against its parent, and rows are
\* never deleted, so the parent is still stored when the child is inserted.
BuildOK ==
  building # None =>
    /\ building.parent \in creds
    /\ building.caps \subseteq CapsOf(building.parent)
    /\ BoundTrace(building.parent) \in {None, building.trace}

\* A token names its own root.
TokenRoots ==
  \A j \in Jtis : token[j] # <<>> => Len(token[j]) = 1 /\ token[j][1].req = j

\* A thread works on a root that its snapshot contains.
RevokeFlow ==
  \A r \in Threads :
    /\ pc[r] \in {"list", "update"} => job[r] # <<>> /\ Len(job[r]) = 1
    /\ pc[r] = "update" => job[r] \in snapshot[r]

AnsweredRevoked == \A root \in answered : Len(root) = 1 /\ root \in revoked

\* A stored credential's token is still there, or has expired.
RootTracked ==
  \A c \in creds : c[1].exp < now \/ \E j \in Jtis : token[j] = Path(c, 1)

IInv ==
  /\ TypeOK
  /\ ParentsStored
  /\ Attenuation
  /\ OneTrace
  /\ HolderIssues
  /\ BuildOK
  /\ TokenRoots
  /\ RevokeFlow
  /\ AnsweredRevoked
  /\ RootTracked

LEMMA InitIInv == Init => IInv
  BY DEF Init, IInv, TypeOK, ParentsStored, Attenuation, OneTrace, HolderIssues,
         BuildOK, TokenRoots, RevokeFlow, AnsweredRevoked, RootTracked

-----------------------------------------------------------------------------
(* One lemma per action.                                                   *)

LEMMA IssueTokenStep ==
  ASSUME IInv, NEW j \in Jtis, NEW p \in Principals, NEW u \in Users,
         NEW caps \in SUBSET Caps, NEW ucaps \in SUBSET Caps,
         NEW ttl \in 1 .. MaxTTL, IssueToken(j, p, u, caps, ucaps, ttl)
  PROVE  IInv'
  <1> DEFINE l == RootLink(p, u, caps, ucaps, now, ttl, j)
             c == <<l>>
  <1>1. l \in Link /\ l.req = j
    BY MaxTTLAssumption DEF IInv, TypeOK, RootLink, Link
  <1>2. c \in Credential /\ Len(c) = 1 /\ c[1] = l /\ Path(c, 1) = c
    BY <1>1, RootFacts
  <1> HIDE DEF l, c
  <1>3. /\ creds' = creds \cup {c} /\ token' = [token EXCEPT ![j] = c]
        /\ \A d \in creds : d[1].req # j
        /\ UNCHANGED <<now, revoked, tokenRevoked, building, pc, job, snapshot, answered>>
    BY DEF IssueToken, c, l, revokeVars
  <1>4. token[j] = <<>>
    BY <1>3 DEF IInv, TypeOK, TokenRoots
  <1>5. TypeOK'
    BY <1>2, <1>3 DEF IInv, TypeOK
  <1>6. ParentsStored'
    BY <1>2, <1>3 DEF IInv, ParentsStored
  <1>7. Attenuation'
    <2>1. \A i, k \in 1 .. Len(c) : i = 1 /\ k = 1
      BY <1>2
    <2>2. l.exp <= l.exp
      BY <1>1 DEF Link
    <2> QED
      BY <1>2, <1>3, <2>1, <2>2 DEF IInv, Attenuation
  <1>8. OneTrace' /\ HolderIssues'
    <2>1. 2 .. Len(c) = {}
      BY <1>2
    <2> QED
      BY <1>3, <2>1 DEF IInv, OneTrace, HolderIssues
  <1>9. BuildOK'
    BY <1>3 DEF IInv, BuildOK
  <1>10. TokenRoots'
    BY <1>1, <1>2, <1>3 DEF IInv, TypeOK, TokenRoots
  <1>11. RevokeFlow' /\ AnsweredRevoked'
    BY <1>3 DEF IInv, RevokeFlow, AnsweredRevoked
  <1>12. RootTracked'
    <2> SUFFICES ASSUME NEW d \in creds', ~(d[1].exp < now)
                 PROVE  \E i \in Jtis : token'[i] = Path(d, 1)
      BY <1>3 DEF RootTracked
    <2>1. CASE d = c
      BY <2>1, <1>2, <1>3 DEF IInv, TypeOK
    <2>2. CASE d \in creds
      <3>1. PICK i \in Jtis : token[i] = Path(d, 1)
        BY <2>2 DEF IInv, RootTracked
      <3>2. d \in Credential /\ Path(d, 1) \in Credential
        BY <2>2, CredentialLen, PathFacts DEF IInv, TypeOK
      <3>3. i # j
        BY <3>1, <3>2, <1>4 DEF Credential
      <3> QED
        BY <3>1, <3>3, <1>3 DEF IInv, TypeOK
    <2> QED
      BY <2>1, <2>2, <1>3
  <1> QED
    BY <1>5, <1>6, <1>7, <1>8, <1>9, <1>10, <1>11, <1>12 DEF IInv

LEMMA BeginBuildStep ==
  ASSUME IInv, NEW p \in creds, NEW s \in Agents, NEW tr \in Traces,
         NEW rq \in Requests, NEW caps \in SUBSET Caps, BeginBuild(p, s, caps, tr, rq)
  PROVE  IInv'
  <1> DEFINE b == [parent |-> p, subject |-> s, caps |-> caps, trace |-> tr, req |-> rq]
  <1>1. /\ caps \subseteq CapsOf(p) /\ BoundTrace(p) \in {None, tr}
        /\ building' = b
        /\ UNCHANGED <<now, creds, revoked, token, tokenRevoked, pc, job, snapshot, answered>>
    BY DEF BeginBuild, storeVars, revokeVars
  <1>2. b \in Build
    BY DEF IInv, TypeOK, Build
  <1>3. TypeOK'
    BY <1>1, <1>2 DEF IInv, TypeOK
  <1>4. /\ b.parent = p /\ b.caps = caps /\ b.trace = tr
    OBVIOUS
  <1> HIDE DEF b
  <1>5. BuildOK'
    BY <1>1, <1>4 DEF BuildOK
  <1>6. ParentsStored' /\ Attenuation' /\ OneTrace' /\ HolderIssues'
    BY <1>1 DEF IInv, ParentsStored, Attenuation, OneTrace, HolderIssues
  <1>7. TokenRoots' /\ RevokeFlow' /\ AnsweredRevoked' /\ RootTracked'
    BY <1>1 DEF IInv, TokenRoots, RevokeFlow, AnsweredRevoked, RootTracked
  <1> QED
    BY <1>3, <1>5, <1>6, <1>7 DEF IInv

LEMMA UpsertChildStep ==
  ASSUME IInv, UpsertChild
  PROVE  IInv'
  <1> DEFINE p == building.parent
             l == ChildLink(p, building.subject, building.caps, building.trace,
                            building.req, now)
             c == Append(p, l)
             n == Len(p)
  <1>1. /\ building \in Build /\ p \in creds /\ p \in Credential
        /\ building.caps \subseteq CapsOf(p)
        /\ BoundTrace(p) \in {None, building.trace}
    BY DEF UpsertChild, IInv, TypeOK, BuildOK
  <1>2. n \in Nat \ {0} /\ \A i \in 1 .. n : p[i] \in Link
    BY <1>1, CredentialLen
  <1>3. /\ l.issuer = p[n].subject /\ l.user = p[n].user /\ l.caps = building.caps
        /\ l.ucaps = p[n].ucaps /\ l.exp = p[n].exp /\ l.trace = building.trace
    BY DEF ChildLink, Holder
  <1>4. l \in Link
    BY <1>1, <1>2 DEF ChildLink, Holder, Link, Build, IInv, TypeOK, Principals
  <1>5. l.caps \subseteq p[n].caps /\ p[n].trace \in {None, l.trace}
        /\ l.trace \in Traces
    BY <1>1, <1>3 DEF CapsOf, BoundTrace, Build
  <1>6. /\ c \in Credential /\ Len(c) = n + 1
        /\ \A i \in 1 .. n : c[i] = p[i]
        /\ c[n + 1] = l
        /\ \A k \in 1 .. n : Path(c, k) = Path(p, k)
        /\ Path(c, n + 1) = c
    BY <1>1, <1>4, ChildFacts
  <1>7. /\ creds' = creds \cup {c} /\ revoked' = revoked \ {c} /\ building' = None
        /\ UNCHANGED <<now, token, tokenRevoked, pc, job, snapshot, answered>>
    BY DEF UpsertChild, Built, revokeVars
  <1> HIDE DEF p, l, c, n
  <1>8. TypeOK'
    BY <1>6, <1>7 DEF IInv, TypeOK
  <1>9. ParentsStored'
    <2>1. \A k \in 1 .. n : Path(c, k) \in creds
      BY <1>1, <1>6 DEF IInv, ParentsStored, n
    <2>2. \A k \in 1 .. Len(c) : Path(c, k) \in creds'
      BY <2>1, <1>2, <1>6, <1>7
    <2> QED
      BY <2>2, <1>7 DEF IInv, ParentsStored
  <1>10. Attenuation'
    <2>1. ASSUME NEW i \in 1 .. Len(c), NEW k \in 1 .. Len(c), i <= k
          PROVE  /\ c[k].caps \subseteq c[i].caps
                 /\ c[k].ucaps \subseteq c[i].ucaps
                 /\ c[k].exp <= c[i].exp
                 /\ c[k].user = c[i].user
      <3>1. CASE k <= n
        BY <3>1, <2>1, <1>1, <1>2, <1>6 DEF IInv, Attenuation, n
      <3>2. CASE k = n + 1 /\ i <= n
        <4>1. c[k] = l /\ c[i] = p[i] /\ i \in 1 .. n /\ n \in 1 .. n
          BY <3>2, <2>1, <1>2, <1>6
        <4>2. /\ p[n].caps \subseteq p[i].caps /\ p[n].ucaps \subseteq p[i].ucaps
              /\ p[n].exp <= p[i].exp /\ p[n].user = p[i].user
          BY <4>1, <1>1 DEF IInv, Attenuation, n
        <4> QED
          BY <4>1, <4>2, <1>3, <1>5
      <3>3. CASE k = n + 1 /\ i = n + 1
        BY <3>3, <1>4, <1>6 DEF Link
      <3> QED
        BY <3>1, <3>2, <3>3, <2>1, <1>2, <1>6
    <2> QED
      BY <2>1, <1>7 DEF IInv, Attenuation
  <1>11. OneTrace'
    <2>1. ASSUME NEW k \in 2 .. Len(c) PROVE c[k].trace = l.trace
      <3>1. CASE k = n + 1
        BY <3>1, <1>6
      <3>2. CASE k <= n
        <4>1. k \in 2 .. n /\ n \in 2 .. n /\ c[k] = p[k]
          BY <3>2, <2>1, <1>2, <1>6
        <4>2. p[k].trace = p[n].trace /\ p[n].trace # None
          BY <4>1, <1>1 DEF IInv, OneTrace, n
        <4> QED
          BY <4>1, <4>2, <1>5
      <3> QED
        BY <3>1, <3>2, <2>1, <1>2, <1>6
    <2>2. l.trace # None
      BY <1>5, NoneNoTrace
    <2> QED
      BY <2>1, <2>2, <1>7 DEF IInv, OneTrace
  <1>12. HolderIssues'
    <2>1. ASSUME NEW k \in 2 .. Len(c) PROVE c[k].issuer = c[k - 1].subject
      <3>1. CASE k = n + 1
        <4>1. c[k] = l /\ c[k - 1] = p[n]
          BY <3>1, <1>2, <1>6
        <4> QED
          BY <4>1, <1>3
      <3>2. CASE k <= n
        <4>1. k \in 2 .. n /\ c[k] = p[k] /\ c[k - 1] = p[k - 1]
          BY <3>2, <2>1, <1>2, <1>6
        <4> QED
          BY <4>1, <1>1 DEF IInv, HolderIssues, n
      <3> QED
        BY <3>1, <3>2, <2>1, <1>2, <1>6
    <2> QED
      BY <2>1, <1>7 DEF IInv, HolderIssues
  <1>13. BuildOK' /\ TokenRoots' /\ RevokeFlow'
    BY <1>7 DEF IInv, BuildOK, TokenRoots, RevokeFlow
  <1>14. AnsweredRevoked'
    <2>1. ASSUME NEW root \in answered PROVE root # c
      <3>1. Len(root) = 1
        BY DEF IInv, AnsweredRevoked
      <3>2. Len(c) # 1
        BY <1>2, <1>6
      <3> QED
        BY <3>1, <3>2
    <2> QED
      BY <2>1, <1>7 DEF IInv, AnsweredRevoked
  <1>15. RootTracked'
    <2>1. c[1] = p[1] /\ Path(c, 1) = Path(p, 1)
      BY <1>2, <1>6
    <2> QED
      BY <2>1, <1>1, <1>7 DEF IInv, RootTracked
  <1> QED
    BY <1>8, <1>9, <1>10, <1>11, <1>12, <1>13, <1>14, <1>15 DEF IInv

\* The store and the delegation under way are untouched by these actions.
LEMMA SameStore ==
  ASSUME IInv, UNCHANGED <<creds, building>>
  PROVE  ParentsStored' /\ Attenuation' /\ OneTrace' /\ HolderIssues' /\ BuildOK'
  BY DEF IInv, ParentsStored, Attenuation, OneTrace, HolderIssues, BuildOK

LEMMA RevokeTokenStep ==
  ASSUME IInv, NEW r \in Threads, NEW j \in Jtis, RevokeToken(r, j)
  PROVE  IInv'
  <1>1. /\ token[j] # <<>>
        /\ tokenRevoked' = tokenRevoked \cup {j}
        /\ job' = [job EXCEPT ![r] = token[j]]
        /\ pc' = [pc EXCEPT ![r] = "list"]
        /\ UNCHANGED <<now, creds, revoked, token, building, snapshot, answered>>
    BY DEF RevokeToken
  <1>2. TypeOK'
    BY <1>1 DEF IInv, TypeOK
  <1>3. TokenRoots' /\ AnsweredRevoked' /\ RootTracked'
    BY <1>1 DEF IInv, TokenRoots, AnsweredRevoked, RootTracked
  <1>4. RevokeFlow'
    BY <1>1 DEF IInv, TypeOK, RevokeFlow, TokenRoots
  <1> QED
    BY <1>1, <1>2, <1>3, <1>4, SameStore DEF IInv

LEMMA ListTreeStep ==
  ASSUME IInv, NEW r \in Threads, ListTree(r)
  PROVE  IInv'
  <1>1. /\ pc[r] = "list"
        /\ snapshot' = [snapshot EXCEPT ![r] = Tree(creds, job[r])]
        /\ pc' = [pc EXCEPT ![r] = "update"]
        /\ UNCHANGED <<now, creds, revoked, token, tokenRevoked, building, job, answered>>
    BY DEF ListTree, storeVars
  <1>2. TypeOK'
    BY <1>1 DEF IInv, TypeOK, Tree
  <1>3. TokenRoots' /\ AnsweredRevoked' /\ RootTracked'
    BY <1>1 DEF IInv, TokenRoots, AnsweredRevoked, RootTracked
  <1>4. RevokeFlow'
    <2>1. job[r] # <<>> /\ Len(job[r]) = 1 /\ job[r] \in creds
      BY <1>1 DEF IInv, TypeOK, RevokeFlow
    <2>2. job[r] \in Credential /\ Path(job[r], 1) = job[r]
      BY <2>1, PathFull DEF IInv, TypeOK
    <2>3. job[r] \in Tree(creds, job[r])
      <3>1. Under(job[r], job[r])
        BY <2>1, <2>2 DEF Under
      <3>2. \A k \in Len(job[r]) .. Len(job[r]) : Path(job[r], k) \in creds
        BY <2>1, <2>2
      <3> QED
        BY <2>1, <3>1, <3>2 DEF Tree
    <2> QED
      BY <1>1, <2>1, <2>3 DEF IInv, TypeOK, RevokeFlow
  <1> QED
    BY <1>1, <1>2, <1>3, <1>4, SameStore DEF IInv

LEMMA UpdateTreeStep ==
  ASSUME IInv, NEW r \in Threads, UpdateTree(r)
  PROVE  IInv'
  <1>1. /\ pc[r] = "update"
        /\ revoked' = revoked \cup snapshot[r]
        /\ answered' = answered \cup {job[r]}
        /\ pc' = [pc EXCEPT ![r] = "idle"]
        /\ job' = [job EXCEPT ![r] = <<>>]
        /\ snapshot' = [snapshot EXCEPT ![r] = {}]
        /\ UNCHANGED <<now, creds, token, tokenRevoked, building>>
    BY DEF UpdateTree
  <1>2. job[r] # <<>> /\ Len(job[r]) = 1 /\ job[r] \in snapshot[r]
    BY <1>1 DEF IInv, RevokeFlow
  <1>3. TypeOK'
    BY <1>1, <1>2 DEF IInv, TypeOK
  <1>4. TokenRoots' /\ RootTracked'
    BY <1>1 DEF IInv, TokenRoots, RootTracked
  <1>5. RevokeFlow' /\ AnsweredRevoked'
    BY <1>1, <1>2 DEF IInv, TypeOK, RevokeFlow, AnsweredRevoked
  <1> QED
    BY <1>1, <1>3, <1>4, <1>5, SameStore DEF IInv

LEMMA BatchRevokeStep ==
  ASSUME IInv, NEW p \in Principals, BatchRevoke(p)
  PROVE  IInv'
  <1>1. /\ tokenRevoked' \subseteq Jtis
        /\ UNCHANGED <<now, creds, revoked, token, building, pc, job, snapshot, answered>>
    BY DEF BatchRevoke, revokeVars, IInv, TypeOK
  <1>2. TypeOK' /\ TokenRoots' /\ RevokeFlow' /\ AnsweredRevoked' /\ RootTracked'
    BY <1>1 DEF IInv, TypeOK, TokenRoots, RevokeFlow, AnsweredRevoked, RootTracked
  <1> QED
    BY <1>1, <1>2, SameStore DEF IInv

LEMMA CleanupStep ==
  ASSUME IInv, CleanupExpiredTokens
  PROVE  IInv'
  <1>1. /\ token' = [j \in Jtis |->
             IF token[j] # <<>> /\ token[j][1].exp < now THEN <<>> ELSE token[j]]
        /\ UNCHANGED <<now, creds, revoked, tokenRevoked, building, pc, job, snapshot, answered>>
    BY DEF CleanupExpiredTokens, revokeVars
  <1>2. TypeOK' /\ TokenRoots' /\ RevokeFlow' /\ AnsweredRevoked'
    BY <1>1 DEF IInv, TypeOK, TokenRoots, RevokeFlow, AnsweredRevoked
  <1>3. RootTracked'
    <2> SUFFICES ASSUME NEW c \in creds, ~(c[1].exp < now)
                 PROVE  \E j \in Jtis : token'[j] = Path(c, 1)
      BY <1>1 DEF RootTracked
    <2>1. PICK j \in Jtis : token[j] = Path(c, 1)
      BY DEF IInv, RootTracked
    <2>2. 1 \in 1 .. Len(c) /\ c \in Credential
      BY CredentialLen DEF IInv, TypeOK
    <2>3. token[j][1] = c[1]
      BY <2>1, <2>2, PathFacts
    <2> QED
      BY <1>1, <2>1, <2>3
  <1> QED
    BY <1>1, <1>2, <1>3, SameStore DEF IInv

LEMMA TickStep ==
  ASSUME IInv, Tick
  PROVE  IInv'
  <1>1. /\ now' = now + 1
        /\ UNCHANGED <<creds, revoked, token, tokenRevoked, building, pc, job, snapshot, answered>>
    BY DEF Tick, storeVars, revokeVars
  <1>2. TypeOK' /\ TokenRoots' /\ RevokeFlow' /\ AnsweredRevoked'
    BY <1>1 DEF IInv, TypeOK, TokenRoots, RevokeFlow, AnsweredRevoked
  <1>3. RootTracked'
    <2>1. \A c \in creds : c[1].exp \in Nat
      BY CredentialLen DEF IInv, TypeOK, Link
    <2> QED
      BY <1>1, <2>1 DEF IInv, TypeOK, RootTracked
  <1> QED
    BY <1>1, <1>2, <1>3, SameStore DEF IInv

LEMMA StutterStep ==
  ASSUME IInv, UNCHANGED vars
  PROVE  IInv'
  <1>1. UNCHANGED <<now, creds, revoked, token, tokenRevoked, building, pc, job,
                    snapshot, answered>>
    BY DEF vars, storeVars, revokeVars
  <1>2. TypeOK' /\ TokenRoots' /\ RevokeFlow' /\ AnsweredRevoked' /\ RootTracked'
    BY <1>1 DEF IInv, TypeOK, TokenRoots, RevokeFlow, AnsweredRevoked, RootTracked
  <1> QED
    BY <1>1, <1>2, SameStore DEF IInv

LEMMA StepIInv == IInv /\ [Next]_vars => IInv'
  <1> SUFFICES ASSUME IInv, [Next]_vars PROVE IInv'
    OBVIOUS
  <1>1. ASSUME NEW j \in Jtis, NEW p \in Principals, NEW u \in Users,
               NEW caps \in SUBSET Caps, NEW ucaps \in SUBSET Caps, NEW ttl \in 1 .. MaxTTL,
               IssueToken(j, p, u, caps, ucaps, ttl)
        PROVE  IInv'
    BY <1>1, IssueTokenStep
  <1>2. ASSUME NEW p \in creds, NEW s \in Agents, NEW tr \in Traces, NEW rq \in Requests,
               NEW caps \in SUBSET Caps, BeginBuild(p, s, caps, tr, rq)
        PROVE  IInv'
    BY <1>2, BeginBuildStep
  <1>3. CASE UpsertChild
    BY <1>3, UpsertChildStep
  <1>4. ASSUME NEW r \in Threads, ListTree(r) PROVE IInv'
    BY <1>4, ListTreeStep
  <1>5. ASSUME NEW r \in Threads, UpdateTree(r) PROVE IInv'
    BY <1>5, UpdateTreeStep
  <1>6. ASSUME NEW r \in Threads, NEW j \in Jtis, RevokeToken(r, j) PROVE IInv'
    BY <1>6, RevokeTokenStep
  <1>7. ASSUME NEW p \in Principals, BatchRevoke(p) PROVE IInv'
    BY <1>7, BatchRevokeStep
  <1>8. CASE CleanupExpiredTokens
    BY <1>8, CleanupStep
  <1>9. CASE Tick
    BY <1>9, TickStep
  <1>10. CASE UNCHANGED vars
    BY <1>10, StutterStep
  <1> QED
    BY <1>1, <1>2, <1>3, <1>4, <1>5, <1>6, <1>7, <1>8, <1>9, <1>10 DEF Next

\* A root whose revocation has answered is revoked and on every path below it.
LEMMA RevokedStayOut ==
  ASSUME IInv
  PROVE  RevocationIsFinal
  <1> SUFFICES ASSUME NEW root \in answered, NEW c \in creds, Under(root, c)
               PROVE  ~ValidBranch(creds, revoked, now, c)
    BY DEF RevocationIsFinal
  <1>1. Len(root) = 1 /\ root \in revoked
    BY DEF IInv, AnsweredRevoked
  <1>2. 1 \in 1 .. Len(c) /\ Path(c, 1) = root
    BY <1>1, CredentialLen DEF Under, IInv, TypeOK
  <1> QED
    BY <1>1, <1>2 DEF ValidBranch

-----------------------------------------------------------------------------
(* The theorems.                                                           *)

\* IInv holds in every reachable state.
THEOREM Invariance == Spec => []IInv
  BY InitIInv, StepIInv, PTL DEF Spec

\* The stores hold well-formed credentials, and what a token, a thread or a
\* revocation refers to is stored.
THEOREM TypeCorrect == Spec => []TypeOK
  BY Invariance, PTL DEF IInv

\* The chain of every stored credential can be walked to its root.
THEOREM ChainsComplete == Spec => []ParentsStored
  BY Invariance, PTL DEF IInv

\* Authority only shrinks along a delegation path of any length.
THEOREM AuthorityAttenuates == Spec => []Attenuation
  BY Invariance, PTL DEF IInv

\* A root's delegations on one path belong to one trace.
THEOREM PathsKeepTheTrace == Spec => []OneTrace
  BY Invariance, PTL DEF IInv

\* Each link is issued by the holder of the one before it.
THEOREM ChainOfCustody == Spec => []HolderIssues
  BY Invariance, PTL DEF IInv

\* After a revocation has answered nothing below the token is accepted.
THEOREM RevocationFinal == Spec => []RevocationIsFinal
  <1>1. IInv => RevocationIsFinal
    BY RevokedStayOut
  <1> QED
    BY <1>1, Invariance, PTL

\* Deleting expired tokens strands no credential that is still valid.
THEOREM CleanupSafe == Spec => []CleanupStrandsNothing
  <1>1. IInv => CleanupStrandsNothing
    <2> SUFFICES ASSUME IInv, NEW c \in creds, \A j \in Jtis : token[j] # Path(c, 1)
                 PROVE  ~ValidBranch(creds, revoked, now, c)
      BY DEF CleanupStrandsNothing
    <2>1. c[1].exp < now
      BY DEF IInv, RootTracked
    <2>2. 1 \in 1 .. Len(c) /\ c[1].exp \in Nat /\ now \in Nat
      BY CredentialLen DEF IInv, TypeOK, Link
    <2> QED
      BY <2>1, <2>2 DEF ValidBranch
  <1> QED
    BY <1>1, Invariance, PTL
-----------------------------------------------------------------------------
(* What the stores promise: Authority.                                     *)

\* Nothing is revoked but what is below a revoked root: an update is one
\* transaction, and what a thread read hangs below the root it works on.
Rooted ==
  /\ \A c \in revoked : Path(c, 1) \in revoked
  /\ \A r \in Threads : pc[r] = "update" => \A c \in snapshot[r] : Path(c, 1) = job[r]

LEMMA RootOfRoot ==
  ASSUME NEW c \in Credential
  PROVE  /\ 1 \in 1 .. Len(c)
         /\ Path(c, 1) \in Credential /\ Len(Path(c, 1)) = 1 /\ Path(c, 1)[1] = c[1]
         /\ Path(Path(c, 1), 1) = Path(c, 1)
  <1>1. 1 \in 1 .. Len(c) /\ 1 \in 1 .. 1
    BY CredentialLen
  <1>2. /\ Path(c, 1) \in Credential /\ Len(Path(c, 1)) = 1
        /\ \A i \in 1 .. 1 : Path(c, 1)[i] = c[i]
    BY <1>1, PathFacts
  <1>3. Path(Path(c, 1), 1) = Path(c, 1)
    BY <1>1, PathOfPath
  <1> QED
    BY <1>1, <1>2, <1>3

LEMMA UnderRoot ==
  ASSUME NEW c \in Credential, NEW root \in Credential, Len(root) = 1
  PROVE  Under(root, c) <=> Path(c, 1) = root
  BY CredentialLen DEF Under

LEMMA StepRooted ==
  ASSUME IInv, Rooted, [Next]_vars
  PROVE  Rooted'
  <1>1. ASSUME UNCHANGED <<revoked, pc, job, snapshot>>
        PROVE  Rooted'
    BY <1>1 DEF Rooted
  <1>2. CASE UpsertChild
    <2> DEFINE p == building.parent
    <2>1. building \in Build /\ p \in Credential
      BY <1>2 DEF UpsertChild, IInv, TypeOK, BuildOK
    <2>2. ChildLink(p, building.subject, building.caps, building.trace, building.req, now)
            \in Link
      <3>1. Len(p) \in Nat \ {0} /\ \A i \in 1 .. Len(p) : p[i] \in Link
        BY <2>1, CredentialLen
      <3> QED
        BY <2>1, <3>1 DEF ChildLink, Holder, Link, Build, IInv, TypeOK, Principals
    <2>3. Len(Built) # 1
      BY <2>1, <2>2, ChildFacts, CredentialLen DEF Built
    <2>4. /\ revoked' = revoked \ {Built}
          /\ UNCHANGED <<pc, job, snapshot>>
      BY <1>2 DEF UpsertChild, revokeVars
    <2>5. ASSUME NEW c \in revoked PROVE Path(c, 1) # Built
      BY <2>3, RootOfRoot DEF IInv, TypeOK
    <2> HIDE DEF p
    <2> QED
      BY <2>4, <2>5 DEF Rooted
  <1>3. ASSUME NEW r \in Threads, NEW j \in Jtis, RevokeToken(r, j) PROVE Rooted'
    BY <1>3 DEF RevokeToken, Rooted, IInv, TypeOK
  <1>4. ASSUME NEW r \in Threads, ListTree(r) PROVE Rooted'
    <2>1. Len(job[r]) = 1 /\ job[r] \in Credential
      BY <1>4 DEF ListTree, IInv, TypeOK, RevokeFlow
    <2>2. \A c \in Tree(creds, job[r]) : Path(c, 1) = job[r]
      BY <2>1, UnderRoot DEF Tree, IInv, TypeOK
    <2>3. /\ snapshot' = [snapshot EXCEPT ![r] = Tree(creds, job[r])]
          /\ pc' = [pc EXCEPT ![r] = "update"]
          /\ UNCHANGED <<revoked, job>>
      BY <1>4 DEF ListTree, storeVars
    <2> QED
      BY <2>2, <2>3 DEF Rooted, IInv, TypeOK
  <1>5. ASSUME NEW r \in Threads, UpdateTree(r) PROVE Rooted'
    <2>1. /\ pc[r] = "update" /\ revoked' = revoked \cup snapshot[r]
          /\ pc' = [pc EXCEPT ![r] = "idle"]
          /\ job' = [job EXCEPT ![r] = <<>>]
          /\ snapshot' = [snapshot EXCEPT ![r] = {}]
      BY <1>5 DEF UpdateTree
    <2>2. job[r] \in snapshot[r]
      BY <2>1 DEF IInv, RevokeFlow
    <2> QED
      BY <2>1, <2>2 DEF Rooted, IInv, TypeOK
  <1> QED
    BY <1>1, <1>2, <1>3, <1>4, <1>5
    DEF Next, IssueToken, BeginBuild, BatchRevoke, CleanupExpiredTokens, Tick, vars,
        storeVars, revokeVars

\* The state of the refinement proof.
Sound == IInv /\ Rooted

LEMMA InitSound == Init => Sound
  BY InitIInv DEF Sound, Rooted, Init

LEMMA StepSound == Sound /\ [Next]_vars => Sound'
  BY StepIInv, StepRooted DEF Sound

\* The credentials that are accepted: stored, not expired, their root not revoked.
Accepted == {c \in creds : Path(c, 1) \notin revoked /\ c[Len(c)].exp > now}

LEMMA UsableIs == Sound => Usable = Accepted
  <1> SUFFICES ASSUME Sound, NEW c \in creds
               PROVE  ValidBranch(creds, revoked, now, c)
                        <=> Path(c, 1) \notin revoked /\ c[Len(c)].exp > now
    BY DEF Usable, Accepted
  <1>1. c \in Credential /\ Len(c) \in Nat \ {0} /\ 1 \in 1 .. Len(c) /\ Len(c) \in 1 .. Len(c)
    BY CredentialLen DEF Sound, IInv, TypeOK
  <1>2. CASE ValidBranch(creds, revoked, now, c)
    BY <1>1, <1>2 DEF ValidBranch
  <1>3. CASE Path(c, 1) \notin revoked /\ c[Len(c)].exp > now
    <2>1. ASSUME NEW k \in 1 .. Len(c)
          PROVE  Path(c, k) \in creds \ revoked /\ c[k].exp > now
      <3>1. Path(c, k) \in creds
        BY DEF Sound, IInv, ParentsStored
      <3>2. Path(Path(c, k), 1) = Path(c, 1)
        BY <1>1, PathOfPath
      <3>3. Path(c, k) \notin revoked
        BY <1>3, <3>2 DEF Sound, Rooted
      <3>4. c[Len(c)].exp <= c[k].exp
        BY <1>1 DEF Sound, IInv, Attenuation
      <3>5. c[k].exp \in Nat /\ c[Len(c)].exp \in Nat /\ now \in Nat
        BY <1>1, CredentialLen DEF Sound, IInv, TypeOK, Link
      <3> QED
        BY <1>3, <3>1, <3>3, <3>4, <3>5
    <2>2. ASSUME NEW k \in 1 .. Len(c) - 1
          PROVE  /\ c[k + 1].exp <= c[k].exp
                 /\ c[k + 1].caps \subseteq c[k].caps
                 /\ c[k + 1].ucaps \subseteq c[k].ucaps
      <3>1. k \in 1 .. Len(c) /\ k + 1 \in 1 .. Len(c) /\ k <= k + 1
        BY <1>1
      <3> QED
        BY <3>1 DEF Sound, IInv, Attenuation
    <2>3. ValidBranch(creds, revoked, now, c)
      BY <2>1, <2>2 DEF ValidBranch
    <2> QED
      BY <1>3, <2>3
  <1> QED
    BY <1>2, <1>3

LEMMA UsableIsNext == Sound' => (Usable = Accepted)'
  BY UsableIs, PTL

LEMMA SameAuthorityOperators ==
  /\ \A c, k : Promise!Path(c, k) = Path(c, k)
  /\ \A c, d : Promise!Under(c, d) = Under(c, d)
  BY DEF Promise!Path, Path, Promise!Under, Under

\* An issued token is accepted at once.
LEMMA IssueIsIssue ==
  ASSUME Sound, Sound', NEW j \in Jtis, NEW p \in Principals, NEW u \in Users,
         NEW caps \in SUBSET Caps, NEW ucaps \in SUBSET Caps,
         NEW ttl \in 1 .. MaxTTL, IssueToken(j, p, u, caps, ucaps, ttl)
  PROVE  Promise!Next
  <1> DEFINE l == RootLink(p, u, caps, ucaps, now, ttl, j)
             c == <<l>>
  <1>1. l \in Link /\ l.iat = now /\ l.exp > now /\ l.issuer = l.subject /\ l.trace = None
        /\ l.req = j
    BY MaxTTLAssumption DEF Sound, IInv, TypeOK, RootLink, Link
  <1>2. c \in Credential /\ Len(c) = 1 /\ c[1] = l /\ Path(c, 1) = c
    BY <1>1, RootFacts
  <1> HIDE DEF l, c
  <1>3. /\ creds' = creds \cup {c}
        /\ \A d \in creds : d[1].req # j
        /\ UNCHANGED <<now, revoked, answered>>
    BY DEF IssueToken, c, l, revokeVars
  <1>4. c \notin revoked
    BY <1>1, <1>2, <1>3 DEF Sound, IInv, TypeOK
  <1>5. Usable' = Usable \cup {c}
    <2>1. Usable = Accepted /\ (Usable = Accepted)'
      BY UsableIs, UsableIsNext
    <2> QED
      BY <2>1, <1>1, <1>2, <1>3, <1>4 DEF Accepted
  <1>6. \A d \in Usable \cup answered : d[1].req # c[1].req
    BY <1>1, <1>2, <1>3 DEF Usable, Sound, IInv, TypeOK
  <1>7. Promise!Issue(c)
    BY <1>1, <1>2, <1>3, <1>5, <1>6 DEF Promise!Issue
  <1> QED
    BY <1>5, <1>7 DEF Promise!Next

\* A child inserted below an accepted parent is accepted.  One whose parent was
\* revoked or has expired since it was validated is not: the step changes nothing.
LEMMA UpsertIsDelegate ==
  ASSUME Sound, Sound', UpsertChild
  PROVE  Promise!Next \/ UNCHANGED Promise!vars
  <1> DEFINE p == building.parent
             l == ChildLink(p, building.subject, building.caps, building.trace,
                            building.req, now)
             c == Built
             n == Len(p)
  <1>1. /\ building \in Build /\ p \in creds /\ p \in Credential
        /\ building.caps \subseteq CapsOf(p)
        /\ BoundTrace(p) \in {None, building.trace}
    BY DEF UpsertChild, Sound, IInv, TypeOK, BuildOK
  <1>2. n \in Nat \ {0} /\ \A i \in 1 .. n : p[i] \in Link
    BY <1>1, CredentialLen
  <1>3. /\ l.issuer = p[n].subject /\ l.user = p[n].user /\ l.caps = building.caps
        /\ l.ucaps = p[n].ucaps /\ l.exp = p[n].exp /\ l.trace = building.trace
        /\ l.iat = now
    BY DEF ChildLink, Holder
  <1>4. l \in Link
    BY <1>1, <1>2 DEF ChildLink, Holder, Link, Build, Sound, IInv, TypeOK, Principals
  <1>5. c = Append(p, l)
    BY DEF Built
  <1>6. /\ c \in Credential /\ Len(c) = n + 1
        /\ c[n] = p[n] /\ c[n + 1] = l
        /\ Path(c, n) = p /\ Path(c, 1) = Path(p, 1)
    <2>1. /\ c \in Credential /\ Len(c) = n + 1
          /\ \A i \in 1 .. n : c[i] = p[i]
          /\ c[n + 1] = l
          /\ \A k \in 1 .. n : Path(c, k) = Path(p, k)
      BY <1>1, <1>4, <1>5, ChildFacts
    <2> QED
      BY <2>1, <1>1, <1>2, PathFull
  <1>7. /\ creds' = creds \cup {c} /\ revoked' = revoked \ {c}
        /\ UNCHANGED <<now, answered>>
    BY DEF UpsertChild, revokeVars
  <1>8. p[n].exp \in Nat /\ p[n].caps \in SUBSET Caps /\ p[n].ucaps \in SUBSET Caps
        /\ now \in Nat /\ l.caps \subseteq p[n].caps /\ p[n].trace \in {None, l.trace}
    BY <1>1, <1>2, <1>3 DEF Link, CapsOf, BoundTrace, Sound, IInv, TypeOK
  <1>9. Usable = Accepted /\ (Usable = Accepted)'
    BY UsableIs, UsableIsNext
  <1> HIDE DEF p, l, c, n
  <1>10. ASSUME NEW d \in creds PROVE Path(d, 1) # c
    <2>1. d \in Credential
      BY DEF Sound, IInv, TypeOK
    <2>2. Len(Path(d, 1)) = 1
      BY <2>1, RootOfRoot
    <2>3. Len(c) # 1
      <3>1. Len(c) = n + 1 /\ n \in Nat /\ n # 0
        BY <1>2, <1>6
      <3> QED
        BY <3>1
    <2> QED
      BY <2>2, <2>3
  <1>11. p \in Usable <=> Path(c, 1) \notin revoked /\ l.exp > now
    BY <1>1, <1>3, <1>6, <1>9 DEF Accepted, n
  <1>12. Path(c, 1) # c
    BY <1>2, <1>6, RootOfRoot
  <1>13. Usable' = {d \in creds \cup {c} : Path(d, 1) \notin revoked /\ d[Len(d)].exp > now}
    BY <1>7, <1>9, <1>10, <1>12 DEF Accepted
  <1>14. Usable' = Usable \cup (IF p \in Usable THEN {c} ELSE {})
    BY <1>6, <1>9, <1>11, <1>13 DEF Accepted
  <1>15. CASE p \in Usable
    <2>1. l.exp \in now + 1 .. p[n].exp
      BY <1>3, <1>8, <1>11, <1>15
    <2>2. Promise!Delegate(c)
      <3>1. Len(c) > 1 /\ Len(c) - 1 = n
        BY <1>2, <1>6
      <3> QED
        BY <3>1, <2>1, <1>3, <1>6, <1>7, <1>8, <1>14, <1>15, SameAuthorityOperators
        DEF Promise!Delegate
    <2> QED
      BY <2>2, <1>14, <1>15 DEF Promise!Next
  <1>16. CASE p \notin Usable
    BY <1>7, <1>14, <1>16 DEF Promise!vars
  <1> QED
    BY <1>15, <1>16

\* The update takes every accepted credential below the token away, those that
\* were inserted after the thread read the tree included.
LEMMA UpdateIsRevoke ==
  ASSUME Sound, Sound', NEW r \in Threads, UpdateTree(r)
  PROVE  Promise!Next
  <1> DEFINE root == job[r]
  <1>1. /\ pc[r] = "update"
        /\ revoked' = revoked \cup snapshot[r]
        /\ answered' = answered \cup {root}
        /\ UNCHANGED <<now, creds>>
    BY DEF UpdateTree
  <1>2. /\ root \in Credential /\ Len(root) = 1 /\ root \in snapshot[r]
        /\ \A c \in snapshot[r] : Path(c, 1) = root
        /\ snapshot[r] \subseteq Credential
    BY <1>1 DEF Sound, Rooted, IInv, TypeOK, RevokeFlow
  <1> HIDE DEF root
  <1>3. \A c \in creds : c \in Credential
    BY DEF Sound, IInv, TypeOK
  <1>4. \A c \in creds : Path(c, 1) \in snapshot[r] <=> Path(c, 1) = root
    BY <1>2, <1>3, RootOfRoot
  <1>5. Usable = Accepted /\ (Usable = Accepted)'
    BY UsableIs, UsableIsNext
  <1>6. Usable' = {c \in Usable : Path(c, 1) # root}
    BY <1>1, <1>4, <1>5 DEF Accepted
  <1>7. \A c \in Usable : Path(c, 1) = root <=> Under(root, c)
    BY <1>2, <1>3, UnderRoot DEF Usable
  <1>8. Promise!Revoke(root)
    BY <1>1, <1>2, <1>6, <1>7, SameAuthorityOperators DEF Promise!Revoke
  <1> QED
    BY <1>1, <1>8 DEF Promise!Next

LEMMA TickIsTick ==
  ASSUME Sound, Sound', Tick
  PROVE  Promise!Next
  <1>1. now' = now + 1 /\ UNCHANGED <<creds, revoked, answered>>
    BY DEF Tick, storeVars, revokeVars
  <1>2. Usable = Accepted /\ (Usable = Accepted)'
    BY UsableIs, UsableIsNext
  <1>3. \A c \in creds : c[Len(c)].exp \in Nat /\ now \in Nat
    <2> SUFFICES ASSUME NEW c \in creds PROVE c[Len(c)].exp \in Nat /\ now \in Nat
      OBVIOUS
    <2>1. c \in Credential /\ Len(c) \in 1 .. Len(c)
      BY CredentialLen DEF Sound, IInv, TypeOK
    <2> QED
      BY <2>1, CredentialLen DEF Link, Sound, IInv, TypeOK
  <1>4. Usable' = {c \in Usable : c[Len(c)].exp > now'}
    BY <1>1, <1>2, <1>3 DEF Accepted
  <1> QED
    BY <1>1, <1>4 DEF Promise!Tick, Promise!Next

\* What is accepted depends on the rows, their flags and the clock only.
LEMMA RestIsStutter ==
  ASSUME UNCHANGED <<now, creds, revoked, answered>>
  PROVE  UNCHANGED Promise!vars
  BY DEF Promise!vars, Usable, ValidBranch

LEMMA InitAuthority == Init => Promise!Init
  BY DEF Init, Promise!Init, Usable

LEMMA StepAuthority == Sound /\ Sound' /\ [Next]_vars => [Promise!Next]_Promise!vars
  <1> SUFFICES ASSUME Sound, Sound', [Next]_vars PROVE Promise!Next \/ UNCHANGED Promise!vars
    OBVIOUS
  <1>1. ASSUME NEW j \in Jtis, NEW p \in Principals, NEW u \in Users,
               NEW caps \in SUBSET Caps, NEW ucaps \in SUBSET Caps, NEW ttl \in 1 .. MaxTTL,
               IssueToken(j, p, u, caps, ucaps, ttl)
        PROVE  Promise!Next
    BY <1>1, IssueIsIssue
  <1>2. CASE UpsertChild
    BY <1>2, UpsertIsDelegate
  <1>3. ASSUME NEW r \in Threads, UpdateTree(r) PROVE Promise!Next
    BY <1>3, UpdateIsRevoke
  <1>4. CASE Tick
    BY <1>4, TickIsTick
  <1>5. ASSUME NEW r \in Threads, ListTree(r) \/ \E j \in Jtis : RevokeToken(r, j)
        PROVE  UNCHANGED Promise!vars
    BY <1>5, RestIsStutter DEF ListTree, RevokeToken, storeVars
  <1>6. ASSUME NEW p \in creds, NEW s \in Agents, NEW tr \in Traces, NEW rq \in Requests,
               NEW caps \in SUBSET Caps, BeginBuild(p, s, caps, tr, rq)
        PROVE  UNCHANGED Promise!vars
    BY <1>6, RestIsStutter DEF BeginBuild, storeVars, revokeVars
  <1>7. CASE CleanupExpiredTokens \/ \E p \in Principals : BatchRevoke(p)
    BY <1>7, RestIsStutter DEF CleanupExpiredTokens, BatchRevoke, revokeVars
  <1>8. CASE UNCHANGED vars
    BY <1>8, RestIsStutter DEF vars, storeVars, revokeVars
  <1> QED
    BY <1>1, <1>2, <1>3, <1>4, <1>5, <1>6, <1>7, <1>8 DEF Next

\* Whatever threads, the event loop and the clock do between two transactions,
\* the credentials that are accepted come and go as Authority lets them: one is
\* added below an accepted one that it does not exceed, and a revocation takes
\* all that is below the token in one step, for ever.
THEOREM StoresImplementAuthority == Spec => ImplementsAuthority
  <1>1. Spec => []Sound
    BY InitSound, StepSound, PTL DEF Spec
  <1> QED
    BY <1>1, InitAuthority, StepAuthority, PTL DEF Spec, ImplementsAuthority, Promise!Spec

-----------------------------------------------------------------------------
(* The cascade.                                                            *)

\* revoke_credential_tree, which finds rows by their parent's id, finds every
\* row below the root that is there when it reads: no gap in a chain hides one.
THEOREM WalkFindsAll ==
  Spec => [](\A root \in creds : Tree(creds, root) = {c \in creds : Under(root, c)})
  <1>1. IInv => \A root \in creds : Tree(creds, root) = {c \in creds : Under(root, c)}
    <2> SUFFICES ASSUME IInv, NEW root \in creds, NEW c \in creds, NEW k \in Len(root) .. Len(c)
                 PROVE  Path(c, k) \in creds
      BY DEF Tree
    <2>1. k \in 1 .. Len(c)
      BY CredentialLen DEF IInv, TypeOK
    <2> QED
      BY <2>1 DEF IInv, ParentsStored
  <1> QED
    BY <1>1, Invariance, PTL
=============================================================================
