----------------------------- MODULE GatewayProofs -----------------------------
(***************************************************************************)
(* Proofs about Gateway, for any principals, traces, requests, tokens,     *)
(* threads and bounds.                                                     *)
(*                                                                         *)
(* The argument about revocation follows the traces: a credential that is  *)
(* marked revoked has its trace in `todo` or `cancelled` from the step     *)
(* that marks it (Revoking), and what is inserted later starts unmarked.   *)
(* The argument about authority follows the credential a handler relays:   *)
(* an empty list of user capabilities, which authorize reads as "those of  *)
(* the credential", is stored only with an empty list of capabilities.     *)
(* Last comes the refinement: from the end of the judge's await on one     *)
(* handler has the loop (HandlersFine) and every row is some request's     *)
(* child or some token's root (RowsFine), so that a step of the routes is  *)
(* a step of Delegation or none, and what DelegationProofs shows of        *)
(* Delegation holds behind the routes.                                     *)
(***************************************************************************)
EXTENDS Gateway, CredentialProofs, FiniteSetTheorems, FunctionTheorems

\* A token names a root; no credential has more than those before it; no user
\* capabilities, no capabilities.
CredsFine ==
  /\ \A j \in Jtis : token[j] # <<>> => Len(token[j]) = 1
  /\ \A c \in creds : \A k \in 1 .. Len(c) : CapsOf(c) \subseteq c[k].caps
  /\ \A c \in creds : c[Len(c)].ucaps = {} => CapsOf(c) = {}

\* What a request asks has been looked at as far as its handler is.
AskFine(r) ==
  /\ stage[r] \notin {"idle", "answered"} => ask[r].cred \in creds
  /\ stage[r] = "inserting" => ask[r].caps \subseteq CapsOf(ask[r].cred)
  /\ stage[r] \in {"building", "inserting"} /\ r \notin RootTasks =>
       ask[r].caps \subseteq CapsOf(ask[r].cred) \cap AgentCaps[ask[r].target] \cap UserCaps(ask[r])

\* The child credential of an agent's call; what r relays as the user's is kept.
InUserList(r, c) == ask[r].ucaps = UserList(c) => CapsOf(c) \subseteq UserList(c)

Confined(c) ==
  /\ CapsOf(c) \subseteq AgentCaps[Holder(c)]
  /\ \A k \in 1 .. Len(c) : CapsOf(c) \subseteq c[k].caps

ChildFine(r) ==
  /\ phase[r] # "absent" \/ stage[r] = "registering" => child[r] # <<>>
  /\ child[r] # <<>> => BoundTrace(child[r]) = TraceOf[r]
  /\ child[r] # <<>> /\ r \notin RootTasks => Confined(child[r]) /\ InUserList(r, child[r])
  /\ stage[r] = "idle" => child[r] = <<>>

\* The rows of a call that was cancelled.
CancelRows == {<<"allow", "deny">>, <<"allow", "deny", "deny">>}

\* A handler's stage, its call's phase, and what it has written and answered.
LogFine(r) ==
  LET agent == r \notin RootTasks
      before == IF agent THEN <<"allow">> ELSE <<>>
  IN /\ phase[r] = "active" <=> stage[r] = "forwarded"
     /\ stage[r] \in {"idle", "generating", "judging", "authorizing"} => log[r] = <<>>
     /\ stage[r] = "authorizing" => agent
     /\ stage[r] \in {"building", "inserting"} => log[r] = before
     /\ stage[r] \in {"registering", "forwarded"} => log[r] = <<"allow">>
     /\ stage[r] # "answered" <=> response[r] = "none"
     /\ response[r] = "ok" => log[r] = <<"allow">>
     /\ response[r] = "refused" => log[r] \in {<<"deny">>, <<"allow", "deny">>}
     /\ response[r] = "cancelled" => log[r] \in CancelRows
     /\ response[r] = "failed" /\ agent => log[r] = <<"allow", "deny">>

\* A trace that is or will be cancelled: a token revoked has delegated in it.
Justified(tr) == \E c \in creds : BoundTrace(c) = tr /\ Path(c, 1) \in revoked

RouteFine(t) ==
  /\ pc[t] # "idle" => job[t] # <<>> /\ Len(job[t]) = 1
  /\ pc[t] = "update" => job[t] \in snapshot[t] /\ \A c \in snapshot[t] : Path(c, 1) = job[t]
  /\ pc[t] = "cancel" => job[t] \in revoked
  /\ pc[t] # "cancel" => todo[t] = {}
  /\ \A tr \in todo[t] : Justified(tr)

ScopeFine ==
  /\ \A tr \in cancelled : Justified(tr)
  /\ \A r \in Requests : r \in doomed \/ result[r] = "cancelled" => TraceOf[r] \in cancelled

AnsweredFine == \A c \in answered : Len(c) = 1 /\ c \in revoked

Revoking ==
  \A r \in Requests : child[r] # <<>> /\ child[r] \in revoked
    => TraceOf[r] \in cancelled \/ \E t \in Threads : TraceOf[r] \in todo[t]

AsksFine     == \A r \in Requests : AskFine(r)
ChildrenFine == \A r \in Requests : ChildFine(r)
LogsFine     == \A r \in Requests : LogFine(r)
RoutesFine   == \A t \in Threads : RouteFine(t)

\* The inductive invariant.
IInv ==
  /\ TypeOK
  /\ CredsFine
  /\ AsksFine
  /\ ChildrenFine
  /\ LogsFine
  /\ RoutesFine
  /\ ScopeFine
  /\ AnsweredFine
  /\ Revoking

\* The parts of TypeOK.
StoreTypes ==
  /\ now \in 0 .. MaxTime
  /\ creds \in SUBSET Credential
  /\ revoked \in SUBSET creds
  /\ token \in [Jtis -> creds \cup {<<>>}]
  /\ tokenRevoked \in SUBSET Jtis
  /\ actorType \in [Jtis -> ActorTypes]

HandlerTypes ==
  /\ stage \in [Requests -> Stages]
  /\ ask \in [Requests -> Ask \cup {None}]
  /\ \A r \in Requests : stage[r] \notin {"idle", "answered"} => ask[r] \in Ask
  /\ child \in [Requests -> creds \cup {<<>>}]
  /\ log \in [Requests -> Seq({"allow", "deny"})]
  /\ response \in [Requests -> Responses]
  /\ loop \in Requests \cup {None}

ScopeTypes ==
  /\ cancelled \in SUBSET Traces
  /\ doomed \in SUBSET Requests
  /\ phase \in [Requests -> {"absent", "active", "ended"}]
  /\ result \in [Requests -> {"none", "completed", "failed", "cancelled"}]

RouteTypes ==
  /\ pc \in [Threads -> {"idle", "list", "update", "cancel"}]
  /\ job \in [Threads -> creds \cup {<<>>}]
  /\ snapshot \in [Threads -> SUBSET creds]
  /\ answered \in SUBSET creds
  /\ todo \in [Threads -> SUBSET Traces]

LEMMA Types ==
  TypeOK <=> StoreTypes /\ HandlerTypes /\ ScopeTypes /\ RouteTypes
  BY DEF TypeOK, StoreTypes, HandlerTypes, ScopeTypes, RouteTypes

-----------------------------------------------------------------------------
(* Credentials that handlers make.                                         *)

\* create_token's root.
RootOf(j, q, ttl) ==
  <<RootLink(q.agent, q.user, q.caps, IF q.ucaps = {} THEN q.caps ELSE q.ucaps, now, ttl, j)>>

LEMMA RootMade ==
  ASSUME TypeOK, NEW j \in Jtis, NEW q \in TokenAsks, NEW ttl \in 1 .. MaxTTL, NEW c, c = RootOf(j, q,
     ttl)
  PROVE /\ c \in Credential /\ Len(c) = 1 /\ BoundTrace(c) = None
        /\ \A k \in 1 .. Len(c) : CapsOf(c) \subseteq c[k].caps
        /\ c[Len(c)].ucaps = {} => CapsOf(c) = {}
  <1> DEFINE ucaps == IF q.ucaps = {} THEN q.caps ELSE q.ucaps
             l == RootLink(q.agent, q.user, q.caps, ucaps, now, ttl, j)
  <1>1. l \in Link /\ l.trace = None /\ l.caps = q.caps /\ l.ucaps = ucaps
    <2>1. q \in [agent : Principals, actor : ActorTypes, user : Users, caps : SUBSET Caps,
                 ucaps : SUBSET Caps]
      BY AsksAssumption
    <2>2. now \in Nat /\ now + ttl \in Nat
      BY BoundsAssumption DEF TypeOK
    <2> QED
      BY <2>1, <2>2 DEF RootLink, Link
  <1>2. ucaps = {} => q.caps = {}
    OBVIOUS
  <1>3. c = <<l>>
    BY DEF RootOf
  <1> HIDE DEF l, ucaps
  <1>4. c \in Credential /\ Len(c) = 1 /\ c[1] = l
    BY <1>1, <1>3, RootFacts
  <1> QED
    BY <1>1, <1>2, <1>4 DEF CapsOf, BoundTrace

LEMMA AskedTypes ==
  ASSUME NEW q \in CallAsks
  PROVE q.target \in Agents /\ q.caps \in SUBSET Caps /\ q.ucaps \in SUBSET Caps
  BY AsksAssumption

LEMMA UserListType ==
  ASSUME NEW c \in Credential
  PROVE UserList(c) = c[Len(c)].ucaps /\ UserList(c) \in SUBSET Caps
  <1>1. c # <<>> /\ c[Len(c)] \in Link
    BY CredentialLen DEF Credential
  <1> QED
    BY <1>1 DEF UserList, Link

\* build_child_auth_context's credential.
ChildOf(r) == Append(ask[r].cred, ChildLink(ask[r].cred, ask[r].target, ask[r].caps, TraceOf[r], r, now))

LEMMA ChildMade ==
  ASSUME TypeOK, CredsFine, NEW r \in Requests, AskFine(r), stage[r] = "inserting", NEW c, c = ChildOf(r)
  PROVE /\ c \in Credential /\ Len(c) # 1 /\ c # <<>>
        /\ BoundTrace(c) = TraceOf[r] /\ Path(c, 1) = Path(ask[r].cred, 1)
        /\ \A k \in 1 .. Len(c) : CapsOf(c) \subseteq c[k].caps
        /\ c[Len(c)].ucaps = {} => CapsOf(c) = {}
        /\ r \notin RootTasks => Confined(c) /\ InUserList(r, c)
  <1> DEFINE p == ask[r].cred
             n == Len(p)
             l == ChildLink(p, ask[r].target, ask[r].caps, TraceOf[r], r, now)
  <1>1. /\ ask[r] \in Ask /\ p \in creds /\ p \in Credential /\ ask[r].caps \subseteq CapsOf(p)
        /\ ask[r].target \in Agents /\ ask[r].caps \in SUBSET Caps
    BY DEF AskFine, TypeOK, Ask
  <1>2. n \in Nat \ {0} /\ \A i \in 1 .. n : p[i] \in Link
    BY <1>1, CredentialLen
  <1>3. /\ l.subject = ask[r].target /\ l.caps = ask[r].caps /\ l.ucaps = p[n].ucaps /\ l.trace = TraceOf[r]
    BY DEF ChildLink
  <1>4. l \in Link
    <2>1. p[n] \in Link /\ now \in Nat /\ TraceOf[r] \in Traces
      BY <1>2, RequestsAssumption, BoundsAssumption DEF TypeOK
    <2> QED
      BY <1>1, <2>1 DEF ChildLink, Holder, Link, Principals
  <1>5. c = Append(p, l)
    BY DEF ChildOf
  <1>6. /\ c \in Credential /\ Len(c) = n + 1
        /\ \A i \in 1 .. n : c[i] = p[i]
        /\ c[n + 1] = l
        /\ \A k \in 1 .. n : Path(c, k) = Path(p, k)
    <2> HIDE DEF l, p
    <2> QED
      BY <1>1, <1>4, <1>5, ChildFacts
  <1>7. r \notin RootTasks => ask[r].caps \subseteq AgentCaps[ask[r].target] \cap UserCaps(ask[r])
    BY DEF AskFine
  <1>8. p[n].ucaps = {} => CapsOf(p) = {}
    BY <1>1 DEF CredsFine
  <1>9. \A k \in 1 .. n : CapsOf(p) \subseteq p[k].caps
    BY <1>1 DEF CredsFine
  <1>10. UserCaps(ask[r]) = IF ask[r].ucaps = {} THEN CapsOf(p) ELSE ask[r].ucaps
    BY DEF UserCaps
  <1> HIDE DEF p, n, l
  <1>11. /\ CapsOf(c) = ask[r].caps /\ Holder(c) = ask[r].target /\ BoundTrace(c) = TraceOf[r]
         /\ c[Len(c)].ucaps = p[n].ucaps
    BY <1>3, <1>6 DEF CapsOf, Holder, BoundTrace
  <1>12. \A k \in 1 .. Len(c) : CapsOf(c) \subseteq c[k].caps
    <2> SUFFICES ASSUME NEW k \in 1 .. Len(c) PROVE CapsOf(c) \subseteq c[k].caps
      OBVIOUS
    <2>1. CASE k \in 1 .. n
      BY <1>1, <1>6, <1>9, <1>11, <2>1
    <2>2. CASE k = n + 1
      BY <1>3, <1>6, <1>11, <2>2
    <2> QED
      BY <1>2, <1>6, <2>1, <2>2
  <1>13. Path(c, 1) = Path(p, 1) /\ Len(c) # 1 /\ c # <<>>
    BY <1>2, <1>6 DEF Credential
  <1>14. r \notin RootTasks => Confined(c) /\ InUserList(r, c)
    BY <1>1, <1>6, <1>7, <1>8, <1>10, <1>11, <1>12, UserListType DEF Confined, InUserList
  <1> QED
    BY <1>1, <1>6, <1>8, <1>11, <1>12, <1>13, <1>14 DEF p

-----------------------------------------------------------------------------
(* Types.                                                                  *)

\* A handler ends.
LEMMA Answered ==
  ASSUME HandlerTypes, NEW r \in Requests, NEW res \in Responses, NEW rows \in Seq({"allow", "deny"}),
         Answer(r, res, rows)
  PROVE /\ stage' \in [Requests -> Stages] /\ stage' = [stage EXCEPT ![r] = "answered"]
        /\ response' \in [Requests -> Responses] /\ response' = [response EXCEPT ![r] = res]
        /\ log' \in [Requests -> Seq({"allow", "deny"})] /\ log' = [log EXCEPT ![r] = log[r] \o rows]
        /\ loop' = None
  <1> DEFINE S == Seq({"allow", "deny"})
  <1>1. log[r] \in S
    BY DEF HandlerTypes
  <1>2. log[r] \o rows \in S
    BY <1>1, ConcatProperties
  <1> HIDE DEF S
  <1>3. log' = [log EXCEPT ![r] = log[r] \o rows]
    BY DEF Answer
  <1>4. log' \in [Requests -> S]
    BY <1>2, <1>3 DEF HandlerTypes, S
  <1>5. stage' \in [Requests -> Stages] /\ response' \in [Requests -> Responses]
    BY DEF Answer, HandlerTypes, Stages
  <1> QED
    BY <1>3, <1>4, <1>5 DEF Answer, S

\* What a handler may write when it ends.
LEMMA RowTypes ==
  /\ <<>> \in Seq({"allow", "deny"}) /\ <<"deny">> \in Seq({"allow", "deny"})
  /\ <<"deny", "deny">> \in Seq({"allow", "deny"})
  OBVIOUS

LEMMA Proceeded ==
  ASSUME HandlerTypes, NEW r \in Requests, NEW s \in Stages, NEW l \in Requests \cup {None}, Proceed(r,
     s, l)
  PROVE /\ stage' \in [Requests -> Stages] /\ stage' = [stage EXCEPT ![r] = s]
        /\ response' = response /\ loop' \in Requests \cup {None}
  BY DEF Proceed, HandlerTypes

LEMMA Refused ==
  ASSUME HandlerTypes, NEW r \in Requests, Refuse(r) \/ Crash(r)
  PROVE \E res \in {"refused", "crashed"}, rows \in Seq({"allow", "deny"}) : Answer(r, res, rows)
  BY RowTypes DEF Refuse, Crash

LEMMA StoreStep ==
  ASSUME TypeOK, CredsFine, AsksFine, [Next]_vars
  PROVE StoreTypes'
  <1>1. ASSUME NEW j \in Jtis, NEW q \in TokenAsks, NEW ttl \in 1 .. MaxTTL, CreateToken(j, q, ttl)
        PROVE StoreTypes'
    <2>1. RootOf(j, q, ttl) \in Credential
      BY RootMade
    <2>2. /\ creds' = creds \cup {RootOf(j, q, ttl)} /\ token' = [token EXCEPT ![j] = RootOf(j, q, ttl)]
          /\ UNCHANGED <<now, revoked, tokenRevoked, handlerVars, scopeVars, revokeVars>>
          /\ actorType' = [actorType EXCEPT ![j] = q.actor]
      BY <1>1 DEF CreateToken, RootOf
    <2>3. q.actor \in ActorTypes
      BY AsksAssumption
    <2> QED
      BY <2>1, <2>2, <2>3, Types DEF StoreTypes
  <1>2. ASSUME Tick PROVE StoreTypes'
    BY <1>2, BoundsAssumption, Types DEF Tick, storeVars, handlerVars, scopeVars, revokeVars, StoreTypes
  <1>3. ASSUME NEW r \in Requests, NEW j \in Jtis, NEW q \in CallAsks, RootTask(r, j, q)
        PROVE StoreTypes'
    BY <1>3, Types DEF RootTask, Proceed, Refuse, Answer, storeVars, handlerVars, scopeVars, revokeVars,
       StoreTypes
  <1>4. ASSUME NEW r \in Requests, NEW j \in Jtis, NEW q \in CallAsks,
            NEW relayed \in creds \cup {<<>>}, AgentTask(r, j, relayed, q)
        PROVE StoreTypes'
    BY <1>4, Types DEF AgentTask, Proceed, Refuse, Answer, storeVars, handlerVars, scopeVars, revokeVars,
       StoreTypes
  <1>5. ASSUME NEW r \in Requests, IntentReady(r) PROVE StoreTypes'
    BY <1>5, Types DEF IntentReady, Proceed, Refuse, Crash, Answer, storeVars, handlerVars, scopeVars,
       revokeVars, StoreTypes
  <1>6. ASSUME NEW r \in Requests, IntentJudged(r) PROVE StoreTypes'
    BY <1>6, Types DEF IntentJudged, Proceed, Refuse, Crash, Answer, storeVars, handlerVars, scopeVars,
       revokeVars, StoreTypes
  <1>7. ASSUME NEW r \in Requests, Authorize(r) PROVE StoreTypes'
    BY <1>7, Types DEF Authorize, Proceed, Refuse, Answer, storeVars, handlerVars, scopeVars, revokeVars,
       StoreTypes
  <1>8. ASSUME NEW r \in Requests, Build(r) PROVE StoreTypes'
    BY <1>8, Types DEF Build, Proceed, Refuse, Answer, storeVars, handlerVars, scopeVars, revokeVars,
       StoreTypes
  <1>9. ASSUME NEW r \in Requests, Insert(r) PROVE StoreTypes'
    <2>1. ChildOf(r) \in Credential
      BY <1>9, ChildMade DEF Insert, AsksFine
    <2>2. /\ creds' = creds \cup {ChildOf(r)} /\ revoked' = revoked \ {ChildOf(r)}
          /\ child' = [child EXCEPT ![r] = ChildOf(r)]
          /\ Proceed(r, "registering", r)
          /\ log' = IF r \in RootTasks THEN [log EXCEPT ![r] = Append(log[r], "allow")] ELSE log
          /\ UNCHANGED <<now, token, tokenRevoked, actorType, ask, scopeVars, revokeVars>>
      BY <1>9 DEF Insert, ChildOf
    <2> QED
      BY <2>1, <2>2, Types DEF StoreTypes
  <1>10. ASSUME NEW r \in Requests, Register(r) PROVE StoreTypes'
    BY <1>10, Types DEF Register, Proceed, Scope!Begin, storeVars, handlerVars, scopeVars, revokeVars,
       StoreTypes
  <1>11. ASSUME NEW r \in Requests, CallReturned(r) PROVE StoreTypes'
    BY <1>11, Types DEF CallReturned, Answer, Scope!End, storeVars, handlerVars, scopeVars, revokeVars,
       StoreTypes
  <1>12. ASSUME NEW r \in Requests, CallFailed(r) PROVE StoreTypes'
    BY <1>12, Types DEF CallFailed, Answer, Scope!End, storeVars, handlerVars, scopeVars, revokeVars,
       StoreTypes
  <1>13. ASSUME NEW r \in Requests, CallBroken(r) PROVE StoreTypes'
    BY <1>13, Types DEF CallBroken, Crash, Answer, Scope!End, storeVars, handlerVars, scopeVars,
       revokeVars, StoreTypes
  <1>14. ASSUME NEW r \in Requests, CallCancelled(r) PROVE StoreTypes'
    BY <1>14, Types DEF CallCancelled, Answer, Scope!End, storeVars, handlerVars, scopeVars, revokeVars,
       StoreTypes
  <1>15. ASSUME NEW r \in Requests, CancelArrives(r) PROVE StoreTypes'
    BY <1>15, Types DEF CancelArrives, Scope!Doom, storeVars, handlerVars, scopeVars, revokeVars,
       StoreTypes
  <1>16. ASSUME NEW t \in Threads, NEW j \in Jtis, RevokeToken(t, j) PROVE StoreTypes'
    BY <1>16, Types DEF RevokeToken, storeVars, handlerVars, scopeVars, revokeVars, StoreTypes
  <1>17. ASSUME NEW t \in Threads, ListTree(t) PROVE StoreTypes'
    BY <1>17, Types DEF ListTree, storeVars, handlerVars, scopeVars, revokeVars, StoreTypes
  <1>18. ASSUME NEW t \in Threads, UpdateTree(t) PROVE StoreTypes'
    BY <1>18, Types DEF UpdateTree, storeVars, handlerVars, scopeVars, revokeVars, StoreTypes, RouteTypes
  <1>19. ASSUME NEW t \in Threads, RevokeAnswers(t) PROVE StoreTypes'
    BY <1>19, Types DEF RevokeAnswers, storeVars, handlerVars, scopeVars, revokeVars, StoreTypes
  <1>20. ASSUME NEW t \in Threads, NEW tr \in Traces, CancelTrace(t, tr) PROVE StoreTypes'
    BY <1>20, Types DEF CancelTrace, Scope!Cancel, storeVars, handlerVars, scopeVars, revokeVars,
       StoreTypes
  <1>21. CASE UNCHANGED vars
    BY <1>21, Types DEF vars, storeVars, handlerVars, scopeVars, revokeVars, StoreTypes
  <1> QED
    BY <1>1, <1>2, <1>3, <1>4, <1>5, <1>6, <1>7, <1>8, <1>9, <1>10, <1>11, <1>12, <1>13, <1>14, <1>15,
       <1>16, <1>17, <1>18, <1>19, <1>20, <1>21 DEF Next

Logged(r) == log' = log \/ log' = [log EXCEPT ![r] = Append(log[r], "allow")]

LEMMA RowAdded ==
  ASSUME HandlerTypes, NEW r \in Requests
  PROVE [log EXCEPT ![r] = Append(log[r], "allow")] \in [Requests -> Seq({"allow", "deny"})]
  <1>1. Append(log[r], "allow") \in Seq({"allow", "deny"})
    BY AppendProperties DEF HandlerTypes
  <1> QED
    BY <1>1 DEF HandlerTypes

LEMMA HandlerStep ==
  ASSUME TypeOK, CredsFine, AsksFine, ChildrenFine, [Next]_vars
  PROVE HandlerTypes'
  <1>1. ASSUME NEW j \in Jtis, NEW q \in TokenAsks, NEW ttl \in 1 .. MaxTTL, CreateToken(j, q, ttl)
        PROVE HandlerTypes'
    BY <1>1, Types, Types DEF CreateToken, storeVars, handlerVars, scopeVars, revokeVars, HandlerTypes,
       Stages, HandlerTypes
  <1>2. ASSUME Tick PROVE HandlerTypes'
    BY <1>2, Types DEF Tick, storeVars, handlerVars, scopeVars, revokeVars, HandlerTypes, Stages
  <1>3. ASSUME NEW r \in Requests, NEW j \in Jtis, NEW q \in CallAsks, RootTask(r, j, q)
        PROVE HandlerTypes'
    <2> DEFINE trusted == token[j]
               k == [cred |-> trusted, ucaps |-> UserList(token[j]),
                     target |-> q.target, caps |-> q.caps]
    <2> USE Types
    <2>1. /\ UNCHANGED <<creds, child>> /\ stage[r] = "idle"
          /\ \/ /\ Proceed(r, "generating", None) /\ log' = log /\ trusted # <<>> /\ token[j] # <<>>
                /\ ask' = [ask EXCEPT ![r] = k]
             \/ Refuse(r) /\ ask' = ask
      BY <1>3 DEF RootTask, Verified, storeVars
    <2>2. trusted # <<>> /\ token[j] # <<>> => trusted \in Credential /\ token[j] \in Credential
      BY DEF StoreTypes
    <2>3. trusted # <<>> /\ token[j] # <<>> => k \in Ask
      BY <2>2, AskedTypes, UserListType DEF Ask
    <2> HIDE DEF trusted, k
    <2>4. CASE Refuse(r) /\ ask' = ask
      <3>1. PICK res \in {"refused", "crashed"}, rows \in Seq({"allow", "deny"}) : Answer(r, res, rows)
        BY <2>4, Refused
      <3>2. res \in Responses
        BY DEF Responses
      <3>3. /\ stage' \in [Requests -> Stages] /\ stage' = [stage EXCEPT ![r] = "answered"]
            /\ response' \in [Requests -> Responses]
            /\ log' \in [Requests -> Seq({"allow", "deny"})] /\ loop' = None
        BY <3>1, <3>2, Answered
      <3> QED
        BY <2>1, <2>4, <3>3 DEF HandlerTypes
    <2>5. CASE ~(Refuse(r) /\ ask' = ask)
      <3>1. /\ Proceed(r, "generating", None) /\ log' = log /\ UNCHANGED <<creds, child>>
            /\ k \in Ask /\ ask' = [ask EXCEPT ![r] = k]
        BY <2>1, <2>3, <2>5
      <3> QED
        BY <3>1 DEF HandlerTypes, Proceed, Stages
    <2> QED
      BY <2>4, <2>5
  <1>4. ASSUME NEW r \in Requests, NEW j \in Jtis, NEW q \in CallAsks,
            NEW relayed \in creds \cup {<<>>}, AgentTask(r, j, relayed, q)
        PROVE HandlerTypes'
    <2> DEFINE trusted == IF relayed = <<>> THEN token[j] ELSE relayed
               k == [cred |-> trusted, ucaps |-> IF relayed = <<>> THEN UserList(token[j]) ELSE q.ucaps,
                     target |-> q.target, caps |-> q.caps]
    <2> USE Types
    <2>1. /\ UNCHANGED <<creds, child>> /\ stage[r] = "idle"
          /\ \/ /\ Proceed(r, "generating", None) /\ log' = log /\ trusted # <<>> /\ token[j] # <<>>
                /\ ask' = [ask EXCEPT ![r] = k]
             \/ Refuse(r) /\ ask' = ask
      BY <1>4 DEF AgentTask, Verified, storeVars
    <2>2. trusted # <<>> /\ token[j] # <<>> => trusted \in Credential /\ token[j] \in Credential
      BY DEF StoreTypes
    <2>3. trusted # <<>> /\ token[j] # <<>> => k \in Ask
      BY <2>2, AskedTypes, UserListType DEF Ask
    <2> HIDE DEF trusted, k
    <2>4. CASE Refuse(r) /\ ask' = ask
      <3>1. PICK res \in {"refused", "crashed"}, rows \in Seq({"allow", "deny"}) : Answer(r, res, rows)
        BY <2>4, Refused
      <3>2. res \in Responses
        BY DEF Responses
      <3>3. /\ stage' \in [Requests -> Stages] /\ stage' = [stage EXCEPT ![r] = "answered"]
            /\ response' \in [Requests -> Responses]
            /\ log' \in [Requests -> Seq({"allow", "deny"})] /\ loop' = None
        BY <3>1, <3>2, Answered
      <3> QED
        BY <2>1, <2>4, <3>3 DEF HandlerTypes
    <2>5. CASE ~(Refuse(r) /\ ask' = ask)
      <3>1. /\ Proceed(r, "generating", None) /\ log' = log /\ UNCHANGED <<creds, child>>
            /\ k \in Ask /\ ask' = [ask EXCEPT ![r] = k]
        BY <2>1, <2>3, <2>5
      <3> QED
        BY <3>1 DEF HandlerTypes, Proceed, Stages
    <2> QED
      BY <2>4, <2>5
  <1>5. ASSUME NEW r \in Requests, IntentReady(r) PROVE HandlerTypes'
    <2> USE Types
    <2>1. /\ UNCHANGED <<creds, child, ask>> /\ stage[r] \notin {"idle", "answered"}
          /\ \/ \E s \in Stages, l \in Requests \cup {None} : Proceed(r, s, l) /\ Logged(r)
             \/ Refuse(r) \/ Crash(r)
      BY <1>5 DEF IntentReady, storeVars, Stages, Logged
    <2>2. ASSUME NEW s \in Stages, NEW l \in Requests \cup {None}, Proceed(r, s, l), Logged(r)
          PROVE HandlerTypes'
      <3>1. log' \in [Requests -> Seq({"allow", "deny"})]
        BY <2>2, RowAdded DEF HandlerTypes, Logged
      <3>2. /\ stage' \in [Requests -> Stages] /\ stage' = [stage EXCEPT ![r] = s]
            /\ response' = response /\ loop' \in Requests \cup {None}
        BY <2>2, Proceeded
      <3> QED
        BY <2>1, <3>1, <3>2 DEF HandlerTypes
    <2>3. CASE Refuse(r) \/ Crash(r)
      <3>1. PICK res \in {"refused", "crashed"}, rows \in Seq({"allow", "deny"}) : Answer(r, res, rows)
        BY <2>3, Refused
      <3>2. res \in Responses
        BY DEF Responses
      <3>3. /\ stage' \in [Requests -> Stages] /\ stage' = [stage EXCEPT ![r] = "answered"]
            /\ response' \in [Requests -> Responses]
            /\ log' \in [Requests -> Seq({"allow", "deny"})] /\ loop' = None
        BY <3>1, <3>2, Answered
      <3> QED
        BY <2>1, <3>3 DEF HandlerTypes
    <2> QED
      BY <2>1, <2>2, <2>3
  <1>6. ASSUME NEW r \in Requests, IntentJudged(r) PROVE HandlerTypes'
    <2> USE Types
    <2>1. /\ UNCHANGED <<creds, child, ask>> /\ stage[r] \notin {"idle", "answered"}
          /\ \/ \E s \in Stages, l \in Requests \cup {None} : Proceed(r, s, l) /\ Logged(r)
             \/ Refuse(r) \/ Crash(r)
      BY <1>6 DEF IntentJudged, storeVars, Stages, Logged
    <2>2. ASSUME NEW s \in Stages, NEW l \in Requests \cup {None}, Proceed(r, s, l), Logged(r)
          PROVE HandlerTypes'
      <3>1. log' \in [Requests -> Seq({"allow", "deny"})]
        BY <2>2, RowAdded DEF HandlerTypes, Logged
      <3>2. /\ stage' \in [Requests -> Stages] /\ stage' = [stage EXCEPT ![r] = s]
            /\ response' = response /\ loop' \in Requests \cup {None}
        BY <2>2, Proceeded
      <3> QED
        BY <2>1, <3>1, <3>2 DEF HandlerTypes
    <2>3. CASE Refuse(r) \/ Crash(r)
      <3>1. PICK res \in {"refused", "crashed"}, rows \in Seq({"allow", "deny"}) : Answer(r, res, rows)
        BY <2>3, Refused
      <3>2. res \in Responses
        BY DEF Responses
      <3>3. /\ stage' \in [Requests -> Stages] /\ stage' = [stage EXCEPT ![r] = "answered"]
            /\ response' \in [Requests -> Responses]
            /\ log' \in [Requests -> Seq({"allow", "deny"})] /\ loop' = None
        BY <3>1, <3>2, Answered
      <3> QED
        BY <2>1, <3>3 DEF HandlerTypes
    <2> QED
      BY <2>1, <2>2, <2>3
  <1>7. ASSUME NEW r \in Requests, Authorize(r) PROVE HandlerTypes'
    <2> USE Types
    <2>1. /\ UNCHANGED <<creds, child, ask>> /\ stage[r] \notin {"idle", "answered"}
          /\ \/ \E s \in Stages, l \in Requests \cup {None} : Proceed(r, s, l) /\ Logged(r)
             \/ Refuse(r) \/ Crash(r)
      BY <1>7 DEF Authorize, storeVars, Stages, Logged
    <2>2. ASSUME NEW s \in Stages, NEW l \in Requests \cup {None}, Proceed(r, s, l), Logged(r)
          PROVE HandlerTypes'
      <3>1. log' \in [Requests -> Seq({"allow", "deny"})]
        BY <2>2, RowAdded DEF HandlerTypes, Logged
      <3>2. /\ stage' \in [Requests -> Stages] /\ stage' = [stage EXCEPT ![r] = s]
            /\ response' = response /\ loop' \in Requests \cup {None}
        BY <2>2, Proceeded
      <3> QED
        BY <2>1, <3>1, <3>2 DEF HandlerTypes
    <2>3. CASE Refuse(r) \/ Crash(r)
      <3>1. PICK res \in {"refused", "crashed"}, rows \in Seq({"allow", "deny"}) : Answer(r, res, rows)
        BY <2>3, Refused
      <3>2. res \in Responses
        BY DEF Responses
      <3>3. /\ stage' \in [Requests -> Stages] /\ stage' = [stage EXCEPT ![r] = "answered"]
            /\ response' \in [Requests -> Responses]
            /\ log' \in [Requests -> Seq({"allow", "deny"})] /\ loop' = None
        BY <3>1, <3>2, Answered
      <3> QED
        BY <2>1, <3>3 DEF HandlerTypes
    <2> QED
      BY <2>1, <2>2, <2>3
  <1>8. ASSUME NEW r \in Requests, Build(r) PROVE HandlerTypes'
    <2> USE Types
    <2>1. /\ UNCHANGED <<creds, child, ask>> /\ stage[r] \notin {"idle", "answered"}
          /\ \/ \E s \in Stages, l \in Requests \cup {None} : Proceed(r, s, l) /\ Logged(r)
             \/ Refuse(r) \/ Crash(r)
      BY <1>8 DEF Build, storeVars, Stages, Logged
    <2>2. ASSUME NEW s \in Stages, NEW l \in Requests \cup {None}, Proceed(r, s, l), Logged(r)
          PROVE HandlerTypes'
      <3>1. log' \in [Requests -> Seq({"allow", "deny"})]
        BY <2>2, RowAdded DEF HandlerTypes, Logged
      <3>2. /\ stage' \in [Requests -> Stages] /\ stage' = [stage EXCEPT ![r] = s]
            /\ response' = response /\ loop' \in Requests \cup {None}
        BY <2>2, Proceeded
      <3> QED
        BY <2>1, <3>1, <3>2 DEF HandlerTypes
    <2>3. CASE Refuse(r) \/ Crash(r)
      <3>1. PICK res \in {"refused", "crashed"}, rows \in Seq({"allow", "deny"}) : Answer(r, res, rows)
        BY <2>3, Refused
      <3>2. res \in Responses
        BY DEF Responses
      <3>3. /\ stage' \in [Requests -> Stages] /\ stage' = [stage EXCEPT ![r] = "answered"]
            /\ response' \in [Requests -> Responses]
            /\ log' \in [Requests -> Seq({"allow", "deny"})] /\ loop' = None
        BY <3>1, <3>2, Answered
      <3> QED
        BY <2>1, <3>3 DEF HandlerTypes
    <2> QED
      BY <2>1, <2>2, <2>3
  <1>9. ASSUME NEW r \in Requests, Insert(r) PROVE HandlerTypes'
    <2>1. ChildOf(r) \in Credential
      BY <1>9, ChildMade DEF Insert, AsksFine
    <2>2. /\ creds' = creds \cup {ChildOf(r)} /\ revoked' = revoked \ {ChildOf(r)}
          /\ child' = [child EXCEPT ![r] = ChildOf(r)]
          /\ Proceed(r, "registering", r)
          /\ log' = IF r \in RootTasks THEN [log EXCEPT ![r] = Append(log[r], "allow")] ELSE log
          /\ UNCHANGED <<now, token, tokenRevoked, actorType, ask, scopeVars, revokeVars>>
      BY <1>9 DEF Insert, ChildOf
    <2>3. log' \in [Requests -> Seq({"allow", "deny"})] /\ stage[r] = "inserting"
      BY <1>9, <2>2, RowAdded, Types DEF HandlerTypes, Insert
    <2> QED
      BY <2>1, <2>2, <2>3, Types DEF HandlerTypes, Proceed, Stages
  <1>10. ASSUME NEW r \in Requests, Register(r) PROVE HandlerTypes'
    BY <1>10, Types DEF Register, Proceed, Scope!Begin, storeVars, handlerVars, scopeVars, revokeVars,
       HandlerTypes, Stages, HandlerTypes
  <1>11. ASSUME NEW r \in Requests, CallReturned(r) PROVE HandlerTypes'
    <2> USE Types
    <2>1. /\ UNCHANGED <<creds, child, ask>>
          /\ \E rows \in Seq({"allow", "deny"}) : Answer(r, "ok", rows)
      <3>1. UNCHANGED <<creds, child, ask>>
        BY <1>11 DEF CallReturned, storeVars
      <3>2. \E rows \in {<<>>, <<"deny">>, <<"deny", "deny">>} : Answer(r, "ok", rows)
        BY <1>11 DEF CallReturned
      <3> QED
        BY <3>1, <3>2, RowTypes, Zenon
    <2>2. PICK rows \in Seq({"allow", "deny"}) : Answer(r, "ok", rows)
      BY <2>1
    <2>3. /\ stage' \in [Requests -> Stages] /\ response' \in [Requests -> Responses]
          /\ log' \in [Requests -> Seq({"allow", "deny"})] /\ loop' = None
          /\ stage' = [stage EXCEPT ![r] = "answered"]
      BY <2>2, Answered DEF Responses
    <2>4. \A q \in Requests : stage'[q] \notin {"idle", "answered"} => ask'[q] \in Ask
      BY <2>1, <2>3 DEF HandlerTypes
    <2> QED
      BY <2>1, <2>3, <2>4 DEF HandlerTypes
  <1>12. ASSUME NEW r \in Requests, CallFailed(r) PROVE HandlerTypes'
    <2> USE Types
    <2>1. /\ UNCHANGED <<creds, child, ask>>
          /\ \E rows \in Seq({"allow", "deny"}) : Answer(r, "failed", rows)
      <3>1. UNCHANGED <<creds, child, ask>>
        BY <1>12 DEF CallFailed, storeVars
      <3>2. \E rows \in {<<>>, <<"deny">>, <<"deny", "deny">>} : Answer(r, "failed", rows)
        BY <1>12 DEF CallFailed
      <3> QED
        BY <3>1, <3>2, RowTypes, Zenon
    <2>2. PICK rows \in Seq({"allow", "deny"}) : Answer(r, "failed", rows)
      BY <2>1
    <2>3. /\ stage' \in [Requests -> Stages] /\ response' \in [Requests -> Responses]
          /\ log' \in [Requests -> Seq({"allow", "deny"})] /\ loop' = None
          /\ stage' = [stage EXCEPT ![r] = "answered"]
      BY <2>2, Answered DEF Responses
    <2>4. \A q \in Requests : stage'[q] \notin {"idle", "answered"} => ask'[q] \in Ask
      BY <2>1, <2>3 DEF HandlerTypes
    <2> QED
      BY <2>1, <2>3, <2>4 DEF HandlerTypes
  <1>13. ASSUME NEW r \in Requests, CallBroken(r) PROVE HandlerTypes'
    <2> USE Types
    <2>1. /\ UNCHANGED <<creds, child, ask>>
          /\ \E rows \in Seq({"allow", "deny"}) : Answer(r, "crashed", rows)
      <3>1. UNCHANGED <<creds, child, ask>>
        BY <1>13 DEF CallBroken, storeVars
      <3>2. \E rows \in {<<>>, <<"deny">>, <<"deny", "deny">>} : Answer(r, "crashed", rows)
        BY <1>13 DEF CallBroken, Crash
      <3> QED
        BY <3>1, <3>2, RowTypes, Zenon
    <2>2. PICK rows \in Seq({"allow", "deny"}) : Answer(r, "crashed", rows)
      BY <2>1
    <2>3. /\ stage' \in [Requests -> Stages] /\ response' \in [Requests -> Responses]
          /\ log' \in [Requests -> Seq({"allow", "deny"})] /\ loop' = None
          /\ stage' = [stage EXCEPT ![r] = "answered"]
      BY <2>2, Answered DEF Responses
    <2>4. \A q \in Requests : stage'[q] \notin {"idle", "answered"} => ask'[q] \in Ask
      BY <2>1, <2>3 DEF HandlerTypes
    <2> QED
      BY <2>1, <2>3, <2>4 DEF HandlerTypes
  <1>14. ASSUME NEW r \in Requests, CallCancelled(r) PROVE HandlerTypes'
    <2> USE Types
    <2>1. /\ UNCHANGED <<creds, child, ask>>
          /\ \E rows \in Seq({"allow", "deny"}) : Answer(r, "cancelled", rows)
      <3>1. UNCHANGED <<creds, child, ask>>
        BY <1>14 DEF CallCancelled, storeVars
      <3>2. \E rows \in {<<>>, <<"deny">>, <<"deny", "deny">>} : Answer(r, "cancelled", rows)
        BY <1>14 DEF CallCancelled
      <3> QED
        BY <3>1, <3>2, RowTypes, Zenon
    <2>2. PICK rows \in Seq({"allow", "deny"}) : Answer(r, "cancelled", rows)
      BY <2>1
    <2>3. /\ stage' \in [Requests -> Stages] /\ response' \in [Requests -> Responses]
          /\ log' \in [Requests -> Seq({"allow", "deny"})] /\ loop' = None
          /\ stage' = [stage EXCEPT ![r] = "answered"]
      BY <2>2, Answered DEF Responses
    <2>4. \A q \in Requests : stage'[q] \notin {"idle", "answered"} => ask'[q] \in Ask
      BY <2>1, <2>3 DEF HandlerTypes
    <2> QED
      BY <2>1, <2>3, <2>4 DEF HandlerTypes
  <1>15. ASSUME NEW r \in Requests, CancelArrives(r) PROVE HandlerTypes'
    BY <1>15, Types DEF CancelArrives, Scope!Doom, storeVars, handlerVars, scopeVars, revokeVars,
       HandlerTypes, Stages
  <1>16. ASSUME NEW t \in Threads, NEW j \in Jtis, RevokeToken(t, j) PROVE HandlerTypes'
    BY <1>16, Types DEF RevokeToken, storeVars, handlerVars, scopeVars, revokeVars, HandlerTypes, Stages
  <1>17. ASSUME NEW t \in Threads, ListTree(t) PROVE HandlerTypes'
    BY <1>17, Types DEF ListTree, storeVars, handlerVars, scopeVars, revokeVars, HandlerTypes, Stages
  <1>18. ASSUME NEW t \in Threads, UpdateTree(t) PROVE HandlerTypes'
    BY <1>18, Types DEF UpdateTree, storeVars, handlerVars, scopeVars, revokeVars, HandlerTypes, Stages
  <1>19. ASSUME NEW t \in Threads, RevokeAnswers(t) PROVE HandlerTypes'
    BY <1>19, Types DEF RevokeAnswers, storeVars, handlerVars, scopeVars, revokeVars, HandlerTypes, Stages
  <1>20. ASSUME NEW t \in Threads, NEW tr \in Traces, CancelTrace(t, tr) PROVE HandlerTypes'
    BY <1>20, Types DEF CancelTrace, Scope!Cancel, storeVars, handlerVars, scopeVars, revokeVars,
       HandlerTypes, Stages
  <1>21. CASE UNCHANGED vars
    BY <1>21, Types DEF vars, storeVars, handlerVars, scopeVars, revokeVars, HandlerTypes, Stages
  <1> QED
    BY <1>1, <1>2, <1>3, <1>4, <1>5, <1>6, <1>7, <1>8, <1>9, <1>10, <1>11, <1>12, <1>13, <1>14, <1>15,
       <1>16, <1>17, <1>18, <1>19, <1>20, <1>21 DEF Next

LEMMA ScopeStep ==
  ASSUME TypeOK, [Next]_vars
  PROVE ScopeTypes'
  <1>1. ASSUME NEW j \in Jtis, NEW q \in TokenAsks, NEW ttl \in 1 .. MaxTTL, CreateToken(j, q, ttl)
        PROVE ScopeTypes'
    BY <1>1, Types, RequestsAssumption DEF CreateToken, storeVars, handlerVars, scopeVars, revokeVars,
       ScopeTypes
  <1>2. ASSUME Tick PROVE ScopeTypes'
    BY <1>2, Types, RequestsAssumption DEF Tick, storeVars, handlerVars, scopeVars, revokeVars, ScopeTypes
  <1>3. ASSUME NEW r \in Requests, NEW j \in Jtis, NEW q \in CallAsks, RootTask(r, j, q)
        PROVE ScopeTypes'
    BY <1>3, Types, RequestsAssumption DEF RootTask, Proceed, Refuse, Answer, storeVars, handlerVars,
       scopeVars, revokeVars, ScopeTypes
  <1>4. ASSUME NEW r \in Requests, NEW j \in Jtis, NEW q \in CallAsks,
            NEW relayed \in creds \cup {<<>>}, AgentTask(r, j, relayed, q)
        PROVE ScopeTypes'
    BY <1>4, Types, RequestsAssumption DEF AgentTask, Proceed, Refuse, Answer, storeVars, handlerVars,
       scopeVars, revokeVars, ScopeTypes
  <1>5. ASSUME NEW r \in Requests, IntentReady(r) PROVE ScopeTypes'
    BY <1>5, Types, RequestsAssumption DEF IntentReady, Proceed, Refuse, Crash, Answer, storeVars,
       handlerVars, scopeVars, revokeVars, ScopeTypes
  <1>6. ASSUME NEW r \in Requests, IntentJudged(r) PROVE ScopeTypes'
    BY <1>6, Types, RequestsAssumption DEF IntentJudged, Proceed, Refuse, Crash, Answer, storeVars,
       handlerVars, scopeVars, revokeVars, ScopeTypes
  <1>7. ASSUME NEW r \in Requests, Authorize(r) PROVE ScopeTypes'
    BY <1>7, Types, RequestsAssumption DEF Authorize, Proceed, Refuse, Answer, storeVars, handlerVars,
       scopeVars, revokeVars, ScopeTypes
  <1>8. ASSUME NEW r \in Requests, Build(r) PROVE ScopeTypes'
    BY <1>8, Types, RequestsAssumption DEF Build, Proceed, Refuse, Answer, storeVars, handlerVars,
       scopeVars, revokeVars, ScopeTypes
  <1>9. ASSUME NEW r \in Requests, Insert(r) PROVE ScopeTypes'
    BY <1>9, Types, RequestsAssumption DEF Insert, Proceed, storeVars, handlerVars, scopeVars,
       revokeVars, ScopeTypes
  <1>10. ASSUME NEW r \in Requests, Register(r) PROVE ScopeTypes'
    BY <1>10, Types, RequestsAssumption DEF Register, Proceed, Scope!Begin, storeVars, handlerVars,
       scopeVars, revokeVars, ScopeTypes
  <1>11. ASSUME NEW r \in Requests, CallReturned(r) PROVE ScopeTypes'
    BY <1>11, Types, RequestsAssumption DEF CallReturned, Answer, Scope!End, storeVars, handlerVars,
       scopeVars, revokeVars, ScopeTypes
  <1>12. ASSUME NEW r \in Requests, CallFailed(r) PROVE ScopeTypes'
    BY <1>12, Types, RequestsAssumption DEF CallFailed, Answer, Scope!End, storeVars, handlerVars,
       scopeVars, revokeVars, ScopeTypes
  <1>13. ASSUME NEW r \in Requests, CallBroken(r) PROVE ScopeTypes'
    BY <1>13, Types, RequestsAssumption DEF CallBroken, Crash, Answer, Scope!End, storeVars, handlerVars,
       scopeVars, revokeVars, ScopeTypes
  <1>14. ASSUME NEW r \in Requests, CallCancelled(r) PROVE ScopeTypes'
    BY <1>14, Types, RequestsAssumption DEF CallCancelled, Answer, Scope!End, storeVars, handlerVars,
       scopeVars, revokeVars, ScopeTypes
  <1>15. ASSUME NEW r \in Requests, CancelArrives(r) PROVE ScopeTypes'
    BY <1>15, Types, RequestsAssumption DEF CancelArrives, Scope!Doom, storeVars, handlerVars, scopeVars,
       revokeVars, ScopeTypes
  <1>16. ASSUME NEW t \in Threads, NEW j \in Jtis, RevokeToken(t, j) PROVE ScopeTypes'
    BY <1>16, Types, RequestsAssumption DEF RevokeToken, storeVars, handlerVars, scopeVars, revokeVars,
       ScopeTypes
  <1>17. ASSUME NEW t \in Threads, ListTree(t) PROVE ScopeTypes'
    BY <1>17, Types, RequestsAssumption DEF ListTree, storeVars, handlerVars, scopeVars, revokeVars,
       ScopeTypes
  <1>18. ASSUME NEW t \in Threads, UpdateTree(t) PROVE ScopeTypes'
    BY <1>18, Types, RequestsAssumption DEF UpdateTree, storeVars, handlerVars, scopeVars, revokeVars,
       ScopeTypes
  <1>19. ASSUME NEW t \in Threads, RevokeAnswers(t) PROVE ScopeTypes'
    BY <1>19, Types, RequestsAssumption DEF RevokeAnswers, storeVars, handlerVars, scopeVars, revokeVars,
       ScopeTypes
  <1>20. ASSUME NEW t \in Threads, NEW tr \in Traces, CancelTrace(t, tr) PROVE ScopeTypes'
    BY <1>20, Types, RequestsAssumption DEF CancelTrace, Scope!Cancel, storeVars, handlerVars, scopeVars,
       revokeVars, ScopeTypes
  <1>21. CASE UNCHANGED vars
    BY <1>21, Types, RequestsAssumption DEF vars, storeVars, handlerVars, scopeVars, revokeVars,
       ScopeTypes
  <1> QED
    BY <1>1, <1>2, <1>3, <1>4, <1>5, <1>6, <1>7, <1>8, <1>9, <1>10, <1>11, <1>12, <1>13, <1>14, <1>15,
       <1>16, <1>17, <1>18, <1>19, <1>20, <1>21 DEF Next

LEMMA RouteStep ==
  ASSUME TypeOK, RoutesFine, [Next]_vars
  PROVE RouteTypes'
  <1>1. ASSUME NEW j \in Jtis, NEW q \in TokenAsks, NEW ttl \in 1 .. MaxTTL, CreateToken(j, q, ttl)
        PROVE RouteTypes'
    <2>1. RootOf(j, q, ttl) \in Credential
      BY RootMade
    <2>2. /\ creds' = creds \cup {RootOf(j, q, ttl)} /\ token' = [token EXCEPT ![j] = RootOf(j, q, ttl)]
          /\ UNCHANGED <<now, revoked, tokenRevoked, handlerVars, scopeVars, revokeVars>>
      BY <1>1 DEF CreateToken, RootOf
    <2> QED
      BY <2>2, Types DEF RouteTypes, revokeVars
  <1>2. ASSUME Tick PROVE RouteTypes'
    BY <1>2, Types DEF Tick, storeVars, handlerVars, scopeVars, revokeVars, RouteTypes
  <1>3. ASSUME NEW r \in Requests, NEW j \in Jtis, NEW q \in CallAsks, RootTask(r, j, q)
        PROVE RouteTypes'
    BY <1>3, Types DEF RootTask, Proceed, Refuse, Answer, storeVars, handlerVars, scopeVars, revokeVars,
       RouteTypes
  <1>4. ASSUME NEW r \in Requests, NEW j \in Jtis, NEW q \in CallAsks,
            NEW relayed \in creds \cup {<<>>}, AgentTask(r, j, relayed, q)
        PROVE RouteTypes'
    BY <1>4, Types DEF AgentTask, Proceed, Refuse, Answer, storeVars, handlerVars, scopeVars, revokeVars,
       RouteTypes
  <1>5. ASSUME NEW r \in Requests, IntentReady(r) PROVE RouteTypes'
    BY <1>5, Types DEF IntentReady, Proceed, Refuse, Crash, Answer, storeVars, handlerVars, scopeVars,
       revokeVars, RouteTypes
  <1>6. ASSUME NEW r \in Requests, IntentJudged(r) PROVE RouteTypes'
    BY <1>6, Types DEF IntentJudged, Proceed, Refuse, Crash, Answer, storeVars, handlerVars, scopeVars,
       revokeVars, RouteTypes
  <1>7. ASSUME NEW r \in Requests, Authorize(r) PROVE RouteTypes'
    BY <1>7, Types DEF Authorize, Proceed, Refuse, Answer, storeVars, handlerVars, scopeVars, revokeVars,
       RouteTypes
  <1>8. ASSUME NEW r \in Requests, Build(r) PROVE RouteTypes'
    BY <1>8, Types DEF Build, Proceed, Refuse, Answer, storeVars, handlerVars, scopeVars, revokeVars,
       RouteTypes
  <1>9. ASSUME NEW r \in Requests, Insert(r) PROVE RouteTypes'
    BY <1>9, Types DEF Insert, Proceed, storeVars, handlerVars, scopeVars, revokeVars, RouteTypes
  <1>10. ASSUME NEW r \in Requests, Register(r) PROVE RouteTypes'
    BY <1>10, Types DEF Register, Proceed, Scope!Begin, storeVars, handlerVars, scopeVars, revokeVars,
       RouteTypes
  <1>11. ASSUME NEW r \in Requests, CallReturned(r) PROVE RouteTypes'
    BY <1>11, Types DEF CallReturned, Answer, Scope!End, storeVars, handlerVars, scopeVars, revokeVars,
       RouteTypes
  <1>12. ASSUME NEW r \in Requests, CallFailed(r) PROVE RouteTypes'
    BY <1>12, Types DEF CallFailed, Answer, Scope!End, storeVars, handlerVars, scopeVars, revokeVars,
       RouteTypes
  <1>13. ASSUME NEW r \in Requests, CallBroken(r) PROVE RouteTypes'
    BY <1>13, Types DEF CallBroken, Crash, Answer, Scope!End, storeVars, handlerVars, scopeVars,
       revokeVars, RouteTypes
  <1>14. ASSUME NEW r \in Requests, CallCancelled(r) PROVE RouteTypes'
    BY <1>14, Types DEF CallCancelled, Answer, Scope!End, storeVars, handlerVars, scopeVars, revokeVars,
       RouteTypes
  <1>15. ASSUME NEW r \in Requests, CancelArrives(r) PROVE RouteTypes'
    BY <1>15, Types DEF CancelArrives, Scope!Doom, storeVars, handlerVars, scopeVars, revokeVars,
       RouteTypes
  <1>16. ASSUME NEW t \in Threads, NEW j \in Jtis, RevokeToken(t, j) PROVE RouteTypes'
    BY <1>16, Types DEF RevokeToken, storeVars, handlerVars, scopeVars, revokeVars, RouteTypes, StoreTypes
  <1>17. ASSUME NEW t \in Threads, ListTree(t) PROVE RouteTypes'
    BY <1>17, Types DEF ListTree, storeVars, handlerVars, scopeVars, revokeVars, RouteTypes, StoreTypes,
       Tree
  <1>18. ASSUME NEW t \in Threads, UpdateTree(t) PROVE RouteTypes'
    <2>1. \A c \in snapshot[t] : BoundTrace(c) # None => BoundTrace(c) \in Traces
      <3> SUFFICES ASSUME NEW c \in snapshot[t] PROVE BoundTrace(c) # None => BoundTrace(c) \in Traces
        OBVIOUS
      <3>1. c \in Credential
        BY Types DEF RouteTypes, StoreTypes
      <3>2. c[Len(c)] \in Link
        BY <3>1, CredentialLen
      <3> QED
        BY <3>2 DEF BoundTrace, Link
    <2>2. todo' \in [Threads -> SUBSET Traces]
      BY <1>18, <2>1, Types DEF UpdateTree, RouteTypes
    <2> QED
      BY <1>18, <2>2, Types DEF UpdateTree, RouteTypes, storeVars
  <1>19. ASSUME NEW t \in Threads, RevokeAnswers(t) PROVE RouteTypes'
    <2>1. job[t] \in creds
      BY <1>19, Types DEF RevokeAnswers, RoutesFine, RouteFine, RouteTypes
    <2> QED
      BY <1>19, <2>1, Types DEF RevokeAnswers, RouteTypes, storeVars
  <1>20. ASSUME NEW t \in Threads, NEW tr \in Traces, CancelTrace(t, tr) PROVE RouteTypes'
    BY <1>20, Types DEF CancelTrace, Scope!Cancel, storeVars, handlerVars, scopeVars, revokeVars,
       RouteTypes
  <1>21. CASE UNCHANGED vars
    BY <1>21, Types DEF vars, storeVars, handlerVars, scopeVars, revokeVars, RouteTypes
  <1> QED
    BY <1>1, <1>2, <1>3, <1>4, <1>5, <1>6, <1>7, <1>8, <1>9, <1>10, <1>11, <1>12, <1>13, <1>14, <1>15,
       <1>16, <1>17, <1>18, <1>19, <1>20, <1>21 DEF Next

-----------------------------------------------------------------------------
(* Credentials and what is asked of them.                                  *)

LEMMA CredsStep ==
  ASSUME TypeOK, CredsFine, AsksFine, [Next]_vars
  PROVE CredsFine'
  <1>1. ASSUME NEW j \in Jtis, NEW q \in TokenAsks, NEW ttl \in 1 .. MaxTTL, CreateToken(j, q, ttl)
        PROVE CredsFine'
    <2> DEFINE c == RootOf(j, q, ttl)
    <2>1. /\ creds' = creds \cup {c} /\ token' = [token EXCEPT ![j] = c]
      BY <1>1 DEF CreateToken, RootOf
    <2>2. /\ Len(c) = 1
          /\ \A k \in 1 .. Len(c) : CapsOf(c) \subseteq c[k].caps
          /\ c[Len(c)].ucaps = {} => CapsOf(c) = {}
      BY RootMade
    <2> HIDE DEF c
    <2> QED
      BY <2>1, <2>2, Types DEF CredsFine, StoreTypes
  <1>2. ASSUME Tick PROVE CredsFine'
    BY <1>2 DEF Tick, storeVars, handlerVars, scopeVars, revokeVars, CredsFine
  <1>3. ASSUME NEW r \in Requests, NEW j \in Jtis, NEW q \in CallAsks, RootTask(r, j, q)
        PROVE CredsFine'
    BY <1>3 DEF RootTask, Proceed, Refuse, Answer, storeVars, handlerVars, scopeVars, revokeVars,
       CredsFine
  <1>4. ASSUME NEW r \in Requests, NEW j \in Jtis, NEW q \in CallAsks,
            NEW relayed \in creds \cup {<<>>}, AgentTask(r, j, relayed, q)
        PROVE CredsFine'
    BY <1>4 DEF AgentTask, Proceed, Refuse, Answer, storeVars, handlerVars, scopeVars, revokeVars,
       CredsFine
  <1>5. ASSUME NEW r \in Requests, IntentReady(r) PROVE CredsFine'
    BY <1>5 DEF IntentReady, Proceed, Refuse, Crash, Answer, storeVars, handlerVars, scopeVars,
       revokeVars, CredsFine
  <1>6. ASSUME NEW r \in Requests, IntentJudged(r) PROVE CredsFine'
    BY <1>6 DEF IntentJudged, Proceed, Refuse, Crash, Answer, storeVars, handlerVars, scopeVars,
       revokeVars, CredsFine
  <1>7. ASSUME NEW r \in Requests, Authorize(r) PROVE CredsFine'
    BY <1>7 DEF Authorize, Proceed, Refuse, Answer, storeVars, handlerVars, scopeVars, revokeVars,
       CredsFine
  <1>8. ASSUME NEW r \in Requests, Build(r) PROVE CredsFine'
    BY <1>8 DEF Build, Proceed, Refuse, Answer, storeVars, handlerVars, scopeVars, revokeVars, CredsFine
  <1>9. ASSUME NEW r \in Requests, Insert(r) PROVE CredsFine'
    <2> DEFINE c == ChildOf(r)
    <2>1. creds' = creds \cup {c} /\ token' = token
      BY <1>9 DEF Insert, ChildOf
    <2>2. AskFine(r) /\ stage[r] = "inserting" /\ c = ChildOf(r)
      BY <1>9 DEF Insert, AsksFine
    <2> HIDE DEF c
    <2>3. /\ \A k \in 1 .. Len(c) : CapsOf(c) \subseteq c[k].caps
          /\ c[Len(c)].ucaps = {} => CapsOf(c) = {}
      BY <2>2, ChildMade
    <2> QED
      BY <2>1, <2>3 DEF CredsFine
  <1>10. ASSUME NEW r \in Requests, Register(r) PROVE CredsFine'
    BY <1>10 DEF Register, Proceed, Scope!Begin, storeVars, handlerVars, scopeVars, revokeVars, CredsFine
  <1>11. ASSUME NEW r \in Requests, CallReturned(r) PROVE CredsFine'
    BY <1>11 DEF CallReturned, Answer, Scope!End, storeVars, handlerVars, scopeVars, revokeVars, CredsFine
  <1>12. ASSUME NEW r \in Requests, CallFailed(r) PROVE CredsFine'
    BY <1>12 DEF CallFailed, Answer, Scope!End, storeVars, handlerVars, scopeVars, revokeVars, CredsFine
  <1>13. ASSUME NEW r \in Requests, CallBroken(r) PROVE CredsFine'
    BY <1>13 DEF CallBroken, Crash, Answer, Scope!End, storeVars, handlerVars, scopeVars, revokeVars,
       CredsFine
  <1>14. ASSUME NEW r \in Requests, CallCancelled(r) PROVE CredsFine'
    BY <1>14 DEF CallCancelled, Answer, Scope!End, storeVars, handlerVars, scopeVars, revokeVars,
       CredsFine
  <1>15. ASSUME NEW r \in Requests, CancelArrives(r) PROVE CredsFine'
    BY <1>15 DEF CancelArrives, Scope!Doom, storeVars, handlerVars, scopeVars, revokeVars, CredsFine
  <1>16. ASSUME NEW t \in Threads, NEW j \in Jtis, RevokeToken(t, j) PROVE CredsFine'
    BY <1>16 DEF RevokeToken, storeVars, handlerVars, scopeVars, revokeVars, CredsFine
  <1>17. ASSUME NEW t \in Threads, ListTree(t) PROVE CredsFine'
    BY <1>17 DEF ListTree, storeVars, handlerVars, scopeVars, revokeVars, CredsFine
  <1>18. ASSUME NEW t \in Threads, UpdateTree(t) PROVE CredsFine'
    BY <1>18 DEF UpdateTree, storeVars, handlerVars, scopeVars, revokeVars, CredsFine
  <1>19. ASSUME NEW t \in Threads, RevokeAnswers(t) PROVE CredsFine'
    BY <1>19 DEF RevokeAnswers, storeVars, handlerVars, scopeVars, revokeVars, CredsFine
  <1>20. ASSUME NEW t \in Threads, NEW tr \in Traces, CancelTrace(t, tr) PROVE CredsFine'
    BY <1>20 DEF CancelTrace, Scope!Cancel, storeVars, handlerVars, scopeVars, revokeVars, CredsFine
  <1>21. CASE UNCHANGED vars
    BY <1>21 DEF vars, storeVars, handlerVars, scopeVars, revokeVars, CredsFine
  <1> QED
    BY <1>1, <1>2, <1>3, <1>4, <1>5, <1>6, <1>7, <1>8, <1>9, <1>10, <1>11, <1>12, <1>13, <1>14, <1>15,
       <1>16, <1>17, <1>18, <1>19, <1>20, <1>21 DEF Next

LEMMA AsksStep ==
  ASSUME TypeOK, CredsFine, AsksFine, [Next]_vars
  PROVE AsksFine'
  <1>1. ASSUME NEW j \in Jtis, NEW q \in TokenAsks, NEW ttl \in 1 .. MaxTTL, CreateToken(j, q, ttl)
        PROVE AsksFine'
    <2> SUFFICES ASSUME NEW p \in Requests PROVE AskFine(p)'
      BY DEF AsksFine
    <2>1. AskFine(p) /\ HandlerTypes
      BY Types DEF AsksFine
    <2> QED
      BY <1>1, <2>1 DEF CreateToken, storeVars, handlerVars, scopeVars, revokeVars, AskFine, HandlerTypes
  <1>2. ASSUME Tick PROVE AsksFine'
    <2> SUFFICES ASSUME NEW p \in Requests PROVE AskFine(p)'
      BY DEF AsksFine
    <2>1. AskFine(p) /\ HandlerTypes
      BY Types DEF AsksFine
    <2> QED
      BY <1>2, <2>1 DEF Tick, storeVars, handlerVars, scopeVars, revokeVars, AskFine, HandlerTypes
  <1>3. ASSUME NEW r \in Requests, NEW j \in Jtis, NEW q \in CallAsks, RootTask(r, j, q)
        PROVE AsksFine'
    <2> SUFFICES ASSUME NEW p \in Requests PROVE AskFine(p)'
      BY DEF AsksFine
    <2>1. AskFine(p) /\ HandlerTypes
      BY Types DEF AsksFine
    <2>2. p # r => stage'[p] = stage[p] /\ ask'[p] = ask[p]
      BY <1>3, <2>1 DEF RootTask, Proceed, Refuse, Answer, HandlerTypes
    <2>3. p = r => stage'[r] = "answered" \/ (stage'[r] = "generating" /\ ask'[r].cred \in creds)
      <3>1. \/ stage'[r] = "answered"
            \/ stage'[r] = "generating" /\ ask'[r].cred = token[j] /\ token[j] # <<>>
        BY <1>3, <2>1 DEF RootTask, Proceed, Refuse, Answer, HandlerTypes, Verified
      <3> QED
        BY <3>1, Types DEF StoreTypes, HandlerTypes
    <2>4. creds' = creds
      BY <1>3 DEF RootTask, storeVars
    <2> QED
      BY <2>1, <2>2, <2>3, <2>4 DEF AskFine
  <1>4. ASSUME NEW r \in Requests, NEW j \in Jtis, NEW q \in CallAsks,
            NEW relayed \in creds \cup {<<>>}, AgentTask(r, j, relayed, q)
        PROVE AsksFine'
    <2> SUFFICES ASSUME NEW p \in Requests PROVE AskFine(p)'
      BY DEF AsksFine
    <2>1. AskFine(p) /\ HandlerTypes
      BY Types DEF AsksFine
    <2>2. p # r => stage'[p] = stage[p] /\ ask'[p] = ask[p]
      BY <1>4, <2>1 DEF AgentTask, Proceed, Refuse, Answer, HandlerTypes
    <2>3. p = r => stage'[r] = "answered" \/ (stage'[r] = "generating" /\ ask'[r].cred \in creds)
      <3>1. \/ stage'[r] = "answered"
            \/ stage'[r] = "generating" /\
                     ask'[r].cred = (IF relayed = <<>> THEN token[j] ELSE relayed) /\
                      (IF relayed = <<>> THEN token[j] ELSE relayed) # <<>>
        BY <1>4, <2>1 DEF AgentTask, Proceed, Refuse, Answer, HandlerTypes, Verified
      <3> QED
        BY <3>1, Types DEF StoreTypes, HandlerTypes
    <2>4. creds' = creds
      BY <1>4 DEF AgentTask, storeVars
    <2> QED
      BY <2>1, <2>2, <2>3, <2>4 DEF AskFine
  <1>5. ASSUME NEW r \in Requests, IntentReady(r) PROVE AsksFine'
    <2> SUFFICES ASSUME NEW p \in Requests PROVE AskFine(p)'
      BY DEF AsksFine
    <2>1. AskFine(p) /\ HandlerTypes
      BY Types DEF AsksFine
    <2> QED
      BY <1>5, <2>1 DEF IntentReady, Proceed, Refuse, Crash, Answer, storeVars, handlerVars, scopeVars,
         revokeVars, AskFine, HandlerTypes
  <1>6. ASSUME NEW r \in Requests, IntentJudged(r) PROVE AsksFine'
    <2> SUFFICES ASSUME NEW p \in Requests PROVE AskFine(p)'
      BY DEF AsksFine
    <2>1. AskFine(p) /\ HandlerTypes
      BY Types DEF AsksFine
    <2> QED
      BY <1>6, <2>1 DEF IntentJudged, Proceed, Refuse, Crash, Answer, storeVars, handlerVars, scopeVars,
         revokeVars, AskFine, HandlerTypes
  <1>7. ASSUME NEW r \in Requests, Authorize(r) PROVE AsksFine'
    <2> SUFFICES ASSUME NEW p \in Requests PROVE AskFine(p)'
      BY DEF AsksFine
    <2>1. AskFine(p) /\ HandlerTypes
      BY Types DEF AsksFine
    <2> QED
      BY <1>7, <2>1 DEF Authorize, Proceed, Refuse, Answer, storeVars, handlerVars, scopeVars,
         revokeVars, AskFine, HandlerTypes
  <1>8. ASSUME NEW r \in Requests, Build(r) PROVE AsksFine'
    <2> SUFFICES ASSUME NEW p \in Requests PROVE AskFine(p)'
      BY DEF AsksFine
    <2>1. AskFine(p) /\ HandlerTypes
      BY Types DEF AsksFine
    <2> QED
      BY <1>8, <2>1 DEF Build, Proceed, Refuse, Answer, storeVars, handlerVars, scopeVars, revokeVars,
         AskFine, HandlerTypes
  <1>9. ASSUME NEW r \in Requests, Insert(r) PROVE AsksFine'
    <2> SUFFICES ASSUME NEW p \in Requests PROVE AskFine(p)'
      BY DEF AsksFine
    <2>1. AskFine(p) /\ HandlerTypes
      BY Types DEF AsksFine
    <2> QED
      BY <1>9, <2>1 DEF Insert, Proceed, storeVars, handlerVars, scopeVars, revokeVars, AskFine,
         HandlerTypes
  <1>10. ASSUME NEW r \in Requests, Register(r) PROVE AsksFine'
    <2> SUFFICES ASSUME NEW p \in Requests PROVE AskFine(p)'
      BY DEF AsksFine
    <2>1. AskFine(p) /\ HandlerTypes
      BY Types DEF AsksFine
    <2> QED
      BY <1>10, <2>1 DEF Register, Proceed, Scope!Begin, storeVars, handlerVars, scopeVars, revokeVars,
         AskFine, HandlerTypes
  <1>11. ASSUME NEW r \in Requests, CallReturned(r) PROVE AsksFine'
    <2> SUFFICES ASSUME NEW p \in Requests PROVE AskFine(p)'
      BY DEF AsksFine
    <2>1. AskFine(p) /\ HandlerTypes
      BY Types DEF AsksFine
    <2> QED
      BY <1>11, <2>1 DEF CallReturned, Answer, Scope!End, storeVars, handlerVars, scopeVars, revokeVars,
         AskFine, HandlerTypes
  <1>12. ASSUME NEW r \in Requests, CallFailed(r) PROVE AsksFine'
    <2> SUFFICES ASSUME NEW p \in Requests PROVE AskFine(p)'
      BY DEF AsksFine
    <2>1. AskFine(p) /\ HandlerTypes
      BY Types DEF AsksFine
    <2> QED
      BY <1>12, <2>1 DEF CallFailed, Answer, Scope!End, storeVars, handlerVars, scopeVars, revokeVars,
         AskFine, HandlerTypes
  <1>13. ASSUME NEW r \in Requests, CallBroken(r) PROVE AsksFine'
    <2> SUFFICES ASSUME NEW p \in Requests PROVE AskFine(p)'
      BY DEF AsksFine
    <2>1. AskFine(p) /\ HandlerTypes
      BY Types DEF AsksFine
    <2> QED
      BY <1>13, <2>1 DEF CallBroken, Crash, Answer, Scope!End, storeVars, handlerVars, scopeVars,
         revokeVars, AskFine, HandlerTypes
  <1>14. ASSUME NEW r \in Requests, CallCancelled(r) PROVE AsksFine'
    <2> SUFFICES ASSUME NEW p \in Requests PROVE AskFine(p)'
      BY DEF AsksFine
    <2>1. AskFine(p) /\ HandlerTypes
      BY Types DEF AsksFine
    <2> QED
      BY <1>14, <2>1 DEF CallCancelled, Answer, Scope!End, storeVars, handlerVars, scopeVars, revokeVars,
         AskFine, HandlerTypes
  <1>15. ASSUME NEW r \in Requests, CancelArrives(r) PROVE AsksFine'
    <2> SUFFICES ASSUME NEW p \in Requests PROVE AskFine(p)'
      BY DEF AsksFine
    <2>1. AskFine(p) /\ HandlerTypes
      BY Types DEF AsksFine
    <2> QED
      BY <1>15, <2>1 DEF CancelArrives, Scope!Doom, storeVars, handlerVars, scopeVars, revokeVars,
         AskFine, HandlerTypes
  <1>16. ASSUME NEW t \in Threads, NEW j \in Jtis, RevokeToken(t, j) PROVE AsksFine'
    <2> SUFFICES ASSUME NEW p \in Requests PROVE AskFine(p)'
      BY DEF AsksFine
    <2>1. AskFine(p) /\ HandlerTypes
      BY Types DEF AsksFine
    <2> QED
      BY <1>16, <2>1 DEF RevokeToken, storeVars, handlerVars, scopeVars, revokeVars, AskFine, HandlerTypes
  <1>17. ASSUME NEW t \in Threads, ListTree(t) PROVE AsksFine'
    <2> SUFFICES ASSUME NEW p \in Requests PROVE AskFine(p)'
      BY DEF AsksFine
    <2>1. AskFine(p) /\ HandlerTypes
      BY Types DEF AsksFine
    <2> QED
      BY <1>17, <2>1 DEF ListTree, storeVars, handlerVars, scopeVars, revokeVars, AskFine, HandlerTypes
  <1>18. ASSUME NEW t \in Threads, UpdateTree(t) PROVE AsksFine'
    <2> SUFFICES ASSUME NEW p \in Requests PROVE AskFine(p)'
      BY DEF AsksFine
    <2>1. AskFine(p) /\ HandlerTypes
      BY Types DEF AsksFine
    <2> QED
      BY <1>18, <2>1 DEF UpdateTree, storeVars, handlerVars, scopeVars, revokeVars, AskFine, HandlerTypes
  <1>19. ASSUME NEW t \in Threads, RevokeAnswers(t) PROVE AsksFine'
    <2> SUFFICES ASSUME NEW p \in Requests PROVE AskFine(p)'
      BY DEF AsksFine
    <2>1. AskFine(p) /\ HandlerTypes
      BY Types DEF AsksFine
    <2> QED
      BY <1>19, <2>1 DEF RevokeAnswers, storeVars, handlerVars, scopeVars, revokeVars, AskFine,
         HandlerTypes
  <1>20. ASSUME NEW t \in Threads, NEW tr \in Traces, CancelTrace(t, tr) PROVE AsksFine'
    <2> SUFFICES ASSUME NEW p \in Requests PROVE AskFine(p)'
      BY DEF AsksFine
    <2>1. AskFine(p) /\ HandlerTypes
      BY Types DEF AsksFine
    <2> QED
      BY <1>20, <2>1 DEF CancelTrace, Scope!Cancel, storeVars, handlerVars, scopeVars, revokeVars,
         AskFine, HandlerTypes
  <1>21. CASE UNCHANGED vars
    BY <1>21 DEF vars, storeVars, handlerVars, scopeVars, revokeVars, AsksFine, AskFine
  <1> QED
    BY <1>1, <1>2, <1>3, <1>4, <1>5, <1>6, <1>7, <1>8, <1>9, <1>10, <1>11, <1>12, <1>13, <1>14, <1>15,
       <1>16, <1>17, <1>18, <1>19, <1>20, <1>21 DEF Next

LEMMA ChildrenStep ==
  ASSUME TypeOK, CredsFine, AsksFine, ChildrenFine, [Next]_vars
  PROVE ChildrenFine'
  <1>1. ASSUME NEW j \in Jtis, NEW q \in TokenAsks, NEW ttl \in 1 .. MaxTTL, CreateToken(j, q, ttl)
        PROVE ChildrenFine'
    <2> SUFFICES ASSUME NEW p \in Requests PROVE ChildFine(p)'
      BY DEF ChildrenFine
    <2>1. ChildFine(p) /\ HandlerTypes /\ ScopeTypes
      BY Types DEF ChildrenFine
    <2> QED
      BY <1>1, <2>1 DEF CreateToken, storeVars, handlerVars, scopeVars, revokeVars, ChildFine,
         InUserList, HandlerTypes, ScopeTypes
  <1>2. ASSUME Tick PROVE ChildrenFine'
    <2> SUFFICES ASSUME NEW p \in Requests PROVE ChildFine(p)'
      BY DEF ChildrenFine
    <2>1. ChildFine(p) /\ HandlerTypes /\ ScopeTypes
      BY Types DEF ChildrenFine
    <2> QED
      BY <1>2, <2>1 DEF Tick, storeVars, handlerVars, scopeVars, revokeVars, ChildFine, InUserList,
         HandlerTypes,
         ScopeTypes
  <1>3. ASSUME NEW r \in Requests, NEW j \in Jtis, NEW q \in CallAsks, RootTask(r, j, q)
        PROVE ChildrenFine'
    <2> SUFFICES ASSUME NEW p \in Requests PROVE ChildFine(p)'
      BY DEF ChildrenFine
    <2>1. ChildFine(p) /\ HandlerTypes /\ ScopeTypes
      BY Types DEF ChildrenFine
    <2> QED
      BY <1>3, <2>1 DEF RootTask, Proceed, Refuse, Answer, storeVars, handlerVars, scopeVars, revokeVars,
         ChildFine, InUserList, HandlerTypes, ScopeTypes
  <1>4. ASSUME NEW r \in Requests, NEW j \in Jtis, NEW q \in CallAsks,
            NEW relayed \in creds \cup {<<>>}, AgentTask(r, j, relayed, q)
        PROVE ChildrenFine'
    <2> SUFFICES ASSUME NEW p \in Requests PROVE ChildFine(p)'
      BY DEF ChildrenFine
    <2>1. ChildFine(p) /\ HandlerTypes /\ ScopeTypes
      BY Types DEF ChildrenFine
    <2> QED
      BY <1>4, <2>1 DEF AgentTask, Proceed, Refuse, Answer, storeVars, handlerVars, scopeVars,
         revokeVars, ChildFine, InUserList, HandlerTypes, ScopeTypes
  <1>5. ASSUME NEW r \in Requests, IntentReady(r) PROVE ChildrenFine'
    <2> SUFFICES ASSUME NEW p \in Requests PROVE ChildFine(p)'
      BY DEF ChildrenFine
    <2>1. ChildFine(p) /\ HandlerTypes /\ ScopeTypes
      BY Types DEF ChildrenFine
    <2> QED
      BY <1>5, <2>1 DEF IntentReady, Proceed, Refuse, Crash, Answer, storeVars, handlerVars, scopeVars,
         revokeVars, ChildFine, InUserList, HandlerTypes, ScopeTypes
  <1>6. ASSUME NEW r \in Requests, IntentJudged(r) PROVE ChildrenFine'
    <2> SUFFICES ASSUME NEW p \in Requests PROVE ChildFine(p)'
      BY DEF ChildrenFine
    <2>1. ChildFine(p) /\ HandlerTypes /\ ScopeTypes
      BY Types DEF ChildrenFine
    <2> QED
      BY <1>6, <2>1 DEF IntentJudged, Proceed, Refuse, Crash, Answer, storeVars, handlerVars, scopeVars,
         revokeVars, ChildFine, InUserList, HandlerTypes, ScopeTypes
  <1>7. ASSUME NEW r \in Requests, Authorize(r) PROVE ChildrenFine'
    <2> SUFFICES ASSUME NEW p \in Requests PROVE ChildFine(p)'
      BY DEF ChildrenFine
    <2>1. ChildFine(p) /\ HandlerTypes /\ ScopeTypes
      BY Types DEF ChildrenFine
    <2> QED
      BY <1>7, <2>1 DEF Authorize, Proceed, Refuse, Answer, storeVars, handlerVars, scopeVars,
         revokeVars, ChildFine, InUserList, HandlerTypes, ScopeTypes
  <1>8. ASSUME NEW r \in Requests, Build(r) PROVE ChildrenFine'
    <2> SUFFICES ASSUME NEW p \in Requests PROVE ChildFine(p)'
      BY DEF ChildrenFine
    <2>1. ChildFine(p) /\ HandlerTypes /\ ScopeTypes
      BY Types DEF ChildrenFine
    <2> QED
      BY <1>8, <2>1 DEF Build, Proceed, Refuse, Answer, storeVars, handlerVars, scopeVars, revokeVars,
         ChildFine, InUserList, HandlerTypes, ScopeTypes
  <1>9. ASSUME NEW r \in Requests, Insert(r) PROVE ChildrenFine'
    <2> SUFFICES ASSUME NEW p \in Requests PROVE ChildFine(p)'
      BY DEF ChildrenFine
    <2>1. ChildFine(p) /\ HandlerTypes /\ ScopeTypes
      BY Types DEF ChildrenFine
    <2> DEFINE c == ChildOf(r)
    <2>2. AskFine(r) /\ stage[r] = "inserting" /\ c = ChildOf(r)
      BY <1>9 DEF Insert, AsksFine
    <2>3. /\ child' = [child EXCEPT ![r] = c] /\ stage' = [stage EXCEPT ![r] = "registering"] /\ phase' = phase
          /\ ask' = ask
      BY <1>9 DEF Insert, ChildOf, Proceed, scopeVars
    <2> HIDE DEF c
    <2>4. c # <<>> /\ BoundTrace(c) = TraceOf[r] /\ (r \notin RootTasks => Confined(c) /\ InUserList(r, c))
      BY <2>2, ChildMade
    <2>5. child'[p] = (IF p = r THEN c ELSE child[p]) /\ stage'[p] = (IF p = r THEN "registering" ELSE stage[p])
      BY <2>1, <2>3 DEF HandlerTypes
    <2> QED
      BY <2>1, <2>3, <2>4, <2>5 DEF ChildFine, InUserList, Confined
  <1>10. ASSUME NEW r \in Requests, Register(r) PROVE ChildrenFine'
    <2> SUFFICES ASSUME NEW p \in Requests PROVE ChildFine(p)'
      BY DEF ChildrenFine
    <2>1. ChildFine(p) /\ HandlerTypes /\ ScopeTypes
      BY Types DEF ChildrenFine
    <2> QED
      BY <1>10, <2>1 DEF Register, Proceed, Scope!Begin, storeVars, handlerVars, scopeVars, revokeVars,
         ChildFine, InUserList, HandlerTypes, ScopeTypes
  <1>11. ASSUME NEW r \in Requests, CallReturned(r) PROVE ChildrenFine'
    <2> SUFFICES ASSUME NEW p \in Requests PROVE ChildFine(p)'
      BY DEF ChildrenFine
    <2>1. ChildFine(p) /\ HandlerTypes /\ ScopeTypes
      BY Types DEF ChildrenFine
    <2> QED
      BY <1>11, <2>1 DEF CallReturned, Answer, Scope!End, storeVars, handlerVars, scopeVars, revokeVars,
         ChildFine, InUserList, HandlerTypes, ScopeTypes
  <1>12. ASSUME NEW r \in Requests, CallFailed(r) PROVE ChildrenFine'
    <2> SUFFICES ASSUME NEW p \in Requests PROVE ChildFine(p)'
      BY DEF ChildrenFine
    <2>1. ChildFine(p) /\ HandlerTypes /\ ScopeTypes
      BY Types DEF ChildrenFine
    <2> QED
      BY <1>12, <2>1 DEF CallFailed, Answer, Scope!End, storeVars, handlerVars, scopeVars, revokeVars,
         ChildFine, InUserList, HandlerTypes, ScopeTypes
  <1>13. ASSUME NEW r \in Requests, CallBroken(r) PROVE ChildrenFine'
    <2> SUFFICES ASSUME NEW p \in Requests PROVE ChildFine(p)'
      BY DEF ChildrenFine
    <2>1. ChildFine(p) /\ HandlerTypes /\ ScopeTypes
      BY Types DEF ChildrenFine
    <2> QED
      BY <1>13, <2>1 DEF CallBroken, Crash, Answer, Scope!End, storeVars, handlerVars, scopeVars,
         revokeVars, ChildFine, InUserList, HandlerTypes, ScopeTypes
  <1>14. ASSUME NEW r \in Requests, CallCancelled(r) PROVE ChildrenFine'
    <2> SUFFICES ASSUME NEW p \in Requests PROVE ChildFine(p)'
      BY DEF ChildrenFine
    <2>1. ChildFine(p) /\ HandlerTypes /\ ScopeTypes
      BY Types DEF ChildrenFine
    <2> QED
      BY <1>14, <2>1 DEF CallCancelled, Answer, Scope!End, storeVars, handlerVars, scopeVars, revokeVars,
         ChildFine, InUserList, HandlerTypes, ScopeTypes
  <1>15. ASSUME NEW r \in Requests, CancelArrives(r) PROVE ChildrenFine'
    <2> SUFFICES ASSUME NEW p \in Requests PROVE ChildFine(p)'
      BY DEF ChildrenFine
    <2>1. ChildFine(p) /\ HandlerTypes /\ ScopeTypes
      BY Types DEF ChildrenFine
    <2> QED
      BY <1>15, <2>1 DEF CancelArrives, Scope!Doom, storeVars, handlerVars, scopeVars, revokeVars,
         ChildFine, InUserList, HandlerTypes, ScopeTypes
  <1>16. ASSUME NEW t \in Threads, NEW j \in Jtis, RevokeToken(t, j) PROVE ChildrenFine'
    <2> SUFFICES ASSUME NEW p \in Requests PROVE ChildFine(p)'
      BY DEF ChildrenFine
    <2>1. ChildFine(p) /\ HandlerTypes /\ ScopeTypes
      BY Types DEF ChildrenFine
    <2> QED
      BY <1>16, <2>1 DEF RevokeToken, storeVars, handlerVars, scopeVars, revokeVars, ChildFine,
         InUserList, HandlerTypes, ScopeTypes
  <1>17. ASSUME NEW t \in Threads, ListTree(t) PROVE ChildrenFine'
    <2> SUFFICES ASSUME NEW p \in Requests PROVE ChildFine(p)'
      BY DEF ChildrenFine
    <2>1. ChildFine(p) /\ HandlerTypes /\ ScopeTypes
      BY Types DEF ChildrenFine
    <2> QED
      BY <1>17, <2>1 DEF ListTree, storeVars, handlerVars, scopeVars, revokeVars, ChildFine,
         InUserList, HandlerTypes, ScopeTypes
  <1>18. ASSUME NEW t \in Threads, UpdateTree(t) PROVE ChildrenFine'
    <2> SUFFICES ASSUME NEW p \in Requests PROVE ChildFine(p)'
      BY DEF ChildrenFine
    <2>1. ChildFine(p) /\ HandlerTypes /\ ScopeTypes
      BY Types DEF ChildrenFine
    <2> QED
      BY <1>18, <2>1 DEF UpdateTree, storeVars, handlerVars, scopeVars, revokeVars, ChildFine,
         InUserList, HandlerTypes, ScopeTypes
  <1>19. ASSUME NEW t \in Threads, RevokeAnswers(t) PROVE ChildrenFine'
    <2> SUFFICES ASSUME NEW p \in Requests PROVE ChildFine(p)'
      BY DEF ChildrenFine
    <2>1. ChildFine(p) /\ HandlerTypes /\ ScopeTypes
      BY Types DEF ChildrenFine
    <2> QED
      BY <1>19, <2>1 DEF RevokeAnswers, storeVars, handlerVars, scopeVars, revokeVars, ChildFine,
         InUserList, HandlerTypes, ScopeTypes
  <1>20. ASSUME NEW t \in Threads, NEW tr \in Traces, CancelTrace(t, tr) PROVE ChildrenFine'
    <2> SUFFICES ASSUME NEW p \in Requests PROVE ChildFine(p)'
      BY DEF ChildrenFine
    <2>1. ChildFine(p) /\ HandlerTypes /\ ScopeTypes
      BY Types DEF ChildrenFine
    <2> QED
      BY <1>20, <2>1 DEF CancelTrace, Scope!Cancel, storeVars, handlerVars, scopeVars, revokeVars,
         ChildFine, InUserList, HandlerTypes, ScopeTypes
  <1>21. CASE UNCHANGED vars
    BY <1>21 DEF vars, storeVars, handlerVars, scopeVars, revokeVars, ChildrenFine, ChildFine, InUserList
  <1> QED
    BY <1>1, <1>2, <1>3, <1>4, <1>5, <1>6, <1>7, <1>8, <1>9, <1>10, <1>11, <1>12, <1>13, <1>14, <1>15,
       <1>16, <1>17, <1>18, <1>19, <1>20, <1>21 DEF Next

-----------------------------------------------------------------------------
(* The audit log.                                                          *)

\* What handlers write, one row at a time.
LEMMA Rows ==
  /\ <<>> \o <<>> = <<>> /\ <<>> \o <<"deny">> = <<"deny">>
  /\ <<"allow">> \o <<>> = <<"allow">> /\ <<"allow">> \o <<"deny">> = <<"allow", "deny">>
  /\ <<"allow">> \o <<"deny", "deny">> = <<"allow", "deny", "deny">>
  /\ Append(<<>>, "allow") = <<"allow">>
  <1>1. <<>> \o <<>> = <<>> /\ <<>> \o <<"deny">> = <<"deny">> /\ <<"allow">> \o <<>> = <<"allow">>
    OBVIOUS
  <1>2. <<"allow">> \o <<"deny">> = <<"allow", "deny">>
    <2> DEFINE s == <<"allow">> \o <<"deny">>
               t == <<"allow", "deny">>
    <2>1. s \in Seq({"allow", "deny"}) /\ Len(s) = 2 /\ s[1] = "allow" /\ s[2] = "deny"
      BY ConcatProperties
    <2>2. t \in Seq({"allow", "deny"}) /\ Len(t) = 2 /\ t[1] = "allow" /\ t[2] = "deny"
      OBVIOUS
    <2> HIDE DEF s, t
    <2>3. s = t
      BY <2>1, <2>2, SeqEqual
    <2> QED
      BY <2>3 DEF s, t
  <1>3. <<"allow">> \o <<"deny", "deny">> = <<"allow", "deny", "deny">>
    <2> DEFINE s == <<"allow">> \o <<"deny", "deny">>
               t == <<"allow", "deny", "deny">>
    <2>1. s \in Seq({"allow", "deny"}) /\ Len(s) = 3 /\ s[1] = "allow" /\ s[2] = "deny" /\ s[3] = "deny"
      BY ConcatProperties
    <2>2. t \in Seq({"allow", "deny"}) /\ Len(t) = 3 /\ t[1] = "allow" /\ t[2] = "deny" /\ t[3] = "deny"
      OBVIOUS
    <2> HIDE DEF s, t
    <2>3. s = t
      BY <2>1, <2>2, SeqEqual
    <2> QED
      BY <2>3 DEF s, t
  <1>4. Append(<<>>, "allow") = <<"allow">>
    OBVIOUS
  <1> QED
    BY <1>1, <1>2, <1>3, <1>4

LEMMA LogsStep ==
  ASSUME TypeOK, LogsFine, [Next]_vars
  PROVE LogsFine'
  <1>1. ASSUME NEW j \in Jtis, NEW q \in TokenAsks, NEW ttl \in 1 .. MaxTTL, CreateToken(j, q, ttl)
        PROVE LogsFine'
    <2> SUFFICES ASSUME NEW p \in Requests PROVE LogFine(p)'
      BY DEF LogsFine
    <2>1. LogFine(p) /\ HandlerTypes /\ ScopeTypes
      BY Types DEF LogsFine
    <2> QED
      BY <1>1, <2>1 DEF CreateToken, handlerVars, scopeVars, LogFine, HandlerTypes, ScopeTypes
  <1>2. ASSUME Tick PROVE LogsFine'
    <2> SUFFICES ASSUME NEW p \in Requests PROVE LogFine(p)'
      BY DEF LogsFine
    <2>1. LogFine(p) /\ HandlerTypes /\ ScopeTypes
      BY Types DEF LogsFine
    <2> QED
      BY <1>2, <2>1 DEF Tick, handlerVars, scopeVars, LogFine, HandlerTypes, ScopeTypes
  <1>3. ASSUME NEW r \in Requests, NEW j \in Jtis, NEW q \in CallAsks, RootTask(r, j, q)
        PROVE LogsFine'
    <2> SUFFICES ASSUME NEW p \in Requests PROVE LogFine(p)'
      BY DEF LogsFine
    <2>1. LogFine(p) /\ HandlerTypes /\ ScopeTypes
      BY Types DEF LogsFine
    <2>2. p # r => UNCHANGED <<stage[p], log[p], response[p], phase[p]>>
      BY <1>3, <2>1 DEF RootTask, Proceed, Refuse, Answer, scopeVars, HandlerTypes, ScopeTypes
    <2>3. p = r =>
            /\ phase'[p] = phase[p] /\ stage[p] = "idle"
            /\ \/ stage'[p] = "generating" /\ response'[p] = response[p] /\ log'[p] = log[p]
               \/ stage'[p] = "answered" /\ response'[p] = "refused" /\ log'[p] = <<"deny">>
      BY <1>3, <2>1, Rows DEF RootTask, Proceed, Refuse, Answer, scopeVars, HandlerTypes, ScopeTypes,
         LogFine, CancelRows
    <2>4. "allow" # "deny" /\ <<"allow">> # <<>> /\ <<"allow",
       "deny">> # <<"allow">> /\ <<"deny">> # <<"allow">>
      OBVIOUS
    <2> QED
      BY <2>1, <2>2, <2>3, <2>4 DEF LogFine
  <1>4. ASSUME NEW r \in Requests, NEW j \in Jtis, NEW q \in CallAsks,
            NEW relayed \in creds \cup {<<>>}, AgentTask(r, j, relayed, q)
        PROVE LogsFine'
    <2> SUFFICES ASSUME NEW p \in Requests PROVE LogFine(p)'
      BY DEF LogsFine
    <2>1. LogFine(p) /\ HandlerTypes /\ ScopeTypes
      BY Types DEF LogsFine
    <2>2. p # r => UNCHANGED <<stage[p], log[p], response[p], phase[p]>>
      BY <1>4, <2>1 DEF AgentTask, Proceed, Refuse, Answer, scopeVars, HandlerTypes, ScopeTypes
    <2>3. p = r =>
            /\ phase'[p] = phase[p] /\ stage[p] = "idle"
            /\ \/ stage'[p] = "generating" /\ response'[p] = response[p] /\ log'[p] = log[p]
               \/ stage'[p] = "answered" /\ response'[p] = "refused" /\ log'[p] = <<"deny">>
      BY <1>4, <2>1, Rows DEF AgentTask, Proceed, Refuse, Answer, scopeVars, HandlerTypes, ScopeTypes,
         LogFine, CancelRows
    <2>4. "allow" # "deny" /\ <<"allow">> # <<>> /\ <<"allow",
       "deny">> # <<"allow">> /\ <<"deny">> # <<"allow">>
      OBVIOUS
    <2> QED
      BY <2>1, <2>2, <2>3, <2>4 DEF LogFine
  <1>5. ASSUME NEW r \in Requests, IntentReady(r) PROVE LogsFine'
    <2> SUFFICES ASSUME NEW p \in Requests PROVE LogFine(p)'
      BY DEF LogsFine
    <2>1. LogFine(p) /\ HandlerTypes /\ ScopeTypes
      BY Types DEF LogsFine
    <2>2. p # r => UNCHANGED <<stage[p], log[p], response[p], phase[p]>>
      BY <1>5, <2>1 DEF IntentReady, Proceed, Refuse, Crash, Answer, scopeVars, HandlerTypes, ScopeTypes
    <2>3. p = r =>
            /\ phase'[p] = phase[p] /\ stage[p] = "generating"
            /\ \/ stage'[p] = "judging" /\ response'[p] = response[p] /\ log'[p] = log[p]
               \/ stage'[p] = "answered" /\ response'[p] = "refused" /\ log'[p] = <<"deny">>
               \/ stage'[p] = "answered" /\ response'[p] = "crashed"
      BY <1>5, <2>1, Rows DEF IntentReady, Proceed, Refuse, Crash, Answer, scopeVars, HandlerTypes,
         ScopeTypes, LogFine, CancelRows
    <2>4. "allow" # "deny" /\ <<"allow">> # <<>> /\ <<"allow",
       "deny">> # <<"allow">> /\ <<"deny">> # <<"allow">>
      OBVIOUS
    <2> QED
      BY <2>1, <2>2, <2>3, <2>4 DEF LogFine
  <1>6. ASSUME NEW r \in Requests, IntentJudged(r) PROVE LogsFine'
    <2> SUFFICES ASSUME NEW p \in Requests PROVE LogFine(p)'
      BY DEF LogsFine
    <2>1. LogFine(p) /\ HandlerTypes /\ ScopeTypes
      BY Types DEF LogsFine
    <2>2. p # r => UNCHANGED <<stage[p], log[p], response[p], phase[p]>>
      BY <1>6, <2>1 DEF IntentJudged, Proceed, Refuse, Crash, Answer, scopeVars, HandlerTypes, ScopeTypes
    <2>3. p = r =>
            /\ phase'[p] = phase[p] /\ stage[p] = "judging"
            /\ \/ stage'[p] = (IF p \in RootTasks THEN "building" ELSE "authorizing") /\
                     response'[p] = response[p] /\ log'[p] = log[p]
               \/ stage'[p] = "answered" /\ response'[p] = "refused" /\ log'[p] = <<"deny">>
               \/ stage'[p] = "answered" /\ response'[p] = "crashed"
      BY <1>6, <2>1, Rows DEF IntentJudged, Proceed, Refuse, Crash, Answer, scopeVars, HandlerTypes,
         ScopeTypes, LogFine, CancelRows
    <2>4. "allow" # "deny" /\ <<"allow">> # <<>> /\ <<"allow",
       "deny">> # <<"allow">> /\ <<"deny">> # <<"allow">>
      OBVIOUS
    <2> QED
      BY <2>1, <2>2, <2>3, <2>4 DEF LogFine
  <1>7. ASSUME NEW r \in Requests, Authorize(r) PROVE LogsFine'
    <2> SUFFICES ASSUME NEW p \in Requests PROVE LogFine(p)'
      BY DEF LogsFine
    <2>1. LogFine(p) /\ HandlerTypes /\ ScopeTypes
      BY Types DEF LogsFine
    <2>2. p # r => UNCHANGED <<stage[p], log[p], response[p], phase[p]>>
      BY <1>7, <2>1 DEF Authorize, Proceed, Refuse, Answer, scopeVars, HandlerTypes, ScopeTypes
    <2>3. p = r =>
            /\ phase'[p] = phase[p] /\ stage[p] = "authorizing" /\ p \notin RootTasks
            /\ \/ stage'[p] = "building" /\ response'[p] = response[p] /\ log'[p] = <<"allow">>
               \/ stage'[p] = "answered" /\ response'[p] = "refused" /\ log'[p] = <<"deny">>
      <3> SUFFICES ASSUME p = r PROVE
            /\ phase'[p] = phase[p] /\ stage[p] = "authorizing" /\ p \notin RootTasks
            /\ \/ stage'[p] = "building" /\ response'[p] = response[p] /\ log'[p] = <<"allow">>
               \/ stage'[p] = "answered" /\ response'[p] = "refused" /\ log'[p] = <<"deny">>
        OBVIOUS
      <3>1. log[r] = <<>> /\ stage[r] = "authorizing" /\ phase' = phase /\ r \notin RootTasks
        BY <1>7, <2>1 DEF Authorize, LogFine, scopeVars
      <3>2. (Proceed(r, "building", r) /\ log' = [log EXCEPT ![r] = Append(log[r], "allow")]) \/ Refuse(r)
        BY <1>7 DEF Authorize
      <3>3. CASE Proceed(r, "building", r) /\ log' = [log EXCEPT ![r] = Append(log[r], "allow")]
        BY <2>1, <3>1, <3>3, Rows DEF Proceed, HandlerTypes
      <3>4. CASE Refuse(r)
        <4>1. response'[r] = "refused" /\ stage'[r] = "answered" /\ log'[r] = log[r] \o <<"deny">>
          BY <2>1, <3>4 DEF Refuse, Answer, HandlerTypes
        <4> QED
          BY <2>1, <3>1, <4>1, Rows
      <3> QED
        BY <3>2, <3>3, <3>4
    <2>4. "allow" # "deny" /\ <<"allow">> # <<>> /\ <<"allow",
       "deny">> # <<"allow">> /\ <<"deny">> # <<"allow">>
      OBVIOUS
    <2> QED
      BY <2>1, <2>2, <2>3, <2>4 DEF LogFine
  <1>8. ASSUME NEW r \in Requests, Build(r) PROVE LogsFine'
    <2> SUFFICES ASSUME NEW p \in Requests PROVE LogFine(p)'
      BY DEF LogsFine
    <2>1. LogFine(p) /\ HandlerTypes /\ ScopeTypes
      BY Types DEF LogsFine
    <2>2. p # r => UNCHANGED <<stage[p], log[p], response[p], phase[p]>>
      BY <1>8, <2>1 DEF Build, Proceed, Refuse, Answer, scopeVars, HandlerTypes, ScopeTypes
    <2>3. p = r =>
            /\ phase'[p] = phase[p] /\ stage[p] = "building"
            /\ \/ stage'[p] = "inserting" /\ response'[p] = response[p] /\ log'[p] = log[p]
               \/ stage'[p] = "answered" /\ response'[p] = "refused" /\
                        log'[p] = (IF p \in RootTasks THEN <<"deny">> ELSE <<"allow", "deny">>)
      <3> SUFFICES ASSUME p = r PROVE
            /\ phase'[p] = phase[p] /\ stage[p] = "building"
            /\ \/ stage'[p] = "inserting" /\ response'[p] = response[p] /\ log'[p] = log[p]
               \/ stage'[p] = "answered" /\ response'[p] = "refused" /\
                        log'[p] = (IF p \in RootTasks THEN <<"deny">> ELSE <<"allow", "deny">>)
        OBVIOUS
      <3>1. log[r] = (IF r \in RootTasks THEN <<>> ELSE <<"allow">>) /\ stage[r] = "building" /\ phase' = phase 
        BY <1>8, <2>1 DEF Build, LogFine, scopeVars
      <3>2. (Proceed(r, "inserting", r) /\ log' = log) \/ Refuse(r)
        BY <1>8 DEF Build
      <3>3. CASE Proceed(r, "inserting", r) /\ log' = log
        BY <2>1, <3>1, <3>3, Rows DEF Proceed, HandlerTypes
      <3>4. CASE Refuse(r)
        <4>1. response'[r] = "refused" /\ stage'[r] = "answered" /\ log'[r] = log[r] \o <<"deny">>
          BY <2>1, <3>4 DEF Refuse, Answer, HandlerTypes
        <4> QED
          BY <2>1, <3>1, <4>1, Rows
      <3> QED
        BY <3>2, <3>3, <3>4
    <2>4. "allow" # "deny" /\ <<"allow">> # <<>> /\ <<"allow",
       "deny">> # <<"allow">> /\ <<"deny">> # <<"allow">>
      OBVIOUS
    <2> QED
      BY <2>1, <2>2, <2>3, <2>4 DEF LogFine
  <1>9. ASSUME NEW r \in Requests, Insert(r) PROVE LogsFine'
    <2> SUFFICES ASSUME NEW p \in Requests PROVE LogFine(p)'
      BY DEF LogsFine
    <2>1. LogFine(p) /\ HandlerTypes /\ ScopeTypes
      BY Types DEF LogsFine
    <2>2. p # r => UNCHANGED <<stage[p], log[p], response[p], phase[p]>>
      BY <1>9, <2>1 DEF Insert, Proceed, scopeVars, HandlerTypes, ScopeTypes
    <2>3. p = r =>
            /\ phase'[p] = phase[p] /\ stage[p] = "inserting"
            /\ \/ stage'[p] = "registering" /\ response'[p] = response[p] /\ log'[p] = <<"allow">>
      BY <1>9, <2>1, Rows DEF Insert, Proceed, scopeVars, HandlerTypes, ScopeTypes, LogFine, CancelRows
    <2>4. "allow" # "deny" /\ <<"allow">> # <<>> /\ <<"allow",
       "deny">> # <<"allow">> /\ <<"deny">> # <<"allow">>
      OBVIOUS
    <2> QED
      BY <2>1, <2>2, <2>3, <2>4 DEF LogFine
  <1>10. ASSUME NEW r \in Requests, Register(r) PROVE LogsFine'
    <2> SUFFICES ASSUME NEW p \in Requests PROVE LogFine(p)'
      BY DEF LogsFine
    <2>1. LogFine(p) /\ HandlerTypes /\ ScopeTypes
      BY Types DEF LogsFine
    <2>2. p # r => UNCHANGED <<stage[p], log[p], response[p], phase[p]>>
      BY <1>10, <2>1 DEF Register, Proceed, Scope!Begin, scopeVars, HandlerTypes, ScopeTypes
    <2>3. p = r =>
            /\ phase'[p] = "active" /\ stage[p] = "registering"
            /\ \/ stage'[p] = "forwarded" /\ response'[p] = response[p] /\ log'[p] = log[p]
      BY <1>10, <2>1, Rows DEF Register, Proceed, Scope!Begin, scopeVars, HandlerTypes, ScopeTypes,
         LogFine, CancelRows
    <2>4. "allow" # "deny" /\ <<"allow">> # <<>> /\ <<"allow",
       "deny">> # <<"allow">> /\ <<"deny">> # <<"allow">>
      OBVIOUS
    <2> QED
      BY <2>1, <2>2, <2>3, <2>4 DEF LogFine
  <1>11. ASSUME NEW r \in Requests, CallReturned(r) PROVE LogsFine'
    <2> SUFFICES ASSUME NEW p \in Requests PROVE LogFine(p)'
      BY DEF LogsFine
    <2>1. LogFine(p) /\ HandlerTypes /\ ScopeTypes
      BY Types DEF LogsFine
    <2>2. p # r => UNCHANGED <<stage[p], log[p], response[p], phase[p]>>
      BY <1>11, <2>1 DEF CallReturned, Answer, Scope!End, scopeVars, HandlerTypes, ScopeTypes
    <2>3. p = r =>
            /\ phase'[p] = "ended" /\ stage[p] = "forwarded"
            /\ \/ stage'[p] = "answered" /\ response'[p] = "ok" /\ log'[p] = <<"allow">>
      BY <1>11, <2>1, Rows DEF CallReturned, Answer, Scope!End, scopeVars, HandlerTypes, ScopeTypes,
         LogFine, CancelRows
    <2>4. "allow" # "deny" /\ <<"allow">> # <<>> /\ <<"allow",
       "deny">> # <<"allow">> /\ <<"deny">> # <<"allow">>
      OBVIOUS
    <2> QED
      BY <2>1, <2>2, <2>3, <2>4 DEF LogFine
  <1>12. ASSUME NEW r \in Requests, CallFailed(r) PROVE LogsFine'
    <2> SUFFICES ASSUME NEW p \in Requests PROVE LogFine(p)'
      BY DEF LogsFine
    <2>1. LogFine(p) /\ HandlerTypes /\ ScopeTypes
      BY Types DEF LogsFine
    <2>2. p # r => UNCHANGED <<stage[p], log[p], response[p], phase[p]>>
      BY <1>12, <2>1 DEF CallFailed, Answer, Scope!End, scopeVars, HandlerTypes, ScopeTypes
    <2>3. p = r =>
            /\ phase'[p] = "ended" /\ stage[p] = "forwarded"
            /\ \/ stage'[p] = "answered" /\ response'[p] = "failed" /\
                     (p \notin RootTasks => log'[p] = <<"allow", "deny">>)
      BY <1>12, <2>1, Rows DEF CallFailed, Answer, Scope!End, scopeVars, HandlerTypes, ScopeTypes,
         LogFine, CancelRows
    <2>4. "allow" # "deny" /\ <<"allow">> # <<>> /\ <<"allow",
       "deny">> # <<"allow">> /\ <<"deny">> # <<"allow">>
      OBVIOUS
    <2> QED
      BY <2>1, <2>2, <2>3, <2>4 DEF LogFine
  <1>13. ASSUME NEW r \in Requests, CallBroken(r) PROVE LogsFine'
    <2> SUFFICES ASSUME NEW p \in Requests PROVE LogFine(p)'
      BY DEF LogsFine
    <2>1. LogFine(p) /\ HandlerTypes /\ ScopeTypes
      BY Types DEF LogsFine
    <2>2. p # r => UNCHANGED <<stage[p], log[p], response[p], phase[p]>>
      BY <1>13, <2>1 DEF CallBroken, Crash, Answer, Scope!End, scopeVars, HandlerTypes, ScopeTypes
    <2>3. p = r =>
            /\ phase'[p] = "ended" /\ stage[p] = "forwarded"
            /\ \/ stage'[p] = "answered" /\ response'[p] = "crashed"
      BY <1>13, <2>1, Rows DEF CallBroken, Crash, Answer, Scope!End, scopeVars, HandlerTypes, ScopeTypes,
         LogFine, CancelRows
    <2>4. "allow" # "deny" /\ <<"allow">> # <<>> /\ <<"allow",
       "deny">> # <<"allow">> /\ <<"deny">> # <<"allow">>
      OBVIOUS
    <2> QED
      BY <2>1, <2>2, <2>3, <2>4 DEF LogFine
  <1>14. ASSUME NEW r \in Requests, CallCancelled(r) PROVE LogsFine'
    <2> SUFFICES ASSUME NEW p \in Requests PROVE LogFine(p)'
      BY DEF LogsFine
    <2>1. LogFine(p) /\ HandlerTypes /\ ScopeTypes
      BY Types DEF LogsFine
    <2>2. p # r => UNCHANGED <<stage[p], log[p], response[p], phase[p]>>
      BY <1>14, <2>1 DEF CallCancelled, Answer, Scope!End, scopeVars, HandlerTypes, ScopeTypes
    <2>3. p = r =>
            /\ phase'[p] = "ended" /\ stage[p] = "forwarded"
            /\ \/ stage'[p] = "answered" /\ response'[p] = "cancelled" /\ log'[p] \in CancelRows
      BY <1>14, <2>1, Rows DEF CallCancelled, Answer, Scope!End, scopeVars, HandlerTypes, ScopeTypes,
         LogFine, CancelRows
    <2>4. "allow" # "deny" /\ <<"allow">> # <<>> /\ <<"allow",
       "deny">> # <<"allow">> /\ <<"deny">> # <<"allow">>
      OBVIOUS
    <2> QED
      BY <2>1, <2>2, <2>3, <2>4 DEF LogFine
  <1>15. ASSUME NEW r \in Requests, CancelArrives(r) PROVE LogsFine'
    <2> SUFFICES ASSUME NEW p \in Requests PROVE LogFine(p)'
      BY DEF LogsFine
    <2>1. LogFine(p) /\ HandlerTypes /\ ScopeTypes
      BY Types DEF LogsFine
    <2> QED
      BY <1>15, <2>1 DEF CancelArrives, handlerVars, scopeVars, Scope!Doom, LogFine, HandlerTypes,
         ScopeTypes
  <1>16. ASSUME NEW t \in Threads, NEW j \in Jtis, RevokeToken(t, j) PROVE LogsFine'
    <2> SUFFICES ASSUME NEW p \in Requests PROVE LogFine(p)'
      BY DEF LogsFine
    <2>1. LogFine(p) /\ HandlerTypes /\ ScopeTypes
      BY Types DEF LogsFine
    <2> QED
      BY <1>16, <2>1 DEF RevokeToken, handlerVars, scopeVars, LogFine, HandlerTypes, ScopeTypes
  <1>17. ASSUME NEW t \in Threads, ListTree(t) PROVE LogsFine'
    <2> SUFFICES ASSUME NEW p \in Requests PROVE LogFine(p)'
      BY DEF LogsFine
    <2>1. LogFine(p) /\ HandlerTypes /\ ScopeTypes
      BY Types DEF LogsFine
    <2> QED
      BY <1>17, <2>1 DEF ListTree, handlerVars, scopeVars, LogFine, HandlerTypes, ScopeTypes
  <1>18. ASSUME NEW t \in Threads, UpdateTree(t) PROVE LogsFine'
    <2> SUFFICES ASSUME NEW p \in Requests PROVE LogFine(p)'
      BY DEF LogsFine
    <2>1. LogFine(p) /\ HandlerTypes /\ ScopeTypes
      BY Types DEF LogsFine
    <2> QED
      BY <1>18, <2>1 DEF UpdateTree, handlerVars, scopeVars, LogFine, HandlerTypes, ScopeTypes
  <1>19. ASSUME NEW t \in Threads, RevokeAnswers(t) PROVE LogsFine'
    <2> SUFFICES ASSUME NEW p \in Requests PROVE LogFine(p)'
      BY DEF LogsFine
    <2>1. LogFine(p) /\ HandlerTypes /\ ScopeTypes
      BY Types DEF LogsFine
    <2> QED
      BY <1>19, <2>1 DEF RevokeAnswers, handlerVars, scopeVars, LogFine, HandlerTypes, ScopeTypes
  <1>20. ASSUME NEW t \in Threads, NEW tr \in Traces, CancelTrace(t, tr) PROVE LogsFine'
    <2> SUFFICES ASSUME NEW p \in Requests PROVE LogFine(p)'
      BY DEF LogsFine
    <2>1. LogFine(p) /\ HandlerTypes /\ ScopeTypes
      BY Types DEF LogsFine
    <2> QED
      BY <1>20, <2>1 DEF CancelTrace, handlerVars, scopeVars, Scope!Cancel, LogFine, HandlerTypes,
         ScopeTypes
  <1>21. CASE UNCHANGED vars
    BY <1>21 DEF vars, storeVars, handlerVars, scopeVars, revokeVars, LogsFine, LogFine
  <1> QED
    BY <1>1, <1>2, <1>3, <1>4, <1>5, <1>6, <1>7, <1>8, <1>9, <1>10, <1>11, <1>12, <1>13, <1>14, <1>15,
       <1>16, <1>17, <1>18, <1>19, <1>20, <1>21 DEF Next

-----------------------------------------------------------------------------
(* Revocation.                                                             *)

\* Credentials stay, and so does the mark of a root: a child that is inserted
\* loses its own mark only.
LEMMA MarksStay ==
  ASSUME TypeOK, CredsFine, AsksFine, NEW x, [Next]_vars
  PROVE (x \in creds => x \in creds') /\ (x \in revoked /\ Len(x) = 1 => x \in revoked')
  <1>1. ASSUME NEW j \in Jtis, NEW q \in TokenAsks, NEW ttl \in 1 .. MaxTTL, CreateToken(j, q, ttl)
        PROVE (x \in creds => x \in creds') /\ (x \in revoked /\ Len(x) = 1 => x \in revoked')
    BY <1>1 DEF CreateToken, storeVars, handlerVars, scopeVars, revokeVars
  <1>2. ASSUME Tick PROVE (x \in creds => x \in creds') /\ (x \in revoked /\ Len(x) = 1 => x \in revoked')
    BY <1>2 DEF Tick, storeVars, handlerVars, scopeVars, revokeVars
  <1>3. ASSUME NEW r \in Requests, NEW j \in Jtis, NEW q \in CallAsks, RootTask(r, j, q)
        PROVE (x \in creds => x \in creds') /\ (x \in revoked /\ Len(x) = 1 => x \in revoked')
    BY <1>3 DEF RootTask, Proceed, Refuse, Answer, storeVars, handlerVars, scopeVars, revokeVars
  <1>4. ASSUME NEW r \in Requests, NEW j \in Jtis, NEW q \in CallAsks,
            NEW relayed \in creds \cup {<<>>}, AgentTask(r, j, relayed, q)
        PROVE (x \in creds => x \in creds') /\ (x \in revoked /\ Len(x) = 1 => x \in revoked')
    BY <1>4 DEF AgentTask, Proceed, Refuse, Answer, storeVars, handlerVars, scopeVars, revokeVars
  <1>5. ASSUME NEW r \in Requests, IntentReady(r)
        PROVE (x \in creds => x \in creds') /\ (x \in revoked /\ Len(x) = 1 => x \in revoked')
    BY <1>5 DEF IntentReady, Proceed, Refuse, Crash, Answer, storeVars, handlerVars, scopeVars, revokeVars
  <1>6. ASSUME NEW r \in Requests, IntentJudged(r)
        PROVE (x \in creds => x \in creds') /\ (x \in revoked /\ Len(x) = 1 => x \in revoked')
    BY <1>6 DEF IntentJudged, Proceed, Refuse, Crash, Answer, storeVars, handlerVars, scopeVars,
       revokeVars
  <1>7. ASSUME NEW r \in Requests, Authorize(r)
        PROVE (x \in creds => x \in creds') /\ (x \in revoked /\ Len(x) = 1 => x \in revoked')
    BY <1>7 DEF Authorize, Proceed, Refuse, Answer, storeVars, handlerVars, scopeVars, revokeVars
  <1>8. ASSUME NEW r \in Requests, Build(r)
        PROVE (x \in creds => x \in creds') /\ (x \in revoked /\ Len(x) = 1 => x \in revoked')
    BY <1>8 DEF Build, Proceed, Refuse, Answer, storeVars, handlerVars, scopeVars, revokeVars
  <1>9. ASSUME NEW r \in Requests, Insert(r)
        PROVE (x \in creds => x \in creds') /\ (x \in revoked /\ Len(x) = 1 => x \in revoked')
    <2> DEFINE c == ChildOf(r)
    <2>1. creds' = creds \cup {c} /\ revoked' = revoked \ {c}
      BY <1>9 DEF Insert, ChildOf
    <2>2. AskFine(r) /\ stage[r] = "inserting" /\ c = ChildOf(r)
      BY <1>9 DEF Insert, AsksFine
    <2> HIDE DEF c
    <2>3. Len(c) # 1
      BY <2>2, ChildMade
    <2> QED
      BY <2>1, <2>3
  <1>10. ASSUME NEW r \in Requests, Register(r)
        PROVE (x \in creds => x \in creds') /\ (x \in revoked /\ Len(x) = 1 => x \in revoked')
    BY <1>10 DEF Register, Proceed, Scope!Begin, storeVars, handlerVars, scopeVars, revokeVars
  <1>11. ASSUME NEW r \in Requests, CallReturned(r)
        PROVE (x \in creds => x \in creds') /\ (x \in revoked /\ Len(x) = 1 => x \in revoked')
    BY <1>11 DEF CallReturned, Answer, Scope!End, storeVars, handlerVars, scopeVars, revokeVars
  <1>12. ASSUME NEW r \in Requests, CallFailed(r)
        PROVE (x \in creds => x \in creds') /\ (x \in revoked /\ Len(x) = 1 => x \in revoked')
    BY <1>12 DEF CallFailed, Answer, Scope!End, storeVars, handlerVars, scopeVars, revokeVars
  <1>13. ASSUME NEW r \in Requests, CallBroken(r)
        PROVE (x \in creds => x \in creds') /\ (x \in revoked /\ Len(x) = 1 => x \in revoked')
    BY <1>13 DEF CallBroken, Crash, Answer, Scope!End, storeVars, handlerVars, scopeVars, revokeVars
  <1>14. ASSUME NEW r \in Requests, CallCancelled(r)
        PROVE (x \in creds => x \in creds') /\ (x \in revoked /\ Len(x) = 1 => x \in revoked')
    BY <1>14 DEF CallCancelled, Answer, Scope!End, storeVars, handlerVars, scopeVars, revokeVars
  <1>15. ASSUME NEW r \in Requests, CancelArrives(r)
        PROVE (x \in creds => x \in creds') /\ (x \in revoked /\ Len(x) = 1 => x \in revoked')
    BY <1>15 DEF CancelArrives, Scope!Doom, storeVars, handlerVars, scopeVars, revokeVars
  <1>16. ASSUME NEW t \in Threads, NEW j \in Jtis, RevokeToken(t, j)
        PROVE (x \in creds => x \in creds') /\ (x \in revoked /\ Len(x) = 1 => x \in revoked')
    BY <1>16 DEF RevokeToken, storeVars, handlerVars, scopeVars, revokeVars
  <1>17. ASSUME NEW t \in Threads, ListTree(t)
        PROVE (x \in creds => x \in creds') /\ (x \in revoked /\ Len(x) = 1 => x \in revoked')
    BY <1>17 DEF ListTree, storeVars, handlerVars, scopeVars, revokeVars
  <1>18. ASSUME NEW t \in Threads, UpdateTree(t)
        PROVE (x \in creds => x \in creds') /\ (x \in revoked /\ Len(x) = 1 => x \in revoked')
    BY <1>18 DEF UpdateTree, storeVars, handlerVars, scopeVars, revokeVars
  <1>19. ASSUME NEW t \in Threads, RevokeAnswers(t)
        PROVE (x \in creds => x \in creds') /\ (x \in revoked /\ Len(x) = 1 => x \in revoked')
    BY <1>19 DEF RevokeAnswers, storeVars, handlerVars, scopeVars, revokeVars
  <1>20. ASSUME NEW t \in Threads, NEW tr \in Traces, CancelTrace(t, tr)
        PROVE (x \in creds => x \in creds') /\ (x \in revoked /\ Len(x) = 1 => x \in revoked')
    BY <1>20 DEF CancelTrace, Scope!Cancel, storeVars, handlerVars, scopeVars, revokeVars
  <1>21. CASE UNCHANGED vars
    BY <1>21 DEF vars, storeVars, handlerVars, scopeVars, revokeVars
  <1> QED
    BY <1>1, <1>2, <1>3, <1>4, <1>5, <1>6, <1>7, <1>8, <1>9, <1>10, <1>11, <1>12, <1>13, <1>14, <1>15,
       <1>16, <1>17, <1>18, <1>19, <1>20, <1>21 DEF Next

LEMMA JustifiedStays ==
  ASSUME TypeOK, CredsFine, AsksFine, [Next]_vars, NEW tr, Justified(tr)
  PROVE Justified(tr)'
  <1>1. PICK c \in creds : BoundTrace(c) = tr /\ Path(c, 1) \in revoked
    BY DEF Justified
  <1>2. Len(Path(c, 1)) = 1
    <2>1. c \in Credential
      BY Types DEF StoreTypes
    <2>2. 1 \in 1 .. Len(c)
      BY <2>1, CredentialLen
    <2> QED
      BY <2>1, <2>2, PathFacts
  <1>3. c \in creds' /\ Path(c, 1) \in revoked'
    BY <1>1, <1>2, MarksStay
  <1> QED
    BY <1>1, <1>3 DEF Justified

LEMMA RouteKept ==
  ASSUME TypeOK, CredsFine, AsksFine, [Next]_vars, NEW p \in Threads, RouteFine(p),
         UNCHANGED <<pc[p], job[p], snapshot[p], todo[p]>>
  PROVE RouteFine(p)'
  <1>1. pc[p] = "cancel" => job[p] \in revoked'
    BY MarksStay DEF RouteFine
  <1>2. \A tr \in todo[p] : Justified(tr)'
    BY JustifiedStays DEF RouteFine
  <1> QED
    BY <1>1, <1>2 DEF RouteFine

\* The credentials below a token's root, and the root itself, have that root.
LEMMA TreeFacts ==
  ASSUME TypeOK, NEW x \in creds, Len(x) = 1
  PROVE x \in Tree(creds, x) /\ \A c \in Tree(creds, x) : Path(c, 1) = x
  <1>1. x \in Credential /\ Path(x, 1) = x
    BY PathFull, Types DEF StoreTypes
  <1>2. Under(x, x) /\ \A k \in Len(x) .. Len(x) : Path(x, k) \in creds
    BY <1>1 DEF Under
  <1> QED
    BY <1>2 DEF Tree, Under

LEMMA RoutesStep ==
  ASSUME TypeOK, CredsFine, AsksFine, RoutesFine, [Next]_vars
  PROVE RoutesFine'
  <1>1. ASSUME NEW j \in Jtis, NEW q \in TokenAsks, NEW ttl \in 1 .. MaxTTL, CreateToken(j, q, ttl)
        PROVE RoutesFine'
    <2> SUFFICES ASSUME NEW p \in Threads PROVE RouteFine(p)'
      BY DEF RoutesFine
    <2>1. RouteFine(p) /\ RouteTypes
      BY Types DEF RoutesFine
    <2>2. UNCHANGED <<pc[p], job[p], snapshot[p], todo[p]>>
      BY <1>1 DEF CreateToken, revokeVars
    <2> QED
      BY <2>1, <2>2, RouteKept
  <1>2. ASSUME Tick PROVE RoutesFine'
    <2> SUFFICES ASSUME NEW p \in Threads PROVE RouteFine(p)'
      BY DEF RoutesFine
    <2>1. RouteFine(p) /\ RouteTypes
      BY Types DEF RoutesFine
    <2>2. UNCHANGED <<pc[p], job[p], snapshot[p], todo[p]>>
      BY <1>2 DEF Tick, revokeVars
    <2> QED
      BY <2>1, <2>2, RouteKept
  <1>3. ASSUME NEW r \in Requests, NEW j \in Jtis, NEW q \in CallAsks, RootTask(r, j, q)
        PROVE RoutesFine'
    <2> SUFFICES ASSUME NEW p \in Threads PROVE RouteFine(p)'
      BY DEF RoutesFine
    <2>1. RouteFine(p) /\ RouteTypes
      BY Types DEF RoutesFine
    <2>2. UNCHANGED <<pc[p], job[p], snapshot[p], todo[p]>>
      BY <1>3 DEF RootTask, revokeVars
    <2> QED
      BY <2>1, <2>2, RouteKept
  <1>4. ASSUME NEW r \in Requests, NEW j \in Jtis, NEW q \in CallAsks,
            NEW relayed \in creds \cup {<<>>}, AgentTask(r, j, relayed, q)
        PROVE RoutesFine'
    <2> SUFFICES ASSUME NEW p \in Threads PROVE RouteFine(p)'
      BY DEF RoutesFine
    <2>1. RouteFine(p) /\ RouteTypes
      BY Types DEF RoutesFine
    <2>2. UNCHANGED <<pc[p], job[p], snapshot[p], todo[p]>>
      BY <1>4 DEF AgentTask, revokeVars
    <2> QED
      BY <2>1, <2>2, RouteKept
  <1>5. ASSUME NEW r \in Requests, IntentReady(r) PROVE RoutesFine'
    <2> SUFFICES ASSUME NEW p \in Threads PROVE RouteFine(p)'
      BY DEF RoutesFine
    <2>1. RouteFine(p) /\ RouteTypes
      BY Types DEF RoutesFine
    <2>2. UNCHANGED <<pc[p], job[p], snapshot[p], todo[p]>>
      BY <1>5 DEF IntentReady, revokeVars
    <2> QED
      BY <2>1, <2>2, RouteKept
  <1>6. ASSUME NEW r \in Requests, IntentJudged(r) PROVE RoutesFine'
    <2> SUFFICES ASSUME NEW p \in Threads PROVE RouteFine(p)'
      BY DEF RoutesFine
    <2>1. RouteFine(p) /\ RouteTypes
      BY Types DEF RoutesFine
    <2>2. UNCHANGED <<pc[p], job[p], snapshot[p], todo[p]>>
      BY <1>6 DEF IntentJudged, revokeVars
    <2> QED
      BY <2>1, <2>2, RouteKept
  <1>7. ASSUME NEW r \in Requests, Authorize(r) PROVE RoutesFine'
    <2> SUFFICES ASSUME NEW p \in Threads PROVE RouteFine(p)'
      BY DEF RoutesFine
    <2>1. RouteFine(p) /\ RouteTypes
      BY Types DEF RoutesFine
    <2>2. UNCHANGED <<pc[p], job[p], snapshot[p], todo[p]>>
      BY <1>7 DEF Authorize, revokeVars
    <2> QED
      BY <2>1, <2>2, RouteKept
  <1>8. ASSUME NEW r \in Requests, Build(r) PROVE RoutesFine'
    <2> SUFFICES ASSUME NEW p \in Threads PROVE RouteFine(p)'
      BY DEF RoutesFine
    <2>1. RouteFine(p) /\ RouteTypes
      BY Types DEF RoutesFine
    <2>2. UNCHANGED <<pc[p], job[p], snapshot[p], todo[p]>>
      BY <1>8 DEF Build, revokeVars
    <2> QED
      BY <2>1, <2>2, RouteKept
  <1>9. ASSUME NEW r \in Requests, Insert(r) PROVE RoutesFine'
    <2> SUFFICES ASSUME NEW p \in Threads PROVE RouteFine(p)'
      BY DEF RoutesFine
    <2>1. RouteFine(p) /\ RouteTypes
      BY Types DEF RoutesFine
    <2>2. UNCHANGED <<pc[p], job[p], snapshot[p], todo[p]>>
      BY <1>9 DEF Insert, revokeVars
    <2> QED
      BY <2>1, <2>2, RouteKept
  <1>10. ASSUME NEW r \in Requests, Register(r) PROVE RoutesFine'
    <2> SUFFICES ASSUME NEW p \in Threads PROVE RouteFine(p)'
      BY DEF RoutesFine
    <2>1. RouteFine(p) /\ RouteTypes
      BY Types DEF RoutesFine
    <2>2. UNCHANGED <<pc[p], job[p], snapshot[p], todo[p]>>
      BY <1>10 DEF Register, revokeVars
    <2> QED
      BY <2>1, <2>2, RouteKept
  <1>11. ASSUME NEW r \in Requests, CallReturned(r) PROVE RoutesFine'
    <2> SUFFICES ASSUME NEW p \in Threads PROVE RouteFine(p)'
      BY DEF RoutesFine
    <2>1. RouteFine(p) /\ RouteTypes
      BY Types DEF RoutesFine
    <2>2. UNCHANGED <<pc[p], job[p], snapshot[p], todo[p]>>
      BY <1>11 DEF CallReturned, revokeVars
    <2> QED
      BY <2>1, <2>2, RouteKept
  <1>12. ASSUME NEW r \in Requests, CallFailed(r) PROVE RoutesFine'
    <2> SUFFICES ASSUME NEW p \in Threads PROVE RouteFine(p)'
      BY DEF RoutesFine
    <2>1. RouteFine(p) /\ RouteTypes
      BY Types DEF RoutesFine
    <2>2. UNCHANGED <<pc[p], job[p], snapshot[p], todo[p]>>
      BY <1>12 DEF CallFailed, revokeVars
    <2> QED
      BY <2>1, <2>2, RouteKept
  <1>13. ASSUME NEW r \in Requests, CallBroken(r) PROVE RoutesFine'
    <2> SUFFICES ASSUME NEW p \in Threads PROVE RouteFine(p)'
      BY DEF RoutesFine
    <2>1. RouteFine(p) /\ RouteTypes
      BY Types DEF RoutesFine
    <2>2. UNCHANGED <<pc[p], job[p], snapshot[p], todo[p]>>
      BY <1>13 DEF CallBroken, revokeVars
    <2> QED
      BY <2>1, <2>2, RouteKept
  <1>14. ASSUME NEW r \in Requests, CallCancelled(r) PROVE RoutesFine'
    <2> SUFFICES ASSUME NEW p \in Threads PROVE RouteFine(p)'
      BY DEF RoutesFine
    <2>1. RouteFine(p) /\ RouteTypes
      BY Types DEF RoutesFine
    <2>2. UNCHANGED <<pc[p], job[p], snapshot[p], todo[p]>>
      BY <1>14 DEF CallCancelled, revokeVars
    <2> QED
      BY <2>1, <2>2, RouteKept
  <1>15. ASSUME NEW r \in Requests, CancelArrives(r) PROVE RoutesFine'
    <2> SUFFICES ASSUME NEW p \in Threads PROVE RouteFine(p)'
      BY DEF RoutesFine
    <2>1. RouteFine(p) /\ RouteTypes
      BY Types DEF RoutesFine
    <2>2. UNCHANGED <<pc[p], job[p], snapshot[p], todo[p]>>
      BY <1>15 DEF CancelArrives, revokeVars
    <2> QED
      BY <2>1, <2>2, RouteKept
  <1>16. ASSUME NEW t \in Threads, NEW j \in Jtis, RevokeToken(t, j) PROVE RoutesFine'
    <2> SUFFICES ASSUME NEW p \in Threads PROVE RouteFine(p)'
      BY DEF RoutesFine
    <2>1. RouteFine(p) /\ RouteTypes
      BY Types DEF RoutesFine
    <2>2. p # t => UNCHANGED <<pc[p], job[p], snapshot[p], todo[p]>>
      BY <1>16, <2>1 DEF RevokeToken, RouteTypes
    <2>3. p # t => RouteFine(p)'
      BY <2>1, <2>2, RouteKept
    <2>4. p = t => RouteFine(p)'
      <3> SUFFICES ASSUME p = t PROVE RouteFine(t)'
        OBVIOUS
      <3>1. token[j] # <<>> /\ Len(token[j]) = 1
        BY <1>16 DEF RevokeToken, CredsFine
      <3>2. pc'[t] = "list" /\ job'[t] = token[j] /\ todo'[t] = todo[t] /\ pc[t] = "idle"
        BY <1>16, <2>1 DEF RevokeToken, RouteTypes
      <3> QED
        BY <2>1, <3>1, <3>2 DEF RouteFine
    <2> QED
      BY <2>3, <2>4
  <1>17. ASSUME NEW t \in Threads, ListTree(t) PROVE RoutesFine'
    <2> SUFFICES ASSUME NEW p \in Threads PROVE RouteFine(p)'
      BY DEF RoutesFine
    <2>1. RouteFine(p) /\ RouteTypes
      BY Types DEF RoutesFine
    <2>2. p # t => UNCHANGED <<pc[p], job[p], snapshot[p], todo[p]>>
      BY <1>17, <2>1 DEF ListTree, RouteTypes
    <2>3. p # t => RouteFine(p)'
      BY <2>1, <2>2, RouteKept
    <2>4. p = t => RouteFine(p)'
      <3> SUFFICES ASSUME p = t PROVE RouteFine(t)'
        OBVIOUS
      <3>1. /\ pc'[t] = "update" /\ job'[t] = job[t] /\ todo'[t] = todo[t] /\ pc[t] = "list"
            /\ snapshot'[t] = Tree(creds, job[t])
        BY <1>17, <2>1 DEF ListTree, RouteTypes
      <3>2. job[t] # <<>> /\ Len(job[t]) = 1 /\ job[t] \in creds /\ todo[t] = {}
        BY <2>1, <3>1 DEF RouteFine, RouteTypes
      <3> QED
        BY <3>1, <3>2, TreeFacts DEF RouteFine
    <2> QED
      BY <2>3, <2>4
  <1>18. ASSUME NEW t \in Threads, UpdateTree(t) PROVE RoutesFine'
    <2> SUFFICES ASSUME NEW p \in Threads PROVE RouteFine(p)'
      BY DEF RoutesFine
    <2>1. RouteFine(p) /\ RouteTypes
      BY Types DEF RoutesFine
    <2>2. p # t => UNCHANGED <<pc[p], job[p], snapshot[p], todo[p]>>
      BY <1>18, <2>1 DEF UpdateTree, RouteTypes
    <2>3. p # t => RouteFine(p)'
      BY <2>1, <2>2, RouteKept
    <2>4. p = t => RouteFine(p)'
      <3> SUFFICES ASSUME p = t PROVE RouteFine(t)'
        OBVIOUS
      <3>1. /\ pc'[t] = "cancel" /\ job'[t] = job[t] /\ pc[t] = "update"
            /\ todo'[t] = {BoundTrace(c) : c \in snapshot[t]} \ {None}
            /\ revoked' = revoked \cup snapshot[t] /\ creds' = creds
        BY <1>18, <2>1 DEF UpdateTree, RouteTypes
      <3>2. /\ job[t] # <<>> /\ Len(job[t]) = 1 /\ job[t] \in snapshot[t]
            /\ \A c \in snapshot[t] : Path(c, 1) = job[t] /\ c \in creds
        BY <2>1, <3>1 DEF RouteFine, RouteTypes
      <3>3. \A tr \in todo'[t] : Justified(tr)'
        BY <3>1, <3>2 DEF Justified
      <3> QED
        BY <3>1, <3>2, <3>3 DEF RouteFine
    <2> QED
      BY <2>3, <2>4
  <1>19. ASSUME NEW t \in Threads, RevokeAnswers(t) PROVE RoutesFine'
    <2> SUFFICES ASSUME NEW p \in Threads PROVE RouteFine(p)'
      BY DEF RoutesFine
    <2>1. RouteFine(p) /\ RouteTypes
      BY Types DEF RoutesFine
    <2>2. p # t => UNCHANGED <<pc[p], job[p], snapshot[p], todo[p]>>
      BY <1>19, <2>1 DEF RevokeAnswers, RouteTypes
    <2>3. p # t => RouteFine(p)'
      BY <2>1, <2>2, RouteKept
    <2>4. p = t => RouteFine(p)'
      <3> SUFFICES ASSUME p = t PROVE RouteFine(t)'
        OBVIOUS
      <3>1. pc'[t] = "idle" /\ todo'[t] = {}
        BY <1>19, <2>1 DEF RevokeAnswers, RouteTypes
      <3> QED
        BY <3>1 DEF RouteFine
    <2> QED
      BY <2>3, <2>4
  <1>20. ASSUME NEW t \in Threads, NEW tr \in Traces, CancelTrace(t, tr) PROVE RoutesFine'
    <2> SUFFICES ASSUME NEW p \in Threads PROVE RouteFine(p)'
      BY DEF RoutesFine
    <2>1. RouteFine(p) /\ RouteTypes
      BY Types DEF RoutesFine
    <2>2. p # t => UNCHANGED <<pc[p], job[p], snapshot[p], todo[p]>>
      BY <1>20, <2>1 DEF CancelTrace, RouteTypes
    <2>3. p # t => RouteFine(p)'
      BY <2>1, <2>2, RouteKept
    <2>4. p = t => RouteFine(p)'
      <3> SUFFICES ASSUME p = t PROVE RouteFine(t)'
        OBVIOUS
      <3>1. /\ pc'[t] = "cancel" /\ pc[t] = "cancel" /\ job'[t] = job[t] /\ todo'[t] = todo[t] \ {tr}
            /\ UNCHANGED <<creds, revoked>>
        BY <1>20, <2>1 DEF CancelTrace, RouteTypes, storeVars
      <3> QED
        BY <2>1, <3>1 DEF RouteFine, Justified
    <2> QED
      BY <2>3, <2>4
  <1>21. CASE UNCHANGED vars
    BY <1>21 DEF vars, storeVars, handlerVars, scopeVars, revokeVars, RoutesFine, RouteFine, Justified
  <1> QED
    BY <1>1, <1>2, <1>3, <1>4, <1>5, <1>6, <1>7, <1>8, <1>9, <1>10, <1>11, <1>12, <1>13, <1>14, <1>15,
       <1>16, <1>17, <1>18, <1>19, <1>20, <1>21 DEF Next

LEMMA ScopeFineStep ==
  ASSUME TypeOK, CredsFine, AsksFine, RoutesFine, ScopeFine, [Next]_vars
  PROVE ScopeFine'
  <1>1. ASSUME NEW j \in Jtis, NEW q \in TokenAsks, NEW ttl \in 1 .. MaxTTL, CreateToken(j, q, ttl)
        PROVE ScopeFine'
    <2>1. cancelled' = cancelled /\ doomed' = doomed /\ result' = result
      BY <1>1 DEF CreateToken, scopeVars
    <2> QED
      BY <2>1, JustifiedStays DEF ScopeFine
  <1>2. ASSUME Tick PROVE ScopeFine'
    <2>1. cancelled' = cancelled /\ doomed' = doomed /\ result' = result
      BY <1>2 DEF Tick, scopeVars
    <2> QED
      BY <2>1, JustifiedStays DEF ScopeFine
  <1>3. ASSUME NEW r \in Requests, NEW j \in Jtis, NEW q \in CallAsks, RootTask(r, j, q)
        PROVE ScopeFine'
    <2>1. cancelled' = cancelled /\ doomed' = doomed /\ result' = result
      BY <1>3 DEF RootTask, scopeVars
    <2> QED
      BY <2>1, JustifiedStays DEF ScopeFine
  <1>4. ASSUME NEW r \in Requests, NEW j \in Jtis, NEW q \in CallAsks,
            NEW relayed \in creds \cup {<<>>}, AgentTask(r, j, relayed, q)
        PROVE ScopeFine'
    <2>1. cancelled' = cancelled /\ doomed' = doomed /\ result' = result
      BY <1>4 DEF AgentTask, scopeVars
    <2> QED
      BY <2>1, JustifiedStays DEF ScopeFine
  <1>5. ASSUME NEW r \in Requests, IntentReady(r) PROVE ScopeFine'
    <2>1. cancelled' = cancelled /\ doomed' = doomed /\ result' = result
      BY <1>5 DEF IntentReady, scopeVars
    <2> QED
      BY <2>1, JustifiedStays DEF ScopeFine
  <1>6. ASSUME NEW r \in Requests, IntentJudged(r) PROVE ScopeFine'
    <2>1. cancelled' = cancelled /\ doomed' = doomed /\ result' = result
      BY <1>6 DEF IntentJudged, scopeVars
    <2> QED
      BY <2>1, JustifiedStays DEF ScopeFine
  <1>7. ASSUME NEW r \in Requests, Authorize(r) PROVE ScopeFine'
    <2>1. cancelled' = cancelled /\ doomed' = doomed /\ result' = result
      BY <1>7 DEF Authorize, scopeVars
    <2> QED
      BY <2>1, JustifiedStays DEF ScopeFine
  <1>8. ASSUME NEW r \in Requests, Build(r) PROVE ScopeFine'
    <2>1. cancelled' = cancelled /\ doomed' = doomed /\ result' = result
      BY <1>8 DEF Build, scopeVars
    <2> QED
      BY <2>1, JustifiedStays DEF ScopeFine
  <1>9. ASSUME NEW r \in Requests, Insert(r) PROVE ScopeFine'
    <2>1. cancelled' = cancelled /\ doomed' = doomed /\ result' = result
      BY <1>9 DEF Insert, scopeVars
    <2> QED
      BY <2>1, JustifiedStays DEF ScopeFine
  <1>10. ASSUME NEW r \in Requests, Register(r) PROVE ScopeFine'
    <2>1. /\ cancelled' = cancelled /\ result' = result
          /\ doomed' = IF TraceOf[r] \in cancelled THEN doomed \cup {r} ELSE doomed
      BY <1>10 DEF Register, Scope!Begin
    <2> QED
      BY <2>1, JustifiedStays DEF ScopeFine
  <1>11. ASSUME NEW r \in Requests, CallReturned(r) PROVE ScopeFine'
    <2>1. /\ cancelled' = cancelled /\ doomed' \subseteq doomed
          /\ \A p \in Requests : result'[p] = "cancelled" => result[p] = "cancelled" \/ p \in doomed
      BY <1>11, Types DEF CallReturned, Scope!End, ScopeTypes
    <2> QED
      BY <2>1, JustifiedStays DEF ScopeFine
  <1>12. ASSUME NEW r \in Requests, CallFailed(r) PROVE ScopeFine'
    <2>1. /\ cancelled' = cancelled /\ doomed' \subseteq doomed
          /\ \A p \in Requests : result'[p] = "cancelled" => result[p] = "cancelled" \/ p \in doomed
      BY <1>12, Types DEF CallFailed, Scope!End, ScopeTypes
    <2> QED
      BY <2>1, JustifiedStays DEF ScopeFine
  <1>13. ASSUME NEW r \in Requests, CallBroken(r) PROVE ScopeFine'
    <2>1. /\ cancelled' = cancelled /\ doomed' \subseteq doomed
          /\ \A p \in Requests : result'[p] = "cancelled" => result[p] = "cancelled" \/ p \in doomed
      BY <1>13, Types DEF CallBroken, Scope!End, ScopeTypes
    <2> QED
      BY <2>1, JustifiedStays DEF ScopeFine
  <1>14. ASSUME NEW r \in Requests, CallCancelled(r) PROVE ScopeFine'
    <2>1. /\ cancelled' = cancelled /\ doomed' \subseteq doomed
          /\ \A p \in Requests : result'[p] = "cancelled" => result[p] = "cancelled" \/ p \in doomed
      BY <1>14, Types DEF CallCancelled, Scope!End, ScopeTypes
    <2> QED
      BY <2>1, JustifiedStays DEF ScopeFine
  <1>15. ASSUME NEW r \in Requests, CancelArrives(r) PROVE ScopeFine'
    <2>1. cancelled' = cancelled /\ result' = result /\ doomed' = doomed \cup {r} /\ TraceOf[r] \in cancelled
      BY <1>15 DEF CancelArrives, Scope!Doom
    <2> QED
      BY <2>1, JustifiedStays DEF ScopeFine
  <1>16. ASSUME NEW t \in Threads, NEW j \in Jtis, RevokeToken(t, j) PROVE ScopeFine'
    <2>1. cancelled' = cancelled /\ doomed' = doomed /\ result' = result
      BY <1>16 DEF RevokeToken, scopeVars
    <2> QED
      BY <2>1, JustifiedStays DEF ScopeFine
  <1>17. ASSUME NEW t \in Threads, ListTree(t) PROVE ScopeFine'
    <2>1. cancelled' = cancelled /\ doomed' = doomed /\ result' = result
      BY <1>17 DEF ListTree, scopeVars
    <2> QED
      BY <2>1, JustifiedStays DEF ScopeFine
  <1>18. ASSUME NEW t \in Threads, UpdateTree(t) PROVE ScopeFine'
    <2>1. cancelled' = cancelled /\ doomed' = doomed /\ result' = result
      BY <1>18 DEF UpdateTree, scopeVars
    <2> QED
      BY <2>1, JustifiedStays DEF ScopeFine
  <1>19. ASSUME NEW t \in Threads, RevokeAnswers(t) PROVE ScopeFine'
    <2>1. cancelled' = cancelled /\ doomed' = doomed /\ result' = result
      BY <1>19 DEF RevokeAnswers, scopeVars
    <2> QED
      BY <2>1, JustifiedStays DEF ScopeFine
  <1>20. ASSUME NEW t \in Threads, NEW tr \in Traces, CancelTrace(t, tr) PROVE ScopeFine'
    <2>1. cancelled' = cancelled \cup {tr} /\ result' = result /\ tr \in todo[t]
      BY <1>20 DEF CancelTrace, Scope!Cancel
    <2>2. \A p \in doomed' : p \in doomed \/ TraceOf[p] = tr
      BY <1>20 DEF CancelTrace, Scope!Cancel
    <2>3. Justified(tr)
      BY <2>1 DEF RoutesFine, RouteFine
    <2> QED
      BY <2>1, <2>2, <2>3, JustifiedStays DEF ScopeFine
  <1>21. CASE UNCHANGED vars
    BY <1>21 DEF vars, storeVars, handlerVars, scopeVars, revokeVars, ScopeFine, Justified
  <1> QED
    BY <1>1, <1>2, <1>3, <1>4, <1>5, <1>6, <1>7, <1>8, <1>9, <1>10, <1>11, <1>12, <1>13, <1>14, <1>15,
       <1>16, <1>17, <1>18, <1>19, <1>20, <1>21 DEF Next

LEMMA AnsweredStep ==
  ASSUME TypeOK, CredsFine, AsksFine, RoutesFine, AnsweredFine, [Next]_vars
  PROVE AnsweredFine'
  <1>1. ASSUME NEW j \in Jtis, NEW q \in TokenAsks, NEW ttl \in 1 .. MaxTTL, CreateToken(j, q, ttl)
        PROVE AnsweredFine'
    <2>1. answered' = answered
      BY <1>1 DEF CreateToken, revokeVars
    <2> QED
      BY <2>1, MarksStay DEF AnsweredFine
  <1>2. ASSUME Tick PROVE AnsweredFine'
    <2>1. answered' = answered
      BY <1>2 DEF Tick, revokeVars
    <2> QED
      BY <2>1, MarksStay DEF AnsweredFine
  <1>3. ASSUME NEW r \in Requests, NEW j \in Jtis, NEW q \in CallAsks, RootTask(r, j, q)
        PROVE AnsweredFine'
    <2>1. answered' = answered
      BY <1>3 DEF RootTask, revokeVars
    <2> QED
      BY <2>1, MarksStay DEF AnsweredFine
  <1>4. ASSUME NEW r \in Requests, NEW j \in Jtis, NEW q \in CallAsks,
            NEW relayed \in creds \cup {<<>>}, AgentTask(r, j, relayed, q)
        PROVE AnsweredFine'
    <2>1. answered' = answered
      BY <1>4 DEF AgentTask, revokeVars
    <2> QED
      BY <2>1, MarksStay DEF AnsweredFine
  <1>5. ASSUME NEW r \in Requests, IntentReady(r) PROVE AnsweredFine'
    <2>1. answered' = answered
      BY <1>5 DEF IntentReady, revokeVars
    <2> QED
      BY <2>1, MarksStay DEF AnsweredFine
  <1>6. ASSUME NEW r \in Requests, IntentJudged(r) PROVE AnsweredFine'
    <2>1. answered' = answered
      BY <1>6 DEF IntentJudged, revokeVars
    <2> QED
      BY <2>1, MarksStay DEF AnsweredFine
  <1>7. ASSUME NEW r \in Requests, Authorize(r) PROVE AnsweredFine'
    <2>1. answered' = answered
      BY <1>7 DEF Authorize, revokeVars
    <2> QED
      BY <2>1, MarksStay DEF AnsweredFine
  <1>8. ASSUME NEW r \in Requests, Build(r) PROVE AnsweredFine'
    <2>1. answered' = answered
      BY <1>8 DEF Build, revokeVars
    <2> QED
      BY <2>1, MarksStay DEF AnsweredFine
  <1>9. ASSUME NEW r \in Requests, Insert(r) PROVE AnsweredFine'
    <2>1. answered' = answered
      BY <1>9 DEF Insert, revokeVars
    <2> QED
      BY <2>1, MarksStay DEF AnsweredFine
  <1>10. ASSUME NEW r \in Requests, Register(r) PROVE AnsweredFine'
    <2>1. answered' = answered
      BY <1>10 DEF Register, revokeVars
    <2> QED
      BY <2>1, MarksStay DEF AnsweredFine
  <1>11. ASSUME NEW r \in Requests, CallReturned(r) PROVE AnsweredFine'
    <2>1. answered' = answered
      BY <1>11 DEF CallReturned, revokeVars
    <2> QED
      BY <2>1, MarksStay DEF AnsweredFine
  <1>12. ASSUME NEW r \in Requests, CallFailed(r) PROVE AnsweredFine'
    <2>1. answered' = answered
      BY <1>12 DEF CallFailed, revokeVars
    <2> QED
      BY <2>1, MarksStay DEF AnsweredFine
  <1>13. ASSUME NEW r \in Requests, CallBroken(r) PROVE AnsweredFine'
    <2>1. answered' = answered
      BY <1>13 DEF CallBroken, revokeVars
    <2> QED
      BY <2>1, MarksStay DEF AnsweredFine
  <1>14. ASSUME NEW r \in Requests, CallCancelled(r) PROVE AnsweredFine'
    <2>1. answered' = answered
      BY <1>14 DEF CallCancelled, revokeVars
    <2> QED
      BY <2>1, MarksStay DEF AnsweredFine
  <1>15. ASSUME NEW r \in Requests, CancelArrives(r) PROVE AnsweredFine'
    <2>1. answered' = answered
      BY <1>15 DEF CancelArrives, revokeVars
    <2> QED
      BY <2>1, MarksStay DEF AnsweredFine
  <1>16. ASSUME NEW t \in Threads, NEW j \in Jtis, RevokeToken(t, j) PROVE AnsweredFine'
    <2>1. answered' = answered
      BY <1>16 DEF RevokeToken, revokeVars
    <2> QED
      BY <2>1, MarksStay DEF AnsweredFine
  <1>17. ASSUME NEW t \in Threads, ListTree(t) PROVE AnsweredFine'
    <2>1. answered' = answered
      BY <1>17 DEF ListTree, revokeVars
    <2> QED
      BY <2>1, MarksStay DEF AnsweredFine
  <1>18. ASSUME NEW t \in Threads, UpdateTree(t) PROVE AnsweredFine'
    <2>1. answered' = answered
      BY <1>18 DEF UpdateTree, revokeVars
    <2> QED
      BY <2>1, MarksStay DEF AnsweredFine
  <1>19. ASSUME NEW t \in Threads, RevokeAnswers(t) PROVE AnsweredFine'
    <2>1. answered' = answered \cup {job[t]} /\ pc[t] = "cancel"
      BY <1>19 DEF RevokeAnswers
    <2>2. Len(job[t]) = 1 /\ job[t] \in revoked
      BY <2>1 DEF RoutesFine, RouteFine
    <2> QED
      BY <2>1, <2>2, MarksStay DEF AnsweredFine
  <1>20. ASSUME NEW t \in Threads, NEW tr \in Traces, CancelTrace(t, tr) PROVE AnsweredFine'
    <2>1. answered' = answered
      BY <1>20 DEF CancelTrace, revokeVars
    <2> QED
      BY <2>1, MarksStay DEF AnsweredFine
  <1>21. CASE UNCHANGED vars
    BY <1>21 DEF vars, storeVars, handlerVars, scopeVars, revokeVars, AnsweredFine
  <1> QED
    BY <1>1, <1>2, <1>3, <1>4, <1>5, <1>6, <1>7, <1>8, <1>9, <1>10, <1>11, <1>12, <1>13, <1>14, <1>15,
       <1>16, <1>17, <1>18, <1>19, <1>20, <1>21 DEF Next

LEMMA RevokingStep ==
  ASSUME TypeOK, CredsFine, AsksFine, ChildrenFine, RoutesFine, Revoking, [Next]_vars
  PROVE Revoking'
  <1>1. ASSUME NEW j \in Jtis, NEW q \in TokenAsks, NEW ttl \in 1 .. MaxTTL, CreateToken(j, q, ttl)
        PROVE Revoking'
    <2>1. UNCHANGED <<child, revoked, cancelled, todo>>
      BY <1>1 DEF CreateToken, storeVars, handlerVars, scopeVars, revokeVars
    <2> QED
      BY <2>1 DEF Revoking
  <1>2. ASSUME Tick PROVE Revoking'
    <2>1. UNCHANGED <<child, revoked, cancelled, todo>>
      BY <1>2 DEF Tick, storeVars, handlerVars, scopeVars, revokeVars
    <2> QED
      BY <2>1 DEF Revoking
  <1>3. ASSUME NEW r \in Requests, NEW j \in Jtis, NEW q \in CallAsks, RootTask(r, j, q)
        PROVE Revoking'
    <2>1. UNCHANGED <<child, revoked, cancelled, todo>>
      BY <1>3 DEF RootTask, storeVars, handlerVars, scopeVars, revokeVars
    <2> QED
      BY <2>1 DEF Revoking
  <1>4. ASSUME NEW r \in Requests, NEW j \in Jtis, NEW q \in CallAsks,
            NEW relayed \in creds \cup {<<>>}, AgentTask(r, j, relayed, q)
        PROVE Revoking'
    <2>1. UNCHANGED <<child, revoked, cancelled, todo>>
      BY <1>4 DEF AgentTask, storeVars, handlerVars, scopeVars, revokeVars
    <2> QED
      BY <2>1 DEF Revoking
  <1>5. ASSUME NEW r \in Requests, IntentReady(r) PROVE Revoking'
    <2>1. UNCHANGED <<child, revoked, cancelled, todo>>
      BY <1>5 DEF IntentReady, storeVars, handlerVars, scopeVars, revokeVars
    <2> QED
      BY <2>1 DEF Revoking
  <1>6. ASSUME NEW r \in Requests, IntentJudged(r) PROVE Revoking'
    <2>1. UNCHANGED <<child, revoked, cancelled, todo>>
      BY <1>6 DEF IntentJudged, storeVars, handlerVars, scopeVars, revokeVars
    <2> QED
      BY <2>1 DEF Revoking
  <1>7. ASSUME NEW r \in Requests, Authorize(r) PROVE Revoking'
    <2>1. UNCHANGED <<child, revoked, cancelled, todo>>
      BY <1>7 DEF Authorize, storeVars, handlerVars, scopeVars, revokeVars
    <2> QED
      BY <2>1 DEF Revoking
  <1>8. ASSUME NEW r \in Requests, Build(r) PROVE Revoking'
    <2>1. UNCHANGED <<child, revoked, cancelled, todo>>
      BY <1>8 DEF Build, storeVars, handlerVars, scopeVars, revokeVars
    <2> QED
      BY <2>1 DEF Revoking
  <1>9. ASSUME NEW r \in Requests, Insert(r) PROVE Revoking'
    <2> DEFINE c == ChildOf(r)
    <2>1. /\ revoked' = revoked \ {c} /\ child' = [child EXCEPT ![r] = c]
          /\ UNCHANGED <<cancelled, todo>>
      BY <1>9 DEF Insert, ChildOf, scopeVars, revokeVars
    <2> HIDE DEF c
    <2>2. \A p \in Requests : child'[p] = IF p = r THEN c ELSE child[p]
      BY <2>1, Types DEF HandlerTypes
    <2> QED
      BY <2>1, <2>2 DEF Revoking
  <1>10. ASSUME NEW r \in Requests, Register(r) PROVE Revoking'
    <2>1. UNCHANGED <<child, revoked, cancelled, todo>>
      BY <1>10 DEF Register, Scope!Begin, storeVars, handlerVars, scopeVars, revokeVars
    <2> QED
      BY <2>1 DEF Revoking
  <1>11. ASSUME NEW r \in Requests, CallReturned(r) PROVE Revoking'
    <2>1. UNCHANGED <<child, revoked, cancelled, todo>>
      BY <1>11 DEF CallReturned, Scope!End, storeVars, handlerVars, scopeVars, revokeVars
    <2> QED
      BY <2>1 DEF Revoking
  <1>12. ASSUME NEW r \in Requests, CallFailed(r) PROVE Revoking'
    <2>1. UNCHANGED <<child, revoked, cancelled, todo>>
      BY <1>12 DEF CallFailed, Scope!End, storeVars, handlerVars, scopeVars, revokeVars
    <2> QED
      BY <2>1 DEF Revoking
  <1>13. ASSUME NEW r \in Requests, CallBroken(r) PROVE Revoking'
    <2>1. UNCHANGED <<child, revoked, cancelled, todo>>
      BY <1>13 DEF CallBroken, Scope!End, storeVars, handlerVars, scopeVars, revokeVars
    <2> QED
      BY <2>1 DEF Revoking
  <1>14. ASSUME NEW r \in Requests, CallCancelled(r) PROVE Revoking'
    <2>1. UNCHANGED <<child, revoked, cancelled, todo>>
      BY <1>14 DEF CallCancelled, Scope!End, storeVars, handlerVars, scopeVars, revokeVars
    <2> QED
      BY <2>1 DEF Revoking
  <1>15. ASSUME NEW r \in Requests, CancelArrives(r) PROVE Revoking'
    <2>1. UNCHANGED <<child, revoked, cancelled, todo>>
      BY <1>15 DEF CancelArrives, Scope!Doom, storeVars, handlerVars, scopeVars, revokeVars
    <2> QED
      BY <2>1 DEF Revoking
  <1>16. ASSUME NEW t \in Threads, NEW j \in Jtis, RevokeToken(t, j) PROVE Revoking'
    <2>1. UNCHANGED <<child, revoked, cancelled, todo>>
      BY <1>16 DEF RevokeToken, storeVars, handlerVars, scopeVars, revokeVars
    <2> QED
      BY <2>1 DEF Revoking
  <1>17. ASSUME NEW t \in Threads, ListTree(t) PROVE Revoking'
    <2>1. UNCHANGED <<child, revoked, cancelled, todo>>
      BY <1>17 DEF ListTree, storeVars, handlerVars, scopeVars, revokeVars
    <2> QED
      BY <2>1 DEF Revoking
  <1>18. ASSUME NEW t \in Threads, UpdateTree(t) PROVE Revoking'
    <2> SUFFICES ASSUME NEW p \in Requests, child'[p] # <<>>, child'[p] \in revoked'
                 PROVE (TraceOf[p] \in cancelled \/ \E u \in Threads : TraceOf[p] \in todo[u])'
      BY DEF Revoking
    <2>1. /\ pc[t] = "update" /\ child' = child /\ cancelled' = cancelled
          /\ revoked' = revoked \cup snapshot[t]
          /\ todo' = [todo EXCEPT ![t] = {BoundTrace(c) : c \in snapshot[t]} \ {None}]
      BY <1>18 DEF UpdateTree, handlerVars, scopeVars
    <2>2. todo[t] = {}
      BY <2>1 DEF RoutesFine, RouteFine
    <2>3. todo \in [Threads -> SUBSET Traces]
      BY Types DEF RouteTypes
    <2>4. CASE child[p] \in revoked
      <3>1. TraceOf[p] \in cancelled \/ \E u \in Threads : TraceOf[p] \in todo[u]
        BY <2>1, <2>4 DEF Revoking
      <3>2. CASE TraceOf[p] \in cancelled
        BY <2>1, <3>2
      <3>3. CASE \E u \in Threads : TraceOf[p] \in todo[u]
        <4>1. PICK u \in Threads : TraceOf[p] \in todo[u]
          BY <3>3
        <4>2. u # t
          BY <2>2, <4>1
        <4> QED
          BY <2>1, <2>3, <4>1, <4>2
      <3> QED
        BY <3>1, <3>2, <3>3
    <2>5. CASE child[p] \in snapshot[t]
      <3>1. BoundTrace(child[p]) = TraceOf[p]
        BY <2>1 DEF ChildrenFine, ChildFine
      <3>2. TraceOf[p] # None
        BY RequestsAssumption, NoneAssumption
      <3>3. TraceOf[p] \in {BoundTrace(c) : c \in snapshot[t]} \ {None}
        BY <2>5, <3>1, <3>2
      <3>4. todo'[t] = {BoundTrace(c) : c \in snapshot[t]} \ {None}
        BY <2>1, <2>3
      <3> QED
        BY <3>3, <3>4
    <2> QED
      BY <2>1, <2>4, <2>5
  <1>19. ASSUME NEW t \in Threads, RevokeAnswers(t) PROVE Revoking'
    <2>1. UNCHANGED <<child, revoked, cancelled, todo>>
      BY <1>19 DEF RevokeAnswers, storeVars, handlerVars, scopeVars, revokeVars
    <2> QED
      BY <2>1 DEF Revoking
  <1>20. ASSUME NEW t \in Threads, NEW tr \in Traces, CancelTrace(t, tr) PROVE Revoking'
    <2>1. /\ cancelled' = cancelled \cup {tr} /\ todo' = [todo EXCEPT ![t] = todo[t] \ {tr}]
          /\ UNCHANGED <<child, revoked>>
      BY <1>20 DEF CancelTrace, Scope!Cancel, storeVars, handlerVars
    <2>2. \A u \in Threads : todo'[u] = IF u = t THEN todo[t] \ {tr} ELSE todo[u]
      BY <2>1, Types DEF RouteTypes
    <2>3. \A p \in Requests : (TraceOf[p] \in cancelled \/ \E u \in Threads : TraceOf[p] \in todo[u])
            => (TraceOf[p] \in cancelled' \/ \E u \in Threads : TraceOf[p] \in todo'[u])
      BY <2>1, <2>2
    <2> QED
      BY <2>1, <2>3 DEF Revoking
  <1>21. CASE UNCHANGED vars
    BY <1>21 DEF vars, storeVars, handlerVars, scopeVars, revokeVars, Revoking
  <1> QED
    BY <1>1, <1>2, <1>3, <1>4, <1>5, <1>6, <1>7, <1>8, <1>9, <1>10, <1>11, <1>12, <1>13, <1>14, <1>15,
       <1>16, <1>17, <1>18, <1>19, <1>20, <1>21 DEF Next

-----------------------------------------------------------------------------
(* The invariant.                                                          *)

LEMMA InitIInv == Init => IInv
  <1> SUFFICES ASSUME Init PROVE IInv
    OBVIOUS
  <1>1. TypeOK
    <2>1. StoreTypes /\ ScopeTypes /\ RouteTypes
      BY BoundsAssumption DEF Init, Scope!Init, ActorTypes, StoreTypes, ScopeTypes, RouteTypes
    <2>2. HandlerTypes
      BY DEF Init, HandlerTypes, Stages, Responses
    <2> QED
      BY <2>1, <2>2, Types
  <1>2. CredsFine /\ AsksFine /\ AnsweredFine
    BY DEF Init, CredsFine, AsksFine, AskFine, AnsweredFine
  <1>3. ChildrenFine /\ LogsFine /\ Revoking
    BY DEF Init, Scope!Init, ChildrenFine, ChildFine, LogsFine, LogFine, Revoking
  <1>4. RoutesFine /\ ScopeFine
    BY DEF Init, Scope!Init, RoutesFine, RouteFine, ScopeFine
  <1> QED
    BY <1>1, <1>2, <1>3, <1>4 DEF IInv

LEMMA StepIInv == IInv /\ [Next]_vars => IInv'
  <1> SUFFICES ASSUME IInv, [Next]_vars PROVE IInv'
    OBVIOUS
  <1>1. TypeOK'
    <2>1. StoreTypes' /\ HandlerTypes' /\ ScopeTypes' /\ RouteTypes'
      BY StoreStep, HandlerStep, ScopeStep, RouteStep DEF IInv
    <2> QED
      BY <2>1 DEF TypeOK, StoreTypes, HandlerTypes, ScopeTypes, RouteTypes
  <1>2. CredsFine' /\ AsksFine' /\ ChildrenFine' /\ LogsFine'
    BY CredsStep, AsksStep, ChildrenStep, LogsStep DEF IInv
  <1>3. RoutesFine' /\ ScopeFine' /\ AnsweredFine' /\ Revoking'
    BY RoutesStep, ScopeFineStep, AnsweredStep, RevokingStep DEF IInv
  <1> QED
    BY <1>1, <1>2, <1>3 DEF IInv

\* IInv is an invariant of the gateway.
THEOREM Invariance == Spec => []IInv
  BY InitIInv, StepIInv, PTL DEF Spec

-----------------------------------------------------------------------------
(* What follows.                                                           *)

\* The stores, the handlers, the task registry and the revoke threads keep to
\* their types; whatever is forwarded, tracked or answered is stored.
THEOREM TypeCorrect == Spec => []TypeOK
  BY Invariance, PTL DEF IInv

\* The mark revoke_credential_tree sets on a call's credential and the task
\* registry agree, however the steps of routes and threads interleave.
THEOREM MarkedCallsAreCancelled == Spec => []RevokedCallsCancelled
  <1>1. IInv => RevokedCallsCancelled
    BY DEF IInv, RevokedCallsCancelled, Revoking, ChildrenFine, ChildFine
  <1> QED
    BY <1>1, Invariance, PTL

\* No call is cancelled for any reason but the revocation of a token that has
\* delegated in its trace: not an expiry, not a token of another trace.
THEOREM CancellationsAreJustified == Spec => []CancelledByRevocation
  <1>1. IInv => CancelledByRevocation
    BY DEF IInv, CancelledByRevocation, ScopeFine, Justified
  <1> QED
    BY <1>1, Invariance, PTL

\* What authorize and build_child_auth_context let an agent delegate is within
\* its own and the target's capabilities, for chains of any length, whatever the
\* request says; and within the user's, if it relays the user's list of its credential.
THEOREM CallsAreConfined == Spec => []AgentCallsConfined
  <1>1. IInv => AgentCallsConfined
    BY DEF IInv, AgentCallsConfined, ChildrenFine, ChildFine, Confined, InUserList
  <1> QED
    BY <1>1, Invariance, PTL

\* The rows a request leaves in audit_logs agree with what its caller was told.
THEOREM LogsAgree == Spec => []AuditAgrees
  <1>1. IInv => AuditAgrees
    <2> SUFFICES ASSUME IInv, NEW r \in Requests
                 PROVE /\ phase[r] = "active" => log[r] = <<"allow">>
                       /\ response[r] = "ok" => log[r] = <<"allow">>
                       /\ response[r] = "refused" => log[r] \in {<<"deny">>, <<"allow", "deny">>}
                       /\ response[r] = "cancelled" => log[r][1] = "allow" /\ log[r][Len(log[r])] = "deny"
                       /\ response[r] = "failed" /\ r \notin RootTasks => log[r] = <<"allow", "deny">>
      BY DEF AuditAgrees
    <2>1. LogFine(r)
      BY DEF IInv, LogsFine
    <2>2. \A s \in CancelRows : s[1] = "allow" /\ s[Len(s)] = "deny"
      BY DEF CancelRows
    <2> QED
      BY <2>1, <2>2 DEF LogFine
  <1> QED
    BY <1>1, Invariance, PTL

\* A handler that was waiting for the intent provider or the judge while a
\* revocation was answered delegates nothing below the revoked token.
THEOREM RevocationStopsDelegation == Spec => NothingFromRevoked
  <1>1. IInv /\ [Next]_vars => [\A r \in Requests : stage[r] = "building" /\ stage'[r] = "inserting"
                                  => Path(ask[r].cred, 1) \notin answered]_vars
    <2> SUFFICES ASSUME IInv, Next, NEW p \in Requests, stage[p] = "building", stage'[p] = "inserting"
                 PROVE Path(ask[p].cred, 1) \notin answered
      OBVIOUS
    <2>1. Build(p)
      <3>1. ASSUME NEW j \in Jtis, NEW q \in TokenAsks, NEW ttl \in 1 .. MaxTTL, CreateToken(j, q, ttl)
            PROVE Build(p)
        BY <3>1, Types DEF CreateToken, IInv, HandlerTypes, handlerVars
      <3>2. ASSUME Tick PROVE Build(p)
        BY <3>2, Types DEF Tick, IInv, HandlerTypes, handlerVars
      <3>3. ASSUME NEW r \in Requests, NEW j \in Jtis, NEW q \in CallAsks, RootTask(r, j, q)
            PROVE Build(p)
        BY <3>3, Types DEF RootTask, Proceed, Refuse, Answer, IInv, HandlerTypes, handlerVars
      <3>4. ASSUME NEW r \in Requests, NEW j \in Jtis, NEW q \in CallAsks,
                NEW relayed \in creds \cup {<<>>}, AgentTask(r, j, relayed, q)
            PROVE Build(p)
        BY <3>4, Types DEF AgentTask, Proceed, Refuse, Answer, IInv, HandlerTypes, handlerVars
      <3>5. ASSUME NEW r \in Requests, IntentReady(r) PROVE Build(p)
        BY <3>5, Types DEF IntentReady, Proceed, Refuse, Crash, Answer, IInv, HandlerTypes, handlerVars
      <3>6. ASSUME NEW r \in Requests, IntentJudged(r) PROVE Build(p)
        BY <3>6, Types DEF IntentJudged, Proceed, Refuse, Crash, Answer, IInv, HandlerTypes, handlerVars
      <3>7. ASSUME NEW r \in Requests, Authorize(r) PROVE Build(p)
        BY <3>7, Types DEF Authorize, Proceed, Refuse, Answer, IInv, HandlerTypes, handlerVars
      <3>8. ASSUME NEW r \in Requests, Build(r) PROVE Build(p)
        BY <3>8, Types DEF Build, Proceed, Refuse, Answer, IInv, HandlerTypes, handlerVars
      <3>9. ASSUME NEW r \in Requests, Insert(r) PROVE Build(p)
        BY <3>9, Types DEF Insert, Proceed, IInv, HandlerTypes, handlerVars
      <3>10. ASSUME NEW r \in Requests, Register(r) PROVE Build(p)
        BY <3>10, Types DEF Register, Proceed, IInv, HandlerTypes, handlerVars
      <3>11. ASSUME NEW r \in Requests, CallReturned(r) PROVE Build(p)
        BY <3>11, Types DEF CallReturned, Answer, IInv, HandlerTypes, handlerVars
      <3>12. ASSUME NEW r \in Requests, CallFailed(r) PROVE Build(p)
        BY <3>12, Types DEF CallFailed, Answer, IInv, HandlerTypes, handlerVars
      <3>13. ASSUME NEW r \in Requests, CallBroken(r) PROVE Build(p)
        BY <3>13, Types DEF CallBroken, Crash, Answer, IInv, HandlerTypes, handlerVars
      <3>14. ASSUME NEW r \in Requests, CallCancelled(r) PROVE Build(p)
        BY <3>14, Types DEF CallCancelled, Answer, IInv, HandlerTypes, handlerVars
      <3>15. ASSUME NEW r \in Requests, CancelArrives(r) PROVE Build(p)
        BY <3>15, Types DEF CancelArrives, IInv, HandlerTypes, handlerVars
      <3>16. ASSUME NEW t \in Threads, NEW j \in Jtis, RevokeToken(t, j) PROVE Build(p)
        BY <3>16, Types DEF RevokeToken, IInv, HandlerTypes, handlerVars
      <3>17. ASSUME NEW t \in Threads, ListTree(t) PROVE Build(p)
        BY <3>17, Types DEF ListTree, IInv, HandlerTypes, handlerVars
      <3>18. ASSUME NEW t \in Threads, UpdateTree(t) PROVE Build(p)
        BY <3>18, Types DEF UpdateTree, IInv, HandlerTypes, handlerVars
      <3>19. ASSUME NEW t \in Threads, RevokeAnswers(t) PROVE Build(p)
        BY <3>19, Types DEF RevokeAnswers, IInv, HandlerTypes, handlerVars
      <3>20. ASSUME NEW t \in Threads, NEW tr \in Traces, CancelTrace(t, tr) PROVE Build(p)
        BY <3>20, Types DEF CancelTrace, IInv, HandlerTypes, handlerVars
      <3> QED
        BY <3>1, <3>2, <3>3, <3>4, <3>5, <3>6, <3>7, <3>8, <3>9, <3>10, <3>11, <3>12, <3>13, <3>14,
           <3>15, <3>16, <3>17, <3>18, <3>19, <3>20 DEF Next
    <2>2. stage'[p] # "answered"
      OBVIOUS
    <2>3. ValidBranch(creds, revoked, now, ask[p].cred)
      <3>1. Refuse(p) => stage'[p] = "answered"
        BY Types DEF Refuse, Answer, IInv, HandlerTypes
      <3> QED
        BY <2>1, <2>2, <3>1 DEF Build
    <2>4. ask[p].cred \in Credential
      BY Types DEF IInv, HandlerTypes, Ask
    <2>5. 1 \in 1 .. Len(ask[p].cred)
      BY <2>4, CredentialLen
    <2>6. Path(ask[p].cred, 1) \notin revoked
      BY <2>3, <2>5 DEF ValidBranch
    <2> QED
      BY <2>6 DEF IInv, AnsweredFine
  <1> QED
    BY <1>1, Invariance, PTL DEF NothingFromRevoked, Spec

-----------------------------------------------------------------------------
(* What ties a handler to its stage and a row to who made it.              *)

Keeping == {"authorizing", "building", "inserting", "registering"}

\* The stages from the judge's answer to the call keep the loop; what a handler
\* delegates from is a root or belongs to its trace; its child comes last.
HandlerFine(r) ==
  /\ stage[r] \in Keeping <=> loop = r
  /\ stage[r] \notin {"idle", "answered"} => BoundTrace(ask[r].cred) \in {None, TraceOf[r]}
  /\ child[r] # <<>> => stage[r] \in {"registering", "forwarded", "answered"}

\* Every row is a token's root or one request's child, and so is its every
\* ancestor.
RowsFine ==
  /\ \A j \in Jtis : token[j] # <<>> => token[j] \in creds /\ token[j][1].req = j
  /\ \A c \in creds : Len(c) = 1 => BoundTrace(c) = None /\ \E j \in Jtis : token[j] = c
  /\ \A c \in creds : \A k \in 2 .. Len(c) : c[k].req \in Requests /\ child[c[k].req] = Path(c, k)

HandlersFine == \A r \in Requests : HandlerFine(r)

\* A handler takes its request or refuses it.
Taken(r) ==
  /\ stage[r] = "idle" /\ UNCHANGED <<child, creds, token>>
  /\ loop = None /\ loop' = None
  /\ \A q \in Requests \ {r} : ask'[q] = ask[q]
  /\ \/ stage' = [stage EXCEPT ![r] = "answered"]
     \/ /\ stage' = [stage EXCEPT ![r] = "generating"]
        /\ BoundTrace(ask'[r].cred) \in {None, TraceOf[r]}

\* A handler goes on to stage s or ends.
Goes(r, s) ==
  /\ loop \in {None, r}
  /\ stage[r] \notin {"idle", "answered", "inserting"}
  /\ s \in Stages \ {"idle", "registering"}
  /\ s = "inserting" => stage[r] = "building"
  /\ stage[r] \in {"registering", "forwarded"} => s \in {"forwarded", "answered"}
  /\ stage' = [stage EXCEPT ![r] = s]
  /\ loop' = IF s \in Keeping THEN r ELSE None
  /\ UNCHANGED <<ask, child, creds, token>>

LEMMA Moves ==
  ASSUME IInv, RowsFine, [Next]_vars
  PROVE \/ \E j \in Jtis, q \in TokenAsks, ttl \in 1 .. MaxTTL : CreateToken(j, q, ttl)
        \/ \E r \in Requests : Taken(r) \/ Insert(r) \/ \E s \in Stages : Goes(r, s)
        \/ UNCHANGED <<stage, ask, child, loop, creds, token>>
  <1> DEFINE Made == \E j \in Jtis, q \in TokenAsks, ttl \in 1 .. MaxTTL : CreateToken(j, q, ttl)
             Same == UNCHANGED <<stage, ask, child, loop, creds, token>>
             Moved(r) == Taken(r) \/ Insert(r) \/ \E s \in Stages : Goes(r, s)
             Goal == Made \/ (\E r \in Requests : Moved(r)) \/ Same
  <1>0. /\ HandlerTypes
        /\ \A j \in Jtis : token[j] # <<>> => BoundTrace(token[j]) = None
    BY Types DEF IInv, RowsFine, CredsFine
  <1>1. ASSUME NEW j \in Jtis, NEW q \in TokenAsks, NEW ttl \in 1 .. MaxTTL, CreateToken(j, q, ttl)
        PROVE Made
    BY <1>1
  <1>2. ASSUME Tick PROVE Same
    BY <1>2 DEF Tick, handlerVars, storeVars
  <1>3. ASSUME NEW r \in Requests, NEW j \in Jtis, NEW q \in CallAsks, RootTask(r, j, q)
        PROVE Taken(r)
    <2>1. /\ loop = None /\ stage[r] = "idle" /\ UNCHANGED <<child, creds, token>>
      BY <1>3 DEF RootTask, storeVars
    <2>2. \A p \in Requests \ {r} : ask'[p] = ask[p]
      BY <1>3, <1>0 DEF RootTask, HandlerTypes
    <2>3. \/ /\ Verified(j) /\ stage' = [stage EXCEPT ![r] = "generating"] /\ loop' = None
             /\ ask'[r].cred = token[j]
          \/ stage' = [stage EXCEPT ![r] = "answered"] /\ loop' = None
      BY <1>3, <1>0 DEF RootTask, Proceed, Refuse, Answer, HandlerTypes
    <2>4. Verified(j) => BoundTrace(token[j]) = None
      BY <1>0 DEF Verified
    <2> QED
      BY <2>1, <2>2, <2>3, <2>4 DEF Taken
  <1>4. ASSUME NEW r \in Requests, NEW j \in Jtis, NEW q \in CallAsks,
               NEW relayed \in creds \cup {<<>>}, AgentTask(r, j, relayed, q)
        PROVE Taken(r)
    <2> DEFINE trusted == IF relayed = <<>> THEN token[j] ELSE relayed
    <2>1. /\ loop = None /\ stage[r] = "idle" /\ UNCHANGED <<child, creds, token>>
      BY <1>4 DEF AgentTask, storeVars
    <2>2. \A p \in Requests \ {r} : ask'[p] = ask[p]
      BY <1>4, <1>0 DEF AgentTask, HandlerTypes
    <2>3. \/ /\ Verified(j) /\ (relayed # <<>> => BoundTrace(relayed) \in {None, TraceOf[r]})
             /\ stage' = [stage EXCEPT ![r] = "generating"] /\ loop' = None
             /\ ask'[r].cred = trusted
          \/ stage' = [stage EXCEPT ![r] = "answered"] /\ loop' = None
      BY <1>4, <1>0 DEF AgentTask, Proceed, Refuse, Answer, HandlerTypes
    <2>4. Verified(j) => BoundTrace(token[j]) = None
      BY <1>0 DEF Verified
    <2>5. Verified(j) /\ (relayed # <<>> => BoundTrace(relayed) \in {None, TraceOf[r]})
            => BoundTrace(trusted) \in {None, TraceOf[r]}
      BY <2>4
    <2> HIDE DEF trusted
    <2> QED
      BY <2>1, <2>2, <2>3, <2>5 DEF Taken
  <1>5. ASSUME NEW r \in Requests, IntentReady(r) PROVE \E s \in Stages : Goes(r, s)
    BY <1>5 DEF IntentReady, Proceed, Refuse, Crash, Answer, storeVars, Goes, Keeping, Stages
  <1>6. ASSUME NEW r \in Requests, IntentJudged(r) PROVE \E s \in Stages : Goes(r, s)
    BY <1>6 DEF IntentJudged, Proceed, Refuse, Crash, Answer, storeVars, Goes, Keeping, Stages
  <1>7. ASSUME NEW r \in Requests, Authorize(r) PROVE \E s \in Stages : Goes(r, s)
    BY <1>7 DEF Authorize, Proceed, Refuse, Answer, storeVars, Goes, Keeping, Stages
  <1>8. ASSUME NEW r \in Requests, Build(r) PROVE \E s \in Stages : Goes(r, s)
    BY <1>8 DEF Build, Proceed, Refuse, Answer, storeVars, Goes, Keeping, Stages
  <1>9. ASSUME NEW r \in Requests, Insert(r) PROVE Moved(r)
    BY <1>9
  <1>10. ASSUME NEW r \in Requests, Register(r) PROVE \E s \in Stages : Goes(r, s)
    BY <1>10 DEF Register, Proceed, storeVars, Goes, Keeping, Stages
  <1>11. ASSUME NEW r \in Requests, CallReturned(r) PROVE \E s \in Stages : Goes(r, s)
    BY <1>11 DEF CallReturned, Answer, storeVars, Goes, Keeping, Stages
  <1>12. ASSUME NEW r \in Requests, CallFailed(r) PROVE \E s \in Stages : Goes(r, s)
    BY <1>12 DEF CallFailed, Answer, storeVars, Goes, Keeping, Stages
  <1>13. ASSUME NEW r \in Requests, CallBroken(r) PROVE \E s \in Stages : Goes(r, s)
    BY <1>13 DEF CallBroken, Crash, Answer, storeVars, Goes, Keeping, Stages
  <1>14. ASSUME NEW r \in Requests, CallCancelled(r) PROVE \E s \in Stages : Goes(r, s)
    BY <1>14 DEF CallCancelled, Answer, storeVars, Goes, Keeping, Stages
  <1>15. ASSUME NEW r \in Requests, CancelArrives(r) PROVE Same
    BY <1>15 DEF CancelArrives, handlerVars, storeVars
  <1>16. ASSUME NEW t \in Threads, NEW j \in Jtis, RevokeToken(t, j) PROVE Same
    BY <1>16 DEF RevokeToken, handlerVars, storeVars
  <1>17. ASSUME NEW t \in Threads, ListTree(t) PROVE Same
    BY <1>17 DEF ListTree, handlerVars, storeVars
  <1>18. ASSUME NEW t \in Threads, UpdateTree(t) PROVE Same
    BY <1>18 DEF UpdateTree, handlerVars, storeVars
  <1>19. ASSUME NEW t \in Threads, RevokeAnswers(t) PROVE Same
    BY <1>19 DEF RevokeAnswers, handlerVars, storeVars
  <1>20. ASSUME NEW t \in Threads, NEW tr \in Traces, CancelTrace(t, tr) PROVE Same
    BY <1>20 DEF CancelTrace, handlerVars, storeVars
  <1>21. CASE UNCHANGED vars
    BY <1>21 DEF vars, storeVars, handlerVars
  <1>22. ASSUME NEW r \in Requests,
                \/ \E j \in Jtis, q \in CallAsks :
                     \/ RootTask(r, j, q)
                     \/ \E relayed \in creds \cup {<<>>} : AgentTask(r, j, relayed, q)
                \/ IntentReady(r) \/ IntentJudged(r) \/ Authorize(r) \/ Build(r) \/ Insert(r) \/ Register(r)
                \/ CallReturned(r) \/ CallFailed(r) \/ CallBroken(r) \/ CallCancelled(r) \/ CancelArrives(r)
         PROVE Moved(r) \/ Same
    <2> HIDE DEF Same
    <2> QED
      BY <1>3, <1>4, <1>5, <1>6, <1>7, <1>8, <1>9, <1>10, <1>11, <1>12, <1>13, <1>14, <1>15, <1>22
  <1>23. ASSUME NEW t \in Threads,
                \/ \E j \in Jtis : RevokeToken(t, j)
                \/ ListTree(t) \/ UpdateTree(t) \/ RevokeAnswers(t)
                \/ \E tr \in Traces : CancelTrace(t, tr)
         PROVE Same
    <2> HIDE DEF Same
    <2> QED
      BY <1>16, <1>17, <1>18, <1>19, <1>20, <1>23
  <1>24. ASSUME Next PROVE Goal
    <2>1. CASE \E j \in Jtis, q \in TokenAsks, ttl \in 1 .. MaxTTL : CreateToken(j, q, ttl)
      BY <2>1
    <2> HIDE DEF Made, Same, Moved
    <2> QED
      BY <1>24, <1>2, <1>22, <1>23, <2>1 DEF Next
  <1> QED
    BY <1>24, <1>21

LEMMA FlowStep ==
  ASSUME IInv, HandlersFine, RowsFine, [Next]_vars
  PROVE HandlersFine'
  <1>0. /\ HandlerTypes /\ None \notin Requests
        /\ \A r \in Requests : HandlerFine(r)
    BY Types, NoneAssumption DEF IInv, HandlersFine
  <1> SUFFICES ASSUME NEW p \in Requests PROVE HandlerFine(p)'
    BY DEF HandlersFine
  <1>1. ASSUME NEW j \in Jtis, NEW q \in TokenAsks, NEW ttl \in 1 .. MaxTTL, CreateToken(j, q, ttl)
        PROVE HandlerFine(p)'
    BY <1>0, <1>1 DEF CreateToken, handlerVars, HandlerFine
  <1>2. ASSUME NEW r \in Requests, Taken(r) PROVE HandlerFine(p)'
    <2>1. CASE p = r
      BY <1>0, <1>2, <2>1 DEF Taken, HandlerFine, HandlerTypes, Keeping
    <2>2. CASE p # r
      BY <1>0, <1>2, <2>2 DEF Taken, HandlerFine, HandlerTypes
    <2> QED
      BY <2>1, <2>2
  <1>3. ASSUME NEW r \in Requests, Insert(r) PROVE HandlerFine(p)'
    <2>1. /\ loop = r /\ loop' = r /\ stage[r] = "inserting" /\ UNCHANGED ask
          /\ stage' = [stage EXCEPT ![r] = "registering"]
          /\ \A q \in Requests \ {r} : child'[q] = child[q]
      BY <1>0, <1>3 DEF Insert, Proceed, HandlerTypes
    <2>2. CASE p = r
      BY <1>0, <2>1, <2>2 DEF HandlerFine, HandlerTypes, Keeping
    <2>3. CASE p # r
      BY <1>0, <2>1, <2>3 DEF HandlerFine, HandlerTypes
    <2> QED
      BY <2>2, <2>3
  <1>4. ASSUME NEW r \in Requests, NEW s \in Stages, Goes(r, s) PROVE HandlerFine(p)'
    <2>1. CASE p = r
      <3>1. stage'[r] = s /\ UNCHANGED <<ask, child>> /\ (s \in Keeping <=> loop' = r)
        BY <1>0, <1>4 DEF Goes, HandlerTypes
      <3>2. child[r] # <<>> => s \in {"forwarded", "answered"}
        BY <1>0, <1>4 DEF Goes, HandlerFine
      <3> QED
        BY <1>0, <1>4, <2>1, <3>1, <3>2 DEF Goes, HandlerFine
    <2>2. CASE p # r
      BY <1>0, <1>4, <2>2 DEF Goes, HandlerFine, HandlerTypes
    <2> QED
      BY <2>1, <2>2
  <1>5. CASE UNCHANGED <<stage, ask, child, loop, creds, token>>
    BY <1>0, <1>5 DEF HandlerFine
  <1> QED
    BY <1>1, <1>2, <1>3, <1>4, <1>5, Moves

LEMMA InsertedRow ==
  ASSUME IInv, HandlersFine, NEW r \in Requests, Insert(r)
  PROVE /\ creds' = creds \cup {ChildOf(r)} /\ UNCHANGED token
        /\ child' = [child EXCEPT ![r] = ChildOf(r)] /\ child[r] = <<>>
        /\ ask[r].cred \in creds /\ Len(ChildOf(r)) = Len(ask[r].cred) + 1
        /\ \A k \in 1 .. Len(ask[r].cred) : ChildOf(r)[k] = ask[r].cred[k]
        /\ \A k \in 1 .. Len(ask[r].cred) : Path(ChildOf(r), k) = Path(ask[r].cred, k)
        /\ Path(ChildOf(r), Len(ask[r].cred) + 1) = ChildOf(r)
        /\ ChildOf(r)[Len(ask[r].cred) + 1].req = r
  <1> DEFINE p == ask[r].cred
             l == ChildLink(p, ask[r].target, ask[r].caps, TraceOf[r], r, now)
  <1>1. /\ stage[r] = "inserting" /\ creds' = creds \cup {ChildOf(r)} /\ UNCHANGED token
        /\ child' = [child EXCEPT ![r] = ChildOf(r)]
    BY DEF Insert, ChildOf
  <1>2. ask[r] \in Ask /\ p \in creds /\ p \in Credential /\ child[r] = <<>>
    BY <1>1, Types DEF IInv, HandlerTypes, StoreTypes, AsksFine, AskFine, HandlersFine, HandlerFine
  <1>3. l \in Link /\ l.req = r
    <2>1. p[Len(p)] \in Link /\ now \in Nat /\ TraceOf[r] \in Traces
      BY <1>2, CredentialLen, RequestsAssumption, BoundsAssumption, Types DEF IInv, StoreTypes
    <2>2. ask[r].target \in Agents /\ ask[r].caps \in SUBSET Caps
      BY <1>2 DEF Ask
    <2> QED
      BY <2>1, <2>2 DEF ChildLink, Holder, Link, Principals
  <1>4. ChildOf(r) = Append(p, l)
    BY DEF ChildOf
  <1> HIDE DEF p, l
  <1>5. /\ Len(ChildOf(r)) = Len(p) + 1
        /\ \A k \in 1 .. Len(p) : ChildOf(r)[k] = p[k]
        /\ \A k \in 1 .. Len(p) : Path(ChildOf(r), k) = Path(p, k)
        /\ Path(ChildOf(r), Len(p) + 1) = ChildOf(r)
        /\ ChildOf(r)[Len(p) + 1] = l
    BY <1>2, <1>3, <1>4, ChildFacts
  <1> QED
    BY <1>1, <1>2, <1>3, <1>5 DEF p

LEMMA RowsStep ==
  ASSUME IInv, HandlersFine, RowsFine, [Next]_vars
  PROVE RowsFine'
  <1>0. HandlerTypes /\ StoreTypes
    BY Types DEF IInv
  <1>1. ASSUME NEW j \in Jtis, NEW q \in TokenAsks, NEW ttl \in 1 .. MaxTTL, CreateToken(j, q, ttl)
        PROVE RowsFine'
    <2> DEFINE c == RootOf(j, q, ttl)
    <2>1. /\ creds' = creds \cup {c} /\ token' = [token EXCEPT ![j] = c] /\ UNCHANGED child
          /\ \A d \in creds : d[1].req # j
      BY <1>1 DEF CreateToken, RootOf, handlerVars
    <2>2. c \in Credential /\ Len(c) = 1 /\ BoundTrace(c) = None
      BY RootMade DEF IInv
    <2>3. c[1].req = j
      BY DEF RootOf, RootLink
    <2> HIDE DEF c
    <2>4. token[j] = <<>>
      BY <2>1 DEF RowsFine
    <2>5. \A i \in Jtis : token'[i] # <<>> => token'[i] \in creds' /\ token'[i][1].req = i
      BY <1>0, <2>1, <2>3 DEF RowsFine, StoreTypes
    <2>6. \A d \in creds' : Len(d) = 1 => BoundTrace(d) = None /\ \E i \in Jtis : token'[i] = d
      <3> SUFFICES ASSUME NEW d \in creds', Len(d) = 1
                   PROVE BoundTrace(d) = None /\ \E i \in Jtis : token'[i] = d
        OBVIOUS
      <3>1. CASE d = c
        BY <1>0, <2>1, <2>2, <3>1 DEF StoreTypes
      <3>2. CASE d \in creds
        <4>1. PICK i \in Jtis : token[i] = d
          BY <3>2 DEF RowsFine
        <4>2. i # j
          BY <1>0, <2>4, <3>2, <4>1 DEF StoreTypes, Credential
        <4> QED
          BY <1>0, <2>1, <3>2, <4>1, <4>2 DEF StoreTypes, RowsFine
      <3> QED
        BY <2>1, <3>1, <3>2
    <2>7. \A d \in creds' : \A k \in 2 .. Len(d) : d[k].req \in Requests /\ child'[d[k].req] = Path(d, k)
      <3>1. 2 .. Len(c) = {}
        BY <2>2
      <3> QED
        BY <2>1, <3>1 DEF RowsFine
    <2> QED
      BY <2>5, <2>6, <2>7 DEF RowsFine
  <1>2. ASSUME NEW r \in Requests, Taken(r) PROVE RowsFine'
    BY <1>2 DEF Taken, RowsFine
  <1>3. ASSUME NEW r \in Requests, Insert(r) PROVE RowsFine'
    <2> DEFINE c == ChildOf(r)
               p == ask[r].cred
    <2>1. /\ creds' = creds \cup {c} /\ UNCHANGED token
          /\ child' = [child EXCEPT ![r] = c] /\ child[r] = <<>> /\ p \in creds
      BY <1>3, InsertedRow
    <2>2. /\ Len(c) = Len(p) + 1
          /\ \A k \in 1 .. Len(p) : c[k] = p[k]
          /\ \A k \in 1 .. Len(p) : Path(c, k) = Path(p, k)
          /\ Path(c, Len(p) + 1) = c
          /\ c[Len(p) + 1].req = r
      BY <1>3, InsertedRow
    <2> HIDE DEF c, p
    <2>3. p \in Credential /\ Len(p) \in Nat \ {0}
      BY <1>0, <2>1, CredentialLen DEF StoreTypes
    <2>4. \A j \in Jtis : token'[j] # <<>> => token'[j] \in creds' /\ token'[j][1].req = j
      BY <2>1 DEF RowsFine
    <2>5. \A d \in creds' : Len(d) = 1 => BoundTrace(d) = None /\ \E j \in Jtis : token'[j] = d
      BY <2>1, <2>2, <2>3 DEF RowsFine
    <2>6. ASSUME NEW d \in creds, NEW k \in 2 .. Len(d)
          PROVE d[k].req \in Requests /\ child'[d[k].req] = Path(d, k)
      <3>1. d[k].req \in Requests /\ child[d[k].req] = Path(d, k)
        BY DEF RowsFine
      <3>2. d \in Credential /\ k \in 1 .. Len(d)
        BY <1>0, CredentialLen DEF StoreTypes
      <3>3. Path(d, k) # <<>>
        BY <3>2, PathFacts DEF Credential
      <3>4. d[k].req # r
        BY <2>1, <3>1, <3>3
      <3> QED
        BY <1>0, <2>1, <3>1, <3>4 DEF HandlerTypes
    <2>7. ASSUME NEW k \in 2 .. Len(c)
          PROVE c[k].req \in Requests /\ child'[c[k].req] = Path(c, k)
      <3>1. CASE k \in 2 .. Len(p)
        BY <2>1, <2>2, <2>3, <2>6, <3>1
      <3>2. CASE k = Len(p) + 1
        BY <1>0, <2>1, <2>2, <3>2 DEF HandlerTypes
      <3> QED
        BY <2>2, <2>3, <3>1, <3>2
    <2> QED
      BY <2>1, <2>4, <2>5, <2>6, <2>7 DEF RowsFine
  <1>4. ASSUME NEW r \in Requests, NEW s \in Stages, Goes(r, s) PROVE RowsFine'
    BY <1>4 DEF Goes, RowsFine
  <1>5. CASE UNCHANGED <<stage, ask, child, loop, creds, token>>
    BY <1>5 DEF RowsFine
  <1> QED
    BY <1>1, <1>2, <1>3, <1>4, <1>5, Moves

\* The invariant the mapping to Delegation needs.
Linked == IInv /\ HandlersFine /\ RowsFine

LEMMA InitLinked == Init => Linked
  BY InitIInv, NoneAssumption DEF Init, Linked, HandlersFine, HandlerFine, RowsFine, Keeping

LEMMA StepLinked == Linked /\ [Next]_vars => Linked'
  BY StepIInv, FlowStep, RowsStep DEF Linked

LEMMA AlwaysLinked == Spec => []Linked
  BY InitLinked, StepLinked, PTL DEF Spec

-----------------------------------------------------------------------------
(* Tokens and requests bound the rows and the length of their paths.       *)

LEMMA RowsBounded ==
  ASSUME Linked
  PROVE /\ IsFiniteSet(creds)
        /\ Cardinality(creds) < Cardinality(Jtis) + Cardinality(Requests) + 1
  <1> DEFINE roots == {c \in creds : Len(c) = 1}
             kids == {c \in creds : Len(c) # 1}
             byToken == [c \in roots |-> c[1].req]
             byRequest == [c \in kids |-> c[Len(c)].req]
  <1>0. creds \subseteq Credential
    BY Types DEF Linked, IInv, StoreTypes
  <1>1. /\ IsFiniteSet(roots) /\ Cardinality(roots) <= Cardinality(Jtis)
    <2>1. \A c \in roots : c[1].req \in Jtis /\ token[c[1].req] = c
      BY DEF Linked, RowsFine, CredsFine
    <2>2. byToken \in [roots -> Jtis] /\ \A c, d \in roots : byToken[c] = byToken[d] => c = d
      BY <2>1
    <2> HIDE DEF roots, byToken
    <2>3. byToken \in Injection(roots, Jtis)
      BY <2>2, Fun_IsInj
    <2> QED
      BY <2>3, FS_Injection, FiniteAssumption
  <1>2. /\ IsFiniteSet(kids) /\ Cardinality(kids) <= Cardinality(Requests)
    <2>1. \A c \in kids : c[Len(c)].req \in Requests /\ child[c[Len(c)].req] = c
      <3> SUFFICES ASSUME NEW c \in creds, Len(c) # 1
                   PROVE c[Len(c)].req \in Requests /\ child[c[Len(c)].req] = c
        OBVIOUS
      <3>1. c \in Credential /\ Len(c) \in Nat \ {0}
        BY <1>0, CredentialLen
      <3> DEFINE n == Len(c)
      <3>2. n \in 2 .. n
        <4>1. n \in Nat /\ n # 0 /\ n # 1
          BY <3>1
        <4> HIDE DEF n
        <4> QED
          BY <4>1
      <3>3. c[Len(c)].req \in Requests /\ child[c[Len(c)].req] = Path(c, Len(c))
        BY <3>2 DEF Linked, RowsFine
      <3> QED
        BY <3>1, <3>3, PathFull
    <2>2. byRequest \in [kids -> Requests] /\ \A c, d \in kids : byRequest[c] = byRequest[d] => c = d
      BY <2>1
    <2> HIDE DEF kids, byRequest
    <2>3. byRequest \in Injection(kids, Requests)
      BY <2>2, Fun_IsInj
    <2> QED
      BY <2>3, FS_Injection, FiniteAssumption
  <1>3. creds = roots \cup kids /\ roots \cap kids = {}
    OBVIOUS
  <1> HIDE DEF roots, kids
  <1>4. /\ IsFiniteSet(creds)
        /\ Cardinality(creds) = Cardinality(roots) + Cardinality(kids) - Cardinality({})
    BY <1>1, <1>2, <1>3, FS_Union
  <1>5. /\ Cardinality({}) = 0 /\ Cardinality(Jtis) \in Nat /\ Cardinality(Requests) \in Nat
        /\ Cardinality(roots) \in Nat /\ Cardinality(kids) \in Nat
    <2>1. Cardinality({}) = 0
      BY FS_EmptySet
    <2>2. \A S : IsFiniteSet(S) => Cardinality(S) \in Nat
      BY FS_CardinalityType
    <2> QED
      BY <1>1, <1>2, <2>1, <2>2, FiniteAssumption
  <1> QED
    BY <1>1, <1>2, <1>4, <1>5

LEMMA PathsBounded ==
  ASSUME Linked, NEW c \in creds
  PROVE Len(c) < Cardinality(Requests) + 2
  <1> DEFINE f == [k \in 2 .. Len(c) |-> c[k].req]
  <1>1. c \in Credential /\ Len(c) \in Nat \ {0} /\ Cardinality(Requests) \in Nat
    <2>1. c \in Credential
      BY Types DEF Linked, IInv, StoreTypes
    <2>2. Cardinality(Requests) \in Nat
      BY FS_CardinalityType, FiniteAssumption
    <2> QED
      BY <2>1, <2>2, CredentialLen
  <1>2. \A k \in 2 .. Len(c) : k \in 1 .. Len(c) /\ c[k].req \in Requests /\ child[c[k].req] = Path(c, k)
    BY <1>1 DEF Linked, RowsFine
  <1>3. \A k \in 2 .. Len(c) : Len(child[c[k].req]) = k
    BY <1>1, <1>2, PathFacts
  <1>4. f \in [2 .. Len(c) -> Requests] /\ \A i, k \in 2 .. Len(c) : f[i] = f[k] => i = k
    BY <1>2, <1>3
  <1> HIDE DEF f
  <1>5. f \in Injection(2 .. Len(c), Requests)
    BY <1>4, Fun_IsInj
  <1>6. Cardinality(2 .. Len(c)) <= Cardinality(Requests)
    BY <1>5, FS_Injection, FiniteAssumption
  <1>7. Cardinality(2 .. Len(c)) = IF 2 > Len(c) THEN 0 ELSE Len(c) - 2 + 1
    <2>1. 2 \in Int /\ Len(c) \in Int
      BY <1>1
    <2> QED
      BY <2>1, FS_Interval
  <1> QED
    BY <1>1, <1>6, <1>7

-----------------------------------------------------------------------------
(* The mapping to Delegation, step by step.                                *)

LEMMA SameOperators ==
  /\ \A n, j, p, u, caps, ucaps, ttl :
       Store!RootLink(p, u, caps, ucaps, n, ttl, j) = RootLink(p, u, caps, ucaps, n, ttl, j)
  /\ \A n, p, s, caps, tr, rq : Store!ChildLink(p, s, caps, tr, rq, n) = ChildLink(p, s, caps, tr, rq, n)
  /\ \A c : Store!CapsOf(c) = CapsOf(c) /\ Store!BoundTrace(c) = BoundTrace(c) /\ Store!Holder(c) = Holder(c)
  /\ \A c, d : Store!Under(c, d) = Under(c, d)
  /\ \A cs, rv, n, c : Store!ValidBranch(cs, rv, n, c) = ValidBranch(cs, rv, n, c)
  /\ \A cs, c : Store!Tree(cs, c) = Tree(cs, c)
  /\ \A c, k : Store!Path(c, k) = Path(c, k)
  BY DEF Store!RootLink, RootLink, Store!ChildLink, ChildLink, Store!Holder, Holder, Store!CapsOf, CapsOf,
         Store!BoundTrace, BoundTrace, Store!Path, Path, Store!Under, Under,
         Store!ValidBranch, ValidBranch, Store!Tree, Tree

LEMMA SameCardinality == \A S : Store!Cardinality(S) = Cardinality(S)
  BY DEF Store!Cardinality, Cardinality

\* The delegation a handler between Build and Insert is doing.
Delegating(r) ==
  [parent |-> ask[r].cred, subject |-> ask[r].target, caps |-> ask[r].caps, trace |-> TraceOf[r], req |-> r]

LEMMA BuildingIs ==
  ASSUME Linked, NEW r \in Requests, stage[r] = "inserting"
  PROVE Building = Delegating(r) /\ Building # None
  <1>1. \A q \in Requests : stage[q] = "inserting" => q = r
    BY DEF Linked, HandlersFine, HandlerFine, Keeping
  <1>2. (CHOOSE q \in Requests : stage[q] = "inserting") = r
    BY <1>1
  <1>3. Building = Delegating(r)
    BY <1>2 DEF Building, Delegating
  <1>4. Delegating(r) \in Store!Build
    BY RequestsAssumption, Types DEF Linked, IInv, HandlerTypes, Ask, Delegating, Store!Build,
       Store!Credential, Credential, Store!Link, Link, Store!Principals, Principals
  <1> QED
    BY <1>3, <1>4, NoneNoBuild

LEMMA BuildingNone ==
  ASSUME \A r \in Requests : stage[r] # "inserting"
  PROVE Building = None
  BY DEF Building

LEMMA BuildingKept ==
  ASSUME UNCHANGED <<stage, ask>>
  PROVE Building' = Building
  BY DEF Building

\* While no handler enters or leaves the insert, the delegation under way is the same.
LEMMA BuildingSame ==
  ASSUME Linked, Linked', [Next]_vars,
         \A r \in Requests : stage[r] = "inserting" <=> stage'[r] = "inserting"
  PROVE Building' = Building
  <1>1. CASE \A r \in Requests : stage[r] # "inserting"
    BY <1>1 DEF Building
  <1>2. CASE \E r \in Requests : stage[r] = "inserting"
    <2>1. PICK r \in Requests : stage[r] = "inserting" /\ stage'[r] = "inserting"
      BY <1>2
    <2>2. \A q \in Requests : stage[q] = "inserting" => q = r
      BY <2>1 DEF Linked, HandlersFine, HandlerFine, Keeping
    <2>3. (CHOOSE q \in Requests : stage'[q] = "inserting") = r
      BY <2>1, <2>2
    <2>4. ask'[r] = ask[r]
      <3>1. ASSUME NEW j \in Jtis, NEW q \in TokenAsks, NEW ttl \in 1 .. MaxTTL, CreateToken(j, q, ttl)
            PROVE ask' = ask
        BY <3>1 DEF CreateToken, handlerVars
      <3>2. ASSUME NEW q \in Requests, Insert(q) PROVE ask' = ask
        BY <3>2 DEF Insert
      <3>3. ASSUME NEW q \in Requests, NEW s \in Stages, Goes(q, s) PROVE ask' = ask
        BY <3>3 DEF Goes
      <3>4. ASSUME NEW q \in Requests, Taken(q) PROVE ask'[r] = ask[r]
        BY <2>1, <3>4 DEF Taken
      <3> QED
        BY <3>1, <3>2, <3>3, <3>4, Moves DEF Linked
    <2>5. Building' = Delegating(r)'
      BY <2>1, <2>3 DEF Building, Delegating
    <2>6. Delegating(r)' = Delegating(r)
      BY <2>4 DEF Delegating
    <2> QED
      BY <2>1, <2>5, <2>6, BuildingIs
  <1> QED
    BY <1>1, <1>2

LEMMA RevokeSame ==
  ASSUME UNCHANGED <<pc, job, snapshot, answered>>
  PROVE UNCHANGED <<StorePc, StoreJob, StoreSnapshot, StoreAnswered>>
  BY DEF StorePc, StoreJob, StoreSnapshot, StoreAnswered, InStore

LEMMA StoreStutters ==
  ASSUME UNCHANGED <<now, creds, revoked, token, tokenRevoked>>, Building' = Building,
         UNCHANGED <<StorePc, StoreJob, StoreSnapshot, StoreAnswered>>
  PROVE UNCHANGED Store!vars
  BY DEF Store!vars, Store!storeVars, Store!revokeVars

\* A handler's step that neither begins nor ends an insert.
LEMMA HandlerStutters ==
  ASSUME Linked, Linked', [Next]_vars, NEW r \in Requests, NEW s \in Stages \ {"inserting"},
         stage[r] # "inserting", stage' = [stage EXCEPT ![r] = s],
         UNCHANGED <<now, creds, revoked, token, tokenRevoked, pc, job, snapshot, answered>>
  PROVE UNCHANGED Store!vars
  <1>1. \A q \in Requests : stage[q] = "inserting" <=> stage'[q] = "inserting"
    BY Types DEF Linked, IInv, HandlerTypes
  <1> QED
    BY <1>1, BuildingSame, RevokeSame, StoreStutters

LEMMA TokenIssued ==
  ASSUME Linked, NEW j \in Jtis, NEW q \in TokenAsks, NEW ttl \in 1 .. MaxTTL, CreateToken(j, q, ttl)
  PROVE Store!Next
  <1> DEFINE ucaps == IF q.ucaps = {} THEN q.caps ELSE q.ucaps
  <1>1. q.agent \in Store!Principals /\ q.user \in Users /\ q.caps \in SUBSET Caps /\ ucaps \in SUBSET Caps
    BY AsksAssumption DEF Store!Principals, Principals
  <1>2. Store!Room
    BY RowsBounded, SameCardinality DEF Store!Room
  <1>3. Building' = Building /\ UNCHANGED <<StorePc, StoreJob, StoreSnapshot, StoreAnswered>>
    <2>1. UNCHANGED <<stage, ask, pc, job, snapshot, answered>>
      BY DEF CreateToken, handlerVars, revokeVars
    <2> QED
      BY <2>1, BuildingKept, RevokeSame
  <1>4. Store!IssueToken(j, q.agent, q.user, q.caps, ucaps, ttl)
    BY <1>3, SameOperators DEF CreateToken, Store!IssueToken, Store!revokeVars
  <1> HIDE DEF ucaps
  <1> QED
    BY <1>1, <1>2, <1>4 DEF Store!Next

LEMMA ClockTicks ==
  ASSUME Linked, Tick
  PROVE Store!Next
  <1>1. Building' = Building /\ UNCHANGED <<StorePc, StoreJob, StoreSnapshot, StoreAnswered>>
    <2>1. UNCHANGED <<stage, ask, pc, job, snapshot, answered>>
      BY DEF Tick, handlerVars, revokeVars
    <2> QED
      BY <2>1, BuildingKept, RevokeSame
  <1>2. Store!Tick
    BY <1>1 DEF Tick, Store!Tick, storeVars, Store!storeVars, Store!revokeVars
  <1> QED
    BY <1>2 DEF Store!Next

LEMMA ChildBegun ==
  ASSUME Linked, Linked', [Next]_vars, NEW r \in Requests, Build(r)
  PROVE Store!Next \/ UNCHANGED Store!vars
  <1> DEFINE p == ask[r].cred
  <1>1. /\ loop = r /\ stage[r] = "building"
        /\ UNCHANGED <<now, creds, revoked, token, tokenRevoked, ask, pc, job, snapshot, answered>>
    BY DEF Build, storeVars, revokeVars
  <1>2. CASE stage' = [stage EXCEPT ![r] = "answered"]
    BY <1>1, <1>2, HandlerStutters DEF Stages
  <1>3. CASE /\ ValidBranch(creds, revoked, now, p) /\ ask[r].caps \subseteq CapsOf(p)
             /\ stage' = [stage EXCEPT ![r] = "inserting"]
    <2>1. /\ p \in creds /\ ask[r].target \in Agents /\ ask[r].caps \in SUBSET Caps
          /\ TraceOf[r] \in Traces /\ BoundTrace(p) \in {None, TraceOf[r]}
      BY <1>1, Types, RequestsAssumption
         DEF Linked, IInv, HandlerTypes, Ask, AsksFine, AskFine, HandlersFine, HandlerFine
    <2>2. Building = None
      <3>1. \A q \in Requests : stage[q] # "inserting"
        BY <1>1 DEF Linked, HandlersFine, HandlerFine, Keeping
      <3> QED
        BY <3>1, BuildingNone
    <2>3. Building' = Delegating(r)
      <3>1. stage'[r] = "inserting"
        BY <1>3, Types DEF Linked, IInv, HandlerTypes
      <3>2. \A q \in Requests : stage'[q] = "inserting" => q = r
        BY <3>1 DEF Linked, HandlersFine, HandlerFine, Keeping
      <3>3. (CHOOSE q \in Requests : stage'[q] = "inserting") = r
        BY <3>1, <3>2
      <3> QED
        BY <1>1, <3>1, <3>3 DEF Building, Delegating
    <2>4. Store!Room /\ Len(p) < Cardinality(Requests) + 2
      <3>1. Store!Room
        BY RowsBounded, SameCardinality DEF Store!Room
      <3> HIDE DEF p
      <3>2. Len(p) < Cardinality(Requests) + 2
        BY <2>1, PathsBounded
      <3> QED
        BY <3>1, <3>2
    <2>5. UNCHANGED <<StorePc, StoreJob, StoreSnapshot, StoreAnswered>>
      BY <1>1, RevokeSame
    <2>6. Store!BeginBuild(p, ask[r].target, ask[r].caps, TraceOf[r], r)
      BY <1>1, <1>3, <2>1, <2>2, <2>3, <2>5, SameOperators
         DEF Store!BeginBuild, Delegating, Store!storeVars, Store!revokeVars
    <2> HIDE DEF p
    <2> QED
      BY <2>1, <2>4, <2>6 DEF Store!Next
  <1> QED
    BY <1>2, <1>3 DEF Build, Proceed, Refuse, Answer

LEMMA ChildUpserted ==
  ASSUME Linked, Linked', NEW r \in Requests, Insert(r)
  PROVE Store!Next
  <1>1. /\ stage[r] = "inserting" /\ stage' = [stage EXCEPT ![r] = "registering"] /\ loop' = r
        /\ creds' = creds \cup {ChildOf(r)} /\ revoked' = revoked \ {ChildOf(r)}
        /\ UNCHANGED <<now, token, tokenRevoked, pc, job, snapshot, answered>>
    BY DEF Insert, Proceed, ChildOf, revokeVars
  <1>2. Building = Delegating(r) /\ Building # None
    BY <1>1, BuildingIs
  <1>3. Store!Built = ChildOf(r)
    BY <1>2, SameOperators DEF Store!Built, Delegating, ChildOf
  <1>4. Building' = None
    <2>1. stage'[r] = "registering"
      BY <1>1, Types DEF Linked, IInv, HandlerTypes
    <2>2. \A q \in Requests : stage'[q] # "inserting"
      BY <1>1, <2>1 DEF Linked, HandlersFine, HandlerFine, Keeping
    <2> QED
      BY <2>2 DEF Building
  <1>5. UNCHANGED <<StorePc, StoreJob, StoreSnapshot, StoreAnswered>>
    BY <1>1, RevokeSame
  <1>6. Store!UpsertChild
    BY <1>1, <1>2, <1>3, <1>4, <1>5 DEF Store!UpsertChild, Store!revokeVars
  <1> QED
    BY <1>6 DEF Store!Next

\* Only threads that are not yet cancelling are at work in the store.
LEMMA TokenRevoked ==
  ASSUME Linked, NEW t \in Threads, NEW j \in Jtis, RevokeToken(t, j)
  PROVE Store!Next
  <1>1. /\ pc[t] = "idle" /\ token[j] # <<>> /\ tokenRevoked' = tokenRevoked \cup {j}
        /\ job' = [job EXCEPT ![t] = token[j]] /\ pc' = [pc EXCEPT ![t] = "list"]
        /\ UNCHANGED <<now, creds, revoked, token, stage, ask, snapshot, answered>>
    BY DEF RevokeToken, handlerVars
  <1>2. RouteTypes
    BY Types DEF Linked, IInv
  <1>3. StorePc[t] = "idle"
    BY <1>1 DEF StorePc, InStore
  <1>4. /\ StorePc' = [StorePc EXCEPT ![t] = "list"]
        /\ StoreJob' = [StoreJob EXCEPT ![t] = token[j]]
        /\ StoreSnapshot' = StoreSnapshot
    BY <1>1, <1>2 DEF StorePc, StoreJob, StoreSnapshot, InStore, RouteTypes
  <1>5. StoreAnswered' = StoreAnswered
    <2>1. \A s \in Threads : pc'[s] # "cancel" <=> pc[s] # "cancel"
      BY <1>1, <1>2 DEF RouteTypes
    <2>2. \A s \in Threads : pc[s] = "cancel" => job'[s] = job[s]
      BY <1>1, <1>2 DEF RouteTypes
    <2> QED
      BY <1>1, <2>1, <2>2 DEF StoreAnswered, InStore
  <1>6. Building' = Building
    BY <1>1, BuildingKept
  <1>7. Store!RevokeToken(t, j)
    BY <1>1, <1>3, <1>4, <1>5, <1>6 DEF Store!RevokeToken
  <1> QED
    BY <1>7 DEF Store!Next

LEMMA TreeListed ==
  ASSUME Linked, NEW t \in Threads, ListTree(t)
  PROVE Store!Next
  <1>1. /\ pc[t] = "list" /\ snapshot' = [snapshot EXCEPT ![t] = Tree(creds, job[t])]
        /\ pc' = [pc EXCEPT ![t] = "update"]
        /\ UNCHANGED <<now, creds, revoked, token, tokenRevoked, stage, ask, job, answered>>
    BY DEF ListTree, handlerVars, storeVars
  <1>2. RouteTypes
    BY Types DEF Linked, IInv
  <1>3. StorePc[t] = "list" /\ StoreJob[t] = job[t]
    BY <1>1 DEF StorePc, StoreJob, InStore
  <1>4. /\ StorePc' = [StorePc EXCEPT ![t] = "update"]
        /\ StoreSnapshot' = [StoreSnapshot EXCEPT ![t] = Tree(creds, job[t])]
        /\ StoreJob' = StoreJob
    BY <1>1, <1>2 DEF StorePc, StoreJob, StoreSnapshot, InStore, RouteTypes
  <1>5. StoreAnswered' = StoreAnswered
    <2>1. \A s \in Threads : pc'[s] # "cancel" <=> pc[s] # "cancel"
      BY <1>1, <1>2 DEF RouteTypes
    <2> QED
      BY <1>1, <2>1 DEF StoreAnswered, InStore
  <1>6. Building' = Building
    BY <1>1, BuildingKept
  <1>7. Store!ListTree(t)
    BY <1>1, <1>3, <1>4, <1>5, <1>6, SameOperators DEF Store!ListTree, Store!storeVars
  <1> QED
    BY <1>7 DEF Store!Next

LEMMA TreeUpdated ==
  ASSUME Linked, NEW t \in Threads, UpdateTree(t)
  PROVE Store!Next
  <1>1. /\ pc[t] = "update" /\ revoked' = revoked \cup snapshot[t]
        /\ pc' = [pc EXCEPT ![t] = "cancel"]
        /\ UNCHANGED <<now, creds, token, tokenRevoked, stage, ask, job, snapshot, answered>>
    BY DEF UpdateTree, handlerVars
  <1>2. RouteTypes
    BY Types DEF Linked, IInv
  <1>3. StorePc[t] = "update" /\ StoreJob[t] = job[t] /\ StoreSnapshot[t] = snapshot[t]
    BY <1>1 DEF StorePc, StoreJob, StoreSnapshot, InStore
  <1>4. /\ StorePc' = [StorePc EXCEPT ![t] = "idle"]
        /\ StoreJob' = [StoreJob EXCEPT ![t] = <<>>]
        /\ StoreSnapshot' = [StoreSnapshot EXCEPT ![t] = {}]
    BY <1>1, <1>2 DEF StorePc, StoreJob, StoreSnapshot, InStore, RouteTypes
  <1>5. StoreAnswered' = StoreAnswered \cup {job[t]}
    <2>1. \A s \in Threads : pc'[s] = "cancel" <=> pc[s] = "cancel" \/ s = t
      BY <1>1, <1>2 DEF RouteTypes
    <2> QED
      BY <1>1, <2>1 DEF StoreAnswered, InStore
  <1>6. Building' = Building
    BY <1>1, BuildingKept
  <1>7. Store!UpdateTree(t)
    BY <1>1, <1>3, <1>4, <1>5, <1>6 DEF Store!UpdateTree
  <1> QED
    BY <1>7 DEF Store!Next

LEMMA RevokeAnswered ==
  ASSUME Linked, NEW t \in Threads, RevokeAnswers(t)
  PROVE UNCHANGED Store!vars
  <1>1. /\ pc[t] = "cancel" /\ answered' = answered \cup {job[t]}
        /\ pc' = [pc EXCEPT ![t] = "idle"] /\ job' = [job EXCEPT ![t] = <<>>]
        /\ snapshot' = [snapshot EXCEPT ![t] = {}]
        /\ UNCHANGED <<now, creds, revoked, token, tokenRevoked, stage, ask>>
    BY DEF RevokeAnswers, handlerVars, storeVars
  <1>2. RouteTypes
    BY Types DEF Linked, IInv
  <1>3. StorePc' = StorePc /\ StoreJob' = StoreJob /\ StoreSnapshot' = StoreSnapshot
    BY <1>1, <1>2 DEF StorePc, StoreJob, StoreSnapshot, InStore, RouteTypes
  <1>4. StoreAnswered' = StoreAnswered
    <2>1. \A s \in Threads : pc[s] = "cancel" <=> pc'[s] = "cancel" \/ s = t
      BY <1>1, <1>2 DEF RouteTypes
    <2>2. \A s \in Threads : pc'[s] = "cancel" => job'[s] = job[s]
      BY <1>1, <1>2 DEF RouteTypes
    <2> QED
      BY <1>1, <2>1, <2>2 DEF StoreAnswered, InStore
  <1>5. Building' = Building
    BY <1>1, BuildingKept
  <1> QED
    BY <1>1, <1>3, <1>4, <1>5, StoreStutters

LEMMA OtherStutters ==
  ASSUME UNCHANGED <<now, creds, revoked, token, tokenRevoked, stage, ask, pc, job, snapshot, answered>>
  PROVE UNCHANGED Store!vars
  BY BuildingKept, RevokeSame, StoreStutters

LEMMA StoreNext ==
  ASSUME Linked, Linked', [Next]_vars
  PROVE [Store!Next]_Store!vars
  <1> DEFINE Goal == Store!Next \/ UNCHANGED Store!vars
  <1>0. \A r \in Requests : HandlerFine(r)
    BY DEF Linked, HandlersFine
  <1>1. ASSUME NEW j \in Jtis, NEW q \in TokenAsks, NEW ttl \in 1 .. MaxTTL, CreateToken(j, q, ttl)
        PROVE Store!Next
    BY <1>1, TokenIssued
  <1>2. ASSUME Tick PROVE Store!Next
    BY <1>2, ClockTicks
  <1>3. ASSUME NEW r \in Requests, NEW j \in Jtis, NEW q \in CallAsks,
               RootTask(r, j, q) PROVE UNCHANGED Store!vars
    <2>1. /\ stage[r] # "inserting" /\ \E s \in Stages \ {"inserting"} : stage' = [stage EXCEPT ![r] = s]
          /\ UNCHANGED <<now, creds, revoked, token, tokenRevoked, pc, job, snapshot, answered>>
      BY <1>3 DEF RootTask, Proceed, Refuse, Answer, Stages, storeVars, revokeVars
    <2> QED
      BY <2>1, HandlerStutters
  <1>4. ASSUME NEW r \in Requests, NEW j \in Jtis, NEW q \in CallAsks,
               NEW relayed \in creds \cup {<<>>},
               AgentTask(r, j, relayed, q) PROVE UNCHANGED Store!vars
    <2>1. /\ stage[r] # "inserting" /\ \E s \in Stages \ {"inserting"} : stage' = [stage EXCEPT ![r] = s]
          /\ UNCHANGED <<now, creds, revoked, token, tokenRevoked, pc, job, snapshot, answered>>
      BY <1>4 DEF AgentTask, Proceed, Refuse, Answer, Stages, storeVars, revokeVars
    <2> QED
      BY <2>1, HandlerStutters
  <1>5. ASSUME NEW r \in Requests, IntentReady(r) PROVE UNCHANGED Store!vars
    <2>1. /\ stage[r] # "inserting" /\ \E s \in Stages \ {"inserting"} : stage' = [stage EXCEPT ![r] = s]
          /\ UNCHANGED <<now, creds, revoked, token, tokenRevoked, pc, job, snapshot, answered>>
      BY <1>5 DEF IntentReady, Proceed, Refuse, Crash, Answer, Stages, storeVars, revokeVars
    <2> QED
      BY <2>1, HandlerStutters
  <1>6. ASSUME NEW r \in Requests, IntentJudged(r) PROVE UNCHANGED Store!vars
    <2>1. /\ stage[r] # "inserting" /\ \E s \in Stages \ {"inserting"} : stage' = [stage EXCEPT ![r] = s]
          /\ UNCHANGED <<now, creds, revoked, token, tokenRevoked, pc, job, snapshot, answered>>
      BY <1>6 DEF IntentJudged, Proceed, Refuse, Crash, Answer, Stages, storeVars, revokeVars
    <2> QED
      BY <2>1, HandlerStutters
  <1>7. ASSUME NEW r \in Requests, Authorize(r) PROVE UNCHANGED Store!vars
    <2>1. /\ stage[r] # "inserting" /\ \E s \in Stages \ {"inserting"} : stage' = [stage EXCEPT ![r] = s]
          /\ UNCHANGED <<now, creds, revoked, token, tokenRevoked, pc, job, snapshot, answered>>
      BY <1>7 DEF Authorize, Proceed, Refuse, Answer, Stages, storeVars, revokeVars
    <2> QED
      BY <2>1, HandlerStutters
  <1>8. ASSUME NEW r \in Requests, Build(r) PROVE Goal
    BY <1>8, ChildBegun
  <1>9. ASSUME NEW r \in Requests, Insert(r) PROVE Goal
    BY <1>9, ChildUpserted
  <1>10. ASSUME NEW r \in Requests, Register(r) PROVE UNCHANGED Store!vars
    <2>1. /\ stage[r] # "inserting" /\ \E s \in Stages \ {"inserting"} : stage' = [stage EXCEPT ![r] = s]
          /\ UNCHANGED <<now, creds, revoked, token, tokenRevoked, pc, job, snapshot, answered>>
      BY <1>10 DEF Register, Proceed, Stages, storeVars, revokeVars
    <2> QED
      BY <2>1, HandlerStutters
  <1>11. ASSUME NEW r \in Requests, CallReturned(r) PROVE UNCHANGED Store!vars
    <2>1. /\ stage[r] # "inserting" /\ \E s \in Stages \ {"inserting"} : stage' = [stage EXCEPT ![r] = s]
          /\ UNCHANGED <<now, creds, revoked, token, tokenRevoked, pc, job, snapshot, answered>>
      BY <1>11 DEF CallReturned, Answer, Stages, storeVars, revokeVars
    <2> QED
      BY <2>1, HandlerStutters
  <1>12. ASSUME NEW r \in Requests, CallFailed(r) PROVE UNCHANGED Store!vars
    <2>1. /\ stage[r] # "inserting" /\ \E s \in Stages \ {"inserting"} : stage' = [stage EXCEPT ![r] = s]
          /\ UNCHANGED <<now, creds, revoked, token, tokenRevoked, pc, job, snapshot, answered>>
      BY <1>12 DEF CallFailed, Answer, Stages, storeVars, revokeVars
    <2> QED
      BY <2>1, HandlerStutters
  <1>13. ASSUME NEW r \in Requests, CallBroken(r) PROVE UNCHANGED Store!vars
    <2>1. /\ stage[r] # "inserting" /\ \E s \in Stages \ {"inserting"} : stage' = [stage EXCEPT ![r] = s]
          /\ UNCHANGED <<now, creds, revoked, token, tokenRevoked, pc, job, snapshot, answered>>
      BY <1>13 DEF CallBroken, Crash, Answer, Stages, storeVars, revokeVars
    <2> QED
      BY <2>1, HandlerStutters
  <1>14. ASSUME NEW r \in Requests, CallCancelled(r) PROVE UNCHANGED Store!vars
    <2>1. /\ stage[r] # "inserting" /\ \E s \in Stages \ {"inserting"} : stage' = [stage EXCEPT ![r] = s]
          /\ UNCHANGED <<now, creds, revoked, token, tokenRevoked, pc, job, snapshot, answered>>
      BY <1>14 DEF CallCancelled, Answer, Stages, storeVars, revokeVars
    <2> QED
      BY <2>1, HandlerStutters
  <1>15. ASSUME NEW r \in Requests, CancelArrives(r) PROVE UNCHANGED Store!vars
    BY <1>15, OtherStutters DEF CancelArrives, handlerVars, storeVars, revokeVars
  <1>16. ASSUME NEW r \in Requests,
                \/ \E j \in Jtis, q \in CallAsks :
                     \/ RootTask(r, j, q)
                     \/ \E relayed \in creds \cup {<<>>} : AgentTask(r, j, relayed, q)
                \/ IntentReady(r) \/ IntentJudged(r) \/ Authorize(r) \/ Build(r) \/ Insert(r) \/ Register(r)
                \/ CallReturned(r) \/ CallFailed(r) \/ CallBroken(r) \/ CallCancelled(r) \/ CancelArrives(r)
         PROVE Goal
    BY <1>3, <1>4, <1>5, <1>6, <1>7, <1>8, <1>9, <1>10, <1>11, <1>12, <1>13, <1>14, <1>15, <1>16
  <1>17. ASSUME NEW t \in Threads, NEW j \in Jtis, RevokeToken(t, j) PROVE Store!Next
    BY <1>17, TokenRevoked
  <1>18. ASSUME NEW t \in Threads, ListTree(t) PROVE Store!Next
    BY <1>18, TreeListed
  <1>19. ASSUME NEW t \in Threads, UpdateTree(t) PROVE Store!Next
    BY <1>19, TreeUpdated
  <1>20. ASSUME NEW t \in Threads, RevokeAnswers(t) PROVE UNCHANGED Store!vars
    BY <1>20, RevokeAnswered
  <1>21. ASSUME NEW t \in Threads, NEW tr \in Traces, CancelTrace(t, tr) PROVE UNCHANGED Store!vars
    BY <1>21, OtherStutters DEF CancelTrace, handlerVars, storeVars
  <1>22. CASE UNCHANGED vars
    BY <1>22, OtherStutters DEF vars, handlerVars, storeVars, revokeVars
  <1>23. ASSUME Next PROVE Goal
    <2> HIDE DEF Goal
    <2>1. Goal <=> Store!Next \/ UNCHANGED Store!vars
      BY DEF Goal
    <2> QED
      BY <1>23, <2>1, <1>1, <1>2, <1>16, <1>17, <1>18, <1>19, <1>20, <1>21 DEF Next
  <1> QED
    BY <1>23, <1>22

LEMMA StoreInit == Init => Store!Init
  <1> SUFFICES ASSUME Init PROVE Store!Init
    OBVIOUS
  <1>1. Building = None
    BY BuildingNone DEF Init
  <1>2. /\ StorePc = [t \in Threads |-> "idle"] /\ StoreJob = [t \in Threads |-> <<>>]
        /\ StoreSnapshot = [t \in Threads |-> {}]
    BY DEF Init, StorePc, StoreJob, StoreSnapshot, InStore
  <1>3. StoreAnswered = {}
    BY DEF Init, StoreAnswered, InStore
  <1> QED
    BY <1>1, <1>2, <1>3 DEF Init, Store!Init

\* The routes and their threads, the event loop and all that happens between
\* its awaits implement the store's delegations and revocations.
THEOREM GatewayImplementsDelegation == Spec => ImplementsDelegation
  BY StoreInit, StoreNext, AlwaysLinked, PTL DEF Spec, ImplementsDelegation, Store!Spec

-----------------------------------------------------------------------------
(* What Delegation's proofs say of the gateway: their lemmas are taken      *)
(* under the mapping, and a step of the gateway is one of theirs.           *)

StoreProofs == INSTANCE DelegationProofs WITH
  building <- Building,
  pc <- StorePc, job <- StoreJob, snapshot <- StoreSnapshot, answered <- StoreAnswered,
  MaxCreds <- Cardinality(Jtis) + Cardinality(Requests) + 1,
  MaxDepth <- Cardinality(Requests) + 2

\* Delegation's assumptions hold of the gateway's constants.
LEMMA StoreAssumptions == None \notin Traces /\ MaxTTL \in Nat
  BY NoneAssumption, BoundsAssumption

LEMMA SameInit == StoreProofs!Init = Store!Init
  BY DEF StoreProofs!Init, Store!Init

LEMMA SameNext == StoreProofs!Next = Store!Next
  BY DEF StoreProofs!Next, Store!Next, StoreProofs!Room, Store!Room, StoreProofs!Principals,
         Store!Principals, StoreProofs!Built, Store!Built, StoreProofs!IssueToken,
         Store!IssueToken, StoreProofs!BeginBuild, Store!BeginBuild, StoreProofs!UpsertChild,
         Store!UpsertChild, StoreProofs!ListTree, Store!ListTree, StoreProofs!UpdateTree,
         Store!UpdateTree, StoreProofs!RevokeToken, Store!RevokeToken, StoreProofs!BatchRevoke,
         Store!BatchRevoke, StoreProofs!CleanupExpiredTokens, Store!CleanupExpiredTokens,
         StoreProofs!Tick, Store!Tick, StoreProofs!RootLink, Store!RootLink, StoreProofs!ChildLink,
         Store!ChildLink, StoreProofs!CapsOf, Store!CapsOf, StoreProofs!BoundTrace,
         Store!BoundTrace, StoreProofs!Holder, Store!Holder, StoreProofs!Under, Store!Under,
         StoreProofs!ValidBranch, Store!ValidBranch, StoreProofs!Tree, Store!Tree,
         StoreProofs!Path, Store!Path, StoreProofs!Cardinality, Store!Cardinality,
         StoreProofs!storeVars, Store!storeVars, StoreProofs!revokeVars, Store!revokeVars

\* A step of the gateway is a step of the store, or none.
LEMMA StoreSteps ==
  ASSUME Linked, Linked', [Next]_vars
  PROVE [StoreProofs!Next]_StoreProofs!vars
  <1>1. [Store!Next]_Store!vars
    BY StoreNext
  <1>2. UNCHANGED Store!vars => UNCHANGED StoreProofs!vars
    BY DEF StoreProofs!vars, Store!vars, StoreProofs!storeVars, Store!storeVars,
           StoreProofs!revokeVars, Store!revokeVars
  <1> QED
    BY <1>1, <1>2, SameNext

LEMMA StoreInvariant == Spec => []StoreProofs!IInv
  <1>1. Init => StoreProofs!IInv
    BY StoreInit, SameInit, StoreProofs!InitIInv, StoreAssumptions
  <1>2. Linked /\ Linked' /\ StoreProofs!IInv /\ [Next]_vars => StoreProofs!IInv'
    BY StoreSteps, StoreProofs!StepIInv, StoreAssumptions
  <1> QED
    BY <1>1, <1>2, AlwaysLinked, PTL DEF Spec

LEMMA SameProperties ==
  ASSUME StoreProofs!IInv
  PROVE /\ Store!ParentsStored /\ Store!Attenuation /\ Store!OneTrace /\ Store!HolderIssues
        /\ Store!RevocationIsFinal
  <1>1. Store!ParentsStored /\ Store!Attenuation /\ Store!OneTrace /\ Store!HolderIssues
    BY DEF StoreProofs!IInv, StoreProofs!ParentsStored, Store!ParentsStored, StoreProofs!Attenuation,
           Store!Attenuation, StoreProofs!OneTrace, Store!OneTrace, StoreProofs!HolderIssues,
           Store!HolderIssues, StoreProofs!Path, Store!Path
  <1>2. StoreProofs!RevocationIsFinal
    BY StoreProofs!RevokedStayOut, StoreAssumptions
  <1>3. Store!RevocationIsFinal
    BY <1>2 DEF StoreProofs!RevocationIsFinal, Store!RevocationIsFinal, StoreProofs!Under, Store!Under,
                StoreProofs!ValidBranch, Store!ValidBranch, StoreProofs!Path, Store!Path
  <1> QED
    BY <1>1, <1>3

\* Behind the routes every path of the store stays complete, narrows from the
\* token on, is a chain of custody and belongs to one trace.
THEOREM PathsAreSound ==
  Spec => [](Store!ParentsStored /\ Store!Attenuation /\ Store!HolderIssues /\ Store!OneTrace)
  <1>1. StoreProofs!IInv => Store!ParentsStored /\ Store!Attenuation /\ Store!HolderIssues /\ Store!OneTrace
    BY SameProperties
  <1> QED
    BY <1>1, StoreInvariant, PTL

\* From the moment the store has marked the tree, before the route has
\* cancelled a single trace, no request is let in with a credential below the
\* token, whenever it was inserted.
THEOREM RevocationIsFinalBehindRoutes == Spec => []Store!RevocationIsFinal
  <1>1. StoreProofs!IInv => Store!RevocationIsFinal
    BY SameProperties
  <1> QED
    BY <1>1, StoreInvariant, PTL

\* From a running call's credential one gets back, request by request, to the
\* token it began with, without leaving the trace.
THEOREM CallsCanBeTraced == Spec => []CallsTraceable
  <1>1. Linked /\ StoreProofs!IInv => CallsTraceable
    <2> SUFFICES ASSUME Linked, StoreProofs!IInv, NEW r \in Requests, NEW c, c = child[r], c # <<>>
                 PROVE /\ \E j \in Jtis : token[j] = Path(c, 1)
                       /\ \A k \in 2 .. Len(c) :
                            /\ c[k].req \in Requests /\ child[c[k].req] = Path(c, k)
                            /\ TraceOf[c[k].req] = TraceOf[r] /\ c[k].trace = TraceOf[r]
      BY DEF CallsTraceable
    <2>1. c \in creds /\ c \in Credential /\ BoundTrace(c) = TraceOf[r]
      BY Types DEF Linked, IInv, HandlerTypes, StoreTypes, ChildrenFine, ChildFine
    <2>2. Len(c) \in Nat \ {0}
      BY <2>1, CredentialLen
    <2>3. \A k \in 1 .. Len(c) : Path(c, k) \in creds
      BY <2>1, SameProperties, SameOperators DEF Store!ParentsStored
    <2>4. \E j \in Jtis : token[j] = Path(c, 1)
      <3>1. 1 \in 1 .. Len(c)
        BY <2>2
      <3>2. Path(c, 1) \in creds /\ Len(Path(c, 1)) = 1
        BY <2>1, <2>3, <3>1, PathFacts
      <3> QED
        BY <3>2 DEF Linked, RowsFine
    <2>5. ASSUME NEW k \in 2 .. Len(c)
          PROVE /\ c[k].req \in Requests /\ child[c[k].req] = Path(c, k)
                /\ TraceOf[c[k].req] = TraceOf[r] /\ c[k].trace = TraceOf[r]
      <3>1. k \in 1 .. Len(c) /\ Len(c) \in 2 .. Len(c)
        BY <2>2
      <3>2. c[k].req \in Requests /\ child[c[k].req] = Path(c, k)
        BY <2>1 DEF Linked, RowsFine
      <3>3. Path(c, k) # <<>> /\ BoundTrace(Path(c, k)) = c[k].trace
        <4>1. Path(c, k) \in Credential /\ Len(Path(c, k)) = k /\ Path(c, k)[k] = c[k]
          BY <2>1, <3>1, PathFacts
        <4> QED
          BY <4>1 DEF BoundTrace, Credential
      <3>4. c[k].trace = TraceOf[c[k].req]
        BY <3>2, <3>3 DEF Linked, IInv, ChildrenFine, ChildFine
      <3>5. c[k].trace = c[Len(c)].trace
        BY <2>1, <3>1, SameProperties DEF Store!OneTrace
      <3> QED
        BY <2>1, <3>2, <3>4, <3>5 DEF BoundTrace
    <2> QED
      BY <2>4, <2>5
  <1> QED
    BY <1>1, AlwaysLinked, StoreInvariant, PTL

\* One request of an agent's binds all that is ever delegated below it: a stored
\* credential has no more than the target of each hop above it, and no more than
\* the user of its token if one of these hops relayed the user's list it was given.
HopsConfined ==
  \A c \in creds : \A k \in 2 .. Len(c) : c[k].req \notin RootTasks =>
    /\ CapsOf(c) \subseteq AgentCaps[c[k].subject]
    /\ ask[c[k].req].ucaps = c[k].ucaps => CapsOf(c) \subseteq c[1].ucaps

\* The decision of authorize holds at every hop of every stored chain.
THEOREM HopsAreConfined == Spec => []HopsConfined
  <1>1. Linked /\ StoreProofs!IInv => HopsConfined
    <2> SUFFICES ASSUME Linked, StoreProofs!IInv, NEW c \in creds, NEW k \in 2 .. Len(c),
                        c[k].req \notin RootTasks
                 PROVE /\ CapsOf(c) \subseteq AgentCaps[c[k].subject]
                       /\ ask[c[k].req].ucaps = c[k].ucaps => CapsOf(c) \subseteq c[1].ucaps
      BY DEF HopsConfined
    <2>1. c \in Credential
      BY Types DEF Linked, IInv, StoreTypes
    <2>2. k \in 1 .. Len(c) /\ 1 \in 1 .. Len(c) /\ 1 <= k
      BY <2>1, CredentialLen
    <2>3. c[k].req \in Requests /\ child[c[k].req] = Path(c, k)
      BY DEF Linked, RowsFine
    <2>4. Path(c, k) \in Credential /\ Len(Path(c, k)) = k /\ Path(c, k)[k] = c[k]
      BY <2>1, <2>2, PathFacts
    <2>5. Confined(Path(c, k)) /\ InUserList(c[k].req, Path(c, k))
      BY <2>3, <2>4 DEF Linked, IInv, ChildrenFine, ChildFine, Credential
    <2>6. /\ CapsOf(Path(c, k)) = c[k].caps /\ Holder(Path(c, k)) = c[k].subject
          /\ UserList(Path(c, k)) = c[k].ucaps
      BY <2>4, UserListType DEF CapsOf, Holder
    <2>7. CapsOf(c) \subseteq c[k].caps
      BY <2>2 DEF Linked, IInv, CredsFine
    <2>8. c[k].ucaps \subseteq c[1].ucaps
      BY <2>2, SameProperties DEF Store!Attenuation
    <2> QED
      BY <2>5, <2>6, <2>7, <2>8 DEF Confined, InUserList
  <1> QED
    BY <1>1, AlwaysLinked, StoreInvariant, PTL

-----------------------------------------------------------------------------
(* How far the two findings go.                                            *)

\* A call that runs on below a revoked token, because its credential was
\* inserted after the tree was read, can delegate nothing.
EscapedCallsInert ==
  \A r \in Requests : phase[r] = "active" /\ Path(child[r], 1) \in answered =>
    /\ ~ValidBranch(creds, revoked, now, child[r])
    /\ \/ child[r] \notin revoked
       \/ TraceOf[r] \in cancelled
       \/ \E t \in Threads : TraceOf[r] \in todo[t]

\* RevocationReachesCalls fails only for calls whose credential is unmarked, and
\* those no longer pass validate_credential_branch.
THEOREM EscapedCallsStayInert == Spec => []EscapedCallsInert
  <1>1. IInv /\ Store!RevocationIsFinal => EscapedCallsInert
    <2> SUFFICES ASSUME IInv, Store!RevocationIsFinal, NEW r \in Requests, phase[r] = "active",
                        Path(child[r], 1) \in answered
                 PROVE /\ ~ValidBranch(creds, revoked, now, child[r])
                       /\ \/ child[r] \notin revoked
                          \/ TraceOf[r] \in cancelled
                          \/ \E t \in Threads : TraceOf[r] \in todo[t]
      BY DEF EscapedCallsInert
    <2>1. child[r] # <<>> /\ child[r] \in creds /\ child[r] \in Credential
      BY Types DEF IInv, HandlerTypes, StoreTypes, ChildrenFine, ChildFine
    <2>2. Under(Path(child[r], 1), child[r])
      <3>1. Len(child[r]) \in Nat \ {0}
        BY <2>1, CredentialLen
      <3>2. 1 \in 1 .. Len(child[r]) /\ 1 <= Len(child[r])
        BY <3>1
      <3>3. Len(Path(child[r], 1)) = 1
        BY <2>1, <3>2, PathFacts
      <3> QED
        BY <3>2, <3>3 DEF Under
    <2>3. Path(child[r], 1) \in StoreAnswered
      BY DEF StoreAnswered
    <2>4. ~ValidBranch(creds, revoked, now, child[r])
      BY <2>1, <2>2, <2>3, SameOperators DEF Store!RevocationIsFinal
    <2> QED
      BY <2>1, <2>4 DEF IInv, Revoking
  <1> QED
    BY <1>1, Invariance, RevocationIsFinalBehindRoutes, PTL

\* FailuresAudited but for a root task's failed call.
OtherFailuresAudited ==
  \A r \in Requests :
    /\ response[r] \in {"refused", "cancelled", "failed"}
    /\ ~(r \in RootTasks /\ response[r] = "failed")
    => log[r] # <<>> /\ log[r][Len(log[r])] = "deny"

\* Every other failure the routes answer leaves a deny as its last row.
THEOREM OtherFailuresAreAudited == Spec => []OtherFailuresAudited
  <1>1. IInv => OtherFailuresAudited
    <2> SUFFICES ASSUME IInv, NEW r \in Requests, response[r] \in {"refused", "cancelled", "failed"},
                        ~(r \in RootTasks /\ response[r] = "failed")
                 PROVE log[r] # <<>> /\ log[r][Len(log[r])] = "deny"
      BY DEF OtherFailuresAudited
    <2> DEFINE rows == CancelRows \cup {<<"deny">>, <<"allow", "deny">>}
    <2>1. log[r] \in rows
      BY DEF IInv, LogsFine, LogFine
    <2>2. \A s \in rows : s # <<>> /\ s[Len(s)] = "deny"
      BY DEF CancelRows
    <2> HIDE DEF rows
    <2> QED
      BY <2>1, <2>2
  <1> QED
    BY <1>1, Invariance, PTL

-----------------------------------------------------------------------------
(* The gateway keeps the promise of Authority: two refinements in a row.    *)

LEMMA StoreSound == Spec => []StoreProofs!Sound
  <1>1. Init => StoreProofs!Sound
    BY StoreInit, SameInit, StoreProofs!InitSound, StoreAssumptions
  <1>2. Linked /\ Linked' /\ StoreProofs!Sound /\ [Next]_vars => StoreProofs!Sound'
    BY StoreSteps, StoreProofs!StepSound, StoreAssumptions
  <1> QED
    BY <1>1, <1>2, AlwaysLinked, PTL DEF Spec

\* Instantiated twice, Delegation's operators are the same.
LEMMA SameUsable == StoreProofs!Usable = Store!Usable /\ (StoreProofs!Usable = Store!Usable)'
  BY DEF StoreProofs!Usable, Store!Usable, StoreProofs!ValidBranch, Store!ValidBranch,
         StoreProofs!Path, Store!Path

LEMMA SameAuthority ==
  /\ StoreProofs!Promise!Init => Store!Promise!Init
  /\ StoreProofs!Promise!Next => Store!Promise!Next
  /\ UNCHANGED StoreProofs!Promise!vars => UNCHANGED Store!Promise!vars
  <1>1. /\ \A c : StoreProofs!Promise!Issue(c) = Store!Promise!Issue(c)
        /\ \A c : StoreProofs!Promise!Delegate(c) = Store!Promise!Delegate(c)
        /\ \A root : StoreProofs!Promise!Revoke(root) = Store!Promise!Revoke(root)
        /\ StoreProofs!Promise!Tick = Store!Promise!Tick
    BY SameUsable
    DEF StoreProofs!Promise!Issue, Store!Promise!Issue, StoreProofs!Promise!Delegate,
        Store!Promise!Delegate, StoreProofs!Promise!Revoke, Store!Promise!Revoke,
        StoreProofs!Promise!Tick, Store!Promise!Tick, StoreProofs!Promise!Path,
        Store!Promise!Path, StoreProofs!Promise!Under, Store!Promise!Under
  <1>2. StoreProofs!Promise!Next => Store!Promise!Next
    BY <1>1, SameUsable DEF StoreProofs!Promise!Next, Store!Promise!Next
  <1> QED
    BY <1>2, SameUsable
    DEF StoreProofs!Promise!Init, Store!Promise!Init, StoreProofs!Promise!vars,
        Store!Promise!vars

\* The credentials the routes accept come and go as Authority lets them, with
\* the requests, worker threads, cancellations and the audit log around the
\* store: a call adds one below an accepted one, a revoke route takes a whole
\* tree, and nothing else changes what is accepted but the clock.
THEOREM GatewayImplementsAuthority == Spec => Store!ImplementsAuthority
  <1>1. Init => Store!Promise!Init
    BY StoreInit, SameInit, SameAuthority, StoreProofs!InitAuthority, StoreAssumptions
  <1>2. Linked /\ Linked' /\ StoreProofs!Sound /\ StoreProofs!Sound' /\ [Next]_vars
          => [Store!Promise!Next]_Store!Promise!vars
    BY StoreSteps, SameAuthority, StoreProofs!StepAuthority, StoreAssumptions
  <1> QED
    BY <1>1, <1>2, StoreSound, AlwaysLinked, PTL DEF Spec, Store!ImplementsAuthority, Store!Promise!Spec

-----------------------------------------------------------------------------
(* The routes and the task registry.                                       *)

\* What the routes and the revoke threads do to the task registry, CancelScope
\* allows - which TaskRegistry implements: a call begins once and ends as its
\* doom has it, and cancellations fall into one of the registry's steps each.
THEOREM GatewayKeepsCancelScope == Spec => Scope!Spec
  <1>1. Init => Scope!Init
    BY DEF Init
  <1>2. [Next]_vars => [Scope!Next]_(Scope!vars)
    <2> SUFFICES ASSUME [Next]_vars PROVE Scope!Next \/ UNCHANGED scopeVars
      BY DEF Scope!vars, scopeVars
    <2>1. ASSUME NEW r \in Requests, Register(r) PROVE Scope!Next
      BY <2>1 DEF Register, Scope!Next
    <2>2. ASSUME NEW r \in Requests,
                 CallReturned(r) \/ CallFailed(r) \/ CallBroken(r) \/ CallCancelled(r)
          PROVE Scope!Next
      BY <2>2 DEF CallReturned, CallFailed, CallBroken, CallCancelled, Scope!Next
    <2>3. ASSUME NEW r \in Requests, CancelArrives(r) PROVE Scope!Next
      BY <2>3 DEF CancelArrives, Scope!Next
    <2>4. ASSUME NEW t \in Threads, NEW tr \in Traces, CancelTrace(t, tr) PROVE Scope!Next
      BY <2>4 DEF CancelTrace, Scope!Next
    <2>5. ASSUME NEW r \in Requests,
                 \/ \E j \in Jtis, q \in CallAsks :
                      \/ RootTask(r, j, q)
                      \/ \E relayed \in creds \cup {<<>>} : AgentTask(r, j, relayed, q)
                 \/ IntentReady(r) \/ IntentJudged(r) \/ Authorize(r) \/ Build(r) \/ Insert(r)
          PROVE UNCHANGED scopeVars
      BY <2>5 DEF RootTask, AgentTask, IntentReady, IntentJudged, Authorize, Build, Insert
    <2>6. ASSUME NEW t \in Threads,
                 ListTree(t) \/ UpdateTree(t) \/ RevokeAnswers(t) \/ \E j \in Jtis : RevokeToken(t, j)
          PROVE UNCHANGED scopeVars
      BY <2>6 DEF ListTree, UpdateTree, RevokeAnswers, RevokeToken
    <2>7. ASSUME Tick \/ \E j \in Jtis, q \in TokenAsks, ttl \in 1 .. MaxTTL : CreateToken(j, q, ttl)
          PROVE UNCHANGED scopeVars
      BY <2>7 DEF Tick, CreateToken
    <2>8. CASE UNCHANGED vars
      BY <2>8 DEF vars
    <2> QED
      BY <2>1, <2>2, <2>3, <2>4, <2>5, <2>6, <2>7, <2>8 DEF Next
  <1> QED
    BY <1>1, <1>2, PTL DEF Spec, Scope!Spec
=============================================================================
