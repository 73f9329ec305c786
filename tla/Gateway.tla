-------------------------------- MODULE Gateway --------------------------------
(***************************************************************************)
(* The two task routes of app/gateway/routes.py, the revoke route of       *)
(* app/identity/routes.py and what they share: the token and credential    *)
(* stores (operators of Credentials), the task registry (CancelScope,      *)
(* which TaskRegistry implements) and the audit log.                       *)
(*                                                                         *)
(* A handler holds the event loop from one await to the next.  It gives it *)
(* up while the intent provider works (generating, judging) and while the  *)
(* target agent does (forwarded).  Everything it learnt before is old when *)
(* it resumes.  From the judge's answer to the registration of the         *)
(* forwarded call it keeps the loop (`loop`), but each store call is a     *)
(* transaction of its own, and revoke threads run in between.              *)
(***************************************************************************)
EXTENDS Credentials, FiniteSets

CONSTANTS RootTasks,  \* the requests to POST /a2a/root-tasks; the others go to /agents/../tasks
          TraceOf,    \* request -> trace id of its envelope
          AgentCaps,  \* agent -> capabilities of its Agent VC (its row, if it has none)
          Active,     \* registered agents with status "active"
          Threads,    \* worker threads that serve the revoke route
          TokenAsks,  \* bound: the tokens asked for
          CallAsks,   \* bound: the calls asked for, with what an auth context says of user and actor
          MaxTTL,     \* bound: longest token lifetime asked for
          MaxTime     \* bound: the clock stops here

ASSUME RequestsAssumption == RootTasks \subseteq Requests /\ TraceOf \in [Requests -> Traces]
ASSUME AgentsAssumption == Active \subseteq Agents /\ AgentCaps \in [Agents -> SUBSET Caps]
ActorTypes == {"user", "agent"}
ASSUME AsksAssumption ==
  /\ TokenAsks \subseteq [agent : Principals, actor : ActorTypes, user : Users,
                          caps : SUBSET Caps, ucaps : SUBSET Caps]
  /\ CallAsks \subseteq [target : Agents, caps : SUBSET Caps, ucaps : SUBSET Caps, actor : ActorTypes]
ASSUME BoundsAssumption == MaxTTL \in Nat /\ MaxTime \in Nat
ASSUME NoneAssumption == None \notin Traces \cup Requests
\* The tokens and requests of one behaviour, of which every moment has seen
\* finitely many; they bound the rows and paths of Delegation.
ASSUME FiniteAssumption == IsFiniteSet(Jtis) /\ IsFiniteSet(Requests)

VARIABLES now, creds, revoked, token, tokenRevoked,  \* the stores, as in Delegation
          actorType,  \* token -> actor_type of its row ("agent", the column's default, without one)
          stage,      \* request -> how far its handler is
          ask,        \* request -> trusted credential, the user capabilities that came with it,
                      \* target and requested capabilities, once they are accepted
          child,      \* request -> the credential forwarded to the target
          log,        \* request -> its rows in audit_logs
          response,   \* request -> what the caller got
          loop,       \* the request whose handler keeps the loop, None if none does
          cancelled, doomed, phase, result,          \* the task registry, as in CancelScope
          pc, job, snapshot, answered,               \* the revoke route, as in Delegation
          todo        \* revoke thread -> traces it has still to cancel

storeVars   == <<creds, revoked, token, tokenRevoked, actorType>>
handlerVars == <<stage, ask, child, log, response, loop>>
scopeVars   == <<cancelled, doomed, phase, result>>
revokeVars  == <<pc, job, snapshot, answered, todo>>
vars == <<now, storeVars, handlerVars, scopeVars, revokeVars>>

Scope == INSTANCE CancelScope WITH Tasks <- Requests

Stages    == {"idle", "generating", "judging", "authorizing", "building",
              "inserting", "registering", "forwarded", "answered"}
Responses == {"none", "ok", "refused", "cancelled", "failed", "crashed"}
Ask       == [cred : Credential, ucaps : SUBSET Caps, target : Agents, caps : SUBSET Caps]

TypeOK ==
  /\ now \in 0 .. MaxTime
  /\ creds \in SUBSET Credential
  /\ revoked \in SUBSET creds
  /\ token \in [Jtis -> creds \cup {<<>>}]
  /\ tokenRevoked \in SUBSET Jtis
  /\ actorType \in [Jtis -> ActorTypes]
  /\ stage \in [Requests -> Stages]
  /\ ask \in [Requests -> Ask \cup {None}]
  /\ \A r \in Requests : stage[r] \notin {"idle", "answered"} => ask[r] \in Ask
  /\ child \in [Requests -> creds \cup {<<>>}]
  /\ log \in [Requests -> Seq({"allow", "deny"})]
  /\ response \in [Requests -> Responses]
  /\ loop \in Requests \cup {None}
  /\ cancelled \in SUBSET Traces
  /\ doomed \in SUBSET Requests
  /\ phase \in [Requests -> {"absent", "active", "ended"}]
  /\ result \in [Requests -> {"none", "completed", "failed", "cancelled"}]
  /\ pc \in [Threads -> {"idle", "list", "update", "cancel"}]
  /\ job \in [Threads -> creds \cup {<<>>}]
  /\ snapshot \in [Threads -> SUBSET creds]
  /\ answered \in SUBSET creds
  /\ todo \in [Threads -> SUBSET Traces]

Init ==
  /\ now = 0
  /\ creds = {} /\ revoked = {} /\ tokenRevoked = {}
  /\ token = [j \in Jtis |-> <<>>]
  /\ actorType = [j \in Jtis |-> "agent"]
  /\ stage = [r \in Requests |-> "idle"]
  /\ ask = [r \in Requests |-> None]
  /\ child = [r \in Requests |-> <<>>]
  /\ log = [r \in Requests |-> <<>>]
  /\ response = [r \in Requests |-> "none"]
  /\ loop = None
  /\ Scope!Init
  /\ pc = [t \in Threads |-> "idle"]
  /\ job = [t \in Threads |-> <<>>]
  /\ snapshot = [t \in Threads |-> {}]
  /\ answered = {}
  /\ todo = [t \in Threads |-> {}]

-----------------------------------------------------------------------------
(* How a handler goes on or ends.                                          *)

Proceed(r, s, l) ==
  /\ stage' = [stage EXCEPT ![r] = s]
  /\ loop' = l
  /\ UNCHANGED response

\* The handler ends: `rows` are what it still writes to the audit log.
Answer(r, res, rows) ==
  /\ stage' = [stage EXCEPT ![r] = "answered"]
  /\ response' = [response EXCEPT ![r] = res]
  /\ log' = [log EXCEPT ![r] = @ \o rows]
  /\ loop' = None

\* record_decision(deny) and an HTTPException.
Refuse(r) == Answer(r, "refused", <<"deny">>)

\* An exception no handler expects: HTTP 500.
Crash(r) == Answer(r, "crashed", <<>>)

\* inspect_token: not expired, registered, not revoked, root credential not
\* revoked (signature, issuer and audience are not modelled).
Verified(j) ==
  /\ token[j] # <<>>
  /\ token[j][1].exp > now
  /\ j \notin tokenRevoked
  /\ token[j] \notin revoked

-----------------------------------------------------------------------------
(* Tokens.                                                                 *)

\* A slip: create_token passes an empty list of user capabilities on.
CreateTokenAsAsked(j, q, ttl) ==
  LET c == <<RootLink(q.agent, q.user, q.caps, q.ucaps, now, ttl, j)>>
  IN /\ \A d \in creds : d[1].req # j
     /\ q.actor = "agent" => q.agent \in Active
     /\ creds' = creds \cup {c}
     /\ token' = [token EXCEPT ![j] = c]
     /\ actorType' = [actorType EXCEPT ![j] = q.actor]
     /\ UNCHANGED <<now, revoked, tokenRevoked, handlerVars, scopeVars, revokeVars>>

\* create_token: no user capabilities means those of the token; only who asks for
\* an agent's token must be an active agent, and any user may be delegated.
CreateToken(j, q, ttl) ==
  LET ucaps == IF q.ucaps = {} THEN q.caps ELSE q.ucaps
      c == <<RootLink(q.agent, q.user, q.caps, ucaps, now, ttl, j)>>
  IN /\ \A d \in creds : d[1].req # j
     /\ q.actor = "agent" => q.agent \in Active
     /\ creds' = creds \cup {c}
     /\ token' = [token EXCEPT ![j] = c]
     /\ actorType' = [actorType EXCEPT ![j] = q.actor]
     /\ UNCHANGED <<now, revoked, tokenRevoked, handlerVars, scopeVars, revokeVars>>

Tick ==
  /\ now < MaxTime
  /\ now' = now + 1
  /\ UNCHANGED <<storeVars, handlerVars, scopeVars, revokeVars>>

-----------------------------------------------------------------------------
(* The task routes.                                                        *)

UserList(c) == IF c = <<>> THEN {} ELSE c[Len(c)].ucaps

\* root_task up to its first await: the bearer is a valid token of actor type
\* "user" and the target is active.
RootTask(r, j, q) ==
  LET good == Verified(j) /\ actorType[j] = "user" /\ q.target \in Active
  IN /\ loop = None
     /\ r \in RootTasks /\ stage[r] = "idle"
     /\ \/ /\ good /\ Proceed(r, "generating", None)
           /\ ask' = [ask EXCEPT ![r] = [cred |-> token[j], ucaps |-> UserList(token[j]),
                                         target |-> q.target, caps |-> q.caps]]
           /\ UNCHANGED log
        \/ ~good /\ Refuse(r) /\ UNCHANGED ask
     /\ UNCHANGED <<now, storeVars, child, scopeVars, revokeVars>>

\* agent_task up to its first await.  A request may relay an auth context of any
\* stored credential.  trusted_auth_context_for_envelope compares credential (valid,
\* of this trace, held by the bearer), subject, DID and capabilities and then takes the
\* context as it came: its user capabilities and its actor type are what the
\* request says.  Without a context it is that of the bearer's token.  (A context
\* of a credential that is not stored is refused like one that is not valid.)
AgentTask(r, j, relayed, q) ==
  LET trusted == IF relayed = <<>> THEN token[j] ELSE relayed
      good == /\ q.target \in Active
              /\ Verified(j)
              /\ relayed # <<>> =>
                   /\ ValidBranch(creds, revoked, now, relayed)
                   /\ BoundTrace(relayed) \in {None, TraceOf[r]}
                   /\ Holder(relayed) = Holder(token[j])
              /\ "agent" = IF relayed = <<>> THEN actorType[j] ELSE q.actor
  IN /\ loop = None
     /\ r \notin RootTasks /\ stage[r] = "idle"
     /\ \/ /\ good /\ Proceed(r, "generating", None)
           /\ ask' = [ask EXCEPT ![r] = [cred |-> trusted, target |-> q.target, caps |-> q.caps,
                                         ucaps |-> IF relayed = <<>> THEN UserList(token[j]) ELSE q.ucaps]]
           /\ UNCHANGED log
        \/ ~good /\ Refuse(r) /\ UNCHANGED ask
     /\ UNCHANGED <<now, storeVars, child, scopeVars, revokeVars>>

\* The intent node is there (generated, or brought by the envelope) and passes
\* validation; or it does not; or the provider's answer breaks the parser.
IntentReady(r) ==
  /\ loop = None
  /\ stage[r] = "generating"
  /\ \/ Proceed(r, "judging", None) /\ UNCHANGED log
     \/ Refuse(r)
     \/ Crash(r)
  /\ UNCHANGED <<now, storeVars, ask, child, scopeVars, revokeVars>>

\* The judge has answered: consistent; drifted or failed; or an exception of the
\* HTTP client that judge_intent lets through.
IntentJudged(r) ==
  /\ loop = None
  /\ stage[r] = "judging"
  /\ \/ /\ Proceed(r, IF r \in RootTasks THEN "building" ELSE "authorizing", r)
        /\ UNCHANGED log
     \/ Refuse(r)
     \/ Crash(r)
  /\ UNCHANGED <<now, storeVars, ask, child, scopeVars, revokeVars>>

\* auth_context.user_capabilities or auth_context.capabilities
UserCaps(a) == IF a.ucaps = {} THEN CapsOf(a.cred) ELSE a.ucaps

\* authorize, record_decision and raise_for_denied: the credential is valid now,
\* and credential, target and the context's user all have what is requested.
Authorize(r) ==
  LET a == ask[r]
      allowed == /\ ValidBranch(creds, revoked, now, a.cred)
                 /\ a.caps \subseteq CapsOf(a.cred) \cap AgentCaps[a.target] \cap UserCaps(a)
  IN /\ loop = r /\ stage[r] = "authorizing"
     /\ \/ allowed /\ Proceed(r, "building", r) /\ log' = [log EXCEPT ![r] = Append(@, "allow")]
        \/ ~allowed /\ Refuse(r)
     /\ UNCHANGED <<now, storeVars, ask, child, scopeVars, revokeVars>>

\* A slip: what was validated before the awaits is not validated again.
BuildOnStaleContext(r) ==
  LET a == ask[r]
      valid == a.caps \subseteq CapsOf(a.cred)
  IN /\ loop = r /\ stage[r] = "building"
     /\ \/ valid /\ Proceed(r, "inserting", r) /\ UNCHANGED log
        \/ ~valid /\ Refuse(r)
     /\ UNCHANGED <<now, storeVars, ask, child, scopeVars, revokeVars>>

\* build_child_auth_context up to the insert.
Build(r) ==
  LET a == ask[r]
      valid == /\ ValidBranch(creds, revoked, now, a.cred)
               /\ a.caps \subseteq CapsOf(a.cred)
  IN /\ loop = r /\ stage[r] = "building"
     /\ \/ valid /\ Proceed(r, "inserting", r) /\ UNCHANGED log
        \/ ~valid /\ Refuse(r)
     /\ UNCHANGED <<now, storeVars, ask, child, scopeVars, revokeVars>>

\* upsert_credential; root_task then records its allow.
Insert(r) ==
  LET a == ask[r]
      c == Append(a.cred, ChildLink(a.cred, a.target, a.caps, TraceOf[r], r, now))
  IN /\ loop = r /\ stage[r] = "inserting"
     /\ creds' = creds \cup {c}
     /\ revoked' = revoked \ {c}
     /\ child' = [child EXCEPT ![r] = c]
     /\ log' = IF r \in RootTasks THEN [log EXCEPT ![r] = Append(@, "allow")] ELSE log
     /\ Proceed(r, "registering", r)
     /\ UNCHANGED <<now, token, tokenRevoked, actorType, ask, scopeVars, revokeVars>>

\* forward_to_agent up to its await: create_task and register_task.
Register(r) ==
  /\ loop = r /\ stage[r] = "registering"
  /\ Scope!Begin(r)
  /\ Proceed(r, "forwarded", None)
  /\ UNCHANGED <<now, storeVars, ask, child, log, revokeVars>>

\* A slip: agent_task lets the exception of forward_to_agent pass.
CallFailedUnrecorded(r) ==
  /\ loop = None /\ stage[r] = "forwarded"
  /\ Scope!End(r, "failed")
  /\ Answer(r, "failed", <<>>)
  /\ UNCHANGED <<now, storeVars, ask, child, revokeVars>>

\* The agent's HTTP error, no connection, or a timeout: 502, which only
\* agent_task records.
CallFailed(r) ==
  /\ loop = None /\ stage[r] = "forwarded"
  /\ Scope!End(r, "failed")
  /\ Answer(r, "failed", IF r \in RootTasks THEN <<>> ELSE <<"deny">>)
  /\ UNCHANGED <<now, storeVars, ask, child, revokeVars>>

CallReturned(r) ==
  /\ loop = None /\ stage[r] = "forwarded"
  /\ Scope!End(r, "completed")
  /\ Answer(r, "ok", <<>>)
  /\ UNCHANGED <<now, storeVars, ask, child, revokeVars>>

\* The agent's answer is no AgentTaskResponse.
CallBroken(r) ==
  /\ loop = None /\ stage[r] = "forwarded"
  /\ Scope!End(r, "failed")
  /\ Crash(r)
  /\ UNCHANGED <<now, storeVars, ask, child, revokeVars>>

\* A slip: a CancelledError is taken for a reply that is still to come.
CallCancelledIgnored(r) ==
  /\ loop = None /\ stage[r] = "forwarded"
  /\ r \in doomed
  /\ doomed' = doomed \ {r}
  /\ UNCHANGED <<now, storeVars, handlerVars, cancelled, phase, result, revokeVars>>

\* CancelledError: forward_to_agent records it and answers 409; agent_task
\* records that exception too.
CallCancelled(r) ==
  /\ loop = None /\ stage[r] = "forwarded"
  /\ Scope!End(r, "cancelled")
  /\ r \in doomed
  /\ Answer(r, "cancelled", IF r \in RootTasks THEN <<"deny">> ELSE <<"deny", "deny">>)
  /\ UNCHANGED <<now, storeVars, ask, child, revokeVars>>

-----------------------------------------------------------------------------
(* POST /identity/tokens/{jti}/revoke.                                     *)

\* revoke_token_and_credentials: get_token, then UPDATE tokens.
RevokeToken(t, j) ==
  /\ pc[t] = "idle"
  /\ token[j] # <<>>
  /\ tokenRevoked' = tokenRevoked \cup {j}
  /\ job' = [job EXCEPT ![t] = token[j]]
  /\ pc' = [pc EXCEPT ![t] = "list"]
  /\ UNCHANGED <<now, creds, revoked, token, actorType, handlerVars, scopeVars, snapshot, answered, todo>>

\* A slip: descendants are not collected.
ListRootOnly(t) ==
  /\ pc[t] = "list"
  /\ snapshot' = [snapshot EXCEPT ![t] = {job[t]}]
  /\ pc' = [pc EXCEPT ![t] = "update"]
  /\ UNCHANGED <<now, storeVars, handlerVars, scopeVars, job, answered, todo>>

\* revoke_credential_tree reads the root's rows and walks them.
ListTree(t) ==
  /\ pc[t] = "list"
  /\ snapshot' = [snapshot EXCEPT ![t] = Tree(creds, job[t])]
  /\ pc' = [pc EXCEPT ![t] = "update"]
  /\ UNCHANGED <<now, storeVars, handlerVars, scopeVars, job, answered, todo>>

\* A slip: the traces are those of the token's own credential.
UpdateTreeOfRoot(t) ==
  /\ pc[t] = "update"
  /\ revoked' = revoked \cup snapshot[t]
  /\ todo' = [todo EXCEPT ![t] = {BoundTrace(job[t])} \ {None}]
  /\ pc' = [pc EXCEPT ![t] = "cancel"]
  /\ UNCHANGED <<now, creds, token, tokenRevoked, actorType, handlerVars, scopeVars, job, snapshot, answered>>

\* A slip: the root's missing trace id is not filtered out.
UpdateTreeWithNone(t) ==
  /\ pc[t] = "update"
  /\ revoked' = revoked \cup snapshot[t]
  /\ todo' = [todo EXCEPT ![t] = {BoundTrace(c) : c \in snapshot[t]}]
  /\ pc' = [pc EXCEPT ![t] = "cancel"]
  /\ UNCHANGED <<now, creds, token, tokenRevoked, actorType, handlerVars, scopeVars, job, snapshot, answered>>

\* UPDATE delegation_credentials; the traces are read off the snapshot.
UpdateTree(t) ==
  /\ pc[t] = "update"
  /\ revoked' = revoked \cup snapshot[t]
  /\ todo' = [todo EXCEPT ![t] = {BoundTrace(c) : c \in snapshot[t]} \ {None}]
  /\ pc' = [pc EXCEPT ![t] = "cancel"]
  /\ UNCHANGED <<now, creds, token, tokenRevoked, actorType, handlerVars, scopeVars, job, snapshot, answered>>

\* A slip: every running call is cancelled.
CancelEveryTrace(t, tr) ==
  /\ pc[t] = "cancel"
  /\ tr \in Traces
  /\ Scope!Cancel(tr)
  /\ todo' = [todo EXCEPT ![t] = @ \ {tr}]
  /\ UNCHANGED <<now, storeVars, handlerVars, pc, job, snapshot, answered>>

\* cancel_traces, one trace.
CancelTrace(t, tr) ==
  /\ pc[t] = "cancel"
  /\ tr \in todo[t]
  /\ Scope!Cancel(tr)
  /\ todo' = [todo EXCEPT ![t] = @ \ {tr}]
  /\ UNCHANGED <<now, storeVars, handlerVars, pc, job, snapshot, answered>>

RevokeAnswers(t) ==
  /\ pc[t] = "cancel"
  /\ todo[t] = {}
  /\ answered' = answered \cup {job[t]}
  /\ pc' = [pc EXCEPT ![t] = "idle"]
  /\ job' = [job EXCEPT ![t] = <<>>]
  /\ snapshot' = [snapshot EXCEPT ![t] = {}]
  /\ UNCHANGED <<now, storeVars, handlerVars, scopeVars, todo>>

\* A cancel scheduled on the loop reaches its call.
CancelArrives(r) ==
  /\ r \notin doomed
  /\ Scope!Doom(r)
  /\ UNCHANGED <<now, storeVars, handlerVars, revokeVars>>

-----------------------------------------------------------------------------
Next ==
  \/ \E j \in Jtis, q \in TokenAsks, ttl \in 1 .. MaxTTL : CreateToken(j, q, ttl)
  \/ Tick
  \/ \E r \in Requests :
       \/ \E j \in Jtis, q \in CallAsks :
            \/ RootTask(r, j, q)
            \/ \E relayed \in creds \cup {<<>>} : AgentTask(r, j, relayed, q)
       \/ IntentReady(r) \/ IntentJudged(r)
       \/ Authorize(r) \/ Build(r) \/ Insert(r) \/ Register(r)
       \/ CallReturned(r) \/ CallFailed(r) \/ CallBroken(r) \/ CallCancelled(r)
       \/ CancelArrives(r)
  \/ \E t \in Threads :
       \/ \E j \in Jtis : RevokeToken(t, j)
       \/ ListTree(t) \/ UpdateTree(t) \/ RevokeAnswers(t)
       \/ \E tr \in Traces : CancelTrace(t, tr)

Spec == Init /\ [][Next]_vars

\* The event loop goes on with a handler that keeps it, runs what is scheduled on
\* it and resumes what was cancelled; worker threads finish their requests.
\* Nothing is assumed of agents, intent providers, users or revocations to come.
Fairness ==
  /\ WF_vars(\E r \in Requests : Authorize(r) \/ Build(r) \/ Insert(r) \/ Register(r))
  /\ \A r \in Requests : WF_vars(CancelArrives(r) \/ CallCancelled(r))
  /\ \A t \in Threads :
       WF_vars(ListTree(t) \/ UpdateTree(t) \/ RevokeAnswers(t) \/ \E tr \in Traces : CancelTrace(t, tr))

FairSpec == Spec /\ Fairness

-----------------------------------------------------------------------------
(* Properties.                                                             *)

\* Whatever a handler read before it waited for the intent provider, it never
\* delegates from a token whose revocation has answered meanwhile.
NothingFromRevoked ==
  [][\A r \in Requests : stage[r] = "building" /\ stage'[r] = "inserting"
        => Path(ask[r].cred, 1) \notin answered]_vars

\* A credential marked revoked and the registry agree: if a call's credential is
\* revoked, its trace is cancelled or a revoke thread is about to cancel it.
RevokedCallsCancelled ==
  \A r \in Requests : phase[r] = "active" /\ child[r] \in revoked
    => TraceOf[r] \in cancelled \/ \E t \in Threads : TraceOf[r] \in todo[t]

\* A running call whose credential is marked revoked ends although its agent may
\* never answer: through the traces read off the list, the cancel that is put on
\* the loop and the CancelledError in forward_to_agent.
MarkedCallsEnd ==
  \A r \in Requests : phase[r] = "active" /\ child[r] \in revoked ~> phase[r] = "ended"

\* A call is cancelled only because a token that has delegated in its trace was
\* revoked: never because something expired ("Token/credential 过期不得主动取消已经
\* 开始的任务") and never by the revocation of a token that no request has used.
CancelledByRevocation ==
  \A r \in Requests : r \in doomed \/ result[r] = "cancelled"
    => \E c \in creds : BoundTrace(c) = TraceOf[r] /\ Path(c, 1) \in revoked

\* What an agent delegates to another is within the target's capabilities and
\* those of every link of its credential; and within the user's, also when the user's
\* list was empty, if its request relayed the user capabilities that
\* auth_context_from_credential put into the context (authorize intersects with the
\* list that came with the request).
AgentCallsConfined ==
  \A r \in Requests \ RootTasks : phase[r] # "absent" =>
    LET c == child[r]
    IN /\ CapsOf(c) \subseteq AgentCaps[Holder(c)]
       /\ \A k \in 1 .. Len(c) : CapsOf(c) \subseteq c[k].caps
       /\ ask[r].ucaps = UserList(c) => CapsOf(c) \subseteq UserList(c)

\* A call's credential can be traced: each delegation on its path is what one
\* request of the same trace was given (build_child_auth_context stamps
\* request_id and trace_id), and the path begins at a stored token.
CallsTraceable ==
  \A r \in Requests : child[r] # <<>> =>
    LET c == child[r]
    IN /\ \E j \in Jtis : token[j] = Path(c, 1)
       /\ \A k \in 2 .. Len(c) :
            LET q == c[k].req
            IN q \in Requests /\ child[q] = Path(c, k) /\ TraceOf[q] = TraceOf[r] /\ c[k].trace = TraceOf[r]

\* The audit log agrees with the answers: a call is under way on exactly one
\* allow; success adds nothing; a refusal, a cancellation and, for agents'
\* calls, a failure end in a deny.
AuditAgrees ==
  \A r \in Requests :
    /\ phase[r] = "active" => log[r] = <<"allow">>
    /\ response[r] = "ok" => log[r] = <<"allow">>
    /\ response[r] = "refused" => log[r] \in {<<"deny">>, <<"allow", "deny">>}
    /\ response[r] = "cancelled" => log[r][1] = "allow" /\ log[r][Len(log[r])] = "deny"
    /\ response[r] = "failed" /\ r \notin RootTasks => log[r] = <<"allow", "deny">>

\* The route as a whole implements Delegation: a handler between Build and
\* Insert is the delegation under way, and a thread that cancels traces is done
\* with the store.
Building ==
  IF \E r \in Requests : stage[r] = "inserting"
  THEN LET r == CHOOSE q \in Requests : stage[q] = "inserting"
       IN [parent |-> ask[r].cred, subject |-> ask[r].target, caps |-> ask[r].caps,
           trace |-> TraceOf[r], req |-> r]
  ELSE None

InStore(t) == pc[t] # "cancel"

StorePc       == [t \in Threads |-> IF InStore(t) THEN pc[t] ELSE "idle"]
StoreJob      == [t \in Threads |-> IF InStore(t) THEN job[t] ELSE <<>>]
StoreSnapshot == [t \in Threads |-> IF InStore(t) THEN snapshot[t] ELSE {}]
StoreAnswered == answered \cup {job[t] : t \in {s \in Threads : ~InStore(s)}}

Store == INSTANCE Delegation WITH
  building <- Building,
  pc <- StorePc, job <- StoreJob, snapshot <- StoreSnapshot, answered <- StoreAnswered,
  MaxCreds <- Cardinality(Jtis) + Cardinality(Requests) + 1,
  MaxDepth <- Cardinality(Requests) + 2

\* None is no delegation that could be under way.
ASSUME NoneNoBuild == None \notin Store!Build

ImplementsDelegation == Store!Spec

\* What the documentation says of revocation: when it has answered, no call
\* below the token is under way in a trace that was not cancelled.
RevocationReachesCalls ==
  \A r \in Requests : phase[r] = "active" /\ child[r] # <<>> /\ Path(child[r], 1) \in answered
    => TraceOf[r] \in cancelled

\* What it says of the audit log: every failure the routes answer has written a
\* deny.
FailuresAudited ==
  \A r \in Requests : response[r] \in {"refused", "cancelled", "failed"}
    => log[r] # <<>> /\ log[r][Len(log[r])] = "deny"
=============================================================================
