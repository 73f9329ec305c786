# BuIAM in TLA+

BuIAM is an identity and authorization gateway for agents: users and agents hold
bearer tokens, a user's *root task* is delegated to an agent, agents delegate to
further agents, every delegation is a signed credential below its parent, an
intent node is judged for every hop, and revoking a token revokes what was
delegated below it and cancels what is running. This directory models the
gateway (`src/app`), checks the models with TLC and proves the core of them with
TLAPS. `PROJECT.json` maps every definition to the source lines it stands for.

## 1. How the program runs

One process (FastAPI/uvicorn), one SQLite file, one in-memory dictionary of
running calls. What decides every interleaving below:

* `async def` routes (`root_task`, `agent_task`) run on **one event loop** and
  exclude each other between two `await`s. They await the intent generator, the
  intent judge and the forwarded call, nothing else.
* plain `def` routes (tokens, revoke, registry, DID) run in **worker threads**
  and interleave with the loop and with each other at any point.
* every store function opens its own connection: **each call is a transaction of
  its own**, nothing is locked between two of them.
* a restart keeps the tables and loses requests, calls and `_cancel_reasons`.

## 2. Inventory

| component (source) | state | operations | what is hard | what makes it correct |
|---|---|---|---|---|
| task registry (`runtime/tasks.py`) | `_running_tasks`, `_cancel_reasons` | register, unregister, cancel | revoke threads race with the loop; sets are popped under a thread's hands | no cancel lost, none too many, cancelled calls end |
| credentials (`delegation/*`, `store/delegation_credentials.py`) | `delegation_credentials` | build, validate a branch, insert, revoke a tree | list and update of a revocation are two transactions, validation and insert two more; a repeated insert resets `revoked` | authority only shrinks along a path, revocation is final |
| tokens (`store/tokens.py`, `identity/jwt_service.py`, `identity/routes.py`) | `tokens` | issue, inspect, revoke, batch revoke, clean-up | revocation and clean-up against delegations under way | a token that is gone or revoked has nothing usable below it |
| task routes (`gateway/routes.py`) | requests in flight | root task, agent task, forward | what was verified is old after the intent provider has answered; failures after the allow | nothing delegated from what is revoked; audit log agrees with the answers |
| authorization (`DelegationService.authorize`) | none | decision | fall-backs for empty lists, VC or row | within the credential's and the target's capabilities, and the user's as the context names them |
| intent tree (`intent/*`, `store/intent_tree.py`) | `intent_tree` | validate, judge, record | validation, await, record; one row per content | branches complete |
| agent registration (`registry/*`, `store/registry.py`, `store/capability_policies.py`) | `agents`, `capability_policies`, Agent VCs | register, set policy, startup registration | name and policy are checked long before they are used; row and VC are two transactions | unique names, policy respected, VC and row agree |
| audit (`store/audit.py`, `store/chain.py`) | `audit_logs`, `delegation_chain` | record a decision | several transactions, retries under one trace id | rows and hops agree |
| DID registry (`identity/did*.py`, `store/did_registry.py`, `identity/routes.py`) | `did_documents` | register, look up for tokens and signatures, provide for the system's own | look-up and upsert are two transactions, three callers do it | the first registration stands; what is signed verifies with the document |
| key directory (`identity/keys.py`) | two files per identity | make sure of a pair, load | no lock, two writes, `write_text` truncates first; clients may share the directory; crash in between | the files are one pair |
| capability list (`store/capabilities.py`, `store/schema.py`) | `capabilities` | seed, add, remove | *every* store call counts and may seed, in two transactions | what is removed stays removed; no request fails of another's seeding |
| authentication events (`store/auth_events.py`) | `auth_events` | append | written before the decision, by refused and accepted tokens alike | an allowed request has its event, a refused one its event and one denial |
| intent providers, cryptography, SDK transport, audit API, demo agents, scripts | - | - | I/O, mathematics, reads | outcomes are choices, or not modelled (section 8) |

## 3. Modules

| module | models | composed with |
|---|---|---|
| `CancelScope` | abstract: what cancelling a trace promises | |
| `TaskRegistry` | `tasks.py` and the asyncio task of `forward_to_agent`, statement by statement | implements `CancelScope` |
| `TaskRegistryProofs` | its proofs | |
| `Credentials` | operators: credentials as paths, validation, trees | used by the next two |
| `Authority` | abstract: which credentials are accepted, without rows, flags or threads | |
| `Delegation` | token and credential stores: issue, delegate, revoke, clean up, time | implements `Authority` |
| `Gateway` | both task routes, the revoke route, audit rows | uses `CancelScope` as its registry, implements `Delegation` |
| `CredentialProofs`, `DelegationProofs`, `GatewayProofs` | lemmas about paths, shared by the other two; their proofs | `GatewayProofs` instantiates `DelegationProofs` |
| `IntentTree`, `IntentTreeProofs` | `validate_and_record_intent_node` over its table | |
| `Registry`, `RegistryProofs` | `register_agent`, startup registration, policies, VCs, restarts | |
| `AuditTrail`, `AuditTrailProofs` | `record_decision` transaction by transaction, `record_auth_event`, and every place of the routes that records, with restarts | |
| `KeyFiles` | the two files of an identity, written step by step | used by `Provisioning` |
| `MasterList` | the capability list and the seeding in `init_schema` | used by `Provisioning` |
| `Provisioning`, `ProvisioningProofs` | requests that provide for keys, documents and capabilities, the startup, clients that share the directory | composes the two |
| `MC*` | instances for TLC | |

### TaskRegistry
`running` is `_running_tasks`, `reasons` the keys of `_cancel_reasons`.
`register_task` is two steps (`RegisterAdd`, `RegisterCheck`) because a thread may
run between its lines; `cancel_trace` is `SetReason`, `GetSet`, `ListTasks`,
`ScheduleCancel` per task, `EndTrace`. `live[r]` says whether the set object a
thread has fetched is the one registered: `unregister_task` pops the set when it
empties and a later `register_task` makes a new one. Callbacks run in the order
they were put on the loop; the model keeps only what that decides: a scheduled
cancel runs after the task's first step and before a reply that comes later.

### Credentials, Authority, Delegation
A credential id is a hash of the parent's id and the own content, so the model
names a credential by its path of links from the root; `parent_credential_id` and
`root_credential_id` are prefixes, integrity holds by construction, and two
credentials of equal parent, content and second are the same row, as in the code
(that is how `INSERT OR REPLACE` can reset `revoked`). `BeginBuild`/`UpsertChild`
are the two sides of `build_child_auth_context`; `RevokeToken`, `ListTree`,
`UpdateTree` the three transactions of a revocation.
Two places take several transactions as one step. `validate_credential_branch`
reads one ancestor per SELECT; the step stands at its last read, the root. A
revocation marks all it marks in one UPDATE that includes the root, so a walk
that met unrevoked descendants and then an unrevoked root saw what a single look
at the last moment sees. `issue_token` stores credential and token; nobody knows
the jti before the answer, so nothing can happen in between.

`Authority` is what all this is for. Its state is the set of accepted credentials
(`usable`), the revoked tokens (`dead`) and the clock; it delegates in one step, from
an accepted parent, and revokes a tree in one step. `Delegation` maps `usable` to
what `validate_credential_branch` accepts (`Usable`). The code is not atomic where
`Authority` is: a child inserted after its parent was revoked or has expired is no
step of `Authority` at all, since it is never accepted, and the update of a
revocation is `Revoke` for everything below the token, marked or not.

### Gateway
A request goes idle - generating - judging - (authorizing) - building - inserting
- registering - forwarded - answered. `generating`, `judging` and `forwarded` are
the awaits; between `IntentJudged` and `Register` the handler keeps the loop
(`loop`) but every store call is a step, so revoke threads run in between.
`ask[r].cred` is what was trusted before the awaits. The registry is `CancelScope`
(`Begin`, `End`, `Cancel`, `Doom`), which `TaskRegistry` implements.
A call may relay an auth context of any stored credential, whoever was handed it;
`AgentTask` checks it as `trusted_auth_context_for_envelope` does (valid branch, trace,
subject) and then takes the context as it came: `ask[r].ucaps` is the list of user
capabilities the request names, which `Authorize` intersects with, and the actor type
is the request's too. Without a context both are those of the bearer's token
(`actorType`). The child credential gets its user list from the stored parent, as in
`build_child_auth_context`. Tokens may be asked for with any actor type and any
delegated user; only agents' tokens need an active agent.
`ImplementsDelegation` maps the handler between `Build` and `Insert` to `Delegation`'s
delegation under way, and a thread that cancels traces to one whose revocation has
answered: for the store the revocation is over with the UPDATE.

### IntentTree
Nodes are paths as credentials are, but the content does not name the trace.
Requests present a root node, a child of a node that was handed on to its actor,
or an agent's node without parent. `Validate` is everything before the judge's
await, `Accept`, `Drift`, `JudgeFails`, `JudgeUnreachable` what follows it.

### Registry
`CheckName`, `ReadPolicy`, `ReadFallback`, `UpsertAgent`, `SignVC`, `StoreVC` are
the statements of a registration; threads, policy updates and a restart run
between any two. `Boot` is the startup registration, which looks no name up and
stops the startup when the name is taken (`up` = down). `offered`, `accepted`,
`raced` are history variables for the properties.

### AuditTrail
`RecordIn` computes what one `record_decision` writes (relayed hops if the trace has
none, the hop of the decision, the row) and in which trace; `WriteHop`/`WriteRow`
write it one transaction at a time, and a `Restart` may cut it. `Take` and `Event`
are a handler up to `record_token_result`: a token is refused (`TokenRefused`),
accepted (`TokenAccepted`), or breaks the parser of its own refusal (`TokenRaises`);
an agent's target is looked up before its token, a user's after it. One action per
place that records, in route order: `RootRefusedEarly`, `GenerationFailed`,
`RootRefused`, `RootAllowed`; `TargetRefused`, `AgentRefused`, `Authorize`;
`CallEnded`, `CallFailed`, `CallCancelled`. A request relays any chain of `Chains`,
also one that nobody handed out: the code looks at the last hop's `to`
(`Continuous`) and at whether it is the caller's own root hop (`OwnRoot`). Hops that a
request brings along are written in a trace that is empty, under that request's id;
they carry the mark `seed`, which only the properties read. A trace id is one a user names or
`<<r, 1>>`, `<<r, 2>>`, the two uuid4 that one request may cause. What else decides
(token, credential, capabilities, intent) is the choice `Ask.fit`.

### KeyFiles, MasterList, Provisioning
`priv`, `pub` are the two files (`None`: not there, `Torn`: truncated and not yet
filled), `io[t]` where a thread is in `ensure_agent_keypair`: `check`, `cutPriv`,
`putPriv`, `cutPub`, `putPub`, `ready`. A key is not told apart from its public
half. `MasterList` has `Count` and `Seed`, the two transactions of
`seed_capabilities`; `seeding[t]` is the init_schema of the store call a thread is in,
so a seeding may fall into any request (`SeedingFails` is its IntegrityError).
In `Provisioning` a thread runs one request: `kind` says which, `stage` which call of
it is next. Every identity may be registered or get a token, the system's own too.
`StartRegister` is a client elsewhere, `StartWithKeys` the client of
`generate_identity.py` on the gateway's key directory and `GET /identity/public-key`;
`StartAgent` is `POST /registry/agents` up to the signed VC; `StartToken`
`POST /identity/tokens` up to the signature; `Restart` ends the gateway, any of its
threads in any step, and runs the startup. `mldsa` chooses the algorithm once.

## 4. Runs

| run | instance | shows |
|---|---|---|
| `task_registry` | 2 calls in one trace, a second trace, 2 threads; 355 000 states | `NoLostCancel`, `OnlyRevokedTracesCancelled`, `RegistryExact`, `CancelledCallsEnd`, `ImplementsCancelScope` |
| `delegation` | 1 user, 1 agent, 2 traces, 1 token, 2 threads, paths of at most 3, 4 credentials, 2 ticks; 309 000 | `ParentsStored`, `Attenuation`, `OneTrace`, `RevocationIsFinal`, `CleanupStrandsNothing`, `ImplementsAuthority` |
| `gateway` | root task and agent call in one trace, any stored credential relayed, an active and an inactive target, 2 tokens, 1 thread, 1 tick; 293 000 | `RevokedCallsCancelled`, `CancelledByRevocation`, `NothingFromRevoked`, `ImplementsDelegation` |
| `gateway_capabilities` | 2 capabilities, limited target, limited user, empty user list, contexts that name their credential's user list, another or none; no clock; 484 000 | `AgentCallsConfined`, `CallsTraceable`, `AuditAgrees`, `MarkedCallsEnd` |
| `intent_tree` | 4 requests, 2 traces, 2 agents, paths of at most 3; 22 000 | `BranchesComplete`, `OnlyCollisionsBreakChains` |
| `registry` | 2 requests and startup, 2 agents, 2 names, 2 policy updates, 1 restart, 1 tick; 1 160 000 | `NamesUnique`, `PolicyEnforced`, `VCsOfAcceptedRows`, `ReadersAgree` |
| `audit_trail` | 2 requests that name one trace or none, 2 agents, 1 restart; relayed chains: none, a user's or an agent's root hop, an allowed or a denied hop; 427 000 | `RowsMatchHops`, `HandedHopsRecorded`, `EventsExplainRows`, `OneTracePerRequest` |
| `provisioning` | the system and a user, 2 threads, 3 requests, 1 restart, 3 keys and a client's, a protocol capability and another, RSA or ML-DSA; 426 000 | `KeyPairsMatch`, `SignaturesVerify`, `RemovalsHold`, `FirstRegistrationStands` |

Each but `gateway_capabilities` (whose module `gateway` covers) also checks its
module's type invariant; each property has a mutant in `PROJECT.json`, a slip of the
code that the run finds.

Why the bounds are enough for the cases meant: a lost cancel needs one call and
one thread, an orphaned set a second call of the trace; the second thread gives
two cancellations of one trace at once. Attenuation over several hops needs paths
of three. A delegation overtaken by a revocation needs one of each; the second
thread repeats a revocation whose rows a repeated request has reset; two ticks let
a token of one second expire and be cleaned up. In the gateway the agent call
may relay the credential of the root task or any other, so one trace and two tokens give
every mix of a token revoked above or beside a call; revocation does not look at who is
called, so there one active target and an inactive one are enough, and the
capabilities run has two active ones with different capabilities. Two agents that want one
name, and policies that change twice, suffice for every order of check, change and
write. In the audit trail the second request finds the hops of the first under its trace, and
may relay the chain it was handed or any other; one relayed hop of each kind suffices, as
`record_decision` and `is_chain_continuous` look at the last one and copy the rest. In provisioning two
threads write one identity's files or register one DID at once and a third request uses what they
left; or one request removes the last capability and the other two seed the list at once;
a restart may cut any of them; three keys are one per identity and one too many. The theorems of section 6 lift the bounds of
every safety invariant.
Deadlock is checked where the system never stops (threads may always be asked to
revoke); the runs with `CHECK_DEADLOCK FALSE` have one-shot or counted requests and end
when they are used up.

### Fairness
Two modules claim liveness. `CancelledCallsEnd` (`TaskRegistry`) assumes that the event loop does not
rest while a step of a call is due, does not put off scheduled cancels for ever,
and that a worker thread finishes its request: what asyncio's FIFO of ready
callbacks and the operating system give. `MarkedCallsEnd` (`Gateway`) assumes the
same of routes and threads: a handler that keeps the loop goes on, a cancel on the
loop arrives and the cancelled call resumes, the revoke route's thread runs through
list, update and cancels. Nothing is assumed of the agent's
reply, of intent providers, of new requests or of revocations.

## 5. Where code and documents disagree

Four runs check a sentence of the documents and find it violated:

| run | the document says | the code does |
|---|---|---|
| `revocation_reaches_calls` | revoking cancels the running tasks of the token's traces | traces are read off a list made before the update; a call delegated meanwhile runs on |
| `failures_audited` | every failure writes the audit log | a root task's 502 leaves an allow as the last row |
| `trace_keeps_intents` | a trace's view holds its intent chain | an equal task in another trace takes the row away |
| `vc_is_equivalent` | the VC is the equivalent of the row's capabilities | two registrations in one second tie, the older VC may be read |

Met on the way, and not runs of their own:

* The race of the first run also leaves a descendant with `revoked = 0`
  (docs/05-token-lifecycle.md:61), and so does a delegation repeated with the same
  request id in the same second (`INSERT OR REPLACE`); both are harmless to
  validation, see `RevocationIsFinal`.
* The user capabilities and the actor type of a relayed auth context are taken as the
  request names them: `validate_auth_context_credential` compares subject, DID and
  capabilities with the stored credential, not these two. The user's part of
  `authorize`'s decision is therefore the context's (`AgentCallsConfined` says when it is
  also the credential's); what is stored and what the credential and the target allow
  does not depend on it.
* Relayed hops are not compared with what the gateway handed out. In an empty trace they are
  written under the id of the request that brought them, in any other they are not
  written at all, and either way they are in the envelope that is forwarded. `RowsMatchHops` and
  `HandedHopsRecorded` are about the hops the gateway itself adds.
* `register_did` accepts any DID that is free, so the system's may be registered by a
  client before `_ensure_system_did` does, which then leaves that document in place
  (what is signed for such a DID is exempt in `SignaturesVerify`); and it compares
  neither `metadata.subject_id` nor key-1 with DID and proof.
* The root hop of a root task is not recorded in a trace that already has a hop
  (`append_chain_hops_if_empty`).
* `authorize` denies a request whose chain does not end in the caller
  (`is_chain_continuous`), while docs/buiam_a2a_security_technical_solution.md:972 says that the chain takes no
  part in decisions. `AuditTrail!Authorize` has it.
* A judge that cannot be reached ends in HTTP 500, not `INTENT_JUDGE_FAILED`, and
  leaves no audit row; so does a token whose claims break `inspect_token` and then
  `failed_token_result` (`TokenRaises`), with neither event nor row, against
  line 250 of the same document.
* `auth_event_recorded` in a decision's detail is `envelope.auth_context is not
  None`, which is wrong both ways: an agent without a relayed credential has its
  event, and a request for an unknown target that brings one has none.
* `generate_root_intent` makes a trace id of its own when the request names none;
  its denial is found under another trace than the event (the exception in
  `OneTracePerRequest`).
* `generate_identity.py:8-9` says the gateway never makes private keys for external
  identities; `GET /identity/public-key` and the signing of a token do. Tokens for
  a DID whose client keeps its key elsewhere are signed with a key that the
  document does not show and never verify (the exception in `SignaturesVerify`).
* `register_did` promises 409 for a DID that is registered; two at once both
  succeed and the later one stands (`contested`).
* Removing the last capability brings back the whole list of the protocol with the next store call
  (the exception in `RemovalsHold`).
* With RSA, a public file torn by a crash makes every later document of that
  identity fail, the startup's included.
* A startup fails when another agent has taken a demo agent's name.

## 6. Proofs

`tlapm` checks all eight proof modules; nothing is assumed but the named
assumptions on the constants, which TLC evaluates in every run: that calls and
requests have traces and `None` is no call, request or trace; that bounds and
lifetimes are natural numbers; that users are not agents (`UsersAreNotAgents`);
that what is asked is made of users, agents and capabilities (`AsksAssumption`); that a
behaviour of the gateway sees finitely many requests and tokens (`FiniteAssumption`,
which only the refinement of `Delegation` uses: it bounds rows and path lengths, and at any moment
a run has seen finitely many); that `None` is no delegation (`NoneNoBuild`); that keys, absence and
a torn file are told apart and clients' keys are not the gateway's
(`FilesAssumption`, `ClientAssumption`); that relayed chains are sequences of hops
(`ChainsAssumption`); that the protocol names at least one
capability (`SeedsAssumption`); that the system is not one of its subjects.
Every module's invariants are proved from one inductive invariant `IInv`
(`Invariance`), with one lemma per part or action.

**TaskRegistryProofs**, for any number of calls, traces and threads:
`TypeCorrect`, `CancelNotLost`, `CancelConfined`, `RegistryIsExact`, and
`RegistryImplementsScope`, the refinement of `CancelScope`.
`NoLostCancel` is not inductive alone. The invariant adds that the loop is inside
`register_task` only with a created call, that a thread's list holds calls of the
trace it cancels, that exactly registered calls are in `running`, and that whatever
is scheduled belongs to a cancelled trace. The argument: a call is added before the
reason is read, and a reason is written before the set is listed; so whichever is
second sees the other.

**DelegationProofs**, for any principals, capabilities, tokens, threads and bounds:
`TypeCorrect`, `ChainsComplete`, `AuthorityAttenuates`, `PathsKeepTheTrace`,
`ChainOfCustody`, `RevocationFinal`, `CleanupSafe`. `ChainOfCustody` states `HolderIssues`
(only a token's holder delegates from it); in the runs that fact is part of `Authority`'s `Delegate`. The invariant adds: the delegation under way has a stored parent, its
capabilities are within the parent's and its trace is the parent's; a token row
names the root of its own path; a thread works below a stored root and lists that
root with the tree; what has answered is a revoked root. Revocation is final not
through the cascade, which misses what is inserted late, but because the root
stays revoked (only child credentials are inserted again) and every validation
walks to it. Clean-up is safe because a token and its root expire together and no
child outlives the root.

`StoresImplementAuthority` is the refinement, with one more invariant (`Rooted`):
nothing is marked but below a marked root, since a thread's snapshot hangs below
the root it works on and is marked in one UPDATE. With the path invariants it follows
that a credential is accepted exactly if it is stored, has not expired and its root is
not marked (`UsableIs`): on that form every action is one of `Authority`'s or a
stutter, a mark that a repeated insert resets included. `WalkFindsAll`: as chains
have no gaps, walking them by parent id finds all that is below the root.

**GatewayProofs**, for any requests, tokens, agents and threads: `TypeCorrect`,
`MarkedCallsAreCancelled`, `CancellationsAreJustified`, `CallsAreConfined`,
`LogsAgree`, `RevocationStopsDelegation`. Three arguments. Revocation follows the
traces: from the UPDATE on, the trace of a marked credential is in some thread's
`todo` or in `cancelled` (`Revoking`), each such trace has a delegation below a
revoked token (`Justified`, which is stable since a root's mark is never reset), and
what is inserted later starts unmarked. Authority follows what a handler trusts: what it
delegates is within the credential that it validated and the target, whatever user list came
with it. Where that is the credential's own, it is within the user's as well: an
empty list, which `authorize` reads as "those of the credential", is stored only with an
empty capability list (`CredsFine`), so the readings do not differ where it
matters. The log follows the handler's stage (`LogFine`).

`GatewayImplementsDelegation` needs two more invariants. `HandlersFine`: one handler
at most is between `IntentJudged` and `Register` and it is the one that keeps the loop,
so the `CHOOSE` of `Building` has one candidate. `RowsFine`: every stored link is the
token or the request it names (`child`), so rows and paths stay within what
`Delegation` is instantiated with. Then there is one lemma per kind of step
(`TokenIssued`, `ChildBegun`, `ChildUpserted`, `TokenRevoked`, `TreeListed`,
`TreeUpdated`, `ClockTicks`; the others are stutters: `HandlerStutters`,
`RevokeAnswered`, `OtherStutters`). What `Delegation`'s proofs say then holds of the
gateway: `StoreProofs` instantiates `DelegationProofs` under the same mapping, the
gateway's steps are steps of it (`StoreSteps`), and its lemmas give `PathsAreSound`,
`RevocationIsFinalBehindRoutes` and, with `GatewayImplementsAuthority`, the two
refinements in a row. `CallsCanBeTraced` and `HopsAreConfined` join both sides: the
decision about a request and the path in the store: `HopsAreConfined` carries each
hop's decision down to everything below it, the user's part from any hop whose request
relayed the list it was given. `GatewayKeepsCancelScope` is the
other interface: what the routes do to the registry, `CancelScope` allows.

**RegistryProofs**: `TypeCorrect`, `NamesStayUnique`, `PolicyIsEnforced`,
`VCsCertifyRows`, `ReadersStayTogether`. What an approval grants is within the
policies offered since the registration began, whichever of the two SELECTs they came
from (`OfferedNow`); the VC being made certifies the row that was written
(`VCInTheMaking`); of agents whose registrations did not overlap one registration is
under way at most and the youngest VC is the row's whenever none is due (`Orderly`,
`RowsCertified`).

**ProvisioningProofs**: `TypeCorrect`, `PairsMatch`, `RemovalsStay`,
`TokensVerify`, `FirstStands` (an action property). The invariant says what a
thread has at hand in each call (`AtHand`); that for identities whose files were never
written by two threads a filled public file is final and is the private file's
(`Pairs`); that documents made here are the public file's (`Documents`); that who
has looked a DID up finds it free or has a rival (`Registering`); that who signs has
a document (`Signing`); and that a list that was never emptied is not being seeded
(`Unseeded`).

**IntentTreeProofs**, for trees of any depth: `TypeCorrect`,
`BranchesStayComplete`, `OnlyCollisionsBreak`. A record replaces rows but never loses
a node, so what was stored at validation still is when the judge has answered
(`AncestorsKept`), and a row that names another trace was recorded there
(`RowsAreHistory`).

**AuditTrailProofs**, for relayed chains of any length and content: `TypeCorrect`, `HandedHopsStand`,
`EventsAreExplained`, `OneTraceStands`, `RowsAndHopsMatch`. The ten places that start a record are
brought to one form first (`Begun`): what will be written are the hops the request brought
along, marked so, and then the hop of the decision, unless it is an allowed call after its
caller's own root hop (`HopsFine`). So the hop of a decision is the last one written, the
row comes next, and rows and unmarked hops are counted against each other step by
step (`CountsFine`). Nothing is assumed of what is relayed, so `HandedHopsStand` follows the
gateway's own addition to a chain: the last hop of what it hands on is in the table
before the envelope is (`LastShown`), rows of the table are never lost, and the earlier hops the
theorem speaks of were each the last of such an envelope.

**How far the findings go.** Each of the four sentences of section 5 is violated, and for
each a theorem says what holds instead. `EscapedCallsStayInert`: the calls that a
finished revocation has missed hold a credential that nothing accepts any more.
`OtherFailuresAreAudited`: every failure but the 502 of a root task ends in a deny.
`TracesLoseToCollisions`: a trace loses a node only to an equal one of another trace,
where it is then shown. `TargetsStayGranted`: whichever VC `authorize` reads, its
capabilities are what one registration of that very agent was granted.

Only model-checked: liveness (`CancelledCallsEnd`, `MarkedCallsEnd`), which is beyond
this prover's fragment as fairness needs `ENABLED`. Every other property of the passing
runs is a theorem.

## 7. Plan

Done: the modules above, in the order of the table in section 3, and the proofs of
section 6. What would come next:

1. Token verification by outcome (`inspect_token`) and `batch_revoke` inside
   `Gateway`, once a route calls the latter.
2. The expiry and revocation of Agent VCs, once the code looks at them.

## 8. Not modelled

* signatures, hashes and primes: a signature verifies under the public half of its
  key and no other, and a hash names its content. `BUIAM_USE_MLDSA` and the algorithm
  that signs are taken to go together; RSA files beside an ML-DSA deployment
  (which nothing reads) are left out;
* the format checks of `register_did`, which answer 400 and change nothing;
* intent providers: their outcomes are choices (answer, refusal, exception);
* "database is locked" and other SQLite errors; the process ending is modelled
  where something is persisted in several transactions (`Registry`, `AuditTrail`,
  `Provisioning`);
* the response to the client, texts, decision details, pydantic validation;
* which names `known_capabilities` accepts in `authorize` and `create_token`: part of
  the choices of `Gateway` and `AuditTrail`;
* the VCs of demo agents at startup are signed in `Registry`, not in `Provisioning`;
* `jti_seen` (written by `inspect_token`, read by nobody); `delete_policy`,
  `cleanup_expired_audit_logs` and `authorize_and_record` (no caller). `batch_revoke_tokens_by_agent`
  and `cleanup_expired_tokens` have no caller either, but they are in `Delegation`,
  as they change what the other operations rely on;
* demo agents and scripts: they are the environment. A request presents any issued token,
  relays a context of any stored credential with any user list and actor type (`Gateway`) or
  any chain (`AuditTrail`), and gets any answer or none; contexts whose credential is
  not stored or whose other fields differ from it are refused like invalid ones. In
  `AuditTrail` a caller does not name itself as the target.
