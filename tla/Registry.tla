-------------------------------- MODULE Registry --------------------------------
(***************************************************************************)
(* Agent registration: register_agent of app/registry/routes.py,           *)
(* register_agent_metadata of app/registry/bootstrap.py, the approval of   *)
(* app/registry/policy.py and the tables they keep: capability_policies,   *)
(* agents and, in delegation_credentials, the Agent Capability VCs.        *)
(*                                                                         *)
(* The routes are plain functions: the server runs each request in a       *)
(* worker thread, and threads interleave between any two statements.  A    *)
(* registration looks its name up, reads the policy (one or two SELECTs),  *)
(* writes the row of the agent, signs a VC and stores it, and keeps        *)
(* nothing locked in between.  A restart loses the requests in flight and  *)
(* registers the demo agents again before it serves.                       *)
(***************************************************************************)
EXTENDS Naturals, FiniteSets

CONSTANTS Agents, Names, Types, Caps,
          Star,         \* the agent type "*" of the fallback policy
          Requests,     \* requests to POST /registry/agents
          Boot,         \* the registration of the demo agent at startup
          Demo,         \* what it asks for
          Asks,         \* bound: what the requests ask for
          Puts,         \* bound: what PUT /registry/capability-policies sets
          MaxPuts,      \* bound: policy updates
          MaxRestarts,  \* bound: restarts of the gateway
          MaxTime,      \* bound: the clock stops here
          None

Ask == [agent : Agents, name : Names, type : Types, caps : SUBSET Caps]
Put == [type : Types, caps : SUBSET Caps]

ASSUME AsksAssumption == Asks \cup {Demo} \subseteq Ask /\ Puts \subseteq Put
ASSUME BootAssumption == Boot \notin Requests
ASSUME StarAssumption == Star \in Types
ASSUME BoundsAssumption == MaxPuts \in Nat /\ MaxRestarts \in Nat /\ MaxTime \in Nat

VARIABLES now,       \* the clock in seconds
          policy,    \* the types with a row -> allowed capabilities
          agents,    \* the registered agents -> their rows: name and static_capabilities
          vcs,       \* the Agent Capability VCs
          up,        \* the gateway: starting, serving, down
          pc,        \* registration -> how far it is
          ask,       \* registration -> what it asks for
          granted,   \* registration -> what the approval granted
          vc,        \* registration -> the VC it signed
          code,      \* registration -> error code answered, "ok" without one
          puts, restarts,
          offered,   \* history: registration -> capabilities its policies allowed meanwhile
          accepted,  \* history: [agent, caps] of every row written
          raced      \* history: agents whose registrations overlapped or were cut short

requestVars == <<pc, ask, granted, vc, code>>
vars == <<now, policy, agents, vcs, up, requestVars, puts, restarts, offered, accepted, raced>>

Registrations == Requests \cup {Boot}
Row     == [name : Names, caps : SUBSET Caps]
VC      == [agent : Agents, caps : SUBSET Caps, iat : 0 .. MaxTime]
Open    == {"policy", "fallback", "upsert", "sign", "store"}
Codes   == {"none", "ok", "AGENT_NAME_ALREADY_EXISTS", "CAPABILITY_DENIED", "INTERNAL_ERROR", "lost"}

InFlight(g) == pc[g] \in Open
Quiet(a) == \A g \in Registrations : InFlight(g) => ask[g].agent # a

TypeOK ==
  /\ now \in 0 .. MaxTime
  /\ DOMAIN policy \subseteq Types /\ Star \in DOMAIN policy
  /\ policy \in [DOMAIN policy -> SUBSET Caps]
  /\ DOMAIN agents \subseteq Agents /\ agents \in [DOMAIN agents -> Row]
  /\ vcs \in SUBSET VC
  /\ up \in {"starting", "serving", "down"}
  /\ pc \in [Registrations -> Open \cup {"idle", "answered"}]
  /\ ask \in [Registrations -> Ask \cup {None}]
  /\ \A g \in Registrations : InFlight(g) => ask[g] \in Ask
  /\ granted \in [Registrations -> SUBSET Caps]
  /\ vc \in [Registrations -> VC \cup {None}]
  /\ \A g \in Registrations : pc[g] = "store" => vc[g] \in VC
  /\ code \in [Registrations -> Codes]
  /\ puts \in 0 .. MaxPuts /\ restarts \in 0 .. MaxRestarts
  /\ offered \in [Registrations -> SUBSET Caps]
  /\ accepted \in SUBSET [agent : Agents, caps : SUBSET Caps]
  /\ raced \in SUBSET Agents

\* A first start: the policies are seeded, no DID document is registered yet, so
\* no demo agent is.
Init ==
  /\ now = 0
  /\ policy \in {[t \in {Star} |-> Caps], [t \in Types |-> Caps]}
  /\ agents = [a \in {} |-> None] /\ vcs = {}
  /\ up = "serving"
  /\ pc = [g \in Registrations |-> "idle"]
  /\ ask = [g \in Registrations |-> None]
  /\ granted = [g \in Registrations |-> {}]
  /\ vc = [g \in Registrations |-> None]
  /\ code = [g \in Registrations |-> "none"]
  /\ puts = 0 /\ restarts = 0
  /\ offered = [g \in Registrations |-> {}]
  /\ accepted = {} /\ raced = {}

-----------------------------------------------------------------------------
\* The policies that get_policy may return for a type: its own or the fallback.
Allowed(p, ty) == UNION {p[t] : t \in {ty, Star} \cap DOMAIN p}

\* A slip: ORDER BY iat without DESC.
Oldest(a) == {v \in vcs : v.agent = a /\ \A w \in vcs : w.agent = a => v.iat <= w.iat}

\* get_agent_vc: the VC with the highest iat; which of several is up to SQLite.
Latest(a) == {v \in vcs : v.agent = a /\ \A w \in vcs : w.agent = a => w.iat <= v.iat}

\* What authorize may take for the capabilities of a registered agent: those of
\* its VC, of its row when there is none.
TargetCaps(a) ==
  IF Latest(a) = {} THEN {agents[a].caps} ELSE {v.caps : v \in Latest(a)}

Tick == now < MaxTime /\ now' = now + 1
        /\ UNCHANGED <<policy, agents, vcs, up, requestVars, puts, restarts, offered, accepted, raced>>

\* A slip: subject_type alone is the key, a policy replaces all others of agents.
SetOnlyPolicy(u) ==
  /\ up = "serving" /\ puts < MaxPuts
  /\ puts' = puts + 1
  /\ policy' = [t \in {u.type} |-> u.caps]
  /\ offered' = [g \in Registrations |->
                   IF InFlight(g) THEN offered[g] \cup Allowed(policy', ask[g].type) ELSE offered[g]]
  /\ UNCHANGED <<now, agents, vcs, up, requestVars, restarts, accepted, raced>>

\* upsert_policy. It reaches no registration that has read its policy.
SetPolicy(u) ==
  /\ up = "serving" /\ puts < MaxPuts
  /\ puts' = puts + 1
  /\ policy' = [t \in DOMAIN policy \cup {u.type} |-> IF t = u.type THEN u.caps ELSE policy[t]]
  /\ offered' = [g \in Registrations |->
                   IF InFlight(g) THEN offered[g] \cup Allowed(policy', ask[g].type) ELSE offered[g]]
  /\ UNCHANGED <<now, agents, vcs, up, requestVars, restarts, accepted, raced>>

\* A registration of `k` starts.
Begin(g, k) ==
  /\ pc' = [pc EXCEPT ![g] = "policy"]
  /\ ask' = [ask EXCEPT ![g] = k]
  /\ offered' = [offered EXCEPT ![g] = Allowed(policy, k.type)]
  /\ raced' = IF Quiet(k.agent) THEN raced ELSE raced \cup {k.agent}

\* A registration ends. Startup goes on to serve, or stops.
End(g, answer) ==
  /\ pc' = [pc EXCEPT ![g] = "answered"]
  /\ code' = [code EXCEPT ![g] = answer]
  /\ up' = IF g # Boot THEN up ELSE IF answer = "INTERNAL_ERROR" THEN "down" ELSE "serving"

\* get_agent_by_name: the name belongs to no other agent, now.
CheckName(g, k) ==
  /\ up = "serving" /\ g \in Requests /\ pc[g] = "idle"
  /\ \/ /\ \A a \in DOMAIN agents \ {k.agent} : agents[a].name # k.name
        /\ Begin(g, k)
        /\ UNCHANGED <<up, code>>
     \/ /\ \E a \in DOMAIN agents \ {k.agent} : agents[a].name = k.name
        /\ End(g, "AGENT_NAME_ALREADY_EXISTS")
        /\ UNCHANGED <<ask, offered, raced>>
  /\ UNCHANGED <<now, policy, agents, vcs, granted, vc, puts, restarts, accepted>>

\* A slip: a request for more than the policy allows is approved as it is.
ApproveAsAsked(g, allowed) ==
  \/ /\ ask[g].caps \cap allowed # {}
     /\ pc' = [pc EXCEPT ![g] = "upsert"]
     /\ granted' = [granted EXCEPT ![g] = ask[g].caps]
     /\ UNCHANGED <<up, code>>
  \/ ask[g].caps \cap allowed = {} /\ End(g, "CAPABILITY_DENIED") /\ UNCHANGED granted

\* evaluate_capability_request: approved or modified, or denied.
Approve(g, allowed) ==
  \/ /\ ask[g].caps \cap allowed # {}
     /\ pc' = [pc EXCEPT ![g] = "upsert"]
     /\ granted' = [granted EXCEPT ![g] = ask[g].caps \cap allowed]
     /\ UNCHANGED <<up, code>>
  \/ ask[g].caps \cap allowed = {} /\ End(g, "CAPABILITY_DENIED") /\ UNCHANGED granted

\* get_policy, the SELECT for the type of the agent.
ReadPolicy(g) ==
  /\ pc[g] = "policy"
  /\ \/ ask[g].type \in DOMAIN policy /\ Approve(g, policy[ask[g].type])
     \/ /\ ask[g].type \notin DOMAIN policy
        /\ pc' = [pc EXCEPT ![g] = "fallback"]
        /\ UNCHANGED <<up, granted, code>>
  /\ UNCHANGED <<now, policy, agents, vcs, ask, vc, puts, restarts, offered, accepted, raced>>

\* get_policy, the SELECT for "*".
ReadFallback(g) ==
  /\ pc[g] = "fallback"
  /\ Approve(g, policy[Star])
  /\ UNCHANGED <<now, policy, agents, vcs, ask, vc, puts, restarts, offered, accepted, raced>>

NameTaken(g) == \E a \in DOMAIN agents \ {ask[g].agent} : agents[a].name = ask[g].name

WriteRow(g, caps) ==
  /\ agents' = [a \in DOMAIN agents \cup {ask[g].agent} |->
                  IF a = ask[g].agent THEN [name |-> ask[g].name, caps |-> caps] ELSE agents[a]]
  /\ accepted' = accepted \cup {[agent |-> ask[g].agent, caps |-> caps]}
  /\ pc' = [pc EXCEPT ![g] = "sign"]

\* A slip: the name column is not UNIQUE.
UpsertAnyName(g) ==
  /\ pc[g] = "upsert"
  /\ WriteRow(g, granted[g])
  /\ UNCHANGED <<up, code>>
  /\ UNCHANGED <<now, policy, vcs, ask, granted, vc, puts, restarts, offered, raced>>

\* A slip: INSERT OR IGNORE, the registration goes on when the name is taken.
UpsertOrIgnore(g) ==
  /\ pc[g] = "upsert"
  /\ \/ ~NameTaken(g) /\ WriteRow(g, granted[g])
     \/ NameTaken(g) /\ pc' = [pc EXCEPT ![g] = "sign"] /\ UNCHANGED <<agents, accepted>>
  /\ UNCHANGED <<up, code>>
  /\ UNCHANGED <<now, policy, vcs, ask, granted, vc, puts, restarts, offered, raced>>

\* upsert_agent: the row by agent_id. Names are UNIQUE; nobody catches the
\* IntegrityError.
UpsertAgent(g) ==
  /\ pc[g] = "upsert"
  /\ \/ ~NameTaken(g) /\ WriteRow(g, granted[g]) /\ UNCHANGED <<up, code>>
     \/ NameTaken(g) /\ End(g, "INTERNAL_ERROR") /\ UNCHANGED <<agents, accepted>>
  /\ UNCHANGED <<now, policy, vcs, ask, granted, vc, puts, restarts, offered, raced>>

\* build_agent_capability_vc: issued now, in seconds.
SignVC(g) ==
  /\ pc[g] = "sign"
  /\ pc' = [pc EXCEPT ![g] = "store"]
  /\ vc' = [vc EXCEPT ![g] = [agent |-> ask[g].agent, caps |-> granted[g], iat |-> now]]
  /\ UNCHANGED <<now, policy, agents, vcs, up, ask, granted, code, puts, restarts, offered, accepted, raced>>

\* upsert_credential: VCs with other contents stay.
StoreVC(g) ==
  /\ pc[g] = "store"
  /\ vcs' = vcs \cup {vc[g]}
  /\ End(g, "ok")
  /\ UNCHANGED <<now, policy, agents, ask, granted, vc, puts, restarts, offered, accepted, raced>>

\* The process ends and starts again: register_demo_agents runs before requests
\* are served, and looks no name up.
Restart ==
  /\ restarts < MaxRestarts
  /\ restarts' = restarts + 1
  /\ up' = "starting"
  /\ pc' = [g \in Registrations |->
              IF g = Boot THEN "policy" ELSE IF InFlight(g) THEN "answered" ELSE pc[g]]
  /\ code' = [g \in Registrations |->
                IF g = Boot THEN "none" ELSE IF InFlight(g) THEN "lost" ELSE code[g]]
  /\ ask' = [ask EXCEPT ![Boot] = Demo]
  /\ granted' = [granted EXCEPT ![Boot] = {}]
  /\ offered' = [offered EXCEPT ![Boot] = Allowed(policy, Demo.type)]
  /\ raced' = raced \cup {ask[g].agent : g \in {g \in Registrations : InFlight(g)}}
  /\ UNCHANGED <<now, policy, agents, vcs, vc, puts, accepted>>

Next ==
  \/ Tick \/ Restart
  \/ \E u \in Puts : SetPolicy(u)
  \/ \E g \in Registrations :
       \/ \E k \in Asks : CheckName(g, k)
       \/ ReadPolicy(g) \/ ReadFallback(g) \/ UpsertAgent(g) \/ SignVC(g) \/ StoreVC(g)

Spec == Init /\ [][Next]_vars

-----------------------------------------------------------------------------
(* Properties.                                                             *)

\* Two agents never hold one name, although register_agent looks the name up
\* long before it writes the row and startup does not look it up at all.
NamesUnique ==
  \A a, b \in DOMAIN agents : agents[a].name = agents[b].name => a = b

\* No row and no VC has a capability that no policy for the agent's type allowed
\* while the agent was being registered, however policies changed meanwhile and
\* although the policy is read in two SELECTs and used long after.
PolicyEnforced ==
  \A g \in Registrations : pc[g] \in {"upsert", "sign", "store"} \/ code[g] = "ok" =>
    /\ granted[g] \subseteq offered[g]
    /\ pc[g] = "store" => vc[g].caps \subseteq offered[g]

\* A VC certifies only what a row of its agent held: a registration refused by
\* the table, or cut short, leaves no VC.
VCsOfAcceptedRows == \A v \in vcs : [agent |-> v.agent, caps |-> v.caps] \in accepted

\* Agents registered one registration after the other, in different seconds and
\* with none cut short: the two answers to what the agent may do, VC for
\* authorize and row for discovery, are the same.
ReadersAgree ==
  \A a \in DOMAIN agents \ raced :
    Quiet(a) /\ Cardinality(Latest(a)) <= 1 => TargetCaps(a) = {agents[a].caps}

\* What the code says of the VC: it is the equivalent of the row's capabilities.
VCIsEquivalent == \A a \in DOMAIN agents : Quiet(a) => TargetCaps(a) = {agents[a].caps}
=============================================================================
