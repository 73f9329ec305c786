-------------------------------- MODULE AuditTrail --------------------------------
(***************************************************************************)
(* What a trace leaves behind: record_decision of app/store/audit.py, the  *)
(* human-readable chain of app/store/chain.py and record_auth_event of     *)
(* app/store/auth_events.py, as the two task routes of                     *)
(* app/gateway/routes.py call them.                                        *)
(*                                                                         *)
(* Whoever presents a token leaves one authentication event, written in    *)
(* one transaction; a refused token is then a denial.  A decision is       *)
(* recorded in several transactions: the hops the envelope relays, if the  *)
(* trace has none yet, one by one; the hop of the decision, except for the *)
(* root hop itself; the row of the audit log.  Handlers record without     *)
(* giving up the event loop, so records do not interleave, but the process *)
(* may end between two transactions, and between the event and the         *)
(* decision a handler awaits the intent generator and the judge.           *)
(*                                                                         *)
(* Everything else that decides (tokens, credentials, intent) is a choice, *)
(* made once per request of an agent (`Ask.fit`).                          *)
(***************************************************************************)
EXTENDS Naturals, Sequences, FiniteSets

CONSTANTS Users, Agents,
          Traces,       \* trace ids that users name
          Requests,     \* requests to the two task routes
          Chains,       \* bound: the chains that requests relay
          MaxRestarts,  \* bound: restarts of the gateway
          Anonymous,    \* "user", the caller before the token is verified
          None

\* A trace id is named by the user or a uuid4 made for a request: the first for
\* the whole request, the second by generate_root_intent alone.
TraceIds == Traces \cup (Requests \X {1, 2})

ASSUME NoneAssumption == None \notin TraceIds \cup Requests
ASSUME UsersAreNotAgents == Users \cap Agents = {}
ASSUME MaxRestartsAssumption == MaxRestarts \in Nat

Actors == Users \cup Agents \cup {Anonymous}

\* A DelegationHop; in the table it comes with the request that recorded it.
Hop   == [from : Actors, to : Agents, what : {"root", "allow", "deny"}]
Chain == Seq(Hop)
ASSUME ChainsAssumption == Chains \subseteq Chain

\* A hop to be written, and whether append_chain_hops_if_empty does that (kept
\* in the trace for the properties alone) or append_chain_hop.
Entry == [hop : Hop, seed : BOOLEAN]

Ask == [root : BOOLEAN, trace : TraceIds \cup {None}, caller : Users \cup Agents, user : Users,
        target : Agents, chain : Chain,
        fit : BOOLEAN]  \* whatever else is looked at, token to capabilities, allows

VARIABLES chain,   \* delegation_chain: trace -> its hops in step order
          rows,    \* audit_logs: request -> its decisions, with their traces
          events,  \* auth_events: request -> the decision of its event
          stage,   \* request -> idle, verified, writing, forwarded, answered, and lost
                   \* when the process ended or an exception nobody handles was raised
          ask,     \* request -> what it asks
          loop,    \* the request whose decision is being recorded, None without one
          work,    \* what is still to be written of it: hops, then the row, in a trace
          then,    \* what its handler does next
          handed,  \* [to, trace, chain] of the envelopes forwarded to agents
          restarts

vars == <<chain, rows, events, stage, ask, loop, work, then, handed, restarts>>

Stages == {"idle", "verified", "writing", "forwarded", "answered", "lost"}
Thens  == {"answer", "forward", "mint", "fail"}

TypeOK ==
  /\ chain \in [TraceIds -> Seq([req : Requests, hop : Hop, seed : BOOLEAN])]
  /\ rows \in [Requests -> Seq([trace : TraceIds, what : {"allow", "deny"}])]
  /\ events \in [Requests -> {"none", "allow", "deny"}]
  /\ stage \in [Requests -> Stages]
  /\ ask \in [Requests -> Ask \cup {None}]
  /\ \A r \in Requests : stage[r] # "idle" => ask[r] \in Ask
  /\ \A r \in Requests : stage[r] = "writing" <=> loop = r
  /\ loop \in Requests \cup {None}
  /\ loop # None => work \in [trace : TraceIds, hops : Seq(Entry), row : {"allow", "deny"}] /\ then \in Thens
  /\ handed \in SUBSET [to : Agents, trace : TraceIds, chain : Chain]
  /\ restarts \in 0 .. MaxRestarts

Init ==
  /\ chain = [tr \in TraceIds |-> <<>>]
  /\ rows = [r \in Requests |-> <<>>]
  /\ stage = [r \in Requests |-> "idle"]
  /\ ask = [r \in Requests |-> None]
  /\ events = [r \in Requests |-> "none"]
  /\ loop = None /\ work = None /\ then = "answer"
  /\ handed = {} /\ restarts = 0

-----------------------------------------------------------------------------
(* record_decision.                                                        *)

RootHop(k) == [from |-> k.user, to |-> k.target, what |-> "root"]
EndsInRoot(c) == c # <<>> /\ c[Len(c)].what = "root"

\* The trace of the envelope.
TraceOf(r, k) == IF k.trace = None THEN <<r, 1>> ELSE k.trace

\* append_chain_hops_if_empty: the relayed hops, whoever made them, for the first
\* record of a trace.
Seeds(tr, relayed) ==
  IF chain[tr] = <<>> THEN [i \in DOMAIN relayed |-> [hop |-> relayed[i], seed |-> TRUE]] ELSE <<>>

\* The hop of a decision, which an allowed call after the caller's own root hop
\* does not get.
OwnRoot(caller, relayed) == EndsInRoot(relayed) /\ caller = relayed[Len(relayed)].from
Decided(k, caller, decision) ==
  [hop |-> [from |-> caller, to |-> k.target, what |-> decision], seed |-> FALSE]

\* A slip: no hop of the decision after the root hop, whatever was decided.
HopsNotAfterRoot(tr, k, caller, relayed, decision) ==
  Seeds(tr, relayed) \o
    (IF OwnRoot(caller, relayed) THEN <<>> ELSE <<Decided(k, caller, decision)>>)

\* The hops one record appends.
Hops(tr, k, caller, relayed, decision) ==
  Seeds(tr, relayed) \o
    (IF decision = "allow" /\ OwnRoot(caller, relayed) THEN <<>> ELSE <<Decided(k, caller, decision)>>)

\* Handler r of request k starts to record a decision about an envelope of trace
\* tr from `caller` that relays `relayed`, and does `next` after that.
RecordIn(r, tr, k, caller, relayed, decision, next) ==
  /\ loop = None
  /\ loop' = r
  /\ stage' = [stage EXCEPT ![r] = "writing"]
  /\ work' = [trace |-> tr, hops |-> Hops(tr, k, caller, relayed, decision), row |-> decision]
  /\ then' = next
  /\ UNCHANGED <<chain, rows, handed, restarts>>
Record(r, k, caller, relayed, decision, next) ==
  RecordIn(r, TraceOf(r, k), k, caller, relayed, decision, next)

\* append_chain_hop.
WriteHop(r) ==
  /\ loop = r /\ work.hops # <<>>
  /\ chain' = [chain EXCEPT ![work.trace] = Append(@, [req |-> r, hop |-> Head(work.hops).hop, seed |-> Head(work.hops).seed])]
  /\ work' = [work EXCEPT !.hops = Tail(@)]
  /\ UNCHANGED <<rows, events, stage, ask, loop, then, handed, restarts>>

\* A slip: the hop root_task adds to the envelope has the default decision.
ChainOnByDefault(k) ==
  IF k.root THEN <<[RootHop(k) EXCEPT !.what = "allow"]>>
  ELSE Append(k.chain, [from |-> k.caller, to |-> k.target, what |-> "allow"])

\* The envelope a handler forwards carries the root hop, or the relayed chain
\* and the hop that was allowed.
ChainOn(k) ==
  IF k.root THEN <<RootHop(k)>>
  ELSE Append(k.chain, [from |-> k.caller, to |-> k.target, what |-> "allow"])

Forward(r) ==
  /\ stage' = [stage EXCEPT ![r] = "forwarded"]
  /\ loop' = None /\ work' = None /\ then' = "answer"
  /\ handed' = handed \cup {[to |-> ask[r].target, trace |-> TraceOf(r, ask[r]), chain |-> ChainOn(ask[r])]}

Answer(r) ==
  /\ stage' = [stage EXCEPT ![r] = "answered"]
  /\ loop' = None /\ work' = None /\ then' = "answer"
  /\ UNCHANGED handed

\* The INSERT into audit_logs, then on: with another denial when the child
\* credential is refused or when agent_task records the HTTPException of
\* forward_to_agent.
WriteRow(r) ==
  LET k == ask[r]
      Deny == /\ work' = [work EXCEPT !.hops = Hops(work.trace, k, k.caller, k.chain, "deny"), !.row = "deny"]
              /\ then' = "answer"
              /\ UNCHANGED <<stage, loop, handed>>
  IN /\ loop = r /\ work.hops = <<>>
     /\ rows' = [rows EXCEPT ![r] = Append(@, [trace |-> work.trace, what |-> work.row])]
     /\ \/ then \in {"forward", "mint"} /\ Forward(r)
        \/ then \in {"mint", "fail"} /\ Deny
        \/ then = "answer" /\ Answer(r)
     /\ UNCHANGED <<chain, events, ask, restarts>>

-----------------------------------------------------------------------------
(* verify_bearer_for_envelope.                                             *)

Take(r, k) == stage[r] = "idle" /\ ask' = [ask EXCEPT ![r] = k]
Event(r, decision) == events' = [events EXCEPT ![r] = decision]

\* A slip: the HTTPException is raised before the denial is recorded.
TokenRefusedUnrecorded(r, k) ==
  /\ k.root \/ ~k.fit
  /\ Take(r, k) /\ Event(r, "deny") /\ loop = None
  /\ stage' = [stage EXCEPT ![r] = "answered"]
  /\ UNCHANGED <<chain, rows, loop, work, then, handed, restarts>>

\* No bearer, or inspect_token refuses it: the event and then the denial.
TokenRefused(r, k) ==
  /\ k.root \/ ~k.fit
  /\ Take(r, k) /\ Event(r, "deny")
  /\ Record(r, k, IF k.root THEN Anonymous ELSE k.caller, k.chain, "deny", "answer")

\* The event of a token that is accepted; then the handler goes on to its awaits.
TokenAccepted(r, k) ==
  /\ Take(r, k) /\ Event(r, "allow") /\ loop = None
  /\ stage' = [stage EXCEPT ![r] = "verified"]
  /\ UNCHANGED <<chain, rows, loop, work, then, handed, restarts>>

\* inspect_token raises: claims that are no JSON object, or an exp that is no
\* number, fail a second time in failed_token_result.
TokenRaises(r, k) ==
  /\ k.root \/ ~k.fit
  /\ Take(r, k) /\ loop = None
  /\ stage' = [stage EXCEPT ![r] = "lost"]
  /\ UNCHANGED <<chain, rows, events, loop, work, then, handed, restarts>>

\* The judge or the generator raises what no handler expects.
HandlerRaises(r) ==
  /\ stage[r] = "verified" /\ loop = None
  /\ stage' = [stage EXCEPT ![r] = "lost"]
  /\ UNCHANGED <<chain, rows, events, ask, loop, work, then, handed, restarts>>

(* root_task.                                                              *)

\* Actor type and target: denied on the provisional envelope.
RootRefusedEarly(r) ==
  /\ stage[r] = "verified" /\ ask[r].root
  /\ Record(r, ask[r], Anonymous, <<>>, "deny", "answer")
  /\ UNCHANGED <<events, ask>>

\* A slip: the denial never looks at the trace the user named.
OwnTraceAlways(r, k) == <<r, 2>>

\* generate_root_intent has only the request, and makes a trace id of its own
\* when the request names none.
OwnTrace(r, k) == IF k.trace = None THEN <<r, 2>> ELSE k.trace

GenerationFailed(r) ==
  /\ stage[r] = "verified" /\ ask[r].root
  /\ RecordIn(r, OwnTrace(r, ask[r]), ask[r], ask[r].caller, <<>>, "deny", "answer")
  /\ UNCHANGED <<events, ask>>

\* Intent validation and child credential: denied on the trusted envelope.
RootRefused(r) ==
  /\ stage[r] = "verified" /\ ask[r].root
  /\ Record(r, ask[r], ask[r].caller, <<RootHop(ask[r])>>, "deny", "answer")
  /\ UNCHANGED <<events, ask>>

RootAllowed(r) ==
  /\ stage[r] = "verified" /\ ask[r].root
  /\ Record(r, ask[r], ask[r].caller, <<RootHop(ask[r])>>, "allow", "forward")
  /\ UNCHANGED <<events, ask>>

(* agent_task.                                                             *)

\* get_active_agent, before the token is looked at: denied without an event.
TargetRefused(r, k) ==
  /\ ~k.root /\ ~k.fit /\ Take(r, k)
  /\ Record(r, k, k.caller, k.chain, "deny", "answer")
  /\ UNCHANGED events

\* Credential, actor type, intent, or what else authorize looks at: denied.
AgentRefused(r) ==
  /\ stage[r] = "verified" /\ ~ask[r].root /\ ~ask[r].fit
  /\ Record(r, ask[r], ask[r].caller, ask[r].chain, "deny", "answer")
  /\ UNCHANGED <<events, ask>>

\* is_chain_continuous.
Continuous(k) == k.chain = <<>> \/ k.chain[Len(k.chain)].to = k.caller

\* authorize of a request that is fit, and the record of what it decided.
Authorize(r) ==
  LET k == ask[r]
      decision == IF Continuous(k) THEN "allow" ELSE "deny"
  IN /\ stage[r] = "verified" /\ ~k.root /\ k.fit
     /\ Record(r, k, k.caller, k.chain, decision, IF decision = "allow" THEN "mint" ELSE "answer")
     /\ UNCHANGED <<events, ask>>

(* forward_to_agent.                                                       *)

\* The agent answers; or it fails, of which root_task records nothing.
CallEnded(r) ==
  /\ loop = None /\ stage[r] = "forwarded"
  /\ stage' = [stage EXCEPT ![r] = "answered"]
  /\ UNCHANGED <<chain, rows, events, ask, loop, work, then, handed, restarts>>

\* The agent fails: agent_task records a denial.
CallFailed(r) ==
  /\ loop = None /\ stage[r] = "forwarded" /\ ~ask[r].root
  /\ Record(r, ask[r], ask[r].caller, ask[r].chain, "deny", "answer")
  /\ UNCHANGED <<events, ask>>

\* A revocation cancels the call: a denial about the envelope that was
\* forwarded, which in root_task names the target as the caller.
CallCancelled(r) ==
  LET k == ask[r]
  IN /\ loop = None /\ stage[r] = "forwarded"
     /\ Record(r, k, IF k.root THEN k.target ELSE k.caller, ChainOn(k), "deny",
               IF k.root THEN "answer" ELSE "fail")
     /\ UNCHANGED <<events, ask>>

\* A slip: nothing tells the new process that no decision is being recorded.
RestartStillWriting ==
  /\ restarts < MaxRestarts
  /\ restarts' = restarts + 1
  /\ stage' = [r \in Requests |->
                 IF stage[r] \in {"verified", "writing", "forwarded"} THEN "lost" ELSE stage[r]]
  /\ UNCHANGED <<chain, rows, events, ask, loop, work, then, handed>>

\* The process ends, between any two transactions, and starts again (with no
\* request in flight that changes nothing).
Restart ==
  /\ restarts < MaxRestarts /\ \E r \in Requests : stage[r] \in {"verified", "writing", "forwarded"}
  /\ restarts' = restarts + 1
  /\ stage' = [r \in Requests |->
                 IF stage[r] \in {"verified", "writing", "forwarded"} THEN "lost" ELSE stage[r]]
  /\ loop' = None /\ work' = None /\ then' = "answer"
  /\ UNCHANGED <<chain, rows, events, ask, handed>>

\* What requests ask: a user anything; whoever presents a token to agent_task
\* another agent (a bound: the code does not stop one that calls itself), with any
\* chain: the code knows no more of a chain than the last hop's `to`.
UserAsks ==
  [root : {TRUE}, trace : Traces \cup {None}, caller : Users, user : Users, target : Agents,
   chain : {<<>>}, fit : {TRUE}]
AgentAsks(tr) ==
  {k \in [root : {FALSE}, trace : {tr}, caller : Users \cup Agents, user : Users, target : Agents,
          chain : Chains, fit : BOOLEAN] : k.caller # k.target}
Asked == UserAsks \cup UNION {AgentAsks(tr) : tr \in Traces \cup {h.trace : h \in handed}}

Next ==
  \/ Restart
  \/ \E r \in Requests :
       \/ \E k \in Asked :
            TokenRefused(r, k) \/ TokenAccepted(r, k) \/ TokenRaises(r, k) \/ TargetRefused(r, k)
       \/ HandlerRaises(r)
       \/ RootRefusedEarly(r) \/ GenerationFailed(r) \/ RootRefused(r) \/ RootAllowed(r)
       \/ AgentRefused(r) \/ Authorize(r)
       \/ WriteHop(r) \/ WriteRow(r)
       \/ CallEnded(r) \/ CallFailed(r) \/ CallCancelled(r)

Spec == Init /\ [][Next]_vars

-----------------------------------------------------------------------------
(* Properties.                                                             *)

RowsOf(r, what) == Cardinality({i \in DOMAIN rows[r] : rows[r][i].what = what})
HopsIn(tr, r, what) ==
  Cardinality({i \in DOMAIN chain[tr] :
                 chain[tr][i].req = r /\ ~chain[tr][i].seed /\ chain[tr][i].hop.what = what})
HopsOf(r, what) ==
  HopsIn(TraceOf(r, ask[r]), r, what) +
    (IF OwnTrace(r, ask[r]) = TraceOf(r, ask[r]) THEN 0 ELSE HopsIn(OwnTrace(r, ask[r]), r, what))

\* An allowed call whose hop is shown, and not its caller's root hop in its stead.
AllowShown(k) == ~OwnRoot(k.caller, IF k.root THEN <<RootHop(k)>> ELSE k.chain)

\* Every decision in the audit log has its hop in the chain of the trace, and
\* every hop that a request did not bring along has its row, up to the one a
\* restart cut short.  (What the first request of a trace brings along is written under
\* its id, whoever made it, and is no decision of its own.)
RowsMatchHops ==
  \A r \in Requests : stage[r] # "idle" =>
    \A what \in {"deny", "allow"} :
      /\ what = "deny" \/ AllowShown(ask[r]) => RowsOf(r, what) <= HopsOf(r, what)
      /\ HopsOf(r, what) <= RowsOf(r, what) + (IF stage[r] \in {"writing", "lost"} THEN 1 ELSE 0)

\* An agent acts on no hop of the gateway's that its trace does not show: in an
\* envelope that was handed on, every allowed hop with which the gateway handed
\* the chain on in this trace is in the table, restart or not, unless the caller's own
\* root hop is before it.  (Hops that a request brings along into a trace that has some
\* are not written.  A root hop may be missing, too: only
\* append_chain_hops_if_empty writes it, and nothing does in a trace that already
\* has a hop, a denied attempt's for one.)
HandedHopsRecorded ==
  \A h \in handed : \A i \in DOMAIN h.chain :
    /\ h.chain[i].what = "allow"
    /\ \E g \in handed : g.trace = h.trace /\ g.chain = SubSeq(h.chain, 1, i)
    /\ ~OwnRoot(h.chain[i].from, SubSeq(h.chain, 1, i - 1))
    => \E j \in DOMAIN chain[h.trace] : chain[h.trace][j].hop = h.chain[i]

\* Who acts has been authenticated: no call is allowed or handed on without the
\* event of an accepted token, a refused token answers with its event and one
\* denial, and only a refused target answers with a denial alone.
EventsExplainRows ==
  \A r \in Requests :
    /\ RowsOf(r, "allow") > 0 \/ stage[r] = "forwarded" => events[r] = "allow"
    /\ stage[r] = "answered" /\ events[r] # "allow" =>
         /\ Len(rows[r]) = 1 /\ RowsOf(r, "deny") = 1
         /\ events[r] = "none" => ~ask[r].root

\* All that a request leaves behind can be found under one trace id, the one its
\* event and its envelope carry, over all its decisions; the exception is a
\* request that names no trace and for which no intent can be generated, whose
\* one denial is found under a trace of its own.
OneTracePerRequest ==
  \A r \in Requests : \A i \in DOMAIN rows[r] :
    \/ rows[r][i].trace = TraceOf(r, ask[r])
    \/ ask[r].root /\ ask[r].trace = None /\ Len(rows[r]) = 1 /\ rows[r][i].what = "deny"
=============================================================================
