------------------------------- MODULE IntentTree -------------------------------
(***************************************************************************)
(* The signed intent tree: app/intent/service.py over                      *)
(* app/store/intent_tree.py.                                               *)
(*                                                                         *)
(* A node id is the hash of the parent's id and of the node's own content, *)
(* so a node is named by its path from the root, as a credential is.  The  *)
(* content does not name the trace: equal requests in two traces build the *)
(* same node, and the table keeps one row of it (INSERT OR REPLACE).       *)
(* Hashes and signatures hold of every node the gateway builds and are not *)
(* modelled.                                                               *)
(*                                                                         *)
(* validate_and_record_intent_node validates, awaits the judge and records *)
(* the node: other requests run in between.                                *)
(***************************************************************************)
EXTENDS Naturals, Sequences

CONSTANTS Users, Agents, Traces,
          Contents,  \* task types and intent commitments
          Requests,  \* requests to the gateway, one intent node each
          MaxDepth,  \* bound: longest path
          None

ASSUME NoneAssumption == None \notin Traces
ASSUME UsersAreNotAgents == Users \cap Agents = {}

VARIABLES rows,      \* intent_tree
          ever,      \* history: [node, trace] of every row ever written
          accepted,  \* [node, trace] of the nodes judged consistent and handed on
          stage,     \* request -> idle, judging, answered
          asks,      \* request -> its [node, trace]
          code       \* request -> error code answered, "ok" without one

vars == <<rows, ever, accepted, stage, asks, code>>

Link  == [actor : Users \cup Agents, target : Agents, content : Contents]
Node  == {n \in Seq(Link) : n # <<>>}
Place == [node : Node, trace : Traces]

Verdicts == {"Consistent", "Drifted", "JudgeFailed"}
Codes    == {"none", "ok", "INTENT_ACTOR_MISMATCH", "INTENT_PARENT_NOT_FOUND",
             "INTENT_CHAIN_INVALID", "INTENT_DRIFTED", "INTENT_JUDGE_FAILED",
             "INTERNAL_ERROR"}

TypeOK ==
  /\ rows \in SUBSET [node : Node, trace : Traces, verdict : Verdicts]
  /\ \A x, y \in rows : x.node = y.node => x = y
  /\ ever \in SUBSET Place
  /\ accepted \in SUBSET Place
  /\ stage \in [Requests -> {"idle", "judging", "answered"}]
  /\ asks \in [Requests -> Place \cup {None}]
  /\ \A q \in Requests : stage[q] = "judging" => asks[q] \in Place
  /\ code \in [Requests -> Codes]

Init ==
  /\ rows = {} /\ ever = {} /\ accepted = {}
  /\ stage = [q \in Requests |-> "idle"]
  /\ asks = [q \in Requests |-> None]
  /\ code = [q \in Requests |-> "none"]

-----------------------------------------------------------------------------
Ancestor(n, k) == SubSeq(n, 1, k)
Nodes == {x.node : x \in rows}
Stored(n) == n \in Nodes
InTrace(n, tr) == \E x \in rows : x.node = n /\ x.trace = tr

\* The nodes requests build: a user's root; an agent's child of a node that was
\* handed to it in the same trace (payload.parent_intent_node_id); or an
\* agent's node without a parent.
Roots == {[node |-> <<l>>, trace |-> tr] : l \in Link, tr \in Traces}
Below(p, b, w) ==
  [node |-> Append(p.node, [actor |-> p.node[Len(p.node)].target, target |-> b, content |-> w]),
   trace |-> p.trace]
Children == {Below(p, b, w) : p \in {p \in accepted : Len(p.node) < MaxDepth}, b \in Agents, w \in Contents}
Presented == Roots \cup Children

\* A slip: the walk starts with the parent among the visited nodes.
BranchErrorVisited(n, tr) ==
  IF Len(n) = 1 THEN "ok"
  ELSE IF ~Stored(Ancestor(n, Len(n) - 1)) THEN "INTENT_PARENT_NOT_FOUND"
  ELSE IF Len(n) > 2 THEN "INTENT_CHAIN_INVALID"
  ELSE "ok"

\* validate_branch: the parent is stored in this trace and so is every ancestor.
BranchError(n, tr) ==
  IF Len(n) = 1 THEN "ok"
  ELSE IF ~Stored(Ancestor(n, Len(n) - 1)) THEN "INTENT_PARENT_NOT_FOUND"
  ELSE IF \E k \in 1 .. Len(n) - 1 : ~InTrace(Ancestor(n, k), tr) THEN "INTENT_CHAIN_INVALID"
  ELSE "ok"

\* validate_actor, then validate_branch.
Error(n, tr) ==
  IF Len(n) = 1 /\ n[1].actor \notin Users THEN "INTENT_ACTOR_MISMATCH"
  ELSE BranchError(n, tr)

\* validate_and_record_intent_node up to the await of the judge.
Validate(q, p) ==
  LET error == Error(p.node, p.trace)
  IN /\ stage[q] = "idle"
     /\ asks' = [asks EXCEPT ![q] = p]
     /\ \/ error = "ok" /\ stage' = [stage EXCEPT ![q] = "judging"] /\ UNCHANGED code
        \/ /\ error # "ok"
           /\ stage' = [stage EXCEPT ![q] = "answered"]
           /\ code' = [code EXCEPT ![q] = error]
     /\ UNCHANGED <<rows, ever, accepted>>

\* A slip: the row's primary key is the trace and the node.
RecordBeside(p, verdict) ==
  /\ rows' = rows \cup {[node |-> p.node, trace |-> p.trace, verdict |-> verdict]}
  /\ ever' = ever \cup {p}

\* A slip: REPLACE deletes what was recorded below the node.
RecordDeletingBranch(p, verdict) ==
  /\ rows' = {x \in rows : Len(x.node) < Len(p.node) \/ Ancestor(x.node, Len(p.node)) # p.node}
             \cup {[node |-> p.node, trace |-> p.trace, verdict |-> verdict]}
  /\ ever' = ever \cup {p}

\* upsert_intent_node: the row of this node, whatever trace it was in.
Record(p, verdict) ==
  /\ rows' = {x \in rows : x.node # p.node}
             \cup {[node |-> p.node, trace |-> p.trace, verdict |-> verdict]}
  /\ ever' = ever \cup {p}

Judged(q, answer) ==
  /\ stage[q] = "judging"
  /\ stage' = [stage EXCEPT ![q] = "answered"]
  /\ code' = [code EXCEPT ![q] = answer]
  /\ UNCHANGED asks

Accept(q) ==
  /\ Judged(q, "ok")
  /\ Record(asks[q], "Consistent")
  /\ accepted' = accepted \cup {asks[q]}

Drift(q) ==
  /\ Judged(q, "INTENT_DRIFTED")
  /\ Record(asks[q], "Drifted")
  /\ UNCHANGED accepted

\* An error status, no JSON or an unknown decision: IntentJudgeError.
JudgeFails(q) ==
  /\ Judged(q, "INTENT_JUDGE_FAILED")
  /\ Record(asks[q], "JudgeFailed")
  /\ UNCHANGED accepted

\* The provider cannot be reached or is late: call_openai and call_anthropic let
\* the httpx exception through and nobody catches it: HTTP 500, nothing recorded
\* (the documentation has INTENT_JUDGE_FAILED for every failed call).
JudgeUnreachable(q) ==
  /\ Judged(q, "INTERNAL_ERROR")
  /\ UNCHANGED <<rows, ever, accepted>>

Next ==
  \E q \in Requests :
    \/ \E p \in Presented : Validate(q, p)
    \/ Accept(q) \/ Drift(q) \/ JudgeFails(q) \/ JudgeUnreachable(q)

Spec == Init /\ [][Next]_vars

-----------------------------------------------------------------------------
(* Properties.                                                             *)

\* Every ancestor of a recorded node is recorded, although parents are validated
\* before the judge is awaited and rows are replaced meanwhile: "intent branch
\* is missing an ancestor" and INTENT_PARENT_NOT_FOUND never answer a caller
\* that names a node handed to it.
BranchesComplete ==
  /\ \A x \in rows : \A k \in 1 .. Len(x.node) : Stored(Ancestor(x.node, k))
  /\ \A q \in Requests : code[q] # "INTENT_PARENT_NOT_FOUND"

\* A handed-on node is refused as INTENT_CHAIN_INVALID only when an equal node
\* was recorded in another trace.
OnlyCollisionsBreakChains ==
  \A q \in Requests : code[q] = "INTENT_CHAIN_INVALID" =>
    \E k \in 1 .. Len(asks[q].node) - 1, tr \in Traces \ {asks[q].trace} :
       [node |-> Ancestor(asks[q].node, k), trace |-> tr] \in ever

\* What the documentation says of a trace: its view holds its whole intent
\* chain, so a node handed on in a trace is recorded in that trace.
TraceKeepsIntents == \A p \in accepted : InTrace(p.node, p.trace)
=============================================================================
