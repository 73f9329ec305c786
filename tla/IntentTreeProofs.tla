----------------------------- MODULE IntentTreeProofs -----------------------------
(***************************************************************************)
(* Proofs about IntentTree, for any users, agents, contents and traces and *)
(* for branches of any depth.  The three answers of upsert_intent_node     *)
(* replace rows but never lose a node (RecordKeeps), so what was stored    *)
(* when a node was validated still is when the judge has answered          *)
(* (AncestorsKept); and what is missing from a trace was replaced by an    *)
(* equal node of another one (RowsAreHistory).                             *)
(***************************************************************************)
EXTENDS IntentTree, SequenceTheorems, TLAPS

Complete(n) == \A k \in 1 .. Len(n) : Stored(Ancestor(n, k))

RowsComplete == \A x \in rows : Complete(x.node)

\* Nodes that were handed on are stored, and so are the parents of nodes that
\* are being judged.
AncestorsKept ==
  /\ \A p \in accepted : Stored(p.node)
  /\ \A q \in Requests : stage[q] = "judging" =>
       \A k \in 1 .. Len(asks[q].node) - 1 : Stored(Ancestor(asks[q].node, k))
  /\ \A q \in Requests : code[q] # "none" => stage[q] = "answered"
  /\ \A q \in Requests : code[q] # "INTENT_PARENT_NOT_FOUND"

RowsAreHistory == \A x \in rows : [node |-> x.node, trace |-> x.trace] \in ever

\* The inductive invariant.
IInv ==
  /\ TypeOK
  /\ RowsComplete
  /\ AncestorsKept
  /\ RowsAreHistory
  /\ OnlyCollisionsBreakChains

LEMMA NodeLen ==
  ASSUME NEW n \in Node
  PROVE Len(n) \in Nat \ {0} /\ \A i \in 1 .. Len(n) : n[i] \in Link
  BY LenProperties, EmptySeq, ElementOfSeq DEF Node

LEMMA AncestorType ==
  ASSUME NEW n \in Node, NEW k \in 1 .. Len(n)
  PROVE Ancestor(n, k) \in Node /\ Len(Ancestor(n, k)) = k /\ \A i \in 1 .. k : Ancestor(n, k)[i] = n[i]
  <1>1. n \in Seq(Link) /\ Len(n) \in Nat /\ \A i \in 1 .. k : n[i] \in Link
    BY NodeLen DEF Node
  <1>2. /\ SubSeq(n, 1, k) \in Seq(Link) /\ Len(SubSeq(n, 1, k)) = k
        /\ \A i \in 1 .. k : SubSeq(n, 1, k)[i] = n[i]
    BY <1>1, SubSeqProperties, Z3
  <1>3. SubSeq(n, 1, k) # <<>>
    BY <1>1, <1>2, EmptySeq
  <1> QED
    BY <1>2, <1>3 DEF Ancestor, Node

LEMMA AncestorWhole ==
  ASSUME NEW n \in Node
  PROVE Ancestor(n, Len(n)) = n
  BY SubSeqFull DEF Ancestor, Node

LEMMA AncestorOfAncestor ==
  ASSUME NEW n \in Node, NEW k \in 1 .. Len(n), NEW i \in 1 .. k
  PROVE Ancestor(Ancestor(n, k), i) = Ancestor(n, i)
  <1> DEFINE s == Ancestor(Ancestor(n, k), i)
             t == Ancestor(n, i)
  <1>1. Len(n) \in Nat /\ i \in 1 .. Len(n)
    BY NodeLen
  <1>2. s \in Node /\ Len(s) = i /\ \A j \in 1 .. i : s[j] = n[j]
    BY <1>1, AncestorType
  <1>3. t \in Node /\ Len(t) = i /\ \A j \in 1 .. i : t[j] = n[j]
    BY <1>1, AncestorType
  <1> HIDE DEF s, t
  <1>4. s = t
    BY <1>2, <1>3, SeqEqual DEF Node
  <1> QED
    BY <1>4 DEF s, t

LEMMA AppendNode ==
  ASSUME NEW p \in Node, NEW l \in Link
  PROVE /\ Append(p, l) \in Node
        /\ Len(Append(p, l)) = Len(p) + 1
        /\ Ancestor(Append(p, l), Len(p)) = p
  <1> DEFINE c == Append(p, l)
  <1>1. Len(p) \in Nat \ {0}
    BY NodeLen
  <1>2. c \in Node /\ Len(c) = Len(p) + 1 /\ \A i \in 1 .. Len(p) : c[i] = p[i]
    BY AppendProperties DEF Node
  <1> HIDE DEF c
  <1>3. Len(p) \in 1 .. Len(c)
    BY <1>1, <1>2
  <1>4. /\ Ancestor(c, Len(p)) \in Node /\ Len(Ancestor(c, Len(p))) = Len(p)
        /\ \A i \in 1 .. Len(p) : Ancestor(c, Len(p))[i] = c[i]
    BY <1>2, <1>3, AncestorType
  <1>5. Ancestor(c, Len(p)) = p
    BY <1>2, <1>4, SeqEqual DEF Node
  <1> QED
    BY <1>2, <1>5 DEF c

\* What requests present: a root, or a node whose parent was handed on.
LEMMA PresentedNodes ==
  ASSUME TypeOK, NEW p \in Presented
  PROVE /\ p \in Place
        /\ Len(p.node) # 1 => \E a \in accepted : Ancestor(p.node, Len(p.node) - 1) = a.node
  <1>1. CASE p \in Roots
    <2>1. PICK l \in Link, tr \in Traces : p = [node |-> <<l>>, trace |-> tr]
      BY <1>1 DEF Roots
    <2>2. <<l>> \in Node /\ Len(<<l>>) = 1
      BY DEF Node
    <2> QED
      BY <2>1, <2>2 DEF Place
  <1>2. ASSUME NEW a \in accepted, NEW b \in Agents, NEW w \in Contents
        PROVE /\ Below(a, b, w) \in Place
              /\ Ancestor(Below(a, b, w).node, Len(Below(a, b, w).node) - 1) = a.node
    <2> DEFINE l == [actor |-> a.node[Len(a.node)].target, target |-> b, content |-> w]
    <2>1. a.node \in Node /\ a.trace \in Traces
      BY DEF TypeOK, Place
    <2>2. Len(a.node) \in Nat /\ a.node[Len(a.node)] \in Link
      BY <2>1, NodeLen
    <2>3. l \in Link
      BY <2>2 DEF Link
    <2>4. Append(a.node, l) \in Node /\ Ancestor(Append(a.node, l), Len(Append(a.node, l)) - 1) = a.node
      <3> HIDE DEF l
      <3>1. /\ Append(a.node, l) \in Node /\ Len(Append(a.node, l)) = Len(a.node) + 1
            /\ Ancestor(Append(a.node, l), Len(a.node)) = a.node
        BY <2>1, <2>3, AppendNode
      <3>2. Len(Append(a.node, l)) - 1 = Len(a.node)
        BY <2>2, <3>1
      <3> QED
        BY <3>1, <3>2
    <2>5. Below(a, b, w) = [node |-> Append(a.node, l), trace |-> a.trace]
      BY DEF Below
    <2> HIDE DEF l
    <2> QED
      BY <2>1, <2>4, <2>5 DEF Place
  <1>3. CASE p \in Children
    <2>1. PICK a \in accepted, b \in Agents, w \in Contents : p = Below(a, b, w)
      BY <1>3 DEF Children
    <2> QED
      BY <1>2, <2>1
  <1> QED
    BY <1>1, <1>3 DEF Presented

\* upsert_intent_node loses no node, and adds one.
LEMMA RecordKeeps ==
  ASSUME NEW p, NEW verdict, Record(p, verdict)
  PROVE /\ Nodes' = Nodes \cup {p.node}
        /\ \A x \in rows' : x \in rows \/ x = [node |-> p.node, trace |-> p.trace, verdict |-> verdict]
        /\ ever' = ever \cup {p}
  <1> DEFINE r == [node |-> p.node, trace |-> p.trace, verdict |-> verdict]
  <1>1. rows' = {x \in rows : x.node # p.node} \cup {r} /\ ever' = ever \cup {p}
    BY DEF Record
  <1>2. r \in rows' /\ r.node = p.node
    BY <1>1
  <1> HIDE DEF r
  <1>3. ASSUME NEW n \in Nodes PROVE n \in Nodes'
    <2>1. PICK x \in rows : x.node = n
      BY DEF Nodes
    <2>2. x \in rows' \/ n = r.node
      BY <1>1, <1>2, <2>1
    <2> QED
      BY <1>2, <2>1, <2>2 DEF Nodes
  <1>4. ASSUME NEW n \in Nodes' PROVE n \in Nodes \/ n = p.node
    BY <1>1, <1>2 DEF Nodes
  <1>5. p.node \in Nodes'
    BY <1>2 DEF Nodes
  <1>6. Nodes' = Nodes \cup {p.node}
    BY <1>3, <1>4, <1>5
  <1> QED
    BY <1>1, <1>6 DEF r

\* A request that has been validated and judged leaves the tree complete.
LEMMA RecordComplete ==
  ASSUME TypeOK, RowsComplete, AncestorsKept, RowsAreHistory,
         NEW q \in Requests, stage[q] = "judging", NEW verdict, Record(asks[q], verdict)
  PROVE RowsComplete' /\ RowsAreHistory'
  <1>1. asks[q].node \in Node /\ asks[q] = [node |-> asks[q].node, trace |-> asks[q].trace]
    BY DEF TypeOK, Place
  <1>2. Len(asks[q].node) \in Nat \ {0}
    BY <1>1, NodeLen
  <1>3. Ancestor(asks[q].node, Len(asks[q].node)) = asks[q].node
    BY <1>1, AncestorWhole
  <1> DEFINE p == asks[q]
  <1>0. /\ Nodes' = Nodes \cup {p.node} /\ ever' = ever \cup {p}
        /\ \A x \in rows' : x \in rows \/ x = [node |-> p.node, trace |-> p.trace, verdict |-> verdict]
    BY RecordKeeps
  <1>4. ASSUME NEW k \in 1 .. Len(asks[q].node) PROVE Ancestor(p.node, k) \in Nodes'
    <2>1. CASE k = Len(asks[q].node)
      BY <1>0, <1>3, <2>1
    <2>2. CASE k # Len(asks[q].node)
      <3>1. k \in 1 .. Len(p.node) - 1
        BY <1>2, <2>2
      <3> QED
        BY <1>0, <3>1 DEF AncestorsKept, Stored
    <2> QED
      BY <2>1, <2>2
  <1>5. ASSUME NEW x \in rows' PROVE \A k \in 1 .. Len(x.node) : Stored(Ancestor(x.node, k))'
    BY <1>0, <1>4 DEF RowsComplete, Complete, Stored
  <1>6. RowsComplete'
    BY <1>5 DEF RowsComplete, Complete
  <1>7. RowsAreHistory'
    <2> SUFFICES ASSUME NEW x \in rows' PROVE [node |-> x.node, trace |-> x.trace] \in ever'
      BY DEF RowsAreHistory
    <2>1. CASE x \in rows
      BY <1>0, <2>1 DEF RowsAreHistory
    <2>2. CASE x = [node |-> p.node, trace |-> p.trace, verdict |-> verdict]
      BY <1>0, <1>1, <2>2
    <2> QED
      BY <1>0, <2>1, <2>2
  <1> QED
    BY <1>6, <1>7

\* INTENT_PARENT_NOT_FOUND answers nobody, and INTENT_CHAIN_INVALID only where an
\* equal node was recorded in another trace.
LEMMA ValidateErrors ==
  ASSUME TypeOK, RowsComplete, AncestorsKept, RowsAreHistory, NEW p \in Presented
  PROVE /\ Error(p.node, p.trace) # "INTENT_PARENT_NOT_FOUND"
        /\ Error(p.node, p.trace) = "INTENT_CHAIN_INVALID" =>
             \E k \in 1 .. Len(p.node) - 1, tr \in Traces \ {p.trace} :
               [node |-> Ancestor(p.node, k), trace |-> tr] \in ever
        /\ Error(p.node, p.trace) = "ok" => \A k \in 1 .. Len(p.node) - 1 : Stored(Ancestor(p.node, k))
  <1>1. p.node \in Node /\ Len(p.node) \in Nat \ {0}
    BY PresentedNodes, NodeLen DEF Place
  <1>2. Len(p.node) # 1 => Stored(Ancestor(p.node, Len(p.node) - 1))
    <2>1. Len(p.node) # 1 => \E a \in accepted : Ancestor(p.node, Len(p.node) - 1) = a.node
      BY PresentedNodes
    <2>2. ASSUME Len(p.node) # 1 PROVE Ancestor(p.node, Len(p.node) - 1) \in Nodes
      <3>2. PICK a \in accepted : Ancestor(p.node, Len(p.node) - 1) = a.node
        BY <2>1, <2>2
      <3> QED
        BY <3>2 DEF AncestorsKept, Stored
    <2> QED
      BY <2>2 DEF Stored
  <1>3. Error(p.node, p.trace) # "INTENT_PARENT_NOT_FOUND"
    BY <1>1, <1>2 DEF Error, BranchError
  <1>4. ASSUME NEW k \in 1 .. Len(p.node) - 1, ~InTrace(Ancestor(p.node, k), p.trace)
        PROVE \E tr \in Traces \ {p.trace} : [node |-> Ancestor(p.node, k), trace |-> tr] \in ever
    <2> DEFINE m == Len(p.node) - 1
    <2>3. \A len \in Nat \ {0} : \A i \in 1 .. len - 1 : len - 1 \in 1 .. len /\ len # 1
      OBVIOUS
    <2>1. m \in 1 .. Len(p.node) /\ Len(p.node) # 1 /\ k \in 1 .. m
      BY <1>1, <2>3
    <2> HIDE DEF m
    <2>0. Ancestor(p.node, m) \in Nodes
      BY <1>1, <1>2, <2>1 DEF Stored, m
    <2>2. PICK x \in rows : x.node = Ancestor(p.node, m)
      BY <2>0 DEF Nodes
    <2>4. Len(x.node) = m /\ Ancestor(x.node, k) = Ancestor(p.node, k)
      BY <1>1, <2>1, <2>2, AncestorType, AncestorOfAncestor
    <2>5. Stored(Ancestor(p.node, k))
      BY <2>1, <2>2, <2>4 DEF RowsComplete, Complete
    <2>6. PICK y \in rows : y.node = Ancestor(p.node, k)
      BY <2>5 DEF Stored, Nodes
    <2>7. y.trace \in Traces \ {p.trace}
      BY <1>4, <2>6 DEF InTrace, TypeOK
    <2> QED
      BY <2>6, <2>7 DEF RowsAreHistory
  <1>5. Error(p.node, p.trace) = "INTENT_CHAIN_INVALID" =>
          \E k \in 1 .. Len(p.node) - 1 : ~InTrace(Ancestor(p.node, k), p.trace)
    BY DEF Error, BranchError
  <1>6. Error(p.node, p.trace) = "ok" => \A k \in 1 .. Len(p.node) - 1 : Stored(Ancestor(p.node, k))
    <2>1. Error(p.node, p.trace) = "ok" =>
            Len(p.node) = 1 \/ \A k \in 1 .. Len(p.node) - 1 : InTrace(Ancestor(p.node, k), p.trace)
      BY DEF Error, BranchError
    <2>2. \A n : InTrace(n, p.trace) => Stored(n)
      BY DEF InTrace, Stored, Nodes
    <2> QED
      BY <1>1, <2>1, <2>2
  <1> QED
    BY <1>3, <1>4, <1>5, <1>6

LEMMA InitIInv == Init => IInv
  BY DEF Init, IInv, TypeOK, RowsComplete, AncestorsKept, RowsAreHistory, OnlyCollisionsBreakChains,
     Codes, Verdicts, Nodes

LEMMA TypeStep == TypeOK /\ [Next]_vars => TypeOK'
  <1> SUFFICES ASSUME TypeOK, [Next]_vars PROVE TypeOK'
    OBVIOUS
  <1>1. ASSUME NEW q \in Requests, NEW p \in Presented, Validate(q, p) PROVE TypeOK'
    <2>1. p \in Place
      BY PresentedNodes
    <2>2. Error(p.node, p.trace) \in Codes
      BY DEF Error, BranchError, Codes
    <2> QED
      BY <1>1, <2>1, <2>2 DEF Validate, TypeOK
  <1>2. ASSUME NEW q \in Requests, Accept(q) PROVE TypeOK'
    BY <1>2 DEF Accept, Judged, Record, TypeOK, Place, Verdicts, Codes
  <1>3. ASSUME NEW q \in Requests, Drift(q) PROVE TypeOK'
    BY <1>3 DEF Drift, Judged, Record, TypeOK, Place, Verdicts, Codes
  <1>4. ASSUME NEW q \in Requests, JudgeFails(q) PROVE TypeOK'
    BY <1>4 DEF JudgeFails, Judged, Record, TypeOK, Place, Verdicts, Codes
  <1>5. ASSUME NEW q \in Requests, JudgeUnreachable(q) PROVE TypeOK'
    BY <1>5 DEF JudgeUnreachable, Judged, TypeOK, Codes
  <1>6. CASE UNCHANGED vars
    BY <1>6 DEF vars, TypeOK
  <1> QED
    BY <1>1, <1>2, <1>3, <1>4, <1>5, <1>6 DEF Next

LEMMA TreeStep ==
  TypeOK /\ RowsComplete /\ AncestorsKept /\ RowsAreHistory /\ [Next]_vars
    => (RowsComplete /\ RowsAreHistory)'
  <1> SUFFICES ASSUME TypeOK, RowsComplete, AncestorsKept, RowsAreHistory, [Next]_vars
        PROVE (RowsComplete /\ RowsAreHistory)'
    OBVIOUS
  <1>1. ASSUME NEW q \in Requests, NEW p \in Presented, Validate(q, p)
        PROVE (RowsComplete /\ RowsAreHistory)'
    BY <1>1 DEF Validate, RowsComplete, RowsAreHistory, Complete, Stored, Nodes
  <1>2. ASSUME NEW q \in Requests, Accept(q) PROVE (RowsComplete /\ RowsAreHistory)'
    <2>1. stage[q] = "judging" /\ \E verdict : Record(asks[q], verdict)
      BY <1>2 DEF Accept, Judged
    <2> QED
      BY <2>1, RecordComplete
  <1>3. ASSUME NEW q \in Requests, Drift(q) PROVE (RowsComplete /\ RowsAreHistory)'
    <2>1. stage[q] = "judging" /\ \E verdict : Record(asks[q], verdict)
      BY <1>3 DEF Drift, Judged
    <2> QED
      BY <2>1, RecordComplete
  <1>4. ASSUME NEW q \in Requests, JudgeFails(q) PROVE (RowsComplete /\ RowsAreHistory)'
    <2>1. stage[q] = "judging" /\ \E verdict : Record(asks[q], verdict)
      BY <1>4 DEF JudgeFails, Judged
    <2> QED
      BY <2>1, RecordComplete
  <1>5. ASSUME NEW q \in Requests, JudgeUnreachable(q) PROVE (RowsComplete /\ RowsAreHistory)'
    BY <1>5 DEF JudgeUnreachable, RowsComplete, RowsAreHistory, Complete, Stored, Nodes
  <1>6. CASE UNCHANGED vars
    BY <1>6 DEF vars, RowsComplete, RowsAreHistory, Complete, Stored, Nodes
  <1> QED
    BY <1>1, <1>2, <1>3, <1>4, <1>5, <1>6 DEF Next

LEMMA AncestorsStep ==
  TypeOK /\ RowsComplete /\ AncestorsKept /\ RowsAreHistory /\ [Next]_vars => AncestorsKept'
  <1> SUFFICES ASSUME TypeOK, RowsComplete, AncestorsKept, RowsAreHistory, [Next]_vars
        PROVE AncestorsKept'
    OBVIOUS
  <1>1. ASSUME NEW q \in Requests, NEW p \in Presented, Validate(q, p) PROVE AncestorsKept'
    <2>1. /\ Error(p.node, p.trace) # "INTENT_PARENT_NOT_FOUND"
          /\ Error(p.node, p.trace) = "ok" => \A k \in 1 .. Len(p.node) - 1 : Stored(Ancestor(p.node, k))
      BY ValidateErrors
    <2>2. Nodes' = Nodes
      BY <1>1 DEF Validate, Nodes
    <2>3. \A n \in accepted' : Stored(n.node)'
      BY <1>1, <2>2 DEF Validate, AncestorsKept, Stored
    <2>4. ASSUME NEW r \in Requests, (stage[r] = "judging")'
          PROVE (\A k \in 1 .. Len(asks[r].node) - 1 : Stored(Ancestor(asks[r].node, k)))'
      BY <1>1, <2>1, <2>2, <2>4 DEF Validate, AncestorsKept, TypeOK, Stored
    <2>5. /\ \A r \in Requests : code'[r] # "none" => stage'[r] = "answered"
          /\ \A r \in Requests : code'[r] # "INTENT_PARENT_NOT_FOUND"
      BY <1>1, <2>1 DEF Validate, AncestorsKept, TypeOK
    <2> QED
      BY <2>3, <2>4, <2>5 DEF AncestorsKept
  <1>2. ASSUME NEW q \in Requests, Accept(q) PROVE AncestorsKept'
    <2>1. Record(asks[q], "Consistent") /\ stage[q] = "judging"
      BY <1>2 DEF Accept, Judged
    <2>2. Nodes' = Nodes \cup {asks[q].node}
      BY <2>1, RecordKeeps
    <2>3. \A n \in accepted' : Stored(n.node)'
      BY <1>2, <2>2 DEF Accept, AncestorsKept, Stored
    <2>4. ASSUME NEW r \in Requests, (stage[r] = "judging")'
          PROVE (\A k \in 1 .. Len(asks[r].node) - 1 : Stored(Ancestor(asks[r].node, k)))'
      BY <1>2, <2>2, <2>4 DEF Accept, Judged, AncestorsKept, TypeOK, Stored
    <2>5. /\ \A r \in Requests : code'[r] # "none" => stage'[r] = "answered"
          /\ \A r \in Requests : code'[r] # "INTENT_PARENT_NOT_FOUND"
      BY <1>2 DEF Accept, Judged, AncestorsKept, TypeOK
    <2> QED
      BY <2>3, <2>4, <2>5 DEF AncestorsKept
  <1>3. ASSUME NEW q \in Requests, Drift(q) PROVE AncestorsKept'
    <2>1. Record(asks[q], "Drifted") /\ stage[q] = "judging"
      BY <1>3 DEF Drift, Judged
    <2>2. Nodes' = Nodes \cup {asks[q].node}
      BY <2>1, RecordKeeps
    <2>3. \A n \in accepted' : Stored(n.node)'
      BY <1>3, <2>2 DEF Drift, AncestorsKept, Stored
    <2>4. ASSUME NEW r \in Requests, (stage[r] = "judging")'
          PROVE (\A k \in 1 .. Len(asks[r].node) - 1 : Stored(Ancestor(asks[r].node, k)))'
      BY <1>3, <2>2, <2>4 DEF Drift, Judged, AncestorsKept, TypeOK, Stored
    <2>5. /\ \A r \in Requests : code'[r] # "none" => stage'[r] = "answered"
          /\ \A r \in Requests : code'[r] # "INTENT_PARENT_NOT_FOUND"
      BY <1>3 DEF Drift, Judged, AncestorsKept, TypeOK
    <2> QED
      BY <2>3, <2>4, <2>5 DEF AncestorsKept
  <1>4. ASSUME NEW q \in Requests, JudgeFails(q) PROVE AncestorsKept'
    <2>1. Record(asks[q], "JudgeFailed") /\ stage[q] = "judging"
      BY <1>4 DEF JudgeFails, Judged
    <2>2. Nodes' = Nodes \cup {asks[q].node}
      BY <2>1, RecordKeeps
    <2>3. \A n \in accepted' : Stored(n.node)'
      BY <1>4, <2>2 DEF JudgeFails, AncestorsKept, Stored
    <2>4. ASSUME NEW r \in Requests, (stage[r] = "judging")'
          PROVE (\A k \in 1 .. Len(asks[r].node) - 1 : Stored(Ancestor(asks[r].node, k)))'
      BY <1>4, <2>2, <2>4 DEF JudgeFails, Judged, AncestorsKept, TypeOK, Stored
    <2>5. /\ \A r \in Requests : code'[r] # "none" => stage'[r] = "answered"
          /\ \A r \in Requests : code'[r] # "INTENT_PARENT_NOT_FOUND"
      BY <1>4 DEF JudgeFails, Judged, AncestorsKept, TypeOK
    <2> QED
      BY <2>3, <2>4, <2>5 DEF AncestorsKept
  <1>5. ASSUME NEW q \in Requests, JudgeUnreachable(q) PROVE AncestorsKept'
    BY <1>5 DEF JudgeUnreachable, Judged, AncestorsKept, Stored, Nodes, TypeOK
  <1>6. CASE UNCHANGED vars
    BY <1>6 DEF vars, AncestorsKept, Stored, Nodes
  <1> QED
    BY <1>1, <1>2, <1>3, <1>4, <1>5, <1>6 DEF Next

LEMMA CollisionsStep ==
  TypeOK /\ RowsComplete /\ AncestorsKept /\ RowsAreHistory /\ OnlyCollisionsBreakChains /\ [Next]_vars
    => OnlyCollisionsBreakChains'
  <1> SUFFICES ASSUME TypeOK, RowsComplete, AncestorsKept, RowsAreHistory, OnlyCollisionsBreakChains,
            [Next]_vars
        PROVE OnlyCollisionsBreakChains'
    OBVIOUS
  <1>1. ASSUME NEW q \in Requests, NEW p \in Presented, Validate(q, p) PROVE OnlyCollisionsBreakChains'
    <2>1. Error(p.node, p.trace) = "INTENT_CHAIN_INVALID" =>
            \E k \in 1 .. Len(p.node) - 1, tr \in Traces \ {p.trace} :
              [node |-> Ancestor(p.node, k), trace |-> tr] \in ever
      BY ValidateErrors
    <2>2. code[q] = "none"
      BY <1>1 DEF Validate, AncestorsKept
    <2> QED
      BY <1>1, <2>1, <2>2 DEF Validate, OnlyCollisionsBreakChains, TypeOK
  <1>2. ASSUME NEW q \in Requests, Accept(q) PROVE OnlyCollisionsBreakChains'
    BY <1>2 DEF Accept, OnlyCollisionsBreakChains, TypeOK, Judged, Record
  <1>3. ASSUME NEW q \in Requests, Drift(q) PROVE OnlyCollisionsBreakChains'
    BY <1>3 DEF Drift, OnlyCollisionsBreakChains, TypeOK, Judged, Record
  <1>4. ASSUME NEW q \in Requests, JudgeFails(q) PROVE OnlyCollisionsBreakChains'
    BY <1>4 DEF JudgeFails, OnlyCollisionsBreakChains, TypeOK, Judged, Record
  <1>5. ASSUME NEW q \in Requests, JudgeUnreachable(q) PROVE OnlyCollisionsBreakChains'
    BY <1>5 DEF JudgeUnreachable, OnlyCollisionsBreakChains, TypeOK, Judged, Record
  <1>6. CASE UNCHANGED vars
    BY <1>6 DEF vars, OnlyCollisionsBreakChains
  <1> QED
    BY <1>1, <1>2, <1>3, <1>4, <1>5, <1>6 DEF Next

LEMMA StepIInv == IInv /\ [Next]_vars => IInv'
  BY TypeStep, TreeStep, AncestorsStep, CollisionsStep DEF IInv

\* The invariant holds always, whatever requests are judged and recorded between
\* the validation of a node and its own record.
THEOREM Invariance == Spec => []IInv
  BY InitIInv, StepIInv, PTL DEF Spec

\* Rows, requests and histories keep their types.
THEOREM TypeCorrect == Spec => []TypeOK
  <1>1. IInv => TypeOK
    BY DEF IInv
  <1> QED
    BY Invariance, <1>1, PTL

\* Every ancestor of a recorded node is recorded, and no caller that names a node
\* handed to it is told that its parent is missing.
THEOREM BranchesStayComplete == Spec => []BranchesComplete
  <1>1. IInv => BranchesComplete
    BY DEF IInv, RowsComplete, Complete, AncestorsKept, BranchesComplete
  <1> QED
    BY Invariance, <1>1, PTL

\* A handed-on branch is refused only where an equal node was recorded in another
\* trace.
THEOREM OnlyCollisionsBreak == Spec => []OnlyCollisionsBreakChains
  <1>1. IInv => OnlyCollisionsBreakChains
    BY DEF IInv
  <1> QED
    BY Invariance, <1>1, PTL

-----------------------------------------------------------------------------
(* How far the finding about TraceKeepsIntents goes.                       *)

LossesAreCollisions ==
  \A p \in accepted :
    \/ InTrace(p.node, p.trace)
    \/ \E tr \in Traces \ {p.trace} : InTrace(p.node, tr) /\ [node |-> p.node, trace |-> tr] \in ever

\* A trace loses a node that was handed on in it only to an equal node of another
\* trace, where the node is then shown: upsert_intent_node never drops a node.
THEOREM TracesLoseToCollisions == Spec => []LossesAreCollisions
  <1>1. IInv => LossesAreCollisions
    <2> SUFFICES ASSUME IInv, NEW p \in accepted, ~InTrace(p.node, p.trace)
                 PROVE \E tr \in Traces \ {p.trace} :
                         InTrace(p.node, tr) /\ [node |-> p.node, trace |-> tr] \in ever
      BY DEF LossesAreCollisions
    <2>1. PICK x \in rows : x.node = p.node
      BY DEF IInv, AncestorsKept, Stored, Nodes
    <2>2. x.trace \in Traces /\ InTrace(p.node, x.trace) /\ x.trace # p.trace
      BY <2>1 DEF IInv, TypeOK, InTrace
    <2>3. [node |-> p.node, trace |-> x.trace] \in ever
      BY <2>1 DEF IInv, RowsAreHistory
    <2> QED
      BY <2>2, <2>3
  <1> QED
    BY Invariance, <1>1, PTL
=============================================================================
