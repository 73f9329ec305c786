------------------------------ MODULE RegistryProofs ------------------------------
(***************************************************************************)
(* Proofs about Registry, for any agents, names, policies and requests.    *)
(* PolicyEnforced is not inductive alone: what an approval grants comes    *)
(* from the policy as it is then, which is among those offered since the   *)
(* registration began (OfferedNow); VCsOfAcceptedRows needs that the VC    *)
(* being made certifies the row that was written (VCInTheMaking).  For     *)
(* ReadersAgree, whose registrations do not overlap, the youngest VC is    *)
(* that of the row whenever none is due (Orderly, RowsCertified).          *)
(***************************************************************************)
EXTENDS Registry, FiniteSetTheorems, TLAPS

\* What get_policy returns now is among what is kept as offered, and nothing has
\* been answered to a registration that is under way or has not begun.
OfferedNow ==
  \A g \in Registrations :
    /\ InFlight(g) => \A t \in {ask[g].type, Star} \cap DOMAIN policy : policy[t] \subseteq offered[g]
    /\ InFlight(g) \/ pc[g] = "idle" => code[g] = "none"

\* After the row, the row; after the signature, the VC of that row.
VCInTheMaking ==
  \A g \in Registrations :
    /\ pc[g] = "sign" => [agent |-> ask[g].agent, caps |-> granted[g]] \in accepted
    /\ pc[g] = "store" => /\ [agent |-> vc[g].agent, caps |-> vc[g].caps] \in accepted
                          /\ vc[g].caps = granted[g]

\* Agents whose registrations came one after the other: one at a time is under
\* way; from the row to the VC the row is what was granted; and when no VC is
\* due the youngest VC is that of the row.
Orderly ==
  /\ IsFiniteSet(vcs) /\ \A v \in vcs : v.iat <= now
  /\ \A g, h \in Registrations :
       InFlight(g) /\ InFlight(h) /\ ask[g].agent = ask[h].agent /\ ask[g].agent \notin raced => g = h
  /\ \A g \in Registrations :
       LET a == ask[g].agent
       IN /\ pc[g] \in {"sign", "store"} /\ a \notin raced => a \in DOMAIN agents /\ agents[a].caps = granted[g]
          /\ pc[g] = "store" => /\ vc[g].agent = a /\ vc[g].caps = granted[g] /\ vc[g].iat <= now
                                /\ a \notin raced => \A w \in vcs : w.agent = a => w.iat <= vc[g].iat

Youngest(a, v) == v.agent = a /\ \A w \in vcs : w.agent = a => w.iat <= v.iat

RowsCertified ==
  \A a \in DOMAIN agents \ raced :
    (\A g \in Registrations : pc[g] \in {"sign", "store"} => ask[g].agent # a)
      => \E v \in vcs : Youngest(a, v) /\ v.caps = agents[a].caps

\* The inductive invariant.
IInv ==
  /\ TypeOK
  /\ NamesUnique
  /\ OfferedNow
  /\ PolicyEnforced
  /\ VCInTheMaking
  /\ VCsOfAcceptedRows
  /\ Orderly
  /\ RowsCertified

LEMMA AllowedType ==
  ASSUME NEW D, NEW p \in [D -> SUBSET Caps], NEW ty PROVE Allowed(p, ty) \subseteq Caps
  BY DEF Allowed

LEMMA AllowedIncludes ==
  ASSUME NEW p, NEW ty, NEW t \in {ty, Star} \cap DOMAIN p PROVE p[t] \subseteq Allowed(p, ty)
  BY DEF Allowed

LEMMA InitIInv == Init => IInv
  BY AsksAssumption, BootAssumption, StarAssumption, BoundsAssumption, FS_EmptySet
  DEF Init, Orderly, RowsCertified, IInv, TypeOK, NamesUnique, OfferedNow, PolicyEnforced, VCInTheMaking,
      VCsOfAcceptedRows, Registrations, Row, VC, Open, Codes, InFlight

LEMMA TypeStep == TypeOK /\ [Next]_vars => TypeOK'
  <1> SUFFICES ASSUME TypeOK, [Next]_vars PROVE TypeOK'
    OBVIOUS
  <1> USE AsksAssumption, BootAssumption, StarAssumption, BoundsAssumption
      DEF TypeOK, Registrations, Row, VC, Open, Codes, InFlight, Ask, Put, requestVars
  <1>1. ASSUME Tick PROVE TypeOK'
    BY <1>1 DEF Tick, requestVars
  <1>2. ASSUME Restart PROVE TypeOK'
    <2>1. Allowed(policy, Demo.type) \subseteq Caps
      BY AllowedType
    <2> QED
      BY <1>2, <2>1 DEF Restart
  <1>3. ASSUME NEW u \in Puts, SetPolicy(u) PROVE TypeOK'
    <2>1. policy' \in [DOMAIN policy \cup {u.type} -> SUBSET Caps] /\ DOMAIN policy' \subseteq Types
      BY <1>3 DEF SetPolicy
    <2>2. \A g \in Registrations : Allowed(policy', ask[g].type) \subseteq Caps
      BY <2>1, AllowedType
    <2>3. offered' \in [Registrations -> SUBSET Caps]
      BY <1>3, <2>2 DEF SetPolicy
    <2>4. puts' \in 0 .. MaxPuts /\ Star \in DOMAIN policy' /\ policy' \in [DOMAIN policy' -> SUBSET Caps]
      BY <1>3, <2>1 DEF SetPolicy
    <2> QED
      BY <1>3, <2>1, <2>3, <2>4 DEF SetPolicy, requestVars
  <1>4. ASSUME NEW g \in Registrations, NEW k \in Asks, CheckName(g, k) PROVE TypeOK'
    <2>1. Allowed(policy, k.type) \subseteq Caps
      BY AllowedType
    <2>2. offered' \in [Registrations -> SUBSET Caps]
      BY <1>4, <2>1 DEF CheckName, Begin
    <2>3. raced' \in SUBSET Agents
      BY <1>4 DEF CheckName, Begin
    <2> QED
      BY <1>4, <2>2, <2>3 DEF CheckName, Begin, End
  <1>5. ASSUME NEW g \in Registrations, ReadPolicy(g) PROVE TypeOK'
    BY <1>5 DEF ReadPolicy, Approve, End
  <1>6. ASSUME NEW g \in Registrations, ReadFallback(g) PROVE TypeOK'
    BY <1>6 DEF ReadFallback, Approve, End
  <1>7. ASSUME NEW g \in Registrations, UpsertAgent(g) PROVE TypeOK'
    BY <1>7 DEF UpsertAgent, WriteRow, End
  <1>8. ASSUME NEW g \in Registrations, SignVC(g) PROVE TypeOK'
    BY <1>8 DEF SignVC
  <1>9. ASSUME NEW g \in Registrations, StoreVC(g) PROVE TypeOK'
    BY <1>9 DEF StoreVC, End
  <1>10. CASE UNCHANGED vars
    BY <1>10 DEF vars, requestVars
  <1> QED
    BY <1>1, <1>2, <1>3, <1>4, <1>5, <1>6, <1>7, <1>8, <1>9, <1>10 DEF Next

LEMMA NamesStep == TypeOK /\ NamesUnique /\ [Next]_vars => NamesUnique'
  <1> SUFFICES ASSUME TypeOK, NamesUnique, [Next]_vars PROVE NamesUnique'
    OBVIOUS
  <1> USE DEF NamesUnique
  <1>1. ASSUME Tick PROVE NamesUnique'
    BY <1>1 DEF Tick
  <1>2. ASSUME Restart PROVE NamesUnique'
    BY <1>2 DEF Restart
  <1>3. ASSUME NEW u \in Puts, SetPolicy(u) PROVE NamesUnique'
    BY <1>3 DEF SetPolicy
  <1>4. ASSUME NEW g \in Registrations, NEW k \in Asks, CheckName(g, k) PROVE NamesUnique'
    BY <1>4 DEF CheckName
  <1>5. ASSUME NEW g \in Registrations, ReadPolicy(g) PROVE NamesUnique'
    BY <1>5 DEF ReadPolicy
  <1>6. ASSUME NEW g \in Registrations, ReadFallback(g) PROVE NamesUnique'
    BY <1>6 DEF ReadFallback
  <1>7. ASSUME NEW g \in Registrations, UpsertAgent(g) PROVE NamesUnique'
    BY <1>7 DEF UpsertAgent, WriteRow, NameTaken
  <1>8. ASSUME NEW g \in Registrations, SignVC(g) PROVE NamesUnique'
    BY <1>8 DEF SignVC
  <1>9. ASSUME NEW g \in Registrations, StoreVC(g) PROVE NamesUnique'
    BY <1>9 DEF StoreVC
  <1>10. CASE UNCHANGED vars
    BY <1>10 DEF vars, requestVars
  <1> QED
    BY <1>1, <1>2, <1>3, <1>4, <1>5, <1>6, <1>7, <1>8, <1>9, <1>10 DEF Next

LEMMA OfferedStep == TypeOK /\ OfferedNow /\ [Next]_vars => OfferedNow'
  <1> SUFFICES ASSUME TypeOK, OfferedNow, [Next]_vars PROVE OfferedNow'
    OBVIOUS
  <1> USE BootAssumption
      DEF OfferedNow, TypeOK, Registrations, Open, InFlight
  <1>1. ASSUME Tick PROVE OfferedNow'
    BY <1>1 DEF Tick, requestVars
  <1>2. ASSUME Restart PROVE OfferedNow'
    <2>1. \A t \in {Demo.type, Star} \cap DOMAIN policy : policy[t] \subseteq Allowed(policy, Demo.type)
      BY AllowedIncludes
    <2> QED
      BY <1>2, <2>1 DEF Restart
  <1>3. ASSUME NEW u \in Puts, SetPolicy(u) PROVE OfferedNow'
    <2>1. UNCHANGED <<pc, ask, code>>
      BY <1>3 DEF SetPolicy, requestVars
    <2> SUFFICES ASSUME NEW g \in Registrations, InFlight(g)', NEW t \in {ask[g].type, Star} \cap DOMAIN policy'
                 PROVE policy'[t] \subseteq offered'[g]
      BY <2>1
    <2>2. policy'[t] \subseteq Allowed(policy', ask[g].type)
      BY AllowedIncludes
    <2>3. Allowed(policy', ask[g].type) \subseteq offered'[g]
      BY <1>3, <2>1 DEF SetPolicy
    <2> QED
      BY <2>2, <2>3
  <1>4. ASSUME NEW g \in Registrations, NEW k \in Asks, CheckName(g, k) PROVE OfferedNow'
    <2>1. \A t \in {k.type, Star} \cap DOMAIN policy : policy[t] \subseteq Allowed(policy, k.type)
      BY AllowedIncludes
    <2> QED
      BY <1>4, <2>1 DEF CheckName, Begin, End
  <1>5. ASSUME NEW g \in Registrations, ReadPolicy(g) PROVE OfferedNow'
    BY <1>5 DEF ReadPolicy, Approve, End
  <1>6. ASSUME NEW g \in Registrations, ReadFallback(g) PROVE OfferedNow'
    BY <1>6 DEF ReadFallback, Approve, End
  <1>7. ASSUME NEW g \in Registrations, UpsertAgent(g) PROVE OfferedNow'
    BY <1>7 DEF UpsertAgent, WriteRow, End
  <1>8. ASSUME NEW g \in Registrations, SignVC(g) PROVE OfferedNow'
    BY <1>8 DEF SignVC
  <1>9. ASSUME NEW g \in Registrations, StoreVC(g) PROVE OfferedNow'
    BY <1>9 DEF StoreVC, End
  <1>10. CASE UNCHANGED vars
    BY <1>10 DEF vars, requestVars
  <1> QED
    BY <1>1, <1>2, <1>3, <1>4, <1>5, <1>6, <1>7, <1>8, <1>9, <1>10 DEF Next

LEMMA PolicyStep == TypeOK /\ OfferedNow /\ VCInTheMaking /\ PolicyEnforced /\ [Next]_vars => PolicyEnforced'
  <1> SUFFICES ASSUME TypeOK, OfferedNow, VCInTheMaking, PolicyEnforced, [Next]_vars PROVE PolicyEnforced'
    OBVIOUS
  <1> USE BootAssumption
      DEF PolicyEnforced, OfferedNow, TypeOK, Registrations, Open, InFlight
  <1>1. ASSUME Tick PROVE PolicyEnforced'
    BY <1>1 DEF Tick, requestVars
  <1>2. ASSUME Restart PROVE PolicyEnforced'
    BY <1>2 DEF Restart
  <1>3. ASSUME NEW u \in Puts, SetPolicy(u) PROVE PolicyEnforced'
    BY <1>3 DEF SetPolicy, requestVars
  <1>4. ASSUME NEW g \in Registrations, NEW k \in Asks, CheckName(g, k) PROVE PolicyEnforced'
    BY <1>4 DEF CheckName, Begin, End
  <1>5. ASSUME NEW g \in Registrations, ReadPolicy(g) PROVE PolicyEnforced'
    BY <1>5 DEF ReadPolicy, Approve, End
  <1>6. ASSUME NEW g \in Registrations, ReadFallback(g) PROVE PolicyEnforced'
    BY <1>6 DEF ReadFallback, Approve, End
  <1>7. ASSUME NEW g \in Registrations, UpsertAgent(g) PROVE PolicyEnforced'
    BY <1>7 DEF UpsertAgent, WriteRow, End
  <1>8. ASSUME NEW g \in Registrations, SignVC(g) PROVE PolicyEnforced'
    BY <1>8 DEF SignVC
  <1>9. ASSUME NEW g \in Registrations, StoreVC(g) PROVE PolicyEnforced'
    BY <1>9 DEF StoreVC, End
  <1>10. CASE UNCHANGED vars
    BY <1>10 DEF vars, requestVars
  <1> QED
    BY <1>1, <1>2, <1>3, <1>4, <1>5, <1>6, <1>7, <1>8, <1>9, <1>10 DEF Next

LEMMA VCStep == TypeOK /\ VCInTheMaking /\ VCsOfAcceptedRows /\ [Next]_vars => (VCInTheMaking /\ VCsOfAcceptedRows)'
  <1> SUFFICES ASSUME TypeOK, VCInTheMaking, VCsOfAcceptedRows, [Next]_vars PROVE (VCInTheMaking /\ VCsOfAcceptedRows)'
    OBVIOUS
  <1> USE BootAssumption
      DEF VCInTheMaking, VCsOfAcceptedRows, TypeOK, Registrations, Open, InFlight, VC
  <1>1. ASSUME Tick PROVE (VCInTheMaking /\ VCsOfAcceptedRows)'
    BY <1>1 DEF Tick, requestVars
  <1>2. ASSUME Restart PROVE (VCInTheMaking /\ VCsOfAcceptedRows)'
    BY <1>2 DEF Restart
  <1>3. ASSUME NEW u \in Puts, SetPolicy(u) PROVE (VCInTheMaking /\ VCsOfAcceptedRows)'
    BY <1>3 DEF SetPolicy, requestVars
  <1>4. ASSUME NEW g \in Registrations, NEW k \in Asks, CheckName(g, k) PROVE (VCInTheMaking /\ VCsOfAcceptedRows)'
    BY <1>4 DEF CheckName, Begin, End
  <1>5. ASSUME NEW g \in Registrations, ReadPolicy(g) PROVE (VCInTheMaking /\ VCsOfAcceptedRows)'
    BY <1>5 DEF ReadPolicy, Approve, End
  <1>6. ASSUME NEW g \in Registrations, ReadFallback(g) PROVE (VCInTheMaking /\ VCsOfAcceptedRows)'
    BY <1>6 DEF ReadFallback, Approve, End
  <1>7. ASSUME NEW g \in Registrations, UpsertAgent(g) PROVE (VCInTheMaking /\ VCsOfAcceptedRows)'
    BY <1>7 DEF UpsertAgent, WriteRow, End
  <1>8. ASSUME NEW g \in Registrations, SignVC(g) PROVE (VCInTheMaking /\ VCsOfAcceptedRows)'
    BY <1>8 DEF SignVC
  <1>9. ASSUME NEW g \in Registrations, StoreVC(g) PROVE (VCInTheMaking /\ VCsOfAcceptedRows)'
    BY <1>9 DEF StoreVC, End
  <1>10. CASE UNCHANGED vars
    BY <1>10 DEF vars, requestVars
  <1> QED
    BY <1>1, <1>2, <1>3, <1>4, <1>5, <1>6, <1>7, <1>8, <1>9, <1>10 DEF Next

LEMMA OrderlyStep == TypeOK /\ Orderly /\ [Next]_vars => Orderly'
  <1> SUFFICES ASSUME TypeOK, Orderly, [Next]_vars PROVE Orderly'
    OBVIOUS
  <1> USE BootAssumption, BoundsAssumption
      DEF Orderly, TypeOK, Registrations, Open, InFlight, VC
  <1>1. ASSUME Tick PROVE Orderly'
    BY <1>1 DEF Tick, requestVars
  <1>2. ASSUME Restart PROVE Orderly'
    BY <1>2 DEF Restart
  <1>3. ASSUME NEW u \in Puts, SetPolicy(u) PROVE Orderly'
    BY <1>3 DEF SetPolicy, requestVars
  <1>4. ASSUME NEW g \in Registrations, NEW k \in Asks, CheckName(g, k) PROVE Orderly'
    BY <1>4 DEF CheckName, Begin, End, Quiet
  <1>5. ASSUME NEW g \in Registrations, ReadPolicy(g) PROVE Orderly'
    BY <1>5 DEF ReadPolicy, Approve, End
  <1>6. ASSUME NEW g \in Registrations, ReadFallback(g) PROVE Orderly'
    BY <1>6 DEF ReadFallback, Approve, End
  <1>7. ASSUME NEW g \in Registrations, UpsertAgent(g) PROVE Orderly'
    BY <1>7 DEF UpsertAgent, WriteRow, End
  <1>8. ASSUME NEW g \in Registrations, SignVC(g) PROVE Orderly'
    BY <1>8 DEF SignVC
  <1>9. ASSUME NEW g \in Registrations, StoreVC(g) PROVE Orderly'
    <2>1. IsFiniteSet(vcs')
      BY <1>9, FS_AddElement DEF StoreVC
    <2> QED
      BY <1>9, <2>1 DEF StoreVC, End
  <1>10. CASE UNCHANGED vars
    BY <1>10 DEF vars, requestVars
  <1> QED
    BY <1>1, <1>2, <1>3, <1>4, <1>5, <1>6, <1>7, <1>8, <1>9, <1>10 DEF Next

LEMMA CertifiedStep == TypeOK /\ Orderly /\ RowsCertified /\ [Next]_vars => RowsCertified'
  <1> SUFFICES ASSUME TypeOK, Orderly, RowsCertified, [Next]_vars PROVE RowsCertified'
    OBVIOUS
  <1> USE BootAssumption, BoundsAssumption
      DEF RowsCertified, Youngest, Orderly, TypeOK, Registrations, Open, InFlight, VC
  <1>1. ASSUME Tick PROVE RowsCertified'
    BY <1>1 DEF Tick, requestVars
  <1>2. ASSUME Restart PROVE RowsCertified'
    BY <1>2 DEF Restart
  <1>3. ASSUME NEW u \in Puts, SetPolicy(u) PROVE RowsCertified'
    BY <1>3 DEF SetPolicy, requestVars
  <1>4. ASSUME NEW g \in Registrations, NEW k \in Asks, CheckName(g, k) PROVE RowsCertified'
    BY <1>4 DEF CheckName, Begin, End, Quiet
  <1>5. ASSUME NEW g \in Registrations, ReadPolicy(g) PROVE RowsCertified'
    BY <1>5 DEF ReadPolicy, Approve, End
  <1>6. ASSUME NEW g \in Registrations, ReadFallback(g) PROVE RowsCertified'
    BY <1>6 DEF ReadFallback, Approve, End
  <1>7. ASSUME NEW g \in Registrations, UpsertAgent(g) PROVE RowsCertified'
    BY <1>7 DEF UpsertAgent, WriteRow, End
  <1>8. ASSUME NEW g \in Registrations, SignVC(g) PROVE RowsCertified'
    BY <1>8 DEF SignVC
  <1>9. ASSUME NEW g \in Registrations, StoreVC(g) PROVE RowsCertified'
    BY <1>9 DEF StoreVC, End
  <1>10. CASE UNCHANGED vars
    BY <1>10 DEF vars, requestVars
  <1> QED
    BY <1>1, <1>2, <1>3, <1>4, <1>5, <1>6, <1>7, <1>8, <1>9, <1>10 DEF Next

LEMMA Agreement == TypeOK /\ Orderly /\ RowsCertified => ReadersAgree
  <1> SUFFICES ASSUME TypeOK, Orderly, RowsCertified, NEW a \in DOMAIN agents \ raced,
                      Quiet(a), Cardinality(Latest(a)) <= 1
               PROVE TargetCaps(a) = {agents[a].caps}
    BY DEF ReadersAgree
  <1>1. PICK v \in vcs : Youngest(a, v) /\ v.caps = agents[a].caps
    BY DEF RowsCertified, Quiet, InFlight, Open
  <1>2. v \in Latest(a)
    BY <1>1 DEF Youngest, Latest
  <1>3. IsFiniteSet(Latest(a))
    BY FS_Subset DEF Latest, Orderly
  <1>4. Cardinality(Latest(a)) = 1
    BY <1>2, <1>3, FS_CardinalityType, FS_EmptySet
  <1>5. Latest(a) = {v}
    BY <1>2, <1>3, <1>4, FS_Singleton
  <1> QED
    BY <1>1, <1>5 DEF TargetCaps

LEMMA StepIInv == IInv /\ [Next]_vars => IInv'
  BY TypeStep, NamesStep, OfferedStep, PolicyStep, VCStep, OrderlyStep, CertifiedStep DEF IInv

\* The invariant holds always: what register_agent and the startup leave between
\* any two statements.
THEOREM Invariance == Spec => []IInv
  BY InitIInv, StepIInv, PTL DEF Spec

\* The tables, requests and bounds keep their types.
THEOREM TypeCorrect == Spec => []TypeOK
  <1>1. IInv => TypeOK
    BY DEF IInv
  <1> QED
    BY Invariance, <1>1, PTL

\* Two agents never hold one name, whatever registrations, restarts and policy
\* updates come between the look-up of a name and the write of the row.
THEOREM NamesStayUnique == Spec => []NamesUnique
  <1>1. IInv => NamesUnique
    BY DEF IInv
  <1> QED
    BY Invariance, <1>1, PTL

\* What is granted and certified was allowed by a policy of the agent's type while
\* it was being registered.
THEOREM PolicyIsEnforced == Spec => []PolicyEnforced
  <1>1. IInv => PolicyEnforced
    BY DEF IInv
  <1> QED
    BY Invariance, <1>1, PTL

\* A VC certifies only what a row of its agent held.
THEOREM VCsCertifyRows == Spec => []VCsOfAcceptedRows
  <1>1. IInv => VCsOfAcceptedRows
    BY DEF IInv
  <1> QED
    BY Invariance, <1>1, PTL

\* For an agent whose registrations did not overlap, discovery and authorization
\* answer from the same capabilities.
THEOREM ReadersStayTogether == Spec => []ReadersAgree
  <1>1. IInv => ReadersAgree
    BY Agreement DEF IInv
  <1> QED
    BY Invariance, <1>1, PTL

-----------------------------------------------------------------------------
(* How far the finding about VCIsEquivalent goes.                          *)

\* A row holds what a registration of its agent was granted.
RowsAccepted == \A a \in DOMAIN agents : [agent |-> a, caps |-> agents[a].caps] \in accepted

LEMMA RowsAcceptedStep == TypeOK /\ RowsAccepted /\ [Next]_vars => RowsAccepted'
  <1> SUFFICES ASSUME TypeOK, RowsAccepted, [Next]_vars PROVE RowsAccepted'
    OBVIOUS
  <1>1. ASSUME NEW g \in Registrations, NEW caps, WriteRow(g, caps)
        PROVE RowsAccepted'
    BY <1>1 DEF RowsAccepted, WriteRow
  <1>2. ASSUME UNCHANGED <<agents, accepted>>
        PROVE RowsAccepted'
    BY <1>2 DEF RowsAccepted
  <1>3. ASSUME NEW g \in Registrations, UpsertAgent(g)
        PROVE RowsAccepted'
    BY <1>1, <1>2, <1>3 DEF UpsertAgent
  <1>4. ASSUME NEW g \in Registrations,
               \/ \E k \in Asks : CheckName(g, k)
               \/ ReadPolicy(g) \/ ReadFallback(g) \/ SignVC(g) \/ StoreVC(g)
        PROVE UNCHANGED <<agents, accepted>>
    BY <1>4 DEF CheckName, ReadPolicy, ReadFallback, SignVC, StoreVC
  <1>5. ASSUME Tick \/ Restart \/ \E u \in Puts : SetPolicy(u)
        PROVE UNCHANGED <<agents, accepted>>
    BY <1>5 DEF Tick, Restart, SetPolicy
  <1> QED
    BY <1>2, <1>3, <1>4, <1>5 DEF Next, vars

TargetsGranted ==
  \A a \in DOMAIN agents : \A caps \in TargetCaps(a) : [agent |-> a, caps |-> caps] \in accepted

\* However registrations overlap, are cut short or fall into one second: what
\* authorize takes for an agent's capabilities is what the policy granted that
\* agent in one of its registrations, never another agent's nor a mixture.
THEOREM TargetsStayGranted == Spec => []TargetsGranted
  <1>1. Init => RowsAccepted
    BY DEF Init, RowsAccepted
  <1>2. IInv /\ RowsAccepted => TargetsGranted
    BY DEF IInv, VCsOfAcceptedRows, RowsAccepted, TargetsGranted, TargetCaps, Latest
  <1> QED
    BY <1>1, <1>2, RowsAcceptedStep, Invariance, PTL DEF Spec, IInv
=============================================================================
