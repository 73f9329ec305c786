----------------------------- MODULE AuditTrailProofs -----------------------------
(***************************************************************************)
(* Proofs about AuditTrail, for any users, agents, traces and requests and *)
(* for chains of any length.                                               *)
(*                                                                         *)
(* The ten places where a handler starts to record a decision are brought  *)
(* to one form first (Begun): what is to be written are the hops a request *)
(* brings along, marked as such, and then the hop of the decision, unless  *)
(* its caller's own root hop stands for it.  Nothing is assumed of relayed *)
(* chains, so all arguments are about the hops that are not so marked: the *)
(* hop of a decision is always the last to be written, and hops and rows   *)
(* can be counted against each other (CountsFine).                         *)
(***************************************************************************)
EXTENDS AuditTrail, SequenceTheorems, FiniteSetTheorems, TLAPS

\* The hops each trace shows.
Shown == [tr \in TraceIds |-> {chain[tr][j].hop : j \in DOMAIN chain[tr]}]

OwnHop(k) == [from |-> k.caller, to |-> k.target, what |-> "allow"]

AskFine(r, k) ==
  /\ k.root => k.chain = <<>>
  /\ ~k.root => k.trace # None

AsksFine ==
  \A r \in Requests : IF stage[r] = "idle" THEN events[r] = "none" ELSE AskFine(r, ask[r])

\* The last hop of a chain that is handed on is one the gateway added: when it is an
\* allowed call, the trace shows it, or the caller's own root hop is before it.
LastShown(tr, c) ==
  LET n == Len(c)
  IN n > 0 /\ c[n].what = "allow" => c[n] \in Shown[tr] \/ OwnRoot(c[n].from, SubSeq(c, 1, n - 1))

HandedFine == \A h \in handed : LastShown(h.trace, h.chain)

\* What is to be written for a request k: hops it brought along, then the hop of the
\* decision.
HopsFine(k, w) ==
  /\ \A j \in 1 .. Len(w.hops) : ~w.hops[j].seed => j = Len(w.hops) /\ w.hops[j].hop.what = w.row
  /\ (w.row = "deny" \/ AllowShown(k)) /\ w.hops # <<>> => ~w.hops[Len(w.hops)].seed
  /\ w.row = "allow" /\ ~AllowShown(k) => \A j \in 1 .. Len(w.hops) : w.hops[j].seed

\* What comes then for request r.
NextFine(r, k, w, next) ==
  /\ next = "mint" => /\ ~k.root /\ w.row = "allow"
                      /\ AllowShown(k) /\ w.hops # <<>> => w.hops[Len(w.hops)].hop = OwnHop(k)
  /\ next = "forward" => k.root /\ w.row = "allow"
  /\ next = "fail" => ~k.root
  /\ w.trace # TraceOf(r, k) =>
       w.trace = OwnTrace(r, k) /\ k.root /\ k.trace = None /\ w.row = "deny" /\ next = "answer"

WorkFine ==
  loop # None =>
    /\ HopsFine(ask[loop], work)
    /\ NextFine(loop, ask[loop], work, then)
    /\ then = "mint" /\ work.hops = <<>> /\ AllowShown(ask[loop]) =>
         OwnHop(ask[loop]) \in Shown[work.trace]

\* Rows and the event of a request.
EventFine(r) ==
  /\ \A i \in 1 .. Len(rows[r]) : rows[r][i].what = "allow" => events[r] = "allow"
  /\ stage[r] \in {"verified", "forwarded"} => events[r] = "allow"
  /\ stage[r] \in {"idle", "verified"} => rows[r] = <<>>
  /\ loop = r /\ events[r] # "allow" =>
       rows[r] = <<>> /\ work.row = "deny" /\ then = "answer" /\ (events[r] = "none" => ~ask[r].root)
  /\ stage[r] = "answered" /\ events[r] # "allow" =>
       Len(rows[r]) = 1 /\ rows[r][1].what = "deny" /\ (events[r] = "none" => ~ask[r].root)

EventsFine == \A r \in Requests : EventFine(r)

\* Rows and the traces of a request.
TraceFine(r) ==
  /\ stage[r] \in {"writing", "forwarded"} =>
       \A i \in 1 .. Len(rows[r]) : rows[r][i].trace = TraceOf(r, ask[r])
  /\ loop = r /\ work.trace # TraceOf(r, ask[r]) => rows[r] = <<>>
  /\ stage[r] # "idle" => \A i \in 1 .. Len(rows[r]) :
       \/ rows[r][i].trace = TraceOf(r, ask[r])
       \/ ask[r].root /\ ask[r].trace = None /\ Len(rows[r]) = 1 /\ rows[r][i].what = "deny"

TracesFine == \A r \in Requests : TraceFine(r)

What == {"allow", "deny"}

\* Rows of each request and decision, hops of each trace, request and decision.
RowCount == [r \in Requests |-> [what \in What |-> RowsOf(r, what)]]
HopCount == [tr \in TraceIds |-> [r \in Requests |-> [what \in What |-> HopsIn(tr, r, what)]]]
HopSum(r, k, what) ==
  HopCount[TraceOf(r, k)][r][what] +
    (IF OwnTrace(r, k) = TraceOf(r, k) THEN 0 ELSE HopCount[OwnTrace(r, k)][r][what])

\* Decisions whose rows and hops are counted against each other.
Counted(k) == {"deny"} \cup (IF AllowShown(k) THEN {"allow"} ELSE {})

CountFine(r) ==
  /\ stage[r] = "idle" => \A tr \in TraceIds, what \in What : HopCount[tr][r][what] = 0
  /\ stage[r] # "idle" => \A what \in Counted(ask[r]) :
       /\ stage[r] \in {"verified", "forwarded", "answered"} =>
            HopSum(r, ask[r], what) = RowCount[r][what]
       /\ stage[r] = "writing" =>
            HopSum(r, ask[r], what) = RowCount[r][what] + (IF work.row = what /\ work.hops = <<>> THEN 1 ELSE 0)
       /\ stage[r] = "lost" =>
            \/ HopSum(r, ask[r], what) = RowCount[r][what]
            \/ HopSum(r, ask[r], what) = RowCount[r][what] + 1
  /\ stage[r] # "idle" /\ ~AllowShown(ask[r]) => HopSum(r, ask[r], "allow") = 0

CountsFine == \A r \in Requests : CountFine(r)

\* Types and what the counting does not need.
Fine ==
  /\ TypeOK
  /\ AsksFine
  /\ HandedFine
  /\ WorkFine

\* The inductive invariant.
IInv ==
  /\ Fine
  /\ EventsFine
  /\ TracesFine
  /\ CountsFine

-----------------------------------------------------------------------------
(* Sequences and traces.                                                   *)

LEMMA TraceTypes ==
  ASSUME NEW r \in Requests, NEW k \in Ask
  PROVE TraceOf(r, k) \in TraceIds /\ OwnTrace(r, k) \in TraceIds
  BY DEF TraceOf, OwnTrace, TraceIds, Ask

LEMMA RootHopType ==
  ASSUME NEW k \in Ask
  PROVE /\ RootHop(k) \in Hop /\ RootHop(k).what = "root" /\ RootHop(k).from \in Users
        /\ <<RootHop(k)>> \in Chain
  BY DEF RootHop, Ask, Hop, Actors, Chain

LEMMA EmptyChain ==
  <<>> \in Chain
  BY DEF Chain

LEMMA OwnHopType ==
  ASSUME NEW k \in Ask
  PROVE OwnHop(k) \in Hop /\ OwnHop(k).what = "allow"
  BY DEF OwnHop, Ask, Hop, Actors

\* A chain that is extended ends in the new hop, with the old chain before it.
LEMMA ChainExtended ==
  ASSUME NEW c \in Chain, NEW h \in Hop
  PROVE /\ Append(c, h) \in Chain /\ Len(Append(c, h)) = Len(c) + 1 /\ Len(c) \in Nat
        /\ Append(c, h)[Len(c) + 1] = h
        /\ SubSeq(Append(c, h), 1, Len(c)) = c
  <1> DEFINE d == Append(c, h)
             n == Len(c)
  <1>1. /\ d \in Seq(Hop) /\ Len(d) = n + 1 /\ n \in Nat /\ d[n + 1] = h
        /\ \A i \in 1 .. n : d[i] = c[i]
    BY AppendProperties, LenProperties DEF Chain
  <1> HIDE DEF d, n
  <1>2. \A i \in 1 .. n : d[i] \in Hop
    BY <1>1, ElementOfSeq
  <1>3. /\ SubSeq(d, 1, n) \in Seq(Hop) /\ Len(SubSeq(d, 1, n)) = n
        /\ \A i \in 1 .. n : SubSeq(d, 1, n)[i] = c[i]
    BY <1>1, <1>2, SubSeqProperties
  <1>4. SubSeq(d, 1, n) = c
    BY <1>3, SeqEqual DEF Chain, n
  <1> QED
    BY <1>1, <1>4 DEF Chain, d, n

LEMMA ChainOnType ==
  ASSUME NEW k \in Ask
  PROVE ChainOn(k) \in Chain
  <1>1. ASSUME ~k.root PROVE ChainOn(k) \in Chain
    <2>1. OwnHop(k) \in Hop /\ k.chain \in Chain
      BY OwnHopType DEF Ask
    <2>2. ChainOn(k) = Append(k.chain, OwnHop(k))
      BY <1>1 DEF ChainOn, OwnHop
    <2> QED
      BY <2>1, <2>2, ChainExtended
  <1> QED
    BY <1>1, RootHopType DEF ChainOn

\* The last hop of an envelope that is forwarded.
LEMMA ChainOnLast ==
  ASSUME NEW tr \in TraceIds, NEW k \in Ask,
         ~k.root => OwnHop(k) \in Shown[tr] \/ ~AllowShown(k)
  PROVE LastShown(tr, ChainOn(k))
  <1>1. CASE k.root
    <2>1. ChainOn(k) = <<RootHop(k)>> /\ RootHop(k).what = "root"
      BY <1>1, RootHopType DEF ChainOn
    <2> QED
      BY <2>1 DEF LastShown
  <1>2. CASE ~k.root
    <2>1. OwnHop(k) \in Hop /\ k.chain \in Chain /\ OwnHop(k).from = k.caller
      BY OwnHopType DEF Ask, OwnHop
    <2>2. ChainOn(k) = Append(k.chain, OwnHop(k))
      BY <1>2 DEF ChainOn, OwnHop
    <2>3. ~AllowShown(k) => OwnRoot(k.caller, k.chain)
      BY <1>2 DEF AllowShown
    <2> DEFINE c == ChainOn(k)
    <2>4. /\ Len(c) = Len(k.chain) + 1 /\ Len(k.chain) \in Nat /\ c[Len(c)] = OwnHop(k)
          /\ SubSeq(c, 1, Len(c) - 1) = k.chain
      BY <2>1, <2>2, ChainExtended
    <2> HIDE DEF c
    <2> QED
      BY <1>2, <2>1, <2>3, <2>4 DEF LastShown, c
  <1> QED
    BY <1>1, <1>2

\* What one record writes: hops that are brought along, and then the hop h of the
\* decision, if it is shown.
RecordOf(hs, h, shown) ==
  /\ hs \in Seq(Entry)
  /\ \A j \in 1 .. Len(hs) : ~hs[j].seed => j = Len(hs) /\ hs[j].hop = h
  /\ IF shown THEN hs # <<>> /\ ~hs[Len(hs)].seed ELSE \A j \in 1 .. Len(hs) : hs[j].seed

LEMMA HopsFacts ==
  ASSUME TypeOK, NEW tr \in TraceIds, NEW k \in Ask, NEW caller \in Actors, NEW relayed \in Chain,
         NEW decision \in {"allow", "deny"}
  PROVE RecordOf(Hops(tr, k, caller, relayed, decision),
                 [from |-> caller, to |-> k.target, what |-> decision],
                 decision = "deny" \/ ~OwnRoot(caller, relayed))
  <1> DEFINE h  == [from |-> caller, to |-> k.target, what |-> decision]
             e  == Decided(k, caller, decision)
             s  == Seeds(tr, relayed)
             on == IF decision = "allow" /\ OwnRoot(caller, relayed) THEN <<>> ELSE <<e>>
             hs == s \o on
  <1>1. e \in Entry /\ e.hop = h /\ ~e.seed
    BY DEF Decided, Entry, Hop, Actors, Ask
  <1>2. s \in Seq(Entry) /\ \A i \in 1 .. Len(s) : s[i].seed
    <2>1. CASE chain[tr] = <<>>
      <3> DEFINE n == Len(relayed)
                 z == [i \in 1 .. n |-> [hop |-> relayed[i], seed |-> TRUE]]
      <3>1. n \in Nat /\ DOMAIN relayed = 1 .. n /\ \A i \in 1 .. n : relayed[i] \in Hop
        BY LenProperties, ElementOfSeq DEF Chain
      <3>2. s = z
        BY <2>1, <3>1 DEF Seeds
      <3>3. \A i \in 1 .. n : z[i] \in Entry /\ z[i].seed
        BY <3>1 DEF Entry
      <3> HIDE DEF n
      <3>4. z \in Seq(Entry) /\ Len(z) = n
        BY <3>1, <3>3
      <3> QED
        BY <3>2, <3>3, <3>4
    <2>2. CASE chain[tr] # <<>>
      BY <2>2 DEF Seeds
    <2> QED
      BY <2>1, <2>2
  <1>3. on \in Seq(Entry) /\ (IF decision = "deny" \/ ~OwnRoot(caller, relayed) THEN on = <<e>> ELSE on = <<>>)
    BY <1>1
  <1>4. Hops(tr, k, caller, relayed, decision) = hs
    BY DEF Hops
  <1> HIDE DEF h, e, s, on
  <1>5. /\ hs \in Seq(Entry) /\ Len(hs) = Len(s) + Len(on) /\ Len(s) \in Nat
        /\ \A i \in 1 .. Len(s) + Len(on) : hs[i] = IF i <= Len(s) THEN s[i] ELSE on[i - Len(s)]
    BY <1>2, <1>3, ConcatProperties, LenProperties
  <1> HIDE DEF hs
  <1>6. CASE decision = "deny" \/ ~OwnRoot(caller, relayed)
    <2>1. Len(on) = 1 /\ on[1] = e
      BY <1>3, <1>6
    <2>2. Len(hs) = Len(s) + 1 /\ hs[Len(hs)] = e
      BY <1>5, <2>1
    <2>3. \A i \in 1 .. Len(hs) : i # Len(hs) => hs[i].seed
      BY <1>2, <1>5, <2>1, <2>2
    <2>4. hs # <<>>
      BY <1>5, <2>2
    <2> QED
      BY <1>1, <1>4, <1>5, <1>6, <2>2, <2>3, <2>4 DEF h, RecordOf
  <1>7. CASE ~(decision = "deny" \/ ~OwnRoot(caller, relayed))
    <2>1. Len(on) = 0
      BY <1>3, <1>7
    <2>2. \A i \in 1 .. Len(hs) : hs[i].seed
      BY <1>2, <1>5, <2>1
    <2> QED
      BY <1>4, <1>5, <1>7, <2>2 DEF RecordOf
  <1> QED
    BY <1>6, <1>7

\* Only append_chain_hop changes what traces show, and it takes nothing away.
LEMMA WriteHopShows ==
  ASSUME TypeOK, NEW r \in Requests, WriteHop(r)
  PROVE /\ work.trace \in TraceIds /\ Head(work.hops) \in Entry
        /\ Shown' = [Shown EXCEPT ![work.trace] = @ \cup {Head(work.hops).hop}]
  <1> DEFINE tr == work.trace
             c  == [req |-> r, hop |-> Head(work.hops).hop, seed |-> Head(work.hops).seed]
             S  == [req : Requests, hop : Hop, seed : BOOLEAN]
  <1>1. tr \in TraceIds /\ work.hops \in Seq(Entry) /\ work.hops # <<>> /\ chain[tr] \in Seq(S)
    BY NoneAssumption DEF WriteHop, TypeOK
  <1>2. Head(work.hops) \in Entry /\ c \in S
    BY <1>1, HeadTailProperties DEF Entry
  <1>3. chain' = [chain EXCEPT ![tr] = Append(chain[tr], c)]
    BY DEF WriteHop
  <1> HIDE DEF c, S
  <1>4. /\ Append(chain[tr], c) \in Seq(S) /\ DOMAIN Append(chain[tr], c) = 1 .. Len(chain[tr]) + 1
        /\ DOMAIN chain[tr] = 1 .. Len(chain[tr]) /\ Len(chain[tr]) \in Nat
        /\ \A i \in 1 .. Len(chain[tr]) : Append(chain[tr], c)[i] = chain[tr][i]
        /\ Append(chain[tr], c)[Len(chain[tr]) + 1] = c
    BY <1>1, <1>2, AppendProperties, LenProperties
  <1>5. {Append(chain[tr], c)[j].hop : j \in DOMAIN Append(chain[tr], c)}
          = {chain[tr][j].hop : j \in DOMAIN chain[tr]} \cup {c.hop}
    BY <1>4
  <1>6. chain \in [TraceIds -> Seq([req : Requests, hop : Hop, seed : BOOLEAN])]
    BY DEF TypeOK
  <1>7. c.hop = Head(work.hops).hop
    BY DEF c
  <1>8. Shown'[tr] = Shown[tr] \cup {Head(work.hops).hop}
    <2>1. chain'[tr] = Append(chain[tr], c)
      BY <1>1, <1>3, <1>6
    <2>2. Shown'[tr] = {chain'[tr][j].hop : j \in DOMAIN chain'[tr]} /\
             Shown[tr] = {chain[tr][j].hop : j \in DOMAIN chain[tr]}
      BY <1>1 DEF Shown
    <2> QED
      BY <1>5, <1>7, <2>1, <2>2
  <1>9. \A u \in TraceIds \ {tr} : Shown'[u] = Shown[u]
    BY <1>1, <1>3, <1>6 DEF Shown
  <1> QED
    BY <1>1, <1>2, <1>8, <1>9 DEF Shown

LEMMA ShownKept ==
  ASSUME TypeOK, [Next]_vars
  PROVE \A tr \in TraceIds : Shown[tr] \subseteq Shown'[tr]
  <1>1. ASSUME NEW r \in Requests, WriteHop(r) PROVE \A tr \in TraceIds : Shown[tr] \subseteq Shown'[tr]
    BY <1>1, WriteHopShows DEF Shown
  <1>2. UNCHANGED chain => Shown' = Shown
    BY DEF Shown
  <1>3. ~(\E r \in Requests : WriteHop(r)) => UNCHANGED chain
    <2> SUFFICES ASSUME ~(\E r \in Requests : WriteHop(r)) PROVE UNCHANGED chain
      OBVIOUS
    <2>1. Restart \/ UNCHANGED vars => UNCHANGED chain
      BY DEF Restart, vars
    <2>2. ASSUME NEW r \in Requests, NEW k \in Asked,
                 TokenRefused(r, k) \/ TokenAccepted(r, k) \/ TokenRaises(r, k) \/ TargetRefused(r, k)
          PROVE UNCHANGED chain
      BY <2>2 DEF TokenRefused, TokenAccepted, TokenRaises, TargetRefused, Record, RecordIn
    <2>3. ASSUME NEW r \in Requests,
                 RootRefusedEarly(r) \/ GenerationFailed(r) \/ RootRefused(r) \/ RootAllowed(r)
          PROVE UNCHANGED chain
      BY <2>3 DEF RootRefusedEarly, GenerationFailed, RootRefused, RootAllowed, Record, RecordIn
    <2>4. ASSUME NEW r \in Requests, AgentRefused(r) \/ Authorize(r) \/ CallFailed(r) \/ CallCancelled(r)
          PROVE UNCHANGED chain
      BY <2>4 DEF AgentRefused, Authorize, CallFailed, CallCancelled, Record, RecordIn
    <2>5. ASSUME NEW r \in Requests, HandlerRaises(r) \/ WriteRow(r) \/ CallEnded(r)
          PROVE UNCHANGED chain
      BY <2>5 DEF HandlerRaises, WriteRow, CallEnded
    <2> QED
      BY <2>1, <2>2, <2>3, <2>4, <2>5, ZenonT(30) DEF Next
  <1> QED
    BY <1>1, <1>2, <1>3

-----------------------------------------------------------------------------
(* Records.                                                                *)

LEMMA AskedFacts ==
  ASSUME Fine, NEW r \in Requests, NEW k \in Asked
  PROVE k \in Ask /\ AskFine(r, k)
  <1>1. CASE k \in UserAsks
    BY <1>1, EmptyChain DEF UserAsks, Ask, AskFine, TraceIds
  <1>2. ASSUME NEW tr \in Traces \cup {h.trace : h \in handed}, k \in AgentAsks(tr)
        PROVE k \in Ask /\ AskFine(r, k)
    <2>1. tr \in TraceIds
      BY <1>2 DEF Fine, TypeOK, TraceIds
    <2>2. k.chain \in Chain /\ k.trace = tr /\ ~k.root
      BY <1>2, ChainsAssumption DEF AgentAsks
    <2>3. k \in Ask
      BY <1>2, <2>1, <2>2 DEF AgentAsks, Ask
    <2> QED
      BY <2>1, <2>2, <2>3, NoneAssumption DEF AskFine
  <1> QED
    BY <1>1, <1>2 DEF Asked

\* What a request asks has its type.
LEMMA AskFacts ==
  ASSUME Fine, NEW r \in Requests, stage[r] # "idle"
  PROVE /\ ask[r] \in Ask /\ AskFine(r, ask[r])
        /\ ask[r].caller \in Actors /\ ask[r].target \in Actors /\ ask[r].target \in Agents /\
                 ask[r].chain \in Chain
        /\ TraceOf(r, ask[r]) \in TraceIds /\ OwnTrace(r, ask[r]) \in TraceIds
        /\ ask = [ask EXCEPT ![r] = ask[r]]
  <1>1. ask[r] \in Ask /\ AskFine(r, ask[r])
    BY DEF Fine, AsksFine, TypeOK
  <1>2. ask = [ask EXCEPT ![r] = ask[r]]
    BY DEF Fine, TypeOK
  <1>3. /\ ask[r].caller \in Actors /\ ask[r].target \in Actors /\ ask[r].target \in Agents
        /\ ask[r].chain \in Chain
    BY <1>1 DEF Ask, Actors
  <1> QED
    BY <1>1, <1>2, <1>3, TraceTypes

\* Handler r of request k starts to record a decision.
Begun(r, k) ==
  /\ stage[r] \in {"idle", "verified", "forwarded"} /\ stage' = [stage EXCEPT ![r] = "writing"]
  /\ loop = None /\ loop' = r
  /\ UNCHANGED <<chain, rows, handed, restarts>>
  /\ k \in Ask /\ AskFine(r, k) /\ ask' = [ask EXCEPT ![r] = k]
  /\ stage[r] # "idle" => k = ask[r] /\ events' = events
  /\ \E e \in {"none", "deny"} :
       stage[r] = "idle" => /\ events' = [events EXCEPT ![r] = e]
                            /\ e = "none" => ~k.root
                            /\ work'.row = "deny" /\ then' = "answer"
  /\ work' \in [trace : TraceIds, hops : Seq(Entry), row : {"allow", "deny"}] /\ then' \in Thens
  /\ HopsFine(k, work') /\ NextFine(r, k, work', then')
  /\ work'.row = "deny" \/ AllowShown(k) => work'.hops # <<>>
  /\ work'.trace # TraceOf(r, k) => stage[r] = "verified"

LEMMA RecordBegins ==
  ASSUME Fine, NEW r \in Requests, NEW k \in Ask, AskFine(r, k),
         NEW tr \in TraceIds, NEW caller \in Actors, NEW relayed \in Chain,
         NEW decision \in {"allow", "deny"}, NEW next \in Thens,
         RecordIn(r, tr, k, caller, relayed, decision, next),
         stage[r] \in {"idle", "verified", "forwarded"}, ask' = [ask EXCEPT ![r] = k],
         stage[r] # "idle" => k = ask[r] /\ events' = events,
         \E e \in {"none", "deny"} :
           stage[r] = "idle" => events' = [events EXCEPT ![r] = e] /\ (e = "none" => ~k.root)
                                /\ decision = "deny" /\ next = "answer",
         decision = "allow" =>
           caller = k.caller /\ relayed = (IF k.root THEN <<RootHop(k)>> ELSE k.chain),
         next = "mint" => ~k.root /\ decision = "allow",
         next = "forward" => k.root /\ decision = "allow",
         next = "fail" => ~k.root,
         tr # TraceOf(r, k) => /\ tr = OwnTrace(r, k) /\ k.root /\ k.trace = None
                               /\ decision = "deny" /\ next = "answer" /\ stage[r] = "verified"
  PROVE Begun(r, k)
  <1> DEFINE hs == Hops(tr, k, caller, relayed, decision)
             h  == [from |-> caller, to |-> k.target, what |-> decision]
  <1>1. decision = "allow" => h = OwnHop(k) /\ (AllowShown(k) <=> ~OwnRoot(caller, relayed))
    BY DEF OwnHop, AllowShown
  <1>2. RecordOf(hs, h, decision = "deny" \/ ~OwnRoot(caller, relayed))
    BY HopsFacts DEF Fine
  <1>3. work' = [trace |-> tr, hops |-> hs, row |-> decision] /\ then' = next
    BY DEF RecordIn
  <1>4. h.what = decision
    OBVIOUS
  <1> HIDE DEF hs, h
  <1>5. work'.trace = tr /\ work'.hops = hs /\ work'.row = decision
    BY <1>3
  <1>6. /\ hs \in Seq(Entry)
        /\ \A j \in 1 .. Len(hs) : ~hs[j].seed => j = Len(hs) /\ hs[j].hop = h
        /\ decision = "deny" \/ AllowShown(k) => hs # <<>> /\ ~hs[Len(hs)].seed
        /\ decision = "allow" /\ ~AllowShown(k) => \A j \in 1 .. Len(hs) : hs[j].seed
    BY <1>1, <1>2 DEF RecordOf
  <1>7. HopsFine(k, work')
    BY <1>4, <1>5, <1>6 DEF HopsFine
  <1>8. decision = "allow" /\ AllowShown(k) => hs[Len(hs)].hop = OwnHop(k)
    <2> SUFFICES ASSUME decision = "allow", AllowShown(k) PROVE hs[Len(hs)].hop = h
      BY <1>1
    <2>1. Len(hs) \in 1 .. Len(hs)
      BY <1>6, EmptySeq
    <2> QED
      BY <1>6, <2>1
  <1>9. NextFine(r, k, work', then')
    BY <1>3, <1>5, <1>8 DEF NextFine
  <1>10. work' \in [trace : TraceIds, hops : Seq(Entry), row : {"allow", "deny"}]
    BY <1>3, <1>6
  <1>11. work'.row = "deny" \/ AllowShown(k) => work'.hops # <<>>
    BY <1>5, <1>6
  <1> QED
    BY <1>3, <1>5, <1>7, <1>9, <1>10, <1>11 DEF Begun, RecordIn

LEMMA TokenRefusedBegins ==
  ASSUME Fine, NEW r \in Requests, NEW k \in Asked, TokenRefused(r, k)
  PROVE Begun(r, k)
  <1> DEFINE caller == IF k.root THEN Anonymous ELSE k.caller
  <1>1. k \in Ask /\ AskFine(r, k) /\ TraceOf(r, k) \in TraceIds /\ k.chain \in Chain
    BY AskedFacts, TraceTypes DEF Ask
  <1>2. caller \in Actors
    BY <1>1 DEF Ask, Actors
  <1>3. /\ RecordIn(r, TraceOf(r, k), k, caller, k.chain, "deny", "answer")
        /\ stage[r] = "idle" /\ ask' = [ask EXCEPT ![r] = k]
        /\ \E e \in {"none", "deny"} : events' = [events EXCEPT ![r] = e] /\ (e = "none" => ~k.root)
    BY DEF TokenRefused, Take, Record, Event
  <1> HIDE DEF caller
  <1> QED
    BY <1>1, <1>2, <1>3, RecordBegins DEF Thens

LEMMA TargetRefusedBegins ==
  ASSUME Fine, NEW r \in Requests, NEW k \in Asked, TargetRefused(r, k)
  PROVE Begun(r, k)
  <1> DEFINE caller == k.caller
  <1>1. k \in Ask /\ AskFine(r, k) /\ TraceOf(r, k) \in TraceIds /\ k.chain \in Chain
    BY AskedFacts, TraceTypes DEF Ask
  <1>2. caller \in Actors
    BY <1>1 DEF Ask, Actors
  <1>3. /\ RecordIn(r, TraceOf(r, k), k, caller, k.chain, "deny", "answer")
        /\ stage[r] = "idle" /\ ask' = [ask EXCEPT ![r] = k]
        /\ \E e \in {"none", "deny"} : events' = [events EXCEPT ![r] = e] /\ (e = "none" => ~k.root)
    BY DEF TargetRefused, Take, Record, Fine, TypeOK, AsksFine
  <1> HIDE DEF caller
  <1> QED
    BY <1>1, <1>2, <1>3, RecordBegins DEF Thens

LEMMA RootRefusedEarlyBegins ==
  ASSUME Fine, NEW r \in Requests, RootRefusedEarly(r)
  PROVE Begun(r, ask[r])
  <1> DEFINE k == ask[r]
  <1>1. stage[r] \in {"verified", "forwarded"} /\ events' = events /\ ask' = ask
    BY DEF RootRefusedEarly
  <1>2. /\ k \in Ask /\ AskFine(r, k) /\ k.caller \in Actors /\ k.target \in Actors /\ k.chain \in Chain
        /\ TraceOf(r, k) \in TraceIds /\ OwnTrace(r, k) \in TraceIds /\ ask' = [ask EXCEPT ![r] = k]
    BY <1>1, AskFacts
  <1>3. <<>> \in Chain
    BY EmptyChain
  <1>4. RecordIn(r, TraceOf(r, k), k, Anonymous, <<>>, "deny", "answer") /\ k.root
    BY DEF RootRefusedEarly, Record
  <1>5. Anonymous \in Actors
    BY <1>2 DEF Actors
  <1> HIDE DEF k
  <1> QED
    BY <1>1, <1>2, <1>3, <1>4, <1>5, RecordBegins DEF Thens, k

LEMMA GenerationFailedBegins ==
  ASSUME Fine, NEW r \in Requests, GenerationFailed(r)
  PROVE Begun(r, ask[r])
  <1> DEFINE k == ask[r]
  <1>1. stage[r] \in {"verified", "forwarded"} /\ events' = events /\ ask' = ask
    BY DEF GenerationFailed
  <1>2. /\ k \in Ask /\ AskFine(r, k) /\ k.caller \in Actors /\ k.target \in Actors /\ k.chain \in Chain
        /\ TraceOf(r, k) \in TraceIds /\ OwnTrace(r, k) \in TraceIds /\ ask' = [ask EXCEPT ![r] = k]
    BY <1>1, AskFacts
  <1>3. <<>> \in Chain
    BY EmptyChain
  <1>4. RecordIn(r, OwnTrace(r, k), k, k.caller, <<>>, "deny",
     "answer") /\ k.root /\ stage[r] = "verified" /\ (OwnTrace(r, k) # TraceOf(r, k) => k.trace = None)
    BY DEF GenerationFailed, TraceOf, OwnTrace
  <1>5. k.caller \in Actors
    BY <1>2 DEF Actors
  <1> HIDE DEF k
  <1> QED
    BY <1>1, <1>2, <1>3, <1>4, <1>5, RecordBegins DEF Thens, k

LEMMA RootRefusedBegins ==
  ASSUME Fine, NEW r \in Requests, RootRefused(r)
  PROVE Begun(r, ask[r])
  <1> DEFINE k == ask[r]
  <1>1. stage[r] \in {"verified", "forwarded"} /\ events' = events /\ ask' = ask
    BY DEF RootRefused
  <1>2. /\ k \in Ask /\ AskFine(r, k) /\ k.caller \in Actors /\ k.target \in Actors /\ k.chain \in Chain
        /\ TraceOf(r, k) \in TraceIds /\ OwnTrace(r, k) \in TraceIds /\ ask' = [ask EXCEPT ![r] = k]
    BY <1>1, AskFacts
  <1>3. <<RootHop(k)>> \in Chain
    BY <1>2, RootHopType
  <1>4. RecordIn(r, TraceOf(r, k), k, k.caller, <<RootHop(k)>>, "deny", "answer") /\ k.root
    BY DEF RootRefused, Record
  <1>5. k.caller \in Actors
    BY <1>2 DEF Actors
  <1> HIDE DEF k
  <1> QED
    BY <1>1, <1>2, <1>3, <1>4, <1>5, RecordBegins DEF Thens, k

LEMMA RootAllowedBegins ==
  ASSUME Fine, NEW r \in Requests, RootAllowed(r)
  PROVE Begun(r, ask[r])
  <1> DEFINE k == ask[r]
  <1>1. stage[r] \in {"verified", "forwarded"} /\ events' = events /\ ask' = ask
    BY DEF RootAllowed
  <1>2. /\ k \in Ask /\ AskFine(r, k) /\ k.caller \in Actors /\ k.target \in Actors /\ k.chain \in Chain
        /\ TraceOf(r, k) \in TraceIds /\ OwnTrace(r, k) \in TraceIds /\ ask' = [ask EXCEPT ![r] = k]
    BY <1>1, AskFacts
  <1>3. <<RootHop(k)>> \in Chain
    BY <1>2, RootHopType
  <1>4. RecordIn(r, TraceOf(r, k), k, k.caller, <<RootHop(k)>>, "allow", "forward") /\ k.root
    BY DEF RootAllowed, Record
  <1>5. k.caller \in Actors
    BY <1>2 DEF Actors
  <1> HIDE DEF k
  <1> QED
    BY <1>1, <1>2, <1>3, <1>4, <1>5, RecordBegins DEF Thens, k

LEMMA AgentRefusedBegins ==
  ASSUME Fine, NEW r \in Requests, AgentRefused(r)
  PROVE Begun(r, ask[r])
  <1> DEFINE k == ask[r]
  <1>1. stage[r] \in {"verified", "forwarded"} /\ events' = events /\ ask' = ask
    BY DEF AgentRefused
  <1>2. /\ k \in Ask /\ AskFine(r, k) /\ k.caller \in Actors /\ k.target \in Actors /\ k.chain \in Chain
        /\ TraceOf(r, k) \in TraceIds /\ OwnTrace(r, k) \in TraceIds /\ ask' = [ask EXCEPT ![r] = k]
    BY <1>1, AskFacts
  <1>3. RecordIn(r, TraceOf(r, k), k, k.caller, k.chain, "deny", "answer") /\ ~k.root
    BY DEF AgentRefused, Record
  <1>4. k.caller \in Actors
    BY <1>2 DEF Actors
  <1> HIDE DEF k
  <1> QED
    BY <1>1, <1>2, <1>3, <1>4, RecordBegins DEF Thens, k

LEMMA CallFailedBegins ==
  ASSUME Fine, NEW r \in Requests, CallFailed(r)
  PROVE Begun(r, ask[r])
  <1> DEFINE k == ask[r]
  <1>1. stage[r] \in {"verified", "forwarded"} /\ events' = events /\ ask' = ask
    BY DEF CallFailed
  <1>2. /\ k \in Ask /\ AskFine(r, k) /\ k.caller \in Actors /\ k.target \in Actors /\ k.chain \in Chain
        /\ TraceOf(r, k) \in TraceIds /\ OwnTrace(r, k) \in TraceIds /\ ask' = [ask EXCEPT ![r] = k]
    BY <1>1, AskFacts
  <1>3. RecordIn(r, TraceOf(r, k), k, k.caller, k.chain, "deny", "answer") /\ ~k.root
    BY DEF CallFailed, Record
  <1>4. k.caller \in Actors
    BY <1>2 DEF Actors
  <1> HIDE DEF k
  <1> QED
    BY <1>1, <1>2, <1>3, <1>4, RecordBegins DEF Thens, k

LEMMA AuthorizeBegins ==
  ASSUME Fine, NEW r \in Requests, Authorize(r)
  PROVE Begun(r, ask[r])
  <1> DEFINE k == ask[r]
  <1>1. stage[r] \in {"verified", "forwarded"} /\ events' = events /\ ask' = ask
    BY DEF Authorize
  <1>2. /\ k \in Ask /\ AskFine(r, k) /\ k.caller \in Actors /\ k.target \in Actors /\ k.chain \in Chain
        /\ TraceOf(r, k) \in TraceIds /\ OwnTrace(r, k) \in TraceIds /\ ask' = [ask EXCEPT ![r] = k]
    BY <1>1, AskFacts
  <1>3. ~k.root /\ (\/ RecordIn(r, TraceOf(r, k), k, k.caller, k.chain, "allow", "mint")
                    \/ RecordIn(r, TraceOf(r, k), k, k.caller, k.chain, "deny", "answer"))
    BY DEF Authorize, Record
  <1> HIDE DEF k
  <1>4. CASE RecordIn(r, TraceOf(r, k), k, k.caller, k.chain, "allow", "mint")
    BY <1>1, <1>2, <1>3, <1>4, RecordBegins DEF Thens, k
  <1>5. CASE RecordIn(r, TraceOf(r, k), k, k.caller, k.chain, "deny", "answer")
    BY <1>1, <1>2, <1>3, <1>5, RecordBegins DEF Thens, k
  <1> QED
    BY <1>3, <1>4, <1>5

LEMMA CallCancelledBegins ==
  ASSUME Fine, NEW r \in Requests, CallCancelled(r)
  PROVE Begun(r, ask[r])
  <1> DEFINE k == ask[r]
  <1>1. stage[r] \in {"verified", "forwarded"} /\ events' = events /\ ask' = ask
    BY DEF CallCancelled
  <1>2. /\ k \in Ask /\ AskFine(r, k) /\ k.caller \in Actors /\ k.target \in Actors /\ k.chain \in Chain
        /\ TraceOf(r, k) \in TraceIds /\ OwnTrace(r, k) \in TraceIds /\ ask' = [ask EXCEPT ![r] = k]
    BY <1>1, AskFacts
  <1>3. ChainOn(k) \in Chain
    BY <1>2, ChainOnType
  <1>4. CASE k.root
    <2>1. RecordIn(r, TraceOf(r, k), k, k.target, ChainOn(k), "deny", "answer")
      BY <1>4 DEF CallCancelled, Record
    <2> HIDE DEF k
    <2> QED
      BY <1>1, <1>2, <1>3, <1>4, <2>1, RecordBegins DEF Thens, k
  <1>5. CASE ~k.root
    <2>1. RecordIn(r, TraceOf(r, k), k, k.caller, ChainOn(k), "deny", "fail")
      BY <1>5 DEF CallCancelled, Record
    <2> HIDE DEF k
    <2> QED
      BY <1>1, <1>2, <1>3, <1>5, <2>1, RecordBegins DEF Thens, k
  <1> QED
    BY <1>4, <1>5

-----------------------------------------------------------------------------
(* Steps.                                                                  *)

\* Every step begins a record, goes on with one, or records nothing.
LEMMA Classified ==
  ASSUME Fine, [Next]_vars
  PROVE \/ \E r \in Requests :
             \/ \E k \in Ask : Begun(r, k)
             \/ \E k \in Asked : TokenAccepted(r, k) \/ TokenRaises(r, k)
             \/ HandlerRaises(r) \/ CallEnded(r) \/ WriteHop(r) \/ WriteRow(r)
        \/ Restart \/ UNCHANGED vars
  <1>1. ASSUME NEW r \in Requests, NEW k \in Asked, TokenRefused(r, k)
        PROVE \E q \in Requests : \E m \in Ask : Begun(q, m)
    BY <1>1, TokenRefusedBegins DEF Begun
  <1>2. ASSUME NEW r \in Requests, NEW k \in Asked, TargetRefused(r, k)
        PROVE \E q \in Requests : \E m \in Ask : Begun(q, m)
    BY <1>2, TargetRefusedBegins DEF Begun
  <1>3. ASSUME NEW r \in Requests, RootRefusedEarly(r)
        PROVE \E q \in Requests : \E m \in Ask : Begun(q, m)
    BY <1>3, RootRefusedEarlyBegins DEF Begun
  <1>4. ASSUME NEW r \in Requests, GenerationFailed(r)
        PROVE \E q \in Requests : \E m \in Ask : Begun(q, m)
    BY <1>4, GenerationFailedBegins DEF Begun
  <1>5. ASSUME NEW r \in Requests, RootRefused(r) PROVE \E q \in Requests : \E m \in Ask : Begun(q, m)
    BY <1>5, RootRefusedBegins DEF Begun
  <1>6. ASSUME NEW r \in Requests, RootAllowed(r) PROVE \E q \in Requests : \E m \in Ask : Begun(q, m)
    BY <1>6, RootAllowedBegins DEF Begun
  <1>7. ASSUME NEW r \in Requests, AgentRefused(r) PROVE \E q \in Requests : \E m \in Ask : Begun(q, m)
    BY <1>7, AgentRefusedBegins DEF Begun
  <1>8. ASSUME NEW r \in Requests, Authorize(r) PROVE \E q \in Requests : \E m \in Ask : Begun(q, m)
    BY <1>8, AuthorizeBegins DEF Begun
  <1>9. ASSUME NEW r \in Requests, CallFailed(r) PROVE \E q \in Requests : \E m \in Ask : Begun(q, m)
    BY <1>9, CallFailedBegins DEF Begun
  <1>10. ASSUME NEW r \in Requests, CallCancelled(r) PROVE \E q \in Requests : \E m \in Ask : Begun(q, m)
    BY <1>10, CallCancelledBegins DEF Begun
  <1> QED
    BY <1>1, <1>2, <1>3, <1>4, <1>5, <1>6, <1>7, <1>8, <1>9, <1>10 DEF Next

LEMMA WorkTypes ==
  ASSUME TypeOK, NEW r \in Requests, loop = r
  PROVE /\ work \in [trace : TraceIds, hops : Seq(Entry), row : {"allow", "deny"}] /\ then \in Thens
        /\ stage[r] = "writing"
        /\ work.hops # <<>> => /\ Len(work.hops) \in Nat \ {0}
                               /\ Head(work.hops) \in Entry /\ Head(work.hops) = work.hops[1]
                               /\ Tail(work.hops) \in Seq(Entry) /\ Len(Tail(work.hops)) = Len(work.hops) - 1
                               /\ \A i \in 1 .. Len(work.hops) - 1 : Tail(work.hops)[i] = work.hops[i + 1]
                               /\ Tail(work.hops) = <<>> <=> Len(work.hops) = 1
  <1>1. /\ work \in [trace : TraceIds, hops : Seq(Entry), row : {"allow", "deny"}] /\ then \in Thens
        /\ stage[r] = "writing"
    BY NoneAssumption DEF TypeOK
  <1>2. work.hops \in Seq(Entry)
    BY <1>1
  <1> DEFINE s == work.hops
  <1> HIDE DEF s
  <1>3. ASSUME s \in Seq(Entry), s # <<>>
        PROVE /\ Len(s) \in Nat \ {0}
              /\ Head(s) \in Entry /\ Head(s) = s[1]
              /\ Tail(s) \in Seq(Entry) /\ Len(Tail(s)) = Len(s) - 1
              /\ \A i \in 1 .. Len(s) - 1 : Tail(s)[i] = s[i + 1]
              /\ Tail(s) = <<>> <=> Len(s) = 1
    <2>1. /\ Len(s) \in Nat \ {0} /\ Head(s) \in Entry
          /\ Tail(s) \in Seq(Entry) /\ Len(Tail(s)) = Len(s) - 1
          /\ \A i \in 1 .. Len(Tail(s)) : Tail(s)[i] = s[i + 1]
      BY <1>3, HeadTailProperties, EmptySeq
    <2>2. Head(s) = s[1]
      BY <1>3
    <2>3. Tail(s) = <<>> <=> Len(Tail(s)) = 0
      BY <2>1, EmptySeq
    <2> QED
      BY <2>1, <2>2, <2>3
  <1> QED
    BY <1>1, <1>2, <1>3 DEF s

\* The INSERT into audit_logs and what comes then.
LEMMA RowWritten ==
  ASSUME Fine, NEW r \in Requests, WriteRow(r)
  PROVE /\ loop = r /\ work.hops = <<>> /\ stage[r] = "writing" /\ ask[r] \in Ask
        /\ rows' = [rows EXCEPT ![r] = Append(@, [trace |-> work.trace, what |-> work.row])]
        /\ [trace |-> work.trace, what |-> work.row] \in [trace : TraceIds, what : {"allow", "deny"}]
        /\ UNCHANGED <<chain, events, ask, restarts>>
        /\ \/ /\ then \in {"forward", "mint"} /\ Forward(r)
              /\ TraceOf(r, ask[r]) \in TraceIds /\ ChainOn(ask[r]) \in Chain
              /\ LastShown(TraceOf(r, ask[r]), ChainOn(ask[r]))
           \/ /\ then \in {"mint", "fail"} /\ UNCHANGED <<stage, loop, handed>> /\ then' = "answer"
              /\ work' \in [trace : TraceIds, hops : Seq(Entry), row : {"allow", "deny"}]
              /\ work'.row = "deny" /\ work'.hops # <<>> /\ work'.trace = work.trace
              /\ ~ask[r].root /\ work.trace = TraceOf(r, ask[r])
              /\ HopsFine(ask[r], work')
           \/ then = "answer" /\ Answer(r)
  <1> DEFINE k == ask[r]
             hs == Hops(work.trace, k, k.caller, k.chain, "deny")
             h  == [from |-> k.caller, to |-> k.target, what |-> "deny"]
             ok == "deny" = "deny" \/ ~OwnRoot(k.caller, k.chain)
  <1>1. loop = r /\ work.hops = <<>> /\ UNCHANGED <<chain, events, ask, restarts>>
        /\ rows' = [rows EXCEPT ![r] = Append(@, [trace |-> work.trace, what |-> work.row])]
    BY DEF WriteRow
  <1>2. /\ work \in [trace : TraceIds, hops : Seq(Entry), row : {"allow", "deny"}] /\ then \in Thens
        /\ stage[r] = "writing"
    BY <1>1, WorkTypes DEF Fine
  <1>3. /\ k \in Ask /\ AskFine(r, k) /\ k.caller \in Actors /\ k.chain \in Chain
        /\ TraceOf(r, k) \in TraceIds
    BY <1>2, AskFacts
  <1>4. NextFine(r, k, work, then) /\ (then = "mint" /\ AllowShown(k) => OwnHop(k) \in Shown[work.trace])
    BY <1>1, NoneAssumption DEF Fine, WorkFine
  <1>5. CASE then \in {"forward", "mint"} /\ Forward(r)
    <2>1. ~k.root => OwnHop(k) \in Shown[TraceOf(r, k)] \/ ~AllowShown(k)
      BY <1>4, <1>5 DEF NextFine
    <2>2. ChainOn(k) \in Chain /\ LastShown(TraceOf(r, k), ChainOn(k))
      BY <1>3, <2>1, ChainOnType, ChainOnLast
    <2> HIDE DEF k
    <2> QED
      BY <1>1, <1>2, <1>3, <1>5, <2>2 DEF k
  <1>6. CASE /\ work' = [work EXCEPT !.hops = hs, !.row = "deny"]
             /\ then' = "answer" /\ UNCHANGED <<stage, loop, handed>> /\ then \in {"mint", "fail"}
    <2>1. ~k.root /\ work.trace = TraceOf(r, k)
      BY <1>4, <1>6 DEF NextFine
    <2>2. RecordOf(hs, h, ok)
      <3>1. TypeOK
        BY DEF Fine
      <3> QED
        BY <1>2, <1>3, <2>1, <3>1, HopsFacts
    <2>3. h.what = "deny" /\ ok
      OBVIOUS
    <2> HIDE DEF hs, h, ok
    <2>4. work' = [trace |-> work.trace, hops |-> hs, row |-> "deny"]
      BY <1>2, <1>6
    <2>5. work'.hops = hs /\ work'.row = "deny" /\ work'.trace = work.trace
      BY <2>4
    <2>6. HopsFine(k, work') /\ hs # <<>> /\ hs \in Seq(Entry)
      BY <2>2, <2>3, <2>5 DEF HopsFine, RecordOf
    <2> HIDE DEF k
    <2> QED
      BY <1>1, <1>2, <1>3, <1>6, <2>1, <2>4, <2>5, <2>6 DEF k
  <1>7. CASE then = "answer" /\ Answer(r)
    BY <1>1, <1>2, <1>3, <1>7
  <1> QED
    BY <1>5, <1>6, <1>7 DEF WriteRow

\* What WriteRow does to the stages: the request moves on and the event loop is
\* free, or another decision of the same request is to be recorded.
LEMMA RowMoves ==
  ASSUME Fine, NEW r \in Requests, WriteRow(r)
  PROVE /\ loop = r /\ stage[r] = "writing" /\ ask' = ask
        /\ \A q \in Requests : stage[q] = "writing" <=> loop = q
        /\ \/ \E st \in {"forwarded", "answered"} : stage' = [stage EXCEPT ![r] = st] /\ loop' = None
           \/ stage' = stage /\ loop' = loop
  <1>1. TypeOK /\ stage \in [Requests -> Stages]
    BY DEF Fine, TypeOK
  <1>2. loop = r /\ stage[r] = "writing" /\ ask' = ask
    BY RowWritten
  <1>3. \A q \in Requests : stage[q] = "writing" <=> loop = q
    BY <1>1 DEF TypeOK
  <1>4. CASE Forward(r)
    <2>1. stage' = [stage EXCEPT ![r] = "forwarded"] /\ loop' = None
      BY <1>4 DEF Forward
    <2> QED
      BY <1>2, <1>3, <1>4, <2>1
  <1>5. CASE stage' = stage /\ loop' = loop
    BY <1>2, <1>3, <1>5
  <1>6. CASE Answer(r)
    <2>1. stage' = [stage EXCEPT ![r] = "answered"] /\ loop' = None
      BY <1>6 DEF Answer
    <2>2. stage'[r] = "answered"
      BY <1>1, <2>1
    <2> QED
      BY <1>2, <1>3, <2>1, <2>2
  <1> QED
    BY <1>4, <1>5, <1>6, RowWritten, Zenon

LEMMA TypeStep ==
  ASSUME Fine, [Next]_vars
  PROVE TypeOK'
  <1>1. ASSUME NEW r \in Requests, NEW k \in Ask, Begun(r, k) PROVE TypeOK'
    <2>1. TypeOK
      BY DEF Fine
    <2>2. /\ stage' \in [Requests -> Stages] /\ ask' \in [Requests -> Ask \cup {None}]
          /\ \A q \in Requests : stage'[q] # "idle" => ask'[q] \in Ask
      BY <1>1, <2>1 DEF Begun, TypeOK, Stages
    <2>3. loop' = r /\ \A q \in Requests : stage'[q] = "writing" <=> loop' = q
      BY <1>1, <2>1, NoneAssumption DEF Begun, TypeOK
    <2>4. events' \in [Requests -> {"none", "allow", "deny"}]
      BY <1>1, <2>1 DEF Begun, TypeOK
    <2>5. work' \in [trace : TraceIds, hops : Seq(Entry), row : {"allow", "deny"}] /\ then' \in Thens
      BY <1>1 DEF Begun
    <2>6. UNCHANGED <<chain, rows, handed, restarts>>
      BY <1>1 DEF Begun
    <2> QED
      BY <2>1, <2>2, <2>3, <2>4, <2>5, <2>6 DEF TypeOK
  <1>2. ASSUME NEW r \in Requests, NEW k \in Asked, TokenAccepted(r, k) PROVE TypeOK'
    <2>1. TypeOK /\ k \in Ask
      BY AskedFacts DEF Fine
    <2> QED
      BY <1>2, <2>1 DEF TokenAccepted, Take, Event, TypeOK, Stages
  <1>3. ASSUME NEW r \in Requests, NEW k \in Asked, TokenRaises(r, k) PROVE TypeOK'
    <2>1. TypeOK /\ k \in Ask
      BY AskedFacts DEF Fine
    <2> QED
      BY <1>3, <2>1 DEF TokenRaises, Take, TypeOK, Stages
  <1>4. ASSUME NEW r \in Requests, HandlerRaises(r) PROVE TypeOK'
    BY <1>4 DEF HandlerRaises, Fine, TypeOK, Stages
  <1>5. ASSUME NEW r \in Requests, CallEnded(r) PROVE TypeOK'
    BY <1>5 DEF CallEnded, Fine, TypeOK, Stages
  <1>6. ASSUME NEW r \in Requests, WriteHop(r) PROVE TypeOK'
    <2>1. TypeOK /\ loop = r /\ work.hops # <<>>
      BY <1>6 DEF Fine, WriteHop
    <2>2. /\ work \in [trace : TraceIds, hops : Seq(Entry), row : {"allow", "deny"}]
          /\ Head(work.hops) \in Entry /\ Tail(work.hops) \in Seq(Entry)
      BY <2>1, WorkTypes
    <2>3. work' \in [trace : TraceIds, hops : Seq(Entry), row : {"allow", "deny"}]
      BY <1>6, <2>2 DEF WriteHop
    <2>4. chain' \in [TraceIds -> Seq([req : Requests, hop : Hop, seed : BOOLEAN])]
      <3> DEFINE c == [req |-> r, hop |-> Head(work.hops).hop, seed |-> Head(work.hops).seed]
      <3>1. c \in [req : Requests, hop : Hop, seed : BOOLEAN] /\ work.trace \in TraceIds
        BY <2>2 DEF Entry
      <3>2. chain' = [chain EXCEPT ![work.trace] = Append(chain[work.trace], c)]
        BY <1>6 DEF WriteHop
      <3> HIDE DEF c
      <3> QED
        <4> DEFINE S == [req : Requests, hop : Hop, seed : BOOLEAN]
        <4>1. chain \in [TraceIds -> Seq(S)]
          BY <2>1 DEF TypeOK
        <4>2. c \in S
          BY <3>1
        <4> HIDE DEF S
        <4>3. Append(chain[work.trace], c) \in Seq(S)
          BY <3>1, <4>1, <4>2, AppendProperties
        <4>4. chain' \in [TraceIds -> Seq(S)]
          BY <3>2, <4>1, <4>3
        <4> QED
          BY <4>4 DEF S
    <2> QED
      BY <1>6, <2>1, <2>3, <2>4 DEF WriteHop, TypeOK
  <1>7. ASSUME NEW r \in Requests, WriteRow(r) PROVE TypeOK'
    <2> DEFINE row == [trace |-> work.trace, what |-> work.row]
    <2>1. TypeOK /\ loop = r /\ stage[r] = "writing"
      BY <1>7 DEF Fine, WriteRow, TypeOK
    <2>2. rows' \in [Requests -> Seq([trace : TraceIds, what : {"allow", "deny"}])]
      <3>1. row \in [trace : TraceIds, what : {"allow",
         "deny"}] /\ rows' = [rows EXCEPT ![r] = Append(rows[r], row)]
        BY <1>7, RowWritten
      <3> HIDE DEF row
      <3> QED
        BY <2>1, <3>1, AppendProperties DEF TypeOK
    <2>3. handed' \in SUBSET [to : Agents, trace : TraceIds, chain : Chain]
      <3>1. TraceOf(r, ask[r]) \in TraceIds /\ ask[r].target \in Agents
        BY <2>1, AskFacts
      <3>2. CASE Forward(r) /\ ChainOn(ask[r]) \in Chain
        <4>1. [to |-> ask[r].target, trace |-> TraceOf(r, ask[r]), chain |-> ChainOn(ask[r])]
                \in [to : Agents, trace : TraceIds, chain : Chain]
          BY <3>1, <3>2
        <4> QED
          BY <2>1, <3>2, <4>1 DEF Forward, TypeOK
      <3>3. CASE handed' = handed
        BY <2>1, <3>3 DEF TypeOK
      <3> QED
        BY <1>7, <3>2, <3>3, RowWritten DEF Answer
    <2>4. \A q \in Requests : stage'[q] = "writing" <=> loop' = q
      <3>1. stage \in [Requests -> Stages] /\ None \notin Requests
        BY <2>1, NoneAssumption DEF TypeOK
      <3>2. CASE \E st \in {"forwarded", "answered"} : stage' = [stage EXCEPT ![r] = st] /\ loop' = None
        BY <1>7, <3>1, <3>2, RowMoves
      <3>3. CASE stage' = stage /\ loop' = loop
        BY <1>7, <3>3, RowMoves
      <3> QED
        BY <1>7, <3>2, <3>3, RowMoves, Zenon
    <2>5. stage' \in [Requests -> Stages] /\ loop' \in Requests \cup {None}
      <3>1. stage \in [Requests -> Stages] /\ loop \in Requests \cup {None}
        BY <2>1 DEF TypeOK
      <3>2. CASE \E st \in {"forwarded", "answered"} : stage' = [stage EXCEPT ![r] = st] /\ loop' = None
        BY <3>1, <3>2 DEF Stages
      <3>3. CASE stage' = stage /\ loop' = loop
        BY <3>1, <3>3
      <3> QED
        BY <1>7, <3>2, <3>3, RowMoves, Zenon
    <2>6. loop' # None => work' \in [trace : TraceIds, hops : Seq(Entry), row : {"allow",
       "deny"}] /\ then' \in Thens
      BY <1>7, RowWritten DEF Forward, Answer, Thens
    <2>7. \A q \in Requests : stage'[q] # "idle" => ask'[q] \in Ask
      BY <1>7, <2>1, RowWritten DEF Forward, Answer, TypeOK
    <2> QED
      BY <1>7, <2>1, <2>2, <2>3, <2>4, <2>5, <2>6, <2>7, RowWritten DEF TypeOK
  <1>8. ASSUME Restart PROVE TypeOK'
    <2>1. TypeOK
      BY DEF Fine
    <2>2. stage' \in [Requests -> Stages] /\ \A q \in Requests : stage'[q] # "writing" /\
             (stage'[q] # "idle" => stage[q] # "idle")
      BY <1>8, <2>1 DEF Restart, TypeOK, Stages
    <2>3. loop' = None /\ restarts' \in 0 .. MaxRestarts /\ UNCHANGED <<chain, rows, events, ask, handed>>
      BY <1>8, <2>1, MaxRestartsAssumption DEF Restart, TypeOK
    <2> QED
      BY <2>1, <2>2, <2>3, NoneAssumption DEF TypeOK
  <1>9. CASE UNCHANGED vars
    BY <1>9 DEF vars, Fine, TypeOK
  <1> QED
    BY <1>1, <1>2, <1>3, <1>4, <1>5, <1>6, <1>7, <1>8, <1>9, Classified

\* A request keeps what it asks.
AskKept(q) ==
  \/ stage'[q] = "idle" /\ stage[q] = "idle" /\ events'[q] = events[q]
  \/ stage'[q] # "idle" /\ stage[q] # "idle" /\ ask'[q] = ask[q]
  \/ stage'[q] # "idle" /\ stage[q] = "idle" /\ \E k \in Ask : AskFine(q, k) /\ ask'[q] = k

LEMMA AsksKept ==
  ASSUME Fine, NEW q \in Requests, [Next]_vars
  PROVE AskKept(q)
  <1>1. ASSUME NEW r \in Requests, NEW k \in Ask, Begun(r, k) PROVE AskKept(q)
    BY <1>1 DEF Begun, AskKept, Fine, TypeOK
  <1>2. ASSUME NEW r \in Requests, NEW k \in Asked, TokenAccepted(r, k) PROVE AskKept(q)
    <2>1. k \in Ask /\ AskFine(r, k)
      BY AskedFacts DEF Fine
    <2> QED
      BY <1>2, <2>1 DEF TokenAccepted, Take, Event, AskKept, Fine, TypeOK
  <1>3. ASSUME NEW r \in Requests, NEW k \in Asked, TokenRaises(r, k) PROVE AskKept(q)
    <2>1. k \in Ask /\ AskFine(r, k)
      BY AskedFacts DEF Fine
    <2> QED
      BY <1>3, <2>1 DEF TokenRaises, Take, Event, AskKept, Fine, TypeOK
  <1>4. ASSUME NEW r \in Requests, HandlerRaises(r) PROVE AskKept(q)
    BY <1>4 DEF HandlerRaises, AskKept, Fine, TypeOK
  <1>5. ASSUME NEW r \in Requests, CallEnded(r) PROVE AskKept(q)
    BY <1>5 DEF CallEnded, AskKept, Fine, TypeOK
  <1>6. ASSUME NEW r \in Requests, WriteHop(r) PROVE AskKept(q)
    BY <1>6 DEF WriteHop, AskKept, Fine, TypeOK
  <1>7. ASSUME NEW r \in Requests, WriteRow(r) PROVE AskKept(q)
    <2>1. /\ loop = r /\ stage[r] = "writing" /\ ask' = ask /\ events' = events
          /\ stage \in [Requests -> Stages]
          /\ (\E st \in {"forwarded", "answered"} : stage' = [stage EXCEPT ![r] = st]) \/ stage' = stage
      BY <1>7, RowMoves DEF Fine, TypeOK, WriteRow
    <2>2. stage[q] = "idle" <=> stage'[q] = "idle"
      BY <2>1
    <2> QED
      BY <2>1, <2>2 DEF AskKept
  <1>8. ASSUME Restart PROVE AskKept(q)
    BY <1>8 DEF Restart, AskKept, Fine, TypeOK
  <1>9. CASE UNCHANGED vars
    BY <1>9 DEF vars, AskKept
  <1> QED
    BY <1>1, <1>2, <1>3, <1>4, <1>5, <1>6, <1>7, <1>8, <1>9, Classified

LEMMA AsksStep ==
  ASSUME Fine, [Next]_vars
  PROVE AsksFine'
  <1>1. TypeOK /\ AsksFine
    BY DEF Fine
  <1>2. ASSUME NEW q \in Requests, NEW k \in Ask, AskFine(q, k), ask'[q] = k PROVE AskFine(q, ask[q])'
    BY <1>2 DEF AskFine
  <1>3. ASSUME NEW q \in Requests
        PROVE IF stage'[q] = "idle" THEN events'[q] = "none" ELSE AskFine(q, ask[q])'
    <2>1. stage[q] # "idle" => ask[q] \in Ask /\ AskFine(q, ask[q])
      BY <1>1 DEF AsksFine, TypeOK
    <2>2. stage[q] = "idle" => events[q] = "none"
      BY <1>1 DEF AsksFine
    <2>3. AskKept(q)
      BY AsksKept
    <2>4. stage'[q] # "idle" => \E k \in Ask : AskFine(q, k) /\ ask'[q] = k
      BY <2>1, <2>3 DEF AskKept
    <2> QED
      BY <1>2, <2>2, <2>3, <2>4 DEF AskKept
  <1> QED
    BY <1>3 DEF AsksFine

LEMMA HandedStep ==
  ASSUME Fine, [Next]_vars
  PROVE HandedFine'
  <1>1. TypeOK /\ HandedFine
    BY DEF Fine
  <1>2. \A tr \in TraceIds : Shown[tr] \subseteq Shown'[tr]
    BY <1>1, ShownKept
  <1>3. \A h \in handed' : h \in handed \/ (h.trace \in TraceIds /\ LastShown(h.trace, h.chain))
    <2>1. ASSUME NEW r \in Requests, WriteRow(r), NEW h \in handed'
          PROVE h \in handed \/ (h.trace \in TraceIds /\ LastShown(h.trace, h.chain))
      BY <2>1, RowWritten DEF Forward, Answer
    <2>2. UNCHANGED handed \/ \E r \in Requests : WriteRow(r)
      BY Classified DEF Begun, TokenAccepted, TokenRaises, HandlerRaises, CallEnded, WriteHop, Restart,
         vars
    <2> QED
      BY <2>1, <2>2
  <1>4. \A h \in handed : h.trace \in TraceIds /\ LastShown(h.trace, h.chain)
    BY <1>1 DEF TypeOK, HandedFine
  <1> QED
    BY <1>2, <1>3, <1>4 DEF HandedFine, LastShown

LEMMA WorkStep ==
  ASSUME Fine, [Next]_vars
  PROVE WorkFine'
  <1>1. ASSUME NEW r \in Requests, NEW k \in Ask, Begun(r, k) PROVE WorkFine'
    <2>1. /\ loop' = r /\ ask'[r] = k /\ HopsFine(k, work') /\ NextFine(r, k, work', then')
          /\ AllowShown(k) => work'.hops # <<>>
      BY <1>1 DEF Begun, Fine, TypeOK
    <2> QED
      BY <2>1 DEF WorkFine, HopsFine, NextFine, OwnTrace, TraceOf, OwnHop
  <1>2. ASSUME NEW r \in Requests, NEW k \in Asked, TokenAccepted(r, k) PROVE WorkFine'
    BY <1>2 DEF TokenAccepted, WorkFine
  <1>3. ASSUME NEW r \in Requests, NEW k \in Asked, TokenRaises(r, k) PROVE WorkFine'
    BY <1>3 DEF TokenRaises, WorkFine
  <1>4. ASSUME NEW r \in Requests, HandlerRaises(r) PROVE WorkFine'
    BY <1>4 DEF HandlerRaises, WorkFine
  <1>5. ASSUME NEW r \in Requests, CallEnded(r) PROVE WorkFine'
    BY <1>5 DEF CallEnded, WorkFine
  <1>6. ASSUME NEW r \in Requests, WriteHop(r) PROVE WorkFine'
    <2> DEFINE s == work.hops
               k == ask[r]
    <2>1. TypeOK /\ loop = r /\ s # <<>>
      BY <1>6 DEF Fine, WriteHop
    <2>2. /\ work \in [trace : TraceIds, hops : Seq(Entry), row : {"allow", "deny"}]
          /\ Len(s) \in Nat \ {0} /\ Head(s) = s[1] /\ Tail(s) \in Seq(Entry) /\ Len(Tail(s)) = Len(s) - 1
          /\ \A i \in 1 .. Len(s) - 1 : Tail(s)[i] = s[i + 1]
          /\ Tail(s) = <<>> <=> Len(s) = 1
      BY <2>1, WorkTypes
    <2>3. UNCHANGED <<loop, ask, then>> /\ work' = [work EXCEPT !.hops = Tail(s)]
      BY <1>6 DEF WriteHop
    <2>4. work'.hops = Tail(s) /\ work'.row = work.row /\ work'.trace = work.trace
      BY <2>2, <2>3
    <2>5. HopsFine(k, work) /\ NextFine(r, k, work, then)
      BY <2>1, NoneAssumption DEF Fine, WorkFine
    <2>6. Shown' = [Shown EXCEPT ![work.trace] = Shown[work.trace] \cup {s[1].hop}] /\ work.trace \in TraceIds
      BY <1>6, <2>1, <2>2, WriteHopShows
    <2> DEFINE t == Tail(s)
    <2> HIDE DEF s, k, t
    <2>7. /\ \A j \in 1 .. Len(t) : ~t[j].seed => j = Len(t) /\ t[j].hop.what = work.row
          /\ work.row = "allow" /\ ~AllowShown(k) => \A j \in 1 .. Len(t) : t[j].seed
          /\ t # <<>> => t[Len(t)] = s[Len(s)] /\ Len(t) \in 1 .. Len(t)
      <3>1. /\ \A j \in 1 .. Len(s) : ~s[j].seed => j = Len(s) /\ s[j].hop.what = work.row
            /\ work.row = "allow" /\ ~AllowShown(k) => \A j \in 1 .. Len(s) : s[j].seed
        BY <2>5 DEF HopsFine, s
      <3>2. /\ Len(s) \in Nat \ {0} /\ Len(t) = Len(s) - 1
            /\ \A i \in 1 .. Len(s) - 1 : t[i] = s[i + 1]
            /\ t = <<>> <=> Len(s) = 1
        BY <2>2 DEF t
      <3>3. ASSUME NEW j \in 1 .. Len(t) PROVE t[j] = s[j + 1] /\ j + 1 \in 1 .. Len(s)
        BY <3>2
      <3>4. ASSUME NEW j \in 1 .. Len(t), ~t[j].seed PROVE j = Len(t) /\ t[j].hop.what = work.row
        <4>1. j + 1 = Len(s) /\ s[j + 1].hop.what = work.row
          BY <3>1, <3>3, <3>4
        <4> QED
          BY <3>2, <3>3, <4>1
      <3>5. ASSUME t # <<>> PROVE t[Len(t)] = s[Len(s)] /\ Len(t) \in 1 .. Len(t)
        BY <3>2, <3>5
      <3> QED
        BY <3>1, <3>3, <3>4, <3>5
    <2>8. HopsFine(k, work')
      BY <2>4, <2>5, <2>7 DEF HopsFine, s, t
    <2>9. NextFine(r, k, work', then')
      BY <2>3, <2>4, <2>5, <2>7, <2>1 DEF NextFine, s, t
    <2>10. then' = "mint" /\ work'.hops = <<>> /\ AllowShown(k) => OwnHop(k) \in Shown'[work'.trace]
      <3> SUFFICES ASSUME then = "mint", t = <<>>, AllowShown(k) PROVE OwnHop(k) \in Shown'[work.trace]
        BY <2>3, <2>4 DEF t
      <3>1. Len(s) = 1
        BY <2>2 DEF t
      <3>2. s[1].hop = OwnHop(k)
        BY <2>1, <2>5, <3>1 DEF NextFine, s
      <3> QED
        BY <2>6, <3>2 DEF Shown
    <2>11. loop' = r /\ ask'[r] = k
      BY <2>1, <2>3 DEF k
    <2> QED
      BY <2>8, <2>9, <2>10, <2>11 DEF WorkFine, HopsFine, NextFine, OwnTrace, TraceOf, OwnHop
  <1>7. ASSUME NEW r \in Requests, WriteRow(r) PROVE WorkFine'
    <2>1. CASE loop' = None
      BY <2>1 DEF WorkFine
    <2>2. CASE loop' # None
      <3> DEFINE k == ask[r]
      <3>1. /\ loop' = r /\ ask'[r] = k /\ then' = "answer" /\ HopsFine(k, work')
            /\ work'.trace = TraceOf(r, k)
        BY <1>7, <2>2, RowWritten DEF Forward, Answer
      <3>2. NextFine(r, k, work', then')
        BY <3>1 DEF NextFine
      <3> HIDE DEF k
      <3> QED
        BY <3>1, <3>2 DEF WorkFine, HopsFine, NextFine, OwnTrace, TraceOf, OwnHop
    <2> QED
      BY <2>1, <2>2
  <1>8. ASSUME Restart PROVE WorkFine'
    BY <1>8 DEF Restart, WorkFine
  <1>9. CASE UNCHANGED vars
    BY <1>9 DEF vars, Fine, WorkFine, HopsFine, NextFine, Shown
  <1> QED
    BY <1>1, <1>2, <1>3, <1>4, <1>5, <1>6, <1>7, <1>8, <1>9, Classified

LEMMA FineStep ==
  ASSUME Fine, [Next]_vars
  PROVE Fine'
  BY TypeStep, AsksStep, HandedStep, WorkStep DEF Fine

\* The row that is appended comes last.
LEMMA RowAppended ==
  ASSUME Fine, NEW r \in Requests, WriteRow(r)
  PROVE /\ \A q \in Requests \ {r} : rows'[q] = rows[q] /\ stage'[q] = stage[q]
        /\ Len(rows[r]) \in Nat /\ Len(rows'[r]) = Len(rows[r]) + 1
        /\ \A i \in 1 .. Len(rows[r]) : rows'[r][i] = rows[r][i]
        /\ rows'[r][Len(rows[r]) + 1] = [trace |-> work.trace, what |-> work.row]
        /\ rows[r] = <<>> => Len(rows[r]) = 0
  <1> DEFINE row == [trace |-> work.trace, what |-> work.row]
             S   == [trace : TraceIds, what : {"allow", "deny"}]
  <1>1. row \in S /\ rows' = [rows EXCEPT ![r] = Append(rows[r], row)]
    BY RowWritten
  <1>2. rows \in [Requests -> Seq(S)] /\ stage \in [Requests -> Stages]
    BY DEF Fine, TypeOK
  <1>3. \A q \in Requests \ {r} : stage'[q] = stage[q]
    BY <1>2, RowWritten DEF Forward, Answer
  <1> HIDE DEF row, S
  <1>4. /\ Len(rows[r]) \in Nat /\ Len(Append(rows[r], row)) = Len(rows[r]) + 1
        /\ \A i \in 1 .. Len(rows[r]) : Append(rows[r], row)[i] = rows[r][i]
        /\ Append(rows[r], row)[Len(rows[r]) + 1] = row
    BY <1>1, <1>2, AppendProperties, LenProperties
  <1> QED
    BY <1>1, <1>2, <1>3, <1>4 DEF row

LEMMA EventsStep ==
  ASSUME Fine, EventsFine, [Next]_vars
  PROVE EventsFine'
  <1>1. ASSUME NEW r \in Requests, NEW k \in Ask, Begun(r, k) PROVE EventsFine'
    <2> SUFFICES ASSUME NEW q \in Requests PROVE EventFine(q)'
      BY DEF EventsFine
    <2>1. EventFine(q)
      BY DEF EventsFine
    <2>2. CASE q = r
      <3>1. /\ rows'[r] = rows[r] /\ stage'[r] = "writing" /\ ask'[r] = k
            /\ stage[r] \in {"verified", "forwarded"} => events'[r] = "allow"
            /\ stage[r] \notin {"verified", "forwarded"} =>
                 /\ rows[r] = <<>> /\ work'.row = "deny" /\ then' = "answer"
                 /\ events'[r] = "none" => ~k.root
        BY <1>1, <2>1, <2>2 DEF Begun, EventFine, Fine, TypeOK
      <3>2. rows[r] = <<>> => Len(rows[r]) = 0
        OBVIOUS
      <3> QED
        BY <2>1, <2>2, <3>1, <3>2 DEF EventFine
    <2>3. CASE q # r
      BY <1>1, <2>1, <2>3 DEF Begun, EventFine, Fine, TypeOK
    <2> QED
      BY <2>2, <2>3
  <1>2. ASSUME NEW r \in Requests, NEW k \in Asked, TokenAccepted(r, k) PROVE EventsFine'
    <2> SUFFICES ASSUME NEW q \in Requests PROVE EventFine(q)'
      BY DEF EventsFine
    <2>1. EventFine(q)
      BY DEF EventsFine
    <2>2. CASE q = r
      <3>1. /\ rows'[r] = rows[r] /\ rows[r] = <<>> /\ stage'[r] = "verified" /\ events'[r] = "allow"
            /\ loop' = None
        BY <1>2, <2>1, <2>2 DEF TokenAccepted, Take, Event, EventFine, Fine, TypeOK
      <3> QED
        BY <2>2, <3>1, NoneAssumption DEF EventFine
    <2>3. CASE q # r
      BY <1>2, <2>1, <2>3 DEF TokenAccepted, Take, Event, EventFine, Fine, TypeOK
    <2> QED
      BY <2>2, <2>3
  <1>3. ASSUME NEW r \in Requests, NEW k \in Asked, TokenRaises(r, k) PROVE EventsFine'
    <2> SUFFICES ASSUME NEW q \in Requests PROVE EventFine(q)'
      BY DEF EventsFine
    <2>1. EventFine(q)
      BY DEF EventsFine
    <2>2. rows' = rows /\ events' = events /\ loop' = None /\ stage'[q] \in {stage[q],
       "lost"} /\ (stage'[q] # "lost" => ask'[q] = ask[q])
      BY <1>3 DEF TokenRaises, Take, Fine, TypeOK
    <2> QED
      BY <2>1, <2>2, NoneAssumption DEF EventFine
  <1>4. ASSUME NEW r \in Requests, HandlerRaises(r) PROVE EventsFine'
    <2> SUFFICES ASSUME NEW q \in Requests PROVE EventFine(q)'
      BY DEF EventsFine
    <2>1. EventFine(q)
      BY DEF EventsFine
    <2> QED
      BY <1>4, <2>1 DEF HandlerRaises, EventFine, Fine, TypeOK
  <1>5. ASSUME NEW r \in Requests, CallEnded(r) PROVE EventsFine'
    <2> SUFFICES ASSUME NEW q \in Requests PROVE EventFine(q)'
      BY DEF EventsFine
    <2>1. EventFine(q)
      BY DEF EventsFine
    <2> QED
      BY <1>5, <2>1 DEF CallEnded, EventFine, Fine, TypeOK
  <1>6. ASSUME NEW r \in Requests, WriteHop(r) PROVE EventsFine'
    <2> SUFFICES ASSUME NEW q \in Requests PROVE EventFine(q)'
      BY DEF EventsFine
    <2>1. EventFine(q)
      BY DEF EventsFine
    <2>2. TypeOK /\ loop = r
      BY <1>6 DEF Fine, WriteHop
    <2>3. work \in [trace : TraceIds, hops : Seq(Entry), row : {"allow", "deny"}]
      BY <2>2, WorkTypes
    <2>4. work'.row = work.row /\ UNCHANGED <<rows, events, stage, ask, loop, then>>
      BY <1>6, <2>3 DEF WriteHop
    <2> QED
      BY <2>1, <2>4 DEF EventFine
  <1>7. ASSUME NEW r \in Requests, WriteRow(r) PROVE EventsFine'
    <2> SUFFICES ASSUME NEW q \in Requests PROVE EventFine(q)'
      BY DEF EventsFine
    <2>1. EventFine(q)
      BY DEF EventsFine
    <2>2. /\ loop = r /\ stage[r] = "writing" /\ ask' = ask /\ events' = events
          /\ \/ then \in {"forward", "mint"} /\ Forward(r)
             \/ then \in {"mint", "fail"} /\ UNCHANGED <<stage, loop>>
             \/ then = "answer" /\ Answer(r)
      BY <1>7, RowWritten
    <2>3. CASE q = r
      <3>1. events[r] # "allow" => rows[r] = <<>> /\ work.row = "deny" /\ then = "answer" /\
               (events[r] = "none" => ~ask[r].root)
        BY <2>1, <2>2, <2>3 DEF EventFine
      <3>2. \A i \in 1 .. Len(rows'[r]) : rows'[r][i].what = "allow" => events[r] = "allow"
        <4>1. \A i \in 1 .. Len(rows[r]) : rows[r][i].what = "allow" => events[r] = "allow"
          BY <2>1, <2>3 DEF EventFine
        <4>2. \A i \in 1 .. Len(rows'[r]) : i \in 1 .. Len(rows[r]) \/ i = Len(rows[r]) + 1
          BY <1>7, RowAppended
        <4>3. rows'[r][Len(rows[r]) + 1].what = work.row
          BY <1>7, RowAppended
        <4> QED
          BY <1>7, <3>1, <4>1, <4>2, <4>3, RowAppended
      <3>3. stage'[r] = "forwarded" \/ stage'[r] = "writing" \/ stage'[r] = "answered"
        BY <2>2 DEF Forward, Answer, Fine, TypeOK
      <3>4. events[r] # "allow" => stage'[r] = "answered" /\ loop' = None /\ Len(rows'[r]) = 1 /\
               rows'[r][1].what = "deny"
        <4>1. events[r] # "allow" => stage'[r] = "answered" /\ loop' = None
          BY <2>2, <3>1 DEF Answer, Fine, TypeOK
        <4>2. rows'[r][Len(rows[r]) + 1].what = work.row
          BY <1>7, RowAppended
        <4>3. Len(rows'[r]) = Len(rows[r]) + 1 /\ (rows[r] = <<>> => Len(rows[r]) = 0)
          BY <1>7, RowAppended
        <4>4. events[r] # "allow" => Len(rows[r]) = 0
          BY <3>1, <4>3
        <4>5. events[r] # "allow" => Len(rows'[r]) = 1
          BY <4>3, <4>4
        <4> QED
          BY <3>1, <4>1, <4>2, <4>4, <4>5
      <3> QED
        BY <2>2, <2>3, <3>1, <3>2, <3>3, <3>4, NoneAssumption DEF EventFine
    <2>4. CASE q # r
      <3>1. rows'[q] = rows[q] /\ stage'[q] = stage[q] /\ events'[q] = events[q] /\ ask'[q] = ask[q]
        BY <1>7, <2>2, <2>4, RowAppended
      <3>2. loop' # q
        BY <2>2, <2>4, NoneAssumption DEF Forward, Answer
      <3> QED
        BY <2>1, <3>1, <3>2 DEF EventFine
    <2> QED
      BY <2>3, <2>4
  <1>8. ASSUME Restart PROVE EventsFine'
    <2> SUFFICES ASSUME NEW q \in Requests PROVE EventFine(q)'
      BY DEF EventsFine
    <2>1. EventFine(q)
      BY DEF EventsFine
    <2>2. UNCHANGED <<rows, events, ask>> /\ loop' = None /\ stage'[q] \in {stage[q], "lost"}
      BY <1>8 DEF Restart
    <2> QED
      BY <2>1, <2>2, NoneAssumption DEF EventFine
  <1>9. CASE UNCHANGED vars
    BY <1>9 DEF vars, EventsFine, EventFine
  <1> QED
    BY <1>1, <1>2, <1>3, <1>4, <1>5, <1>6, <1>7, <1>8, <1>9, Classified

LEMMA TracesStep ==
  ASSUME Fine, EventsFine, TracesFine, [Next]_vars
  PROVE TracesFine'
  <1>1. ASSUME NEW r \in Requests, NEW k \in Ask, Begun(r, k) PROVE TracesFine'
    <2> SUFFICES ASSUME NEW q \in Requests PROVE TraceFine(q)'
      BY DEF TracesFine
    <2>1. TraceFine(q) /\ EventFine(q)
      BY DEF TracesFine, EventsFine
    <2>2. CASE q = r
      <3>1. /\ rows'[r] = rows[r] /\ stage'[r] = "writing" /\ ask'[r] = k
            /\ rows[r] = <<>> \/ (stage[r] = "forwarded" /\ k = ask[r])
            /\ work'.trace # TraceOf(r, k) => rows[r] = <<>>
        BY <1>1, <2>1, <2>2 DEF Begun, EventFine, Fine, TypeOK
      <3>2. rows[r] = <<>> => Len(rows[r]) = 0
        OBVIOUS
      <3>3. \A i \in 1 .. Len(rows[r]) : rows[r][i].trace = TraceOf(r, k)
        BY <2>1, <2>2, <3>1, <3>2 DEF TraceFine
      <3> QED
        <4>1. stage'[q] = "writing" /\ rows'[q] = rows[r] /\ ask'[q] = k
          BY <2>2, <3>1
        <4>2. TraceOf(q, ask'[q]) = TraceOf(r, k)
          BY <2>2, <4>1
        <4>3. \A i \in 1 .. Len(rows'[q]) : rows'[q][i].trace = TraceOf(q, ask'[q])
          BY <3>3, <4>1, <4>2
        <4>4. work'.trace # TraceOf(q, ask'[q]) => rows'[q] = <<>>
          BY <3>1, <4>1, <4>2
        <4> QED
          BY <4>3, <4>4 DEF TraceFine, TraceOf
    <2>3. CASE q # r
      <3>1. stage \in [Requests -> Stages] /\ ask \in [Requests -> Ask \cup {None}]
        BY DEF Fine, TypeOK
      <3>2. rows'[q] = rows[q] /\ stage'[q] = stage[q] /\ ask'[q] = ask[q] /\ loop' # q
        BY <1>1, <2>3, <3>1 DEF Begun
      <3> QED
        BY <2>1, <3>2 DEF TraceFine, TraceOf
    <2> QED
      BY <2>2, <2>3
  <1>2. ASSUME NEW r \in Requests, NEW k \in Asked, TokenAccepted(r, k) PROVE TracesFine'
    <2> SUFFICES ASSUME NEW q \in Requests PROVE TraceFine(q)'
      BY DEF TracesFine
    <2>1. TraceFine(q) /\ EventFine(q)
      BY DEF TracesFine, EventsFine
    <2>2. /\ rows'[q] = rows[q] /\ loop' = None
          /\ (stage'[q] = stage[q] /\ ask'[q] = ask[q]) \/ (rows[q] = <<>> /\ stage'[q] \in {"verified",
             "lost"})
      BY <1>2, <2>1 DEF TokenAccepted, Take, EventFine, Fine, TypeOK
    <2>3. rows[q] = <<>> => Len(rows[q]) = 0
      OBVIOUS
    <2> QED
      BY <2>1, <2>2, <2>3, NoneAssumption DEF TraceFine, TraceOf
  <1>3. ASSUME NEW r \in Requests, NEW k \in Asked, TokenRaises(r, k) PROVE TracesFine'
    <2> SUFFICES ASSUME NEW q \in Requests PROVE TraceFine(q)'
      BY DEF TracesFine
    <2>1. TraceFine(q) /\ EventFine(q)
      BY DEF TracesFine, EventsFine
    <2>2. /\ rows'[q] = rows[q] /\ loop' = None
          /\ (stage'[q] = stage[q] /\ ask'[q] = ask[q]) \/ (rows[q] = <<>> /\ stage'[q] \in {"verified",
             "lost"})
      BY <1>3, <2>1 DEF TokenRaises, Take, EventFine, Fine, TypeOK
    <2>3. rows[q] = <<>> => Len(rows[q]) = 0
      OBVIOUS
    <2> QED
      BY <2>1, <2>2, <2>3, NoneAssumption DEF TraceFine, TraceOf
  <1>4. ASSUME NEW r \in Requests, HandlerRaises(r) PROVE TracesFine'
    <2> SUFFICES ASSUME NEW q \in Requests PROVE TraceFine(q)'
      BY DEF TracesFine
    <2>1. TraceFine(q) /\ EventFine(q)
      BY DEF TracesFine, EventsFine
    <2>2. UNCHANGED <<rows, ask, loop, work>> /\ stage \in [Requests -> Stages]
      BY <1>4 DEF HandlerRaises, Fine, TypeOK
    <2>3. /\ stage'[q] \in {"writing", "forwarded"} => stage'[q] = stage[q]
          /\ stage'[q] # "idle" => stage[q] # "idle"
      BY <1>4, <2>2 DEF HandlerRaises
    <2>4. rows'[q] = rows[q] /\ ask'[q] = ask[q]
      BY <2>2
    <2> QED
      BY <2>1, <2>2, <2>3, <2>4 DEF TraceFine, TraceOf
  <1>5. ASSUME NEW r \in Requests, CallEnded(r) PROVE TracesFine'
    <2> SUFFICES ASSUME NEW q \in Requests PROVE TraceFine(q)'
      BY DEF TracesFine
    <2>1. TraceFine(q) /\ EventFine(q)
      BY DEF TracesFine, EventsFine
    <2>2. UNCHANGED <<rows, ask, loop, work>> /\ stage \in [Requests -> Stages]
      BY <1>5 DEF CallEnded, Fine, TypeOK
    <2>3. /\ stage'[q] \in {"writing", "forwarded"} => stage'[q] = stage[q]
          /\ stage'[q] # "idle" => stage[q] # "idle"
      BY <1>5, <2>2 DEF CallEnded
    <2>4. rows'[q] = rows[q] /\ ask'[q] = ask[q]
      BY <2>2
    <2> QED
      BY <2>1, <2>2, <2>3, <2>4 DEF TraceFine, TraceOf
  <1>6. ASSUME NEW r \in Requests, WriteHop(r) PROVE TracesFine'
    <2> SUFFICES ASSUME NEW q \in Requests PROVE TraceFine(q)'
      BY DEF TracesFine
    <2>1. TraceFine(q) /\ EventFine(q)
      BY DEF TracesFine, EventsFine
    <2>2. TypeOK /\ loop = r
      BY <1>6 DEF Fine, WriteHop
    <2>3. work \in [trace : TraceIds, hops : Seq(Entry), row : {"allow", "deny"}]
      BY <2>2, WorkTypes
    <2>4. work'.trace = work.trace /\ UNCHANGED <<rows, stage, ask, loop>>
      BY <1>6, <2>3 DEF WriteHop
    <2> QED
      BY <2>1, <2>4 DEF TraceFine, TraceOf
  <1>7. ASSUME NEW r \in Requests, WriteRow(r) PROVE TracesFine'
    <2> SUFFICES ASSUME NEW q \in Requests PROVE TraceFine(q)'
      BY DEF TracesFine
    <2>1. TraceFine(q) /\ EventFine(q)
      BY DEF TracesFine, EventsFine
    <2>2. /\ loop = r /\ stage[r] = "writing" /\ ask' = ask
          /\ \/ then \in {"forward", "mint"} /\ Forward(r)
             \/ then \in {"mint", "fail"} /\ UNCHANGED <<stage, loop>> /\ work'.trace = TraceOf(r, ask[r])
             \/ then = "answer" /\ Answer(r)
      BY <1>7, RowWritten
    <2>3. CASE q = r
      <3>1. NextFine(r, ask[r], work, then)
        BY <2>2, NoneAssumption DEF Fine, WorkFine
      <3>2. /\ \A i \in 1 .. Len(rows[r]) : rows[r][i].trace = TraceOf(r, ask[r])
            /\ work.trace # TraceOf(r, ask[r]) => rows[r] = <<>>
        BY <2>1, <2>2, <2>3 DEF TraceFine
      <3>3. /\ Len(rows[r]) \in Nat /\ Len(rows'[r]) = Len(rows[r]) + 1
            /\ \A i \in 1 .. Len(rows[r]) : rows'[r][i] = rows[r][i]
            /\ rows'[r][Len(rows[r]) + 1].trace = work.trace /\ rows'[r][Len(rows[r]) + 1].what = work.row
            /\ rows[r] = <<>> => Len(rows[r]) = 0
        BY <1>7, RowAppended
      <3>4. CASE work.trace = TraceOf(r, ask[r])
        <4>1. \A i \in 1 .. Len(rows'[r]) : rows'[r][i].trace = TraceOf(r, ask[r])
          <5>1. \A i \in 1 .. Len(rows'[r]) : i \in 1 .. Len(rows[r]) \/ i = Len(rows[r]) + 1
            BY <3>3
          <5> QED
            BY <3>2, <3>3, <3>4, <5>1
        <4>2. loop' = r => work'.trace = TraceOf(r, ask[r])
          BY <2>2, NoneAssumption DEF Forward, Answer
        <4> QED
          BY <2>2, <2>3, <4>1, <4>2 DEF TraceFine, TraceOf
      <3>5. CASE work.trace # TraceOf(r, ask[r])
        <4>1. then = "answer" /\ ask[r].root /\ ask[r].trace = None /\ work.row = "deny"
          BY <3>1, <3>5 DEF NextFine
        <4>2. Len(rows'[r]) = 1 /\ rows'[r][1].what = "deny"
          BY <3>2, <3>3, <3>5, <4>1
        <4>3. loop' = None /\ stage'[r] = "answered"
          BY <2>2, <4>1 DEF Answer, Fine, TypeOK
        <4> QED
          BY <2>2, <2>3, <4>1, <4>2, <4>3, NoneAssumption DEF TraceFine
      <3> QED
        BY <3>4, <3>5
    <2>4. CASE q # r
      <3>1. rows'[q] = rows[q] /\ stage'[q] = stage[q] /\ ask'[q] = ask[q]
        BY <1>7, <2>2, <2>4, RowAppended
      <3>2. loop' # q
        BY <2>2, <2>4, NoneAssumption DEF Forward, Answer
      <3> QED
        BY <2>1, <3>1, <3>2 DEF TraceFine, TraceOf
    <2> QED
      BY <2>3, <2>4
  <1>8. ASSUME Restart PROVE TracesFine'
    <2> SUFFICES ASSUME NEW q \in Requests PROVE TraceFine(q)'
      BY DEF TracesFine
    <2>1. TraceFine(q) /\ EventFine(q)
      BY DEF TracesFine, EventsFine
    <2>2. UNCHANGED <<rows, ask>> /\ loop' = None /\ stage'[q] \in {stage[q],
       "lost"} /\ (stage[q] = "idle" => stage'[q] = "idle")
      BY <1>8 DEF Restart
    <2> QED
      BY <2>1, <2>2, NoneAssumption DEF TraceFine, TraceOf
  <1>9. CASE UNCHANGED vars
    BY <1>9 DEF vars, TracesFine, TraceFine, TraceOf
  <1> QED
    BY <1>1, <1>2, <1>3, <1>4, <1>5, <1>6, <1>7, <1>8, <1>9, Classified

-----------------------------------------------------------------------------
(* Counting.                                                               *)

\* The elements of a sequence that are in T.
Hits(s, T) == Cardinality({i \in DOMAIN s : s[i] \in T})

LEMMA HitsType ==
  ASSUME NEW S, NEW s \in Seq(S), NEW T
  PROVE Hits(s, T) \in Nat /\ (s = <<>> => Hits(s, T) = 0)
  <1> DEFINE A == {i \in DOMAIN s : s[i] \in T}
  <1>1. IsFiniteSet(A) /\ Cardinality(A) \in Nat
    <2>1. Len(s) \in Nat /\ DOMAIN s = 1 .. Len(s)
      BY LenProperties
    <2>2. IsFiniteSet(1 .. Len(s)) /\ A \subseteq 1 .. Len(s)
      BY <2>1, FS_Interval
    <2> HIDE DEF A
    <2> QED
      BY <2>2, FS_Subset, FS_CardinalityType
  <1>2. s = <<>> => A = {}
    OBVIOUS
  <1> HIDE DEF A
  <1>3. s = <<>> => Cardinality(A) = 0
    BY <1>2, FS_EmptySet
  <1> QED
    BY <1>1, <1>3 DEF A, Hits

LEMMA HitsAppend ==
  ASSUME NEW S, NEW s \in Seq(S), NEW x \in S, NEW T
  PROVE Hits(Append(s, x), T) = Hits(s, T) + (IF x \in T THEN 1 ELSE 0)
  <1> DEFINE n == Len(s)
             A == {i \in DOMAIN s : s[i] \in T}
             t == Append(s, x)
             B == {i \in DOMAIN t : t[i] \in T}
  <1>1. /\ n \in Nat /\ DOMAIN s = 1 .. n /\ DOMAIN t = 1 .. n + 1
        /\ \A i \in 1 .. n : t[i] = s[i]
        /\ t[n + 1] = x
    BY AppendProperties, LenProperties
  <1>2. IsFiniteSet(A) /\ Cardinality(A) \in Nat
    <2>1. IsFiniteSet(1 .. n) /\ A \subseteq 1 .. n
      BY <1>1, FS_Interval
    <2> QED
      BY <2>1, FS_Subset, FS_CardinalityType
  <1>3. n + 1 \notin A
    BY <1>1
  <1>4. B = IF x \in T THEN A \cup {n + 1} ELSE A
    BY <1>1
  <1>5. Hits(t, T) = Cardinality(B) /\ Hits(s, T) = Cardinality(A)
    BY DEF Hits
  <1> HIDE DEF A, B, n, t
  <1>6. Cardinality(A \cup {n + 1}) = Cardinality(A) + 1
    BY <1>2, <1>3, FS_AddElement
  <1>7. Cardinality(B) = Cardinality(A) + (IF x \in T THEN 1 ELSE 0)
    BY <1>2, <1>4, <1>6
  <1> QED
    BY <1>5, <1>7 DEF t

LEMMA RowsCounted ==
  ASSUME Fine
  PROVE /\ \A r \in Requests, what \in What : RowCount[r][what] \in Nat
        /\ \A r \in Requests, what \in What : rows[r] = <<>> => RowCount[r][what] = 0
        /\ \A r \in Requests : WriteRow(r) =>
             \A q \in Requests, what \in What :
               RowCount'[q][what] = RowCount[q][what] + (IF q = r /\ work.row = what THEN 1 ELSE 0)
  <1> DEFINE S       == [trace : TraceIds, what : {"allow", "deny"}]
             T(what) == {y \in S : y.what = what}
  <1>1. rows \in [Requests -> Seq(S)]
    BY DEF Fine, TypeOK
  <1>2. ASSUME NEW s \in Seq(S), NEW what \in What
        PROVE Cardinality({i \in DOMAIN s : s[i].what = what}) = Hits(s, T(what))
    <2>1. \A i \in DOMAIN s : s[i] \in S
      <3> HIDE DEF S
      <3> QED
        BY ElementOfSeq, LenProperties
    <2>2. {i \in DOMAIN s : s[i].what = what} = {i \in DOMAIN s : s[i] \in T(what)}
      BY <2>1
    <2> QED
      BY <2>2 DEF Hits
  <1>3. ASSUME NEW q \in Requests, NEW what \in What
        PROVE RowCount[q][what] = Hits(rows[q], T(what))
    <2>1. RowCount[q][what] = Cardinality({i \in DOMAIN rows[q] : rows[q][i].what = what})
      BY DEF RowCount, RowsOf
    <2>2. rows[q] \in Seq(S)
      BY <1>1
    <2> HIDE DEF S, T
    <2> QED
      BY <1>2, <2>1, <2>2
  <1>4. ASSUME NEW q \in Requests, NEW what \in What
        PROVE RowCount[q][what] \in Nat /\ (rows[q] = <<>> => RowCount[q][what] = 0)
    <2>1. rows[q] \in Seq(S)
      BY <1>1
    <2> HIDE DEF S, T
    <2> QED
      BY <1>3, <2>1, HitsType
  <1>5. ASSUME NEW r \in Requests, WriteRow(r), NEW q \in Requests, NEW what \in What
        PROVE RowCount'[q][what] = RowCount[q][what] + (IF q = r /\ work.row = what THEN 1 ELSE 0)
    <2> DEFINE row == [trace |-> work.trace, what |-> work.row]
    <2>1. row \in S /\ rows' = [rows EXCEPT ![r] = Append(rows[r], row)]
      BY <1>5, RowWritten
    <2>2. row \in T(what) <=> work.row = what
      BY <2>1
    <2> HIDE DEF row
    <2>3. RowCount'[q][what] = Cardinality({i \in DOMAIN rows'[q] : rows'[q][i].what = what})
      BY DEF RowCount, RowsOf
    <2>4. rows'[q] = IF q = r THEN Append(rows[r], row) ELSE rows[q]
      BY <1>1, <2>1
    <2>5. rows[q] \in Seq(S) /\ rows'[q] \in Seq(S)
      BY <1>1, <2>1, <2>4, AppendProperties
    <2>6. RowCount'[q][what] = Hits(rows'[q], T(what))
      <3> HIDE DEF S, T
      <3> QED
        BY <1>2, <2>3, <2>5
    <2> HIDE DEF S, T
    <2>7. CASE q = r
      BY <1>3, <2>1, <2>2, <2>4, <2>5, <2>6, <2>7, HitsAppend
    <2>8. CASE q # r
      BY <1>3, <1>4, <2>4, <2>6, <2>8
    <2> QED
      BY <2>7, <2>8
  <1> QED
    BY <1>4, <1>5

\* The next hop to be written is one of a decision `what`.
HopIs(what) == ~Head(work.hops).seed /\ Head(work.hops).hop.what = what

LEMMA HopsCounted ==
  ASSUME Fine
  PROVE /\ \A tr \in TraceIds, q \in Requests, what \in What : HopCount[tr][q][what] \in Nat
        /\ \A r \in Requests : WriteHop(r) =>
             \A tr \in TraceIds, q \in Requests, what \in What :
               HopCount'[tr][q][what]
                 = HopCount[tr][q][what]
                     + (IF q = r /\ tr = work.trace /\ HopIs(what) THEN 1 ELSE 0)
  <1> DEFINE S          == [req : Requests, hop : Hop, seed : BOOLEAN]
             T(q, what) == {y \in S : y.req = q /\ ~y.seed /\ y.hop.what = what}
  <1>1. chain \in [TraceIds -> Seq(S)]
    BY DEF Fine, TypeOK
  <1>2. ASSUME NEW s \in Seq(S), NEW q \in Requests, NEW what \in What
        PROVE Cardinality({i \in DOMAIN s : s[i].req = q /\ ~s[i].seed /\ s[i].hop.what = what}) = Hits(s, T(q, what))
    <2>1. \A i \in DOMAIN s : s[i] \in S
      <3> HIDE DEF S
      <3> QED
        BY ElementOfSeq, LenProperties
    <2>2. {i \in DOMAIN s : s[i].req = q /\ ~s[i].seed /\ s[i].hop.what = what} = {i \in DOMAIN s : s[i] \in T(q, what)}
      BY <2>1
    <2> QED
      BY <2>2 DEF Hits
  <1>3. ASSUME NEW tr \in TraceIds, NEW q \in Requests, NEW what \in What
        PROVE HopCount[tr][q][what] = Hits(chain[tr], T(q, what))
    <2>1. HopCount[tr][q][what] =
             Cardinality({i \in DOMAIN chain[tr] : chain[tr][i].req = q /\ ~chain[tr][i].seed /\ chain[tr][i].hop.what = what})
      BY DEF HopCount, HopsIn
    <2>2. chain[tr] \in Seq(S)
      BY <1>1
    <2> HIDE DEF S, T
    <2> QED
      BY <1>2, <2>1, <2>2
  <1>4. ASSUME NEW tr \in TraceIds, NEW q \in Requests, NEW what \in What
        PROVE HopCount[tr][q][what] \in Nat
    <2>1. chain[tr] \in Seq(S)
      BY <1>1
    <2> HIDE DEF S, T
    <2> QED
      BY <1>3, <2>1, HitsType
  <1>5. ASSUME NEW r \in Requests, WriteHop(r), NEW tr \in TraceIds, NEW q \in Requests, NEW what \in What
        PROVE HopCount'[tr][q][what]
                = HopCount[tr][q][what]
                    + (IF q = r /\ tr = work.trace /\ HopIs(what) THEN 1 ELSE 0)
    <2> DEFINE c == [req |-> r, hop |-> Head(work.hops).hop, seed |-> Head(work.hops).seed]
    <2>1. Head(work.hops) \in Entry /\ work.trace \in TraceIds
      BY <1>5, WriteHopShows DEF Fine
    <2>2. chain' = [chain EXCEPT ![work.trace] = Append(chain[work.trace], c)]
      BY <1>5 DEF WriteHop
    <2>3. c \in S /\ (c \in T(q, what) <=> q = r /\ HopIs(what))
      BY <2>1 DEF HopIs, Entry
    <2> HIDE DEF c
    <2>4. HopCount'[tr][q][what] =
             Cardinality({i \in DOMAIN chain'[tr] : chain'[tr][i].req = q /\ ~chain'[tr][i].seed /\ chain'[tr][i].hop.what = what})
      BY DEF HopCount, HopsIn
    <2>5. chain'[tr] = IF tr = work.trace THEN Append(chain[tr], c) ELSE chain[tr]
      BY <1>1, <2>1, <2>2
    <2>6. chain[tr] \in Seq(S) /\ chain'[tr] \in Seq(S)
      <3> HIDE DEF S
      <3> QED
        BY <1>1, <2>3, <2>5, AppendProperties
    <2>7. HopCount'[tr][q][what] = Hits(chain'[tr], T(q, what))
      <3> HIDE DEF S, T
      <3> QED
        BY <1>2, <2>4, <2>6
    <2> HIDE DEF S, T
    <2>8. CASE tr = work.trace
      BY <1>3, <2>3, <2>5, <2>6, <2>7, <2>8, HitsAppend
    <2>9. CASE tr # work.trace
      BY <1>3, <1>4, <2>5, <2>7, <2>9
    <2> QED
      BY <2>8, <2>9
  <1> QED
    BY <1>4, <1>5

\* Nothing else changes a count.
LEMMA CountsKept ==
  ASSUME TRUE
  PROVE (rows' = rows => RowCount' = RowCount) /\ (chain' = chain => HopCount' = HopCount)
  BY DEF RowCount, RowsOf, HopCount, HopsIn

\* No trace of a request is counted that the request does not write.
LEMMA SumCounted ==
  ASSUME Fine, NEW r \in Requests, WriteHop(r), NEW q \in Requests, stage[q] # "idle", NEW what \in What
  PROVE /\ ask'[q] = ask[q]
        /\ HopSum(q, ask[q], what) \in Nat
        /\ HopSum(q, ask[q], what)'
             = HopSum(q, ask[q], what) + (IF q = r /\ HopIs(what) THEN 1 ELSE 0)
  <1> DEFINE k == ask[q]
             a == TraceOf(q, k)
             b == OwnTrace(q, k)
  <1>1. k \in Ask /\ a \in TraceIds /\ b \in TraceIds /\ ask'[q] = k
    BY AskFacts DEF WriteHop
  <1>2. q = r => work.trace = a \/ work.trace = b
    <2>1. loop = r
      BY DEF WriteHop
    <2>2. NextFine(r, ask[r], work, then)
      BY <2>1, NoneAssumption DEF Fine, WorkFine
    <2> QED
      BY <2>2 DEF NextFine
  <1>3. \A tr \in TraceIds :
          /\ HopCount[tr][q][what] \in Nat
          /\ HopCount'[tr][q][what]
               = HopCount[tr][q][what]
                   + (IF q = r /\ tr = work.trace /\ HopIs(what) THEN 1 ELSE 0)
    BY HopsCounted
  <1>4. HopSum(q, ask[q], what) = HopCount[a][q][what] + (IF b = a THEN 0 ELSE HopCount[b][q][what])
    BY DEF HopSum
  <1>5. HopSum(q, ask[q], what)' = HopCount'[a][q][what] + (IF b = a THEN 0 ELSE HopCount'[b][q][what])
    BY <1>1 DEF HopSum
  <1> HIDE DEF k, a, b
  <1>6. CASE b = a
    BY <1>1, <1>2, <1>3, <1>4, <1>5, <1>6 DEF k
  <1>7. CASE b # a
    BY <1>1, <1>2, <1>3, <1>4, <1>5, <1>7 DEF k
  <1> QED
    BY <1>6, <1>7

LEMMA SumIsNat ==
  ASSUME Fine
  PROVE \A q \in Requests, k \in Ask, what \in What : HopSum(q, k, what) \in Nat
  BY HopsCounted, TraceTypes DEF HopSum

\* A step that changes neither chains nor rows leaves the counts alone.
LEMMA SumKept ==
  ASSUME chain' = chain
  PROVE \A q \in Requests, what \in What :
          ask'[q] = ask[q] => HopSum(q, ask[q], what)' = HopSum(q, ask[q], what)
  BY CountsKept DEF HopSum

LEMMA CountsStep ==
  ASSUME Fine, EventsFine, CountsFine, [Next]_vars
  PROVE CountsFine'
  <1>1. ASSUME NEW r \in Requests, NEW k \in Ask, Begun(r, k) PROVE CountsFine'
    <2> SUFFICES ASSUME NEW q \in Requests PROVE CountFine(q)'
      BY DEF CountsFine
    <2>1. CountFine(q)
      BY DEF CountsFine
    <2>2. TypeOK
      BY DEF Fine

    <2>3. HopCount' = HopCount /\ RowCount' = RowCount
      BY <1>1, CountsKept DEF Begun
    <2>4. CASE q = r
      <3>1. /\ stage[q] \in {"idle", "verified", "forwarded"} /\ stage'[q] = "writing" /\ ask'[q] = k
            /\ stage[q] # "idle" => ask[q] = k
            /\ work'.row = "deny" \/ AllowShown(k) => work'.hops # <<>>
        BY <1>1, <2>2, <2>4 DEF Begun, TypeOK
      <3>2. stage[q] = "idle" => rows[q] = <<>>
        BY DEF EventsFine, EventFine
      <3>3. \A what \in Counted(k) : what \in What /\ (work'.row = what => work'.hops # <<>>)
        BY <3>1 DEF Counted, What
      <3>4. stage[q] = "idle" => \A what \in What : HopSum(q, k, what) = 0 /\ RowCount[q][what] = 0
        BY <2>1, <3>2, RowsCounted, TraceTypes DEF CountFine, HopSum
      <3>5. \A what \in Counted(k) : HopSum(q, k, what) = RowCount[q][what] /\ RowCount[q][what] \in Nat
        BY <2>1, <3>1, <3>3, <3>4, RowsCounted DEF CountFine
      <3>6. ~AllowShown(k) => HopSum(q, k, "allow") = 0
        BY <2>1, <3>1, <3>4 DEF CountFine, What
      <3> QED
        BY <2>3, <3>1, <3>3, <3>5, <3>6 DEF CountFine, HopSum
    <2>5. CASE q # r
      <3>1. stage'[q] = stage[q] /\ ask'[q] = ask[q] /\ stage[q] # "writing"
        BY <1>1, <2>2, <2>5, NoneAssumption DEF Begun, TypeOK
      <3> QED
        BY <2>1, <2>3, <3>1 DEF CountFine, HopSum
    <2> QED
      BY <2>4, <2>5
  <1>2. ASSUME NEW r \in Requests, NEW k \in Asked, TokenAccepted(r, k) PROVE CountsFine'
    <2> SUFFICES ASSUME NEW q \in Requests PROVE CountFine(q)'
      BY DEF CountsFine
    <2>1. CountFine(q)
      BY DEF CountsFine
    <2>2. TypeOK
      BY DEF Fine

    <2>3. HopCount' = HopCount /\ RowCount' = RowCount
      BY <1>2, CountsKept DEF TokenAccepted
    <2>4. CASE q = r
      <3>1. stage[q] = "idle" /\ stage'[q] \in {"verified", "lost"} /\ ask'[q] = k
        BY <1>2, <2>2, <2>4 DEF TokenAccepted, Take, TypeOK
      <3>2. rows[q] = <<>> /\ k \in Ask
        BY <3>1, AskedFacts DEF EventsFine, EventFine
      <3>3. \A what \in What : HopSum(q, k, what) = 0 /\ RowCount[q][what] = 0
        BY <2>1, <3>1, <3>2, RowsCounted, TraceTypes DEF CountFine, HopSum
      <3>4. \A what \in Counted(k) : what \in What
        BY DEF Counted, What
      <3> QED
        BY <2>3, <3>1, <3>3, <3>4 DEF CountFine, HopSum, What
    <2>5. CASE q # r
      <3>1. stage'[q] = stage[q] /\ ask'[q] = ask[q] /\ work' = work
        BY <1>2, <2>2, <2>5 DEF TokenAccepted, Take, TypeOK
      <3> QED
        BY <2>1, <2>3, <3>1 DEF CountFine, HopSum
    <2> QED
      BY <2>4, <2>5
  <1>3. ASSUME NEW r \in Requests, NEW k \in Asked, TokenRaises(r, k) PROVE CountsFine'
    <2> SUFFICES ASSUME NEW q \in Requests PROVE CountFine(q)'
      BY DEF CountsFine
    <2>1. CountFine(q)
      BY DEF CountsFine
    <2>2. TypeOK
      BY DEF Fine

    <2>3. HopCount' = HopCount /\ RowCount' = RowCount
      BY <1>3, CountsKept DEF TokenRaises
    <2>4. CASE q = r
      <3>1. stage[q] = "idle" /\ stage'[q] \in {"verified", "lost"} /\ ask'[q] = k
        BY <1>3, <2>2, <2>4 DEF TokenRaises, Take, TypeOK
      <3>2. rows[q] = <<>> /\ k \in Ask
        BY <3>1, AskedFacts DEF EventsFine, EventFine
      <3>3. \A what \in What : HopSum(q, k, what) = 0 /\ RowCount[q][what] = 0
        BY <2>1, <3>1, <3>2, RowsCounted, TraceTypes DEF CountFine, HopSum
      <3>4. \A what \in Counted(k) : what \in What
        BY DEF Counted, What
      <3> QED
        BY <2>3, <3>1, <3>3, <3>4 DEF CountFine, HopSum, What
    <2>5. CASE q # r
      <3>1. stage'[q] = stage[q] /\ ask'[q] = ask[q] /\ work' = work
        BY <1>3, <2>2, <2>5 DEF TokenRaises, Take, TypeOK
      <3> QED
        BY <2>1, <2>3, <3>1 DEF CountFine, HopSum
    <2> QED
      BY <2>4, <2>5
  <1>4. ASSUME NEW r \in Requests, HandlerRaises(r) PROVE CountsFine'
    <2> SUFFICES ASSUME NEW q \in Requests PROVE CountFine(q)'
      BY DEF CountsFine
    <2>1. CountFine(q)
      BY DEF CountsFine
    <2>2. TypeOK
      BY DEF Fine

    <2>3. HopCount' = HopCount /\ RowCount' = RowCount
      BY <1>4, CountsKept DEF HandlerRaises
    <2>4. /\ \/ stage'[q] = stage[q]
             \/ stage[q] = "verified" /\ stage'[q] = "lost"
             \/ stage[q] = "forwarded" /\ stage'[q] = "answered"
          /\ ask'[q] = ask[q] /\ work' = work
      BY <1>4, <2>2 DEF HandlerRaises, TypeOK
    <2> QED
      BY <2>1, <2>3, <2>4 DEF CountFine, HopSum
  <1>5. ASSUME NEW r \in Requests, CallEnded(r) PROVE CountsFine'
    <2> SUFFICES ASSUME NEW q \in Requests PROVE CountFine(q)'
      BY DEF CountsFine
    <2>1. CountFine(q)
      BY DEF CountsFine
    <2>2. TypeOK
      BY DEF Fine

    <2>3. HopCount' = HopCount /\ RowCount' = RowCount
      BY <1>5, CountsKept DEF CallEnded
    <2>4. /\ \/ stage'[q] = stage[q]
             \/ stage[q] = "verified" /\ stage'[q] = "lost"
             \/ stage[q] = "forwarded" /\ stage'[q] = "answered"
          /\ ask'[q] = ask[q] /\ work' = work
      BY <1>5, <2>2 DEF CallEnded, TypeOK
    <2> QED
      BY <2>1, <2>3, <2>4 DEF CountFine, HopSum
  <1>6. ASSUME NEW r \in Requests, WriteHop(r) PROVE CountsFine'
    <2> SUFFICES ASSUME NEW q \in Requests PROVE CountFine(q)'
      BY DEF CountsFine
    <2>1. CountFine(q)
      BY DEF CountsFine
    <2>2. TypeOK
      BY DEF Fine
    <2>3. RowCount' = RowCount /\ UNCHANGED <<stage, ask>> /\ loop = r /\ work.hops # <<>>
      BY <1>6, CountsKept DEF WriteHop
    <2>4. CASE q = r
      <3> DEFINE s == work.hops
      <3>1. /\ work \in [trace : TraceIds, hops : Seq(Entry), row : {"allow", "deny"}] /\ stage[q] = "writing"
            /\ Len(s) \in Nat \ {0} /\ Head(s) = s[1] /\ (Tail(s) = <<>> <=> Len(s) = 1)
        BY <2>2, <2>3, <2>4, WorkTypes
      <3>2. work'.hops = Tail(s) /\ work'.row = work.row
        BY <1>6, <3>1 DEF WriteHop
      <3>3. HopsFine(ask[q], work)
        BY <2>3, <2>4, NoneAssumption DEF Fine, WorkFine
      <3>4. \A what \in Counted(ask[q]) : what \in What /\ (what = "deny" \/ AllowShown(ask[q]))
        BY DEF Counted, What
      <3>5. ASSUME NEW what \in Counted(ask[q])
            PROVE HopIs(what) <=> work.row = what /\ Tail(s) = <<>>
        <4> HIDE DEF s
        <4>1. HopIs(what) <=> ~s[1].seed /\ s[1].hop.what = what
          BY <3>1 DEF HopIs, s
        <4>2. ASSUME ~s[1].seed, s[1].hop.what = what PROVE Len(s) = 1 /\ work.row = what
          BY <3>1, <3>3, <4>2 DEF HopsFine, s
        <4>3. ASSUME work.row = what, Len(s) = 1 PROVE ~s[1].seed /\ s[1].hop.what = what
          BY <2>3, <3>3, <3>4, <4>3 DEF HopsFine, s
        <4> QED
          BY <3>1, <4>1, <4>2, <4>3
      <3>6. ASSUME NEW what \in What
            PROVE HopSum(q, ask[q], what)'
                    = HopSum(q, ask[q], what) + (IF HopIs(what) THEN 1 ELSE 0)
        BY <1>6, <2>4, <3>1, SumCounted
      <3>7. \A what \in Counted(ask[q]) :
              HopSum(q, ask[q], what) = RowCount[q][what] /\ RowCount[q][what] \in Nat
        BY <2>1, <2>3, <3>1, <3>4, RowsCounted DEF CountFine
      <3>8. \A what \in Counted(ask[q]) :
              HopSum(q, ask[q], what)'
                = RowCount[q][what] + (IF work'.row = what /\ work'.hops = <<>> THEN 1 ELSE 0)
        BY <3>2, <3>4, <3>5, <3>6, <3>7
      <3>9. ~AllowShown(ask[q]) => HopSum(q, ask[q], "allow")' = 0
        <4> SUFFICES ASSUME ~AllowShown(ask[q]) PROVE HopSum(q, ask[q], "allow")' = 0
          OBVIOUS
        <4>1. HopSum(q, ask[q], "allow") = 0
          BY <2>1, <3>1 DEF CountFine
        <4>2. ~HopIs("allow")
          <5> HIDE DEF s
          <5>1. ASSUME ~s[1].seed PROVE s[1].hop.what # "allow"
            BY <3>1, <3>3, <5>1 DEF HopsFine, s
          <5> QED
            BY <3>1, <5>1 DEF HopIs, s
        <4> QED
          BY <3>6, <4>1, <4>2 DEF What
      <3> HIDE DEF s
      <3> QED
        BY <2>3, <3>1, <3>8, <3>9 DEF CountFine
    <2>5. CASE q # r
      <3>1. stage[q] # "writing"
        BY <2>2, <2>3, <2>5 DEF TypeOK
      <3>2. CASE stage[q] = "idle"
        <4>1. \A tr \in TraceIds, what \in What : HopCount'[tr][q][what] = 0
          BY <1>6, <2>1, <2>5, <3>2, HopsCounted DEF CountFine
        <4> QED
          BY <2>3, <3>2, <4>1 DEF CountFine
      <3>3. CASE stage[q] # "idle"
        <4>1. \A what \in Counted(ask[q]) : what \in What
          BY DEF Counted, What
        <4>2. \A what \in What : HopSum(q, ask[q], what)' = HopSum(q, ask[q], what)
          <5> SUFFICES ASSUME NEW what \in What
                PROVE HopSum(q, ask[q], what)' = HopSum(q, ask[q], what)
            OBVIOUS
          <5>1. HopSum(q, ask[q], what) \in Nat /\ HopSum(q, ask[q], what)' = HopSum(q, ask[q], what) + 0
            BY <1>6, <2>5, <3>3, SumCounted
          <5> QED
            BY <5>1
        <4> QED
          BY <2>1, <2>3, <3>1, <3>3, <4>1, <4>2 DEF CountFine, What
      <3> QED
        BY <3>2, <3>3
    <2> QED
      BY <2>4, <2>5
  <1>7. ASSUME NEW r \in Requests, WriteRow(r) PROVE CountsFine'
    <2> SUFFICES ASSUME NEW q \in Requests PROVE CountFine(q)'
      BY DEF CountsFine
    <2>1. CountFine(q)
      BY DEF CountsFine
    <2>2. TypeOK
      BY DEF Fine
    <2>3. /\ HopCount' = HopCount /\ ask' = ask /\ loop = r /\ work.hops = <<>> /\ stage[r] = "writing"
          /\ \/ Forward(r) \/ Answer(r) \/ (UNCHANGED <<stage, loop>> /\ work'.hops # <<>>)
      BY <1>7, RowWritten, CountsKept
    <2>4. \A what \in What : /\ RowCount[q][what] \in Nat
                             /\ RowCount'[q][what] = RowCount[q][what] + (IF q = r /\ work.row = what THEN 1 ELSE 0)
      BY <1>7, RowsCounted
    <2>5. \A what \in Counted(ask[q]) : what \in What
      BY DEF Counted, What
    <2>6. CASE q = r
      <3>1. stage'[q] \in {"forwarded", "answered"} \/ (stage'[q] = "writing" /\ work'.hops # <<>>)
        BY <2>2, <2>3, <2>6 DEF Forward, Answer, TypeOK
      <3>2. \A what \in Counted(ask[q]) : HopSum(q, ask[q],
         what) = RowCount'[q][what] /\ RowCount'[q][what] \in Nat
        BY <2>1, <2>3, <2>4, <2>5, <2>6 DEF CountFine
      <3>3. ~AllowShown(ask[q]) => HopSum(q, ask[q], "allow") = 0
        BY <2>1, <2>3, <2>6 DEF CountFine
      <3> QED
        BY <2>3, <3>1, <3>2, <3>3 DEF CountFine, HopSum
    <2>7. CASE q # r
      <3>1. stage'[q] = stage[q] /\ stage[q] # "writing"
        BY <1>7, <2>2, <2>3, <2>7, RowAppended DEF TypeOK
      <3>2. \A what \in Counted(ask[q]) : RowCount'[q][what] = RowCount[q][what]
        BY <2>4, <2>5, <2>7
      <3> QED
        BY <2>1, <2>3, <3>1, <3>2 DEF CountFine, HopSum
    <2> QED
      BY <2>6, <2>7
  <1>8. ASSUME Restart PROVE CountsFine'
    <2> SUFFICES ASSUME NEW q \in Requests PROVE CountFine(q)'
      BY DEF CountsFine
    <2>1. CountFine(q)
      BY DEF CountsFine
    <2>2. TypeOK
      BY DEF Fine

    <2>3. HopCount' = HopCount /\ RowCount' = RowCount
      BY <1>8, CountsKept DEF Restart
    <2>4. ask'[q] = ask[q]
      BY <1>8 DEF Restart
    <2>5. \/ stage[q] \notin {"verified", "writing", "forwarded"} /\ stage'[q] = stage[q]
          \/ stage[q] \in {"verified", "writing", "forwarded"} /\ stage'[q] = "lost"
      BY <1>8 DEF Restart
    <2>6. \A what \in Counted(ask[q]) : RowCount[q][what] \in Nat
      BY RowsCounted DEF Counted, What
    <2> QED
      BY <2>1, <2>3, <2>4, <2>5, <2>6 DEF CountFine, HopSum
  <1>9. CASE UNCHANGED vars
    BY <1>9, CountsKept DEF vars, CountsFine, CountFine, HopSum
  <1> QED
    BY <1>1, <1>2, <1>3, <1>4, <1>5, <1>6, <1>7, <1>8, <1>9, Classified

-----------------------------------------------------------------------------
(* The invariant and the theorems.                                         *)

LEMMA InitIInv ==
  ASSUME Init
  PROVE IInv
  <1> USE DEF Init
  <1>1. chain \in [TraceIds -> Seq([req : Requests, hop : Hop, seed : BOOLEAN])] /\ \A tr \in TraceIds : chain[tr] = <<>>
    OBVIOUS
  <1>2. /\ rows \in [Requests -> Seq([trace : TraceIds, what : {"allow", "deny"}])]
        /\ \A r \in Requests : rows[r] = <<>> /\ Len(rows[r]) = 0
    OBVIOUS
  <1>3. TypeOK
    BY <1>1, <1>2, MaxRestartsAssumption, NoneAssumption DEF TypeOK, Stages
  <1>4. AsksFine /\ HandedFine /\ WorkFine
    BY DEF AsksFine, HandedFine, WorkFine
  <1>5. EventsFine
    BY <1>2, NoneAssumption DEF EventsFine, EventFine
  <1>6. TracesFine
    BY <1>2, NoneAssumption DEF TracesFine, TraceFine
  <1>7. CountsFine
    <2> SUFFICES ASSUME NEW tr \in TraceIds, NEW r \in Requests, NEW what \in What
          PROVE HopCount[tr][r][what] = 0
      BY DEF CountsFine, CountFine
    <2>1. {i \in DOMAIN chain[tr] : chain[tr][i].req = r /\ ~chain[tr][i].seed /\ chain[tr][i].hop.what = what} = {}
      BY <1>1
    <2>2. HopsIn(tr, r, what) = 0
      BY <2>1, FS_EmptySet DEF HopsIn
    <2> QED
      BY <2>2 DEF HopCount
  <1> QED
    BY <1>3, <1>4, <1>5, <1>6, <1>7 DEF IInv, Fine

LEMMA StepIInv ==
  ASSUME IInv, [Next]_vars
  PROVE IInv'
  BY FineStep, EventsStep, TracesStep, CountsStep DEF IInv

\* The inductive invariant holds throughout.
THEOREM Invariance == Spec => []IInv
  BY InitIInv, StepIInv, PTL DEF Spec

\* Chains, rows, events and the requests in the making have their types, and one
\* decision at most is being recorded (the handlers share one event loop).
THEOREM TypeCorrect == Spec => []TypeOK
  <1>1. IInv => TypeOK
    BY DEF IInv, Fine
  <1> QED
    BY <1>1, Invariance, PTL

LEMMA ShownHandedHops ==
  ASSUME IInv
  PROVE HandedHopsRecorded
  <1> SUFFICES ASSUME NEW h \in handed, NEW i \in DOMAIN h.chain, h.chain[i].what = "allow",
                      NEW g \in handed, g.trace = h.trace, g.chain = SubSeq(h.chain, 1, i),
                      ~OwnRoot(h.chain[i].from, SubSeq(h.chain, 1, i - 1))
               PROVE \E j \in DOMAIN chain[h.trace] : chain[h.trace][j].hop = h.chain[i]
    BY DEF HandedHopsRecorded
  <1> DEFINE c == h.chain
             d == SubSeq(c, 1, i)
  <1>1. h.trace \in TraceIds /\ c \in Seq(Hop) /\ LastShown(h.trace, d)
    BY DEF IInv, Fine, TypeOK, HandedFine, Chain
  <1>2. i \in 1 .. Len(c) /\ Len(c) \in Nat
    BY <1>1, LenProperties
  <1> HIDE DEF c
  <1>3. \A j \in 1 .. i : c[j] \in Hop
    BY <1>1, <1>2, ElementOfSeq
  <1>4. d \in Seq(Hop) /\ Len(d) = i /\ \A j \in 1 .. i : d[j] = c[j]
    BY <1>2, <1>3, SubSeqProperties
  <1>5. SubSeq(d, 1, i - 1) = SubSeq(c, 1, i - 1)
    <2> DEFINE n == i - 1
    <2>1. n \in Nat /\ \A j \in 1 .. n : d[j] \in Hop /\ c[j] \in Hop /\ d[j] = c[j]
      BY <1>2, <1>3, <1>4
    <2> HIDE DEF d, n
    <2>2. /\ SubSeq(d, 1, n) \in Seq(Hop) /\ Len(SubSeq(d, 1, n)) = n
          /\ \A j \in 1 .. n : SubSeq(d, 1, n)[j] = d[j]
      BY <2>1, SubSeqProperties
    <2>3. /\ SubSeq(c, 1, n) \in Seq(Hop) /\ Len(SubSeq(c, 1, n)) = n
          /\ \A j \in 1 .. n : SubSeq(c, 1, n)[j] = c[j]
      BY <2>1, SubSeqProperties
    <2>4. SubSeq(d, 1, n) = SubSeq(c, 1, n)
      BY <2>1, <2>2, <2>3, SeqEqual
    <2> QED
      BY <2>4 DEF n
  <1>6. c[i].what = "allow" /\ ~OwnRoot(c[i].from, SubSeq(c, 1, i - 1))
    BY DEF c
  <1> HIDE DEF d
  <1>7. c[i] \in Shown[h.trace]
    <2>1. Len(d) > 0 /\ d[Len(d)] = c[i]
      BY <1>2, <1>4
    <2>2. SubSeq(d, 1, Len(d) - 1) = SubSeq(c, 1, i - 1)
      BY <1>4, <1>5
    <2> QED
      BY <1>1, <1>6, <2>1, <2>2, Zenon DEF LastShown
  <1> QED
    BY <1>1, <1>7 DEF Shown, c

\* Whatever an agent was handed, the allowed hops of it that the gateway added stand
\* in the chain of its trace (append_chain_hop comes before forward_to_agent),
\* across restarts and whatever hops the requests brought along.
THEOREM HandedHopsStand == Spec => []HandedHopsRecorded
  BY Invariance, ShownHandedHops, PTL

LEMMA RowsExplained ==
  ASSUME IInv
  PROVE EventsExplainRows
  <1> SUFFICES ASSUME NEW r \in Requests
               PROVE /\ RowsOf(r, "allow") > 0 \/ stage[r] = "forwarded" => events[r] = "allow"
                     /\ stage[r] = "answered" /\ events[r] # "allow" =>
                          /\ Len(rows[r]) = 1 /\ RowsOf(r, "deny") = 1
                          /\ events[r] = "none" => ~ask[r].root
    BY DEF EventsExplainRows
  <1>1. EventFine(r) /\ rows[r] \in Seq([trace : TraceIds, what : {"allow", "deny"}])
    BY DEF IInv, EventsFine, Fine, TypeOK
  <1>2. Len(rows[r]) \in Nat /\ DOMAIN rows[r] = 1 .. Len(rows[r])
    BY <1>1, LenProperties
  <1>3. RowsOf(r, "allow") > 0 => events[r] = "allow"
    <2> SUFFICES ASSUME events[r] # "allow" PROVE ~(RowsOf(r, "allow") > 0)
      OBVIOUS
    <2>1. {i \in DOMAIN rows[r] : rows[r][i].what = "allow"} = {}
      BY <1>1, <1>2 DEF EventFine
    <2>2. RowsOf(r, "allow") = 0
      BY <2>1, FS_EmptySet DEF RowsOf
    <2> QED
      BY <2>2
  <1>4. ASSUME Len(rows[r]) = 1, rows[r][1].what = "deny" PROVE RowsOf(r, "deny") = 1
    <2>1. {i \in DOMAIN rows[r] : rows[r][i].what = "deny"} = {1}
      BY <1>2, <1>4
    <2> QED
      BY <2>1, FS_Singleton DEF RowsOf
  <1> QED
    BY <1>1, <1>3, <1>4 DEF EventFine

\* No call is allowed or handed on without the event of an accepted token, and a
\* refused token leaves its event and one denial (verify_bearer_for_envelope).
THEOREM EventsAreExplained == Spec => []EventsExplainRows
  BY Invariance, RowsExplained, PTL

LEMMA TracesAreOne ==
  ASSUME IInv
  PROVE OneTracePerRequest
  <1> SUFFICES ASSUME NEW r \in Requests, NEW i \in DOMAIN rows[r]
               PROVE \/ rows[r][i].trace = TraceOf(r, ask[r])
                     \/ ask[r].root /\ ask[r].trace = None /\ Len(rows[r]) = 1 /\ rows[r][i].what = "deny"
    BY DEF OneTracePerRequest
  <1>1. /\ EventFine(r) /\ TraceFine(r)
        /\ rows[r] \in Seq([trace : TraceIds, what : {"allow", "deny"}])
    BY DEF IInv, EventsFine, TracesFine, Fine, TypeOK
  <1>2. i \in 1 .. Len(rows[r])
    BY <1>1, LenProperties
  <1>3. rows[r] # <<>>
    BY <1>2
  <1>4. stage[r] # "idle"
    BY <1>1, <1>3 DEF EventFine
  <1> QED
    BY <1>1, <1>2, <1>4 DEF TraceFine

\* The decisions of a request carry the trace id of its envelope, but for the one
\* denial of generate_root_intent when the request names no trace.
THEOREM OneTraceStands == Spec => []OneTracePerRequest
  BY Invariance, TracesAreOne, PTL

LEMMA CountsMatch ==
  ASSUME IInv
  PROVE RowsMatchHops
  <1> SUFFICES ASSUME NEW r \in Requests, stage[r] # "idle", NEW what \in What
               PROVE /\ what = "deny" \/ AllowShown(ask[r]) => RowsOf(r, what) <= HopsOf(r, what)
                     /\ HopsOf(r, what) <= RowsOf(r, what) + (IF stage[r] \in {"writing", "lost"} THEN 1 ELSE 0)
    BY DEF RowsMatchHops, What
  <1>1. Fine /\ CountFine(r) /\ (what \in Counted(ask[r]) <=> what = "deny" \/ AllowShown(ask[r]))
    BY DEF IInv, CountsFine, Counted, What
  <1>2. TraceOf(r, ask[r]) \in TraceIds /\ OwnTrace(r, ask[r]) \in TraceIds
    BY <1>1, AskFacts
  <1>3. RowCount[r][what] = RowsOf(r, what) /\ RowCount[r][what] \in Nat
    BY <1>1, RowsCounted DEF RowCount
  <1>4. HopSum(r, ask[r], what) = HopsOf(r, what)
    BY <1>1, <1>2 DEF HopSum, HopsOf, HopCount
  <1>5. stage[r] \in Stages
    BY <1>1 DEF Fine, TypeOK
  <1>6. CASE what \in Counted(ask[r])
    BY <1>1, <1>3, <1>4, <1>5, <1>6 DEF CountFine, Stages
  <1>7. CASE what \notin Counted(ask[r])
    <2>1. what = "allow" /\ ~AllowShown(ask[r])
      BY <1>1, <1>7 DEF What
    <2>2. HopsOf(r, what) = 0
      BY <1>1, <1>4, <2>1 DEF CountFine
    <2> QED
      BY <1>3, <2>1, <2>2
  <1> QED
    BY <1>6, <1>7

\* Decisions have as many rows in the audit log as hops in the chains, up to the one
\* a restart cut short and to calls for which the caller's own root hop stands;
\* the hops a request brings along are no decisions and count for none.
THEOREM RowsAndHopsMatch == Spec => []RowsMatchHops
  BY Invariance, CountsMatch, PTL

=============================================================================
