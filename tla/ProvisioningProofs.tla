---------------------------- MODULE ProvisioningProofs ----------------------------
(***************************************************************************)
(* Proofs about Provisioning, for any identities, keys and threads.        *)
(* The argument is about stability: once both files of an identity hold    *)
(* keys they hold one pair and nobody writes them again (Pairs), so a      *)
(* document taken from them stays the document of the key that signs       *)
(* (Documents); and a registration that has looked its DID up and has not  *)
(* written yet finds it free or has a rival (Registering).                 *)
(***************************************************************************)
EXTENDS Provisioning, TLAPS

\* What a thread has at hand in each call.
AtHand ==
  \A t \in Threads :
    /\ stage[t] \in {"keys", "build", "prove", "lookup", "upsert", "resolve", "sign"} => who[t] \in Ids
    /\ stage[t] \in {"prove", "upsert"} => doc[t] # None
    /\ stage[t] = "lookup" /\ kind[t] \in {"register", "local"} => doc[t] # None
    /\ stage[t] = "idle" => doc[t] = None
    /\ stage[t] \notin {"keys", "build", "prove", "sign"} => io[t] = "rest"

\* Of an identity whose keys two threads never wrote at once: one writes; its
\* public file is the last to be filled, and filled it stays.
Pairs ==
  \A id \in Ids \ overlapped :
    /\ \A t, u \in Threads : files!Writes(t, id) /\ files!Writes(u, id) => t = u
    /\ pub[id] \in Keys => priv[id] = pub[id] /\ \A t \in Threads : ~files!Writes(t, id)
    /\ \A t \in Threads : who[t] = id /\ io[t] \in {"cutPub", "putPub"} => priv[id] = made[t]

\* A document made from the directory is that of the public file.
Documents ==
  \A id \in Ids \ overlapped :
    /\ docs[id] \in Keys => pub[id] = docs[id]
    /\ \A t \in Threads : who[t] = id /\ doc[t] \in Keys => pub[id] = doc[t]

\* The DID has been looked up and the document is not written.
Past(t) == stage[t] = "upsert" \/ (stage[t] = "build" /\ kind[t] # "local")

Registering ==
  \A t \in Threads : Past(t) =>
    /\ docs[who[t]] # None => who[t] \in contested
    /\ \A u \in Threads : Past(u) /\ u # t /\ who[u] = who[t] => who[t] \in contested

\* Who signs has a document.
Signing ==
  /\ \A t \in Threads : stage[t] \in {"resolve", "sign"} => docs[who[t]] # None
  /\ \A g \in signed : docs[g.by] # None

\* Nobody seeds a list that was never emptied.
Unseeded == ~emptied => caps # {} /\ \A t \in Threads : seeding[t] # "counted"

\* The inductive invariant.
IInv ==
  /\ TypeOK
  /\ AtHand
  /\ Pairs
  /\ Documents
  /\ Registering
  /\ Signing
  /\ Unseeded
  /\ RemovalsHold
  /\ SignaturesVerify

LEMMA InitIInv == Init => IInv
  <1> SUFFICES ASSUME Init PROVE IInv
    OBVIOUS
  <1> USE FilesAssumption, SeedsAssumption, BoundsAssumption, SubjectsAssumption, ClientAssumption
      DEF Init, files!KeyInit, list!ListInit, files!Writing, Ids
  <1>1. files!KeyTypeOK /\ list!ListTypeOK
    BY DEF files!KeyTypeOK, list!ListTypeOK
  <1>2. TypeOK
    BY <1>1 DEF TypeOK, Stages, Kinds, Document
  <1>3. AtHand /\ Registering /\ Signing /\ SignaturesVerify
    BY DEF AtHand, Registering, Past, Signing, SignaturesVerify
  <1>4. Pairs /\ Documents
    BY DEF Pairs, Documents, files!Writes
  <1>5. Unseeded /\ RemovalsHold
    BY DEF Unseeded, RemovalsHold, list!RemovalsHold, list!Conflict
  <1> QED
    BY <1>2, <1>3, <1>4, <1>5 DEF IInv

LEMMA TypeStep == TypeOK /\ AtHand /\ [Next]_vars => TypeOK'
  <1> SUFFICES ASSUME TypeOK, AtHand, [Next]_vars PROVE TypeOK'
    OBVIOUS
  <1> USE FilesAssumption, SeedsAssumption, BoundsAssumption, SubjectsAssumption, ClientAssumption
      DEF TypeOK, files!KeyTypeOK, list!ListTypeOK, files!Writing, Document, Ids, keyVars, listVars,
          requestVars, Stages, Kinds, AtHand
  <1>1. ASSUME NEW t \in Threads, NEW id \in Ids, NEW k \in ClientKeys, StartRegister(t, id, k)
        PROVE TypeOK'
    BY <1>1 DEF StartRegister, Starts
  <1>2. ASSUME NEW t \in Threads, NEW id \in Ids, NEW what \in Kinds, StartWithKeys(t, what, id)
        PROVE TypeOK'
    BY <1>2 DEF StartWithKeys, Starts, files!Ensure, files!Goto
  <1>3. ASSUME NEW t \in Threads, StartAgent(t) PROVE TypeOK'
    BY <1>3 DEF StartAgent, Starts, SystemFirst
  <1>4. ASSUME NEW t \in Threads, NEW id \in Ids, StartToken(t, id) PROVE TypeOK'
    BY <1>4 DEF StartToken, Starts
  <1>5. ASSUME NEW t \in Threads, NEW first \in {"create", "delete"}, StartCapability(t, first)
        PROVE TypeOK'
    BY <1>5 DEF StartCapability, Starts
  <1>6. ASSUME NEW t \in Threads, NEW stopped \in SUBSET Threads, Restart(t, stopped) PROVE TypeOK'
    BY <1>6 DEF Restart, OfClient, files!Stop, SystemFirst
  <1>7. ASSUME NEW t \in Threads, KeyStep(t) PROVE TypeOK'
    BY <1>7, SMTT(30) DEF KeyStep, files!Check, files!Write, files!Present, files!Fresh, files!Goto
  <1>8. ASSUME NEW t \in Threads, KeysEnsured(t) PROVE TypeOK'
    BY <1>8 DEF KeysEnsured, files!Leave, files!Goto, Goes, Ends
  <1>9. ASSUME NEW t \in Threads, BuildDocument(t) PROVE TypeOK'
    BY <1>9 DEF BuildDocument, Parses, Goes, Ends, files!Ensure, files!Goto
  <1>10. ASSUME NEW t \in Threads, Prove(t) PROVE TypeOK'
    BY <1>10 DEF Prove, files!Leave, files!Goto, Goes, Ends
  <1>11. ASSUME NEW t \in Threads, Sign(t) PROVE TypeOK'
    BY <1>11 DEF Sign, files!Leave, files!Goto, Ends
  <1>12. ASSUME NEW t \in Threads, Seeding(t) PROVE TypeOK'
    BY <1>12 DEF Seeding, list!Count, list!Seed
  <1>13. ASSUME NEW t \in Threads, SeedingFails(t) PROVE TypeOK'
    BY <1>13 DEF SeedingFails, StoreStages, list!Done, list!Conflict, Ends
  <1>14. ASSUME NEW t \in Threads, Lookup(t) PROVE TypeOK'
    BY <1>14, SMTT(30) DEF Lookup, list!CallElsewhere, list!Called, list!Done, Unknown, Goes, Ends, files!Goto
  <1>15. ASSUME NEW t \in Threads, Upsert(t) PROVE TypeOK'
    BY <1>15, SMTT(30) DEF Upsert, list!CallElsewhere, list!Called, list!Done, Goes, Ends
  <1>16. ASSUME NEW t \in Threads, Resolve(t) PROVE TypeOK'
    BY <1>16, SMTT(30) DEF Resolve, list!CallElsewhere, list!Called, list!Done, Goes, files!Goto
  <1>17. ASSUME NEW t \in Threads, NEW c \in Names, EditList(t, c) PROVE TypeOK'
    <2>1. CASE list!Add(t, c)
      BY <1>17, <2>1, SMTT(30) DEF EditList, list!Add, list!Called, list!Done, Ends
    <2>2. CASE list!Remove(t, c)
      BY <1>17, <2>2, SMTT(30) DEF EditList, list!Remove, list!Called, list!Done, Ends
    <2> QED
      BY <1>17, <2>1, <2>2, Zenon DEF EditList
  <1>18. CASE UNCHANGED vars
    BY <1>18 DEF vars
  <1> HIDE DEF TypeOK, files!KeyTypeOK, list!ListTypeOK, files!Writing, Document, Ids, keyVars, listVars,
           requestVars, Stages, Kinds, AtHand
  <1> QED
    BY <1>1, <1>2, <1>3, <1>4, <1>5, <1>6, <1>7, <1>8, <1>9, <1>10, <1>11, <1>12, <1>13, <1>14, <1>15,
       <1>16, <1>17, <1>18, SMTT(30) DEF Next

LEMMA AtHandStep == TypeOK /\ AtHand /\ [Next]_vars => AtHand'
  <1> SUFFICES ASSUME TypeOK, AtHand, [Next]_vars PROVE AtHand'
    OBVIOUS
  <1> USE FilesAssumption, SubjectsAssumption, ClientAssumption
      DEF TypeOK, files!KeyTypeOK, list!ListTypeOK, files!Writing, Document, Ids, keyVars, listVars,
          requestVars, AtHand
  <1>1. ASSUME NEW t \in Threads, NEW id \in Ids, NEW k \in ClientKeys, StartRegister(t, id, k)
        PROVE AtHand'
    BY <1>1 DEF StartRegister, Starts
  <1>2. ASSUME NEW t \in Threads, NEW id \in Ids, NEW what \in Kinds, StartWithKeys(t, what, id)
        PROVE AtHand'
    BY <1>2 DEF StartWithKeys, Starts, files!Ensure, files!Goto
  <1>3. ASSUME NEW t \in Threads, StartAgent(t) PROVE AtHand'
    BY <1>3 DEF StartAgent, Starts, SystemFirst
  <1>4. ASSUME NEW t \in Threads, NEW id \in Ids, StartToken(t, id) PROVE AtHand'
    BY <1>4 DEF StartToken, Starts
  <1>5. ASSUME NEW t \in Threads, NEW first \in {"create", "delete"}, StartCapability(t, first)
        PROVE AtHand'
    BY <1>5 DEF StartCapability, Starts
  <1>6. ASSUME NEW t \in Threads, NEW stopped \in SUBSET Threads, Restart(t, stopped) PROVE AtHand'
    BY <1>6 DEF Restart, OfClient, files!Stop, SystemFirst
  <1>7. ASSUME NEW t \in Threads, KeyStep(t) PROVE AtHand'
    BY <1>7, SMTT(30) DEF KeyStep, files!Check, files!Write, files!Present, files!Fresh, files!Goto
  <1>8. ASSUME NEW t \in Threads, KeysEnsured(t) PROVE AtHand'
    BY <1>8 DEF KeysEnsured, files!Leave, files!Goto, Goes, Ends
  <1>9. ASSUME NEW t \in Threads, BuildDocument(t) PROVE AtHand'
    BY <1>9 DEF BuildDocument, Parses, Goes, Ends, files!Ensure, files!Goto
  <1>10. ASSUME NEW t \in Threads, Prove(t) PROVE AtHand'
    BY <1>10 DEF Prove, files!Leave, files!Goto, Goes, Ends
  <1>11. ASSUME NEW t \in Threads, Sign(t) PROVE AtHand'
    BY <1>11 DEF Sign, files!Leave, files!Goto, Ends
  <1>12. ASSUME NEW t \in Threads, Seeding(t) PROVE AtHand'
    BY <1>12 DEF Seeding, list!Count, list!Seed
  <1>13. ASSUME NEW t \in Threads, SeedingFails(t) PROVE AtHand'
    BY <1>13 DEF SeedingFails, StoreStages, list!Done, list!Conflict, Ends
  <1>14. ASSUME NEW t \in Threads, Lookup(t) PROVE AtHand'
    BY <1>14, SMTT(30) DEF Lookup, list!CallElsewhere, list!Called, list!Done, Unknown, Goes, Ends, files!Goto
  <1>15. ASSUME NEW t \in Threads, Upsert(t) PROVE AtHand'
    BY <1>15, SMTT(30) DEF Upsert, list!CallElsewhere, list!Called, list!Done, Goes, Ends
  <1>16. ASSUME NEW t \in Threads, Resolve(t) PROVE AtHand'
    BY <1>16, SMTT(30) DEF Resolve, list!CallElsewhere, list!Called, list!Done, Goes, files!Goto
  <1>17. ASSUME NEW t \in Threads, NEW c \in Names, EditList(t, c) PROVE AtHand'
    BY <1>17, SMTT(30) DEF EditList, list!Add, list!Remove, list!Called, list!Done, Ends
  <1>18. CASE UNCHANGED vars
    BY <1>18 DEF vars
  <1> HIDE DEF TypeOK, files!KeyTypeOK, list!ListTypeOK, files!Writing, Document, Ids, keyVars, listVars,
           requestVars, AtHand
  <1> QED
    BY <1>1, <1>2, <1>3, <1>4, <1>5, <1>6, <1>7, <1>8, <1>9, <1>10, <1>11, <1>12, <1>13, <1>14, <1>15,
       <1>16, <1>17, <1>18, SMTT(30) DEF Next

LEMMA PairsStep == TypeOK /\ AtHand /\ Pairs /\ [Next]_vars => Pairs'
  <1> SUFFICES ASSUME TypeOK, AtHand, Pairs, [Next]_vars PROVE Pairs'
    OBVIOUS
  <1> USE FilesAssumption, SubjectsAssumption, ClientAssumption
      DEF TypeOK, files!KeyTypeOK, list!ListTypeOK, files!Writing, Document, Ids, keyVars, listVars,
          requestVars, Pairs, AtHand, files!Writes
  <1>1. ASSUME NEW t \in Threads, NEW id \in Ids, NEW k \in ClientKeys, StartRegister(t, id, k)
        PROVE Pairs'
    BY <1>1 DEF StartRegister, Starts
  <1>2. ASSUME NEW t \in Threads, NEW id \in Ids, NEW what \in Kinds, StartWithKeys(t, what, id)
        PROVE Pairs'
    BY <1>2 DEF StartWithKeys, Starts, files!Ensure, files!Goto
  <1>3. ASSUME NEW t \in Threads, StartAgent(t) PROVE Pairs'
    BY <1>3 DEF StartAgent, Starts, SystemFirst
  <1>4. ASSUME NEW t \in Threads, NEW id \in Ids, StartToken(t, id) PROVE Pairs'
    BY <1>4 DEF StartToken, Starts
  <1>5. ASSUME NEW t \in Threads, NEW first \in {"create", "delete"}, StartCapability(t, first)
        PROVE Pairs'
    BY <1>5 DEF StartCapability, Starts
  <1>6. ASSUME NEW t \in Threads, NEW stopped \in SUBSET Threads, Restart(t, stopped) PROVE Pairs'
    BY <1>6 DEF Restart, OfClient, files!Stop, SystemFirst
  <1>7. ASSUME NEW t \in Threads, KeyStep(t) PROVE Pairs'
    BY <1>7, SMTT(30) DEF KeyStep, files!Check, files!Write, files!Present, files!Fresh, files!Goto
  <1>8. ASSUME NEW t \in Threads, KeysEnsured(t) PROVE Pairs'
    BY <1>8 DEF KeysEnsured, files!Leave, files!Goto, Goes, Ends
  <1>9. ASSUME NEW t \in Threads, BuildDocument(t) PROVE Pairs'
    BY <1>9 DEF BuildDocument, Parses, Goes, Ends, files!Ensure, files!Goto
  <1>10. ASSUME NEW t \in Threads, Prove(t) PROVE Pairs'
    BY <1>10 DEF Prove, files!Leave, files!Goto, Goes, Ends
  <1>11. ASSUME NEW t \in Threads, Sign(t) PROVE Pairs'
    BY <1>11 DEF Sign, files!Leave, files!Goto, Ends
  <1>12. ASSUME NEW t \in Threads, Seeding(t) PROVE Pairs'
    BY <1>12 DEF Seeding, list!Count, list!Seed
  <1>13. ASSUME NEW t \in Threads, SeedingFails(t) PROVE Pairs'
    BY <1>13 DEF SeedingFails, StoreStages, list!Done, list!Conflict, Ends
  <1>14. ASSUME NEW t \in Threads, Lookup(t) PROVE Pairs'
    BY <1>14, SMTT(30) DEF Lookup, list!CallElsewhere, list!Called, list!Done, Unknown, Goes, Ends, files!Goto
  <1>15. ASSUME NEW t \in Threads, Upsert(t) PROVE Pairs'
    BY <1>15, SMTT(30) DEF Upsert, list!CallElsewhere, list!Called, list!Done, Goes, Ends
  <1>16. ASSUME NEW t \in Threads, Resolve(t) PROVE Pairs'
    BY <1>16, SMTT(30) DEF Resolve, list!CallElsewhere, list!Called, list!Done, Goes, files!Goto
  <1>17. ASSUME NEW t \in Threads, NEW c \in Names, EditList(t, c) PROVE Pairs'
    BY <1>17, SMTT(30) DEF EditList, list!Add, list!Remove, list!Called, list!Done, Ends
  <1>18. CASE UNCHANGED vars
    BY <1>18 DEF vars
  <1> HIDE DEF TypeOK, files!KeyTypeOK, list!ListTypeOK, files!Writing, Document, Ids, keyVars, listVars,
           requestVars, Pairs, AtHand, files!Writes
  <1> QED
    BY <1>1, <1>2, <1>3, <1>4, <1>5, <1>6, <1>7, <1>8, <1>9, <1>10, <1>11, <1>12, <1>13, <1>14, <1>15,
       <1>16, <1>17, <1>18, SMTT(30) DEF Next

LEMMA DocumentsStep == TypeOK /\ AtHand /\ Pairs /\ Documents /\ [Next]_vars => Documents'
  <1> SUFFICES ASSUME TypeOK, AtHand, Pairs, Documents, [Next]_vars PROVE Documents'
    OBVIOUS
  <1> USE FilesAssumption, SubjectsAssumption, ClientAssumption
      DEF TypeOK, files!KeyTypeOK, list!ListTypeOK, files!Writing, Document, Ids, keyVars, listVars,
          requestVars, Documents, Pairs, AtHand, files!Writes
  <1>1. ASSUME NEW t \in Threads, NEW id \in Ids, NEW k \in ClientKeys, StartRegister(t, id, k)
        PROVE Documents'
    BY <1>1 DEF StartRegister, Starts
  <1>2. ASSUME NEW t \in Threads, NEW id \in Ids, NEW what \in Kinds, StartWithKeys(t, what, id)
        PROVE Documents'
    BY <1>2 DEF StartWithKeys, Starts, files!Ensure, files!Goto
  <1>3. ASSUME NEW t \in Threads, StartAgent(t) PROVE Documents'
    BY <1>3 DEF StartAgent, Starts, SystemFirst
  <1>4. ASSUME NEW t \in Threads, NEW id \in Ids, StartToken(t, id) PROVE Documents'
    BY <1>4 DEF StartToken, Starts
  <1>5. ASSUME NEW t \in Threads, NEW first \in {"create", "delete"}, StartCapability(t, first)
        PROVE Documents'
    BY <1>5 DEF StartCapability, Starts
  <1>6. ASSUME NEW t \in Threads, NEW stopped \in SUBSET Threads, Restart(t, stopped) PROVE Documents'
    BY <1>6 DEF Restart, OfClient, files!Stop, SystemFirst
  <1>7. ASSUME NEW t \in Threads, KeyStep(t) PROVE Documents'
    BY <1>7, SMTT(30) DEF KeyStep, files!Check, files!Write, files!Present, files!Fresh, files!Goto
  <1>8. ASSUME NEW t \in Threads, KeysEnsured(t) PROVE Documents'
    BY <1>8 DEF KeysEnsured, files!Leave, files!Goto, Goes, Ends
  <1>9. ASSUME NEW t \in Threads, BuildDocument(t) PROVE Documents'
    BY <1>9 DEF BuildDocument, Parses, Goes, Ends, files!Ensure, files!Goto
  <1>10. ASSUME NEW t \in Threads, Prove(t) PROVE Documents'
    BY <1>10 DEF Prove, files!Leave, files!Goto, Goes, Ends
  <1>11. ASSUME NEW t \in Threads, Sign(t) PROVE Documents'
    BY <1>11 DEF Sign, files!Leave, files!Goto, Ends
  <1>12. ASSUME NEW t \in Threads, Seeding(t) PROVE Documents'
    BY <1>12 DEF Seeding, list!Count, list!Seed
  <1>13. ASSUME NEW t \in Threads, SeedingFails(t) PROVE Documents'
    BY <1>13 DEF SeedingFails, StoreStages, list!Done, list!Conflict, Ends
  <1>14. ASSUME NEW t \in Threads, Lookup(t) PROVE Documents'
    BY <1>14, SMTT(30) DEF Lookup, list!CallElsewhere, list!Called, list!Done, Unknown, Goes, Ends, files!Goto
  <1>15. ASSUME NEW t \in Threads, Upsert(t) PROVE Documents'
    BY <1>15, SMTT(30) DEF Upsert, list!CallElsewhere, list!Called, list!Done, Goes, Ends
  <1>16. ASSUME NEW t \in Threads, Resolve(t) PROVE Documents'
    BY <1>16, SMTT(30) DEF Resolve, list!CallElsewhere, list!Called, list!Done, Goes, files!Goto
  <1>17. ASSUME NEW t \in Threads, NEW c \in Names, EditList(t, c) PROVE Documents'
    BY <1>17, SMTT(30) DEF EditList, list!Add, list!Remove, list!Called, list!Done, Ends
  <1>18. CASE UNCHANGED vars
    BY <1>18 DEF vars
  <1> HIDE DEF TypeOK, files!KeyTypeOK, list!ListTypeOK, files!Writing, Document, Ids, keyVars, listVars,
           requestVars, Documents, Pairs, AtHand, files!Writes
  <1> QED
    BY <1>1, <1>2, <1>3, <1>4, <1>5, <1>6, <1>7, <1>8, <1>9, <1>10, <1>11, <1>12, <1>13, <1>14, <1>15,
       <1>16, <1>17, <1>18, SMTT(30) DEF Next

LEMMA RegisteringStep == TypeOK /\ AtHand /\ Registering /\ [Next]_vars => Registering'
  <1> SUFFICES ASSUME TypeOK, AtHand, Registering, [Next]_vars PROVE Registering'
    OBVIOUS
  <1> USE SubjectsAssumption, ClientAssumption
      DEF TypeOK, files!KeyTypeOK, list!ListTypeOK, files!Writing, Document, Ids, keyVars, listVars,
          requestVars, Registering, Past, AtHand
  <1>1. ASSUME NEW t \in Threads, NEW id \in Ids, NEW k \in ClientKeys, StartRegister(t, id, k)
        PROVE Registering'
    BY <1>1 DEF StartRegister, Starts
  <1>2. ASSUME NEW t \in Threads, NEW id \in Ids, NEW what \in Kinds, StartWithKeys(t, what, id)
        PROVE Registering'
    BY <1>2 DEF StartWithKeys, Starts, files!Ensure, files!Goto
  <1>3. ASSUME NEW t \in Threads, StartAgent(t) PROVE Registering'
    BY <1>3 DEF StartAgent, Starts, SystemFirst
  <1>4. ASSUME NEW t \in Threads, NEW id \in Ids, StartToken(t, id) PROVE Registering'
    BY <1>4 DEF StartToken, Starts
  <1>5. ASSUME NEW t \in Threads, NEW first \in {"create", "delete"}, StartCapability(t, first)
        PROVE Registering'
    BY <1>5 DEF StartCapability, Starts
  <1>6. ASSUME NEW t \in Threads, NEW stopped \in SUBSET Threads, Restart(t, stopped) PROVE Registering'
    BY <1>6 DEF Restart, OfClient, files!Stop, SystemFirst
  <1>7. ASSUME NEW t \in Threads, KeyStep(t) PROVE Registering'
    BY <1>7, SMTT(30) DEF KeyStep, files!Check, files!Write, files!Present, files!Fresh, files!Goto
  <1>8. ASSUME NEW t \in Threads, KeysEnsured(t) PROVE Registering'
    BY <1>8 DEF KeysEnsured, files!Leave, files!Goto, Goes, Ends
  <1>9. ASSUME NEW t \in Threads, BuildDocument(t) PROVE Registering'
    BY <1>9 DEF BuildDocument, Parses, Goes, Ends, files!Ensure, files!Goto
  <1>10. ASSUME NEW t \in Threads, Prove(t) PROVE Registering'
    BY <1>10 DEF Prove, files!Leave, files!Goto, Goes, Ends
  <1>11. ASSUME NEW t \in Threads, Sign(t) PROVE Registering'
    BY <1>11 DEF Sign, files!Leave, files!Goto, Ends
  <1>12. ASSUME NEW t \in Threads, Seeding(t) PROVE Registering'
    BY <1>12 DEF Seeding, list!Count, list!Seed
  <1>13. ASSUME NEW t \in Threads, SeedingFails(t) PROVE Registering'
    BY <1>13 DEF SeedingFails, StoreStages, list!Done, list!Conflict, Ends
  <1>14. ASSUME NEW t \in Threads, Lookup(t) PROVE Registering'
    BY <1>14, SMTT(30) DEF Lookup, list!CallElsewhere, list!Called, list!Done, Unknown, Goes, Ends, files!Goto
  <1>15. ASSUME NEW t \in Threads, Upsert(t) PROVE Registering'
    BY <1>15, SMTT(30) DEF Upsert, list!CallElsewhere, list!Called, list!Done, Goes, Ends
  <1>16. ASSUME NEW t \in Threads, Resolve(t) PROVE Registering'
    BY <1>16, SMTT(30) DEF Resolve, list!CallElsewhere, list!Called, list!Done, Goes, files!Goto
  <1>17. ASSUME NEW t \in Threads, NEW c \in Names, EditList(t, c) PROVE Registering'
    BY <1>17, SMTT(30) DEF EditList, list!Add, list!Remove, list!Called, list!Done, Ends
  <1>18. CASE UNCHANGED vars
    BY <1>18 DEF vars
  <1> HIDE DEF TypeOK, files!KeyTypeOK, list!ListTypeOK, files!Writing, Document, Ids, keyVars, listVars,
           requestVars, Registering, Past, AtHand
  <1> QED
    BY <1>1, <1>2, <1>3, <1>4, <1>5, <1>6, <1>7, <1>8, <1>9, <1>10, <1>11, <1>12, <1>13, <1>14, <1>15,
       <1>16, <1>17, <1>18, SMTT(30) DEF Next

LEMMA SigningStep == TypeOK /\ AtHand /\ Signing /\ [Next]_vars => Signing'
  <1> SUFFICES ASSUME TypeOK, AtHand, Signing, [Next]_vars PROVE Signing'
    OBVIOUS
  <1> USE FilesAssumption, SubjectsAssumption, ClientAssumption
      DEF TypeOK, files!KeyTypeOK, list!ListTypeOK, files!Writing, Document, Ids, keyVars, listVars,
          requestVars, Signing, AtHand
  <1>1. ASSUME NEW t \in Threads, NEW id \in Ids, NEW k \in ClientKeys, StartRegister(t, id, k)
        PROVE Signing'
    BY <1>1 DEF StartRegister, Starts
  <1>2. ASSUME NEW t \in Threads, NEW id \in Ids, NEW what \in Kinds, StartWithKeys(t, what, id)
        PROVE Signing'
    BY <1>2 DEF StartWithKeys, Starts, files!Ensure, files!Goto
  <1>3. ASSUME NEW t \in Threads, StartAgent(t) PROVE Signing'
    BY <1>3 DEF StartAgent, Starts, SystemFirst
  <1>4. ASSUME NEW t \in Threads, NEW id \in Ids, StartToken(t, id) PROVE Signing'
    BY <1>4 DEF StartToken, Starts
  <1>5. ASSUME NEW t \in Threads, NEW first \in {"create", "delete"}, StartCapability(t, first)
        PROVE Signing'
    BY <1>5 DEF StartCapability, Starts
  <1>6. ASSUME NEW t \in Threads, NEW stopped \in SUBSET Threads, Restart(t, stopped) PROVE Signing'
    BY <1>6 DEF Restart, OfClient, files!Stop, SystemFirst
  <1>7. ASSUME NEW t \in Threads, KeyStep(t) PROVE Signing'
    BY <1>7, SMTT(30) DEF KeyStep, files!Check, files!Write, files!Present, files!Fresh, files!Goto
  <1>8. ASSUME NEW t \in Threads, KeysEnsured(t) PROVE Signing'
    BY <1>8 DEF KeysEnsured, files!Leave, files!Goto, Goes, Ends
  <1>9. ASSUME NEW t \in Threads, BuildDocument(t) PROVE Signing'
    BY <1>9 DEF BuildDocument, Parses, Goes, Ends, files!Ensure, files!Goto
  <1>10. ASSUME NEW t \in Threads, Prove(t) PROVE Signing'
    BY <1>10 DEF Prove, files!Leave, files!Goto, Goes, Ends
  <1>11. ASSUME NEW t \in Threads, Sign(t) PROVE Signing'
    BY <1>11 DEF Sign, files!Leave, files!Goto, Ends
  <1>12. ASSUME NEW t \in Threads, Seeding(t) PROVE Signing'
    BY <1>12 DEF Seeding, list!Count, list!Seed
  <1>13. ASSUME NEW t \in Threads, SeedingFails(t) PROVE Signing'
    BY <1>13 DEF SeedingFails, StoreStages, list!Done, list!Conflict, Ends
  <1>14. ASSUME NEW t \in Threads, Lookup(t) PROVE Signing'
    BY <1>14, SMTT(30) DEF Lookup, list!CallElsewhere, list!Called, list!Done, Unknown, Goes, Ends, files!Goto
  <1>15. ASSUME NEW t \in Threads, Upsert(t) PROVE Signing'
    BY <1>15, SMTT(30) DEF Upsert, list!CallElsewhere, list!Called, list!Done, Goes, Ends
  <1>16. ASSUME NEW t \in Threads, Resolve(t) PROVE Signing'
    BY <1>16, SMTT(30) DEF Resolve, list!CallElsewhere, list!Called, list!Done, Goes, files!Goto
  <1>17. ASSUME NEW t \in Threads, NEW c \in Names, EditList(t, c) PROVE Signing'
    BY <1>17, SMTT(30) DEF EditList, list!Add, list!Remove, list!Called, list!Done, Ends
  <1>18. CASE UNCHANGED vars
    BY <1>18 DEF vars
  <1> HIDE DEF TypeOK, files!KeyTypeOK, list!ListTypeOK, files!Writing, Document, Ids, keyVars, listVars,
           requestVars, Signing, AtHand
  <1> QED
    BY <1>1, <1>2, <1>3, <1>4, <1>5, <1>6, <1>7, <1>8, <1>9, <1>10, <1>11, <1>12, <1>13, <1>14, <1>15,
       <1>16, <1>17, <1>18, SMTT(30) DEF Next

LEMMA ListStep == TypeOK /\ Unseeded /\ RemovalsHold /\ [Next]_vars => (Unseeded /\ RemovalsHold)'
  <1> SUFFICES ASSUME TypeOK, Unseeded, RemovalsHold, [Next]_vars PROVE (Unseeded /\ RemovalsHold)'
    OBVIOUS
  <1> USE SeedsAssumption
      DEF TypeOK, files!KeyTypeOK, list!ListTypeOK, files!Writing, Document, Ids, keyVars, listVars,
          requestVars, Unseeded, RemovalsHold, list!RemovalsHold, list!Conflict
  <1>1. ASSUME NEW t \in Threads, NEW id \in Ids, NEW k \in ClientKeys, StartRegister(t, id, k)
        PROVE (Unseeded /\ RemovalsHold)'
    BY <1>1 DEF StartRegister, Starts
  <1>2. ASSUME NEW t \in Threads, NEW id \in Ids, NEW what \in Kinds, StartWithKeys(t, what, id)
        PROVE (Unseeded /\ RemovalsHold)'
    BY <1>2 DEF StartWithKeys, Starts, files!Ensure, files!Goto
  <1>3. ASSUME NEW t \in Threads, StartAgent(t) PROVE (Unseeded /\ RemovalsHold)'
    BY <1>3 DEF StartAgent, Starts, SystemFirst
  <1>4. ASSUME NEW t \in Threads, NEW id \in Ids, StartToken(t, id) PROVE (Unseeded /\ RemovalsHold)'
    BY <1>4 DEF StartToken, Starts
  <1>5. ASSUME NEW t \in Threads, NEW first \in {"create", "delete"}, StartCapability(t, first)
        PROVE (Unseeded /\ RemovalsHold)'
    BY <1>5 DEF StartCapability, Starts
  <1>6. ASSUME NEW t \in Threads, NEW stopped \in SUBSET Threads, Restart(t, stopped)
        PROVE (Unseeded /\ RemovalsHold)'
    BY <1>6 DEF Restart, OfClient, files!Stop, SystemFirst
  <1>7. ASSUME NEW t \in Threads, KeyStep(t) PROVE (Unseeded /\ RemovalsHold)'
    BY <1>7, SMTT(30) DEF KeyStep, files!Check, files!Write, files!Present, files!Fresh, files!Goto
  <1>8. ASSUME NEW t \in Threads, KeysEnsured(t) PROVE (Unseeded /\ RemovalsHold)'
    BY <1>8 DEF KeysEnsured, files!Leave, files!Goto, Goes, Ends
  <1>9. ASSUME NEW t \in Threads, BuildDocument(t) PROVE (Unseeded /\ RemovalsHold)'
    BY <1>9 DEF BuildDocument, Parses, Goes, Ends, files!Ensure, files!Goto
  <1>10. ASSUME NEW t \in Threads, Prove(t) PROVE (Unseeded /\ RemovalsHold)'
    BY <1>10 DEF Prove, files!Leave, files!Goto, Goes, Ends
  <1>11. ASSUME NEW t \in Threads, Sign(t) PROVE (Unseeded /\ RemovalsHold)'
    BY <1>11 DEF Sign, files!Leave, files!Goto, Ends
  <1>12. ASSUME NEW t \in Threads, Seeding(t) PROVE (Unseeded /\ RemovalsHold)'
    BY <1>12 DEF Seeding, list!Count, list!Seed
  <1>13. ASSUME NEW t \in Threads, SeedingFails(t) PROVE (Unseeded /\ RemovalsHold)'
    BY <1>13 DEF SeedingFails, StoreStages, list!Done, list!Conflict, Ends
  <1>14. ASSUME NEW t \in Threads, Lookup(t) PROVE (Unseeded /\ RemovalsHold)'
    BY <1>14, SMTT(30) DEF Lookup, list!CallElsewhere, list!Called, list!Done, Unknown, Goes, Ends, files!Goto
  <1>15. ASSUME NEW t \in Threads, Upsert(t) PROVE (Unseeded /\ RemovalsHold)'
    BY <1>15, SMTT(30) DEF Upsert, list!CallElsewhere, list!Called, list!Done, Goes, Ends
  <1>16. ASSUME NEW t \in Threads, Resolve(t) PROVE (Unseeded /\ RemovalsHold)'
    BY <1>16, SMTT(30) DEF Resolve, list!CallElsewhere, list!Called, list!Done, Goes, files!Goto
  <1>17. ASSUME NEW t \in Threads, NEW c \in Names, EditList(t, c) PROVE (Unseeded /\ RemovalsHold)'
    <2>1. CASE list!Add(t, c)
      BY <1>17, <2>1, SMTT(30) DEF EditList, list!Add, list!Called, list!Done, Ends
    <2>2. CASE list!Remove(t, c)
      <3>1. /\ seeding[t] = "past" /\ seeding' = [seeding EXCEPT ![t] = "no"]
            /\ caps' = caps \ {c} /\ removed' = IF c \in caps THEN removed \cup {c} ELSE removed
            /\ emptied' = (emptied \/ caps' = {})
        BY <2>2 DEF list!Remove, list!Called, list!Done
      <3>2. emptied' \in BOOLEAN /\ (emptied => emptied')
        BY <3>1
      <3>3. removed' \cap caps' \subseteq IF emptied' THEN Seeds ELSE {}
        BY <3>1, <3>2
      <3>4. ~emptied' => ~emptied /\ caps' # {}
        BY <3>1
      <3>5. \A u \in Threads : seeding'[u] = "counted" => seeding[u] = "counted"
        BY <3>1
      <3> QED
        BY <3>3, <3>4, <3>5
    <2> QED
      BY <1>17, <2>1, <2>2, Zenon DEF EditList
  <1>18. CASE UNCHANGED vars
    BY <1>18 DEF vars
  <1> HIDE DEF TypeOK, files!KeyTypeOK, list!ListTypeOK, files!Writing, Document, Ids, keyVars, listVars,
           requestVars, Unseeded, RemovalsHold, list!RemovalsHold, list!Conflict
  <1> QED
    BY <1>1, <1>2, <1>3, <1>4, <1>5, <1>6, <1>7, <1>8, <1>9, <1>10, <1>11, <1>12, <1>13, <1>14, <1>15,
       <1>16, <1>17, <1>18, SMTT(30) DEF Next

LEMMA VerifyStep ==
  TypeOK /\ AtHand /\ Pairs /\ Documents /\ Registering /\ Signing /\ SignaturesVerify /\ [Next]_vars
    => SignaturesVerify'
  <1> SUFFICES ASSUME TypeOK, AtHand, Pairs, Documents, Registering, Signing, SignaturesVerify,
            [Next]_vars
        PROVE SignaturesVerify'
    OBVIOUS
  <1> USE FilesAssumption, SubjectsAssumption, ClientAssumption
      DEF TypeOK, files!KeyTypeOK, list!ListTypeOK, files!Writing, Document, Ids, keyVars, listVars,
          requestVars, SignaturesVerify, Documents, Pairs, AtHand, Registering, Past, Signing,
          files!Writes
  <1>1. ASSUME NEW t \in Threads, NEW id \in Ids, NEW k \in ClientKeys, StartRegister(t, id, k)
        PROVE SignaturesVerify'
    BY <1>1 DEF StartRegister, Starts
  <1>2. ASSUME NEW t \in Threads, NEW id \in Ids, NEW what \in Kinds, StartWithKeys(t, what, id)
        PROVE SignaturesVerify'
    BY <1>2 DEF StartWithKeys, Starts, files!Ensure, files!Goto
  <1>3. ASSUME NEW t \in Threads, StartAgent(t) PROVE SignaturesVerify'
    BY <1>3 DEF StartAgent, Starts, SystemFirst
  <1>4. ASSUME NEW t \in Threads, NEW id \in Ids, StartToken(t, id) PROVE SignaturesVerify'
    BY <1>4 DEF StartToken, Starts
  <1>5. ASSUME NEW t \in Threads, NEW first \in {"create", "delete"}, StartCapability(t, first)
        PROVE SignaturesVerify'
    BY <1>5 DEF StartCapability, Starts
  <1>6. ASSUME NEW t \in Threads, NEW stopped \in SUBSET Threads, Restart(t, stopped)
        PROVE SignaturesVerify'
    BY <1>6 DEF Restart, OfClient, files!Stop, SystemFirst
  <1>7. ASSUME NEW t \in Threads, KeyStep(t) PROVE SignaturesVerify'
    BY <1>7, SMTT(30) DEF KeyStep, files!Check, files!Write, files!Present, files!Fresh, files!Goto
  <1>8. ASSUME NEW t \in Threads, KeysEnsured(t) PROVE SignaturesVerify'
    BY <1>8 DEF KeysEnsured, files!Leave, files!Goto, Goes, Ends
  <1>9. ASSUME NEW t \in Threads, BuildDocument(t) PROVE SignaturesVerify'
    BY <1>9 DEF BuildDocument, Parses, Goes, Ends, files!Ensure, files!Goto
  <1>10. ASSUME NEW t \in Threads, Prove(t) PROVE SignaturesVerify'
    BY <1>10 DEF Prove, files!Leave, files!Goto, Goes, Ends
  <1>11. ASSUME NEW t \in Threads, Sign(t) PROVE SignaturesVerify'
    BY <1>11 DEF Sign, files!Leave, files!Goto, Ends
  <1>12. ASSUME NEW t \in Threads, Seeding(t) PROVE SignaturesVerify'
    BY <1>12 DEF Seeding, list!Count, list!Seed
  <1>13. ASSUME NEW t \in Threads, SeedingFails(t) PROVE SignaturesVerify'
    BY <1>13 DEF SeedingFails, StoreStages, list!Done, list!Conflict, Ends
  <1>14. ASSUME NEW t \in Threads, Lookup(t) PROVE SignaturesVerify'
    BY <1>14, SMTT(30) DEF Lookup, list!CallElsewhere, list!Called, list!Done, Unknown, Goes, Ends, files!Goto
  <1>15. ASSUME NEW t \in Threads, Upsert(t) PROVE SignaturesVerify'
    BY <1>15, SMTT(30) DEF Upsert, list!CallElsewhere, list!Called, list!Done, Goes, Ends
  <1>16. ASSUME NEW t \in Threads, Resolve(t) PROVE SignaturesVerify'
    BY <1>16, SMTT(30) DEF Resolve, list!CallElsewhere, list!Called, list!Done, Goes, files!Goto
  <1>17. ASSUME NEW t \in Threads, NEW c \in Names, EditList(t, c) PROVE SignaturesVerify'
    BY <1>17, SMTT(30) DEF EditList, list!Add, list!Remove, list!Called, list!Done, Ends
  <1>18. CASE UNCHANGED vars
    BY <1>18 DEF vars
  <1> HIDE DEF TypeOK, files!KeyTypeOK, list!ListTypeOK, files!Writing, Document, Ids, keyVars, listVars,
           requestVars, SignaturesVerify, Documents, Pairs, AtHand, Registering, Past, Signing,
           files!Writes
  <1> QED
    BY <1>1, <1>2, <1>3, <1>4, <1>5, <1>6, <1>7, <1>8, <1>9, <1>10, <1>11, <1>12, <1>13, <1>14, <1>15,
       <1>16, <1>17, <1>18, SMTT(30) DEF Next

LEMMA StepIInv == IInv /\ [Next]_vars => IInv'
  BY TypeStep, AtHandStep, PairsStep, DocumentsStep, RegisteringStep, SigningStep, ListStep,
     VerifyStep DEF IInv

\* The invariant holds always, whatever requests, clients, crashes and restarts
\* come between the reads and the writes of files and rows.
THEOREM Invariance == Spec => []IInv
  BY InitIInv, StepIInv, PTL DEF Spec

\* Files, documents, threads and the list keep their types.
THEOREM TypeCorrect == Spec => []TypeOK
  <1>1. IInv => TypeOK
    BY DEF IInv
  <1> QED
    BY Invariance, <1>1, PTL

\* Two files of an identity that hold keys hold one pair, crashes included, unless
\* two threads generated at once.
THEOREM PairsMatch == Spec => []KeyPairsMatch
  <1>1. IInv => KeyPairsMatch
    BY DEF IInv, KeyPairsMatch, files!KeyPairsMatch, Pairs
  <1> QED
    BY Invariance, <1>1, PTL

\* Removed capabilities stay removed although every store call may seed the list.
THEOREM RemovalsStay == Spec => []RemovalsHold
  <1>1. IInv => RemovalsHold
    BY DEF IInv
  <1> QED
    BY Invariance, <1>1, PTL

\* What the gateway signs for a subject verifies with the subject's document.
THEOREM TokensVerify == Spec => []SignaturesVerify
  <1>1. IInv => SignaturesVerify
    BY DEF IInv
  <1> QED
    BY Invariance, <1>1, PTL

\* The document of a DID is replaced only when registrations of it overlapped.
THEOREM FirstStands == Spec => FirstRegistrationStands
  <1>1. ASSUME IInv, [Next]_vars, NEW id \in Ids, docs[id] # None, docs'[id] # docs[id]
        PROVE id \in contested
    <2>1. PICK t \in Threads : Upsert(t)
      <3> SUFFICES ASSUME ~(\E t \in Threads : Upsert(t)) PROVE docs' = docs
        BY <1>1
      <3>1. ASSUME NEW t \in Threads, NEW j \in Ids, NEW k \in ClientKeys, StartRegister(t, j, k)
            PROVE docs' = docs
        BY <3>1 DEF StartRegister, Starts
      <3>2. ASSUME NEW t \in Threads, NEW j \in Ids, NEW what \in Kinds, StartWithKeys(t, what, j)
            PROVE docs' = docs
        BY <3>2 DEF StartWithKeys, Starts
      <3>3. ASSUME NEW t \in Threads, NEW j \in Ids, StartToken(t, j) PROVE docs' = docs
        BY <3>3 DEF StartToken, Starts
      <3>4. ASSUME NEW t \in Threads, NEW first \in {"create", "delete"}, StartCapability(t, first)
            PROVE docs' = docs
        BY <3>4 DEF StartCapability, Starts
      <3>5. ASSUME NEW t \in Threads, NEW stopped \in SUBSET Threads, Restart(t, stopped) PROVE docs' = docs
        BY <3>5 DEF Restart
      <3>6. ASSUME NEW t \in Threads, StartAgent(t) \/ KeyStep(t) \/ KeysEnsured(t) \/ BuildDocument(t)
            PROVE docs' = docs
        BY <3>6 DEF StartAgent, Starts, KeyStep, KeysEnsured, BuildDocument
      <3>7. ASSUME NEW t \in Threads, Prove(t) \/ Sign(t) \/ Seeding(t) \/ SeedingFails(t)
            PROVE docs' = docs
        BY <3>7 DEF Prove, Sign, Seeding, SeedingFails
      <3>8. ASSUME NEW t \in Threads, Lookup(t) \/ Resolve(t) PROVE docs' = docs
        BY <3>8 DEF Lookup, Resolve
      <3>9. ASSUME NEW t \in Threads, NEW c \in Names, EditList(t, c) PROVE docs' = docs
        BY <3>9 DEF EditList
      <3>10. UNCHANGED vars => docs' = docs
        BY DEF vars
      <3> QED
        BY <1>1, <3>1, <3>2, <3>3, <3>4, <3>5, <3>6, <3>7, <3>8, <3>9, <3>10, ZenonT(30) DEF Next
    <2>2. id = who[t] /\ Past(t)
      BY <1>1, <2>1 DEF Upsert, Past, IInv, TypeOK
    <2> QED
      BY <1>1, <2>2 DEF IInv, Registering
  <1>2. IInv /\ [Next]_vars => [\A id \in Ids : docs[id] # None /\ docs'[id] # docs[id] => id \in contested]_vars
    BY <1>1
  <1> QED
    BY Invariance, <1>2, PTL DEF Spec, FirstRegistrationStands
=============================================================================
