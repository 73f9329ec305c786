------------------------------- MODULE Provisioning -------------------------------
(***************************************************************************)
(* What must be in place before anybody is trusted: key files, DID         *)
(* documents and the capability list.  The routes of                       *)
(* app/identity/routes.py and app/registry/routes.py that put it there,    *)
(* the startup of app/main.py, and the client of                           *)
(* examples/generate_identity.py, over KeyFiles and MasterList.            *)
(*                                                                         *)
(* A thread runs one request at a time; `stage` is the call it is in.  A   *)
(* store call is over when init_schema and its statement are; a key is     *)
(* read when ensure_agent_keypair has come to its end.  A document is the  *)
(* public key in it.  A token and its root credential are signed in one    *)
(* step, with the key read then; storing them is Delegation's part.        *)
(***************************************************************************)
EXTENDS Naturals, FiniteSets

CONSTANTS System,       \* buiam-auth-system
          Subjects,     \* everybody else who has a DID
          DemoUser,     \* the subject whose document the startup looks for
          Keys,         \* bound: keys of the directory that exist at one time
          ClientKeys,   \* keys of clients with a key directory of their own
          Names, Seeds, \* capability names, those of the protocol
          Threads,
          MaxRequests,  \* bound: requests in all
          MaxRestarts,  \* bound: restarts of the gateway
          None, Torn

Ids == Subjects \cup {System}

ASSUME FilesAssumption == {None, Torn} \cap Keys = {} /\ None # Torn
ASSUME SeedsAssumption == Seeds \subseteq Names /\ Seeds # {}
ASSUME BoundsAssumption == MaxRequests \in Nat /\ MaxRestarts \in Nat
ASSUME SubjectsAssumption == System \notin Subjects /\ DemoUser \in Subjects
ASSUME ClientAssumption == ClientKeys \cap (Keys \cup {None, Torn}) = {}

VARIABLES mldsa,      \* BUIAM_USE_MLDSA and the signature algorithm that goes with it
          priv, pub, io, who, made, overlapped,
          caps, seeding, removed, emptied,
          docs,       \* did_documents: subject -> the key of its document
          stage,      \* thread -> the call it is in
          kind,       \* thread -> the request it runs
          doc,        \* thread -> the document it has built or been sent
          up,         \* the gateway: starting, serving, down
          signed,     \* history: [by, key] of what the gateway has signed
          contested,  \* history: subjects registered twice at once
          requests, restarts   \* how many there have been

files == INSTANCE KeyFiles
list  == INSTANCE MasterList

keyVars     == <<priv, pub, io, who, made, overlapped>>
listVars    == <<caps, seeding, removed, emptied>>
requestVars == <<stage, kind, doc>>
vars == <<mldsa, keyVars, listVars, docs, requestVars, up, signed, contested, requests, restarts>>

Stages == {"idle", "keys", "build", "prove", "lookup", "upsert", "resolve", "sign", "create", "delete"}
Kinds  == {"none", "register", "local", "agent", "boot", "token", "publicKey", "capability"}
Document == Keys \cup ClientKeys

TypeOK ==
  /\ mldsa \in BOOLEAN
  /\ files!KeyTypeOK /\ list!ListTypeOK
  /\ docs \in [Ids -> Document \cup {None}]
  /\ stage \in [Threads -> Stages]
  /\ kind \in [Threads -> Kinds]
  /\ doc \in [Threads -> Document \cup {None}]
  /\ \A t \in Threads : stage[t] = "upsert" => doc[t] # None /\ who[t] \in Ids
  /\ up \in {"starting", "serving", "down"}
  /\ signed \in SUBSET [by : Ids, key : Keys]
  /\ contested \in SUBSET Ids
  /\ requests \in 0 .. MaxRequests /\ restarts \in 0 .. MaxRestarts

Init ==
  /\ mldsa \in BOOLEAN
  /\ files!KeyInit /\ list!ListInit
  /\ docs = [id \in Ids |-> None]
  /\ stage = [t \in Threads |-> "idle"]
  /\ kind = [t \in Threads |-> "none"]
  /\ doc = [t \in Threads |-> None]
  /\ up = "serving"   \* without a document of the demo user startup does no more
  /\ signed = {} /\ contested = {} /\ requests = 0 /\ restarts = 0

-----------------------------------------------------------------------------
(* Requests.                                                               *)

Starts(t, what, first) ==
  /\ up = "serving" /\ stage[t] = "idle"
  /\ requests < MaxRequests /\ requests' = requests + 1
  /\ kind' = [kind EXCEPT ![t] = what]
  /\ stage' = [stage EXCEPT ![t] = first]
  /\ UNCHANGED <<mldsa, docs, up, signed, contested, restarts>>

Goes(t, next) ==
  /\ stage' = [stage EXCEPT ![t] = next]
  /\ UNCHANGED kind

\* The request has answered. Startup is over, or has failed.
Ends(t, ok) ==
  /\ stage' = [stage EXCEPT ![t] = "idle"]
  /\ kind' = [kind EXCEPT ![t] = "none"]
  /\ doc' = [doc EXCEPT ![t] = None]
  /\ up' = IF kind[t] # "boot" THEN up ELSE IF ok THEN "serving" ELSE "down"

\* register_did from a client elsewhere: a document whose proof holds, for any DID
\* that is free, the system's too. (Nothing compares the document's
\* metadata.subject_id with its DID, or the proven key with key-1; a document of a
\* client's own making is here one key, whatever it says of the two.)
StartRegister(t, id, k) ==
  /\ Starts(t, "register", "lookup")
  /\ who' = [who EXCEPT ![t] = id]
  /\ doc' = [doc EXCEPT ![t] = k]
  /\ UNCHANGED <<priv, pub, io, made, overlapped, listVars>>

\* ensure_system_keypair makes sure of RSA files, which nothing reads when ML-DSA
\* is used: then the system's document is looked up at once.
SystemFirst == IF mldsa THEN [stage |-> "lookup", io |-> "rest"] ELSE [stage |-> "keys", io |-> "check"]

\* POST /registry/agents from _ensure_system_did on.
StartAgent(t) ==
  /\ Starts(t, "agent", SystemFirst.stage)
  /\ io' = [io EXCEPT ![t] = SystemFirst.io]
  /\ who' = [who EXCEPT ![t] = System]
  /\ UNCHANGED <<priv, pub, made, overlapped, listVars, doc>>

\* A client that shares the gateway's directory and registers; GET
\* /identity/public-key, which is about RSA files.
StartWithKeys(t, what, id) ==
  /\ \/ what = "local" /\ Starts(t, "local", "build")
     \/ what = "publicKey" /\ ~mldsa /\ Starts(t, "publicKey", "keys")
  /\ files!Ensure(t, id)
  /\ UNCHANGED <<priv, pub, made, overlapped, listVars, doc>>

\* create_token, from the lookup of the DID on.
StartToken(t, id) ==
  /\ Starts(t, "token", "lookup")
  /\ who' = [who EXCEPT ![t] = id]
  /\ UNCHANGED <<priv, pub, io, made, overlapped, listVars, doc>>

\* create_capability and delete_capability.
StartCapability(t, first) ==
  /\ first \in {"create", "delete"}
  /\ Starts(t, "capability", first)
  /\ UNCHANGED <<keyVars, listVars, doc>>

\* A client is a process of its own until it calls the gateway.
OfClient(t) == kind[t] = "local" /\ stage[t] \in {"build", "prove"}

\* The gateway ends, clients may, and the gateway starts again. on_startup does
\* nothing about keys and documents unless the demo user has registered; then
\* register_agent_metadata provides for the system's, before requests are
\* served.
Restart(t, stopped) ==
  LET boot == {u \in {t} : docs[DemoUser] # None}
  IN /\ restarts < MaxRestarts
     /\ t \in stopped /\ \A u \in Threads \ stopped : OfClient(u)
     /\ restarts' = restarts + 1
     /\ up' = IF boot = {} THEN "serving" ELSE "starting"
     /\ stage' = [u \in Threads |-> IF u \in boot THEN SystemFirst.stage ELSE IF u \in stopped THEN "idle" ELSE stage[u]]
     /\ kind' = [u \in Threads |-> IF u \in boot THEN "boot" ELSE IF u \in stopped THEN "none" ELSE kind[u]]
     /\ doc' = [u \in Threads |-> IF u \in stopped THEN None ELSE doc[u]]
     /\ files!Stop(stopped, boot, System, SystemFirst.io)
     /\ caps' = IF caps = {} THEN Seeds ELSE caps
     /\ seeding' = [u \in Threads |-> "no"]
     /\ UNCHANGED <<mldsa, removed, emptied, docs, signed, contested, requests>>

-----------------------------------------------------------------------------
(* Key files.                                                              *)

KeyStep(t) ==
  /\ \/ files!Check(t, mldsa, {g.key : g \in signed} \cup {docs[id] : id \in Ids} \cup {doc[u] : u \in Threads})
     \/ files!Write(t)
  /\ UNCHANGED <<mldsa, listVars, docs, requestVars, up, signed, contested, requests, restarts>>

\* ensure_system_keypair of a registration or of the startup is through;
\* get_public_key answers.
KeysEnsured(t) ==
  /\ stage[t] = "keys" /\ files!Leave(t)
  /\ \/ kind[t] \in {"agent", "boot"} /\ Goes(t, "lookup") /\ UNCHANGED <<doc, up>>
     \/ kind[t] = "publicKey" /\ Ends(t, TRUE)
  /\ UNCHANGED <<mldsa, listVars, docs, signed, contested, requests, restarts>>

\* A slip: whatever the file holds becomes the key of the document.
ParsesIfThere(id) == pub[id] # None

\* _read_pem: a truncated file is no JSON.
Parses(id) == pub[id] \in Keys

\* build_did_document reads the public file.
BuildDocument(t) ==
  LET id == who[t]
  IN /\ stage[t] = "build" /\ io[t] = "ready"
     /\ \/ /\ Parses(id) /\ doc' = [doc EXCEPT ![t] = pub[id]]
           /\ IF kind[t] = "local" THEN Goes(t, "prove") /\ files!Ensure(t, id)
              ELSE Goes(t, "upsert") /\ files!Goto(t, "rest") /\ UNCHANGED who
           /\ UNCHANGED up
        \/ ~Parses(id) /\ Ends(t, FALSE) /\ files!Goto(t, "rest") /\ UNCHANGED who
     /\ made' = [made EXCEPT ![t] = None]
     /\ UNCHANGED <<mldsa, priv, pub, overlapped, listVars, docs, signed, contested, requests, restarts>>

\* create_did_proof reads the private file; register_did, if it can be reached,
\* verifies the proof with the key in the document before it looks the DID up.
Prove(t) ==
  /\ stage[t] = "prove" /\ files!Leave(t)
  /\ \/ priv[who[t]] = doc[t] /\ up = "serving" /\ Goes(t, "lookup") /\ UNCHANGED <<doc, up>>
     \/ (priv[who[t]] # doc[t] \/ up # "serving") /\ Ends(t, FALSE)
  /\ UNCHANGED <<mldsa, listVars, docs, signed, contested, requests, restarts>>

\* rsa_sign_with_kid, mldsa_sign_with_kid: the private file of the subject that the
\* document's metadata names, which is the DID's in every document the gateway or
\* generate_identity builds. (A document with a ClientKey in it may name another:
\* SignaturesVerify says nothing of those.)
Sign(t) ==
  LET id == who[t]
  IN /\ stage[t] = "sign" /\ files!Leave(t)
     /\ \/ priv[id] \in Keys /\ signed' = signed \cup {[by |-> id, key |-> priv[id]]} /\ Ends(t, TRUE)
        \/ priv[id] \notin Keys /\ Ends(t, FALSE) /\ UNCHANGED signed
     /\ UNCHANGED <<mldsa, listVars, docs, contested, requests, restarts>>

-----------------------------------------------------------------------------
(* Store calls.                                                            *)

StoreStages == {"lookup", "upsert", "resolve", "create", "delete"}

\* init_schema of any store call finds the list empty, and seeds it.
Seeding(t) ==
  /\ stage[t] \in StoreStages
  /\ list!Count(t) \/ list!Seed(t)
  /\ UNCHANGED <<mldsa, keyVars, docs, requestVars, up, signed, contested, requests, restarts>>

\* Somebody else has seeded: the IntegrityError ends the request.
SeedingFails(t) ==
  /\ stage[t] \in StoreStages /\ list!Conflict(t)
  /\ list!Done(t) /\ Ends(t, FALSE)
  /\ UNCHANGED <<mldsa, keyVars, caps, removed, emptied, docs, signed, contested, requests, restarts>>

\* A slip: register_did does not look the DID up.
UnknownWhenRegistering(t) == kind[t] \in {"register", "local"} \/ docs[who[t]] = None

\* No document yet: the DID is free.
Unknown(t) == docs[who[t]] = None

\* get_did_document, before a registration or before a token.
Lookup(t) ==
  LET id    == who[t]
      rival == \E u \in Threads \ {t} :
                 /\ who[u] = id
                 /\ stage[u] = "upsert" \/ (stage[u] = "build" /\ kind[u] # "local")
  IN /\ stage[t] = "lookup" /\ list!CallElsewhere(t)
     /\ \/ /\ kind[t] = "token"
           /\ \/ docs[id] # None /\ Goes(t, "resolve") /\ UNCHANGED <<doc, up>>
              \/ docs[id] = None /\ Ends(t, FALSE)
           /\ UNCHANGED <<io, contested>>
        \/ /\ kind[t] \in {"register", "local"}
           /\ \/ Unknown(t) /\ Goes(t, "upsert") /\ UNCHANGED <<doc, up>>
                 /\ contested' = IF rival THEN contested \cup {id} ELSE contested
              \/ ~Unknown(t) /\ Ends(t, FALSE) /\ UNCHANGED contested
           /\ UNCHANGED io
        \/ /\ kind[t] \in {"agent", "boot"}
           /\ \/ Unknown(t) /\ Goes(t, "build") /\ files!Goto(t, "check") /\ UNCHANGED <<doc, up>>
                 /\ contested' = IF rival THEN contested \cup {id} ELSE contested
              \/ ~Unknown(t) /\ kind[t] = "agent" /\ Goes(t, "resolve") /\ UNCHANGED <<io, doc, up, contested>>
              \/ ~Unknown(t) /\ kind[t] = "boot" /\ Ends(t, TRUE) /\ UNCHANGED <<io, contested>>
     /\ UNCHANGED <<mldsa, priv, pub, who, made, overlapped, docs, signed, requests, restarts>>

\* upsert_did_document: the row of this DID, whether there is one by now or not.
Upsert(t) ==
  /\ stage[t] = "upsert" /\ list!CallElsewhere(t)
  /\ docs' = [docs EXCEPT ![who[t]] = doc[t]]
  /\ \/ kind[t] = "agent" /\ Goes(t, "resolve") /\ UNCHANGED <<doc, up>>
     \/ kind[t] # "agent" /\ Ends(t, TRUE)
  /\ UNCHANGED <<mldsa, keyVars, signed, contested, requests, restarts>>

\* resolve_verification_method: the document is looked up again before the key
\* is read.
Resolve(t) ==
  /\ stage[t] = "resolve" /\ list!CallElsewhere(t)
  /\ Goes(t, "sign") /\ files!Goto(t, "check")
  /\ UNCHANGED <<mldsa, priv, pub, who, made, overlapped, docs, doc, up, signed, contested, requests, restarts>>

\* add_capability, remove_capability: added or not (409), removed or not (404).
EditList(t, c) ==
  /\ \/ stage[t] = "create" /\ list!Add(t, c)
     \/ stage[t] = "delete" /\ list!Remove(t, c)
  /\ Ends(t, TRUE)
  /\ UNCHANGED <<mldsa, keyVars, docs, signed, contested, requests, restarts>>

Next ==
  \E t \in Threads :
    \/ \E id \in Ids, k \in ClientKeys : StartRegister(t, id, k)
    \/ \E id \in Ids, what \in Kinds : StartWithKeys(t, what, id)
    \/ StartAgent(t)
    \/ \E id \in Ids : StartToken(t, id)
    \/ \E first \in {"create", "delete"} : StartCapability(t, first)
    \/ \E stopped \in SUBSET Threads : Restart(t, stopped)
    \/ KeyStep(t) \/ KeysEnsured(t) \/ BuildDocument(t) \/ Prove(t) \/ Sign(t)
    \/ Seeding(t) \/ SeedingFails(t) \/ Lookup(t) \/ Upsert(t) \/ Resolve(t)
    \/ \E c \in Names : EditList(t, c)

Spec == Init /\ [][Next]_vars

-----------------------------------------------------------------------------
(* Properties.                                                             *)

\* The files of one identity are one pair.
KeyPairsMatch == files!KeyPairsMatch

\* Removed capabilities stay removed.
RemovalsHold == list!RemovalsHold

\* Of registrations that do not look their DID up at the same time the first
\* one stands: register_did, startup and _ensure_system_did look first and write
\* a good deal later.
FirstRegistrationStands ==
  [][\A id \in Ids : docs[id] # None /\ docs'[id] # docs[id] => id \in contested]_vars

\* What the gateway signs for somebody can be verified with the document that is
\* registered: in the key directory the document came from, the pair it was
\* taken from is still the one that signs, restarts included. (A client with a
\* directory of its own registers a key the gateway has not got, and the gateway
\* then signs with one it generates: those tokens never verify.)
SignaturesVerify ==
  \A g \in signed :
    g.by \notin overlapped \cup contested /\ docs[g.by] \notin ClientKeys => docs[g.by] = g.key
=============================================================================
