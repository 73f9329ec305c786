--------------------------------- MODULE KeyFiles ---------------------------------
(***************************************************************************)
(* The key directory: app/identity/keys.py.                                *)
(*                                                                         *)
(* Every load_private_key and load_public_key first makes sure that the    *)
(* identity has a key pair: it looks for the two files, generates a pair   *)
(* when one is missing, and writes the private and then the public file.   *)
(* Nothing is locked, and write_text truncates a file before it fills it.  *)
(* For ML-DSA a pair that does not sign and verify counts as missing.      *)
(*                                                                         *)
(* An RSA key is not told apart from its public half; that two generated   *)
(* keys differ is what `Fresh` says.  The usability probe of ML-DSA reads  *)
(* both files in one step here.                                            *)
(***************************************************************************)
CONSTANTS Ids,      \* subjects of keys: the gateway's own identity and others
          Keys,     \* bound: keys that exist at one time
          Threads,  \* worker threads, and clients that share the directory
          None,     \* no file
          Torn      \* a file that is truncated and not yet filled

VARIABLES priv, pub,   \* identity -> its private and its public file
          io,          \* thread -> where it is in ensure_agent_keypair
          who,         \* thread -> whose keys
          made,        \* thread -> the key it has generated
          overlapped   \* history: identities whose keys two threads wrote at once

keyVars == <<priv, pub, io, who, made, overlapped>>

Writing == {"cutPriv", "putPriv", "cutPub", "putPub"}
Writes(t, id) == io[t] \in Writing /\ who[t] = id

KeyTypeOK ==
  /\ priv \in [Ids -> Keys \cup {None, Torn}]
  /\ pub \in [Ids -> Keys \cup {None, Torn}]
  /\ io \in [Threads -> Writing \cup {"rest", "check", "ready"}]
  /\ who \in [Threads -> Ids \cup {None}]
  /\ \A t \in Threads : io[t] # "rest" => who[t] \in Ids
  /\ made \in [Threads -> Keys \cup {None}]
  /\ \A t \in Threads : io[t] \in Writing => made[t] \in Keys
  /\ overlapped \in SUBSET Ids

KeyInit ==
  /\ priv = [id \in Ids |-> None] /\ pub = [id \in Ids |-> None]
  /\ io = [t \in Threads |-> "rest"]
  /\ who = [t \in Threads |-> None]
  /\ made = [t \in Threads |-> None]
  /\ overlapped = {}

\* Both files exist; for ML-DSA they also are a pair.
Present(id, mldsa) ==
  /\ priv[id] # None /\ pub[id] # None
  /\ mldsa => priv[id] = pub[id] /\ priv[id] # Torn

\* Keys no file and no thread holds (`kept`: nor anything else).
Fresh(kept) ==
  Keys \ (kept \cup {priv[id] : id \in Ids} \cup {pub[id] : id \in Ids} \cup {made[t] : t \in Threads})

Goto(t, step) == io' = [io EXCEPT ![t] = step]

\* ensure_agent_keypair is called for `id`.
Ensure(t, id) ==
  /\ Goto(t, "check")
  /\ who' = [who EXCEPT ![t] = id]

\* A slip: only the file that is missing is written.
CheckEachFile(t, mldsa, kept) ==
  /\ io[t] = "check"
  /\ \/ Present(who[t], mldsa) /\ Goto(t, "ready") /\ UNCHANGED <<made, overlapped>>
     \/ /\ ~Present(who[t], mldsa)
        /\ \E k \in Fresh(kept) : made' = [made EXCEPT ![t] = k]
        /\ overlapped' = overlapped \cup
             {id \in {who[t]} : \E u \in Threads \ {t} : Writes(u, id)}
        /\ Goto(t, IF priv[who[t]] = None THEN "cutPriv" ELSE "cutPub")
  /\ UNCHANGED <<priv, pub, who>>

\* The exists() of ensure_agent_keypair, and the new pair when they say so.
Check(t, mldsa, kept) ==
  /\ io[t] = "check"
  /\ \/ Present(who[t], mldsa) /\ Goto(t, "ready") /\ UNCHANGED <<made, overlapped>>
     \/ /\ ~Present(who[t], mldsa)
        /\ \E k \in Fresh(kept) : made' = [made EXCEPT ![t] = k]
        /\ overlapped' = overlapped \cup
             {id \in {who[t]} : \E u \in Threads \ {t} : Writes(u, id)}
        /\ Goto(t, "cutPriv")
  /\ UNCHANGED <<priv, pub, who>>

\* _write_pem: the private file is truncated and filled, then the public one.
Write(t) ==
  /\ \/ io[t] = "cutPriv" /\ priv' = [priv EXCEPT ![who[t]] = Torn] /\ Goto(t, "putPriv") /\ UNCHANGED pub
     \/ io[t] = "putPriv" /\ priv' = [priv EXCEPT ![who[t]] = made[t]] /\ Goto(t, "cutPub") /\ UNCHANGED pub
     \/ io[t] = "cutPub" /\ pub' = [pub EXCEPT ![who[t]] = Torn] /\ Goto(t, "putPub") /\ UNCHANGED priv
     \/ io[t] = "putPub" /\ pub' = [pub EXCEPT ![who[t]] = made[t]] /\ Goto(t, "ready") /\ UNCHANGED priv
  /\ UNCHANGED <<who, made, overlapped>>

\* The file has been read, or nothing more is wanted of the keys.
Leave(t) ==
  /\ io[t] = "ready" /\ Goto(t, "rest")
  /\ made' = [made EXCEPT ![t] = None]
  /\ UNCHANGED <<priv, pub, who, overlapped>>

\* Processes end, with the files as they are; `boot` then turns to the keys of
\* `id`.
Stop(stopped, boot, id, first) ==
  /\ io' = [t \in Threads |-> IF t \in boot THEN first ELSE IF t \in stopped THEN "rest" ELSE io[t]]
  /\ who' = [t \in Threads |-> IF t \in boot THEN id ELSE IF t \in stopped THEN None ELSE who[t]]
  /\ made' = [t \in Threads |-> IF t \in stopped THEN None ELSE made[t]]
  /\ UNCHANGED <<priv, pub, overlapped>>

\* Whatever was written in whatever order, two files that hold keys hold one
\* pair, also when the process ends between the two writes; only two threads
\* that generate at once leave the private key of one and the public key of the
\* other.
KeyPairsMatch ==
  \A id \in Ids \ overlapped :
    priv[id] \in Keys /\ pub[id] \in Keys => priv[id] = pub[id]
=============================================================================
