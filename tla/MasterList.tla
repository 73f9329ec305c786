-------------------------------- MODULE MasterList --------------------------------
(***************************************************************************)
(* The capability list: app/store/capabilities.py and seed_capabilities of *)
(* app/store/schema.py.                                                    *)
(*                                                                         *)
(* Every function of every store calls init_schema before its statement,   *)
(* and init_schema seeds the list when it counts no row: the count is one  *)
(* transaction and the insert of all names another.  So any store call of  *)
(* any request may find the list just emptied and seed it again.           *)
(***************************************************************************)
EXTENDS FiniteSets

CONSTANTS Names,    \* capability names
          Seeds,    \* those of the protocol definition
          Threads

VARIABLES caps,     \* the table of capabilities
          seeding,  \* thread -> how far the init_schema of its store call is
          removed,  \* history: names removed and not created since
          emptied   \* history: the last name has been removed at some time

listVars == <<caps, seeding, removed, emptied>>

ListTypeOK ==
  /\ caps \in SUBSET Names
  /\ seeding \in [Threads -> {"no", "counted", "past"}]
  /\ removed \in SUBSET Names
  /\ emptied \in BOOLEAN

ListInit ==
  /\ caps = Seeds   \* the first start seeds before requests are served
  /\ seeding = [t \in Threads |-> "no"]
  /\ removed = {} /\ emptied = FALSE

\* A slip: the list is seeded whenever one of the seeds is missing.
CountSeeds(t) ==
  /\ seeding[t] = "no"
  /\ seeding' = [seeding EXCEPT ![t] = IF Seeds \ caps # {} THEN "counted" ELSE "past"]
  /\ UNCHANGED <<caps, removed, emptied>>

\* SELECT COUNT(*): an empty list is to be seeded.
Count(t) ==
  /\ seeding[t] = "no"
  /\ seeding' = [seeding EXCEPT ![t] = IF caps = {} THEN "counted" ELSE "past"]
  /\ UNCHANGED <<caps, removed, emptied>>

\* The insert of all seeds; with one of them there already it inserts none and
\* raises an IntegrityError.
Conflict(t) == seeding[t] = "counted" /\ caps \cap Seeds # {}
Seed(t) ==
  /\ seeding[t] = "counted" /\ caps \cap Seeds = {}
  /\ caps' = caps \cup Seeds
  /\ seeding' = [seeding EXCEPT ![t] = "past"]
  /\ UNCHANGED <<removed, emptied>>

\* init_schema is through, and the statement of the store call runs.
Called(t) == seeding[t] = "past"
Done(t) == seeding' = [seeding EXCEPT ![t] = "no"]

\* A store call that does not touch the list.
CallElsewhere(t) ==
  /\ Called(t) /\ Done(t)
  /\ UNCHANGED <<caps, removed, emptied>>

\* add_capability.
Add(t, c) ==
  /\ Called(t) /\ Done(t)
  /\ caps' = caps \cup {c}
  /\ removed' = IF c \in caps THEN removed ELSE removed \ {c}
  /\ UNCHANGED emptied

\* remove_capability.
Remove(t, c) ==
  /\ Called(t) /\ Done(t)
  /\ caps' = caps \ {c}
  /\ removed' = IF c \in caps THEN removed \cup {c} ELSE removed
  /\ emptied' = (emptied \/ caps' = {})

\* What is removed stays removed although every store call looks at the list and
\* may seed it, and no request fails of a seeding that another one did
\* meanwhile, as long as nobody removes the last name; if somebody does, only
\* names of the protocol come back.
RemovalsHold ==
  /\ removed \cap caps \subseteq IF emptied THEN Seeds ELSE {}
  /\ ~emptied => \A t \in Threads : ~Conflict(t)
=============================================================================
