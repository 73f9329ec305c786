------------------------------ MODULE CancelScope ------------------------------
(***************************************************************************)
(* What the task registry promises, without threads, queues or sets of     *)
(* tasks: cancelling a trace dooms calls of that trace only; a doomed call *)
(* is not answered by the agent any more; and a call that begins after its *)
(* trace was cancelled is doomed from the start.                           *)
(***************************************************************************)
CONSTANTS Tasks, Traces, TraceOf

VARIABLES cancelled,  \* the cancelled traces
          doomed,     \* active calls whose cancellation is certain
          phase,      \* absent, active or ended
          result      \* none, completed, failed or cancelled

vars == <<cancelled, doomed, phase, result>>

Init ==
  /\ cancelled = {}
  /\ doomed = {}
  /\ phase = [t \in Tasks |-> "absent"]
  /\ result = [t \in Tasks |-> "none"]

Begin(t) ==
  /\ phase[t] = "absent"
  /\ phase' = [phase EXCEPT ![t] = "active"]
  /\ doomed' = IF TraceOf[t] \in cancelled THEN doomed \cup {t} ELSE doomed
  /\ UNCHANGED <<cancelled, result>>

\* A cancellation may doom calls at once and others a little later (Doom).
Cancel(tr) ==
  /\ cancelled' = cancelled \cup {tr}
  /\ \E D \in SUBSET {t \in Tasks : phase[t] = "active" /\ TraceOf[t] = tr} :
        doomed' = doomed \cup D
  /\ UNCHANGED <<phase, result>>

Doom(t) ==
  /\ phase[t] = "active"
  /\ TraceOf[t] \in cancelled
  /\ doomed' = doomed \cup {t}
  /\ UNCHANGED <<cancelled, phase, result>>

End(t, res) ==
  /\ phase[t] = "active"
  /\ IF t \in doomed THEN res \in {"cancelled", "failed"}
                     ELSE res \in {"completed", "failed"}
  /\ phase' = [phase EXCEPT ![t] = "ended"]
  /\ result' = [result EXCEPT ![t] = res]
  /\ doomed' = doomed \ {t}
  /\ UNCHANGED cancelled

Next ==
  \/ \E t \in Tasks : \/ Begin(t)
                      \/ Doom(t)
                      \/ \E res \in {"completed", "failed", "cancelled"} : End(t, res)
  \/ \E tr \in Traces : Cancel(tr)

Spec == Init /\ [][Next]_vars
=============================================================================
