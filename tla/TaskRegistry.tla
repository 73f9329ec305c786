----------------------------- MODULE TaskRegistry -----------------------------
(***************************************************************************)
(* The in-process task registry of app/runtime/tasks.py together with the  *)
(* life of the asyncio task that forward_to_agent (app/gateway/routes.py)  *)
(* creates, registers, awaits and unregisters.                             *)
(*                                                                         *)
(* Two kinds of actor touch the registry.  The handlers run on the one     *)
(* event loop: between two awaits they exclude each other, so `loop` names *)
(* the handler that is in the middle of register_task.  The revoke route   *)
(* is a plain `def`: it runs in a worker thread and interleaves with the   *)
(* loop between any two of the steps below.                                *)
(*                                                                         *)
(* Callbacks put on the loop run in the order they were put there.  The    *)
(* model keeps what that order decides: a cancel scheduled for a task runs *)
(* after the task's first step and before any reply that arrives later     *)
(* (guards of DeliverCancel and Reply).                                    *)
(***************************************************************************)
CONSTANTS Tasks,      \* forwarded calls, one asyncio task each
          Traces,     \* trace ids
          Threads,    \* worker threads that serve POST /identity/tokens/{jti}/revoke
          TraceOf,    \* the trace a task is registered under
          None        \* not a task and not a trace

ASSUME TraceOfAssumption == TraceOf \in [Tasks -> Traces]
ASSUME NoneAssumption == None \notin Tasks \cup Traces

VARIABLES running,    \* _running_tasks: trace -> the tasks registered under it
          reasons,    \* the traces that have an entry in _cancel_reasons
          state,      \* where each task is in its life
          outcome,    \* how it ended
          scheduled,  \* tasks with a task.cancel callback waiting on the loop
          loop,       \* the task inside register_task, None when the loop is free
          pc,         \* thread -> its next step in cancel_traces
          todo,       \* thread -> the traces it has still to cancel
          cur,        \* thread -> the trace it is cancelling
          live,       \* thread -> the set it fetched is still in _running_tasks
          batch       \* thread -> the listed tasks it has not looked at yet

taskVars   == <<running, reasons, state, outcome, scheduled, loop>>
threadVars == <<pc, todo, cur, live, batch>>
vars       == <<taskVars, threadVars>>

States   == {"absent", "created", "waiting", "replied", "cancelling", "done", "gone"}
Outcomes == {"none", "completed", "failed", "cancelled"}
Steps    == {"idle", "set", "get", "list", "schedule"}

\* The states in which task.done() is False and no outcome is decided yet.
Pending(t) == state[t] \in {"created", "waiting"}

TypeOK ==
  /\ running \in [Traces -> SUBSET Tasks]
  /\ reasons \in SUBSET Traces
  /\ state \in [Tasks -> States]
  /\ outcome \in [Tasks -> Outcomes]
  /\ scheduled \in SUBSET Tasks
  /\ loop \in Tasks \cup {None}
  /\ pc \in [Threads -> Steps]
  /\ todo \in [Threads -> SUBSET Traces]
  /\ cur \in [Threads -> Traces \cup {None}]
  /\ live \in [Threads -> BOOLEAN]
  /\ batch \in [Threads -> SUBSET Tasks]

Init ==
  /\ running = [tr \in Traces |-> {}]
  /\ reasons = {}
  /\ state = [t \in Tasks |-> "absent"]
  /\ outcome = [t \in Tasks |-> "none"]
  /\ scheduled = {}
  /\ loop = None
  /\ pc = [r \in Threads |-> "idle"]
  /\ todo = [r \in Threads |-> {}]
  /\ cur = [r \in Threads |-> None]
  /\ live = [r \in Threads |-> FALSE]
  /\ batch = [r \in Threads |-> {}]

-----------------------------------------------------------------------------
(* The event loop.                                                         *)

\* asyncio.create_task, then the first line of register_task.
RegisterAdd(t) ==
  /\ loop = None
  /\ state[t] = "absent"
  /\ state' = [state EXCEPT ![t] = "created"]
  /\ running' = [running EXCEPT ![TraceOf[t]] = @ \cup {t}]
  /\ loop' = t
  /\ UNCHANGED <<reasons, outcome, scheduled, threadVars>>

\* A slip: register_task does not look at the recorded reason.
RegisterUnchecked(t) ==
  /\ loop = t
  /\ loop' = None
  /\ UNCHANGED <<running, reasons, state, outcome, scheduled, threadVars>>

\* The rest of register_task: a reason already there cancels the new task.
RegisterCheck(t) ==
  /\ loop = t
  /\ scheduled' = IF TraceOf[t] \in reasons THEN scheduled \cup {t} ELSE scheduled
  /\ loop' = None
  /\ UNCHANGED <<running, reasons, state, outcome, threadVars>>

\* The task's first step: it posts the envelope and waits for the agent, or
\* fails at once (an endpoint that httpx refuses).
FirstStep(t) ==
  /\ loop = None
  /\ state[t] = "created"
  /\ \/ /\ state' = [state EXCEPT ![t] = "waiting"]
        /\ UNCHANGED outcome
     \/ /\ state' = [state EXCEPT ![t] = "done"]
        /\ outcome' = [outcome EXCEPT ![t] = "failed"]
  /\ UNCHANGED <<running, reasons, scheduled, loop, threadVars>>

\* The last I/O event of the call (answer, error or timeout) reaches the loop.
\* A cancel already on the loop runs before it.
Reply(t) ==
  /\ state[t] = "waiting"
  /\ t \notin scheduled
  /\ state' = [state EXCEPT ![t] = "replied"]
  /\ UNCHANGED <<running, reasons, outcome, scheduled, loop, threadVars>>

\* The task handles it: a validated answer, or an HTTP / validation error.
Finish(t) ==
  /\ loop = None
  /\ state[t] = "replied"
  /\ state' = [state EXCEPT ![t] = "done"]
  /\ \E o \in {"completed", "failed"} : outcome' = [outcome EXCEPT ![t] = o]
  /\ UNCHANGED <<running, reasons, scheduled, loop, threadVars>>

\* The scheduled callback task.cancel(reason) runs; a finished task ignores it.
DeliverCancel(t) ==
  /\ loop = None
  /\ t \in scheduled
  /\ state[t] \notin {"created", "replied"}
  /\ scheduled' = scheduled \ {t}
  /\ state' = [state EXCEPT ![t] = IF @ = "waiting" THEN "cancelling" ELSE @]
  /\ UNCHANGED <<running, reasons, outcome, loop, threadVars>>

\* A slip: the cancellation is swallowed and the call returns normally.
UnwindSwallowed(t) ==
  /\ loop = None
  /\ state[t] = "cancelling"
  /\ state' = [state EXCEPT ![t] = "done"]
  /\ outcome' = [outcome EXCEPT ![t] = "completed"]
  /\ UNCHANGED <<running, reasons, scheduled, loop, threadVars>>

\* CancelledError unwinds the AsyncClient block and ends the task.
Unwind(t) ==
  /\ loop = None
  /\ state[t] = "cancelling"
  /\ state' = [state EXCEPT ![t] = "done"]
  /\ outcome' = [outcome EXCEPT ![t] = "cancelled"]
  /\ UNCHANGED <<running, reasons, scheduled, loop, threadVars>>

\* A slip: the trace's whole set is popped, not the task.
UnregisterTrace(t) ==
  /\ loop = None
  /\ state[t] = "done"
  /\ state' = [state EXCEPT ![t] = "gone"]
  /\ running' = [running EXCEPT ![TraceOf[t]] = {}]
  /\ live' = [r \in Threads |-> live[r] /\ cur[r] # TraceOf[t]]
  /\ UNCHANGED <<reasons, outcome, scheduled, loop, pc, todo, cur, batch>>

\* The awaiting handler resumes; its `finally` runs unregister_task.  When the
\* set empties it is popped: a thread that fetched it holds an orphan.
Unregister(t) ==
  LET tr   == TraceOf[t]
      left == running[tr] \ {t}
  IN /\ loop = None
     /\ state[t] = "done"
     /\ state' = [state EXCEPT ![t] = "gone"]
     /\ running' = [running EXCEPT ![tr] = left]
     /\ live' = [r \in Threads |-> live[r] /\ ~(cur[r] = tr /\ left = {})]
     /\ UNCHANGED <<reasons, outcome, scheduled, loop, pc, todo, cur, batch>>

-----------------------------------------------------------------------------
(* A revoke thread inside cancel_traces.                                   *)

\* revoke_token_and_credentials has answered with the traces to cancel.
StartCancel(r, trs) ==
  /\ pc[r] = "idle"
  /\ trs # {}
  /\ todo' = [todo EXCEPT ![r] = trs]
  /\ pc' = [pc EXCEPT ![r] = "set"]
  /\ UNCHANGED <<taskVars, cur, live, batch>>

SetReason(r, tr) ==
  /\ pc[r] = "set"
  /\ tr \in todo[r]
  /\ reasons' = reasons \cup {tr}
  /\ cur' = [cur EXCEPT ![r] = tr]
  /\ pc' = [pc EXCEPT ![r] = "get"]
  /\ UNCHANGED <<running, state, outcome, scheduled, loop, todo, live, batch>>

\* A slip: get has no default, the thread holds Python's None.
GetSetNoDefault(r) ==
  /\ pc[r] = "get"
  /\ live' = [live EXCEPT ![r] = IF running[cur[r]] # {} THEN TRUE ELSE None]
  /\ pc' = [pc EXCEPT ![r] = "list"]
  /\ UNCHANGED <<taskVars, todo, cur, batch>>

\* A slip: the thread always works on a set of its own.
GetSetNew(r) ==
  /\ pc[r] = "get"
  /\ live' = [live EXCEPT ![r] = FALSE]
  /\ pc' = [pc EXCEPT ![r] = "list"]
  /\ UNCHANGED <<taskVars, todo, cur, batch>>

\* _running_tasks.get(trace_id, set()): the registered set object, or a new one.
GetSet(r) ==
  /\ pc[r] = "get"
  /\ live' = [live EXCEPT ![r] = running[cur[r]] # {}]
  /\ pc' = [pc EXCEPT ![r] = "list"]
  /\ UNCHANGED <<taskVars, todo, cur, batch>>

\* A slip: the tasks of every trace are listed.
ListAllTasks(r) ==
  /\ pc[r] = "list"
  /\ batch' = [batch EXCEPT ![r] = UNION {running[tr] : tr \in Traces}]
  /\ live' = [live EXCEPT ![r] = FALSE]
  /\ pc' = [pc EXCEPT ![r] = "schedule"]
  /\ UNCHANGED <<taskVars, todo, cur>>

\* list(...) copies the set in one step.
ListTasks(r) ==
  /\ pc[r] = "list"
  /\ batch' = [batch EXCEPT ![r] = IF live[r] THEN running[cur[r]] ELSE {}]
  /\ live' = [live EXCEPT ![r] = FALSE]
  /\ pc' = [pc EXCEPT ![r] = "schedule"]
  /\ UNCHANGED <<taskVars, todo, cur>>

\* if not task.done(): call_soon_threadsafe(task.cancel, reason)
ScheduleCancel(r, t) ==
  /\ pc[r] = "schedule"
  /\ t \in batch[r]
  /\ batch' = [batch EXCEPT ![r] = @ \ {t}]
  /\ scheduled' = IF state[t] \in {"done", "gone"} THEN scheduled ELSE scheduled \cup {t}
  /\ UNCHANGED <<running, reasons, state, outcome, loop, pc, todo, cur, live>>

\* cancel_trace returns; cancel_traces takes the next trace or returns.
EndTrace(r) ==
  /\ pc[r] = "schedule"
  /\ batch[r] = {}
  /\ todo' = [todo EXCEPT ![r] = @ \ {cur[r]}]
  /\ cur' = [cur EXCEPT ![r] = None]
  /\ pc' = [pc EXCEPT ![r] = IF todo'[r] = {} THEN "idle" ELSE "set"]
  /\ UNCHANGED <<taskVars, live, batch>>

-----------------------------------------------------------------------------
LoopStep(t) ==
  \/ RegisterCheck(t) \/ FirstStep(t) \/ Finish(t)
  \/ Unwind(t) \/ Unregister(t)

CancelStep(r) ==
  \/ \E tr \in Traces : SetReason(r, tr)
  \/ GetSet(r)
  \/ ListTasks(r)
  \/ \E t \in Tasks : ScheduleCancel(r, t)
  \/ EndTrace(r)

Next ==
  \/ \E t \in Tasks : RegisterAdd(t) \/ Reply(t) \/ LoopStep(t) \/ DeliverCancel(t)
  \/ \E r \in Threads : CancelStep(r) \/ \E trs \in SUBSET Traces : StartCancel(r, trs)

\* The loop does not rest while a step of a call or a scheduled cancel is due,
\* nor puts the one off for ever for the other; a thread finishes its request.
\* No fairness on requests, on revocations, nor on the agent's reply.
Fairness ==
  /\ WF_vars(\E t \in Tasks : LoopStep(t))
  /\ WF_vars(\E t \in Tasks : DeliverCancel(t))
  /\ \A r \in Threads : WF_vars(CancelStep(r))

Spec == Init /\ [][Next]_vars /\ Fairness
-----------------------------------------------------------------------------
(* Properties.                                                             *)

\* Thread r will still look at t: it has yet to fetch or list the set t is
\* registered in, or t is in the list it works through.
Reaches(r, t) ==
  /\ cur[r] = TraceOf[t]
  /\ \/ pc[r] = "get"
     \/ pc[r] = "list" /\ live[r]
     \/ pc[r] = "schedule" /\ t \in batch[r]

\* No cancel is lost between register_task and cancel_trace: in a trace with a
\* recorded reason every call that could still complete has its cancel on the
\* loop, or is inside register_task and will read the reason, or is still to be
\* looked at by a thread.  This is why register_task adds before it reads and
\* cancel_trace writes the reason before it lists.
NoLostCancel ==
  \A t \in Tasks : Pending(t) /\ TraceOf[t] \in reasons
     => t \in scheduled \/ loop = t \/ \E r \in Threads : Reaches(r, t)

\* A call is only ever cancelled because its own trace was: expiry, or the
\* revocation of another trace, never ends it (docs: an expired token does not
\* cancel a task that has started).
OnlyRevokedTracesCancelled ==
  \A t \in Tasks : t \in scheduled \/ state[t] = "cancelling" \/ outcome[t] = "cancelled"
     => TraceOf[t] \in reasons

\* The registry holds exactly the calls between create_task and the handler's
\* `finally`: no finished call stays registered, no live one drops out.
RegistryExact ==
  \A tr \in Traces :
     running[tr] = {t \in Tasks : TraceOf[t] = tr /\ state[t] \notin {"absent", "gone"}}

\* Under the loop's and the threads' fairness, a call that is under way when its
\* trace is cancelled ends, whether or not the agent ever answers.
CancelledCallsEnd ==
  \A t \in Tasks : Pending(t) /\ TraceOf[t] \in reasons ~> state[t] = "gone"

\* Calls whose end can no longer be the agent's answer.
Doomed ==
  {t \in Tasks : \/ state[t] = "cancelling"
                 \/ Pending(t) /\ t \in scheduled
                 \/ Pending(t) /\ loop = t /\ TraceOf[t] \in reasons}

Phase ==
  [t \in Tasks |-> IF state[t] = "absent" THEN "absent"
                   ELSE IF state[t] \in {"done", "gone"} THEN "ended" ELSE "active"]

Scope == INSTANCE CancelScope WITH
  cancelled <- reasons, doomed <- Doomed, phase <- Phase, result <- outcome

\* The registry implements CancelScope: in particular a call registered after
\* its trace was cancelled never returns the agent's answer, however the revoke
\* threads and the loop interleave.
ImplementsCancelScope == Scope!Spec
=============================================================================
