-------------------------- MODULE TaskRegistryProofs --------------------------
(***************************************************************************)
(* Proofs about TaskRegistry, for every set of calls, traces and threads.  *)
(* NoLostCancel is not inductive alone: that a listed set misses nobody    *)
(* needs RegistryExact, that a batch holds calls of the trace it was       *)
(* listed for needs BatchOfTrace, and that the call inside register_task   *)
(* is the one just created needs LoopCreated.                              *)
(***************************************************************************)
EXTENDS TaskRegistry, TLAPS

LoopCreated == \A t \in Tasks : loop = t => state[t] = "created"

BatchOfTrace ==
  \A r \in Threads :
    /\ pc[r] \in {"get", "list", "schedule"} => cur[r] \in reasons
    /\ \A t \in batch[r] : TraceOf[t] = cur[r] /\ pc[r] = "schedule"

\* The inductive invariant.
IInv ==
  /\ TypeOK
  /\ RegistryExact
  /\ LoopCreated
  /\ BatchOfTrace
  /\ OnlyRevokedTracesCancelled
  /\ NoLostCancel

LEMMA InitIInv == Init => IInv
  BY TraceOfAssumption, NoneAssumption
  DEF Init, IInv, TypeOK, States, Outcomes, Steps, RegistryExact, LoopCreated,
      BatchOfTrace, OnlyRevokedTracesCancelled, NoLostCancel, Pending

LEMMA TypeStep == TypeOK /\ BatchOfTrace /\ [Next]_vars => TypeOK'
  <1> SUFFICES ASSUME TypeOK, BatchOfTrace, [Next]_vars PROVE TypeOK'
    OBVIOUS
  <1> USE TraceOfAssumption DEF TypeOK, States, Outcomes, Steps, vars, taskVars, threadVars
  <1>1. ASSUME NEW t \in Tasks, RegisterAdd(t) PROVE TypeOK'
    BY <1>1 DEF RegisterAdd
  <1>2. ASSUME NEW t \in Tasks, RegisterCheck(t) PROVE TypeOK'
    BY <1>2 DEF RegisterCheck
  <1>3. ASSUME NEW t \in Tasks, FirstStep(t) PROVE TypeOK'
    BY <1>3 DEF FirstStep
  <1>4. ASSUME NEW t \in Tasks, Reply(t) PROVE TypeOK'
    BY <1>4 DEF Reply
  <1>5. ASSUME NEW t \in Tasks, Finish(t) PROVE TypeOK'
    BY <1>5 DEF Finish
  <1>6. ASSUME NEW t \in Tasks, DeliverCancel(t) PROVE TypeOK'
    BY <1>6 DEF DeliverCancel
  <1>7. ASSUME NEW t \in Tasks, Unwind(t) PROVE TypeOK'
    BY <1>7 DEF Unwind
  <1>8. ASSUME NEW t \in Tasks, Unregister(t) PROVE TypeOK'
    BY <1>8 DEF Unregister
  <1>9. ASSUME NEW r \in Threads, NEW trs \in SUBSET Traces, StartCancel(r, trs) PROVE TypeOK'
    BY <1>9 DEF StartCancel
  <1>10. ASSUME NEW r \in Threads, NEW tr \in Traces, SetReason(r, tr) PROVE TypeOK'
    BY <1>10 DEF SetReason
  <1>11. ASSUME NEW r \in Threads, GetSet(r) PROVE TypeOK'
    BY <1>11 DEF GetSet
  <1>12. ASSUME NEW r \in Threads, ListTasks(r) PROVE TypeOK'
    <2>1. cur[r] \in Traces
      BY <1>12 DEF ListTasks, BatchOfTrace
    <2> QED
      BY <1>12, <2>1 DEF ListTasks
  <1>13. ASSUME NEW r \in Threads, NEW t \in Tasks, ScheduleCancel(r, t) PROVE TypeOK'
    BY <1>13 DEF ScheduleCancel
  <1>14. ASSUME NEW r \in Threads, EndTrace(r) PROVE TypeOK'
    BY <1>14 DEF EndTrace
  <1>15. CASE UNCHANGED vars
    BY <1>15 DEF vars
  <1> QED
    BY <1>1, <1>2, <1>3, <1>4, <1>5, <1>6, <1>7, <1>8,
       <1>9, <1>10, <1>11, <1>12, <1>13, <1>14, <1>15
    DEF Next, LoopStep, CancelStep

LEMMA RegistryStep == TypeOK /\ RegistryExact /\ [Next]_vars => RegistryExact'
  <1> SUFFICES ASSUME TypeOK, RegistryExact, [Next]_vars PROVE RegistryExact'
    OBVIOUS
  <1> USE TraceOfAssumption DEF TypeOK, RegistryExact, vars, taskVars, threadVars
  <1>1. ASSUME NEW t \in Tasks, RegisterAdd(t) PROVE RegistryExact'
    BY <1>1 DEF RegisterAdd
  <1>2. ASSUME NEW t \in Tasks, RegisterCheck(t) PROVE RegistryExact'
    BY <1>2 DEF RegisterCheck
  <1>3. ASSUME NEW t \in Tasks, FirstStep(t) PROVE RegistryExact'
    BY <1>3 DEF FirstStep
  <1>4. ASSUME NEW t \in Tasks, Reply(t) PROVE RegistryExact'
    BY <1>4 DEF Reply
  <1>5. ASSUME NEW t \in Tasks, Finish(t) PROVE RegistryExact'
    BY <1>5 DEF Finish
  <1>6. ASSUME NEW t \in Tasks, DeliverCancel(t) PROVE RegistryExact'
    BY <1>6 DEF DeliverCancel
  <1>7. ASSUME NEW t \in Tasks, Unwind(t) PROVE RegistryExact'
    BY <1>7 DEF Unwind
  <1>8. ASSUME NEW t \in Tasks, Unregister(t) PROVE RegistryExact'
    BY <1>8 DEF Unregister
  <1>9. ASSUME NEW r \in Threads, NEW trs \in SUBSET Traces, StartCancel(r, trs) PROVE RegistryExact'
    BY <1>9 DEF StartCancel
  <1>10. ASSUME NEW r \in Threads, NEW tr \in Traces, SetReason(r, tr) PROVE RegistryExact'
    BY <1>10 DEF SetReason
  <1>11. ASSUME NEW r \in Threads, GetSet(r) PROVE RegistryExact'
    BY <1>11 DEF GetSet
  <1>12. ASSUME NEW r \in Threads, ListTasks(r) PROVE RegistryExact'
    BY <1>12 DEF ListTasks
  <1>13. ASSUME NEW r \in Threads, NEW t \in Tasks, ScheduleCancel(r, t) PROVE RegistryExact'
    BY <1>13 DEF ScheduleCancel
  <1>14. ASSUME NEW r \in Threads, EndTrace(r) PROVE RegistryExact'
    BY <1>14 DEF EndTrace
  <1>15. CASE UNCHANGED vars
    BY <1>15 DEF vars
  <1> QED
    BY <1>1, <1>2, <1>3, <1>4, <1>5, <1>6, <1>7, <1>8,
       <1>9, <1>10, <1>11, <1>12, <1>13, <1>14, <1>15
    DEF Next, LoopStep, CancelStep

LEMMA LoopStepKeeps == TypeOK /\ LoopCreated /\ [Next]_vars => LoopCreated'
  <1> SUFFICES ASSUME TypeOK, LoopCreated, [Next]_vars PROVE LoopCreated'
    OBVIOUS
  <1> USE NoneAssumption DEF TypeOK, LoopCreated, vars, taskVars, threadVars
  <1>1. ASSUME NEW t \in Tasks, RegisterAdd(t) PROVE LoopCreated'
    BY <1>1 DEF RegisterAdd
  <1>2. ASSUME NEW t \in Tasks, RegisterCheck(t) PROVE LoopCreated'
    BY <1>2 DEF RegisterCheck
  <1>3. ASSUME NEW t \in Tasks, FirstStep(t) PROVE LoopCreated'
    BY <1>3 DEF FirstStep
  <1>4. ASSUME NEW t \in Tasks, Reply(t) PROVE LoopCreated'
    BY <1>4 DEF Reply
  <1>5. ASSUME NEW t \in Tasks, Finish(t) PROVE LoopCreated'
    BY <1>5 DEF Finish
  <1>6. ASSUME NEW t \in Tasks, DeliverCancel(t) PROVE LoopCreated'
    BY <1>6 DEF DeliverCancel
  <1>7. ASSUME NEW t \in Tasks, Unwind(t) PROVE LoopCreated'
    BY <1>7 DEF Unwind
  <1>8. ASSUME NEW t \in Tasks, Unregister(t) PROVE LoopCreated'
    BY <1>8 DEF Unregister
  <1>9. ASSUME NEW r \in Threads, NEW trs \in SUBSET Traces, StartCancel(r, trs) PROVE LoopCreated'
    BY <1>9 DEF StartCancel
  <1>10. ASSUME NEW r \in Threads, NEW tr \in Traces, SetReason(r, tr) PROVE LoopCreated'
    BY <1>10 DEF SetReason
  <1>11. ASSUME NEW r \in Threads, GetSet(r) PROVE LoopCreated'
    BY <1>11 DEF GetSet
  <1>12. ASSUME NEW r \in Threads, ListTasks(r) PROVE LoopCreated'
    BY <1>12 DEF ListTasks
  <1>13. ASSUME NEW r \in Threads, NEW t \in Tasks, ScheduleCancel(r, t) PROVE LoopCreated'
    BY <1>13 DEF ScheduleCancel
  <1>14. ASSUME NEW r \in Threads, EndTrace(r) PROVE LoopCreated'
    BY <1>14 DEF EndTrace
  <1>15. CASE UNCHANGED vars
    BY <1>15 DEF vars
  <1> QED
    BY <1>1, <1>2, <1>3, <1>4, <1>5, <1>6, <1>7, <1>8,
       <1>9, <1>10, <1>11, <1>12, <1>13, <1>14, <1>15
    DEF Next, LoopStep, CancelStep

LEMMA BatchStep == TypeOK /\ RegistryExact /\ BatchOfTrace /\ [Next]_vars => BatchOfTrace'
  <1> SUFFICES ASSUME TypeOK, RegistryExact, BatchOfTrace, [Next]_vars PROVE BatchOfTrace'
    OBVIOUS
  <1> USE DEF TypeOK, RegistryExact, BatchOfTrace, vars, taskVars, threadVars
  <1>1. ASSUME NEW t \in Tasks, RegisterAdd(t) PROVE BatchOfTrace'
    BY <1>1 DEF RegisterAdd
  <1>2. ASSUME NEW t \in Tasks, RegisterCheck(t) PROVE BatchOfTrace'
    BY <1>2 DEF RegisterCheck
  <1>3. ASSUME NEW t \in Tasks, FirstStep(t) PROVE BatchOfTrace'
    BY <1>3 DEF FirstStep
  <1>4. ASSUME NEW t \in Tasks, Reply(t) PROVE BatchOfTrace'
    BY <1>4 DEF Reply
  <1>5. ASSUME NEW t \in Tasks, Finish(t) PROVE BatchOfTrace'
    BY <1>5 DEF Finish
  <1>6. ASSUME NEW t \in Tasks, DeliverCancel(t) PROVE BatchOfTrace'
    BY <1>6 DEF DeliverCancel
  <1>7. ASSUME NEW t \in Tasks, Unwind(t) PROVE BatchOfTrace'
    BY <1>7 DEF Unwind
  <1>8. ASSUME NEW t \in Tasks, Unregister(t) PROVE BatchOfTrace'
    BY <1>8 DEF Unregister
  <1>9. ASSUME NEW r \in Threads, NEW trs \in SUBSET Traces, StartCancel(r, trs) PROVE BatchOfTrace'
    BY <1>9 DEF StartCancel
  <1>10. ASSUME NEW r \in Threads, NEW tr \in Traces, SetReason(r, tr) PROVE BatchOfTrace'
    BY <1>10 DEF SetReason
  <1>11. ASSUME NEW r \in Threads, GetSet(r) PROVE BatchOfTrace'
    BY <1>11 DEF GetSet
  <1>12. ASSUME NEW r \in Threads, ListTasks(r) PROVE BatchOfTrace'
    BY <1>12 DEF ListTasks
  <1>13. ASSUME NEW r \in Threads, NEW t \in Tasks, ScheduleCancel(r, t) PROVE BatchOfTrace'
    BY <1>13 DEF ScheduleCancel
  <1>14. ASSUME NEW r \in Threads, EndTrace(r) PROVE BatchOfTrace'
    BY <1>14 DEF EndTrace
  <1>15. CASE UNCHANGED vars
    BY <1>15 DEF vars
  <1> QED
    BY <1>1, <1>2, <1>3, <1>4, <1>5, <1>6, <1>7, <1>8,
       <1>9, <1>10, <1>11, <1>12, <1>13, <1>14, <1>15
    DEF Next, LoopStep, CancelStep

LEMMA OnlyStep == TypeOK /\ BatchOfTrace /\ OnlyRevokedTracesCancelled /\ [Next]_vars => OnlyRevokedTracesCancelled'
  <1> SUFFICES ASSUME TypeOK, BatchOfTrace, OnlyRevokedTracesCancelled, [Next]_vars PROVE OnlyRevokedTracesCancelled'
    OBVIOUS
  <1> USE DEF TypeOK, BatchOfTrace, OnlyRevokedTracesCancelled, vars, taskVars, threadVars
  <1>1. ASSUME NEW t \in Tasks, RegisterAdd(t) PROVE OnlyRevokedTracesCancelled'
    BY <1>1 DEF RegisterAdd
  <1>2. ASSUME NEW t \in Tasks, RegisterCheck(t) PROVE OnlyRevokedTracesCancelled'
    BY <1>2 DEF RegisterCheck
  <1>3. ASSUME NEW t \in Tasks, FirstStep(t) PROVE OnlyRevokedTracesCancelled'
    BY <1>3 DEF FirstStep
  <1>4. ASSUME NEW t \in Tasks, Reply(t) PROVE OnlyRevokedTracesCancelled'
    BY <1>4 DEF Reply
  <1>5. ASSUME NEW t \in Tasks, Finish(t) PROVE OnlyRevokedTracesCancelled'
    BY <1>5 DEF Finish
  <1>6. ASSUME NEW t \in Tasks, DeliverCancel(t) PROVE OnlyRevokedTracesCancelled'
    BY <1>6 DEF DeliverCancel
  <1>7. ASSUME NEW t \in Tasks, Unwind(t) PROVE OnlyRevokedTracesCancelled'
    BY <1>7 DEF Unwind
  <1>8. ASSUME NEW t \in Tasks, Unregister(t) PROVE OnlyRevokedTracesCancelled'
    BY <1>8 DEF Unregister
  <1>9. ASSUME NEW r \in Threads, NEW trs \in SUBSET Traces, StartCancel(r, trs) PROVE OnlyRevokedTracesCancelled'
    BY <1>9 DEF StartCancel
  <1>10. ASSUME NEW r \in Threads, NEW tr \in Traces, SetReason(r, tr) PROVE OnlyRevokedTracesCancelled'
    BY <1>10 DEF SetReason
  <1>11. ASSUME NEW r \in Threads, GetSet(r) PROVE OnlyRevokedTracesCancelled'
    BY <1>11 DEF GetSet
  <1>12. ASSUME NEW r \in Threads, ListTasks(r) PROVE OnlyRevokedTracesCancelled'
    BY <1>12 DEF ListTasks
  <1>13. ASSUME NEW r \in Threads, NEW t \in Tasks, ScheduleCancel(r, t) PROVE OnlyRevokedTracesCancelled'
    BY <1>13 DEF ScheduleCancel
  <1>14. ASSUME NEW r \in Threads, EndTrace(r) PROVE OnlyRevokedTracesCancelled'
    BY <1>14 DEF EndTrace
  <1>15. CASE UNCHANGED vars
    BY <1>15 DEF vars
  <1> QED
    BY <1>1, <1>2, <1>3, <1>4, <1>5, <1>6, <1>7, <1>8,
       <1>9, <1>10, <1>11, <1>12, <1>13, <1>14, <1>15
    DEF Next, LoopStep, CancelStep

LEMMA NoLostStep == TypeOK /\ RegistryExact /\ LoopCreated /\ BatchOfTrace /\ NoLostCancel /\ [Next]_vars => NoLostCancel'
  <1> SUFFICES ASSUME TypeOK, RegistryExact, LoopCreated, BatchOfTrace, NoLostCancel, [Next]_vars PROVE NoLostCancel'
    OBVIOUS
  <1> USE TraceOfAssumption, NoneAssumption
      DEF TypeOK, Pending, Reaches, NoLostCancel, vars, taskVars, threadVars
  <1>1. ASSUME NEW t \in Tasks, RegisterAdd(t) PROVE NoLostCancel'
    BY <1>1 DEF RegisterAdd
  <1>2. ASSUME NEW t \in Tasks, RegisterCheck(t) PROVE NoLostCancel'
    BY <1>2 DEF RegisterCheck
  <1>3. ASSUME NEW t \in Tasks, FirstStep(t) PROVE NoLostCancel'
    BY <1>3 DEF FirstStep
  <1>4. ASSUME NEW t \in Tasks, Reply(t) PROVE NoLostCancel'
    BY <1>4 DEF Reply
  <1>5. ASSUME NEW t \in Tasks, Finish(t) PROVE NoLostCancel'
    BY <1>5 DEF Finish
  <1>6. ASSUME NEW t \in Tasks, DeliverCancel(t) PROVE NoLostCancel'
    BY <1>6 DEF DeliverCancel
  <1>7. ASSUME NEW t \in Tasks, Unwind(t) PROVE NoLostCancel'
    BY <1>7 DEF Unwind
  <1>8. ASSUME NEW t \in Tasks, Unregister(t) PROVE NoLostCancel'
    \* The popped set was empty: no other call of the trace was in it.
    <2> SUFFICES ASSUME NEW u \in Tasks, Pending(u)', TraceOf[u] \in reasons'
                 PROVE  u \in scheduled' \/ loop' = u \/ \E r \in Threads : Reaches(r, u)'
      BY DEF NoLostCancel
    <2>1. u # t /\ Pending(u) /\ TraceOf[u] \in reasons
      BY <1>8 DEF Unregister
    <2>2. u \in running[TraceOf[u]]
      BY <2>1 DEF RegistryExact
    <2>3. CASE u \in scheduled \/ loop = u
      BY <1>8, <2>3 DEF Unregister
    <2>4. ASSUME NEW r \in Threads, Reaches(r, u) PROVE Reaches(r, u)'
      <3>1. ~(cur[r] = TraceOf[t] /\ running[TraceOf[t]] \ {t} = {})
        BY <2>1, <2>2, <2>4
      <3> QED
        BY <1>8, <2>4, <3>1 DEF Unregister
    <2> QED
      BY <2>1, <2>3, <2>4
  <1>9. ASSUME NEW r \in Threads, NEW trs \in SUBSET Traces, StartCancel(r, trs) PROVE NoLostCancel'
    BY <1>9 DEF StartCancel
  <1>10. ASSUME NEW r \in Threads, NEW tr \in Traces, SetReason(r, tr) PROVE NoLostCancel'
    BY <1>10 DEF SetReason
  <1>11. ASSUME NEW r \in Threads, GetSet(r) PROVE NoLostCancel'
    \* A pending call of the trace is registered, so the set fetched is live.
    <2> SUFFICES ASSUME NEW u \in Tasks, Pending(u)', TraceOf[u] \in reasons'
                 PROVE  u \in scheduled' \/ loop' = u \/ \E q \in Threads : Reaches(q, u)'
      BY DEF NoLostCancel
    <2>1. Pending(u) /\ TraceOf[u] \in reasons
      BY <1>11 DEF GetSet
    <2>2. u \in running[TraceOf[u]]
      BY <2>1 DEF RegistryExact
    <2>3. CASE u \in scheduled \/ loop = u
      BY <1>11, <2>3 DEF GetSet
    <2>4. ASSUME NEW q \in Threads, Reaches(q, u) PROVE Reaches(q, u)'
      BY <1>11, <2>2, <2>4 DEF GetSet
    <2> QED
      BY <2>1, <2>3, <2>4
  <1>12. ASSUME NEW r \in Threads, ListTasks(r) PROVE NoLostCancel'
    \* What is listed is the registered set itself.
    <2> SUFFICES ASSUME NEW u \in Tasks, Pending(u)', TraceOf[u] \in reasons'
                 PROVE  u \in scheduled' \/ loop' = u \/ \E q \in Threads : Reaches(q, u)'
      BY DEF NoLostCancel
    <2>1. Pending(u) /\ TraceOf[u] \in reasons
      BY <1>12 DEF ListTasks
    <2>2. u \in running[TraceOf[u]]
      BY <2>1 DEF RegistryExact
    <2>3. CASE u \in scheduled \/ loop = u
      BY <1>12, <2>3 DEF ListTasks
    <2>4. ASSUME NEW q \in Threads, Reaches(q, u) PROVE Reaches(q, u)'
      BY <1>12, <2>2, <2>4 DEF ListTasks
    <2> QED
      BY <2>1, <2>3, <2>4
  <1>13. ASSUME NEW r \in Threads, NEW t \in Tasks, ScheduleCancel(r, t) PROVE NoLostCancel'
    BY <1>13 DEF ScheduleCancel
  <1>14. ASSUME NEW r \in Threads, EndTrace(r) PROVE NoLostCancel'
    BY <1>14 DEF EndTrace
  <1>15. CASE UNCHANGED vars
    BY <1>15 DEF vars
  <1> QED
    BY <1>1, <1>2, <1>3, <1>4, <1>5, <1>6, <1>7, <1>8,
       <1>9, <1>10, <1>11, <1>12, <1>13, <1>14, <1>15
    DEF Next, LoopStep, CancelStep


LEMMA StepIInv == IInv /\ [Next]_vars => IInv'
  BY TypeStep, RegistryStep, LoopStepKeeps, BatchStep, OnlyStep, NoLostStep DEF IInv

LEMMA Invariance == Spec => []IInv
  BY InitIInv, StepIInv, PTL DEF Spec

\* Every reachable state of the registry is well typed.
THEOREM TypeCorrect == Spec => []TypeOK
  <1>1. IInv => TypeOK
    BY DEF IInv
  <1> QED
    BY <1>1, Invariance, PTL

\* No interleaving of register_task, unregister_task and cancel_trace loses a
\* cancel: a pending call of a trace with a reason has it scheduled, or somebody
\* is still certain to schedule it.
THEOREM CancelNotLost == Spec => []NoLostCancel
  <1>1. IInv => NoLostCancel
    BY DEF IInv
  <1> QED
    BY <1>1, Invariance, PTL

\* Only calls of revoked traces are ever cancelled.
THEOREM CancelConfined == Spec => []OnlyRevokedTracesCancelled
  <1>1. IInv => OnlyRevokedTracesCancelled
    BY DEF IInv
  <1> QED
    BY <1>1, Invariance, PTL

\* _running_tasks always holds exactly the calls whose handler has not returned.
THEOREM RegistryIsExact == Spec => []RegistryExact
  <1>1. IInv => RegistryExact
    BY DEF IInv
  <1> QED
    BY <1>1, Invariance, PTL

-----------------------------------------------------------------------------
(* Refinement of CancelScope, step by step.                                *)

LEMMA InitScope == Init => Scope!Init
  BY NoneAssumption DEF Init, Scope!Init, Doomed, Phase, Pending

LEMMA StepScope == IInv /\ [Next]_vars => [Scope!Next]_(Scope!vars)
  <1> SUFFICES ASSUME IInv, [Next]_vars PROVE Scope!Next \/ UNCHANGED Scope!vars
    BY DEF Scope!vars
  <1> USE TraceOfAssumption, NoneAssumption
      DEF TypeOK, IInv, LoopCreated, Doomed, Phase, Pending, taskVars, threadVars
  <1>1. ASSUME NEW t \in Tasks, RegisterAdd(t) PROVE Scope!Begin(t)
    <2>1. Phase[t] = "absent" /\ Phase' = [Phase EXCEPT ![t] = "active"]
      BY <1>1 DEF RegisterAdd
    <2>2. t \in scheduled => TraceOf[t] \in reasons
      BY DEF OnlyRevokedTracesCancelled
    <2>3. Doomed' = IF TraceOf[t] \in reasons THEN Doomed \cup {t} ELSE Doomed
      BY <1>1, <2>2 DEF RegisterAdd
    <2> QED
      BY <1>1, <2>1, <2>3 DEF RegisterAdd, Scope!Begin
  <1>2. ASSUME NEW t \in Tasks, RegisterCheck(t) PROVE UNCHANGED Scope!vars
    BY <1>2 DEF RegisterCheck, Scope!vars
  <1>3. ASSUME NEW t \in Tasks, FirstStep(t) PROVE Scope!End(t, "failed") \/ UNCHANGED Scope!vars
    <2>1. CASE state' = [state EXCEPT ![t] = "waiting"] /\ outcome' = outcome
      BY <1>3, <2>1, SMTT(30) DEF FirstStep, Scope!vars
    <2>2. CASE state' = [state EXCEPT ![t] = "done"] /\ outcome' = [outcome EXCEPT ![t] = "failed"]
      <3>1. Phase[t] = "active" /\ Phase' = [Phase EXCEPT ![t] = "ended"]
        BY <1>3, <2>2 DEF FirstStep
      <3>2. Doomed' = Doomed \ {t}
        BY <1>3, <2>2 DEF FirstStep
      <3>3. outcome' = [outcome EXCEPT ![t] = "failed"] /\ reasons' = reasons
        BY <1>3, <2>2 DEF FirstStep
      <3> QED
        BY <3>1, <3>2, <3>3, Zenon DEF Scope!End
    <2> QED
      BY <1>3, <2>1, <2>2, Zenon DEF FirstStep
  <1>4. ASSUME NEW t \in Tasks, Reply(t) PROVE UNCHANGED Scope!vars
    BY <1>4 DEF Reply, Scope!vars
  <1>5. ASSUME NEW t \in Tasks, Finish(t)
        PROVE  \E o \in {"completed", "failed"} : Scope!End(t, o)
    <2>1. PICK o \in {"completed", "failed"} : outcome' = [outcome EXCEPT ![t] = o]
      BY <1>5 DEF Finish
    <2>2. Scope!End(t, o)
      BY <1>5, <2>1 DEF Finish, Scope!End
    <2> QED
      BY <2>2
  <1>6. ASSUME NEW t \in Tasks, DeliverCancel(t) PROVE UNCHANGED Scope!vars
    BY <1>6 DEF DeliverCancel, Scope!vars
  <1>7. ASSUME NEW t \in Tasks, Unwind(t) PROVE Scope!End(t, "cancelled")
    BY <1>7 DEF Unwind, Scope!End
  <1>8. ASSUME NEW t \in Tasks, Unregister(t) PROVE UNCHANGED Scope!vars
    BY <1>8 DEF Unregister, Scope!vars
  <1>9. ASSUME NEW r \in Threads, NEW tr \in Traces, SetReason(r, tr) PROVE Scope!Cancel(tr)
    <2> DEFINE D == {t \in Tasks : loop = t /\ TraceOf[t] = tr}
    <2>1. D \in SUBSET {t \in Tasks : Phase[t] = "active" /\ TraceOf[t] = tr}
      OBVIOUS
    <2>2. Doomed' = Doomed \cup D
      BY <1>9 DEF SetReason
    <2> QED
      BY <1>9, <2>1, <2>2 DEF SetReason, Scope!Cancel
  <1>10. ASSUME NEW r \in Threads, NEW t \in Tasks, ScheduleCancel(r, t)
         PROVE  Scope!Doom(t) \/ UNCHANGED Scope!vars
    <2>1. TraceOf[t] \in reasons
      BY <1>10 DEF ScheduleCancel, BatchOfTrace
    <2> QED
      BY <1>10, <2>1 DEF ScheduleCancel, Scope!Doom, Scope!vars
  <1>11. ASSUME NEW r \in Threads,
                \/ \E trs \in SUBSET Traces : StartCancel(r, trs)
                \/ GetSet(r) \/ ListTasks(r) \/ EndTrace(r)
         PROVE  UNCHANGED Scope!vars
    BY <1>11 DEF StartCancel, GetSet, ListTasks, EndTrace, Scope!vars
  <1>12. CASE UNCHANGED vars
    BY <1>12 DEF vars, Scope!vars
  <1> QED
    BY <1>1, <1>2, <1>3, <1>4, <1>5, <1>6, <1>7, <1>8, <1>9, <1>10, <1>11, <1>12
    DEF Next, LoopStep, CancelStep, Scope!Next

\* The registry with its threads, its sets and its callbacks implements
\* cancellation as one atomic act per trace (CancelScope).
THEOREM RegistryImplementsScope == Spec => ImplementsCancelScope
  BY InitScope, StepScope, Invariance, PTL DEF Spec, ImplementsCancelScope, Scope!Spec
=============================================================================
