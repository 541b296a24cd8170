-------------------------- MODULE CpuControlProofs --------------------------
(***************************************************************************)
(* Theorems about CpuControl, for any set of clients, any GPIO error codes *)
(* and any number of switch edges.                                         *)
(***************************************************************************)
EXTENDS CpuControl, TLAPS

\* Every step keeps the variables in their ranges.
LEMMA StepTypes ==
  ASSUME TypeOK, [Next]_vars
  PROVE  TypeOK'
PROOF
  <1> USE GpioErrorsAssumption DEF TypeOK, Irqs, ThreadStates, ClientStates, OpenStates,
        WaitStates, PastGate, GoThread, GoClient, GpioRead, control, session
  <1>1. ASSUME NEW l \in Irqs, Edge(l) PROVE TypeOK'
    <2>1. line' \in [Irqs -> {0, 1}]
      BY <1>1 DEF Edge
    <2>2. pend' \in [Irqs -> BOOLEAN]
      <3>1. (pend[l] \/ l = "pause" \/ line[l] = 0) \in BOOLEAN
        OBVIOUS
      <3> QED
        BY <1>1, <3>1, Zenon DEF Edge
    <2>3. moved' \in SUBSET Clients /\ stale' \in BOOLEAN
      BY <1>1 DEF Edge
    <2> QED
      BY <1>1, <2>1, <2>2, <2>3 DEF Edge
  <1>2. CASE RunIrqRead
    BY <1>2 DEF RunIrqRead
  <1>3. CASE RunIrqSet
    BY <1>3 DEF RunIrqSet
  <1>4. CASE PauseIrqRead
    BY <1>4 DEF PauseIrqRead
  <1>5. ASSUME NEW v \in {0, 1} \cup GpioErrors, SetPaused(v)
        PROVE  /\ cpu_paused' \in {0, 1} \cup GpioErrors
               /\ tokens' \in Nat
               /\ inflight' \in SUBSET Clients
               /\ done' \in [Clients -> Nat]
    BY <1>5 DEF SetPaused, Max0
  <1>6. CASE PauseIrqSet
    BY <1>5, <1>6 DEF PauseIrqSet
  <1>7. CASE PauseIrqClear
    BY <1>5, <1>7 DEF PauseIrqClear
  <1>8. CASE StepIrqRead
    BY <1>8 DEF StepIrqRead
  <1>9. CASE StepIrqDebounced
    BY <1>9 DEF StepIrqDebounced
  <1>10. CASE StepIrqCount
    BY <1>10 DEF StepIrqCount
  <1>11. ASSUME NEW i \in Irqs, IrqWake(i) PROVE TypeOK'
    BY <1>11 DEF IrqWake, WakeUp
  <1>12. ASSUME NEW c \in Clients, ClientStep(c) \/ UserStep(c) PROVE TypeOK'
    <2>1. CASE OpenReadRun(c)
      BY <2>1 DEF OpenReadRun
    <2>2. CASE OpenSetRun(c)
      BY <2>2 DEF OpenSetRun
    <2>3. CASE OpenReadPause(c)
      BY <2>3 DEF OpenReadPause
    <2>4. CASE OpenSetPause(c)
      <3>1. stale' \in BOOLEAN
        <4>1. (c \in moved) \in BOOLEAN
          OBVIOUS
        <4> QED
          BY <2>4, <4>1, Zenon DEF OpenSetPause
      <3>2. val[c] \in {0, 1} \cup GpioErrors
        OBVIOUS
      <3>3. SetPaused(val[c])
        BY <2>4, Zenon DEF OpenSetPause
      <3>4. /\ cpu_paused' \in {0, 1} \cup GpioErrors
            /\ tokens' \in Nat
            /\ inflight' \in SUBSET Clients
            /\ done' \in [Clients -> Nat]
        BY <1>5, <3>2, <3>3, Zenon
      <3>5. /\ pc' \in [Clients -> ClientStates]
            /\ val' \in [Clients -> {0, 1} \cup GpioErrors]
            /\ \A d \in Clients : pc'[d] = "opnRun" => val'[d] \in {0, 1}
            /\ moved' \in SUBSET Clients
        BY <2>4 DEF OpenSetPause
      <3> QED
        BY <2>4, <3>1, <3>4, <3>5 DEF OpenSetPause
    <2>5. CASE Release(c)
      BY <2>5 DEF Release
    <2>6. CASE ReadCall(c)
      BY <2>6 DEF ReadCall
    <2>7. CASE GateRunning(c)
      BY <2>7 DEF GateRunning
    <2>8. CASE GatePaused(c)
      BY <2>8 DEF GatePaused, PassGate
    <2>9. CASE GateStep(c)
      BY <2>9 DEF GateStep, PassGate
    <2>10. CASE Woken(c)
      BY <2>10 DEF Woken
    <2>11. CASE Interrupted(c)
      BY <2>11 DEF Interrupted
    <2>12. CASE TestToken(c)
      BY <2>12 DEF TestToken
    <2>13. CASE ConsumeToken(c)
      BY <2>13 DEF ConsumeToken
    <2>14. CASE Tick(c)
      BY <2>14 DEF Tick
    <2>15. CASE Execute(c)
      BY <2>15 DEF Execute
    <2> QED
      BY <1>12, <2>1, <2>2, <2>3, <2>4, <2>5, <2>6, <2>7, <2>8, <2>9, <2>10,
         <2>11, <2>12, <2>13, <2>14, <2>15 DEF ClientStep, UserStep
  <1>13. CASE UNCHANGED vars
    BY <1>13 DEF vars
  <1> QED
    BY <1>1, <1>2, <1>3, <1>4, <1>6, <1>7, <1>8, <1>9, <1>10, <1>11, <1>12, <1>13
    DEF Next, RunIrq, PauseIrq, StepIrq

\* Every variable of the driver's run/pause/step control keeps its range, in
\* particular cpu_running, which cpu_open never sets to an error code.
THEOREM TypeCorrect == Spec => []TypeOK
PROOF
  <1>1. Init => TypeOK
    <2>1. Init => stale \in BOOLEAN /\ opened \in BOOLEAN
      BY Zenon DEF Init
    <2> QED
      BY <2>1, GpioErrorsAssumption DEF Init, TypeOK, Irqs, ThreadStates, ClientStates
  <1>2. TypeOK /\ [Next]_vars => TypeOK'
    BY StepTypes
  <1> QED
    BY <1>1, <1>2, PTL DEF Spec

-----------------------------------------------------------------------------
\* Writing cpu_paused establishes or keeps the budget of every client.
LEMMA SetPausedBudget ==
  ASSUME TypeOK, StepBudget, BudgetInv, NEW v, SetPaused(v),
         step_count' = step_count,
         \A c \in Clients : pc'[c] \in PastGate => pc'[c] = pc[c]
  PROVE  StepBudget' /\ BudgetInv'
PROOF
  <1> USE DEF TypeOK, StepBudget, BudgetInv, Budget, PastGate, Max0
  <1>1. CASE v = 0
    BY <1>1 DEF SetPaused
  <1>2. CASE v # 0 /\ cpu_paused = 0
    BY <1>2 DEF SetPaused
  <1>3. CASE v # 0 /\ cpu_paused # 0
    BY <1>3 DEF SetPaused, session
  <1> QED
    BY <1>1, <1>2, <1>3

\* A step that only moves clients, without bringing one past the gate, to the
\* tick or to the execution, keeps every budget.
LEMMA MoveBudget ==
  ASSUME TypeOK, StepBudget, BudgetInv, UNCHANGED <<cpu_paused, step_count, session>>,
         \A c \in Clients : pc'[c] \in PastGate => pc'[c] = pc[c]
  PROVE  StepBudget' /\ BudgetInv'
PROOF
  BY DEF TypeOK, StepBudget, BudgetInv, Budget, PastGate, session

\* BudgetInv, with the budget itself, is inductive.
LEMMA StepBudgetInductive ==
  ASSUME TypeOK, StepBudget, BudgetInv, [Next]_vars
  PROVE  StepBudget' /\ BudgetInv'
PROOF
  <1> USE DEF control, GoThread, GoClient
  <1> DEFINE Still == UNCHANGED <<cpu_paused, step_count, session, pc>>
  <1>0. Still => StepBudget' /\ BudgetInv'
    BY MoveBudget
  <1> HIDE DEF Still
  <1>1. ASSUME NEW l \in Irqs, Edge(l) PROVE Still
    BY <1>1 DEF Edge, Still
  <1>2. CASE RunIrqRead \/ RunIrqSet \/ PauseIrqRead \/ StepIrqRead \/ StepIrqDebounced
    BY <1>0, <1>2 DEF RunIrqRead, RunIrqSet, PauseIrqRead, StepIrqRead, StepIrqDebounced, Still
  <1>3. ASSUME NEW i \in Irqs, IrqWake(i) PROVE Still
    BY <1>3 DEF IrqWake, Still
  <1>4. CASE PauseIrqSet
    BY <1>4, SetPausedBudget DEF PauseIrqSet
  <1>5. CASE PauseIrqClear
    BY <1>5, SetPausedBudget DEF PauseIrqClear
  <1>6. CASE StepIrqCount
    BY <1>6 DEF StepIrqCount, TypeOK, StepBudget, BudgetInv, Budget, PastGate
  <1>7. ASSUME NEW c \in Clients, ClientStep(c) \/ UserStep(c)
        PROVE  StepBudget' /\ BudgetInv'
    <2> USE DEF TypeOK, PastGate, session
    <2>1. CASE OpenReadRun(c) \/ OpenSetRun(c) \/ OpenReadPause(c) \/ Release(c) \/ ReadCall(c)
      BY <2>1, MoveBudget DEF OpenReadRun, OpenSetRun, OpenReadPause, Release, ReadCall
    <2>2. CASE OpenSetPause(c)
      BY <2>2, SetPausedBudget DEF OpenSetPause
    <2>3. CASE GateRunning(c) \/ Woken(c) \/ Interrupted(c)
      BY <2>3, MoveBudget DEF GateRunning, Woken, Interrupted
    <2>4. CASE GatePaused(c)
      BY <2>4 DEF GatePaused, PassGate, StepBudget, BudgetInv, Budget
    <2>5. CASE GateStep(c)
      BY <2>5 DEF GateStep, PassGate, StepBudget, BudgetInv, Budget
    <2>6. CASE TestToken(c)
      BY <2>6 DEF TestToken, StepBudget, BudgetInv, Budget
    <2>7. CASE ConsumeToken(c)
      BY <2>7 DEF ConsumeToken, StepBudget, BudgetInv, Budget
    <2>8. CASE Tick(c)
      BY <2>8 DEF Tick, StepBudget, BudgetInv, Budget
    <2>9. CASE Execute(c)
      BY <2>9 DEF Execute, StepBudget, BudgetInv, Budget
    <2> QED
      BY <1>7, <2>1, <2>2, <2>3, <2>4, <2>5, <2>6, <2>7, <2>8, <2>9 DEF ClientStep, UserStep
  <1>8. CASE UNCHANGED vars
    BY <1>0, <1>8 DEF vars, Still
  <1> QED
    BY <1>0, <1>1, <1>2, <1>3, <1>4, <1>5, <1>6, <1>7, <1>8
    DEF Next, Irqs, RunIrq, PauseIrq, StepIrq

\* While the CPU is paused no client executes more instructions than there were
\* step presses, besides the one it had taken past cpu_read's wait: the waits,
\* the token test and the decrement of cpu_read never over-spend.
THEOREM StepBudgetHolds == Spec => []StepBudget
PROOF
  <1>1. Init => StepBudget /\ BudgetInv
    BY DEF Init, StepBudget, BudgetInv, Budget
  <1>2. TypeOK /\ StepBudget /\ BudgetInv /\ [Next]_vars => StepBudget' /\ BudgetInv'
    BY StepBudgetInductive
  <1> QED
    BY <1>1, <1>2, TypeCorrect, PTL DEF Spec

\* While the CPU is paused, what a client may still execute covers the presses in
\* step_count and the instruction it is about to execute: no press is promised to
\* a client twice, although the test of step_count and its decrement are apart.
THEOREM BudgetInvHolds == Spec => []BudgetInv
PROOF
  <1>1. Init => StepBudget /\ BudgetInv
    BY DEF Init, StepBudget, BudgetInv, Budget
  <1>2. TypeOK /\ StepBudget /\ BudgetInv /\ [Next]_vars => StepBudget' /\ BudgetInv'
    BY StepBudgetInductive
  <1> QED
    BY <1>1, <1>2, TypeCorrect, PTL DEF Spec

-----------------------------------------------------------------------------
\* PauseInv is inductive when GPIO reads do not fail.
LEMMA PauseInvInductive ==
  ASSUME GpioErrors = {}, TypeOK, PauseInv, [Next]_vars
  PROVE  PauseInv'
PROOF
  <1> USE DEF TypeOK, Irqs, PauseInv, PauseCoherent, PauseSettled, GoThread, GoClient, control
  <1>0. \A l \in Irqs : GpioRead(l) = {line[l]}
    BY DEF GpioRead
  <1>1. ASSUME NEW l \in Irqs, Edge(l) PROVE PauseInv'
    <2>1. CASE l = "pause"
      BY <1>1, <2>1 DEF Edge
    <2>2. CASE l # "pause"
      BY <1>1, <2>2 DEF Edge
    <2> QED
      BY <2>1, <2>2
  <1>2. CASE RunIrqRead
    BY <1>2 DEF RunIrqRead
  <1>3. CASE RunIrqSet
    BY <1>3 DEF RunIrqSet
  <1>4. CASE PauseIrqRead
    BY <1>0, <1>4 DEF PauseIrqRead
  <1>5. CASE PauseIrqSet
    BY <1>5 DEF PauseIrqSet, SetPaused
  <1>6. CASE PauseIrqClear
    BY <1>6 DEF PauseIrqClear, SetPaused
  <1>7. CASE StepIrqRead
    BY <1>7 DEF StepIrqRead
  <1>8. CASE StepIrqDebounced
    BY <1>8 DEF StepIrqDebounced
  <1>9. CASE StepIrqCount
    BY <1>9 DEF StepIrqCount
  <1>10. ASSUME NEW i \in Irqs, IrqWake(i) PROVE PauseInv'
    BY <1>10 DEF IrqWake
  <1>11. ASSUME NEW c \in Clients, ClientStep(c) \/ UserStep(c) PROVE PauseInv'
    <2>1. CASE OpenReadPause(c)
      BY <1>0, <2>1 DEF OpenReadPause
    <2>2. CASE OpenSetPause(c)
      BY <2>2 DEF OpenSetPause, SetPaused
    <2>3. CASE OpenReadRun(c)
      BY <2>3 DEF OpenReadRun
    <2>4. CASE OpenSetRun(c)
      BY <2>4 DEF OpenSetRun
    <2>5. CASE Release(c) \/ ReadCall(c) \/ GateRunning(c) \/ Woken(c) \/ Interrupted(c)
      BY <2>5 DEF Release, ReadCall, GateRunning, Woken, Interrupted
    <2>6. CASE GatePaused(c) \/ GateStep(c)
      BY <2>6 DEF GatePaused, GateStep, PassGate
    <2>7. CASE TestToken(c) \/ ConsumeToken(c) \/ Tick(c) \/ Execute(c)
      BY <2>7 DEF TestToken, ConsumeToken, Tick, Execute
    <2> QED
      BY <1>11, <2>1, <2>2, <2>3, <2>4, <2>5, <2>6, <2>7 DEF ClientStep, UserStep
  <1>12. CASE UNCHANGED vars
    BY <1>12 DEF vars
  <1> QED
    BY <1>1, <1>2, <1>3, <1>4, <1>5, <1>6, <1>7, <1>8, <1>9, <1>10, <1>11, <1>12
    DEF Next, RunIrq, PauseIrq, StepIrq

\* When GPIO reads do not fail, a level that pause_irq_thread or cpu_open has read
\* and not yet stored is the level of the pause switch, unless an edge came between.
THEOREM PauseInvHolds == ASSUME GpioErrors = {} PROVE Spec => []PauseInv
PROOF
  <1>1. Init => PauseInv
    BY DEF Init, PauseInv, PauseCoherent, PauseSettled, Irqs
  <1>2. TypeOK /\ PauseInv /\ [Next]_vars => PauseInv'
    BY PauseInvInductive
  <1> QED
    BY <1>1, <1>2, TypeCorrect, PTL DEF Spec

\* When GPIO reads do not fail, pause_irq_thread and cpu_open leave cpu_paused
\* equal to the pause switch, except when an edge comes between cpu_open's
\* reading of the switch and its store.
THEOREM PauseCoherentHolds == ASSUME GpioErrors = {} PROVE Spec => []PauseCoherent
PROOF
  <1>1. PauseInv => PauseCoherent
    BY DEF PauseInv
  <1> QED
    BY <1>1, PauseInvHolds, PTL

-----------------------------------------------------------------------------
\* SleepersHaveWaker is inductive.
LEMMA WakerInductive ==
  ASSUME TypeOK, SleepersHaveWaker, [Next]_vars
  PROVE  SleepersHaveWaker'
PROOF
  <1> USE DEF TypeOK, Irqs, SleepersHaveWaker, WakePending, Stuck, Ready, GoThread, GoClient, control
  <1>1. ASSUME NEW l \in Irqs, Edge(l) PROVE SleepersHaveWaker'
    BY <1>1 DEF Edge
  <1>2. CASE RunIrqRead
    BY <1>2 DEF RunIrqRead
  <1>3. CASE RunIrqSet
    BY <1>3 DEF RunIrqSet
  <1>4. CASE PauseIrqRead
    BY <1>4 DEF PauseIrqRead
  <1>5. CASE PauseIrqSet
    BY <1>5 DEF PauseIrqSet, SetPaused
  <1>6. CASE PauseIrqClear
    BY <1>6 DEF PauseIrqClear
  <1>7. CASE StepIrqRead
    BY <1>7 DEF StepIrqRead
  <1>8. CASE StepIrqDebounced
    BY <1>8 DEF StepIrqDebounced
  <1>9. CASE StepIrqCount
    BY <1>9 DEF StepIrqCount
  <1>10. ASSUME NEW i \in Irqs, IrqWake(i) PROVE SleepersHaveWaker'
    BY <1>10 DEF IrqWake, WakeUp, WaitStates
  <1>11. ASSUME NEW c \in Clients, ClientStep(c) \/ UserStep(c) PROVE SleepersHaveWaker'
    <2>1. CASE OpenReadRun(c) \/ OpenReadPause(c) \/ Release(c) \/ ReadCall(c)
      BY <2>1 DEF OpenReadRun, OpenReadPause, Release, ReadCall
    <2>2. CASE OpenSetRun(c)
      BY <2>2 DEF OpenSetRun
    <2>3. CASE OpenSetPause(c)
      BY <2>3 DEF OpenSetPause
    <2>4. CASE GateRunning(c)
      BY <2>4 DEF GateRunning
    <2>5. CASE GatePaused(c)
      BY <2>5 DEF GatePaused, PassGate
    <2>6. CASE GateStep(c)
      BY <2>6 DEF GateStep, PassGate
    <2>7. CASE Woken(c) \/ Interrupted(c)
      BY <2>7 DEF Woken, Interrupted
    <2>8. CASE TestToken(c) \/ Tick(c) \/ Execute(c)
      BY <2>8 DEF TestToken, Tick, Execute
    <2>9. CASE ConsumeToken(c)
      BY <2>9 DEF ConsumeToken
    <2> QED
      BY <1>11, <2>1, <2>2, <2>3, <2>4, <2>5, <2>6, <2>7, <2>8, <2>9 DEF ClientStep, UserStep
  <1>12. CASE UNCHANGED vars
    BY <1>12 DEF vars
  <1> QED
    BY <1>1, <1>2, <1>3, <1>4, <1>5, <1>6, <1>7, <1>8, <1>9, <1>10, <1>11, <1>12
    DEF Next, RunIrq, PauseIrq, StepIrq

\* For any number of readers and openers: whoever sleeps in cpu_read although it
\* could go on has been woken, or is about to be by an interrupt handler, unless
\* a cpu_open wrote the flags since the last wake-up.
THEOREM SleepersHaveWakerHolds == Spec => []SleepersHaveWaker
PROOF
  <1>1. Init => SleepersHaveWaker
    BY DEF Init, SleepersHaveWaker, Stuck
  <1>2. TypeOK /\ SleepersHaveWaker /\ [Next]_vars => SleepersHaveWaker'
    BY WakerInductive
  <1> QED
    BY <1>1, <1>2, TypeCorrect, PTL DEF Spec

-----------------------------------------------------------------------------
\* What DelayMeansRunning needs: a reader that a token let through the wait still
\* finds one when it looks again, as long as nobody else reads.
DelayInv ==
  /\ DelayMeansRunning
  /\ \A c \in Clients :
       pc[c] = "passed" => via[c] = "running" \/ (via[c] = "step" /\ step_count > 0)

\* DelayInv is inductive when there is one client.
LEMMA DelayInvInductive ==
  ASSUME \A c, d \in Clients : c = d, TypeOK, DelayInv, [Next]_vars
  PROVE  DelayInv'
PROOF
  <1> USE DEF TypeOK, DelayInv, DelayMeansRunning, GoThread, GoClient, control
  <1>1. ASSUME NEW l \in Irqs, Edge(l) PROVE DelayInv'
    BY <1>1 DEF Edge
  <1>2. CASE RunIrqRead \/ RunIrqSet \/ PauseIrqRead \/ StepIrqRead \/ StepIrqDebounced
    BY <1>2 DEF RunIrqRead, RunIrqSet, PauseIrqRead, StepIrqRead, StepIrqDebounced
  <1>3. CASE PauseIrqSet \/ PauseIrqClear
    BY <1>3 DEF PauseIrqSet, PauseIrqClear
  <1>4. CASE StepIrqCount
    BY <1>4 DEF StepIrqCount
  <1>5. ASSUME NEW i \in Irqs, IrqWake(i) PROVE DelayInv'
    BY <1>5 DEF IrqWake
  <1>6. ASSUME NEW c \in Clients, ClientStep(c) \/ UserStep(c) PROVE DelayInv'
    <2>1. CASE OpenReadRun(c) \/ OpenSetRun(c) \/ OpenReadPause(c) \/ OpenSetPause(c)
      BY <2>1 DEF OpenReadRun, OpenSetRun, OpenReadPause, OpenSetPause
    <2>2. CASE Release(c) \/ ReadCall(c) \/ GateRunning(c) \/ Woken(c) \/ Interrupted(c)
      BY <2>2 DEF Release, ReadCall, GateRunning, Woken, Interrupted
    <2>3. CASE GatePaused(c) \/ GateStep(c)
      BY <2>3 DEF GatePaused, GateStep, PassGate
    <2>4. CASE TestToken(c) \/ ConsumeToken(c) \/ Tick(c) \/ Execute(c)
      BY <2>4 DEF TestToken, ConsumeToken, Tick, Execute
    <2> QED
      BY <1>6, <2>1, <2>2, <2>3, <2>4 DEF ClientStep, UserStep
  <1>7. CASE UNCHANGED vars
    BY <1>7 DEF vars
  <1> QED
    BY <1>1, <1>2, <1>3, <1>4, <1>5, <1>6, <1>7 DEF Next, Irqs, RunIrq, PauseIrq, StepIrq

\* With one client on the device, the clock tick in cpu_read is only taken by a
\* reader that found the CPU running, as the comment at that branch says: between
\* its two looks at step_count no token disappears, whatever the handlers do.
THEOREM DelayMeansRunningHolds ==
  ASSUME \A c, d \in Clients : c = d PROVE Spec => []DelayMeansRunning
PROOF
  <1>1. Init => DelayInv
    BY DEF Init, DelayInv, DelayMeansRunning
  <1>2. TypeOK /\ DelayInv /\ [Next]_vars => DelayInv'
    BY DelayInvInductive
  <1>3. DelayInv => DelayMeansRunning
    BY DEF DelayInv
  <1> QED
    BY <1>1, <1>2, <1>3, TypeCorrect, PTL DEF Spec
=============================================================================
