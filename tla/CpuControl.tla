----------------------------- MODULE CpuControl -----------------------------
(***************************************************************************)
(* The run/pause/step control of the CPU emulator driver                   *)
(* (cpu_driver/cpu_emulator_driver.c).                                     *)
(*                                                                         *)
(* Three GPIO lines drive three threaded interrupt handlers.  The handlers *)
(* and cpu_open write three global atomics, cpu_running, cpu_paused and    *)
(* step_count; every cpu_read waits on exec_wq until they allow it to      *)
(* execute one instruction.  Each atomic access, GPIO read and wake-up is  *)
(* a step of its own, so handlers, openers and readers interleave as they  *)
(* do in the kernel.                                                       *)
(***************************************************************************)
EXTENDS Integers

CONSTANTS
  Clients,     \* processes that hold /dev/cpu_emulator open
  GpioErrors,  \* negative codes a GPIO read may return instead of the level
  MaxEdges     \* bound: how often the switches and the button change

ASSUME GpioErrorsAssumption == GpioErrors \subseteq {e \in Int : e < 0}

Irqs == {"run", "pause", "step"}

\* Where a client is inside cpu_open or cpu_read.
OpenStates == {"opnRun", "opnPause", "opnSet"}
WaitStates == {"gatePaused", "gateStep", "asleep"}
PastGate   == {"passed", "dec", "tick", "exec"}
ClientStates == {"closed", "idle", "gate"} \cup OpenStates \cup WaitStates \cup PastGate

ThreadStates == {"idle", "set", "clear", "wake", "debounce", "count"}

VARIABLES
  line,         \* level of each input line (run_sw, pause_sw, input_dev)
  pend,         \* edges latched by the interrupt controller
  thr,          \* where each threaded handler is
  cpu_running,
  cpu_paused,
  step_count,
  pc,           \* where each client is
  val,          \* cpu_open's local variable val
  awake,        \* the waiter was woken since it queued itself on exec_wq
  edges,        \* edges so far
  \* History of the current pause (the time cpu_paused has been nonzero):
  tokens,       \* step presses at its start, plus those counted since
  inflight,     \* clients that were past the gate when it began
  done,         \* instructions each client executed in it
  \* History of the gate and of the switches:
  via,          \* what let the client through the gate
  moved,        \* openers whose pause-switch reading an edge has overtaken
  stale,        \* cpu_paused was last written from such a reading, or never
  opened        \* a cpu_open has written cpu_running or cpu_paused since the last wake-up

control == <<cpu_running, cpu_paused, step_count>>
session == <<tokens, inflight, done>>
vars == <<line, pend, thr, control, pc, val, awake, edges, session, via, moved, stale, opened>>

-----------------------------------------------------------------------------
(***************************************************************************)
(* Helpers.                                                                *)
(***************************************************************************)

Max0(n) == IF n > 0 THEN n ELSE 0

\* gpiod_get_value / gpiod_get_value_cansleep: the level, or an error code.
GpioRead(l) == {line[l]} \cup GpioErrors

\* cpu_paused := v, with the history of the pause that begins or ends here.
SetPaused(v) ==
  /\ cpu_paused' = v
  /\ \/ /\ v = 0
        /\ tokens' = 0
        /\ inflight' = {}
        /\ done' = [c \in Clients |-> 0]
     \/ /\ v # 0 /\ cpu_paused = 0
        /\ tokens' = Max0(step_count)
        /\ inflight' = {c \in Clients : pc[c] \in PastGate}
        /\ done' = [c \in Clients |-> 0]
     \/ /\ v # 0 /\ cpu_paused # 0
        /\ UNCHANGED session

\* wake_up_interruptible(&exec_wq): every queued waiter becomes runnable.
WakeUp == awake' = [c \in Clients |-> awake[c] \/ pc[c] \in WaitStates]

\* The condition of wait_event_interruptible.
Ready == cpu_running # 0 /\ (cpu_paused = 0 \/ step_count > 0)

-----------------------------------------------------------------------------
Init ==
  /\ line \in [Irqs -> {0, 1}]
  /\ pend = [i \in Irqs |-> FALSE]
  /\ thr = [i \in Irqs |-> "idle"]
  /\ cpu_running = 0
  /\ cpu_paused = 0
  /\ step_count = 0
  /\ pc = [c \in Clients |-> "closed"]
  /\ val = [c \in Clients |-> 0]
  /\ awake = [c \in Clients |-> FALSE]
  /\ edges = 0
  /\ tokens = 0
  /\ inflight = {}
  /\ done = [c \in Clients |-> 0]
  /\ via = [c \in Clients |-> "none"]
  /\ moved = {}
  /\ stale = TRUE
  /\ opened = FALSE

-----------------------------------------------------------------------------
(***************************************************************************)
(* The user's switches and button.  The run and step lines interrupt on a  *)
(* rising edge, the pause line on both edges.                              *)
(***************************************************************************)

Edge(l) ==
  /\ edges < MaxEdges
  /\ edges' = edges + 1
  /\ line' = [line EXCEPT ![l] = 1 - @]
  /\ pend' = [pend EXCEPT ![l] = @ \/ l = "pause" \/ line[l] = 0]
  /\ moved' = IF l = "pause" THEN {c \in Clients : pc[c] = "opnSet"} ELSE moved
  /\ UNCHANGED <<thr, control, pc, val, awake, session, via, stale, opened>>

-----------------------------------------------------------------------------
(***************************************************************************)
(* The threaded interrupt handlers.                                        *)
(***************************************************************************)

GoThread(i, from, to) ==
  /\ thr[i] = from
  /\ thr' = [thr EXCEPT ![i] = to]

\* run_irq_thread
RunIrqRead ==
  /\ pend["run"]
  /\ pend' = [pend EXCEPT !["run"] = FALSE]
  /\ \E v \in GpioRead("run") : GoThread("run", "idle", IF v # 0 THEN "set" ELSE "idle")
  /\ UNCHANGED <<line, control, pc, val, awake, edges, session, via, moved, stale, opened>>

RunIrqSet ==
  /\ GoThread("run", "set", "wake")
  /\ cpu_running' = 1
  /\ UNCHANGED <<line, pend, cpu_paused, step_count, pc, val, awake, edges, session, via, moved, stale, opened>>

\* pause_irq_thread
\* Mutant: the falling edge of the pause switch is ignored.
PauseIrqReadRising ==
  /\ pend["pause"]
  /\ pend' = [pend EXCEPT !["pause"] = FALSE]
  /\ \E v \in GpioRead("pause") : GoThread("pause", "idle", IF v # 0 THEN "set" ELSE "idle")
  /\ UNCHANGED <<line, control, pc, val, awake, edges, session, via, moved, stale, opened>>

PauseIrqRead ==
  /\ pend["pause"]
  /\ pend' = [pend EXCEPT !["pause"] = FALSE]
  /\ \E v \in GpioRead("pause") : GoThread("pause", "idle", IF v # 0 THEN "set" ELSE "clear")
  /\ UNCHANGED <<line, control, pc, val, awake, edges, session, via, moved, stale, opened>>

PauseIrqSet ==
  /\ GoThread("pause", "set", "idle")
  /\ SetPaused(1)
  /\ stale' = FALSE
  /\ UNCHANGED <<line, pend, cpu_running, step_count, pc, val, awake, edges, via, moved, opened>>

\* Mutant: the end of a pause wakes nobody.
PauseIrqClearNoWake ==
  /\ GoThread("pause", "clear", "idle")
  /\ SetPaused(0)
  /\ stale' = FALSE
  /\ UNCHANGED <<line, pend, cpu_running, step_count, pc, val, awake, edges, via, moved, opened>>

PauseIrqClear ==
  /\ GoThread("pause", "clear", "wake")
  /\ SetPaused(0)
  /\ stale' = FALSE
  /\ UNCHANGED <<line, pend, cpu_running, step_count, pc, val, awake, edges, via, moved, opened>>

\* step_irq_thread: ignored unless paused, debounced by msleep(50).
StepIrqRead ==
  /\ pend["step"]
  /\ pend' = [pend EXCEPT !["step"] = FALSE]
  /\ GoThread("step", "idle", IF cpu_paused # 0 THEN "debounce" ELSE "idle")
  /\ UNCHANGED <<line, control, pc, val, awake, edges, session, via, moved, stale, opened>>

StepIrqDebounced ==
  /\ \E v \in GpioRead("step") : GoThread("step", "debounce", IF v # 0 THEN "count" ELSE "idle")
  /\ UNCHANGED <<line, pend, control, pc, val, awake, edges, session, via, moved, stale, opened>>

\* Mutant: the handler counts the press but does not wake the queue.
StepIrqCountNoWake ==
  /\ GoThread("step", "count", "idle")
  /\ step_count' = step_count + 1
  /\ tokens' = IF cpu_paused # 0 THEN tokens + 1 ELSE tokens
  /\ UNCHANGED <<line, pend, cpu_running, cpu_paused, pc, val, awake, edges, inflight, done, via, moved, stale, opened>>

StepIrqCount ==
  /\ GoThread("step", "count", "wake")
  /\ step_count' = step_count + 1
  /\ tokens' = IF cpu_paused # 0 THEN tokens + 1 ELSE tokens
  /\ UNCHANGED <<line, pend, cpu_running, cpu_paused, pc, val, awake, edges, inflight, done, via, moved, stale, opened>>

\* The wake_up_interruptible that ends each handler.
IrqWake(i) ==
  /\ GoThread(i, "wake", "idle")
  /\ WakeUp
  /\ opened' = FALSE
  /\ UNCHANGED <<line, pend, control, pc, val, edges, session, via, moved, stale>>

RunIrq   == RunIrqRead \/ RunIrqSet \/ IrqWake("run")
PauseIrq == PauseIrqRead \/ PauseIrqSet \/ PauseIrqClear \/ IrqWake("pause")
StepIrq  == StepIrqRead \/ StepIrqDebounced \/ StepIrqCount \/ IrqWake("step")

-----------------------------------------------------------------------------
(***************************************************************************)
(* cpu_open and cpu_release.                                               *)
(***************************************************************************)

GoClient(c, from, to) ==
  /\ pc[c] = from
  /\ pc' = [pc EXCEPT ![c] = to]

\* Mutant: the error return of the run-switch reading is dropped.
OpenReadRunUnchecked(c) ==
  /\ GoClient(c, "closed", "opnRun")
  /\ \E v \in GpioRead("run") : val' = [val EXCEPT ![c] = v]
  /\ UNCHANGED <<line, pend, thr, control, awake, edges, session, via, moved, stale, opened>>

\* A negative run-switch value makes cpu_open return before it changes anything.
OpenReadRun(c) ==
  /\ GoClient(c, "closed", "opnRun")
  /\ \E v \in GpioRead("run") : v >= 0 /\ val' = [val EXCEPT ![c] = v]
  /\ UNCHANGED <<line, pend, thr, control, awake, edges, session, via, moved, stale, opened>>

OpenSetRun(c) ==
  /\ GoClient(c, "opnRun", "opnPause")
  /\ cpu_running' = val[c]
  /\ opened' = TRUE
  /\ UNCHANGED <<line, pend, thr, cpu_paused, step_count, val, awake, edges, session, via, moved, stale>>

\* Mutant: the wrong switch is read.
OpenReadPauseWrongSwitch(c) ==
  /\ GoClient(c, "opnPause", "opnSet")
  /\ \E v \in GpioRead("run") : val' = [val EXCEPT ![c] = v]
  /\ UNCHANGED <<line, pend, thr, control, awake, edges, session, via, moved, stale, opened>>

\* A negative pause-switch value is only logged.
OpenReadPause(c) ==
  /\ GoClient(c, "opnPause", "opnSet")
  /\ \E v \in GpioRead("pause") : val' = [val EXCEPT ![c] = v]
  /\ UNCHANGED <<line, pend, thr, control, awake, edges, session, via, moved, stale, opened>>

\* The store, then kzalloc, which may fail: the globals stay changed.
OpenSetPause(c) ==
  /\ \E to \in {"idle", "closed"} : GoClient(c, "opnSet", to)
  /\ SetPaused(val[c])
  /\ val' = [val EXCEPT ![c] = 0]
  /\ stale' = (c \in moved)
  /\ moved' = moved \ {c}
  /\ opened' = TRUE
  /\ UNCHANGED <<line, pend, thr, cpu_running, step_count, awake, edges, via>>

Release(c) ==
  /\ GoClient(c, "idle", "closed")
  /\ UNCHANGED <<line, pend, thr, control, val, awake, edges, session, via, moved, stale, opened>>

-----------------------------------------------------------------------------
(***************************************************************************)
(* cpu_read.  wait_event_interruptible queues the caller, evaluates the    *)
(* condition left to right (one atomic_read per step) and sleeps if it is  *)
(* false and nothing woke the caller since it queued itself.               *)
(***************************************************************************)

ReadCall(c) ==
  /\ GoClient(c, "idle", "gate")
  /\ UNCHANGED <<line, pend, thr, control, val, awake, edges, session, via, moved, stale, opened>>

GateRunning(c) ==
  /\ GoClient(c, "gate", IF cpu_running # 0 THEN "gatePaused" ELSE "asleep")
  /\ awake' = [awake EXCEPT ![c] = FALSE]
  /\ UNCHANGED <<line, pend, thr, control, val, edges, session, via, moved, stale, opened>>

PassGate(c, from, why) ==
  /\ GoClient(c, from, "passed")
  /\ via' = [via EXCEPT ![c] = why]
  /\ awake' = [awake EXCEPT ![c] = FALSE]

\* Mutant: only a 1 counts as paused, not the code of a reading that failed.
GatePausedOne(c) ==
  /\ \/ cpu_paused # 1 /\ PassGate(c, "gatePaused", "running")
     \/ cpu_paused = 1 /\ GoClient(c, "gatePaused", "gateStep") /\ UNCHANGED <<via, awake>>
  /\ UNCHANGED <<line, pend, thr, control, val, edges, session, moved, stale, opened>>

GatePaused(c) ==
  /\ \/ cpu_paused = 0 /\ PassGate(c, "gatePaused", "running")
     \/ cpu_paused # 0 /\ GoClient(c, "gatePaused", "gateStep") /\ UNCHANGED <<via, awake>>
  /\ UNCHANGED <<line, pend, thr, control, val, edges, session, moved, stale, opened>>

\* Mutant: an off-by-one lets readers through without a token.
GateStepNonNegative(c) ==
  /\ \/ step_count >= 0 /\ PassGate(c, "gateStep", "step")
     \/ step_count < 0 /\ GoClient(c, "gateStep", "asleep") /\ UNCHANGED <<via, awake>>
  /\ UNCHANGED <<line, pend, thr, control, val, edges, session, moved, stale, opened>>

GateStep(c) ==
  /\ \/ step_count > 0 /\ PassGate(c, "gateStep", "step")
     \/ step_count <= 0 /\ GoClient(c, "gateStep", "asleep") /\ UNCHANGED <<via, awake>>
  /\ UNCHANGED <<line, pend, thr, control, val, edges, session, moved, stale, opened>>

\* schedule() returns because of a wake-up; the condition is tried again.
Woken(c) ==
  /\ awake[c]
  /\ GoClient(c, "asleep", "gate")
  /\ UNCHANGED <<line, pend, thr, control, val, awake, edges, session, via, moved, stale, opened>>

\* A signal ends the wait with -ERESTARTSYS.
Interrupted(c) ==
  /\ GoClient(c, "asleep", "idle")
  /\ awake' = [awake EXCEPT ![c] = FALSE]
  /\ UNCHANGED <<line, pend, thr, control, val, edges, session, via, moved, stale, opened>>

\* Mutant: the second look at step_count disagrees with the first.
TestTokenMany(c) ==
  /\ GoClient(c, "passed", IF step_count > 1 THEN "dec" ELSE "tick")
  /\ UNCHANGED <<line, pend, thr, control, val, awake, edges, session, via, moved, stale, opened>>

\* The second look at step_count, after the wait.
TestToken(c) ==
  /\ GoClient(c, "passed", IF step_count > 0 THEN "dec" ELSE "tick")
  /\ UNCHANGED <<line, pend, thr, control, val, awake, edges, session, via, moved, stale, opened>>

\* Mutant: the token is not consumed.
ConsumeTokenKeep(c) ==
  /\ GoClient(c, "dec", "exec")
  /\ UNCHANGED <<line, pend, thr, control, val, awake, edges, session, via, moved, stale, opened>>

ConsumeToken(c) ==
  /\ GoClient(c, "dec", "exec")
  /\ step_count' = step_count - 1
  /\ UNCHANGED <<line, pend, thr, cpu_running, cpu_paused, val, awake, edges, session, via, moved, stale, opened>>

\* pause(): the clock tick of normal execution.
Tick(c) ==
  /\ GoClient(c, "tick", "exec")
  /\ UNCHANGED <<line, pend, thr, control, val, awake, edges, session, via, moved, stale, opened>>

\* execute_instruction and the return of its result.
Execute(c) ==
  /\ GoClient(c, "exec", "idle")
  /\ via' = [via EXCEPT ![c] = "none"]
  /\ done' = IF cpu_paused # 0 THEN [done EXCEPT ![c] = @ + 1] ELSE done
  /\ UNCHANGED <<line, pend, thr, control, val, awake, edges, tokens, inflight, moved, stale, opened>>

-----------------------------------------------------------------------------
\* The steps a client takes by itself once it has entered the driver.
ClientStep(c) ==
  \/ OpenSetRun(c) \/ OpenReadPause(c) \/ OpenSetPause(c)
  \/ GateRunning(c) \/ GatePaused(c) \/ GateStep(c) \/ Woken(c)
  \/ TestToken(c) \/ ConsumeToken(c) \/ Tick(c) \/ Execute(c)

\* The choices of the user and of the userspace program.
UserStep(c) == OpenReadRun(c) \/ Release(c) \/ ReadCall(c) \/ Interrupted(c)

Next ==
  \/ \E l \in Irqs : Edge(l)
  \/ RunIrq \/ PauseIrq \/ StepIrq
  \/ \E c \in Clients : ClientStep(c) \/ UserStep(c)

Spec == Init /\ [][Next]_vars

\* Interrupt threads and system calls are scheduled; users promise nothing.
Fairness ==
  /\ WF_vars(RunIrq) /\ WF_vars(PauseIrq) /\ WF_vars(StepIrq)
  /\ \A c \in Clients : WF_vars(ClientStep(c))

FairSpec == Spec /\ Fairness

-----------------------------------------------------------------------------
(***************************************************************************)
(* Properties.                                                             *)
(***************************************************************************)

\* Every variable stays in its range.  cpu_running in particular is never an
\* error code (cpu_open returns first), while cpu_paused may well be one.
TypeOK ==
  /\ line \in [Irqs -> {0, 1}]
  /\ pend \in [Irqs -> BOOLEAN]
  /\ thr \in [Irqs -> ThreadStates]
  /\ cpu_running \in {0, 1}
  /\ cpu_paused \in {0, 1} \cup GpioErrors
  /\ step_count \in Int
  /\ pc \in [Clients -> ClientStates]
  /\ val \in [Clients -> {0, 1} \cup GpioErrors]
  /\ \A c \in Clients : pc[c] = "opnRun" => val[c] \in {0, 1}
  /\ awake \in [Clients -> BOOLEAN]
  /\ edges \in Nat
  /\ tokens \in Nat
  /\ inflight \in SUBSET Clients
  /\ done \in [Clients -> Nat]
  /\ via \in [Clients -> {"none", "running", "step"}]
  /\ moved \in SUBSET Clients
  /\ stale \in BOOLEAN
  /\ opened \in BOOLEAN

\* While cpu_paused is set, a client executes at most one instruction per step
\* press (those left over from before included), besides the one it had already
\* taken past the wait in cpu_read when the pause began.
StepBudget ==
  \A c \in Clients : done[c] <= tokens + (IF c \in inflight THEN 1 ELSE 0)

\* The strengthening of StepBudget that every step preserves: what is left of a
\* client's budget covers the tokens still in step_count, and the instruction
\* it is about to execute if it is past the gate.
Budget(c) == tokens + (IF c \in inflight THEN 1 ELSE 0) - done[c]

BudgetInv ==
  cpu_paused # 0 =>
    \A c \in Clients :
      /\ Budget(c) >= 0
      /\ Budget(c) >= step_count
      /\ pc[c] \in PastGate => Budget(c) >= 1
      /\ pc[c] \in {"tick", "exec"} => Budget(c) >= step_count + 1

\* With no edge latched and no handler about to store, cpu_paused is the level
\* of the pause switch, unless it was last written by a cpu_open whose reading
\* of the switch an edge had overtaken (or never written since the load).
PauseSettled == ~pend["pause"] /\ thr["pause"] \in {"idle", "wake"}

PauseCoherent == PauseSettled /\ ~stale => cpu_paused = line["pause"]

\* The strengthening of PauseCoherent that every step preserves: what a handler
\* or an opener is about to store is the level too, unless an edge came between.
PauseInv ==
  /\ PauseCoherent
  /\ ~pend["pause"] /\ thr["pause"] = "set" => line["pause"] = 1
  /\ ~pend["pause"] /\ thr["pause"] = "clear" => line["pause"] = 0
  /\ \A c \in Clients : pc[c] = "opnSet" /\ c \notin moved => val[c] = line["pause"]

\* The clock tick of cpu_read is only taken by a reader that the wait let
\* through because the CPU was not paused (the comment at its branch).
DelayMeansRunning == \A c \in Clients : pc[c] = "tick" => via[c] = "running"

\* A reader that has not been woken sleeps on exec_wq while its condition holds
\* only if a handler is about to wake the queue, or if a cpu_open wrote the flags
\* since the last wake-up: cpu_open wakes nobody.  The second case of Stuck is a
\* reader about to sleep on a reading of cpu_paused that is out of date.
WakePending == \E i \in Irqs : thr[i] = "wake"

Stuck(c) ==
  /\ Ready /\ ~awake[c]
  /\ pc[c] = "asleep" \/ (pc[c] = "gateStep" /\ cpu_paused = 0)

SleepersHaveWaker == \A c \in Clients : Stuck(c) => WakePending \/ opened

\* No reader sleeps for ever on exec_wq while its condition holds: every handler
\* that makes the condition true wakes the queue.
NoLostWakeup == \A c \in Clients : ~<>[](pc[c] = "asleep" /\ Ready)

\* A reader waiting with the run switch on and no pause starts executing: what
\* cpu_open's message promises to the user who toggles the switch.
SwitchStartsExecution ==
  \A c \in Clients :
    (pc[c] = "asleep" /\ line["run"] = 1 /\ cpu_paused = 0)
      ~> (pc[c] # "asleep" \/ line["run"] = 0 \/ cpu_paused # 0)
=============================================================================
