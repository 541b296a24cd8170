----------------------------- MODULE ModuleLoad -----------------------------
(***************************************************************************)
(* Loading and unloading of the two kernel modules: cpu_init (gpio_init,   *)
(* chrdev_init) and cpu_exit of cpu_emulator_driver.c, trace_init and      *)
(* trace_exit of trace_collector_driver.c.  Each acquires its resources    *)
(* one after the other; any acquisition may fail, and the code then gives  *)
(* back some of what it has.  What the kernel calls return is external:    *)
(* class_create and device_create report failure by an error pointer,      *)
(* never by NULL, and an interrupt line that is taken is refused.          *)
(***************************************************************************)
EXTENDS Integers, Sequences

CONSTANT MaxLoads  \* bound: how often insmod is called, per module

Drivers == {"cpu", "trace"}

IrqLines == {"run_irq", "pause_irq", "step_irq"}
Chrdev   == {"region", "cdev", "class", "device"}

\* What each init function acquires, in order; "gpio" stands for looking up the
\* pins and setting their direction.
Plan == [cpu   |-> <<"gpio", "run_irq", "pause_irq", "step_irq", "region", "cdev", "class", "device">>,
         trace |-> <<"region", "cdev", "class", "device">>]

VARIABLES
  state,  \* of each module: "unloaded", "init", "loaded" or "oops"
  at,     \* position in its plan
  held,   \* resources it has
  lit,    \* some LED, or the output device, is on
  loads   \* calls of insmod

vars == <<state, at, held, lit, loads>>

Init ==
  /\ state = [d \in Drivers |-> "unloaded"]
  /\ at = [d \in Drivers |-> 1]
  /\ held = [d \in Drivers |-> {}]
  /\ lit = FALSE
  /\ loads = [d \in Drivers |-> 0]

-----------------------------------------------------------------------------
Insmod(d) ==
  /\ state[d] = "unloaded"
  /\ loads[d] < MaxLoads
  /\ loads' = [loads EXCEPT ![d] = @ + 1]
  /\ state' = [state EXCEPT ![d] = "init"]
  /\ at' = [at EXCEPT ![d] = 1]
  /\ UNCHANGED <<held, lit>>

Resource(d) == Plan[d][at[d]]

\* The step after the current one, or the return of 0.
Advance(d) ==
  /\ at' = [at EXCEPT ![d] = @ + 1]
  /\ state' = [state EXCEPT ![d] = IF at[d] = Len(Plan[d]) THEN "loaded" ELSE "init"]

\* The current step succeeds; the pins' initial output level is 0.
Acquire(d) ==
  /\ state[d] = "init"
  /\ Resource(d) \notin held[d]
  /\ held' = [held EXCEPT ![d] = IF Resource(d) = "gpio" THEN @ ELSE @ \cup {Resource(d)}]
  /\ Advance(d)
  /\ UNCHANGED <<lit, loads>>

\* Mutant: one free_irq is missing.
GivenBackLess(r) ==
  CASE r \in {"gpio", "run_irq", "region"} -> {}
    [] r = "pause_irq" -> {"run_irq"}
    [] r = "step_irq" -> {"pause_irq"}
    [] r = "cdev" -> {"region"}
    [] r = "class" -> {"region", "cdev"}

\* What is given back when the acquisition of r fails.  The failure of the
\* character device does not give back the interrupt lines.
GivenBack(r) ==
  CASE r \in {"gpio", "run_irq", "region"} -> {}
    [] r = "pause_irq" -> {"run_irq"}
    [] r = "step_irq" -> {"run_irq", "pause_irq"}
    [] r = "cdev" -> {"region"}
    [] r = "class" -> {"region", "cdev"}

\* The failure is noticed and returned.  (trace_init tests class_create's result
\* with IS_ERR.)
Fail(d) ==
  /\ state[d] = "init"
  /\ Resource(d) # "device" /\ ~(d = "cpu" /\ Resource(d) = "class")
  /\ held' = [held EXCEPT ![d] = @ \ GivenBack(Resource(d))]
  /\ state' = [state EXCEPT ![d] = "unloaded"]
  /\ UNCHANGED <<at, lit, loads>>

\* cpu_init tests class_create's result for NULL and then dereferences it.
ClassOops ==
  /\ state["cpu"] = "init" /\ Resource("cpu") = "class"
  /\ state' = [state EXCEPT !["cpu"] = "oops"]
  /\ UNCHANGED <<at, held, lit, loads>>

\* Both test device_create's result for NULL: its failure passes for success.
DeviceMissed(d) ==
  /\ state[d] = "init" /\ Resource(d) = "device"
  /\ Advance(d)
  /\ UNCHANGED <<held, lit, loads>>

\* The emulated CPU switches its LEDs and its output device.
Light ==
  /\ state["cpu"] = "loaded"
  /\ lit' = TRUE
  /\ UNCHANGED <<state, at, held, loads>>

\* cpu_exit and trace_exit give everything back; cpu_exit clears the outputs.
Rmmod(d) ==
  /\ state[d] = "loaded"
  /\ state' = [state EXCEPT ![d] = "unloaded"]
  /\ held' = [held EXCEPT ![d] = @ \ (IrqLines \cup Chrdev)]
  /\ lit' = (lit /\ d # "cpu")
  /\ UNCHANGED <<at, loads>>

Next ==
  \/ \E d \in Drivers : Insmod(d) \/ Acquire(d) \/ Fail(d) \/ DeviceMissed(d) \/ Rmmod(d)
  \/ ClassOops \/ Light

Spec == Init /\ [][Next]_vars

-----------------------------------------------------------------------------
(***************************************************************************)
(* Properties.                                                             *)
(***************************************************************************)

\* A module that is not loaded holds no part of its character device; the trace
\* collector then holds nothing, the CPU driver nothing or (after a failure of
\* chrdev_init) all three interrupt lines, never some of them, and its LEDs and
\* output are off.
CleanWhenUnloaded ==
  /\ state["trace"] = "unloaded" => held["trace"] = {}
  /\ state["cpu"] = "unloaded" => held["cpu"] \in {{}, IrqLines} /\ ~lit

\* A failure to create its class or its device makes cpu_init fail.
InitReportsFailure ==
  state["cpu"] # "oops" /\ (state["cpu"] = "loaded" => "device" \in held["cpu"])
=============================================================================
