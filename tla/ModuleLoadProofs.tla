-------------------------- MODULE ModuleLoadProofs --------------------------
(***************************************************************************)
(* What is proved of the loading and unloading of the kernel modules, for  *)
(* any number of calls of insmod.                                          *)
(***************************************************************************)
EXTENDS ModuleLoad, TLAPS

\* What the CPU driver holds on reaching step k of its plan, when nothing was left
\* over; the pins are not held.  After a failure of chrdev_init the three interrupt
\* lines are left over, and then step 2, which asks for the first one, is the last.
CpuHeld(k) ==
  CASE k \in {1, 2} -> {}
    [] k = 3 -> {"run_irq"}
    [] k = 4 -> {"run_irq", "pause_irq"}
    [] k = 5 -> IrqLines
    [] k = 6 -> IrqLines \cup {"region"}
    [] k = 7 -> IrqLines \cup {"region", "cdev"}
    [] k = 8 -> IrqLines \cup {"region", "cdev", "class"}

TraceHeld(k) ==
  CASE k = 1 -> {}
    [] k = 2 -> {"region"}
    [] k = 3 -> {"region", "cdev"}
    [] k = 4 -> {"region", "cdev", "class"}

TypeInv ==
  /\ state \in [Drivers -> {"unloaded", "init", "loaded", "oops"}]
  /\ at \in [Drivers -> Nat]
  /\ held \in [Drivers -> SUBSET (IrqLines \cup Chrdev)]
  /\ lit \in BOOLEAN

CpuInv ==
  /\ state["cpu"] = "init" =>
       /\ at["cpu"] \in 1..8
       /\ held["cpu"] = CpuHeld(at["cpu"]) \/ (at["cpu"] \in {1, 2} /\ held["cpu"] = IrqLines)
  /\ state["cpu"] = "unloaded" => held["cpu"] \in {{}, IrqLines}
  /\ lit => state["cpu"] = "loaded"

TraceInv ==
  /\ state["trace"] = "init" => at["trace"] \in 1..4 /\ held["trace"] = TraceHeld(at["trace"])
  /\ state["trace"] = "unloaded" => held["trace"] = {}

LoadInv == TypeInv /\ CpuInv /\ TraceInv

LEMMA Plans ==
  /\ Len(Plan["cpu"]) = 8 /\ Len(Plan["trace"]) = 4
  /\ Plan["cpu"][1] = "gpio" /\ Plan["cpu"][2] = "run_irq" /\ Plan["cpu"][3] = "pause_irq"
  /\ Plan["cpu"][4] = "step_irq" /\ Plan["cpu"][5] = "region" /\ Plan["cpu"][6] = "cdev"
  /\ Plan["cpu"][7] = "class" /\ Plan["cpu"][8] = "device"
  /\ Plan["trace"][1] = "region" /\ Plan["trace"][2] = "cdev"
  /\ Plan["trace"][3] = "class" /\ Plan["trace"][4] = "device"
BY DEF Plan

LEMMA CpuHeldNext ==
  ASSUME NEW k \in 2..7
  PROVE  CpuHeld(k + 1) = CpuHeld(k) \cup {Plan["cpu"][k]}
<1>1. CASE k = 2
  BY <1>1, Plans DEF CpuHeld
<1>2. CASE k = 3
  BY <1>2, Plans DEF CpuHeld
<1>3. CASE k = 4
  BY <1>3, Plans DEF CpuHeld, IrqLines
<1>4. CASE k = 5
  BY <1>4, Plans DEF CpuHeld
<1>5. CASE k = 6
  BY <1>5, Plans DEF CpuHeld
<1>6. CASE k = 7
  BY <1>6, Plans DEF CpuHeld
<1> QED
  BY <1>1, <1>2, <1>3, <1>4, <1>5, <1>6

LEMMA LoadInvStep == LoadInv /\ [Next]_vars => LoadInv'
<1> SUFFICES ASSUME LoadInv, [Next]_vars
             PROVE  LoadInv'
  OBVIOUS
<1> USE DEF LoadInv
<1>1. ASSUME NEW d \in Drivers, Insmod(d)
      PROVE  LoadInv'
  BY <1>1 DEF Insmod, TypeInv, CpuInv, TraceInv, Drivers, CpuHeld, TraceHeld
<1>2. ASSUME NEW d \in Drivers, Acquire(d)
      PROVE  LoadInv'
  <2>1. CASE d = "cpu"
    <3>1. at["cpu"] \in 1..8
      BY <1>2, <2>1 DEF Acquire, CpuInv
    <3>2. CpuInv'
      <4>1. /\ state' = [state EXCEPT !["cpu"] = IF at["cpu"] = 8 THEN "loaded" ELSE "init"]
            /\ at' = [at EXCEPT !["cpu"] = @ + 1] /\ lit' = lit /\ state["cpu"] = "init"
            /\ held'["cpu"] = IF at["cpu"] = 1 THEN held["cpu"]
                              ELSE held["cpu"] \cup {Plan["cpu"][at["cpu"]]}
            /\ Plan["cpu"][at["cpu"]] \notin held["cpu"]
        BY <1>2, <2>1, <3>1, Plans DEF Acquire, Advance, Resource, TypeInv, Drivers
      <4>2. state'["cpu"] = (IF at["cpu"] = 8 THEN "loaded" ELSE "init") /\ at'["cpu"] = at["cpu"] + 1
        BY <4>1 DEF TypeInv, Drivers
      <4>3. CASE at["cpu"] = 1
        BY <4>1, <4>2, <4>3 DEF CpuInv, CpuHeld
      <4>4. CASE at["cpu"] \in 2..7
        <5>1. held["cpu"] = CpuHeld(at["cpu"])
          BY <4>1, <4>4, Plans DEF CpuInv, IrqLines
        <5>2. held'["cpu"] = CpuHeld(at["cpu"] + 1)
          <6>1. PICK k \in 2..7 : k = at["cpu"]
            BY <4>4
          <6>2. held'["cpu"] = CpuHeld(k) \cup {Plan["cpu"][k]}
            BY <4>1, <5>1, <6>1
          <6> QED
            BY <6>1, <6>2, CpuHeldNext
        <5> QED
          <6>1. at'["cpu"] \in 1..8 /\ state'["cpu"] = "init" /\ held'["cpu"] = CpuHeld(at'["cpu"])
            BY <4>2, <4>4, <5>2
          <6>2. ~lit'
            BY <4>1 DEF CpuInv
          <6> QED
            BY <6>1, <6>2 DEF CpuInv, CpuHeld
      <4>5. CASE at["cpu"] = 8
        BY <4>1, <4>2, <4>5 DEF CpuInv
      <4> QED
        BY <3>1, <4>3, <4>4, <4>5
    <3>3. TypeInv'
      BY <1>2, <2>1, <3>1, Plans DEF Acquire, Advance, Resource, TypeInv, IrqLines, Chrdev, Drivers
    <3>4. TraceInv'
      BY <1>2, <2>1 DEF Acquire, Advance, TypeInv, TraceInv, Drivers
    <3> QED
      BY <3>2, <3>3, <3>4
  <2>2. CASE d = "trace"
    <3>1. at["trace"] \in 1..4
      BY <1>2, <2>2 DEF Acquire, TraceInv
    <3>2. TraceInv'
      BY <1>2, <2>2, <3>1, Plans
      DEF Acquire, Advance, Resource, TypeInv, TraceInv, TraceHeld, IrqLines, Chrdev, Drivers
    <3>3. TypeInv'
      BY <1>2, <2>2, <3>1, Plans DEF Acquire, Advance, Resource, TypeInv, IrqLines, Chrdev, Drivers
    <3>4. CpuInv'
      BY <1>2, <2>2 DEF Acquire, Advance, TypeInv, CpuInv, Drivers
    <3> QED
      BY <3>2, <3>3, <3>4
  <2> QED
    BY <2>1, <2>2 DEF Drivers
<1>3. ASSUME NEW d \in Drivers, Fail(d)
      PROVE  LoadInv'
  <2>1. CASE d = "cpu"
    <3>1. at["cpu"] \in 1..8
      BY <1>3, <2>1 DEF Fail, CpuInv
    <3>2. CpuInv'
      BY <1>3, <2>1, <3>1, Plans
      DEF Fail, Resource, GivenBack, TypeInv, CpuInv, CpuHeld, IrqLines, Chrdev, Drivers
    <3>3. TypeInv' /\ TraceInv'
      BY <1>3, <2>1 DEF Fail, TypeInv, TraceInv, Drivers
    <3> QED
      BY <3>2, <3>3
  <2>2. CASE d = "trace"
    <3>1. at["trace"] \in 1..4
      BY <1>3, <2>2 DEF Fail, TraceInv
    <3>2. TraceInv'
      BY <1>3, <2>2, <3>1, Plans
      DEF Fail, Resource, GivenBack, TypeInv, TraceInv, TraceHeld, IrqLines, Chrdev, Drivers
    <3>3. TypeInv' /\ CpuInv'
      BY <1>3, <2>2 DEF Fail, TypeInv, CpuInv, Drivers
    <3> QED
      BY <3>2, <3>3
  <2> QED
    BY <2>1, <2>2 DEF Drivers
<1>4. ASSUME NEW d \in Drivers, DeviceMissed(d)
      PROVE  LoadInv'
  <2>1. CASE d = "cpu"
    BY <1>4, <2>1, Plans DEF DeviceMissed, Advance, Resource, TypeInv, CpuInv, TraceInv, Drivers
  <2>2. CASE d = "trace"
    BY <1>4, <2>2, Plans DEF DeviceMissed, Advance, Resource, TypeInv, CpuInv, TraceInv, Drivers
  <2> QED
    BY <2>1, <2>2 DEF Drivers
<1>5. ASSUME NEW d \in Drivers, Rmmod(d)
      PROVE  LoadInv'
  <2>1. held'[d] = {} /\ state'[d] = "unloaded"
    BY <1>5 DEF Rmmod, TypeInv
  <2>2. TypeInv'
    BY <1>5 DEF Rmmod, TypeInv
  <2>3. CASE d = "cpu"
    BY <1>5, <2>1, <2>2, <2>3 DEF Rmmod, TypeInv, CpuInv, TraceInv, Drivers
  <2>4. CASE d = "trace"
    BY <1>5, <2>1, <2>2, <2>4 DEF Rmmod, TypeInv, CpuInv, TraceInv, Drivers
  <2> QED
    BY <2>3, <2>4 DEF Drivers
<1>6. CASE ClassOops
  BY <1>6 DEF ClassOops, TypeInv, CpuInv, TraceInv, Drivers
<1>7. CASE Light
  BY <1>7 DEF Light, TypeInv, CpuInv, TraceInv, Drivers
<1>8. CASE UNCHANGED vars
  BY <1>8 DEF vars, TypeInv, CpuInv, TraceInv
<1> QED
  BY <1>1, <1>2, <1>3, <1>4, <1>5, <1>6, <1>7, <1>8 DEF Next

\* However often the modules are loaded and unloaded, and whichever acquisitions fail:
\* a module that is not loaded holds nothing, or all three interrupt lines of the CPU
\* driver, and its outputs are off.
THEOREM CleanWhenUnloadedHolds == Spec => []CleanWhenUnloaded
<1>1. Init => LoadInv
  <2>1. Init => TypeInv
    <3> SUFFICES ASSUME Init
                 PROVE  TypeInv
      OBVIOUS
    <3>1. held \in [Drivers -> SUBSET (IrqLines \cup Chrdev)]
      BY DEF Init
    <3>2. lit \in BOOLEAN /\ at \in [Drivers -> Nat]
      BY DEF Init
    <3>3. state \in [Drivers -> {"unloaded", "init", "loaded", "oops"}]
      BY DEF Init
    <3> QED
      BY <3>1, <3>2, <3>3 DEF TypeInv
  <2>2. Init => CpuInv /\ TraceInv
    BY DEF Init, CpuInv, TraceInv, Drivers
  <2> QED
    BY <2>1, <2>2 DEF LoadInv
<1>2. LoadInv => CleanWhenUnloaded
  BY DEF LoadInv, CpuInv, TraceInv, CleanWhenUnloaded
<1> QED
  BY <1>1, <1>2, LoadInvStep, PTL DEF Spec
=============================================================================
