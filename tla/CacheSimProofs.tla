--------------------------- MODULE CacheSimProofs ---------------------------
(***************************************************************************)
(* What is proved of the cache simulator, for every size of the caches,    *)
(* every trace and every batch size.                                       *)
(***************************************************************************)
EXTENDS CacheSim, WordsProofs, FiniteSetTheorems, TLAPS

-----------------------------------------------------------------------------
(***************************************************************************)
(* Natural numbers: the least of a set.  (LeastExists and SetInduction are *)
(* in WordsProofs.)                                                        *)
(***************************************************************************)

\* What Min returns for a nonempty set of natural numbers.
LEMMA MinIsLeast ==
  ASSUME NEW S, S \subseteq Nat, S # {}
  PROVE  Min(S) \in S /\ \A y \in S : Min(S) <= y
<1>1. \E x \in S : \A y \in S : x =< y
  BY LeastExists
<1> QED
  BY <1>1, Zenon DEF Min

-----------------------------------------------------------------------------
(***************************************************************************)
(* Powers of two.                                                          *)
(***************************************************************************)

\* Division by a divisor is exact.
LEMMA Exact ==
  ASSUME NEW d \in Nat \ {0}, NEW q \in Nat
  PROVE  (d * q) % d = 0 /\ (d * q) \div d = q
<1>1. d * q = q * d
  OBVIOUS
<1> QED
  BY <1>1

LEMMA Remainder ==
  ASSUME NEW x \in Nat, NEW d \in Nat \ {0}, x % d = 0
  PROVE  \E q \in Nat : x = d * q
<1>1. x \div d \in Nat
  OBVIOUS
<1>2. x = d * (x \div d) + (x % d)
  OBVIOUS
<1> QED
  BY <1>1, <1>2

\* The factors of a positive product are positive and no greater than it.
LEMMA Factors ==
  ASSUME NEW d \in Nat, NEW q \in Nat, d * q > 0
  PROVE  d \in 1..(d * q) /\ q \in 1..(d * q)
<1>1. d >= 1 /\ q >= 1
  OBVIOUS
<1>2. (d - 1) * (q - 1) >= 0
  BY <1>1
<1>3. d * q = (d - 1) * (q - 1) + d + q - 1
  OBVIOUS
<1>4. d * q \in Int
  OBVIOUS
<1> QED
  BY <1>1, <1>2, <1>3, <1>4

\* A power of two, by its factors.
LEMMA PowerByFactors ==
  ASSUME NEW x \in Nat
  PROVE  is_power_of_two(x) <=>
           x > 0 /\ \A d, q \in Nat : x = d * q /\ d % 2 = 1 => d = 1
<1>1. ASSUME is_power_of_two(x), NEW d \in Nat, NEW q \in Nat, x = d * q, d % 2 = 1
      PROVE  d = 1
  <2>1. x > 0
    BY <1>1 DEF is_power_of_two
  <2>2. d \in 1..x
    BY <1>1, <2>1, Factors
  <2>3. x % d = 0
    BY <1>1, <2>2, Exact
  <2> QED
    BY <1>1, <2>2, <2>3 DEF is_power_of_two
<1>2. ASSUME x > 0, \A d, q \in Nat : x = d * q /\ d % 2 = 1 => d = 1
      PROVE  is_power_of_two(x)
  <2> SUFFICES ASSUME NEW d \in 2..x, x % d = 0, d % 2 # 0
               PROVE  FALSE
    BY <1>2 DEF is_power_of_two
  <2>1. PICK q \in Nat : x = d * q
    BY Remainder
  <2>2. d % 2 = 1
    OBVIOUS
  <2> QED
    BY <1>2, <2>1, <2>2
<1> QED
  BY <1>1, <1>2 DEF is_power_of_two

LEMMA OddFactor ==
  ASSUME NEW x \in Nat, is_power_of_two(x),
         NEW d \in Nat, NEW q \in Nat, x = d * q, d % 2 = 1
  PROVE  d = 1
BY PowerByFactors

LEMMA PowerHalf ==
  ASSUME NEW x \in Nat, is_power_of_two(x), x # 1
  PROVE  \E h \in Nat : x = 2 * h /\ is_power_of_two(h)
<1>1. x % 2 = 0
  <2> SUFFICES ASSUME x % 2 = 1
               PROVE  FALSE
    OBVIOUS
  <2>1. x = x * 1 /\ 1 \in Nat
    OBVIOUS
  <2> QED
    BY <2>1, OddFactor
<1>2. PICK h \in Nat : x = 2 * h
  BY <1>1
<1>3. ASSUME NEW d \in Nat, NEW q \in Nat, h = d * q, d % 2 = 1
      PROVE  d = 1
  <2>1. x = d * (2 * q)
    BY <1>2, <1>3
  <2>2. 2 * q \in Nat
    OBVIOUS
  <2> QED
    BY <1>3, <2>1, <2>2, OddFactor
<1>4. h > 0
  BY <1>2 DEF is_power_of_two
<1> QED
  BY <1>2, <1>3, <1>4, PowerByFactors

LEMMA PowerDouble ==
  ASSUME NEW h \in Nat, is_power_of_two(h)
  PROVE  is_power_of_two(2 * h)
<1>1. ASSUME NEW d \in Nat, NEW q \in Nat, 2 * h = d * q, d % 2 = 1
      PROVE  d = 1
  <2>1. PICK a \in Nat : d = 2 * a + 1
    BY <1>1
  <2>2. q % 2 = 0
    <3> SUFFICES ASSUME q % 2 = 1
                 PROVE  FALSE
      OBVIOUS
    <3>1. PICK b \in Nat : q = 2 * b + 1
      OBVIOUS
    <3>2. d * q = 2 * (2 * a * b + a + b) + 1
      BY <2>1, <3>1
    <3>3. 2 * a * b + a + b \in Nat
      OBVIOUS
    <3> QED
      BY <1>1, <3>2, <3>3
  <2>3. PICK p \in Nat : q = 2 * p
    BY <2>2
  <2>4. 2 * h = 2 * (d * p) /\ d * p \in Nat
    BY <1>1, <2>3
  <2>5. h = d * p
    BY <2>4
  <2> QED
    BY <1>1, <2>5, PowerByFactors
<1>2. 2 * h \in Nat /\ 2 * h > 0
  BY DEF is_power_of_two
<1> QED
  BY <1>1, <1>2, PowerByFactors

LEMMA PowerTimes ==
  ASSUME NEW a \in Nat, is_power_of_two(a), NEW b \in Nat, is_power_of_two(b)
  PROVE  is_power_of_two(a * b)
<1> DEFINE S == {n \in Nat : \A x \in 0..n : is_power_of_two(x) => is_power_of_two(x * b)}
<1>1. 0 \in S
  BY DEF is_power_of_two
<1>2. ASSUME NEW n \in Nat, n \in S
      PROVE  n + 1 \in S
  <2> SUFFICES ASSUME NEW x \in 0..(n + 1), is_power_of_two(x)
               PROVE  is_power_of_two(x * b)
    OBVIOUS
  <2>1. CASE x = 1
    <3>1. x * b = b
      BY <2>1
    <3> QED
      BY <3>1
  <2>2. CASE x # 1
    <3>1. PICK h \in Nat : x = 2 * h /\ is_power_of_two(h)
      BY <2>2, PowerHalf
    <3>2. h \in 0..n
      BY <3>1
    <3>3. is_power_of_two(h * b)
      BY <1>2, <3>1, <3>2
    <3>4. h * b \in Nat /\ x * b = 2 * (h * b)
      BY <3>1
    <3> QED
      BY <3>3, <3>4, PowerDouble
  <2> QED
    BY <2>1, <2>2
<1> HIDE DEF S
<1>3. Nat \subseteq S
  BY <1>1, <1>2, SetInduction
<1> QED
  BY <1>3 DEF S

LEMMA PowerDivides ==
  ASSUME NEW p \in Nat, is_power_of_two(p), NEW q \in Nat, is_power_of_two(q), p <= q
  PROVE  \E k \in Nat : q = p * k /\ is_power_of_two(k)
<1> DEFINE Divides(x, y) == \E k \in Nat : y = x * k
           S == {n \in Nat : \A x, y \in 0..n :
                   is_power_of_two(x) /\ is_power_of_two(y) /\ x <= y => Divides(x, y)}
<1>1. 0 \in S
  BY DEF is_power_of_two
<1>2. ASSUME NEW n \in Nat, n \in S
      PROVE  n + 1 \in S
  <2> SUFFICES ASSUME NEW x \in 0..(n + 1), NEW y \in 0..(n + 1),
                      is_power_of_two(x), is_power_of_two(y), x <= y
               PROVE  Divides(x, y)
    OBVIOUS
  <2>1. CASE x = 1
    <3>1. y = x * y
      BY <2>1
    <3> QED
      BY <3>1
  <2>2. CASE x # 1
    <3>1. x > 0
      BY DEF is_power_of_two
    <3>2. PICK g \in Nat : x = 2 * g /\ is_power_of_two(g)
      BY <2>2, PowerHalf
    <3>3. PICK h \in Nat : y = 2 * h /\ is_power_of_two(h)
      BY <2>2, <3>1, PowerHalf
    <3>4. g \in 0..n /\ h \in 0..n /\ g <= h
      BY <3>2, <3>3
    <3>5. PICK k \in Nat : h = g * k
      BY <1>2, <3>2, <3>3, <3>4
    <3>6. y = x * k
      BY <3>2, <3>3, <3>5
    <3> QED
      BY <3>6
  <2> QED
    BY <2>1, <2>2
<1> HIDE DEF S
<1>3. Nat \subseteq S
  BY <1>1, <1>2, SetInduction
<1>4. PICK k \in Nat : q = p * k
  BY <1>3 DEF S
<1>5. ASSUME NEW d \in Nat, NEW e \in Nat, k = d * e, d % 2 = 1
      PROVE  d = 1
  <2>1. q = d * (p * e) /\ p * e \in Nat
    BY <1>4, <1>5
  <2> QED
    BY <1>5, <2>1, OddFactor
<1>6. k > 0
  <2>1. q > 0
    BY DEF is_power_of_two
  <2> QED
    BY <1>4, <2>1
<1> QED
  BY <1>4, <1>5, <1>6, PowerByFactors

-----------------------------------------------------------------------------
(***************************************************************************)
(* The parameters.  A question is only left with a valid answer, and no    *)
(* answer is touched again: not the number of levels, which the later      *)
(* questions range over, nor the associativity, which bounds the size.     *)
(***************************************************************************)

ParamTypes ==
  /\ num_lvls \in Nat /\ line_size \in Nat
  /\ assoc \in [Levels -> Nat]
  /\ lvl_size \in [Levels -> Nat]

Questions ==
  {<<"num_lvls", 0>>, <<"line_size", 0>>, <<"policy", 0>>} \cup ({"assoc", "lvl_size"} \X Levels)

\* Level k's associativity, or its size, has been asked for.
Given(what, after, k) ==
  question[1] \in after \/ (question[1] = what /\ k < question[2])

ConfigInv ==
  /\ question \in Questions
  /\ question[1] # "num_lvls" => num_lvls \in Levels
  /\ question[1] \notin {"num_lvls", "line_size"} => line_size \in LineSizes
  /\ question[1] \in {"assoc", "lvl_size"} => question[2] <= num_lvls
  /\ \A k \in Levels :
       /\ k <= num_lvls /\ Given("assoc", {"lvl_size", "policy"}, k) => is_power_of_two(assoc[k])
       /\ k <= num_lvls /\ Given("lvl_size", {"policy"}, k) => is_valid_lvl_size(lvl_size[k], k)
  /\ phase \notin {"configure", "spin"} => question[1] = "policy"

Config == ParamTypes /\ ConfigInv

LEMMA ConfigInit == Init => Config
BY DEF Init, Config, ParamTypes, ConfigInv, Questions, Given, Levels

\* Outside the dialogue nothing is asked or answered.
LEMMA ConfigKept ==
  ASSUME Config, UNCHANGED <<question, parameters>>,
         phase' \notin {"configure", "spin"} => phase \notin {"configure", "spin"} \/ question[1] = "policy"
  PROVE  Config'
BY DEF Config, ParamTypes, ConfigInv, Given, is_valid_lvl_size, parameters

LEMMA ConfigStep == Config /\ [Next]_vars => Config'
<1> SUFFICES ASSUME Config, [Next]_vars
             PROVE  Config'
  OBVIOUS
<1> USE DEF Config
<1>1. ASSUME phase = "configure", NEW v \in Numbers, AskNumLvls(v)
      PROVE  Config'
  <2>1. ParamTypes'
    BY <1>1, NumbersAssumption DEF AskNumLvls, ParamTypes
  <2>2. ConfigInv'
    BY <1>1, <2>1 DEF AskNumLvls, Answer, ConfigInv, Questions, Given, ParamTypes, Levels
  <2> QED
    BY <2>1, <2>2
<1>2. ASSUME phase = "configure", NEW v \in Numbers, AskLineSize(v)
      PROVE  Config'
  <2>1. ParamTypes'
    BY <1>2, NumbersAssumption DEF AskLineSize, ParamTypes
  <2>2. ConfigInv'
    BY <1>2, <2>1 DEF AskLineSize, Answer, ConfigInv, Questions, Given, ParamTypes, Levels
  <2> QED
    BY <2>1, <2>2
<1>3. ASSUME phase = "configure", NEW v \in Numbers, NEW l \in Levels, AskAssoc(l, v)
      PROVE  Config'
  <2>1. ParamTypes'
    BY <1>3, NumbersAssumption DEF AskAssoc, ParamTypes
  <2>2. ConfigInv'
    BY <1>3, <2>1 DEF AskAssoc, Answer, NextLevel, ConfigInv, Questions, Given, ParamTypes, Levels
  <2> QED
    BY <2>1, <2>2
<1>4. ASSUME phase = "configure", NEW v \in Numbers, NEW l \in Levels, AskLvlSize(l, v)
      PROVE  Config'
  <2>1. ParamTypes'
    BY <1>4, NumbersAssumption DEF AskLvlSize, ParamTypes
  <2>2. ConfigInv'
    BY <1>4, <2>1 DEF AskLvlSize, Answer, NextLevel, ConfigInv, Questions, Given, ParamTypes, Levels,
                      is_valid_lvl_size
  <2> QED
    BY <2>1, <2>2
<1>5. ASSUME phase = "configure", NEW v \in Numbers, AskPolicy(v)
      PROVE  Config'
  BY <1>5, Zenon DEF AskPolicy, Config, ParamTypes, ConfigInv, Given, is_valid_lvl_size
<1>6. CASE InputEnds
  BY <1>6, ConfigKept DEF InputEnds
<1>7. CASE Load
  BY <1>7, ConfigKept DEF Load, LoadEnds, ReadBatch, ReallocFails
<1>8. CASE NoTraces \/ InitCaches \/ InitNoMem \/ Simulate \/ Report
  BY <1>8, ConfigKept DEF NoTraces, InitCaches, InitNoMem, Simulate, Report
<1>9. CASE UNCHANGED vars
  BY <1>9, ConfigKept DEF vars
<1> QED
  BY <1>1, <1>2, <1>3, <1>4, <1>5, <1>6, <1>7, <1>8, <1>9 DEF Next, Configure

\* With every question answered, cache_init's division is exact and its result is a
\* power of two: the size is one, and no less than the product of the other two.
LEMMA AnsweredIsUsable ==
  ASSUME Config, question[1] = "policy", NEW l \in 1..num_lvls
  PROVE  /\ l \in Levels
         /\ line_size \in Nat \ {0} /\ assoc[l] \in Nat \ {0}
         /\ NumSets(l) \in Nat \ {0} /\ is_power_of_two(NumSets(l))
<1>1. l \in Levels /\ num_lvls \in Nat
  BY DEF Config, ConfigInv, ParamTypes, Levels
<1>2. line_size \in Nat /\ is_power_of_two(line_size)
  BY LinesAssumption DEF Config, ConfigInv, ParamTypes
<1>3. assoc[l] \in Nat /\ is_power_of_two(assoc[l])
  BY <1>1 DEF Config, ConfigInv, ParamTypes, Given
<1>4. lvl_size[l] \in Nat /\ is_power_of_two(lvl_size[l]) /\ lvl_size[l] >= assoc[l] * line_size
  BY <1>1 DEF Config, ConfigInv, ParamTypes, Given, is_valid_lvl_size
<1>5. PICK p \in Nat : p = line_size * assoc[l] /\ is_power_of_two(p) /\ p <= lvl_size[l]
  BY <1>2, <1>3, <1>4, PowerTimes
<1>6. PICK k \in Nat : lvl_size[l] = p * k /\ is_power_of_two(k)
  BY <1>4, <1>5, PowerDivides
<1>7. p > 0 /\ line_size > 0 /\ assoc[l] > 0 /\ k > 0
  BY <1>2, <1>3, <1>5, <1>6 DEF is_power_of_two
<1>8. NumSets(l) = k
  BY <1>5, <1>6, <1>7, Exact DEF NumSets
<1> QED
  BY <1>1, <1>2, <1>3, <1>6, <1>7, <1>8

\* Parameters that get_valid_input accepts never make cache_init fail, whatever the
\* line sizes (powers of two), the greatest associativity and the greatest sizes.
THEOREM AcceptedIsUsableHolds == Spec => []AcceptedIsUsable
<1>1. Init => Config /\ AcceptedIsUsable
  BY ConfigInit DEF Init, AcceptedIsUsable
<1>2. Config /\ AcceptedIsUsable /\ [Next]_vars => (Config /\ AcceptedIsUsable)'
  <2> SUFFICES ASSUME Config, AcceptedIsUsable, [Next]_vars
               PROVE  AcceptedIsUsable'
    BY ConfigStep
  <2>1. CASE InitCaches
    <3>1. question[1] = "policy"
      BY <2>1 DEF InitCaches, Config, ConfigInv
    <3>2. Usable
      BY <3>1, AnsweredIsUsable DEF Usable
    <3> QED
      BY <2>1, <3>2 DEF InitCaches, AcceptedIsUsable
  <2>2. CASE Configure
    BY <2>2 DEF Configure, AskNumLvls, AskLineSize, AskAssoc, AskLvlSize, AskPolicy, InputEnds, Answer,
                AcceptedIsUsable
  <2>3. CASE Load
    BY <2>3 DEF Load, LoadEnds, ReadBatch, ReallocFails, AcceptedIsUsable
  <2>4. CASE NoTraces \/ InitNoMem \/ Simulate \/ Report
    BY <2>4 DEF NoTraces, InitNoMem, Simulate, Report, AcceptedIsUsable
  <2>5. CASE UNCHANGED vars
    BY <2>5 DEF vars, AcceptedIsUsable
  <2> QED
    BY <2>1, <2>2, <2>3, <2>4, <2>5 DEF Next
<1> QED
  BY <1>1, <1>2, PTL DEF Spec

-----------------------------------------------------------------------------
(***************************************************************************)
(* The traces.  A batch never needs the array to be doubled twice, because *)
(* while traces are loaded it is never smaller than one batch.             *)
(***************************************************************************)

LoadInv ==
  /\ traces \in Seq(Addresses) /\ capacity \in Nat /\ lost \in Nat
  /\ phase = "configure" => traces = <<>> /\ lost = 0
  /\ phase = "load" => capacity >= READ_BATCH_SIZE
  /\ TracesHaveNoGap

LEMMA MinOfTwo ==
  ASSUME NEW a \in Int, NEW b \in Int
  PROVE  Min({a, b}) \in Int /\ Min({a, b}) <= a
<1>1. \E x \in {a, b} : \A y \in {a, b} : x =< y
  OBVIOUS
<1> DEFINE m == CHOOSE x \in {a, b} : \A y \in {a, b} : x =< y
<1>2. m \in {a, b} /\ \A y \in {a, b} : m =< y
  BY <1>1, Zenon
<1> QED
  BY <1>2 DEF Min

LEMMA BatchLen ==
  ASSUME LoadInv, NEW batch \in Batches
  PROVE  batch \in Seq(Addresses) /\ Len(batch) \in 1..READ_BATCH_SIZE
<1>1. READ_BATCH_SIZE \in Int /\ MaxTraces - Len(traces) \in Int
  BY BatchAssumption, TracesAssumption DEF LoadInv
<1>2. PICK m : m = Min({READ_BATCH_SIZE, MaxTraces - Len(traces)})
  OBVIOUS
<1>3. m \in Int /\ m <= READ_BATCH_SIZE
  BY <1>1, <1>2, MinOfTwo
<1>4. PICK n \in 1..m : batch \in [1..n -> Addresses]
  BY <1>2 DEF Batches
<1> QED
  BY <1>3, <1>4, BatchAssumption

LEMMA LoadStep == LoadInv /\ [Next]_vars => LoadInv'
<1> SUFFICES ASSUME LoadInv, [Next]_vars
             PROVE  LoadInv'
  OBVIOUS
<1> USE BatchAssumption DEF LoadInv, TracesHaveNoGap
<1>0. <<>> \in Seq(Addresses) /\ Len(<<>>) = 0
  OBVIOUS
<1>1. CASE Configure
  <2>1. ASSUME NEW v \in Numbers, AskPolicy(v)
        PROVE  LoadInv'
    BY <1>0, <1>1, <2>1 DEF Configure, AskPolicy
  <2>2. CASE /\ UNCHANGED <<capacity, traces, lost>>
             /\ phase' \in {"configure", "spin"}
    BY <1>1, <2>2 DEF Configure
  <2> QED
    BY <1>1, <2>1, <2>2
    DEF Configure, AskNumLvls, AskLineSize, AskAssoc, AskLvlSize, InputEnds, Answer
<1>2. ASSUME phase = "load", NEW batch \in Batches, ReadBatch(batch)
      PROVE  LoadInv'
  <2>1. batch \in Seq(Addresses) /\ Len(batch) \in 1..READ_BATCH_SIZE
    BY BatchLen
  <2>2. traces' \in Seq(Addresses) /\ Len(traces') = Len(traces) + Len(batch)
    BY <1>2, <2>1 DEF ReadBatch
  <2> QED
    BY <1>2, <2>1, <2>2 DEF ReadBatch, MustGrow
<1>3. ASSUME phase = "load", NEW batch \in Batches, ReallocFails(batch)
      PROVE  LoadInv'
  BY <1>3, BatchLen DEF ReallocFails
<1>4. CASE phase = "load" /\ LoadEnds
  BY <1>4 DEF LoadEnds
<1>5. CASE NoTraces \/ Report
  <2>1. traces' = <<>> /\ capacity' = 0 /\ lost' \in Nat /\ lost' <= READ_BATCH_SIZE /\ phase' = "done"
    BY <1>5 DEF NoTraces, Report
  <2> QED
    BY <1>0, <2>1
<1>6. CASE InitCaches \/ InitNoMem \/ Simulate
  BY <1>6 DEF InitCaches, InitNoMem, Simulate
<1>7. CASE UNCHANGED vars
  BY <1>7 DEF vars
<1> QED
  BY <1>1, <1>2, <1>3, <1>4, <1>5, <1>6, <1>7 DEF Next, Load

LEMMA LoadInit == Init => LoadInv
BY BatchAssumption DEF Init, LoadInv, TracesHaveNoGap

\* load_traces writes no entry outside its array, although it doubles it only once
\* per batch, and loses at most one batch, the last: for every batch size, initial
\* capacity and length of the trace.
THEOREM TracesHaveNoGapHolds == Spec => []TracesHaveNoGap
<1>1. LoadInv => TracesHaveNoGap
  BY DEF LoadInv
<1> QED
  BY LoadInit, LoadStep, <1>1, PTL DEF Spec

-----------------------------------------------------------------------------
(***************************************************************************)
(* The counts of the report.                                               *)
(***************************************************************************)

CountInv ==
  /\ phase # "sim" => cache = <<>> /\ i = 0
  /\ phase = "sim" =>
       /\ i \in 0..Len(traces)
       /\ DOMAIN cache = 1..num_lvls
       /\ \A l \in 1..num_lvls : cache[l].hits \in Nat /\ cache[l].misses \in Nat
  /\ ReportAddsUp

SimTypes == Config /\ LoadInv

LEMMA SimTypesStep == SimTypes /\ [Next]_vars => SimTypes'
BY ConfigStep, LoadStep DEF SimTypes

\* Which levels an access reaches: the first, and every next one after a miss.
LEMMA ReachedNext ==
  ASSUME NEW addr, NEW l \in Nat \ {0}
  PROVE  /\ Reached(1, addr)
         /\ Reached(l + 1, addr) <=> Reached(l, addr) /\ Hit(l, addr) = {}
<1>1. 1..((l + 1) - 1) = 1..(l - 1) \cup {l} /\ 1..(1 - 1) = {}
  OBVIOUS
<1> QED
  BY <1>1 DEF Reached

LEMMA CountStep == SimTypes /\ CountInv /\ [Next]_vars => CountInv'
<1> SUFFICES ASSUME SimTypes, CountInv, [Next]_vars
             PROVE  CountInv'
  OBVIOUS
<1>1. ASSUME UNCHANGED <<cache, i>>, phase # "sim", phase' # "sim"
      PROVE  CountInv'
  BY <1>1 DEF CountInv, ReportAddsUp, Simulating
<1>2. CASE Configure
  BY <1>1, <1>2 DEF Configure, AskNumLvls, AskLineSize, AskAssoc, AskLvlSize, AskPolicy, InputEnds, Answer,
                    simulation
<1>3. CASE Load
  BY <1>1, <1>3 DEF Load, LoadEnds, ReadBatch, ReallocFails, simulation
<1>4. CASE NoTraces \/ InitNoMem
  BY <1>1, <1>4 DEF NoTraces, InitNoMem, simulation
<1>5. CASE InitCaches
  <2>1. CASE ~Usable
    BY <1>1, <1>5, <2>1 DEF InitCaches
  <2>2. CASE Usable
    <3>1. /\ phase' = "sim" /\ i' = 0 /\ traces' = traces /\ num_lvls' = num_lvls
          /\ cache' = [l \in 1..num_lvls |-> cache_init(l)]
      BY <1>5, <2>2 DEF InitCaches, CountInv, parameters
    <3>2. Len(traces) \in Nat /\ num_lvls \in Nat
      BY DEF SimTypes, LoadInv, Config, ParamTypes
    <3>3. \A l \in 1..num_lvls : cache'[l].hits = 0 /\ cache'[l].misses = 0
      BY <3>1 DEF cache_init
    <3>4. ReportAddsUp'
      BY <3>1, <3>2, <3>3 DEF ReportAddsUp
    <3> QED
      BY <3>1, <3>2, <3>3, <3>4 DEF CountInv
  <2> QED
    BY <2>1, <2>2
<1>6. CASE Simulate
  <2> DEFINE addr == traces[i + 1]
  <2>1. /\ phase = "sim" /\ phase' = "sim" /\ i' = i + 1 /\ traces' = traces /\ num_lvls' = num_lvls
        /\ i < Len(traces)
        /\ cache' = [l \in 1..num_lvls |->
                      IF l \in {k \in 1..num_lvls : Reached(k, addr)}
                      THEN cache_access(l, addr, global_timer + l) ELSE cache[l]]
    BY <1>6 DEF Simulate, parameters
  <2>2. /\ i \in 0..Len(traces) /\ num_lvls \in Nat /\ num_lvls \in Levels /\ Len(traces) \in Nat
        /\ DOMAIN cache = 1..num_lvls
        /\ \A l \in 1..num_lvls : cache[l].hits \in Nat /\ cache[l].misses \in Nat
    BY <2>1 DEF CountInv, SimTypes, LoadInv, Config, ParamTypes, ConfigInv
  <2>3. cache # <<>>
    BY <2>2 DEF Levels
  <2>4. \A l \in 1..num_lvls :
          cache[l].hits + cache[l].misses = IF l = 1 THEN i ELSE cache[l - 1].misses
    BY <2>3 DEF CountInv, ReportAddsUp, Simulating
  <2>5. \A l \in 1..num_lvls :
          /\ cache'[l].hits = cache[l].hits + (IF Reached(l, addr) /\ Hit(l, addr) # {} THEN 1 ELSE 0)
          /\ cache'[l].misses = cache[l].misses + (IF Reached(l, addr) /\ Hit(l, addr) = {} THEN 1 ELSE 0)
    <3> SUFFICES ASSUME NEW l \in 1..num_lvls
                 PROVE  /\ cache'[l].hits = cache[l].hits + (IF Reached(l, addr) /\ Hit(l, addr) # {} THEN 1 ELSE 0)
                        /\ cache'[l].misses = cache[l].misses + (IF Reached(l, addr) /\ Hit(l, addr) = {} THEN 1 ELSE 0)
      OBVIOUS
    <3> HIDE DEF addr
    <3>1. CASE Reached(l, addr)
      <4>1. cache'[l] = cache_access(l, addr, global_timer + l)
        BY <2>1, <3>1
      <4>2. /\ cache'[l].hits = cache[l].hits + (IF Hit(l, addr) # {} THEN 1 ELSE 0)
            /\ cache'[l].misses = cache[l].misses + (IF Hit(l, addr) # {} THEN 0 ELSE 1)
        BY <4>1 DEF cache_access
      <4> QED
        BY <2>2, <3>1, <4>2
    <3>2. CASE ~Reached(l, addr)
      BY <2>1, <2>2, <3>2
    <3> QED
      BY <3>1, <3>2
  <2>6. \A l \in 1..num_lvls : cache'[l].hits \in Nat /\ cache'[l].misses \in Nat
    BY <2>2, <2>5, SMTT(30)
  <2>7. ASSUME NEW l \in 1..num_lvls
        PROVE  cache'[l].hits + cache'[l].misses = IF l = 1 THEN i' ELSE cache'[l - 1].misses
    <3> HIDE DEF addr
    <3>1. cache'[l].hits + cache'[l].misses = cache[l].hits + cache[l].misses + (IF Reached(l, addr) THEN 1 ELSE 0)
      BY <2>2, <2>5, SMTT(30)
    <3>2. CASE l = 1
      BY <2>1, <2>2, <2>4, <3>1, <3>2, ReachedNext
    <3>3. CASE l # 1
      <4>1. l - 1 \in 1..num_lvls /\ l - 1 \in Nat \ {0}
        BY <2>2, <3>3
      <4>2. Reached(l, addr) <=> Reached(l - 1, addr) /\ Hit(l - 1, addr) = {}
        <5>1. l = (l - 1) + 1
          BY <2>2
        <5> QED
          BY <4>1, <5>1, ReachedNext
      <4> QED
        BY <2>2, <2>4, <2>5, <3>1, <3>3, <4>1, <4>2
    <3> QED
      BY <3>2, <3>3
  <2>8. DOMAIN cache' = 1..num_lvls' /\ i' \in 0..Len(traces')
    BY <2>1, <2>2
  <2>9. ReportAddsUp'
    BY <2>1, <2>7 DEF ReportAddsUp
  <2> QED
    BY <2>1, <2>6, <2>8, <2>9 DEF CountInv
<1>7. CASE Report
  BY <1>7 DEF Report, CountInv, ReportAddsUp, Simulating
<1>8. CASE UNCHANGED vars
  BY <1>8 DEF vars, simulation, parameters, CountInv, ReportAddsUp, Simulating
<1> QED
  BY <1>2, <1>3, <1>4, <1>5, <1>6, <1>7, <1>8 DEF Next

\* The figures that the report prints add up at every access, for every
\* configuration and trace: hits and misses of a level are the misses of the level
\* before it.
THEOREM ReportAddsUpHolds == Spec => []ReportAddsUp
<1>1. Init => SimTypes /\ CountInv
  <2>1. Init => CountInv
    BY DEF Init, CountInv, ReportAddsUp, Simulating
  <2> QED
    BY <2>1, ConfigInit, LoadInit DEF SimTypes
<1>2. SimTypes /\ CountInv /\ [Next]_vars => (SimTypes /\ CountInv)'
  BY SimTypesStep, CountStep
<1>3. CountInv => ReportAddsUp
  BY DEF CountInv
<1> QED
  BY <1>1, <1>2, <1>3, PTL DEF Spec

-----------------------------------------------------------------------------
(***************************************************************************)
(* The sets of a level.  An access writes one way: the one that hit, the   *)
(* first free one, or the victim of a full set, with a time later than all *)
(* times in the caches.                                                    *)
(***************************************************************************)

Line == [valid : BOOLEAN, tag : Nat, last_used : Nat]

WellFormed(n, set, t) ==
  \A w \in 0..(n - 1) :
    set[w].valid =>
      /\ set[w].last_used \in 1..t
      /\ \A v \in 0..(w - 1) :
           /\ set[v].valid
           /\ set[v].tag # set[w].tag
           /\ set[v].last_used # set[w].last_used

SetInv ==
  /\ global_timer \in Nat
  /\ phase = "sim" =>
       \A l \in 1..num_lvls :
         /\ cache[l].sets \in [0..(NumSets(l) - 1) -> [Ways(l) -> Line]]
         /\ \A s \in 0..(NumSets(l) - 1) : WellFormed(assoc[l], cache[l].sets[s], global_timer)

LEMMA LaterWellFormed ==
  ASSUME NEW n \in Nat, NEW set \in [0..(n - 1) -> Line], NEW t \in Nat, NEW u \in Nat, t <= u,
         WellFormed(n, set, t)
  PROVE  WellFormed(n, set, u)
BY DEF WellFormed, Line

\* Writing a line that is in no other way, in a way that only valid ones precede.
LEMMA WriteWellFormed ==
  ASSUME NEW n \in Nat, NEW set \in [0..(n - 1) -> Line], NEW t \in Nat, WellFormed(n, set, t),
         NEW w \in 0..(n - 1), \A v \in 0..(w - 1) : set[v].valid,
         NEW tag \in Nat, \A v \in 0..(n - 1) : v # w /\ set[v].valid => set[v].tag # tag,
         NEW time \in Nat, t < time, NEW u \in Nat, time <= u,
         NEW new, new = [set EXCEPT ![w] = [valid |-> TRUE, tag |-> tag, last_used |-> time]]
  PROVE  /\ new \in [0..(n - 1) -> Line]
         /\ WellFormed(n, new, u)
<1>1. new \in [0..(n - 1) -> Line]
  BY DEF Line
<1>2. /\ new[w].valid /\ new[w].tag = tag /\ new[w].last_used = time
      /\ \A v \in 0..(n - 1) : v # w => new[v] = set[v]
  OBVIOUS
<1>3. ASSUME NEW x \in 0..(n - 1), new[x].valid
      PROVE  /\ new[x].last_used \in 1..u
             /\ \A v \in 0..(x - 1) :
                  /\ new[v].valid
                  /\ new[v].tag # new[x].tag
                  /\ new[v].last_used # new[x].last_used
  <2>1. \A v \in 0..(n - 1) : set[v].valid => set[v].last_used \in 1..t
    BY DEF WellFormed
  <2>2. CASE x = w
    BY <1>2, <2>1, <2>2
  <2>3. CASE x # w
    <3>1. new[x] = set[x] /\ set[x].valid /\ set[x].tag # tag /\ set[x].last_used \in 1..t
      BY <1>2, <1>3, <2>1, <2>3
    <3>2. \A v \in 0..(x - 1) :
            /\ set[v].valid
            /\ set[v].tag # set[x].tag
            /\ set[v].last_used # set[x].last_used
      BY <3>1 DEF WellFormed
    <3> QED
      BY <1>2, <3>1, <3>2
  <2> QED
    BY <2>2, <2>3
<1> QED
  BY <1>1, <1>3 DEF WellFormed

\* The two searches for a victim end with a way.
LEMMA LeastAt ==
  ASSUME NEW n \in Nat \ {0}, NEW f \in [0..(n - 1) -> Nat]
  PROVE  \E w \in 0..(n - 1) : \A v \in 0..(n - 1) : f[w] <= f[v]
<1> DEFINE S == {f[w] : w \in 0..(n - 1)}
<1>1. S \subseteq Nat /\ S # {}
  <2>1. 0 \in 0..(n - 1)
    OBVIOUS
  <2> QED
    BY <2>1
<1>2. PICK x \in S : \A y \in S : x <= y
  BY <1>1, LeastExists
<1> QED
  BY <1>2

LEMMA GreatestAt ==
  ASSUME NEW n \in Nat \ {0}, NEW b \in Nat, NEW f \in [0..(n - 1) -> 0..b]
  PROVE  \E w \in 0..(n - 1) : \A v \in 0..(n - 1) : f[v] <= f[w]
<1> DEFINE g == [w \in 0..(n - 1) |-> b - f[w]]
<1>1. g \in [0..(n - 1) -> Nat]
  OBVIOUS
<1>2. PICK w \in 0..(n - 1) : \A v \in 0..(n - 1) : g[w] <= g[v]
  BY <1>1, LeastAt
<1>3. \A v \in 0..(n - 1) : f[v] \in Int /\ g[v] = b - f[v]
  OBVIOUS
<1> HIDE DEF g
<1>4. \A v \in 0..(n - 1) : f[v] <= f[w]
  BY <1>2, <1>3
<1> QED
  BY <1>4

LEMMA VictimIsWay ==
  ASSUME SimTypes, CountInv, SetInv, phase = "sim", NEW l \in 1..num_lvls,
         NEW set \in [Ways(l) -> Line], assoc[l] \in Nat \ {0}
  PROVE  /\ LruVictim(l, set) \in Ways(l)
         /\ \A v \in Ways(l) : set[LruVictim(l, set)].last_used <= set[v].last_used
         /\ find_optimal_victim(l, set) \in Ways(l)
<1>1. /\ LruVictim(l, set) \in Ways(l)
      /\ \A v \in Ways(l) : set[LruVictim(l, set)].last_used <= set[v].last_used
  <2> DEFINE f == [w \in Ways(l) |-> set[w].last_used]
  <2>1. f \in [0..(assoc[l] - 1) -> Nat]
    BY DEF Ways, Line
  <2>2. \E w \in Ways(l) : \A v \in Ways(l) : f[w] <= f[v]
    BY <2>1, LeastAt DEF Ways
  <2>3. \E w \in Ways(l) : \A v \in Ways(l) : set[w].last_used <= set[v].last_used
    BY <2>2
  <2> QED
    BY <2>3, Zenon DEF LruVictim
<1>2. find_optimal_victim(l, set) \in Ways(l)
  <2> DEFINE unused == {w \in Ways(l) : Uses(l, set[w].tag) = {}}
             next(w) == Min(Uses(l, set[w].tag))
             f == [w \in Ways(l) |-> next(w)]
  <2>1. CASE unused # {}
    <3>1. unused \subseteq Nat
      BY DEF Ways
    <3>2. Min(unused) \in unused
      BY <2>1, <3>1, MinIsLeast
    <3> QED
      BY <2>1, <3>2 DEF find_optimal_victim
  <2>2. CASE unused = {}
    <3>1. i \in Nat /\ Len(traces) \in Nat
      BY DEF CountInv, SimTypes, LoadInv
    <3>2. ASSUME NEW w \in Ways(l)
          PROVE  next(w) \in 0..Len(traces)
      <4>1. Uses(l, set[w].tag) # {}
        BY <2>2
      <4>2. Uses(l, set[w].tag) \subseteq 0..Len(traces)
        BY <3>1 DEF Uses
      <4>3. Uses(l, set[w].tag) \subseteq Nat
        BY <3>1, <4>2
      <4>4. Min(Uses(l, set[w].tag)) \in Uses(l, set[w].tag)
        BY <4>1, <4>3, MinIsLeast
      <4> QED
        BY <4>2, <4>4
    <3> HIDE DEF next
    <3>3. f \in [0..(assoc[l] - 1) -> 0..Len(traces)]
      BY <3>2 DEF Ways
    <3>4. \E w \in Ways(l) : \A v \in Ways(l) : f[v] <= f[w]
      BY <3>1, <3>3, GreatestAt DEF Ways
    <3>5. \E w \in Ways(l) : \A v \in Ways(l) : next(v) <= next(w)
      BY <3>4
    <3>6. (CHOOSE w \in Ways(l) : \A v \in Ways(l) : next(v) <= next(w)) \in Ways(l)
      BY <3>5, Zenon
    <3> QED
      BY <2>2, <3>6, Zenon DEF find_optimal_victim, next
  <2> QED
    BY <2>1, <2>2
<1> QED
  BY <1>1, <1>2

\* The set and the tag of an address.
LEMMA AddressParts ==
  ASSUME SimTypes, question[1] = "policy", NEW l \in 1..num_lvls, NEW addr \in Nat
  PROVE  Index(l, addr) \in 0..(NumSets(l) - 1) /\ Tag(l, addr) \in Nat /\ assoc[l] \in Nat \ {0}
<1>1. line_size \in Nat \ {0} /\ NumSets(l) \in Nat \ {0} /\ assoc[l] \in Nat \ {0}
  BY AnsweredIsUsable DEF SimTypes
<1>2. LineOf(addr) \in Nat
  BY <1>1 DEF LineOf
<1> QED
  BY <1>1, <1>2 DEF Index, Tag

\* An access of level l writes way w of its set: what precedes that way, what the
\* others hold, and which way it is if it is taken from another line.
WritesWay(l, addr, time, w, n, set) ==
  /\ \A v \in 0..(w - 1) : set[v].valid
  /\ \A v \in 0..(n - 1) : v # w /\ set[v].valid => set[v].tag # Tag(l, addr)
  /\ \/ ~set[w].valid
     \/ set[w].tag = Tag(l, addr)
     \/ /\ \A v \in 0..(n - 1) : set[v].valid
        /\ policy = "ALG_LRU" => \A v \in 0..(n - 1) : set[w].last_used <= set[v].last_used
        /\ policy # "ALG_LRU" => w = find_optimal_victim(l, set)
  /\ cache_access(l, addr, time).sets =
       [cache[l].sets EXCEPT ![Index(l, addr)] =
         [set EXCEPT ![w] = [valid |-> TRUE, tag |-> Tag(l, addr), last_used |-> time]]]

LEMMA AccessWay ==
  ASSUME SimTypes, CountInv, SetInv, phase = "sim", question[1] = "policy",
         NEW l \in 1..num_lvls, NEW addr \in Nat, NEW time \in Nat
  PROVE  \E w \in 0..(assoc[l] - 1) : WritesWay(l, addr, time, w, assoc[l], SetOf(l, addr))
<1>0. PICK n, x, tag, set : /\ n = assoc[l] /\ x = Index(l, addr)
                            /\ tag = Tag(l, addr) /\ set = SetOf(l, addr)
  OBVIOUS
<1> SUFFICES
      \E w \in 0..(n - 1) :
        /\ \A v \in 0..(w - 1) : set[v].valid
        /\ \A v \in 0..(n - 1) : v # w /\ set[v].valid => set[v].tag # tag
        /\ \/ ~set[w].valid
           \/ set[w].tag = tag
           \/ /\ \A v \in 0..(n - 1) : set[v].valid
              /\ policy = "ALG_LRU" => \A v \in 0..(n - 1) : set[w].last_used <= set[v].last_used
              /\ policy # "ALG_LRU" => w = find_optimal_victim(l, set)
        /\ cache_access(l, addr, time).sets =
             [cache[l].sets EXCEPT ![x] =
               [set EXCEPT ![w] = [valid |-> TRUE, tag |-> tag, last_used |-> time]]]
  BY <1>0, Zenon DEF WritesWay
<1> DEFINE hit == Hit(l, addr)
           free == {w \in Ways(l) : ~set[w].valid}
           way == IF hit # {} THEN Min(hit)
                  ELSE IF free # {} THEN Min(free)
                  ELSE IF policy = "ALG_LRU" THEN LruVictim(l, set)
                  ELSE find_optimal_victim(l, set)
<1>1. x \in 0..(NumSets(l) - 1) /\ tag \in Nat /\ n \in Nat \ {0}
  BY <1>0, AddressParts
<1>2. /\ cache[l].sets \in [0..(NumSets(l) - 1) -> [Ways(l) -> Line]]
      /\ \A s \in 0..(NumSets(l) - 1) : WellFormed(n, cache[l].sets[s], global_timer)
  BY <1>0 DEF SetInv
<1>3. set \in [0..(n - 1) -> Line] /\ WellFormed(n, set, global_timer) /\ set = cache[l].sets[x]
  BY <1>0, <1>1, <1>2 DEF SetOf, Ways
<1>4. hit = {w \in 0..(n - 1) : set[w].valid /\ set[w].tag = tag}
  BY <1>0 DEF Hit, Ways
<1>5. free = {w \in 0..(n - 1) : ~set[w].valid}
  BY <1>0 DEF Ways
<1>6. cache_access(l, addr, time).sets =
        [cache[l].sets EXCEPT ![x] =
          [set EXCEPT ![way] = [valid |-> TRUE, tag |-> tag, last_used |-> time]]]
  BY <1>0, <1>1, <1>2, <1>3 DEF cache_access
<1> HIDE DEF hit, free
<1>7. CASE hit # {}
  <2>1. way \in hit
    <3>1. Min(hit) \in hit
      BY <1>1, <1>4, <1>7, MinIsLeast
    <3> QED
      BY <1>7, <3>1
  <2>2. PICK w \in 0..(n - 1) : w = way /\ set[w].valid /\ set[w].tag = tag
    BY <1>4, <2>1
  <2>3. \A v \in 0..(w - 1) : set[v].valid
    BY <1>3, <2>2 DEF WellFormed
  <2>4. ASSUME NEW v \in 0..(n - 1), v # w, set[v].valid
        PROVE  set[v].tag # set[w].tag
    <3>1. v \in 0..(w - 1) \/ w \in 0..(v - 1)
      BY <1>1, <2>4
    <3> QED
      BY <1>3, <2>2, <2>4, <3>1 DEF WellFormed
  <2>5. \A v \in 0..(n - 1) : v # w /\ set[v].valid => set[v].tag # tag
    BY <2>2, <2>4
  <2> HIDE DEF way
  <2> QED
    BY <1>6, <2>2, <2>3, <2>5, Zenon
<1>8. CASE hit = {} /\ free # {}
  <2>1. way = Min(free)
    BY <1>8
  <2>2. way \in free /\ \A v \in free : way <= v
    <3>1. free \subseteq Nat
      BY <1>1, <1>5
    <3> QED
      BY <1>8, <2>1, <3>1, MinIsLeast
  <2> HIDE DEF way
  <2>3. way \in 0..(n - 1) /\ ~set[way].valid
    BY <1>5, <2>2
  <2>4. \A v \in 0..(way - 1) : set[v].valid
    BY <1>1, <1>5, <2>2, <2>3
  <2> QED
    BY <1>4, <1>6, <1>8, <2>3, <2>4
<1>9. CASE hit = {} /\ free = {}
  <2>1. set \in [Ways(l) -> Line] /\ assoc[l] \in Nat \ {0}
    BY <1>0, <1>1, <1>3 DEF Ways
  <2>2. /\ LruVictim(l, set) \in Ways(l) /\ find_optimal_victim(l, set) \in Ways(l)
        /\ \A v \in Ways(l) : set[LruVictim(l, set)].last_used <= set[v].last_used
    BY <2>1, VictimIsWay
  <2>3. /\ way \in 0..(n - 1)
        /\ policy = "ALG_LRU" => \A v \in 0..(n - 1) : set[way].last_used <= set[v].last_used
        /\ policy # "ALG_LRU" => way = find_optimal_victim(l, set)
    BY <1>0, <1>9, <2>2 DEF Ways
  <2> HIDE DEF way
  <2>4. \A v \in 0..(n - 1) : set[v].valid
    BY <1>5, <1>9
  <2>5. \A v \in 0..(way - 1) : v \in 0..(n - 1)
    BY <1>1, <2>3
  <2> QED
    BY <1>4, <1>6, <1>9, <2>3, <2>4, <2>5
<1> QED
  BY <1>7, <1>8, <1>9

\* What an access of level l does to its sets.
LEMMA AccessKeeps ==
  ASSUME SimTypes, CountInv, SetInv, phase = "sim", question[1] = "policy",
         NEW l \in 1..num_lvls, NEW addr \in Nat,
         NEW time \in Nat, global_timer < time, NEW u \in Nat, time <= u,
         NEW sets, sets = cache_access(l, addr, time).sets
  PROVE  /\ sets \in [0..(NumSets(l) - 1) -> [Ways(l) -> Line]]
         /\ \A s \in 0..(NumSets(l) - 1) : WellFormed(assoc[l], sets[s], u)
<1>1. PICK n, x, tag, set : /\ n = assoc[l] /\ x = Index(l, addr)
                            /\ tag = Tag(l, addr) /\ set = SetOf(l, addr)
  OBVIOUS
<1>2. x \in 0..(NumSets(l) - 1) /\ tag \in Nat /\ n \in Nat \ {0}
  BY <1>1, AddressParts
<1>3. /\ cache[l].sets \in [0..(NumSets(l) - 1) -> [0..(n - 1) -> Line]]
      /\ \A s \in 0..(NumSets(l) - 1) : WellFormed(n, cache[l].sets[s], global_timer)
      /\ global_timer \in Nat
  BY <1>1 DEF SetInv, Ways
<1>4. set \in [0..(n - 1) -> Line] /\ WellFormed(n, set, global_timer)
  BY <1>1, <1>2, <1>3 DEF SetOf
<1>5. PICK w \in 0..(n - 1) : WritesWay(l, addr, time, w, n, set)
  BY <1>1, AccessWay
<1>6. PICK new : new = [set EXCEPT ![w] = [valid |-> TRUE, tag |-> tag, last_used |-> time]]
  OBVIOUS
<1>7. new \in [0..(n - 1) -> Line] /\ WellFormed(n, new, u)
  <2>1. /\ \A v \in 0..(w - 1) : set[v].valid
        /\ \A v \in 0..(n - 1) : v # w /\ set[v].valid => set[v].tag # tag
    BY <1>1, <1>5 DEF WritesWay
  <2> QED
    BY <1>2, <1>3, <1>4, <1>6, <2>1, WriteWellFormed
<1>. sets = [cache[l].sets EXCEPT ![x] = new]
  BY <1>1, <1>5, <1>6 DEF WritesWay
<1>8. sets \in [0..(NumSets(l) - 1) -> [Ways(l) -> Line]]
  BY <1>1, <1>2, <1>3, <1>5, <1>6, <1>7 DEF Ways
<1>9. ASSUME NEW s \in 0..(NumSets(l) - 1)
      PROVE  WellFormed(n, sets[s], u)
  <2>1. CASE s = x
    BY <1>3, <1>5, <1>6, <1>7, <2>1
  <2>2. CASE s # x
    <3>1. sets[s] = cache[l].sets[s] /\ cache[l].sets[s] \in [0..(n - 1) -> Line]
      BY <1>2, <1>3, <1>5, <2>2
    <3>2. WellFormed(n, cache[l].sets[s], global_timer) /\ global_timer <= u
      BY <1>3
    <3> QED
      BY <1>2, <1>3, <3>1, <3>2, LaterWellFormed
  <2> QED
    BY <2>1, <2>2
<1> QED
  BY <1>1, <1>8, <1>9

\* The timer ends no earlier than the time given to the last level reached.
LEMMA TimerCounts ==
  ASSUME NEW addr, num_lvls \in Nat, NEW reached, reached = {k \in 1..num_lvls : Reached(k, addr)}
  PROVE  /\ Cardinality(reached) \in Nat
         /\ \A l \in reached : l <= Cardinality(reached)
<1>1. IsFiniteSet(reached)
  <2>1. IsFiniteSet(1..num_lvls)
    BY FS_Interval
  <2>2. reached \in SUBSET (1..num_lvls)
    OBVIOUS
  <2> QED
    BY <2>1, <2>2, FS_Subset
<1>2. Cardinality(reached) \in Nat
  BY <1>1, FS_CardinalityType
<1>3. ASSUME NEW l \in reached
      PROVE  l <= Cardinality(reached)
  <2>1. 1..l \in SUBSET reached
    BY DEF Reached
  <2>2. l \in Nat /\ l >= 1
    OBVIOUS
  <2>3. Cardinality(1..l) = l
    BY <2>2, FS_Interval
  <2>4. Cardinality(1..l) <= Cardinality(reached)
    BY <1>1, <2>1, FS_Subset
  <2> QED
    BY <2>3, <2>4
<1> QED
  BY <1>2, <1>3

SimInv == SimTypes /\ CountInv /\ SetInv

LEMMA SetStep == SimInv /\ [Next]_vars => SetInv'
<1> SUFFICES ASSUME SimInv, [Next]_vars
             PROVE  SetInv'
  OBVIOUS
<1>0. SimTypes /\ CountInv /\ SetInv
  BY DEF SimInv
<1>1. ASSUME global_timer' \in Nat, phase' # "sim"
      PROVE  SetInv'
  BY <1>1 DEF SetInv
<1>2. global_timer \in Nat
  BY <1>0 DEF SetInv
<1>3. CASE Configure
  BY <1>1, <1>2, <1>3 DEF Configure, AskNumLvls, AskLineSize, AskAssoc, AskLvlSize, AskPolicy, InputEnds,
                          Answer, simulation
<1>4. CASE Load
  BY <1>1, <1>2, <1>4 DEF Load, LoadEnds, ReadBatch, ReallocFails, simulation
<1>5. CASE NoTraces \/ InitNoMem \/ Report
  BY <1>1, <1>2, <1>5 DEF NoTraces, InitNoMem, Report, simulation
<1>6. CASE InitCaches
  <2>1. CASE ~Usable
    BY <1>1, <1>2, <1>6, <2>1 DEF InitCaches
  <2>2. CASE Usable
    <3>1. /\ UNCHANGED <<num_lvls, line_size, assoc, lvl_size, global_timer>>
          /\ cache' = [l \in 1..num_lvls |-> cache_init(l)]
      BY <1>6, <2>2 DEF InitCaches, parameters
    <3>2. ASSUME NEW l \in 1..num_lvls
          PROVE  /\ cache'[l].sets \in [0..(NumSets(l) - 1) -> [Ways(l) -> Line]]
                 /\ \A s \in 0..(NumSets(l) - 1) : WellFormed(assoc[l], cache'[l].sets[s], global_timer)
      <4>1. cache'[l].sets = [s \in 0..(NumSets(l) - 1) |-> [w \in Ways(l) |-> EmptyLine]]
        BY <3>1 DEF cache_init
      <4>2. EmptyLine \in Line /\ ~EmptyLine.valid
        BY DEF EmptyLine, Line
      <4>3. \A s \in 0..(NumSets(l) - 1) : \A w \in Ways(l) : cache'[l].sets[s][w] = EmptyLine
        BY <4>1
      <4> QED
        BY <4>1, <4>2, <4>3 DEF WellFormed, Ways
    <3> QED
      BY <1>2, <3>1, <3>2 DEF SetInv, NumSets, Ways
  <2> QED
    BY <2>1, <2>2
<1>7. CASE Simulate
  <2>1. PICK addr : addr = traces[i + 1]
    OBVIOUS
  <2>2. PICK reached : reached = {k \in 1..num_lvls : Reached(k, addr)}
    OBVIOUS
  <2>3. /\ phase = "sim" /\ i < Len(traces)
        /\ UNCHANGED <<phase, num_lvls, line_size, assoc, lvl_size>>
        /\ global_timer' = global_timer + Cardinality(reached)
        /\ cache' = [l \in 1..num_lvls |->
                      IF l \in reached THEN cache_access(l, addr, global_timer + l) ELSE cache[l]]
    BY <1>7, <2>1, <2>2 DEF Simulate, parameters
  <2>4. addr \in Nat
    <3>1. traces \in Seq(Addresses) /\ i \in Nat /\ i + 1 \in 1..Len(traces)
      BY <1>0, <2>3 DEF CountInv, SimTypes, LoadInv
    <3>2. addr \in Addresses
      BY <2>1, <3>1
    <3> QED
      BY <3>2, AddressAssumption
  <2>5. num_lvls \in Nat /\ question[1] = "policy"
    BY <1>0, <2>3 DEF SimTypes, Config, ParamTypes, ConfigInv
  <2>6. Cardinality(reached) \in Nat /\ \A l \in reached : l <= Cardinality(reached)
    BY <2>2, <2>5, TimerCounts
  <2>7. PICK u \in Nat : u = global_timer + Cardinality(reached) /\ global_timer <= u
    BY <1>2, <2>6
  <2>8. ASSUME NEW l \in 1..num_lvls
        PROVE  /\ cache'[l].sets \in [0..(NumSets(l) - 1) -> [Ways(l) -> Line]]
               /\ \A s \in 0..(NumSets(l) - 1) : WellFormed(assoc[l], cache'[l].sets[s], u)
    <3>1. CASE l \in reached
      <4>1. PICK time \in Nat : time = global_timer + l /\ global_timer < time /\ time <= u
        BY <1>2, <2>6, <2>7, <3>1
      <4>2. cache'[l].sets = cache_access(l, addr, time).sets
        BY <2>3, <3>1, <4>1
      <4> QED
        BY <1>0, <2>3, <2>4, <2>5, <4>1, <4>2, AccessKeeps
    <3>2. CASE l \notin reached
      <4>1. cache'[l] = cache[l]
        BY <2>3, <3>2
      <4>2. /\ cache[l].sets \in [0..(NumSets(l) - 1) -> [Ways(l) -> Line]]
            /\ \A s \in 0..(NumSets(l) - 1) : WellFormed(assoc[l], cache[l].sets[s], global_timer)
        BY <1>0, <2>3 DEF SetInv
      <4>3. assoc[l] \in Nat
        BY <1>0, <2>5, AnsweredIsUsable DEF SimTypes
      <4>4. ASSUME NEW s \in 0..(NumSets(l) - 1)
            PROVE  WellFormed(assoc[l], cache[l].sets[s], u)
        <5>1. cache[l].sets[s] \in [0..(assoc[l] - 1) -> Line]
          BY <4>2 DEF Ways
        <5> QED
          BY <1>2, <2>7, <4>2, <4>3, <5>1, LaterWellFormed
      <4> QED
        BY <4>1, <4>2, <4>4
    <3> QED
      BY <3>1, <3>2
  <2>9. u = global_timer' /\ global_timer' \in Nat
    BY <2>3, <2>7
  <2> QED
    BY <2>3, <2>8, <2>9 DEF SetInv, NumSets, Ways
<1>8. CASE UNCHANGED vars
  BY <1>0, <1>8 DEF vars, simulation, parameters, SetInv, NumSets, Ways
<1> QED
  BY <1>3, <1>4, <1>5, <1>6, <1>7, <1>8 DEF Next

\* Under either policy no line is twice in a set, the used ways precede the free
\* ones, and the times of use in a set are distinct and past: for every associativity
\* and size the dialogue accepts, and every trace.
THEOREM SetsWellFormedHolds == Spec => []SetsWellFormed
<1>1. Init => SimInv
  <2>1. Init => CountInv /\ SetInv
    BY DEF Init, CountInv, ReportAddsUp, Simulating, SetInv
  <2> QED
    BY <2>1, ConfigInit, LoadInit DEF SimInv, SimTypes
<1>2. SimInv /\ [Next]_vars => SimInv'
  BY SimTypesStep, CountStep, SetStep DEF SimInv
<1>3. SimInv => SetsWellFormed
  <2> SUFFICES ASSUME SimInv, Simulating,
                      NEW l \in 1..num_lvls, NEW s \in 0..(NumSets(l) - 1)
               PROVE  WellFormed(assoc[l], cache[l].sets[s], global_timer)
    BY DEF SetsWellFormed, WellFormed, Ways
  <2>1. phase = "sim"
    BY DEF SimInv, CountInv, Simulating
  <2> QED
    BY <2>1 DEF SimInv, SetInv
<1> QED
  BY <1>1, <1>2, <1>3, PTL DEF Spec

-----------------------------------------------------------------------------
(***************************************************************************)
(* LRU.  The times of use in a set order its lines as their last uses are  *)
(* ordered in the trace, and a line that was evicted was last used before  *)
(* every line of the set, which is then full.                              *)
(***************************************************************************)

\* x is used in q after the last use of y.
Later(q, x, y) == \E k \in 1..Len(q) : q[k] = x /\ \A j \in k..Len(q) : q[j] # y

\* The line in way w of set s of a level of N sets.
LineIn(N, s, set, w) == set[w].tag * N + s

LruSet(N, s, n, set, q) ==
  /\ \A w \in 0..(n - 1) : set[w].valid => \E k \in 1..Len(q) : q[k] = LineIn(N, s, set, w)
  /\ \A v, w \in 0..(n - 1) :
       set[v].valid /\ set[w].valid /\ set[v].last_used < set[w].last_used =>
         Later(q, LineIn(N, s, set, w), LineIn(N, s, set, v))
  /\ \A k \in 1..Len(q) :
       q[k] % N = s =>
         \/ \E w \in 0..(n - 1) : set[w].valid /\ q[k] = LineIn(N, s, set, w)
         \/ \A w \in 0..(n - 1) : set[w].valid /\ Later(q, LineIn(N, s, set, w), q[k])

\* One more use, of x: later than those of every other line, which keep their order.
LEMMA AppendLater ==
  ASSUME NEW q \in Seq(Nat), NEW x \in Nat, NEW r, r = Append(q, x)
  PROVE  /\ \A y : y # x => Later(r, x, y)
         /\ \A a, y : Later(q, a, y) /\ y # x => Later(r, a, y)
<1>1. /\ r \in Seq(Nat) /\ Len(r) = Len(q) + 1 /\ r[Len(q) + 1] = x /\ Len(q) \in Nat
      /\ \A k \in 1..Len(q) : r[k] = q[k]
  OBVIOUS
<1>2. ASSUME NEW y, y # x
      PROVE  Later(r, x, y)
  <2>1. Len(r) \in 1..Len(r) /\ r[Len(r)] = x /\ \A j \in Len(r)..Len(r) : r[j] # y
    BY <1>1, <1>2
  <2> QED
    BY <2>1 DEF Later
<1>3. ASSUME NEW a, NEW y, Later(q, a, y), y # x
      PROVE  Later(r, a, y)
  <2>1. PICK k \in 1..Len(q) : q[k] = a /\ \A j \in k..Len(q) : q[j] # y
    BY <1>3 DEF Later
  <2>2. k \in 1..Len(r) /\ r[k] = a
    BY <1>1, <2>1
  <2>3. ASSUME NEW j \in k..Len(r)
        PROVE  r[j] # y
    <3>1. j = Len(q) + 1 \/ (j \in k..Len(q) /\ j \in 1..Len(q))
      BY <1>1
    <3> QED
      BY <1>1, <1>3, <2>1, <3>1
  <2> QED
    BY <2>2, <2>3 DEF Later
<1> QED
  BY <1>2, <1>3

\* A line determines its set and its tag.
LEMMA LineParts ==
  ASSUME NEW N \in Nat \ {0}, NEW s \in 0..(N - 1), NEW tag \in Nat
  PROVE  /\ tag * N + s \in Nat
         /\ (tag * N + s) % N = s
         /\ (tag * N + s) \div N = tag
<1>1. tag * N \in Nat
  OBVIOUS
<1>2. tag * N + s = N * tag + s
  OBVIOUS
<1>3. (N * tag + s) % N = s /\ (N * tag + s) \div N = tag
  OBVIOUS
<1> QED
  BY <1>1, <1>2, <1>3

LEMMA LineRebuilt ==
  ASSUME NEW N \in Nat \ {0}, NEW x \in Nat
  PROVE  (x \div N) * N + (x % N) = x /\ x \div N \in Nat /\ x % N \in 0..(N - 1)
OBVIOUS

LEMMA LinesOfSet ==
  ASSUME NEW N \in Nat \ {0}, NEW s \in 0..(N - 1), NEW n \in Nat, NEW set \in [0..(n - 1) -> Line]
  PROVE  /\ \A w \in 0..(n - 1) : /\ LineIn(N, s, set, w) \in Nat
                                  /\ LineIn(N, s, set, w) % N = s
                                  /\ LineIn(N, s, set, w) \div N = set[w].tag
         /\ \A v, w \in 0..(n - 1) :
              set[v].tag # set[w].tag => LineIn(N, s, set, v) # LineIn(N, s, set, w)
<1>1. ASSUME NEW w \in 0..(n - 1)
      PROVE  /\ LineIn(N, s, set, w) \in Nat
             /\ LineIn(N, s, set, w) % N = s
             /\ LineIn(N, s, set, w) \div N = set[w].tag
  <2>1. PICK tag \in Nat : tag = set[w].tag
    BY DEF Line
  <2>2. LineIn(N, s, set, w) = tag * N + s
    BY <2>1 DEF LineIn
  <2>3. PICK line : line = tag * N + s /\ line \in Nat /\ line % N = s /\ line \div N = tag
    BY LineParts, ZenonT(30)
  <2>4. LineIn(N, s, set, w) = line
    BY <2>2, <2>3
  <2> QED
    BY <2>1, <2>3, <2>4, Zenon
<1> QED
  BY <1>1

LEMMA OtherLine ==
  ASSUME NEW N \in Nat \ {0}, NEW s \in 0..(N - 1), NEW n \in Nat, NEW set \in [0..(n - 1) -> Line],
         NEW x, NEW v \in 0..(n - 1), set[v].tag # x \div N
  PROVE  LineIn(N, s, set, v) # x
<1>1. LineIn(N, s, set, v) \div N = set[v].tag
  BY LinesOfSet
<1> QED
  BY <1>1, Zenon

\* An access to another set.
LEMMA OtherSetLru ==
  ASSUME NEW N \in Nat \ {0}, NEW s \in 0..(N - 1), NEW n \in Nat, NEW set \in [0..(n - 1) -> Line],
         NEW q \in Seq(Nat), LruSet(N, s, n, set, q),
         NEW x \in Nat, x % N # s, NEW r, r = Append(q, x)
  PROVE  LruSet(N, s, n, set, r)
<1> DEFINE L(w) == LineIn(N, s, set, w)
<1>1. /\ Len(r) = Len(q) + 1 /\ Len(q) \in Nat
      /\ r[Len(q) + 1] = x /\ \A k \in 1..Len(q) : r[k] = q[k]
  OBVIOUS
<1>2. \A w \in 0..(n - 1) : L(w) # x
  BY LinesOfSet
<1>3. \A a, y : Later(q, a, y) /\ y # x => Later(r, a, y)
  BY AppendLater
<1> HIDE DEF L
<1>4. ASSUME NEW w \in 0..(n - 1), set[w].valid
      PROVE  \E k \in 1..Len(r) : r[k] = L(w)
  <2>1. PICK k \in 1..Len(q) : q[k] = L(w)
    BY <1>4 DEF LruSet, L
  <2> QED
    BY <1>1, <2>1
<1>5. ASSUME NEW v \in 0..(n - 1), NEW w \in 0..(n - 1),
             set[v].valid, set[w].valid, set[v].last_used < set[w].last_used
      PROVE  Later(r, L(w), L(v))
  <2>1. Later(q, L(w), L(v))
    BY <1>5 DEF LruSet, L
  <2> QED
    BY <1>2, <1>3, <2>1
<1>6. ASSUME NEW k \in 1..Len(r), r[k] % N = s
      PROVE  \/ \E w \in 0..(n - 1) : set[w].valid /\ r[k] = L(w)
             \/ \A w \in 0..(n - 1) : set[w].valid /\ Later(r, L(w), r[k])
  <2>1. r[k] # x
    BY <1>6, Zenon
  <2>2. k # Len(q) + 1
    BY <1>1, <2>1, Zenon
  <2>3. k \in 1..Len(q)
    BY <1>1, <2>2
  <2>4. r[k] = q[k] /\ q[k] # x
    BY <1>1, <2>1, <2>3
  <2>5. \/ \E w \in 0..(n - 1) : set[w].valid /\ q[k] = L(w)
        \/ \A w \in 0..(n - 1) : set[w].valid /\ Later(q, L(w), q[k])
    BY <1>6, <2>3, <2>4, Zenon DEF LruSet, L
  <2> QED
    BY <1>3, <2>4, <2>5
<1> QED
  BY <1>4, <1>5, <1>6 DEF LruSet, L

\* An access to the set itself: a hit in way w, the filling of the free way w, or
\* the replacement of the oldest line, in way w, of a full set.
LEMMA SameSetLru ==
  ASSUME NEW N \in Nat \ {0}, NEW s \in 0..(N - 1), NEW n \in Nat, NEW set \in [0..(n - 1) -> Line],
         NEW q \in Seq(Nat), LruSet(N, s, n, set, q),
         NEW t \in Nat, WellFormed(n, set, t), NEW time \in Nat, t < time,
         NEW x \in Nat, x % N = s, NEW r, r = Append(q, x),
         NEW w \in 0..(n - 1), \A v \in 0..(n - 1) : v # w /\ set[v].valid => set[v].tag # x \div N,
         \/ ~set[w].valid
         \/ set[w].tag = x \div N
         \/ \A v \in 0..(n - 1) : set[v].valid /\ set[w].last_used <= set[v].last_used,
         NEW new, new = [set EXCEPT ![w] = [valid |-> TRUE, tag |-> x \div N, last_used |-> time]]
  PROVE  LruSet(N, s, n, new, r)
<1> DEFINE L(v) == LineIn(N, s, set, v)
           M(v) == LineIn(N, s, new, v)
           Ws == 0..(n - 1)
<1>1. /\ Len(r) = Len(q) + 1 /\ Len(q) \in Nat
      /\ r[Len(q) + 1] = x /\ \A k \in 1..Len(q) : r[k] = q[k]
  OBVIOUS
<1>2. /\ \A a, y : Later(q, a, y) /\ y # x => Later(r, a, y)
      /\ \A y : y # x => Later(r, x, y)
  BY AppendLater
<1>3. M(w) = x /\ new[w].valid /\ new[w].last_used = time
  <2>1. new[w] = [valid |-> TRUE, tag |-> x \div N, last_used |-> time]
    OBVIOUS
  <2> QED
    BY <2>1, LineRebuilt DEF LineIn
<1>4. \A v \in Ws : v # w => M(v) = L(v) /\ new[v] = set[v]
  BY DEF LineIn
<1>5. \A v \in Ws : v # w /\ set[v].valid => L(v) # x
  BY OtherLine
<1>6. \A v \in Ws : set[v].valid => set[v].last_used \in 1..t
  BY DEF WellFormed
<1>7. \A v \in Ws : \A u \in Ws : set[v].valid /\ set[u].valid /\ u # v =>
        set[v].last_used # set[u].last_used /\ set[v].tag # set[u].tag
  <2> SUFFICES ASSUME NEW v \in Ws, NEW u \in Ws, set[v].valid, set[u].valid, u # v
               PROVE  set[v].last_used # set[u].last_used /\ set[v].tag # set[u].tag
    OBVIOUS
  <2>1. u \in 0..(v - 1) \/ v \in 0..(u - 1)
    OBVIOUS
  <2> QED
    BY <2>1 DEF WellFormed
<1>8. \A v \in Ws : \A u \in Ws :
        set[v].valid /\ set[u].valid /\ set[v].last_used < set[u].last_used => Later(q, L(u), L(v))
  BY DEF LruSet
<1>9. \A k \in 1..Len(q) :
        q[k] % N = s =>
          \/ \E v \in Ws : set[v].valid /\ q[k] = L(v)
          \/ \A v \in Ws : set[v].valid /\ Later(q, L(v), q[k])
  BY DEF LruSet
<1>10. \A v \in Ws : set[v].valid => \E k \in 1..Len(q) : q[k] = L(v)
  BY DEF LruSet
<1>11. set[w].valid /\ set[w].tag = x \div N => L(w) = x
  BY LineRebuilt DEF LineIn
<1> HIDE DEF L, M
<1>12. ASSUME NEW v \in Ws, new[v].valid
       PROVE  \E k \in 1..Len(r) : r[k] = M(v)
  <2>1. CASE v = w
    BY <1>1, <1>3, <2>1
  <2>2. CASE v # w
    <3>1. PICK k \in 1..Len(q) : q[k] = L(v)
      BY <1>4, <1>10, <1>12, <2>2
    <3> QED
      BY <1>1, <1>4, <2>2, <3>1, SMTT(30)
  <2> QED
    BY <2>1, <2>2
<1>13. ASSUME NEW v \in Ws, NEW u \in Ws, new[v].valid, new[u].valid, new[v].last_used < new[u].last_used
       PROVE  Later(r, M(u), M(v))
  <2>1. v # w
    BY <1>3, <1>4, <1>6, <1>13
  <2>2. M(v) = L(v) /\ L(v) # x /\ set[v].valid
    BY <1>4, <1>5, <1>13, <2>1
  <2>3. CASE u = w
    BY <1>2, <1>3, <2>2, <2>3
  <2>4. CASE u # w
    BY <1>2, <1>4, <1>8, <1>13, <2>1, <2>2, <2>4
  <2> QED
    BY <2>3, <2>4
<1>14. ASSUME NEW k \in 1..Len(r), r[k] % N = s
       PROVE  \/ \E v \in Ws : new[v].valid /\ r[k] = M(v)
              \/ \A v \in Ws : new[v].valid /\ Later(r, M(v), r[k])
  <2>1. CASE r[k] = x
    BY <1>3, <2>1
  <2>2. CASE r[k] # x
    <3>1. k \in 1..Len(q) /\ r[k] = q[k]
      BY <1>1, <2>2
    <3>2. CASE \E v \in Ws \ {w} : set[v].valid /\ q[k] = L(v)
      BY <1>4, <3>1, <3>2
    <3>3. CASE set[w].valid /\ q[k] = L(w)
      <4>1. \A v \in Ws : set[v].valid /\ set[w].last_used <= set[v].last_used
        BY <1>11, <2>2, <3>1, <3>3
      <4>2. ASSUME NEW v \in Ws
            PROVE  new[v].valid /\ Later(r, M(v), r[k])
        <5>1. CASE v = w
          BY <1>2, <1>3, <2>2, <5>1
        <5>2. CASE v # w
          <6>1. set[w].last_used < set[v].last_used /\ set[v].valid
            BY <1>6, <1>7, <4>1, <5>2, SMTT(30)
          <6>2. Later(q, L(v), L(w))
            BY <1>8, <3>3, <6>1
          <6> QED
            BY <1>2, <1>4, <2>2, <3>1, <3>3, <5>2, <6>1, <6>2
        <5> QED
          BY <5>1, <5>2
      <4> QED
        BY <4>2
    <3>4. CASE \A v \in Ws : set[v].valid /\ Later(q, L(v), q[k])
      <4>1. ASSUME NEW v \in Ws
            PROVE  new[v].valid /\ Later(r, M(v), r[k])
        <5>1. CASE v = w
          BY <1>2, <1>3, <2>2, <5>1
        <5>2. CASE v # w
          BY <1>2, <1>4, <2>2, <3>1, <3>4, <5>2
        <5> QED
          BY <5>1, <5>2
      <4> QED
        BY <4>1
    <3> QED
      BY <1>9, <1>14, <3>1, <3>2, <3>3, <3>4
  <2> QED
    BY <2>1, <2>2
<1> QED
  BY <1>12, <1>13, <1>14 DEF LruSet, M

\* The last use of a line.
LEMMA LastUse ==
  ASSUME NEW q \in Seq(Nat), NEW x, NEW k \in 1..Len(q), q[k] = x
  PROVE  \E m \in 1..Len(q) : q[m] = x /\ \A j \in 1..Len(q) : q[j] = x => j <= m
<1> DEFINE S == {d \in Nat : d < Len(q) /\ q[Len(q) - d] = x}
<1>1. Len(q) \in Nat /\ Len(q) - k \in Nat /\ Len(q) - k < Len(q) /\ Len(q) - (Len(q) - k) = k
  OBVIOUS
<1>2. S \subseteq Nat /\ S # {}
  BY <1>1
<1>3. PICK d \in S : \A e \in S : d <= e
  BY <1>2, LeastExists
<1>4. Len(q) - d \in 1..Len(q) /\ q[Len(q) - d] = x
  BY <1>1, <1>3
<1>5. ASSUME NEW j \in 1..Len(q), q[j] = x
      PROVE  j <= Len(q) - d
  <2>1. Len(q) - j \in Nat /\ Len(q) - j < Len(q) /\ Len(q) - (Len(q) - j) = j
    BY <1>1
  <2>2. Len(q) - j \in S
    BY <1>5, <2>1
  <2>3. d <= Len(q) - j /\ d \in Nat
    BY <1>3, <2>2
  <2> QED
    BY <1>1, <2>3
<1> QED
  BY <1>4, <1>5

\* The lines in the ways of a set, the lines given to it from position m of q on, and
\* the last ones given to it that fit.
Held(N, s, n, set) == {LineIn(N, s, set, w) : w \in {v \in 0..(n - 1) : set[v].valid}}

GivenFrom(N, s, q, m) == {q[j] : j \in {k \in m..Len(q) : q[k] % N = s}}

LastLines(N, s, n, q) ==
  {q[m] : m \in {k \in 1..Len(q) : q[k] % N = s /\ Cardinality(GivenFrom(N, s, q, k)) <= n}}

\* A set of which LruSet holds contains the lines last used.
LEMMA LruSetKeepsRecent ==
  ASSUME NEW N \in Nat \ {0}, NEW s \in 0..(N - 1), NEW n \in Nat, NEW set \in [0..(n - 1) -> Line],
         NEW t \in Nat, WellFormed(n, set, t), NEW q \in Seq(Nat), LruSet(N, s, n, set, q)
  PROVE  Held(N, s, n, set) = LastLines(N, s, n, q)
<1>0. PICK Since : Since = [m \in 1..Len(q) |-> {q[j] : j \in {k \in m..Len(q) : q[k] % N = s}}]
  OBVIOUS
<1> DEFINE L(w) == LineIn(N, s, set, w)
           W == {v \in 0..(n - 1) : set[v].valid}
           R == {L(w) : w \in W}
           f == [w \in W |-> L(w)]
<1>1. /\ \A w \in W : L(w) % N = s
      /\ \A w \in W : \E k \in 1..Len(q) : q[k] = L(w)
  BY LinesOfSet, SMTT(30) DEF LruSet
<1>2. \A v, w \in W : v # w => L(v) # L(w)
  <2> SUFFICES ASSUME NEW v \in W, NEW w \in W, v # w
               PROVE  L(v) # L(w)
    OBVIOUS
  <2>1. v \in 0..(w - 1) \/ w \in 0..(v - 1)
    OBVIOUS
  <2>2. set[v].tag # set[w].tag
    BY <2>1 DEF WellFormed
  <2> QED
    BY <2>2, LinesOfSet, ZenonT(30)
<1>3. \A k \in 1..Len(q) :
        q[k] % N = s => \/ q[k] \in R
                        \/ \A w \in 0..(n - 1) : set[w].valid /\ Later(q, L(w), q[k])
  BY DEF LruSet
<1> HIDE DEF L
<1>4. /\ IsFiniteSet(W) /\ Cardinality(W) \in Nat /\ Cardinality(W) <= n
      /\ W = 0..(n - 1) => Cardinality(W) = n
  <2>1. IsFiniteSet(0..(n - 1)) /\ Cardinality(0..(n - 1)) = n
    BY FS_Interval
  <2>2. W \in SUBSET (0..(n - 1))
    OBVIOUS
  <2> HIDE DEF W
  <2> QED
    BY <2>1, <2>2, FS_Subset, FS_CardinalityType
<1>5. /\ IsFiniteSet(R) /\ Cardinality(R) \in Nat /\ Cardinality(R) = Cardinality(W)
  <2>1. f \in Surjection(W, R) /\ f \in Injection(W, R)
    BY <1>2 DEF Surjection, Injection, IsInjective
  <2> HIDE DEF f, W, R
  <2> QED
    BY <1>4, <2>1, FS_Surjection, FS_CardinalityType
<1>6. ASSUME NEW m \in 1..Len(q)
      PROVE  IsFiniteSet(Since[m])
  <2> DEFINE P == {k \in m..Len(q) : q[k] % N = s}
             G == {q[j] : j \in P}
             g == [j \in P |-> q[j]]
  <2>1. Since[m] = G
    BY <1>0
  <2>2. IsFiniteSet(m..Len(q))
    <3>1. m \in Int /\ Len(q) \in Int
      OBVIOUS
    <3> QED
      BY <3>1, FS_Interval
  <2>3. IsFiniteSet(P)
    <3>1. P \in SUBSET (m..Len(q))
      OBVIOUS
    <3> HIDE DEF P
    <3> QED
      BY <2>2, <3>1, FS_Subset
  <2>4. g \in Surjection(P, G)
    BY DEF Surjection
  <2> HIDE DEF g, G, P
  <2> QED
    BY <2>1, <2>3, <2>4, FS_Surjection
<1>7. ASSUME NEW w \in W
      PROVE  \E m \in 1..Len(q) : q[m] = L(w) /\ q[m] % N = s /\ Cardinality(Since[m]) <= n
  <2>1. PICK k \in 1..Len(q) : q[k] = L(w)
    BY <1>1
  <2>2. PICK m \in 1..Len(q) : q[m] = L(w) /\ \A j \in 1..Len(q) : q[j] = L(w) => j <= m
    BY <2>1, LastUse, ZenonT(30)
  <2>3. ASSUME NEW j \in m..Len(q), q[j] % N = s
        PROVE  q[j] \in R
    <3> SUFFICES ASSUME q[j] \notin R
                 PROVE  FALSE
      OBVIOUS
    <3>1. j \in 1..Len(q) /\ w \in 0..(n - 1)
      OBVIOUS
    <3>2. Later(q, L(w), q[j])
      BY <1>3, <2>3, <3>1
    <3>3. PICK h \in 1..Len(q) : q[h] = L(w) /\ \A e \in h..Len(q) : q[e] # q[j]
      BY <3>2 DEF Later
    <3>4. h <= m
      BY <2>2, <3>3
    <3>5. j \in h..Len(q)
      BY <3>1, <3>4
    <3> QED
      BY <3>3, <3>5
  <2>4. Since[m] \in SUBSET R
    BY <1>0, <2>3
  <2>5. Cardinality(Since[m]) <= Cardinality(R) /\ Cardinality(Since[m]) \in Nat
    <3> HIDE DEF R
    <3> QED
      BY <1>5, <1>6, <2>4, FS_Subset, FS_CardinalityType
  <2>6. Cardinality(Since[m]) <= n
    BY <1>4, <1>5, <2>5
  <2> QED
    BY <1>1, <2>2, <2>6
<1>8. ASSUME NEW m \in 1..Len(q), q[m] % N = s, Cardinality(Since[m]) <= n, q[m] \notin R
      PROVE  FALSE
  <2>1. \A w \in 0..(n - 1) : set[w].valid /\ Later(q, L(w), q[m])
    BY <1>3, <1>8
  <2>2. W = 0..(n - 1)
    BY <2>1
  <2>3. ASSUME NEW w \in W
        PROVE  L(w) \in Since[m]
    <3>1. PICK h \in 1..Len(q) : q[h] = L(w) /\ \A e \in h..Len(q) : q[e] # q[m]
      BY <2>1 DEF Later
    <3>2. h \in m..Len(q)
      BY <3>1
    <3>3. q[h] % N = s
      BY <1>1, <3>1, Zenon
    <3> QED
      BY <1>0, <3>1, <3>2, <3>3
  <2>4. q[m] \in Since[m]
    BY <1>0, <1>8, SMTT(30)
  <2>5. R \cup {q[m]} \in SUBSET Since[m]
    BY <2>3, <2>4
  <2>6. Cardinality(R) = n
    BY <1>4, <1>5, <2>2
  <2> HIDE DEF R, W
  <2>7. Cardinality(R \cup {q[m]}) = n + 1
    BY <1>5, <1>8, <2>6, FS_AddElement
  <2>8. Cardinality(R \cup {q[m]}) <= Cardinality(Since[m]) /\ Cardinality(Since[m]) \in Nat
    BY <1>6, <2>5, FS_Subset, FS_CardinalityType
  <2> QED
    BY <1>8, <2>7, <2>8
<1> DEFINE K == {k \in 1..Len(q) : q[k] % N = s /\ Cardinality(Since[k]) <= n}
<1>9. R \subseteq {q[m] : m \in K}
  BY <1>7
<1>10. {q[m] : m \in K} \subseteq R
  BY <1>8
<1>11. \A k \in 1..Len(q) : Since[k] = GivenFrom(N, s, q, k)
  BY <1>0 DEF GivenFrom
<1>12. K = {k \in 1..Len(q) : q[k] % N = s /\ Cardinality(GivenFrom(N, s, q, k)) <= n}
  <2>1. \A k \in 1..Len(q) : Cardinality(GivenFrom(N, s, q, k)) = Cardinality(Since[k])
    BY <1>11, Zenon
  <2> QED
    BY <2>1
<1> QED
  BY <1>9, <1>10, <1>12 DEF L, Held, LastLines

LruInv ==
  /\ seen \in [Levels -> Seq(Nat)]
  /\ phase # "sim" => seen = [l \in Levels |-> <<>>]
  /\ phase = "sim" /\ policy = "ALG_LRU" =>
       \A l \in 1..num_lvls : \A s \in 0..(NumSets(l) - 1) :
         LruSet(NumSets(l), s, assoc[l], cache[l].sets[s], seen[l])

\* An access of level l, under LRU.
LEMMA AccessLru ==
  ASSUME SimInv, LruInv, phase = "sim", policy = "ALG_LRU", question[1] = "policy",
         NEW l \in 1..num_lvls, NEW addr \in Nat,
         NEW time \in Nat, global_timer < time,
         NEW sets, sets = cache_access(l, addr, time).sets,
         NEW s \in 0..(NumSets(l) - 1)
  PROVE  LruSet(NumSets(l), s, assoc[l], sets[s], Append(seen[l], LineOf(addr)))
<1>1. SimTypes /\ CountInv /\ SetInv
  BY DEF SimInv
<1>2. PICK n, N, x, q, r, set :
        /\ n = assoc[l] /\ N = NumSets(l) /\ x = LineOf(addr)
        /\ q = seen[l] /\ r = Append(q, x) /\ set = SetOf(l, addr)
  OBVIOUS
<1>3. n \in Nat \ {0} /\ N \in Nat \ {0} /\ line_size \in Nat \ {0} /\ l \in Levels
  BY <1>1, <1>2, AnsweredIsUsable DEF SimTypes
<1>4. x \in Nat /\ q \in Seq(Nat)
  <2>1. addr \div line_size \in Nat
    BY <1>3
  <2>2. seen[l] \in Seq(Nat)
    BY <1>3 DEF LruInv
  <2> QED
    BY <1>2, <2>1, <2>2 DEF LineOf
<1>5. /\ Index(l, addr) = x % N /\ Tag(l, addr) = x \div N
      /\ x % N \in 0..(N - 1) /\ x \div N \in Nat
  <2>1. Index(l, addr) = x % N /\ Tag(l, addr) = x \div N
    BY <1>2 DEF Index, Tag
  <2> QED
    BY <1>3, <1>4, <2>1, LineRebuilt
<1>6. /\ cache[l].sets \in [0..(N - 1) -> [0..(n - 1) -> Line]]
      /\ \A k \in 0..(N - 1) : WellFormed(n, cache[l].sets[k], global_timer)
      /\ \A k \in 0..(N - 1) : LruSet(N, k, n, cache[l].sets[k], q)
      /\ global_timer \in Nat
  BY <1>1, <1>2 DEF SetInv, LruInv, Ways
<1>7. set = cache[l].sets[x % N]
  BY <1>2, <1>5 DEF SetOf
<1>8. PICK w \in 0..(n - 1) : WritesWay(l, addr, time, w, n, set)
  BY <1>1, <1>2, AccessWay
<1>9. PICK new : new = [set EXCEPT ![w] = [valid |-> TRUE, tag |-> x \div N, last_used |-> time]]
  OBVIOUS
<1>10. sets = [cache[l].sets EXCEPT ![x % N] = new]
  BY <1>5, <1>8, <1>9 DEF WritesWay
<1>11. s \in 0..(N - 1)
  BY <1>2
<1>12. CASE s = x % N
  <2>1. /\ \A v \in 0..(n - 1) : v # w /\ set[v].valid => set[v].tag # x \div N
        /\ \/ ~set[w].valid
           \/ set[w].tag = x \div N
           \/ \A v \in 0..(n - 1) : set[v].valid /\ set[w].last_used <= set[v].last_used
    BY <1>5, <1>8 DEF WritesWay
  <2>2. set \in [0..(n - 1) -> Line] /\ WellFormed(n, set, global_timer) /\ LruSet(N, s, n, set, q)
    BY <1>6, <1>7, <1>11, <1>12
  <2>3. sets[s] = new
    BY <1>6, <1>10, <1>11, <1>12
  <2>4. x % N = s /\ n \in Nat
    BY <1>3, <1>12
  <2>5. LruSet(N, s, n, new, r)
    BY <1>2, <1>3, <1>4, <1>6, <1>9, <1>11, <2>1, <2>2, <2>4, SameSetLru
  <2> QED
    BY <1>2, <2>3, <2>5
<1>13. CASE s # x % N
  <2>1. sets[s] = cache[l].sets[s] /\ cache[l].sets[s] \in [0..(n - 1) -> Line] /\ n \in Nat
    BY <1>3, <1>6, <1>10, <1>11, <1>13
  <2>2. LruSet(N, s, n, cache[l].sets[s], q)
    BY <1>6, <1>11
  <2>3. LruSet(N, s, n, cache[l].sets[s], r)
    BY <1>2, <1>3, <1>4, <1>11, <1>13, <2>1, <2>2, OtherSetLru
  <2> QED
    BY <1>2, <2>1, <2>3
<1> QED
  BY <1>12, <1>13

LEMMA LruStep == SimInv /\ LruInv /\ [Next]_vars => LruInv'
<1> SUFFICES ASSUME SimInv, LruInv, [Next]_vars
             PROVE  LruInv'
  OBVIOUS
<1>1. ASSUME UNCHANGED seen, phase # "sim", phase' # "sim"
      PROVE  LruInv'
  BY <1>1 DEF LruInv
<1>2. CASE Configure
  BY <1>1, <1>2 DEF Configure, AskNumLvls, AskLineSize, AskAssoc, AskLvlSize, AskPolicy, InputEnds,
                    Answer, simulation
<1>3. CASE Load
  BY <1>1, <1>3 DEF Load, LoadEnds, ReadBatch, ReallocFails, simulation
<1>4. CASE NoTraces \/ InitNoMem
  BY <1>1, <1>4 DEF NoTraces, InitNoMem, simulation
<1>5. CASE Report
  BY <1>5 DEF Report, LruInv
<1>6. CASE InitCaches
  <2>1. CASE ~Usable
    BY <1>1, <1>6, <2>1 DEF InitCaches
  <2>2. CASE Usable
    <3>1. /\ UNCHANGED <<num_lvls, line_size, assoc, lvl_size, seen>>
          /\ cache' = [l \in 1..num_lvls |-> cache_init(l)]
          /\ seen = [l \in Levels |-> <<>>]
      BY <1>6, <2>2 DEF InitCaches, parameters, LruInv
    <3>2. ASSUME NEW l \in 1..num_lvls, NEW s \in 0..(NumSets(l) - 1)
          PROVE  LruSet(NumSets(l), s, assoc[l], cache'[l].sets[s], seen[l])
      <4>1. cache'[l].sets[s] = [w \in Ways(l) |-> EmptyLine]
        BY <3>1 DEF cache_init
      <4>2. \A w \in 0..(assoc[l] - 1) : ~cache'[l].sets[s][w].valid
        BY <4>1 DEF Ways, EmptyLine
      <4>3. seen[l] = <<>> /\ Len(<<>>) = 0
        <5>1. Config /\ question[1] = "policy"
          BY <1>6 DEF InitCaches, SimInv, SimTypes, Config, ConfigInv
        <5>2. l \in Levels
          BY <5>1, AnsweredIsUsable
        <5> QED
          BY <3>1, <5>2
      <4>4. 1..Len(seen[l]) = {}
        BY <4>3
      <4> QED
        BY <4>2, <4>4 DEF LruSet
    <3>3. seen \in [Levels -> Seq(Nat)] /\ phase' = "sim"
      BY <1>6, <2>2 DEF LruInv, InitCaches
    <3> QED
      BY <3>1, <3>2, <3>3 DEF LruInv, NumSets
  <2> QED
    BY <2>1, <2>2
<1>7. CASE Simulate
  <2>1. PICK addr : addr = traces[i + 1]
    OBVIOUS
  <2>2. PICK reached : reached = {k \in 1..num_lvls : Reached(k, addr)}
    OBVIOUS
  <2>3. /\ phase = "sim" /\ i < Len(traces)
        /\ UNCHANGED <<phase, num_lvls, line_size, assoc, lvl_size, policy>>
        /\ seen' = [l \in Levels |-> IF l \in reached THEN Append(seen[l], LineOf(addr)) ELSE seen[l]]
        /\ cache' = [l \in 1..num_lvls |->
                      IF l \in reached THEN cache_access(l, addr, global_timer + l) ELSE cache[l]]
    BY <1>7, <2>1, <2>2 DEF Simulate, parameters
  <2>4. addr \in Nat
    <3>1. traces \in Seq(Addresses) /\ i \in Nat /\ i + 1 \in 1..Len(traces)
      BY <2>3 DEF SimInv, CountInv, SimTypes, LoadInv
    <3>2. addr \in Addresses
      BY <2>1, <3>1
    <3> QED
      BY <3>2, AddressAssumption
  <2>5. question[1] = "policy" /\ global_timer \in Nat /\ Config
    BY <2>3 DEF SimInv, SetInv, SimTypes, Config, ConfigInv
  <2>6. seen' \in [Levels -> Seq(Nat)]
    <3>1. ASSUME NEW l \in reached
          PROVE  LineOf(addr) \in Nat
      <4>1. line_size \in Nat \ {0}
        BY <2>2, <2>5, <3>1, AnsweredIsUsable
      <4> QED
        BY <2>4, <4>1 DEF LineOf
    <3>2. ASSUME NEW l \in Levels
          PROVE  seen'[l] \in Seq(Nat)
      <4>1. seen[l] \in Seq(Nat)
        BY DEF LruInv
      <4>2. CASE l \in reached
        BY <2>3, <3>1, <4>1, <4>2
      <4>3. CASE l \notin reached
        BY <2>3, <4>1, <4>3
      <4> QED
        BY <4>2, <4>3
    <3> QED
      BY <2>3, <3>2
  <2>7. ASSUME policy = "ALG_LRU", NEW l \in 1..num_lvls, NEW s \in 0..(NumSets(l) - 1)
        PROVE  LruSet(NumSets(l), s, assoc[l], cache'[l].sets[s], seen'[l])
    <3>1. l \in Levels
      BY <2>5, AnsweredIsUsable
    <3>2. CASE l \in reached
      <4>1. PICK time \in Nat : time = global_timer + l /\ global_timer < time
        BY <2>5
      <4>2. cache'[l].sets = cache_access(l, addr, time).sets /\ seen'[l] = Append(seen[l], LineOf(addr))
        BY <2>3, <3>1, <3>2, <4>1
      <4> QED
        BY <2>3, <2>4, <2>5, <2>7, <4>1, <4>2, AccessLru
    <3>3. CASE l \notin reached
      <4>1. cache'[l] = cache[l] /\ seen'[l] = seen[l]
        BY <2>3, <3>1, <3>3
      <4> QED
        BY <2>3, <2>7, <4>1 DEF LruInv
    <3> QED
      BY <3>2, <3>3
  <2> QED
    BY <2>3, <2>6, <2>7 DEF LruInv, NumSets
<1>8. CASE UNCHANGED vars
  BY <1>8 DEF vars, simulation, parameters, LruInv, NumSets
<1> QED
  BY <1>2, <1>3, <1>4, <1>5, <1>6, <1>7, <1>8 DEF Next

\* Under LRU every set of every level holds the lines most recently used among those
\* looked up in it, although all levels take their times from one timer: for every
\* number of ways and sets and every trace.
THEOREM LruKeepsRecentHolds == Spec => []LruKeepsRecent
<1>1. Init => SimInv /\ LruInv
  <2>1. Init => CountInv /\ SetInv /\ LruInv
    BY DEF Init, CountInv, ReportAddsUp, Simulating, SetInv, LruInv
  <2> QED
    BY <2>1, ConfigInit, LoadInit DEF SimInv, SimTypes
<1>2. SimInv /\ LruInv /\ [Next]_vars => (SimInv /\ LruInv)'
  BY SimTypesStep, CountStep, SetStep, LruStep DEF SimInv
<1>3. SimInv /\ LruInv => LruKeepsRecent
  <2> SUFFICES ASSUME SimInv, LruInv, Simulating, policy = "ALG_LRU",
                      NEW l \in 1..num_lvls, NEW s \in 0..(NumSets(l) - 1)
               PROVE  Resident(l, s) = Recent(l, s, seen[l])
    BY DEF LruKeepsRecent
  <2>1. phase = "sim"
    BY DEF SimInv, CountInv, Simulating
  <2>2. PICK n, N, q, set :
          n = assoc[l] /\ N = NumSets(l) /\ q = seen[l] /\ set = cache[l].sets[s]
    OBVIOUS
  <2>3. n \in Nat \ {0} /\ N \in Nat \ {0} /\ l \in Levels
    BY <2>1, <2>2, AnsweredIsUsable DEF SimInv, SimTypes, Config, ConfigInv
  <2>4. /\ set \in [0..(n - 1) -> Line] /\ WellFormed(n, set, global_timer)
        /\ LruSet(N, s, n, set, q) /\ q \in Seq(Nat) /\ global_timer \in Nat /\ s \in 0..(N - 1)
    BY <2>1, <2>2, <2>3 DEF SimInv, SetInv, LruInv, Ways
  <2>5. Held(N, s, n, set) = LastLines(N, s, n, q)
    BY <2>3, <2>4, LruSetKeepsRecent
  <2>6. Resident(l, s) = Held(N, s, n, set)
    BY <2>2 DEF Held, Resident, LineIn, Ways
  <2>7. Recent(l, s, q) = LastLines(N, s, n, q)
    BY <2>2 DEF Recent, GivenSince, LastLines, GivenFrom
  <2> QED
    BY <2>2, <2>5, <2>6, <2>7
<1> QED
  BY <1>1, <1>2, <1>3, PTL DEF Spec

-----------------------------------------------------------------------------
(***************************************************************************)
(* The fewest misses.  f is the recursion of MinMisses(q, n), or the part  *)
(* of it from position m on.                                               *)
(***************************************************************************)

LinesIn(q) == {q[j] : j \in 1..Len(q)}

\* What is missed from position k on with the lines S present, when g says what is
\* missed from the next position on.
MissesAt(q, n, k, g, S) ==
  IF k > Len(q) THEN 0
  ELSE IF q[k] \in S THEN g[S]
  ELSE 1 + (IF Cardinality(S) < n THEN g[S \cup {q[k]}]
            ELSE Min({g[(S \ {x}) \cup {q[k]}] : x \in S}))

MissesPart(q, n, m, f) ==
  f = [k \in m..(Len(q) + 1) |-> [S \in SUBSET LinesIn(q) |-> MissesAt(q, n, k, f[k + 1], S)]]

IsMisses(q, n, f) == MissesPart(q, n, 1, f)

LEMMA MissesExist ==
  ASSUME NEW q \in Seq(Nat), NEW n
  PROVE  \E f : IsMisses(q, n, f)
<1>0. PICK N \in Nat : N = Len(q)
  OBVIOUS
<1> DEFINE S == {m \in Nat : m <= N => \E f : MissesPart(q, n, N + 1 - m, f)}
<1>1. 0 \in S
  <2> DEFINE f == [k \in (N + 1)..(N + 1) |-> [T \in SUBSET LinesIn(q) |-> 0]]
  <2>1. \A k \in (N + 1)..(N + 1) : \A g, T : MissesAt(q, n, k, g, T) = 0
    BY <1>0 DEF MissesAt
  <2>2. MissesPart(q, n, N + 1, f)
    BY <1>0, <2>1 DEF MissesPart
  <2> QED
    BY <2>2
<1>2. ASSUME NEW m \in Nat, m \in S
      PROVE  m + 1 \in S
  <2> SUFFICES ASSUME m + 1 <= N
               PROVE  \E f : MissesPart(q, n, N + 1 - (m + 1), f)
    OBVIOUS
  <2>1. PICK low \in Nat : low = N + 1 - (m + 1) /\ low < N + 1 /\ low + 1 = N + 1 - m
    BY <1>2
  <2>2. PICK f : MissesPart(q, n, low + 1, f)
    BY <1>2, <2>1
  <2> DEFINE g == [k \in low..(N + 1) |->
                    IF k = low THEN [T \in SUBSET LinesIn(q) |-> MissesAt(q, n, low, f[low + 1], T)]
                    ELSE f[k]]
  <2>3. ASSUME NEW k \in low..(N + 1)
        PROVE  g[k] = [T \in SUBSET LinesIn(q) |-> MissesAt(q, n, k, g[k + 1], T)]
    <3>1. CASE k = low
      <4>1. k + 1 \in low..(N + 1) /\ k + 1 # low
        BY <2>1, <3>1
      <4>2. g[k + 1] = f[low + 1]
        BY <3>1, <4>1
      <4>3. g[k] = [T \in SUBSET LinesIn(q) |-> MissesAt(q, n, low, f[low + 1], T)]
        BY <3>1
      <4> HIDE DEF g
      <4> QED
        BY <3>1, <4>2, <4>3
    <3>2. CASE k # low
      <4>1. k \in (low + 1)..(N + 1) /\ g[k] = f[k]
        BY <2>1, <3>2
      <4>2. f[k] = [T \in SUBSET LinesIn(q) |-> MissesAt(q, n, k, f[k + 1], T)]
        BY <1>0, <2>2, <4>1 DEF MissesPart
      <4>3. CASE k = N + 1
        <5>1. \A h, T : MissesAt(q, n, k, h, T) = 0
          BY <1>0, <4>3 DEF MissesAt
        <5> HIDE DEF g
        <5> QED
          BY <4>1, <4>2, <5>1
      <4>4. CASE k # N + 1
        <5>1. k + 1 \in low..(N + 1) /\ k + 1 # low
          BY <2>1, <3>2, <4>4
        <5>2. g[k + 1] = f[k + 1]
          BY <5>1
        <5> HIDE DEF g
        <5> QED
          BY <4>1, <4>2, <5>2
      <4> QED
        BY <4>3, <4>4
    <3> QED
      BY <3>1, <3>2
  <2>4. g = [k \in low..(N + 1) |-> g[k]]
    OBVIOUS
  <2> HIDE DEF g
  <2>5. MissesPart(q, n, low, g)
    BY <1>0, <2>3, <2>4, Zenon DEF MissesPart
  <2> QED
    BY <2>1, <2>5
<1> HIDE DEF S
<1>3. Nat \subseteq S
  BY <1>1, <1>2, SetInduction
<1>4. N \in S /\ N + 1 - N = 1
  BY <1>3
<1>5. PICK f : MissesPart(q, n, 1, f)
  BY <1>4 DEF S
<1> QED
  BY <1>5 DEF IsMisses

LEMMA MinMissesOf ==
  ASSUME NEW q \in Seq(Nat), NEW n
  PROVE  \E f : IsMisses(q, n, f) /\ MinMisses(q, n) = f[1][{}]
<1>1. \E f : IsMisses(q, n, f)
  BY MissesExist, Zenon
<1> QED
  BY <1>1, Zenon DEF MinMisses, IsMisses, MissesPart, MissesAt, LinesIn

\* The equation of the recursion.
LEMMA MissesIs ==
  ASSUME NEW q \in Seq(Nat), NEW n, NEW f, IsMisses(q, n, f),
         NEW k \in 1..(Len(q) + 1), NEW S \in SUBSET LinesIn(q)
  PROVE  f[k][S] = MissesAt(q, n, k, f[k + 1], S)
<1>1. f[k] = [T \in SUBSET LinesIn(q) |-> MissesAt(q, n, k, f[k + 1], T)]
  BY Zenon DEF IsMisses, MissesPart
<1> QED
  BY <1>1, Zenon

\* Replacing one line by another that is not there; the lines of a sequence are
\* finitely many.
LEMMA LinesFinite ==
  ASSUME NEW q \in Seq(Nat), NEW S \in SUBSET LinesIn(q)
  PROVE  IsFiniteSet(S) /\ Cardinality(S) \in Nat
<1>1. IsFiniteSet(LinesIn(q))
  <2> DEFINE h == [j \in 1..Len(q) |-> q[j]]
  <2>1. IsFiniteSet(1..Len(q))
    BY FS_Interval
  <2>2. h \in Surjection(1..Len(q), LinesIn(q))
    BY DEF Surjection, LinesIn
  <2> QED
    BY <2>1, <2>2, FS_Surjection
<1>2. IsFiniteSet(S)
  BY <1>1, FS_Subset
<1> QED
  BY <1>2, FS_CardinalityType

LEMMA Replaced ==
  ASSUME NEW S, IsFiniteSet(S), NEW y \in S, NEW x, x \notin S
  PROVE  Cardinality((S \ {y}) \cup {x}) = Cardinality(S)
<1>1. IsFiniteSet(S \ {y}) /\ Cardinality(S \ {y}) = Cardinality(S) - 1 /\ Cardinality(S) \in Nat
  BY FS_RemoveElement, FS_CardinalityType
<1>2. Cardinality((S \ {y}) \cup {x}) = Cardinality(S \ {y}) + 1
  BY <1>1, FS_AddElement
<1> QED
  BY <1>1, <1>2

LEMMA NothingLeft ==
  ASSUME NEW q \in Seq(Nat), NEW n, NEW f, IsMisses(q, n, f), NEW S \in SUBSET LinesIn(q)
  PROVE  f[Len(q) + 1][S] = 0
<1>1. Len(q) + 1 \in 1..(Len(q) + 1) /\ Len(q) + 1 > Len(q)
  OBVIOUS
<1>2. f[Len(q) + 1][S] = MissesAt(q, n, Len(q) + 1, f[Len(q) + 1 + 1], S)
  BY <1>1, MissesIs
<1> QED
  BY <1>1, <1>2, Zenon DEF MissesAt

LEMMA FromTheEnd ==
  ASSUME NEW N \in Nat, NEW k \in 1..(N + 1)
  PROVE  \E d \in Nat : d <= N /\ N + 1 - d = k
<1>1. N + 1 - k \in Nat /\ N + 1 - k <= N /\ N + 1 - (N + 1 - k) = k
  OBVIOUS
<1> QED
  BY <1>1

LEMMA MissesType ==
  ASSUME NEW q \in Seq(Nat), NEW n \in Nat \ {0}, NEW f, IsMisses(q, n, f)
  PROVE  \A k \in 1..(Len(q) + 1) : \A S \in SUBSET LinesIn(q) : f[k][S] \in Nat
<1>0. PICK N \in Nat : N = Len(q)
  OBVIOUS
<1> DEFINE D == {d \in Nat : d <= N => \A S \in SUBSET LinesIn(q) : f[N + 1 - d][S] \in Nat}
<1>1. 0 \in D
  <2>1. N + 1 - 0 = Len(q) + 1
    BY <1>0
  <2>2. ASSUME NEW S \in SUBSET LinesIn(q)
        PROVE  f[Len(q) + 1][S] = 0
    BY NothingLeft
  <2> QED
    BY <2>1, <2>2
<1>2. ASSUME NEW d \in Nat, d \in D
      PROVE  d + 1 \in D
  <2> SUFFICES ASSUME d + 1 <= N, NEW S \in SUBSET LinesIn(q)
               PROVE  f[N + 1 - (d + 1)][S] \in Nat
    OBVIOUS
  <2>1. PICK k \in 1..Len(q) : k = N + 1 - (d + 1) /\ k + 1 = N + 1 - d
    BY <1>0
  <2>2. \A T \in SUBSET LinesIn(q) : f[k + 1][T] \in Nat
    BY <1>2, <2>1
  <2>3. q[k] \in LinesIn(q)
    BY <2>1 DEF LinesIn
  <2>4. f[k][S] = IF q[k] \in S THEN f[k + 1][S]
                  ELSE 1 + (IF Cardinality(S) < n THEN f[k + 1][S \cup {q[k]}]
                            ELSE Min({f[k + 1][(S \ {x}) \cup {q[k]}] : x \in S}))
    <3>1. k \in 1..(Len(q) + 1) /\ ~(k > Len(q))
      BY <2>1
    <3>2. f[k][S] = MissesAt(q, n, k, f[k + 1], S)
      BY <3>1, MissesIs
    <3> QED
      BY <3>1, <3>2, Zenon DEF MissesAt
  <2>5. CASE q[k] \in S
    BY <2>1, <2>2, <2>4, <2>5
  <2>6. CASE q[k] \notin S /\ Cardinality(S) < n
    <3>1. f[k + 1][S \cup {q[k]}] \in Nat
      BY <2>2, <2>3
    <3> QED
      BY <2>1, <2>4, <2>6, <3>1
  <2>7. CASE q[k] \notin S /\ ~(Cardinality(S) < n)
    <3> DEFINE V == {f[k + 1][(S \ {x}) \cup {q[k]}] : x \in S}
    <3>1. S # {}
      BY <2>7, FS_EmptySet
    <3>2. V \subseteq Nat /\ V # {}
      BY <2>2, <2>3, <3>1
    <3>3. Min(V) \in Nat
      BY <3>2, MinIsLeast
    <3> QED
      BY <2>1, <2>4, <2>7, <3>3, SMTT(30)
  <2> QED
    BY <2>5, <2>6, <2>7
<1> HIDE DEF D
<1>3. Nat \subseteq D
  BY <1>1, <1>2, SetInduction
<1> SUFFICES ASSUME NEW k \in 1..(Len(q) + 1)
             PROVE  \A S \in SUBSET LinesIn(q) : f[k][S] \in Nat
  OBVIOUS
<1>4. PICK d \in Nat : d <= N /\ N + 1 - d = k
  BY <1>0, FromTheEnd
<1> QED
  BY <1>3, <1>4 DEF D

\* The lines S once x has taken the place of y.
Swap(S, y, x) == (S \ {y}) \cup {x}

\* The lines S leave no way to spare.
Full(n, S) == ~(Cardinality(S) < n)

\* A miss at position k gives up one of the lines S, one that is best given up.
GivesUpBest(q, f, k, S) ==
  /\ \A y \in S : f[k][S] <= 1 + f[k + 1][Swap(S, y, q[k])]
  /\ \E y \in S : f[k][S] = 1 + f[k + 1][Swap(S, y, q[k])]

\* A miss at position k gives up nothing.
GivesUpNothing(q, f, k, S) == f[k][S] = 1 + f[k + 1][S \cup {q[k]}]

\* A miss: with a way to spare the line is added, otherwise the best line is given up.
LEMMA MissIs ==
  ASSUME NEW q \in Seq(Nat), NEW n \in Nat \ {0}, NEW f, IsMisses(q, n, f),
         NEW k \in 1..Len(q), NEW S \in SUBSET LinesIn(q), q[k] \notin S
  PROVE  /\ ~Full(n, S) => GivesUpNothing(q, f, k, S)
         /\ Full(n, S) => GivesUpBest(q, f, k, S)
<1>1. f[k][S] = 1 + (IF Cardinality(S) < n THEN f[k + 1][S \cup {q[k]}]
                     ELSE Min({f[k + 1][Swap(S, x, q[k])] : x \in S}))
  <2>1. k \in 1..(Len(q) + 1) /\ ~(k > Len(q))
    OBVIOUS
  <2>2. f[k][S] = MissesAt(q, n, k, f[k + 1], S)
    BY <2>1, MissesIs, SMTT(30)
  <2> QED
    BY <2>1, <2>2, Zenon DEF MissesAt, Swap
<1>2. ASSUME Full(n, S)
      PROVE  GivesUpBest(q, f, k, S)
  <2> DEFINE V == {f[k + 1][Swap(S, x, q[k])] : x \in S}
  <2>1. S # {}
    <3>1. Cardinality({}) = 0 /\ 0 < n
      BY FS_EmptySet
    <3> QED
      BY <1>2, <3>1 DEF Full
  <2>2. V \subseteq Nat /\ V # {}
    <3>1. q[k] \in LinesIn(q) /\ k + 1 \in 1..(Len(q) + 1)
      BY DEF LinesIn
    <3>2. \A x \in S : Swap(S, x, q[k]) \in SUBSET LinesIn(q)
      BY <3>1 DEF Swap
    <3>3. \A x \in S : f[k + 1][Swap(S, x, q[k])] \in Nat
      BY <3>1, <3>2, MissesType
    <3> QED
      BY <2>1, <3>3
  <2>3. PICK m \in V : m = Min(V) /\ \A v \in V : m <= v
    BY <2>2, MinIsLeast
  <2>4. f[k][S] = 1 + m
    BY <1>1, <1>2, <2>3 DEF Full
  <2>5. \A y \in S : m <= f[k + 1][Swap(S, y, q[k])] /\ f[k + 1][Swap(S, y, q[k])] \in Nat
    BY <2>2, <2>3
  <2>6. m \in Nat
    BY <2>2, <2>3
  <2>7. \E y \in S : m = f[k + 1][Swap(S, y, q[k])]
    BY <2>3
  <2> HIDE DEF V
  <2> QED
    BY <2>4, <2>5, <2>6, <2>7, Z3T(30) DEF GivesUpBest
<1> QED
  BY <1>1, <1>2 DEF Full, GivesUpNothing

\* From position k on, b is not used before a is.
Sooner(q, k, a, b) == \A j \in k..Len(q) : q[j] = b => \E m \in k..j : q[m] = a

LEMMA SoonerNext ==
  ASSUME NEW q \in Seq(Nat), NEW k \in 1..Len(q), NEW a, NEW b, a # b, Sooner(q, k, a, b)
  PROVE  q[k] # b /\ (q[k] # a => Sooner(q, k + 1, a, b))
<1>1. q[k] # b
  <2>1. k \in k..Len(q) /\ \A m \in k..k : m = k
    OBVIOUS
  <2> QED
    BY <2>1 DEF Sooner
<1>2. ASSUME q[k] # a, NEW j \in (k + 1)..Len(q), q[j] = b
      PROVE  \E m \in (k + 1)..j : q[m] = a
  <2>1. j \in k..Len(q)
    BY <1>2
  <2>2. PICK m \in k..j : q[m] = a
    BY <1>2, <2>1 DEF Sooner
  <2>3. m # k
    BY <1>2, <2>2
  <2>4. m \in (k + 1)..j
    BY <2>3
  <2> QED
    BY <2>2, <2>4
<1> QED
  BY <1>1, <1>2 DEF Sooner

\* Having the line a instead of the line b saves at most one miss, and loses none if
\* a is used no later than b.
Exchangeable(q, n, f, k) ==
  \A S \in SUBSET LinesIn(q) : \A a \in S : \A b \in LinesIn(q) \ S :
    Full(n, S) =>
      /\ f[k][S] <= f[k][Swap(S, a, b)] + 1
      /\ Sooner(q, k, a, b) => f[k][S] <= f[k][Swap(S, a, b)]

LEMMA SwapIsFull ==
  ASSUME NEW q \in Seq(Nat), NEW n, NEW S \in SUBSET LinesIn(q),
         NEW a \in S, NEW b \in LinesIn(q) \ S, Full(n, S)
  PROVE  /\ Swap(S, a, b) \in SUBSET LinesIn(q)
         /\ Full(n, Swap(S, a, b))
<1>1. IsFiniteSet(S)
  BY LinesFinite
<1>2. Cardinality(Swap(S, a, b)) = Cardinality(S)
  BY <1>1, Replaced DEF Swap
<1> QED
  BY <1>2 DEF Swap, Full

LEMMA ExchangeStep ==
  ASSUME NEW q \in Seq(Nat), NEW n \in Nat \ {0}, NEW f, IsMisses(q, n, f),
         NEW k \in 1..Len(q), Exchangeable(q, n, f, k + 1)
  PROVE  Exchangeable(q, n, f, k)
<1> SUFFICES ASSUME NEW S \in SUBSET LinesIn(q), NEW a \in S, NEW b \in LinesIn(q) \ S,
                    Full(n, S)
             PROVE  /\ f[k][S] <= f[k][Swap(S, a, b)] + 1
                    /\ Sooner(q, k, a, b) => f[k][S] <= f[k][Swap(S, a, b)]
  BY DEF Exchangeable
<1>1. PICK x, R : x = q[k] /\ R = Swap(S, a, b)
  OBVIOUS
<1>2. x \in LinesIn(q) /\ k + 1 \in 1..(Len(q) + 1) /\ k \in 1..(Len(q) + 1) /\ a # b
  BY <1>1, SMTT(30) DEF LinesIn
<1>3. R \in SUBSET LinesIn(q) /\ Full(n, R)
  BY <1>1, SwapIsFull
<1>4. /\ a \notin R /\ b \in R
      /\ \A y : y # a /\ y # b => (y \in R <=> y \in S)
  BY <1>1, <1>2 DEF Swap
<1>5. \A k1 \in {k, k + 1} : \A T \in SUBSET LinesIn(q) : f[k1][T] \in Nat
  BY <1>2, MissesType
<1> SUFFICES ASSUME NEW fS \in Nat, fS = f[k][S], NEW fR \in Nat, fR = f[k][R]
             PROVE  fS <= fR + 1 /\ (Sooner(q, k, a, b) => fS <= fR)
  BY <1>1, <1>3, <1>5
<1>6. ASSUME NEW T \in SUBSET LinesIn(q), x \in T
      PROVE  f[k][T] = f[k + 1][T]
  <2>1. f[k][T] = MissesAt(q, n, k, f[k + 1], T) /\ ~(k > Len(q))
    BY <1>2, MissesIs, Z3
  <2> QED
    BY <1>1, <1>6, <2>1, Zenon DEF MissesAt
<1>7. ASSUME NEW T \in SUBSET LinesIn(q), x \notin T, Full(n, T)
      PROVE  /\ \A y \in T : f[k][T] <= 1 + f[k + 1][Swap(T, y, x)]
             /\ \E y \in T : f[k][T] = 1 + f[k + 1][Swap(T, y, x)]
  <2>1. q[k] \notin T
    BY <1>1, <1>7
  <2>2. GivesUpBest(q, f, k, T)
    BY <1>7, <2>1, MissIs
  <2> QED
    BY <1>1, <2>2, Zenon DEF GivesUpBest
<1>8. ASSUME NEW T \in SUBSET LinesIn(q), Full(n, T), NEW y \in T, NEW z \in LinesIn(q) \ T
      PROVE  /\ f[k + 1][T] <= f[k + 1][Swap(T, y, z)] + 1
             /\ Sooner(q, k + 1, y, z) => f[k + 1][T] <= f[k + 1][Swap(T, y, z)]
  BY <1>8 DEF Exchangeable
<1>9. Sooner(q, k, a, b) => x # b /\ (x # a => Sooner(q, k + 1, a, b))
  BY <1>1, <1>2, SoonerNext
<1>10. CASE x \in S /\ x # a
  <2>1. f[k][S] = f[k + 1][S] /\ f[k][R] = f[k + 1][R]
    BY <1>2, <1>3, <1>4, <1>6, <1>10
  <2>2. /\ f[k + 1][S] <= f[k + 1][R] + 1
        /\ Sooner(q, k + 1, a, b) => f[k + 1][S] <= f[k + 1][R]
    BY <1>1, <1>8
  <2>3. f[k + 1][S] = fS /\ f[k + 1][R] = fR
    BY <2>1
  <2> QED
    BY <1>9, <1>10, <2>2, <2>3
<1>11. CASE x = a
  <2>1. f[k][S] = f[k + 1][S]
    BY <1>6, <1>11
  <2>2. PICK y \in R : f[k][R] = 1 + f[k + 1][Swap(R, y, x)]
    BY <1>3, <1>4, <1>7, <1>11
  <2>3. f[k + 1][S] <= f[k][R]
    <3>1. CASE y = b
      <4>1. Swap(R, y, x) = S
        BY <1>1, <1>2, <1>11, <3>1 DEF Swap
      <4>2. f[k + 1][S] \in Nat /\ f[k][R] = 1 + f[k + 1][S]
        BY <1>5, <2>2, <4>1
      <4> QED
        BY <4>2, Z3
    <3>2. CASE y # b
      <4>1. y \in S /\ y # a
        BY <1>4, <2>2, <3>2
      <4>2. Swap(R, y, x) = Swap(S, y, b)
        BY <1>1, <1>2, <1>11, <3>2, <4>1 DEF Swap
      <4>3. f[k + 1][S] <= f[k + 1][Swap(S, y, b)] + 1
        BY <1>8, <4>1
      <4>4. Swap(S, y, b) \in SUBSET LinesIn(q)
        BY DEF Swap
      <4>5. f[k + 1][S] \in Nat /\ f[k + 1][Swap(S, y, b)] \in Nat
        BY <1>5, <4>4
      <4> QED
        BY <2>2, <4>2, <4>3, <4>5
    <3> QED
      BY <3>1, <3>2
  <2>4. fS <= fR
    BY <2>1, <2>3
  <2> QED
    BY <2>4, Z3
<1>12. CASE x = b
  <2>1. f[k + 1][R] = fR
    BY <1>3, <1>4, <1>6, <1>12
  <2>2. fS <= 1 + f[k + 1][R]
    BY <1>1, <1>7, <1>12
  <2>3. fS <= fR + 1
    BY <2>1, <2>2
  <2> QED
    BY <1>9, <1>12, <2>3
<1>13. CASE x \notin S /\ x # b
  <2>1. x \notin R /\ x # a
    BY <1>4, <1>13
  <2>2. PICK y \in R : f[k][R] = 1 + f[k + 1][Swap(R, y, x)]
    BY <1>3, <1>7, <2>1
  <2>3. CASE y = b
    <3>1. Swap(R, y, x) = Swap(S, a, x)
      BY <1>1, <1>2, <2>3 DEF Swap
    <3>2. fS <= 1 + f[k + 1][Swap(S, a, x)]
      BY <1>7, <1>13
    <3>3. fS <= fR
      BY <2>2, <3>1, <3>2
    <3> QED
      BY <3>3
  <2>4. CASE y # b
    <3>1. y \in S /\ y # a
      BY <1>4, <2>2, <2>4
    <3>2. PICK T : T = Swap(S, y, x)
      OBVIOUS
    <3>3. T \in SUBSET LinesIn(q) /\ Full(n, T)
      BY <1>2, <1>13, <3>1, <3>2, SwapIsFull
    <3>4. a \in T /\ b \notin T
      BY <1>13, <2>1, <3>1, <3>2 DEF Swap
    <3>5. Swap(R, y, x) = Swap(T, a, b)
      BY <1>1, <1>13, <2>1, <2>4, <3>1, <3>2 DEF Swap
    <3>6. fS <= 1 + f[k + 1][T]
      BY <1>7, <1>13, <3>1, <3>2
    <3>7. /\ f[k + 1][T] <= f[k + 1][Swap(T, a, b)] + 1
          /\ Sooner(q, k + 1, a, b) => f[k + 1][T] <= f[k + 1][Swap(T, a, b)]
      BY <1>8, <3>3, <3>4
    <3>8. Swap(T, a, b) \in SUBSET LinesIn(q)
      BY <3>3 DEF Swap
    <3>9. PICK v \in Nat : v = f[k + 1][Swap(T, a, b)]
      BY <1>5, <3>8
    <3>10. PICK u \in Nat : u = f[k + 1][T]
      BY <1>5, <3>3
    <3>11. fR = 1 + v /\ fS <= 1 + u
      BY <2>2, <3>5, <3>6, <3>9, <3>10
    <3>12. u <= v + 1 /\ (Sooner(q, k + 1, a, b) => u <= v)
      BY <3>7, <3>9, <3>10
    <3> QED
      BY <1>9, <2>1, <3>11, <3>12, Z3
  <2> QED
    BY <2>3, <2>4
<1> QED
  BY <1>10, <1>11, <1>12, <1>13

LEMMA Exchange ==
  ASSUME NEW q \in Seq(Nat), NEW n \in Nat \ {0}, NEW f, IsMisses(q, n, f)
  PROVE  \A k \in 1..(Len(q) + 1) : Exchangeable(q, n, f, k)
<1>0. PICK N \in Nat : N = Len(q)
  OBVIOUS
<1> DEFINE D == {d \in Nat : d <= N => Exchangeable(q, n, f, N + 1 - d)}
<1>1. 0 \in D
  <2>1. ASSUME NEW S \in SUBSET LinesIn(q)
        PROVE  f[N + 1][S] = 0
    BY <1>0, NothingLeft
  <2>2. \A S \in SUBSET LinesIn(q) : \A a \in S : \A b \in LinesIn(q) \ S :
          Swap(S, a, b) \in SUBSET LinesIn(q)
    BY DEF Swap
  <2>3. Exchangeable(q, n, f, N + 1)
    BY <2>1, <2>2 DEF Exchangeable
  <2> QED
    BY <2>3
<1>2. ASSUME NEW d \in Nat, d \in D
      PROVE  d + 1 \in D
  <2> SUFFICES ASSUME d + 1 <= N
               PROVE  Exchangeable(q, n, f, N + 1 - (d + 1))
    OBVIOUS
  <2>1. PICK k \in 1..Len(q) : k = N + 1 - (d + 1) /\ k + 1 = N + 1 - d
    BY <1>0
  <2>2. Exchangeable(q, n, f, k + 1)
    BY <1>2, <2>1
  <2> QED
    BY <2>1, <2>2, ExchangeStep
<1> HIDE DEF D
<1>3. Nat \subseteq D
  BY <1>1, <1>2, SetInduction
<1> SUFFICES ASSUME NEW k \in 1..(Len(q) + 1)
             PROVE  Exchangeable(q, n, f, k)
  OBVIOUS
<1>4. PICK d \in Nat : d <= N /\ N + 1 - d = k
  BY <1>0, FromTheEnd
<1> QED
  BY <1>3, <1>4 DEF D

\* One more line never costs a miss.
MoreIsNoWorse(q, n, f, k) ==
  \A S \in SUBSET LinesIn(q) : \A a \in LinesIn(q) \ S :
    ~Full(n, S) => f[k][S \cup {a}] <= f[k][S]

LEMMA MoreStep ==
  ASSUME NEW q \in Seq(Nat), NEW n \in Nat \ {0}, NEW f, IsMisses(q, n, f),
         NEW k \in 1..Len(q), MoreIsNoWorse(q, n, f, k + 1)
  PROVE  MoreIsNoWorse(q, n, f, k)
<1> SUFFICES ASSUME NEW S \in SUBSET LinesIn(q), NEW a \in LinesIn(q) \ S, ~Full(n, S)
             PROVE  f[k][S \cup {a}] <= f[k][S]
  BY DEF MoreIsNoWorse
<1>1. PICK x, R : x = q[k] /\ R = S \cup {a}
  OBVIOUS
<1>2. /\ x \in LinesIn(q) /\ k + 1 \in 1..(Len(q) + 1) /\ k \in 1..(Len(q) + 1) /\ ~(k > Len(q))
      /\ R \in SUBSET LinesIn(q)
  BY <1>1 DEF LinesIn
<1>3. \A k1 \in {k, k + 1} : \A T \in SUBSET LinesIn(q) : f[k1][T] \in Nat
  BY <1>2, MissesType
<1>4. PICK fS \in Nat, fR \in Nat : fS = f[k][S] /\ fR = f[k][R]
  BY <1>2, <1>3
<1> SUFFICES fR <= fS
  BY <1>1, <1>4
<1>5. ASSUME NEW T \in SUBSET LinesIn(q), x \in T
      PROVE  f[k][T] = f[k + 1][T]
  <2>1. f[k][T] = MissesAt(q, n, k, f[k + 1], T)
    BY <1>2, MissesIs
  <2> QED
    BY <1>1, <1>2, <1>5, <2>1, Zenon DEF MissesAt
<1>6. ASSUME NEW T \in SUBSET LinesIn(q), ~Full(n, T), NEW c \in LinesIn(q) \ T
      PROVE  f[k + 1][T \cup {c}] <= f[k + 1][T]
  BY <1>6 DEF MoreIsNoWorse
<1>7. ASSUME NEW T \in SUBSET LinesIn(q), x \notin T, ~Full(n, T)
      PROVE  f[k][T] = 1 + f[k + 1][T \cup {x}]
  <2>1. q[k] \notin T
    BY <1>1, <1>7
  <2>2. GivesUpNothing(q, f, k, T)
    BY <1>7, <2>1, MissIs
  <2> QED
    BY <1>1, <2>2, Zenon DEF GivesUpNothing
<1>8. CASE x \in S
  <2>1. fS = f[k + 1][S] /\ fR = f[k + 1][R]
    BY <1>1, <1>2, <1>4, <1>5, <1>8
  <2>2. f[k + 1][R] <= f[k + 1][S]
    BY <1>1, <1>6
  <2> QED
    BY <2>1, <2>2
<1>9. CASE x = a
  <2>1. fR = f[k + 1][R] /\ fS = 1 + f[k + 1][R]
    BY <1>1, <1>2, <1>4, <1>5, <1>7, <1>9
  <2>2. fS = 1 + fR
    BY <2>1
  <2> QED
    BY <2>2
<1>10. CASE x \notin R
  <2>1. x \notin S /\ a # x
    BY <1>1, <1>10
  <2>2. PICK T : T = S \cup {x}
    OBVIOUS
  <2>3. T \in SUBSET LinesIn(q) /\ fS = 1 + f[k + 1][T] /\ a \notin T
    BY <1>2, <1>4, <1>7, <2>1, <2>2
  <2>4. PICK u \in Nat : u = f[k + 1][T] /\ fS = 1 + u
    BY <1>3, <2>3
  <2>5. Cardinality(T) = Cardinality(R)
    <3>1. IsFiniteSet(S)
      BY LinesFinite
    <3>2. Cardinality(S \cup {x}) = Cardinality(S) + 1 /\ Cardinality(S \cup {a}) = Cardinality(S) + 1
      BY <2>1, <3>1, FS_AddElement
    <3> QED
      BY <1>1, <2>2, <3>2
  <2>6. CASE ~Full(n, R)
    <3>1. fR = 1 + f[k + 1][R \cup {x}]
      BY <1>2, <1>4, <1>7, <1>10, <2>6
    <3>2. R \cup {x} = T \cup {a}
      BY <1>1, <2>2
    <3>3. f[k + 1][T \cup {a}] <= u
      <4>1. ~Full(n, T)
        BY <2>5, <2>6 DEF Full
      <4> QED
        BY <1>6, <2>3, <2>4, <4>1
    <3>4. PICK v \in Nat : v = f[k + 1][T \cup {a}]
      BY <1>3, <2>3
    <3>5. fR = 1 + v /\ v <= u
      BY <3>1, <3>2, <3>3, <3>4
    <3> QED
      BY <2>4, <3>5, Z3T(30)
  <2>7. CASE Full(n, R)
    <3>1. GivesUpBest(q, f, k, R)
      BY <1>1, <1>2, <1>10, <2>7, MissIs
    <3>2. fR <= 1 + f[k + 1][Swap(R, a, x)]
      BY <1>1, <1>4, <3>1 DEF GivesUpBest
    <3>3. Swap(R, a, x) = T
      BY <1>1, <2>1, <2>2 DEF Swap
    <3>4. fR <= 1 + u
      BY <2>4, <3>2, <3>3
    <3> QED
      BY <2>4, <3>4
  <2> QED
    BY <2>6, <2>7
<1> QED
  BY <1>1, <1>8, <1>9, <1>10

LEMMA More ==
  ASSUME NEW q \in Seq(Nat), NEW n \in Nat \ {0}, NEW f, IsMisses(q, n, f)
  PROVE  \A k \in 1..(Len(q) + 1) : MoreIsNoWorse(q, n, f, k)
<1>0. PICK N \in Nat : N = Len(q)
  OBVIOUS
<1> DEFINE D == {d \in Nat : d <= N => MoreIsNoWorse(q, n, f, N + 1 - d)}
<1>1. 0 \in D
  <2>1. ASSUME NEW S \in SUBSET LinesIn(q)
        PROVE  f[N + 1][S] = 0
    BY <1>0, NothingLeft
  <2>2. MoreIsNoWorse(q, n, f, N + 1)
    BY <2>1 DEF MoreIsNoWorse
  <2> QED
    BY <2>2
<1>2. ASSUME NEW d \in Nat, d \in D
      PROVE  d + 1 \in D
  <2> SUFFICES ASSUME d + 1 <= N
               PROVE  MoreIsNoWorse(q, n, f, N + 1 - (d + 1))
    OBVIOUS
  <2>1. PICK k \in 1..Len(q) : k = N + 1 - (d + 1) /\ k + 1 = N + 1 - d
    BY <1>0
  <2>2. MoreIsNoWorse(q, n, f, k + 1)
    BY <1>2, <2>1
  <2> QED
    BY <2>1, <2>2, MoreStep
<1> HIDE DEF D
<1>3. Nat \subseteq D
  BY <1>1, <1>2, SetInduction
<1> SUFFICES ASSUME NEW k \in 1..(Len(q) + 1)
             PROVE  MoreIsNoWorse(q, n, f, k)
  OBVIOUS
<1>4. PICK d \in Nat : d <= N /\ N + 1 - d = k
  BY <1>0, FromTheEnd
<1> QED
  BY <1>3, <1>4 DEF D

\* Whatever is given up for the line at position k, needed or not, costs a miss and
\* cannot save more than the best choice.
LEMMA AnyChoice ==
  ASSUME NEW q \in Seq(Nat), NEW n \in Nat \ {0}, NEW f, IsMisses(q, n, f),
         NEW k \in 1..Len(q), NEW S \in SUBSET LinesIn(q), q[k] \notin S, NEW T,
         \/ ~Full(n, S) /\ T = S \cup {q[k]}
         \/ \E y \in S : T = Swap(S, y, q[k])
  PROVE  T \in SUBSET LinesIn(q) /\ f[k][S] <= 1 + f[k + 1][T]
<1>1. /\ q[k] \in LinesIn(q) /\ k + 1 \in 1..(Len(q) + 1) /\ k \in 1..(Len(q) + 1)
  BY DEF LinesIn
<1>2. T \in SUBSET LinesIn(q)
  BY <1>1 DEF Swap
<1>3. PICK u \in Nat : u = f[k + 1][T]
  BY <1>1, <1>2, MissesType
<1>4. PICK fS \in Nat : fS = f[k][S]
  BY <1>1, MissesType
<1> SUFFICES fS <= 1 + u
  BY <1>2, <1>3, <1>4
<1>5. CASE Full(n, S)
  <2>1. PICK y \in S : T = Swap(S, y, q[k])
    BY <1>5
  <2>2. GivesUpBest(q, f, k, S)
    BY <1>5, MissIs
  <2>3. f[k][S] <= 1 + f[k + 1][T]
    BY <2>1, <2>2, Zenon DEF GivesUpBest
  <2> QED
    BY <1>3, <1>4, <2>3
<1>6. CASE ~Full(n, S)
  <2>1. PICK R : R = S \cup {q[k]}
    OBVIOUS
  <2>2. f[k][S] = 1 + f[k + 1][R]
    <3>1. GivesUpNothing(q, f, k, S)
      BY <1>6, MissIs
    <3> QED
      BY <2>1, <3>1, Zenon DEF GivesUpNothing
  <2>3. PICK v \in Nat : v = f[k + 1][R]
    BY <1>1, <2>1, MissesType
  <2>4. CASE T = R
    BY <1>3, <1>4, <2>2, <2>3, <2>4
  <2>5. CASE \E y \in S : T = Swap(S, y, q[k])
    <3>1. PICK y \in S : T = Swap(S, y, q[k])
      BY <2>5
    <3>2. R = T \cup {y} /\ y \in LinesIn(q) \ T
      BY <2>1, <3>1 DEF Swap
    <3>3. ~Full(n, T)
      <4>1. IsFiniteSet(S)
        BY LinesFinite
      <4>2. Cardinality(T) = Cardinality(S)
        BY <3>1, <4>1, Replaced DEF Swap
      <4> QED
        BY <1>6, <4>2 DEF Full
    <3>4. MoreIsNoWorse(q, n, f, k + 1)
      BY <1>1, More
    <3>5. f[k + 1][R] <= f[k + 1][T]
      BY <1>2, <3>2, <3>3, <3>4 DEF MoreIsNoWorse
    <3> QED
      <4>1. fS = 1 + v
        BY <1>4, <2>2, <2>3
      <4>2. v <= u
        BY <1>3, <2>3, <3>5
      <4> QED
        BY <4>1, <4>2, Z3
  <2> QED
    BY <1>6, <2>1, <2>4, <2>5
<1> QED
  BY <1>5, <1>6

-----------------------------------------------------------------------------
(***************************************************************************)
(* The lines that a level holds, in all its sets together, and what an     *)
(* access makes of them.                                                   *)
(***************************************************************************)

Filled(N, n, sets) == {p \in (0..(N - 1)) \X (0..(n - 1)) : sets[p[1]][p[2]].valid}

HeldIn(N, sets, P) == {LineIn(N, p[1], sets[p[1]], p[2]) : p \in P}

AllHeld(N, n, sets) == HeldIn(N, sets, Filled(N, n, sets))

\* What writing a line into way w of its set makes of the lines held: those in the other
\* ways stay.  A line found was there, a free way takes one more, another gives up its line.
Written(A, B, N, n, x, s, set, w) ==
  /\ set[w].valid /\ set[w].tag = x \div N => x \in A /\ B = A
  /\ ~(set[w].valid /\ set[w].tag = x \div N) => x \notin A
  /\ ~set[w].valid => B = A \cup {x} /\ ~Full(N * n, A)
  /\ set[w].valid => LineIn(N, s, set, w) \in A /\ B = Swap(A, LineIn(N, s, set, w), x)

\* A free way is room for one more line.
LEMMA FreeWayIsRoom ==
  ASSUME NEW N \in Nat \ {0}, NEW n \in Nat \ {0}, NEW sets,
         NEW s \in 0..(N - 1), NEW w \in 0..(n - 1), ~sets[s][w].valid
  PROVE  ~Full(N * n, AllHeld(N, n, sets))
<1> DEFINE pairs == (0..(N - 1)) \X (0..(n - 1))
           rest == pairs \ {<<s, w>>}
           P == Filled(N, n, sets)
           line == [p \in P |-> LineIn(N, p[1], sets[p[1]], p[2])]
<1>1. IsFiniteSet(0..(N - 1)) /\ Cardinality(0..(N - 1)) = N
  BY FS_Interval
<1>2. IsFiniteSet(0..(n - 1)) /\ Cardinality(0..(n - 1)) = n
  BY FS_Interval
<1>3. IsFiniteSet(pairs) /\ Cardinality(pairs) = N * n
  BY <1>1, <1>2, FS_Product
<1>4. IsFiniteSet(rest) /\ Cardinality(rest) = N * n - 1
  <2>1. <<s, w>> \in pairs
    OBVIOUS
  <2> HIDE DEF pairs
  <2> QED
    BY <1>3, <2>1, FS_RemoveElement
<1>5. P \subseteq rest
  BY DEF Filled
<1>6. IsFiniteSet(P) /\ Cardinality(P) <= N * n - 1 /\ Cardinality(P) \in Nat
  <2>1. IsFiniteSet(P) /\ Cardinality(P) <= Cardinality(rest)
    BY <1>4, <1>5, FS_Subset
  <2> QED
    BY <1>4, <2>1, FS_CardinalityType
<1>7. line \in Surjection(P, AllHeld(N, n, sets))
  BY DEF Surjection, AllHeld, HeldIn
<1>8. IsFiniteSet(AllHeld(N, n, sets)) /\ Cardinality(AllHeld(N, n, sets)) <= Cardinality(P)
  BY <1>6, <1>7, FS_Surjection
<1>9. Cardinality(AllHeld(N, n, sets)) \in Nat
  BY <1>8, FS_CardinalityType
<1>10. PICK m \in Int : m = N * n
  OBVIOUS
<1> HIDE DEF P, rest, pairs, line
<1>11. Cardinality(AllHeld(N, n, sets)) < N * n
  BY <1>6, <1>8, <1>9, <1>10, Z3
<1> QED
  BY <1>11 DEF Full

\* The lines held depend on the ways alone, and one way holds one of them.
LEMMA SameWays ==
  ASSUME NEW N, NEW sets, NEW new, NEW P, \A p \in P : new[p[1]][p[2]] = sets[p[1]][p[2]]
  PROVE  HeldIn(N, new, P) = HeldIn(N, sets, P)
<1>1. \A p \in P : LineIn(N, p[1], new[p[1]], p[2]) = LineIn(N, p[1], sets[p[1]], p[2])
  BY Zenon DEF LineIn
<1> QED
  BY <1>1, Zenon DEF HeldIn

HoldsOne(N, sets, P, k, v) ==
  HeldIn(N, sets, P) = HeldIn(N, sets, P \ {<<k, v>>}) \cup {LineIn(N, k, sets[k], v)}

LEMMA OneWay ==
  ASSUME NEW N, NEW sets, NEW P, NEW k, NEW v, <<k, v>> \in P
  PROVE  HoldsOne(N, sets, P, k, v)
<1>1. PICK p0 : p0 = <<k, v>> /\ p0[1] = k /\ p0[2] = v /\ p0 \in P
  OBVIOUS
<1>2. HeldIn(N, sets, P) = HeldIn(N, sets, P \ {p0}) \cup {LineIn(N, p0[1], sets[p0[1]], p0[2])}
  BY <1>1 DEF HeldIn
<1> QED
  BY <1>1, <1>2 DEF HoldsOne

\* The set and the tag of the line in a way.
LEMMA LineIs ==
  ASSUME NEW N \in Nat \ {0}, NEW s \in 0..(N - 1), NEW set, NEW w, set[w].tag \in Nat
  PROVE  LineIn(N, s, set, w) % N = s /\ LineIn(N, s, set, w) \div N = set[w].tag
<1>1. PICK tag \in Nat : tag = set[w].tag
  OBVIOUS
<1>2. (tag * N + s) % N = s /\ (tag * N + s) \div N = tag
  BY LineParts
<1>3. LineIn(N, s, set, w) = tag * N + s
  BY <1>1, Zenon DEF LineIn
<1> QED
  BY <1>1, <1>2, <1>3, Zenon

LEMMA WriteHeld ==
  ASSUME NEW N \in Nat \ {0}, NEW n \in Nat \ {0},
         NEW sets \in [0..(N - 1) -> [0..(n - 1) -> Line]], NEW x \in Nat,
         NEW s \in 0..(N - 1), s = x % N, NEW w \in 0..(n - 1), NEW t, WellFormed(n, sets[s], t),
         \A v \in 0..(n - 1) : v # w /\ sets[s][v].valid => sets[s][v].tag # x \div N,
         NEW new, new[s][w].valid, new[s][w].tag = x \div N,
         \A k \in 0..(N - 1) : \A v \in 0..(n - 1) :
           k # s \/ v # w => new[k][v] = sets[k][v]
  PROVE  Written(AllHeld(N, n, sets), AllHeld(N, n, new), N, n, x, s, sets[s], w)
<1>1. /\ x \div N \in Nat /\ (x \div N) * N + s = x
      /\ \A k \in 0..(N - 1) : \A v \in 0..(n - 1) : sets[k][v].tag \in Nat
  BY LineRebuilt DEF Line
<1> DEFINE P == Filled(N, n, sets)
           Q == Filled(N, n, new)
           p0 == <<s, w>>
           Rest == HeldIn(N, sets, P \ {p0})
           A == AllHeld(N, n, sets)
           B == AllHeld(N, n, new)
           y == LineIn(N, s, sets[s], w)
<1>2. p0 \in Q /\ Q \ {p0} = P \ {p0} /\ (\A p \in P \ {p0} : new[p[1]][p[2]] = sets[p[1]][p[2]])
  <2>1. ASSUME NEW p \in (0..(N - 1)) \X (0..(n - 1)), p # p0
        PROVE  new[p[1]][p[2]] = sets[p[1]][p[2]]
    <3>1. PICK k \in 0..(N - 1), v \in 0..(n - 1) : p = <<k, v>>
      OBVIOUS
    <3>2. k # s \/ v # w
      BY <2>1, <3>1
    <3>3. new[k][v] = sets[k][v]
      BY <3>2
    <3> QED
      BY <3>1, <3>3
  <2>2. p0 \in (0..(N - 1)) \X (0..(n - 1)) /\ new[p0[1]][p0[2]].valid
    OBVIOUS
  <2> HIDE DEF p0
  <2> QED
    BY <2>1, <2>2 DEF Filled
<1>3. HeldIn(N, new, Q \ {p0}) = Rest
  <2>1. \A p \in P \ {p0} : new[p[1]][p[2]] = sets[p[1]][p[2]]
    BY <1>2
  <2>2. PICK R : R = P \ {p0}
    OBVIOUS
  <2> HIDE DEF P, Q, p0
  <2>3. HeldIn(N, new, R) = HeldIn(N, sets, R)
    BY <2>1, <2>2, SameWays
  <2> QED
    BY <1>2, <2>2, <2>3
<1>4. B = Rest \cup {x}
  <2>1. B = HeldIn(N, new, Q \ {p0}) \cup {LineIn(N, s, new[s], w)}
    <3>1. HoldsOne(N, new, Q, s, w)
      BY <1>2, OneWay, Zenon
    <3> QED
      BY <3>1, Zenon DEF AllHeld, HoldsOne
  <2>2. LineIn(N, s, new[s], w) = x
    BY <1>1 DEF LineIn
  <2> QED
    BY <1>3, <2>1, <2>2
<1>5. A = IF sets[s][w].valid THEN Rest \cup {y} ELSE Rest
  <2>1. CASE sets[s][w].valid
    <3>1. p0 \in P
      BY <1>1, <2>1 DEF Filled
    <3>2. HoldsOne(N, sets, P, s, w)
      BY <3>1, OneWay, Zenon
    <3> QED
      BY <2>1, <3>2, Zenon DEF AllHeld, HoldsOne
  <2>2. CASE ~sets[s][w].valid
    <3>1. P \ {p0} = P
      BY <2>2 DEF Filled
    <3> QED
      BY <2>2, <3>1 DEF AllHeld
  <2> QED
    BY <2>1, <2>2
<1>6. ASSUME NEW p \in P, p # p0
      PROVE  /\ LineIn(N, p[1], sets[p[1]], p[2]) # x
             /\ sets[s][w].valid => LineIn(N, p[1], sets[p[1]], p[2]) # y
  <2>1. PICK k \in 0..(N - 1), v \in 0..(n - 1) : p = <<k, v>> /\ sets[k][v].valid
    BY DEF Filled
  <2>2. PICK z : z = LineIn(N, k, sets[k], v) /\ z % N = k /\ z \div N = sets[k][v].tag
    BY <1>1, LineIs
  <2>3. y % N = s /\ y \div N = sets[s][w].tag
    BY <1>1, LineIs
  <2>4. ASSUME z = x
        PROVE  FALSE
    <3>1. k = s /\ v # w
      BY <1>6, <2>1, <2>2, <2>4
    <3> QED
      BY <2>1, <2>2, <2>4, <3>1
  <2>5. ASSUME z = y, sets[s][w].valid
        PROVE  FALSE
    <3>1. k = s /\ v # w
      BY <1>6, <2>1, <2>2, <2>3, <2>5
    <3>2. sets[s][v].tag = sets[s][w].tag
      BY <2>2, <2>3, <2>5, <3>1
    <3>3. v \in 0..(w - 1) \/ w \in 0..(v - 1)
      BY <3>1
    <3> QED
      BY <2>1, <2>5, <3>1, <3>2, <3>3 DEF WellFormed
  <2> QED
    BY <2>1, <2>2, <2>4, <2>5
<1>7. x \notin Rest /\ (sets[s][w].valid => y \notin Rest)
  BY <1>6 DEF HeldIn
<1>8. sets[s][w].tag = x \div N <=> y = x
  <2>1. y \div N = sets[s][w].tag
    BY <1>1, LineIs
  <2>2. ASSUME sets[s][w].tag = x \div N
        PROVE  y = x
    BY <1>1, <2>2 DEF LineIn
  <2> QED
    BY <2>1, <2>2
<1>9. ~sets[s][w].valid => ~Full(N * n, A)
  BY <1>1, FreeWayIsRoom
<1> HIDE DEF A, B, Rest, y
<1>10. Written(A, B, N, n, x, s, sets[s], w)
  <2>1. CASE sets[s][w].valid
    <3>1. Swap(A, y, x) = B
      BY <1>4, <1>5, <1>7, <2>1 DEF Swap
    <3> QED
      BY <1>4, <1>5, <1>7, <1>8, <2>1, <3>1, Zenon DEF Written, y
  <2>2. CASE ~sets[s][w].valid
    BY <1>4, <1>5, <1>7, <1>9, <2>2, Zenon DEF Written
  <2> QED
    BY <2>1, <2>2
<1> QED
  BY <1>10 DEF A, B

\* A single set of which all ways are used leaves no way to spare.
LEMMA AllWaysUsed ==
  ASSUME NEW n \in Nat \ {0}, NEW sets \in [0..0 -> [0..(n - 1) -> Line]], NEW t,
         WellFormed(n, sets[0], t), \A v \in 0..(n - 1) : sets[0][v].valid
  PROVE  Full(n, AllHeld(1, n, sets))
<1> DEFINE A == AllHeld(1, n, sets)
           P == Filled(1, n, sets)
           line == [p \in P |-> LineIn(1, p[1], sets[p[1]], p[2])]
           h == [w \in 0..(n - 1) |-> LineIn(1, 0, sets[0], w)]
<1>1. IsFiniteSet(A)
  <2>1. IsFiniteSet(0..(n - 1))
    BY FS_Interval
  <2>2. IsFiniteSet((0..(1 - 1)) \X (0..(n - 1)))
    <3>1. 0 \in Int /\ 1 - 1 \in Int
      OBVIOUS
    <3>2. IsFiniteSet(0..(1 - 1))
      BY <3>1, FS_Interval, Zenon
    <3> QED
      BY <2>1, <3>2, FS_Product
  <2>3. P \in SUBSET ((0..(1 - 1)) \X (0..(n - 1)))
    BY DEF Filled
  <2>4. IsFiniteSet(P)
    BY <2>2, <2>3, FS_Subset
  <2>5. line \in Surjection(P, A)
    BY DEF Surjection, AllHeld, HeldIn
  <2> QED
    BY <2>4, <2>5, FS_Surjection
<1>2. ASSUME NEW w \in 0..(n - 1)
      PROVE  LineIn(1, 0, sets[0], w) = sets[0][w].tag
  <2>1. 0 \in 0..0 /\ sets[0][w].tag \in Nat
    BY DEF Line
  <2>2. LineIn(1, 0, sets[0], w) = sets[0][w].tag * 1 + 0
    BY DEF LineIn
  <2> QED
    BY <2>1, <2>2
<1>3. ASSUME NEW w \in 0..(n - 1)
      PROVE  h[w] \in A
  <2>1. PICK p \in (0..(1 - 1)) \X (0..(n - 1)) : p[1] = 0 /\ p[2] = w
    <3>1. 0 \in 0..(1 - 1)
      OBVIOUS
    <3>2. <<0, w>> \in (0..(1 - 1)) \X (0..(n - 1)) /\ <<0, w>>[1] = 0 /\ <<0, w>>[2] = w
      BY <3>1
    <3> QED
      BY <3>2, Zenon
  <2>2. p \in P /\ p[1] = 0 /\ p[2] = w
    BY <2>1 DEF Filled
  <2>3. h[w] = LineIn(1, p[1], sets[p[1]], p[2])
    BY <2>2
  <2> HIDE DEF P, h
  <2> QED
    BY <2>2, <2>3, Zenon DEF AllHeld, HeldIn, P
<1>4. ASSUME NEW v \in 0..(n - 1), NEW w \in 0..(n - 1), v # w
      PROVE  h[v] # h[w]
  <2>1. v \in 0..(w - 1) \/ w \in 0..(v - 1)
    BY <1>4
  <2>2. sets[0][v].tag # sets[0][w].tag
    BY <2>1 DEF WellFormed
  <2> QED
    BY <1>2, <2>2
<1>5. h \in Injection(0..(n - 1), A)
  <2>1. h \in [0..(n - 1) -> A]
    BY <1>3
  <2> HIDE DEF h, A
  <2> QED
    BY <1>4, <2>1 DEF Injection, IsInjective
<1>6. Cardinality(0..(n - 1)) = n
  BY FS_Interval
<1>7. n <= Cardinality(A)
  BY <1>1, <1>5, <1>6, FS_Injection
<1>8. Cardinality(A) \in Nat
  BY <1>1, FS_CardinalityType
<1> HIDE DEF A
<1>9. ~(Cardinality(A) < n)
  BY <1>7, <1>8
<1> QED
  BY <1>9 DEF Full, A

LEMMA OneWrite ==
  ASSUME NEW N, NEW n, NEW S, NEW sets \in [0..(N - 1) -> [0..(n - 1) -> S]],
         NEW s \in 0..(N - 1), NEW w \in 0..(n - 1), NEW line,
         NEW new, new = [sets EXCEPT ![s] = [sets[s] EXCEPT ![w] = line]]
  PROVE  /\ new[s][w] = line
         /\ \A k \in 0..(N - 1) : \A v \in 0..(n - 1) : k # s \/ v # w => new[k][v] = sets[k][v]
<1>1. PICK set \in [0..(n - 1) -> S] : set = sets[s]
  OBVIOUS
<1>2. new[s] = [set EXCEPT ![w] = line] /\ \A k \in 0..(N - 1) : k # s => new[k] = sets[k]
  BY <1>1
<1>3. new[s][w] = line /\ \A v \in 0..(n - 1) : v # w => new[s][v] = set[v]
  BY <1>1, <1>2
<1> QED
  BY <1>1, <1>2, <1>3

LEMMA WriteHeldSets ==
  ASSUME NEW N \in Nat \ {0}, NEW n \in Nat \ {0},
         NEW sets \in [0..(N - 1) -> [0..(n - 1) -> Line]], NEW x \in Nat,
         NEW s \in 0..(N - 1), s = x % N, NEW w \in 0..(n - 1), NEW t, WellFormed(n, sets[s], t),
         \A v \in 0..(n - 1) : v # w /\ sets[s][v].valid => sets[s][v].tag # x \div N,
         NEW line, line.valid, line.tag = x \div N,
         NEW new, new = [sets EXCEPT ![s] = [sets[s] EXCEPT ![w] = line]]
  PROVE  Written(AllHeld(N, n, sets), AllHeld(N, n, new), N, n, x, s, sets[s], w)
<1>1. /\ new[s][w] = line
      /\ \A k \in 0..(N - 1) : \A v \in 0..(n - 1) : k # s \/ v # w => new[k][v] = sets[k][v]
  BY OneWrite
<1>2. new[s][w].valid /\ new[s][w].tag = x \div N
  BY <1>1, Zenon
<1> QED
  BY <1>1, <1>2, WriteHeld, ZenonT(30)

\* An access of level l that writes way w: what becomes of the lines of the level, and
\* when it is a hit.
AccessWrites(l, addr, time, w) ==
  /\ Written(AllHeld(NumSets(l), assoc[l], cache[l].sets),
             AllHeld(NumSets(l), assoc[l], cache_access(l, addr, time).sets),
             NumSets(l), assoc[l], LineOf(addr), Index(l, addr), SetOf(l, addr), w)
  /\ Hit(l, addr) # {} <=> SetOf(l, addr)[w].valid /\ SetOf(l, addr)[w].tag = Tag(l, addr)

LEMMA AccessHeld ==
  ASSUME SimTypes, CountInv, SetInv, phase = "sim", question[1] = "policy",
         NEW l \in 1..num_lvls, NEW addr \in Nat, NEW time \in Nat,
         NEW w \in 0..(assoc[l] - 1), WritesWay(l, addr, time, w, assoc[l], SetOf(l, addr))
  PROVE  AccessWrites(l, addr, time, w)
<1>1. PICK n, N, x, s, tag, set, sets, new :
        /\ n = assoc[l] /\ N = NumSets(l) /\ x = LineOf(addr) /\ s = Index(l, addr)
        /\ tag = Tag(l, addr) /\ set = SetOf(l, addr)
        /\ sets = cache[l].sets /\ new = cache_access(l, addr, time).sets
  OBVIOUS
<1>2. n \in Nat \ {0} /\ N \in Nat \ {0} /\ line_size \in Nat \ {0}
  BY <1>1, AnsweredIsUsable DEF SimTypes
<1>3. x \in Nat
  BY <1>1, <1>2 DEF LineOf
<1>4. s = x % N /\ tag = x \div N /\ s \in 0..(N - 1)
  <2>1. s = x % N /\ tag = x \div N
    BY <1>1 DEF Index, Tag
  <2> QED
    BY <1>2, <1>3, <2>1, LineRebuilt
<1>5. /\ sets \in [0..(N - 1) -> [0..(n - 1) -> Line]]
      /\ \A k \in 0..(N - 1) : WellFormed(n, sets[k], global_timer)
  BY <1>1 DEF SetInv, Ways
<1>6. set = sets[s] /\ WellFormed(n, sets[s], global_timer) /\ w \in 0..(n - 1)
  BY <1>1, <1>4, <1>5 DEF SetOf
<1>7. PICK line : line = [valid |-> TRUE, tag |-> tag, last_used |-> time]
  OBVIOUS
<1>8. /\ \A v \in 0..(n - 1) : v # w /\ sets[s][v].valid => sets[s][v].tag # x \div N
      /\ new = [sets EXCEPT ![s] = [sets[s] EXCEPT ![w] = line]]
  <2>1. WritesWay(l, addr, time, w, n, set)
    BY <1>1
  <2> QED
    BY <1>1, <1>4, <1>6, <1>7, <2>1, Zenon DEF WritesWay
<1>9. line.valid /\ line.tag = x \div N
  BY <1>4, <1>7
<1>10. Written(AllHeld(N, n, sets), AllHeld(N, n, new), N, n, x, s, sets[s], w)
  BY <1>2, <1>3, <1>4, <1>5, <1>6, <1>8, <1>9, WriteHeldSets, Zenon
<1>11. Hit(l, addr) # {} <=> set[w].valid /\ set[w].tag = tag
  <2>1. Hit(l, addr) = {v \in 0..(n - 1) : set[v].valid /\ set[v].tag = tag}
    BY <1>1 DEF Hit, Ways
  <2> QED
    BY <1>4, <1>6, <1>8, <2>1
<1> QED
  BY <1>1, <1>6, <1>10, <1>11, Zenon DEF AccessWrites

\* What an access with the line x makes of the lines A of a level with room for c.
Takes(A, B, c, x, hit) ==
  /\ hit => x \in A /\ B = A
  /\ ~hit => /\ x \notin A
             /\ \/ ~Full(c, A) /\ B = A \cup {x}
                \/ \E y \in A : B = Swap(A, y, x)

LEMMA WrittenTakes ==
  ASSUME NEW N \in Nat \ {0}, NEW n \in Nat \ {0}, NEW x \in Nat, NEW s, NEW set, NEW w, NEW A, NEW B,
         Written(A, B, N, n, x, s, set, w)
  PROVE  Takes(A, B, N * n, x, set[w].valid /\ set[w].tag = x \div N)
BY Zenon DEF Written, Takes

Extends(p, q) == Len(q) <= Len(p) /\ \A j \in 1..Len(q) : p[j] = q[j]

LEMMA ExtendsAppended ==
  ASSUME NEW q \in Seq(Nat), NEW x \in Nat, NEW p \in Seq(Nat), Extends(p, Append(q, x))
  PROVE  /\ Extends(p, q)
         /\ Len(q) + 1 \in 1..Len(p) /\ p[Len(q) + 1] = x
<1>1. PICK N \in Nat : N = Len(q)
  OBVIOUS
<1>2. PICK M \in Nat : M = Len(p)
  OBVIOUS
<1>3. PICK r : r = Append(q, x)
  OBVIOUS
<1>4. /\ Len(r) = N + 1 /\ r[N + 1] = x
      /\ \A j \in 1..N : r[j] = q[j]
  BY <1>1, <1>3
<1>5. N + 1 <= M /\ \A j \in 1..(N + 1) : p[j] = r[j]
  BY <1>2, <1>3, <1>4, Zenon DEF Extends
<1>6. N <= M /\ N + 1 \in 1..M /\ N + 1 \in 1..(N + 1) /\ \A j \in 1..N : j \in 1..(N + 1)
  BY <1>5
<1>7. p[N + 1] = x /\ \A j \in 1..N : p[j] = q[j]
  BY <1>4, <1>5, <1>6, Zenon
<1> QED
  BY <1>1, <1>2, <1>6, <1>7, Zenon DEF Extends

LEMMA LinesAppended ==
  ASSUME NEW q \in Seq(Nat), NEW x \in Nat
  PROVE  /\ LinesIn(Append(q, x)) = LinesIn(q) \cup {x}
         /\ Append(q, x) \in Seq(Nat) /\ Len(Append(q, x)) = Len(q) + 1
<1>1. PICK r : r = Append(q, x)
  OBVIOUS
<1>2. /\ Len(q) \in Nat /\ Len(r) = Len(q) + 1 /\ r[Len(q) + 1] = x /\ r \in Seq(Nat)
      /\ \A j \in 1..Len(q) : r[j] = q[j]
  BY <1>1
<1>3. 1..Len(r) = 1..Len(q) \cup {Len(q) + 1}
  BY <1>2
<1> QED
  BY <1>1, <1>2, <1>3 DEF LinesIn

LEMMA LinesExtended ==
  ASSUME NEW q \in Seq(Nat), NEW p \in Seq(Nat), Extends(p, q)
  PROVE  LinesIn(q) \subseteq LinesIn(p)
<1>1. 1..Len(q) \subseteq 1..Len(p)
  BY DEF Extends
<1> QED
  BY <1>1 DEF LinesIn, Extends

\* A level that has missed m times on the lines q and now holds the lines A: whatever
\* follows q, the best choices on the whole would not miss more often than it did and
\* the best choices from here on will.
Beaten(q, c, m, A) ==
  /\ A \in SUBSET LinesIn(q)
  /\ \A p \in Seq(Nat) : Extends(p, q) =>
       \A f : IsMisses(p, c, f) => f[1][{}] <= m + f[Len(q) + 1][A]

LEMMA BeatenAtFirst ==
  ASSUME NEW c \in Nat \ {0}
  PROVE  Beaten(<<>>, c, 0, {})
<1>1. Len(<<>>) = 0
  OBVIOUS
<1>2. ASSUME NEW p \in Seq(Nat), NEW f, IsMisses(p, c, f)
      PROVE  f[1][{}] <= 0 + f[0 + 1][{}]
  <2>1. 1 \in 1..(Len(p) + 1) /\ {} \in SUBSET LinesIn(p)
    OBVIOUS
  <2>2. f[1][{}] \in Nat
    BY <1>2, <2>1, MissesType
  <2>3. 0 + 1 = 1
    OBVIOUS
  <2> QED
    BY <2>2, <2>3
<1> QED
  BY <1>1, <1>2 DEF Beaten

LEMMA BeatenStep ==
  ASSUME NEW q \in Seq(Nat), NEW c \in Nat \ {0}, NEW m \in Nat, NEW A, Beaten(q, c, m, A),
         NEW x \in Nat, NEW hit, NEW B, Takes(A, B, c, x, hit),
         NEW m2 \in Nat, hit => m2 = m, ~hit => m2 = m + 1
  PROVE  Beaten(Append(q, x), c, m2, B)
<1>1. PICK r \in Seq(Nat) : r = Append(q, x) /\ LinesIn(r) = LinesIn(q) \cup {x} /\ Len(r) = Len(q) + 1
  BY LinesAppended
<1>2. A \in SUBSET LinesIn(q)
  BY DEF Beaten
<1>3. B \in SUBSET LinesIn(r)
  BY <1>1, <1>2 DEF Takes, Swap
<1>4. ASSUME NEW p \in Seq(Nat), Extends(p, r), NEW f, IsMisses(p, c, f)
      PROVE  f[1][{}] <= m2 + f[Len(r) + 1][B]
  <2>1. PICK k \in 1..Len(p) : k = Len(q) + 1 /\ p[k] = x /\ Extends(p, q)
    BY <1>1, <1>4, ExtendsAppended
  <2>2. f[1][{}] <= m + f[k][A]
    BY <1>4, <2>1, Zenon DEF Beaten
  <2>3. A \in SUBSET LinesIn(p) /\ B \in SUBSET LinesIn(p)
    <3>1. LinesIn(r) \subseteq LinesIn(p)
      BY <1>4, LinesExtended
    <3> QED
      BY <1>1, <1>2, <1>3, <3>1
  <2>4. 1 \in 1..(Len(p) + 1) /\ k \in 1..(Len(p) + 1) /\ k + 1 \in 1..(Len(p) + 1) /\ ~(k > Len(p))
    OBVIOUS
  <2>5. PICK all \in Nat, before \in Nat, after \in Nat :
          all = f[1][{}] /\ before = f[k][A] /\ after = f[k + 1][B]
    <3>1. f[1][{}] \in Nat /\ f[k][A] \in Nat /\ f[k + 1][B] \in Nat
      BY <1>4, <2>3, <2>4, MissesType
    <3> QED
      BY <3>1, Zenon
  <2>6. all <= m + before
    BY <2>2, <2>5, Zenon
  <2>7. all <= m2 + after
    <3>1. CASE hit
      <4>1. p[k] \in A /\ B = A
        BY <2>1, <3>1 DEF Takes
      <4>2. f[k][A] = MissesAt(p, c, k, f[k + 1], A)
        BY <1>4, <2>3, <2>4, MissesIs
      <4>3. before = after
        BY <2>4, <2>5, <4>1, <4>2, Zenon DEF MissesAt
      <4> QED
        BY <2>6, <3>1, <4>3
    <3>2. CASE ~hit
      <4>1. /\ p[k] \notin A
            /\ \/ ~Full(c, A) /\ B = A \cup {p[k]}
               \/ \E y \in A : B = Swap(A, y, p[k])
        BY <2>1, <3>2 DEF Takes
      <4>2. f[k][A] <= 1 + f[k + 1][B]
        BY <1>4, <2>3, <4>1, AnyChoice, Zenon
      <4>3. before <= 1 + after
        BY <2>5, <4>2, Zenon
      <4> QED
        BY <2>6, <3>2, <4>3
    <3> QED
      BY <3>1, <3>2
  <2> QED
    BY <1>1, <2>1, <2>5, <2>7
<1> QED
  BY <1>1, <1>3, <1>4, Zenon DEF Beaten

LEMMA BeatenAtLast ==
  ASSUME NEW q \in Seq(Nat), NEW c \in Nat \ {0}, NEW m \in Nat, NEW A, Beaten(q, c, m, A)
  PROVE  m >= MinMisses(q, c)
<1>1. PICK f : IsMisses(q, c, f) /\ MinMisses(q, c) = f[1][{}]
  BY MinMissesOf
<1>2. A \in SUBSET LinesIn(q)
  BY DEF Beaten
<1>3. Extends(q, q)
  BY DEF Extends
<1>4. f[1][{}] <= m + f[Len(q) + 1][A]
  BY <1>1, <1>3, Zenon DEF Beaten
<1>5. f[Len(q) + 1][A] = 0
  BY <1>1, <1>2, NothingLeft
<1>6. MinMisses(q, c) \in Nat
  <2>1. 1 \in 1..(Len(q) + 1) /\ {} \in SUBSET LinesIn(q)
    OBVIOUS
  <2> QED
    BY <1>1, <2>1, MissesType
<1>7. MinMisses(q, c) <= m
  BY <1>1, <1>4, <1>5
<1> QED
  BY <1>6, <1>7

-----------------------------------------------------------------------------
(***************************************************************************)
(* No level beats the best choice of victims.                              *)
(***************************************************************************)

\* What level l has missed and what it holds, against the lines given to it.
LevelBeaten(l) ==
  Beaten(seen[l], NumSets(l) * assoc[l], cache[l].misses,
         AllHeld(NumSets(l), assoc[l], cache[l].sets))

BeatInv == phase = "sim" => \A l \in 1..num_lvls : LevelBeaten(l)

\* What is known of a level while the simulation runs.
LEMMA LevelTypes ==
  ASSUME SimInv, LruInv, phase = "sim", NEW l \in 1..num_lvls
  PROVE  /\ question[1] = "policy"
         /\ NumSets(l) \in Nat \ {0} /\ assoc[l] \in Nat \ {0} /\ line_size \in Nat \ {0}
         /\ NumSets(l) * assoc[l] \in Nat \ {0}
         /\ seen[l] \in Seq(Nat) /\ cache[l].misses \in Nat /\ l \in Levels
<1>1. SimTypes /\ CountInv /\ Config
  BY DEF SimInv, SimTypes
<1>2. question[1] = "policy"
  BY <1>1 DEF Config, ConfigInv
<1>3. NumSets(l) \in Nat \ {0} /\ assoc[l] \in Nat \ {0} /\ line_size \in Nat \ {0} /\ l \in Levels
  BY <1>1, <1>2, AnsweredIsUsable
<1>4. \A N, n \in Nat \ {0} : N * n \in Nat \ {0}
  OBVIOUS
<1>5. NumSets(l) * assoc[l] \in Nat \ {0}
  BY <1>3, <1>4, Zenon
<1>6. seen[l] \in Seq(Nat) /\ cache[l].misses \in Nat
  BY <1>1, <1>3 DEF LruInv, CountInv
<1> QED
  BY <1>2, <1>3, <1>5, <1>6

LEMMA AccessBeaten ==
  ASSUME SimInv, LruInv, phase = "sim", NEW l \in 1..num_lvls, LevelBeaten(l),
         NEW addr \in Nat, NEW time \in Nat, NEW level, level = cache_access(l, addr, time)
  PROVE  Beaten(Append(seen[l], LineOf(addr)), NumSets(l) * assoc[l], level.misses,
                AllHeld(NumSets(l), assoc[l], level.sets))
<1>1. SimTypes /\ CountInv /\ SetInv /\ question[1] = "policy"
  BY LevelTypes DEF SimInv
<1>2. PICK N \in Nat \ {0}, n \in Nat \ {0}, c \in Nat \ {0} :
        N = NumSets(l) /\ n = assoc[l] /\ c = NumSets(l) * assoc[l]
  BY LevelTypes
<1>3. PICK q \in Seq(Nat), m \in Nat : q = seen[l] /\ m = cache[l].misses
  BY LevelTypes
<1>4. PICK x \in Nat : x = LineOf(addr)
  <2>1. line_size \in Nat \ {0}
    BY LevelTypes
  <2>2. LineOf(addr) \in Nat
    BY <2>1 DEF LineOf
  <2> QED
    BY <2>2
<1>5. PICK A, B : /\ A = AllHeld(N, n, cache[l].sets)
                  /\ B = AllHeld(N, n, level.sets)
  OBVIOUS
<1>6. PICK w \in 0..(assoc[l] - 1) : WritesWay(l, addr, time, w, assoc[l], SetOf(l, addr))
  BY <1>1, AccessWay
<1>7. /\ Written(A, B, N, n, x, Index(l, addr), SetOf(l, addr), w)
      /\ Hit(l, addr) # {} <=> SetOf(l, addr)[w].valid /\ SetOf(l, addr)[w].tag = Tag(l, addr)
  <2>1. AccessWrites(l, addr, time, w)
    BY <1>1, <1>6, AccessHeld
  <2> QED
    BY <1>2, <1>4, <1>5, <2>1, Zenon DEF AccessWrites
<1>8. Tag(l, addr) = x \div N
  BY <1>2, <1>4 DEF Tag
<1>9. PICK hit : hit = (SetOf(l, addr)[w].valid /\ SetOf(l, addr)[w].tag = x \div N)
  OBVIOUS
<1>10. Takes(A, B, N * n, x, hit)
  BY <1>7, <1>9, WrittenTakes
<1>11. level.misses \in Nat /\ (hit => level.misses = m) /\ (~hit => level.misses = m + 1)
  <2>1. level.misses = cache[l].misses + (IF Hit(l, addr) # {} THEN 0 ELSE 1)
    BY DEF cache_access
  <2>2. hit <=> Hit(l, addr) # {}
    BY <1>7, <1>8, <1>9, Zenon
  <2> QED
    BY <1>3, <2>1, <2>2
<1>12. Beaten(q, c, m, A)
  BY <1>2, <1>3, <1>5, Zenon DEF LevelBeaten
<1>13. Takes(A, B, c, x, hit)
  BY <1>2, <1>10, Zenon
<1>14. Beaten(Append(q, x), c, level.misses, B)
  BY <1>11, <1>12, <1>13, BeatenStep
<1> QED
  BY <1>2, <1>3, <1>4, <1>5, <1>14, Zenon

\* A level of which nothing is valid holds nothing.
LEMMA NothingHeld ==
  ASSUME NEW N, NEW n, NEW sets,
         \A s \in 0..(N - 1) : \A w \in 0..(n - 1) : ~sets[s][w].valid
  PROVE  AllHeld(N, n, sets) = {}
BY DEF AllHeld, HeldIn, Filled

\* The simulation begins: the levels are empty.
LEMMA InitHeld ==
  ASSUME SimInv, LruInv, InitCaches, phase' = "sim"
  PROVE  /\ UNCHANGED <<question, num_lvls, line_size, assoc, lvl_size, policy, traces, i, seen>>
         /\ i = 0 /\ question[1] = "policy"
         /\ \A l \in 1..num_lvls :
              /\ l \in Levels /\ seen[l] = <<>>
              /\ NumSets(l) \in Nat \ {0} /\ assoc[l] \in Nat \ {0}
              /\ cache'[l].misses = 0
              /\ AllHeld(NumSets(l), assoc[l], cache'[l].sets) = {}
<1>1. /\ UNCHANGED <<question, num_lvls, line_size, assoc, lvl_size, policy, traces, i, seen>>
      /\ phase = "loaded" /\ cache' = [l \in 1..num_lvls |-> cache_init(l)]
  BY DEF InitCaches, parameters
<1>2. Config /\ question[1] = "policy" /\ i = 0 /\ seen = [l \in Levels |-> <<>>]
  BY <1>1 DEF SimInv, SimTypes, CountInv, Config, ConfigInv, LruInv
<1>3. ASSUME NEW l \in 1..num_lvls
      PROVE  /\ l \in Levels /\ seen[l] = <<>>
             /\ NumSets(l) \in Nat \ {0} /\ assoc[l] \in Nat \ {0}
             /\ cache'[l].misses = 0
             /\ AllHeld(NumSets(l), assoc[l], cache'[l].sets) = {}
  <2>1. l \in Levels /\ NumSets(l) \in Nat \ {0} /\ assoc[l] \in Nat \ {0}
    BY <1>2, AnsweredIsUsable
  <2>2. cache'[l] = cache_init(l)
    BY <1>1
  <2>3. \A s \in 0..(NumSets(l) - 1) : \A w \in 0..(assoc[l] - 1) : ~cache'[l].sets[s][w].valid
    BY <2>2 DEF cache_init, Ways, EmptyLine
  <2>4. AllHeld(NumSets(l), assoc[l], cache'[l].sets) = {}
    BY <2>3, NothingHeld
  <2>5. cache'[l].misses = 0
    BY <2>2 DEF cache_init
  <2>6. seen[l] = <<>>
    BY <1>2, <2>1
  <2> QED
    BY <2>1, <2>4, <2>5, <2>6
<1> QED
  BY <1>1, <1>2, <1>3

\* One access: what it makes of each level.
LEMMA SimulateLevel ==
  ASSUME SimInv, LruInv, Simulate
  PROVE  /\ UNCHANGED <<phase, question, num_lvls, line_size, assoc, lvl_size, policy, traces>>
         /\ phase = "sim" /\ i' = i + 1 /\ i \in Nat /\ i + 1 \in 1..Len(traces) /\ traces[i + 1] \in Nat
         /\ \A l \in 1..num_lvls :
              \/ seen'[l] = seen[l] /\ cache'[l] = cache[l] /\ l # 1
              \/ /\ seen'[l] = Append(seen[l], LineOf(traces[i + 1]))
                 /\ \E time \in Nat : cache'[l] = cache_access(l, traces[i + 1], time)
<1>1. PICK addr : addr = traces[i + 1]
  OBVIOUS
<1>2. PICK reached : reached = {k \in 1..num_lvls : Reached(k, addr)}
  OBVIOUS
<1>3. /\ phase = "sim" /\ i < Len(traces) /\ i' = i + 1
      /\ UNCHANGED <<phase, question, num_lvls, line_size, assoc, lvl_size, policy, traces>>
      /\ seen' = [l \in Levels |-> IF l \in reached THEN Append(seen[l], LineOf(addr)) ELSE seen[l]]
      /\ cache' = [l \in 1..num_lvls |->
                    IF l \in reached THEN cache_access(l, addr, global_timer + l) ELSE cache[l]]
  BY <1>1, <1>2 DEF Simulate, parameters
<1>4. i \in Nat /\ i + 1 \in 1..Len(traces) /\ addr \in Nat
  <2>1. traces \in Seq(Addresses) /\ i \in Nat /\ i + 1 \in 1..Len(traces)
    BY <1>3 DEF SimInv, CountInv, SimTypes, LoadInv
  <2>2. addr \in Addresses
    BY <1>1, <2>1
  <2> QED
    BY <2>1, <2>2, AddressAssumption
<1>5. ASSUME NEW l \in 1..num_lvls
      PROVE  \/ seen'[l] = seen[l] /\ cache'[l] = cache[l] /\ l # 1
             \/ /\ seen'[l] = Append(seen[l], LineOf(addr))
                /\ \E time \in Nat : cache'[l] = cache_access(l, addr, time)
  <2>1. l \in Levels /\ global_timer \in Nat
    BY <1>3, LevelTypes DEF SimInv, SetInv
  <2>2. CASE l \in reached
    <3>1. PICK time \in Nat : time = global_timer + l
      BY <2>1
    <3>2. cache'[l] = cache_access(l, addr, time) /\ seen'[l] = Append(seen[l], LineOf(addr))
      BY <1>3, <2>1, <2>2, <3>1
    <3> QED
      BY <3>2
  <2>3. CASE l \notin reached
    <3>1. l # 1
      <4>1. Reached(1, addr)
        BY ReachedNext
      <4> QED
        BY <1>2, <2>3, <4>1
    <3> QED
      BY <1>3, <2>1, <2>3, <3>1
  <2> QED
    BY <2>2, <2>3
<1> QED
  BY <1>1, <1>3, <1>4, <1>5, Zenon

LEMMA BeatStep == SimInv /\ LruInv /\ BeatInv /\ [Next]_vars => BeatInv'
<1> SUFFICES ASSUME SimInv, LruInv, BeatInv, [Next]_vars, phase' = "sim",
                    NEW l \in 1..num_lvls'
             PROVE  LevelBeaten(l)'
  BY DEF BeatInv
<1>1. CASE InitCaches
  <2>1. /\ UNCHANGED <<num_lvls, line_size, assoc, lvl_size, seen>>
        /\ l \in 1..num_lvls
    BY <1>1, InitHeld
  <2>2. /\ seen[l] = <<>> /\ NumSets(l) \in Nat \ {0} /\ assoc[l] \in Nat \ {0}
        /\ cache'[l].misses = 0 /\ AllHeld(NumSets(l), assoc[l], cache'[l].sets) = {}
    BY <1>1, <2>1, InitHeld
  <2>3. \A N, n \in Nat \ {0} : N * n \in Nat \ {0}
    OBVIOUS
  <2>4. NumSets(l) * assoc[l] \in Nat \ {0}
    BY <2>2, <2>3, Zenon
  <2>5. Beaten(<<>>, NumSets(l) * assoc[l], 0, {})
    BY <2>4, BeatenAtFirst
  <2> QED
    BY <2>1, <2>2, <2>5 DEF LevelBeaten, NumSets
<1>2. CASE Simulate
  <2>1. /\ UNCHANGED <<num_lvls, line_size, assoc, lvl_size>> /\ l \in 1..num_lvls
        /\ phase = "sim" /\ traces[i + 1] \in Nat
    BY <1>2, SimulateLevel
  <2>2. LevelBeaten(l)
    BY <2>1 DEF BeatInv
  <2>3. CASE seen'[l] = seen[l] /\ cache'[l] = cache[l]
    BY <2>1, <2>2, <2>3 DEF LevelBeaten, NumSets
  <2>4. CASE /\ seen'[l] = Append(seen[l], LineOf(traces[i + 1]))
             /\ \E time \in Nat : cache'[l] = cache_access(l, traces[i + 1], time)
    <3>1. Beaten(seen'[l], NumSets(l) * assoc[l], cache'[l].misses,
                 AllHeld(NumSets(l), assoc[l], cache'[l].sets))
      BY <2>1, <2>2, <2>4, AccessBeaten
    <3> QED
      BY <2>1, <3>1 DEF LevelBeaten, NumSets
  <2> QED
    BY <1>2, <2>1, <2>3, <2>4, SimulateLevel
<1>3. CASE UNCHANGED vars
  BY <1>3 DEF vars, simulation, parameters, BeatInv, LevelBeaten, NumSets
<1>4. CASE Configure \/ Load \/ NoTraces \/ InitNoMem \/ Report
  <2>1. phase # "sim" \/ phase' # "sim"
    BY <1>4 DEF Configure, Load, NoTraces, InitNoMem, Report
  <2>2. phase' # "sim"
    BY <1>4, <2>1 DEF Configure, AskNumLvls, AskLineSize, AskAssoc, AskLvlSize, AskPolicy, InputEnds,
                      Answer, Load, LoadEnds, ReadBatch, ReallocFails, NoTraces, InitNoMem, Report
  <2> QED
    BY <2>2
<1> QED
  BY <1>1, <1>2, <1>3, <1>4 DEF Next

\* No level misses less often than the best choice of victims would with its lines in
\* one set (cache_access): for all sizes, traces and policies, and whatever the levels
\* before it let through.
THEOREM NoLevelBeatsOptimalHolds == Spec => []NoLevelBeatsOptimal
<1>1. Init => SimInv /\ LruInv /\ BeatInv
  <2>1. Init => CountInv /\ SetInv /\ LruInv /\ BeatInv
    BY DEF Init, CountInv, ReportAddsUp, Simulating, SetInv, LruInv, BeatInv
  <2> QED
    BY <2>1, ConfigInit, LoadInit DEF SimInv, SimTypes
<1>2. SimInv /\ LruInv /\ BeatInv /\ [Next]_vars => (SimInv /\ LruInv /\ BeatInv)'
  BY SimTypesStep, CountStep, SetStep, LruStep, BeatStep DEF SimInv
<1>3. SimInv /\ LruInv /\ BeatInv => NoLevelBeatsOptimal
  <2> SUFFICES ASSUME SimInv, LruInv, BeatInv, Simulating, NEW l \in 1..num_lvls
               PROVE  cache[l].misses >= MinMisses(seen[l], NumSets(l) * assoc[l])
    BY DEF NoLevelBeatsOptimal
  <2>1. phase = "sim"
    BY DEF SimInv, CountInv, Simulating
  <2>2. LevelBeaten(l)
    BY <2>1 DEF BeatInv
  <2>3. NumSets(l) * assoc[l] \in Nat \ {0} /\ seen[l] \in Seq(Nat) /\ cache[l].misses \in Nat
    BY <2>1, LevelTypes
  <2> QED
    BY <2>2, <2>3, BeatenAtLast DEF LevelBeaten
<1> QED
  BY <1>1, <1>2, <1>3, PTL DEF Spec

-----------------------------------------------------------------------------
(***************************************************************************)
(* The optimal policy is optimal in a first level of one set.              *)
(***************************************************************************)

\* m misses before position k of q, with the lines A then held, are as good a beginning
\* as any: with the best choices from k on they add up to the fewest misses on q.
Best(q, n, k, m, A) ==
  /\ A \in SUBSET LinesIn(q)
  /\ \A f : IsMisses(q, n, f) => f[1][{}] = m + f[k][A]

\* The line y of A is used no sooner than any other line of A from position k on.
UsedLast(q, k, A, y) == \A v \in A : v # y => Sooner(q, k, v, y)

\* Giving up the line used last is a best choice.
LEMMA GiveUpLast ==
  ASSUME NEW q \in Seq(Nat), NEW n \in Nat \ {0}, NEW f, IsMisses(q, n, f),
         NEW k \in 1..Len(q), NEW A \in SUBSET LinesIn(q), q[k] \notin A, Full(n, A),
         NEW y \in A, UsedLast(q, k + 1, A, y)
  PROVE  f[k][A] = 1 + f[k + 1][Swap(A, y, q[k])]
<1>1. PICK x, C : x = q[k] /\ C = Swap(A, y, x)
  OBVIOUS
<1>2. x \in LinesIn(q) /\ k + 1 \in 1..(Len(q) + 1) /\ k \in 1..(Len(q) + 1)
  BY <1>1 DEF LinesIn
<1>3. \A v \in A : Swap(A, v, x) \in SUBSET LinesIn(q)
  BY <1>2 DEF Swap
<1>4. PICK fA \in Nat : fA = f[k][A]
  BY <1>2, MissesType
<1>5. PICK fC \in Nat : fC = f[k + 1][C]
  BY <1>1, <1>2, <1>3, MissesType
<1>6. GivesUpBest(q, f, k, A)
  BY MissIs
<1>7. fA <= 1 + fC
  BY <1>1, <1>4, <1>5, <1>6, Zenon DEF GivesUpBest
<1>8. PICK v \in A : fA = 1 + f[k + 1][Swap(A, v, x)]
  BY <1>1, <1>4, <1>6, Zenon DEF GivesUpBest
<1>9. PICK u \in Nat : u = f[k + 1][Swap(A, v, x)]
  BY <1>2, <1>3, MissesType
<1>10. fC <= u
  <2>1. CASE v = y
    BY <1>1, <1>5, <1>9, <2>1
  <2>2. CASE v # y
    <3>1. C \in SUBSET LinesIn(q) /\ Full(n, C)
      BY <1>1, <1>2, SwapIsFull
    <3>2. v \in C /\ y \in LinesIn(q) \ C /\ Swap(C, v, y) = Swap(A, v, x)
      BY <1>1, <2>2 DEF Swap
    <3>3. Sooner(q, k + 1, v, y)
      BY <2>2 DEF UsedLast
    <3>4. Exchangeable(q, n, f, k + 1)
      BY <1>2, Exchange
    <3>5. f[k + 1][C] <= f[k + 1][Swap(C, v, y)]
      BY <3>1, <3>2, <3>3, <3>4, Zenon DEF Exchangeable
    <3> QED
      BY <1>5, <1>9, <3>2, <3>5, Zenon
  <2> QED
    BY <2>1, <2>2
<1>11. fA = 1 + u
  BY <1>8, <1>9, Zenon
<1>12. fA = 1 + fC
  BY <1>7, <1>10, <1>11, Z3
<1> QED
  BY <1>1, <1>4, <1>5, <1>12, Zenon

\* An access of the optimal policy.
LEMMA BestStep ==
  ASSUME NEW q \in Seq(Nat), NEW n \in Nat \ {0}, NEW k \in 1..Len(q), NEW m \in Nat, NEW A,
         Best(q, n, k, m, A), NEW hit, NEW B, Takes(A, B, n, q[k], hit),
         ~hit /\ Full(n, A) => \E y \in A : B = Swap(A, y, q[k]) /\ UsedLast(q, k + 1, A, y),
         ~hit /\ ~Full(n, A) => B = A \cup {q[k]},
         NEW m2 \in Nat, hit => m2 = m, ~hit => m2 = m + 1
  PROVE  Best(q, n, k + 1, m2, B)
<1>1. A \in SUBSET LinesIn(q)
  BY DEF Best
<1>2. /\ q[k] \in LinesIn(q) /\ k + 1 \in 1..(Len(q) + 1) /\ k \in 1..(Len(q) + 1)
      /\ 1 \in 1..(Len(q) + 1) /\ ~(k > Len(q))
  BY DEF LinesIn
<1>3. B \in SUBSET LinesIn(q)
  BY <1>1, <1>2 DEF Takes, Swap
<1>4. ASSUME NEW f, IsMisses(q, n, f)
      PROVE  f[1][{}] = m2 + f[k + 1][B]
  <2>1. PICK all \in Nat : all = f[1][{}]
    BY <1>2, <1>4, MissesType
  <2>2. PICK before \in Nat : before = f[k][A]
    BY <1>1, <1>2, <1>4, MissesType
  <2>3. PICK after \in Nat : after = f[k + 1][B]
    BY <1>2, <1>3, <1>4, MissesType
  <2>4. all = m + before
    BY <1>4, <2>1, <2>2, Zenon DEF Best
  <2>5. CASE hit
    <3>1. q[k] \in A /\ B = A
      BY <2>5, Zenon DEF Takes
    <3>2. f[k][A] = MissesAt(q, n, k, f[k + 1], A)
      BY <1>1, <1>2, <1>4, MissesIs
    <3>3. before = after
      BY <1>2, <2>2, <2>3, <3>1, <3>2, Zenon DEF MissesAt
    <3>4. m2 = m
      BY <2>5
    <3> QED
      BY <2>1, <2>3, <2>4, <3>3, <3>4, Zenon
  <2>6. CASE ~hit
    <3>1. q[k] \notin A
      BY <2>6, Zenon DEF Takes
    <3>2. f[k][A] = 1 + f[k + 1][B]
      <4>1. CASE Full(n, A)
        <5>1. PICK y \in A : B = Swap(A, y, q[k]) /\ UsedLast(q, k + 1, A, y)
          BY <2>6, <4>1
        <5>2. f[k][A] = 1 + f[k + 1][Swap(A, y, q[k])]
          BY <1>1, <1>4, <3>1, <4>1, <5>1, GiveUpLast
        <5> QED
          BY <5>1, <5>2, Zenon
      <4>2. CASE ~Full(n, A)
        <5>1. GivesUpNothing(q, f, k, A)
          BY <1>1, <1>4, <3>1, <4>2, MissIs
        <5> QED
          BY <2>6, <4>2, <5>1, Zenon DEF GivesUpNothing
      <4> QED
        BY <4>1, <4>2
    <3>3. before = 1 + after /\ m2 = m + 1
      BY <2>2, <2>3, <2>6, <3>2
    <3>4. all = m2 + after
      BY <2>4, <3>3, Z3
    <3> QED
      BY <2>1, <2>3, <3>4, Zenon
  <2> QED
    BY <2>5, <2>6
<1> QED
  BY <1>3, <1>4, Zenon DEF Best

LEMMA BestAtFirst ==
  ASSUME NEW q \in Seq(Nat), NEW n \in Nat \ {0}
  PROVE  Best(q, n, 1, 0, {})
<1>1. 1 \in 1..(Len(q) + 1) /\ {} \in SUBSET LinesIn(q)
  OBVIOUS
<1>2. ASSUME NEW f, IsMisses(q, n, f)
      PROVE  f[1][{}] = 0 + f[1][{}]
  <2>1. f[1][{}] \in Nat
    BY <1>1, <1>2, MissesType
  <2> QED
    BY <2>1
<1> QED
  BY <1>1, <1>2 DEF Best

LEMMA BestAtLast ==
  ASSUME NEW q \in Seq(Nat), NEW n \in Nat \ {0}, NEW m \in Nat, NEW A,
         Best(q, n, Len(q) + 1, m, A)
  PROVE  m = MinMisses(q, n)
<1>1. PICK f : IsMisses(q, n, f) /\ MinMisses(q, n) = f[1][{}]
  BY MinMissesOf
<1>2. A \in SUBSET LinesIn(q) /\ f[1][{}] = m + f[Len(q) + 1][A]
  BY <1>1 DEF Best
<1>3. f[Len(q) + 1][A] = 0
  BY <1>1, <1>2, NothingLeft
<1> QED
  BY <1>1, <1>2, <1>3

\* The lines of the whole trace.
TraceLines == [j \in 1..Len(traces) |-> LineOf(traces[j])]

OptInv ==
  phase = "sim" =>
    /\ seen[1] = [j \in 1..i |-> TraceLines[j]]
    /\ policy = "ALG_OPTIMAL" /\ NumSets(1) = 1 =>
         Best(TraceLines, assoc[1], i + 1, cache[1].misses, AllHeld(1, assoc[1], cache[1].sets))

\* The victim is a line that is not used again, or one of those used again last.
LEMMA VictimUsedLast ==
  ASSUME SimTypes, CountInv, SetInv, phase = "sim", NEW l \in 1..num_lvls,
         NEW set \in [Ways(l) -> Line], assoc[l] \in Nat \ {0},
         NEW w, w = find_optimal_victim(l, set),
         NEW v \in Ways(l), NEW j \in Uses(l, set[w].tag)
  PROVE  \E k \in Uses(l, set[v].tag) : k <= j
<1> DEFINE unused == {u \in Ways(l) : Uses(l, set[u].tag) = {}}
           next(u) == Min(Uses(l, set[u].tag))
           f == [u \in Ways(l) |-> next(u)]
<1>1. i \in Nat /\ Len(traces) \in Nat
  BY DEF CountInv, SimTypes, LoadInv
<1>2. \A u \in Ways(l) : Uses(l, set[u].tag) \subseteq 0..Len(traces)
  BY <1>1 DEF Uses
<1>3. CASE unused # {}
  <2>1. unused \subseteq Nat
    BY DEF Ways
  <2>2. Min(unused) \in unused
    BY <1>3, <2>1, MinIsLeast
  <2>3. w \in unused
    BY <1>3, <2>2 DEF find_optimal_victim
  <2> QED
    BY <2>3
<1>4. CASE unused = {}
  <2>1. ASSUME NEW u \in Ways(l)
        PROVE  /\ next(u) \in Uses(l, set[u].tag) /\ next(u) \in 0..Len(traces)
               /\ \A k \in Uses(l, set[u].tag) : next(u) <= k
    <3>1. Uses(l, set[u].tag) # {}
      BY <1>4
    <3>2. Uses(l, set[u].tag) \subseteq Nat
      BY <1>1, <1>2
    <3>3. Min(Uses(l, set[u].tag)) \in Uses(l, set[u].tag)
          /\ \A k \in Uses(l, set[u].tag) : Min(Uses(l, set[u].tag)) <= k
      BY <3>1, <3>2, MinIsLeast
    <3> QED
      BY <1>2, <3>3
  <2> HIDE DEF next
  <2>2. f \in [0..(assoc[l] - 1) -> 0..Len(traces)]
    BY <2>1 DEF Ways
  <2>3. \E u \in Ways(l) : \A k \in Ways(l) : f[k] <= f[u]
    BY <1>1, <2>2, GreatestAt DEF Ways
  <2>4. \E u \in Ways(l) : \A k \in Ways(l) : next(k) <= next(u)
    BY <2>3
  <2>5. w = CHOOSE u \in Ways(l) : \A k \in Ways(l) : next(k) <= next(u)
    BY <1>4, Zenon DEF find_optimal_victim, next
  <2>6. w \in Ways(l) /\ next(v) <= next(w)
    BY <2>4, <2>5, Zenon
  <2>7. next(w) <= j /\ next(v) \in Uses(l, set[v].tag)
    BY <2>1, <2>6
  <2>8. next(v) \in Nat /\ next(w) \in Nat /\ j \in Nat
    <3>1. \A u \in Ways(l) : next(u) \in Nat
      BY <1>1, <2>1
    <3>2. j \in Nat
      BY <1>1, <1>2, <2>6
    <3> QED
      BY <2>6, <3>1, <3>2
  <2>9. next(v) <= j
    BY <2>6, <2>7, <2>8
  <2> QED
    BY <2>7, <2>9
<1> QED
  BY <1>3, <1>4

\* The same of the lines, where there is one set.
LEMMA VictimLineUsedLast ==
  ASSUME SimInv, LruInv, phase = "sim", 1 \in 1..num_lvls, NumSets(1) = 1,
         NEW set \in [Ways(1) -> Line], NEW w, w = find_optimal_victim(1, set),
         NEW v \in Ways(1), traces \in Seq(Nat), i \in Nat
  PROVE  Sooner(TraceLines, i + 1 + 1, LineIn(1, 0, set, v), LineIn(1, 0, set, w))
<1>1. SimTypes /\ CountInv /\ SetInv /\ assoc[1] \in Nat \ {0} /\ line_size \in Nat \ {0}
  BY LevelTypes DEF SimInv
<1>2. w \in Ways(1)
  BY <1>1, VictimIsWay
<1>3. \A u \in Ways(1) : LineIn(1, 0, set, u) = set[u].tag /\ set[u].tag \in Nat
  <2>1. \A t \in Nat : t * 1 + 0 = t
    OBVIOUS
  <2>2. \A u \in Ways(1) : set[u].tag \in Nat
    BY DEF Line
  <2> QED
    BY <2>1, <2>2 DEF LineIn
<1>4. PICK N \in Nat : N = Len(traces)
  BY <1>1 DEF SimTypes, LoadInv
<1>5. Len(TraceLines) = N /\ \A j \in 1..N : TraceLines[j] = LineOf(traces[j])
  BY <1>4 DEF TraceLines
<1>6. \A j \in 1..N : Tag(1, traces[j]) = TraceLines[j]
  <2>1. \A x \in Nat : x \div 1 = x
    OBVIOUS
  <2>2. ASSUME NEW j \in 1..N
        PROVE  LineOf(traces[j]) \in Nat
    <3>1. traces[j] \in Nat
      BY <1>4
    <3>2. \A a \in Nat : \A d \in Nat \ {0} : a \div d \in Nat
      OBVIOUS
    <3> QED
      BY <1>1, <3>1, <3>2, Zenon DEF LineOf
  <2> QED
    BY <1>5, <2>1, <2>2 DEF Tag
<1>7. \A t : Uses(1, t) = {j \in (i + 2)..N : TraceLines[j] = t}
  <2>1. \A j \in (i + 2)..N : j \in 1..N
    OBVIOUS
  <2> QED
    BY <1>4, <1>6, <2>1 DEF Uses
<1>8. ASSUME NEW j \in (i + 1 + 1)..N, TraceLines[j] = set[w].tag
      PROVE  \E k \in (i + 1 + 1)..j : TraceLines[k] = set[v].tag
  <2>1. i + 1 + 1 = i + 2
    OBVIOUS
  <2>2. j \in Uses(1, set[w].tag)
    BY <1>7, <1>8, <2>1
  <2>3. PICK k \in Uses(1, set[v].tag) : k <= j
    BY <1>1, <2>2, VictimUsedLast
  <2>4. k \in (i + 2)..N /\ TraceLines[k] = set[v].tag
    BY <1>7, <2>3
  <2> QED
    BY <2>1, <2>3, <2>4
<1> QED
  BY <1>2, <1>3, <1>5, <1>8 DEF Sooner

\* An access of the optimal policy to the first level, of one set.
LEMMA AccessBest ==
  ASSUME SimInv, LruInv, phase = "sim", 1 \in 1..num_lvls, NumSets(1) = 1, policy = "ALG_OPTIMAL",
         traces \in Seq(Nat), i \in Nat, i + 1 \in 1..Len(traces), TraceLines \in Seq(Nat),
         Best(TraceLines, assoc[1], i + 1, cache[1].misses, AllHeld(1, assoc[1], cache[1].sets)),
         NEW time \in Nat, NEW level, level = cache_access(1, traces[i + 1], time)
  PROVE  Best(TraceLines, assoc[1], i + 1 + 1, level.misses, AllHeld(1, assoc[1], level.sets))
<1>1. PICK addr \in Nat : addr = traces[i + 1]
  OBVIOUS
<1>2. SimTypes /\ CountInv /\ SetInv /\ question[1] = "policy" /\ line_size \in Nat \ {0}
  BY LevelTypes DEF SimInv
<1>0. PICK q \in Seq(Nat) : q = TraceLines
  OBVIOUS
<1>3. PICK k \in 1..Len(q) : k = i + 1 /\ q[k] = LineOf(addr)
  BY <1>0, <1>1 DEF TraceLines
<1>4. PICK n \in Nat \ {0}, m \in Nat : n = assoc[1] /\ m = cache[1].misses
  BY LevelTypes
<1>5. PICK x \in Nat : x = q[k]
  OBVIOUS
<1>6. PICK A, B, set : /\ A = AllHeld(1, n, cache[1].sets)
                       /\ B = AllHeld(1, n, level.sets)
                       /\ set = SetOf(1, addr)
  OBVIOUS
<1>7. PICK w \in 0..(n - 1) : WritesWay(1, addr, time, w, n, set)
  BY <1>2, <1>4, <1>6, AccessWay
<1>8. PICK hit : hit = (set[w].valid /\ set[w].tag = x \div 1)
  OBVIOUS
<1>9. Index(1, addr) = 0 /\ Tag(1, addr) = x \div 1
  <2>1. x % 1 = 0
    OBVIOUS
  <2> QED
    BY <1>3, <1>5, <2>1 DEF Index, Tag
<1>10. /\ Written(A, B, 1, n, x, 0, set, w)
       /\ Hit(1, addr) # {} <=> hit
  <2>1. /\ w \in 0..(assoc[1] - 1)
        /\ WritesWay(1, addr, time, w, assoc[1], SetOf(1, addr))
    BY <1>4, <1>6, <1>7, Zenon
  <2>2. AccessWrites(1, addr, time, w)
    BY <1>2, <2>1, AccessHeld
  <2> QED
    BY <1>1, <1>3, <1>4, <1>5, <1>6, <1>8, <1>9, <2>2, Zenon DEF AccessWrites
<1>11. Takes(A, B, n, q[k], hit)
  <2>1. 1 * n = n /\ 1 \in Nat \ {0}
    OBVIOUS
  <2>2. Takes(A, B, 1 * n, x, set[w].valid /\ set[w].tag = x \div 1)
    BY <1>10, <2>1, WrittenTakes
  <2> QED
    BY <1>5, <1>8, <2>1, <2>2, Zenon
<1>12. level.misses \in Nat /\ (hit => level.misses = m) /\ (~hit => level.misses = m + 1)
  <2>1. level.misses = cache[1].misses + (IF Hit(1, addr) # {} THEN 0 ELSE 1)
    BY <1>1 DEF cache_access
  <2>2. hit <=> Hit(1, addr) # {}
    BY <1>10, Zenon
  <2>3. (hit => level.misses = m + 0) /\ (~hit => level.misses = m + 1)
    BY <1>4, <2>1, <2>2, Zenon
  <2>4. m + 0 = m /\ m \in Nat /\ m + 1 \in Nat
    OBVIOUS
  <2> QED
    BY <2>3, <2>4, Zenon
<1>13. /\ cache[1].sets \in [0..0 -> [0..(n - 1) -> Line]]
       /\ WellFormed(n, cache[1].sets[0], global_timer)
       /\ set = cache[1].sets[0] /\ set \in [Ways(1) -> Line]
  <2>1. /\ cache[1].sets \in [0..(NumSets(1) - 1) -> [Ways(1) -> Line]]
        /\ \A s \in 0..(NumSets(1) - 1) : WellFormed(assoc[1], cache[1].sets[s], global_timer)
    BY <1>2 DEF SetInv
  <2>2. 1 - 1 = 0 /\ 0 \in 0..0
    OBVIOUS
  <2>3. set = cache[1].sets[0]
    BY <1>6, <1>9, Zenon DEF SetOf
  <2>4. Ways(1) = 0..(n - 1)
    BY <1>4 DEF Ways
  <2>5. /\ cache[1].sets \in [0..0 -> [Ways(1) -> Line]]
        /\ WellFormed(n, cache[1].sets[0], global_timer)
    BY <1>4, <2>1, <2>2
  <2>6. cache[1].sets[0] \in [Ways(1) -> Line]
    BY <2>2, <2>5
  <2> QED
    BY <2>3, <2>4, <2>5, <2>6, Zenon
<1>14. ~set[w].valid => ~Full(n, A) /\ B = A \cup {q[k]}
  <2>1. 1 * n = n
    OBVIOUS
  <2> QED
    BY <1>5, <1>10, <2>1, Zenon DEF Written
<1>15. ASSUME set[w].valid, ~hit
       PROVE  /\ Full(n, A)
              /\ \E y \in A : B = Swap(A, y, q[k]) /\ UsedLast(q, k + 1, A, y)
  <2>1. \A v \in 0..(n - 1) : set[v].valid
    BY <1>7, <1>8, <1>9, <1>15 DEF WritesWay
  <2>2. w = find_optimal_victim(1, set)
    BY <1>7, <1>8, <1>9, <1>15 DEF WritesWay
  <2>3. Full(n, A)
    BY <1>6, <1>13, <2>1, AllWaysUsed
  <2>4. LineIn(1, 0, set, w) \in A /\ B = Swap(A, LineIn(1, 0, set, w), q[k])
    BY <1>5, <1>10, <1>15, Zenon DEF Written
  <2>5. ASSUME NEW a \in A
        PROVE  Sooner(q, k + 1, a, LineIn(1, 0, set, w))
    <3>1. PICK p \in Filled(1, n, cache[1].sets) : a = LineIn(1, p[1], cache[1].sets[p[1]], p[2])
      BY <1>6 DEF AllHeld, HeldIn
    <3>2. p[1] = 0 /\ p[2] \in Ways(1)
      BY <1>4 DEF Filled, Ways
    <3>3. PICK v \in Ways(1) : a = LineIn(1, 0, set, v)
      BY <1>13, <3>1, <3>2, Zenon
    <3>4. Sooner(TraceLines, i + 1 + 1, LineIn(1, 0, set, v), LineIn(1, 0, set, w))
      BY <1>13, <2>2, VictimLineUsedLast
    <3> QED
      BY <1>0, <1>3, <3>3, <3>4, Zenon
  <2>6. UsedLast(q, k + 1, A, LineIn(1, 0, set, w))
    BY <2>5, Zenon DEF UsedLast
  <2> QED
    BY <2>3, <2>4, <2>6, Zenon
<1>16. /\ ~hit /\ Full(n, A) => \E y \in A : B = Swap(A, y, q[k]) /\ UsedLast(q, k + 1, A, y)
       /\ ~hit /\ ~Full(n, A) => B = A \cup {q[k]}
  BY <1>14, <1>15, Zenon
<1>17. Best(q, n, k, m, A)
  BY <1>0, <1>3, <1>4, <1>6, Zenon
<1>18. Best(q, n, k + 1, level.misses, B)
  BY <1>11, <1>12, <1>16, <1>17, BestStep, Zenon
<1> QED
  BY <1>0, <1>3, <1>4, <1>6, <1>18, Zenon

LEMMA SeqOfMore ==
  ASSUME NEW S, NEW T, S \subseteq T, NEW q \in Seq(S)
  PROVE  q \in Seq(T)
<1>1. Len(q) \in Nat /\ q \in [1..Len(q) -> S]
  OBVIOUS
<1>2. q \in [1..Len(q) -> T]
  BY <1>1
<1> QED
  BY <1>1, <1>2

\* The lines of a trace that is loaded.
LEMMA TraceTypes ==
  ASSUME SimInv, LruInv, question[1] = "policy"
  PROVE  /\ 1 \in 1..num_lvls /\ traces \in Seq(Nat)
         /\ TraceLines \in Seq(Nat) /\ Len(TraceLines) = Len(traces)
         /\ \A j \in 1..Len(traces) : TraceLines[j] = LineOf(traces[j])
<1>1. Config /\ LoadInv
  BY DEF SimInv, SimTypes
<1>2. num_lvls \in Levels
  BY <1>1 DEF Config, ConfigInv, ParamTypes
<1>3. 1 \in 1..num_lvls
  BY <1>2 DEF Levels
<1>4. line_size \in Nat \ {0}
  BY <1>1, <1>3, AnsweredIsUsable
<1>5. traces \in Seq(Nat)
  <2>1. traces \in Seq(Addresses)
    BY <1>1 DEF LoadInv
  <2> QED
    BY <2>1, AddressAssumption, SeqOfMore
<1>6. \A j \in 1..Len(traces) : LineOf(traces[j]) \in Nat
  <2>1. \A a \in Nat : \A d \in Nat \ {0} : a \div d \in Nat
    OBVIOUS
  <2>2. \A j \in 1..Len(traces) : traces[j] \in Nat
    BY <1>5
  <2> QED
    BY <1>4, <2>1, <2>2, Zenon DEF LineOf
<1>7. /\ TraceLines \in Seq(Nat) /\ Len(TraceLines) = Len(traces)
      /\ \A j \in 1..Len(traces) : TraceLines[j] = LineOf(traces[j])
  BY <1>5, <1>6 DEF TraceLines
<1> QED
  BY <1>3, <1>5, <1>7

LEMMA OptStep == SimInv /\ LruInv /\ OptInv /\ [Next]_vars => OptInv'
<1> SUFFICES ASSUME SimInv, LruInv, OptInv, [Next]_vars, phase' = "sim"
             PROVE  OptInv'
  BY DEF OptInv
<1>1. CASE InitCaches
  <2>1. /\ UNCHANGED <<question, num_lvls, line_size, assoc, lvl_size, policy, traces, i, seen>>
        /\ i = 0 /\ question[1] = "policy"
    BY <1>1, InitHeld
  <2>2. 1 \in 1..num_lvls /\ TraceLines \in Seq(Nat)
    BY <2>1, TraceTypes
  <2>3. /\ seen[1] = <<>> /\ assoc[1] \in Nat \ {0} /\ cache'[1].misses = 0
        /\ AllHeld(NumSets(1), assoc[1], cache'[1].sets) = {}
    BY <1>1, <2>2, InitHeld
  <2>4. Best(TraceLines, assoc[1], 0 + 1, 0, {})
    <3>1. 0 + 1 = 1
      OBVIOUS
    <3> QED
      BY <2>2, <2>3, <3>1, BestAtFirst
  <2>5. seen[1] = [j \in 1..0 |-> TraceLines[j]]
    BY <2>3
  <2>6. TraceLines' = TraceLines /\ NumSets(1)' = NumSets(1)
    BY <2>1 DEF TraceLines, LineOf, NumSets
  <2> QED
    BY <2>1, <2>3, <2>4, <2>5, <2>6, Zenon DEF OptInv
<1>2. CASE Simulate
  <2>1. /\ UNCHANGED <<phase, question, num_lvls, line_size, assoc, lvl_size, policy, traces>>
        /\ phase = "sim" /\ i' = i + 1 /\ i \in Nat /\ i + 1 \in 1..Len(traces)
    BY <1>2, SimulateLevel
  <2>2. question[1] = "policy"
    BY <2>1 DEF SimInv, SimTypes, Config, ConfigInv
  <2>3. /\ 1 \in 1..num_lvls /\ traces \in Seq(Nat) /\ TraceLines \in Seq(Nat)
        /\ TraceLines[i + 1] = LineOf(traces[i + 1])
    BY <2>1, <2>2, TraceTypes
  <2>4. PICK time \in Nat : /\ cache'[1] = cache_access(1, traces[i + 1], time)
                            /\ seen'[1] = Append(seen[1], LineOf(traces[i + 1]))
    BY <1>2, <2>3, SimulateLevel
  <2>5. seen'[1] = [j \in 1..(i + 1) |-> TraceLines[j]]
    <3>1. seen[1] = [j \in 1..i |-> TraceLines[j]]
      BY <2>1 DEF OptInv
    <3>2. PICK q \in Seq(Nat) : q = seen[1]
      BY <2>1, <2>3, LevelTypes
    <3>3. Len(q) = i /\ \A j \in 1..i : q[j] = TraceLines[j]
      BY <2>1, <3>1, <3>2
    <3>4. seen'[1] = Append(q, TraceLines[i + 1]) /\ TraceLines[i + 1] \in Nat
      <4>1. i + 1 \in 1..Len(TraceLines)
        BY <2>1, <2>2, TraceTypes
      <4>2. TraceLines[i + 1] \in Nat
        <5>1. \A t \in Seq(Nat) : \A j \in 1..Len(t) : t[j] \in Nat
          OBVIOUS
        <5> QED
          BY <2>3, <4>1, <5>1, Zenon
      <4> QED
        BY <2>3, <2>4, <3>2, <4>2, Zenon
    <3>5. PICK r : r = Append(q, TraceLines[i + 1])
      OBVIOUS
    <3>6. DOMAIN r = 1..(i + 1) /\ \A j \in 1..(i + 1) : r[j] = TraceLines[j]
      BY <2>1, <3>2, <3>3, <3>4, <3>5
    <3>7. r = [j \in 1..(i + 1) |-> TraceLines[j]]
      <4>1. r = [j \in DOMAIN r |-> r[j]]
        BY <3>4, <3>5
      <4> QED
        BY <3>6, <4>1
    <3> QED
      BY <3>4, <3>5, <3>7, Zenon
  <2>6. ASSUME policy = "ALG_OPTIMAL", NumSets(1) = 1
        PROVE  Best(TraceLines, assoc[1], i + 1 + 1, cache'[1].misses,
                    AllHeld(1, assoc[1], cache'[1].sets))
    <3>1. Best(TraceLines, assoc[1], i + 1, cache[1].misses, AllHeld(1, assoc[1], cache[1].sets))
      BY <2>1, <2>6, Zenon DEF OptInv
    <3> QED
      BY <2>1, <2>3, <2>4, <2>6, <3>1, AccessBest
  <2>7. TraceLines' = TraceLines /\ NumSets(1)' = NumSets(1)
    BY <2>1 DEF TraceLines, LineOf, NumSets
  <2> QED
    BY <2>1, <2>5, <2>6, <2>7, Zenon DEF OptInv
<1>3. CASE UNCHANGED vars
  <2>1. UNCHANGED <<phase, line_size, assoc, lvl_size, policy, traces, cache, i, seen>>
    BY <1>3 DEF vars, simulation, parameters
  <2>2. TraceLines' = TraceLines /\ NumSets(1)' = NumSets(1)
    BY <2>1 DEF TraceLines, LineOf, NumSets
  <2> QED
    BY <2>1, <2>2, Zenon DEF OptInv
<1>4. CASE Configure \/ Load \/ NoTraces \/ InitNoMem \/ Report
  <2>1. phase' # "sim"
    BY <1>4 DEF Configure, AskNumLvls, AskLineSize, AskAssoc, AskLvlSize, AskPolicy, InputEnds,
                Answer, Load, LoadEnds, ReadBatch, ReallocFails, NoTraces, InitNoMem, Report
  <2> QED
    BY <2>1
<1> QED
  BY <1>1, <1>2, <1>3, <1>4 DEF Next

\* In a first level of one set the optimal policy (find_optimal_victim) has the fewest
\* misses that any choice of victims can have on the whole trace, for every number of
\* ways and every trace, although it looks for the next use among the tags of all sets.
THEOREM OptimalInOneSetHolds == Spec => []OptimalInOneSet
<1>1. Init => SimInv /\ LruInv /\ OptInv
  <2>1. Init => CountInv /\ SetInv /\ LruInv /\ OptInv
    BY DEF Init, CountInv, ReportAddsUp, Simulating, SetInv, LruInv, OptInv
  <2> QED
    BY <2>1, ConfigInit, LoadInit DEF SimInv, SimTypes
<1>2. SimInv /\ LruInv /\ OptInv /\ [Next]_vars => (SimInv /\ LruInv /\ OptInv)'
  BY SimTypesStep, CountStep, SetStep, LruStep, OptStep DEF SimInv
<1>3. SimInv /\ LruInv /\ OptInv => OptimalInOneSet
  <2> SUFFICES ASSUME SimInv, LruInv, OptInv, Simulating, i = Len(traces),
                      policy = "ALG_OPTIMAL", NumSets(1) = 1
               PROVE  cache[1].misses = MinMisses(seen[1], assoc[1])
    BY DEF OptimalInOneSet, Simulated
  <2>1. phase = "sim" /\ i \in Nat
    BY DEF SimInv, CountInv, Simulating
  <2>2. question[1] = "policy"
    BY <2>1 DEF SimInv, SimTypes, Config, ConfigInv
  <2>3. 1 \in 1..num_lvls /\ TraceLines \in Seq(Nat) /\ Len(TraceLines) = i
    BY <2>2, TraceTypes
  <2>4. assoc[1] \in Nat \ {0} /\ cache[1].misses \in Nat
    BY <2>1, <2>3, LevelTypes
  <2>5. seen[1] = TraceLines
    <3>1. seen[1] = [j \in 1..i |-> TraceLines[j]]
      BY <2>1, Zenon DEF OptInv
    <3>2. TraceLines = [j \in 1..i |-> TraceLines[j]]
      BY <2>3
    <3> QED
      BY <3>1, <3>2, Zenon
  <2>6. Best(TraceLines, assoc[1], Len(TraceLines) + 1, cache[1].misses,
             AllHeld(1, assoc[1], cache[1].sets))
    BY <2>1, <2>3, Zenon DEF OptInv
  <2> QED
    BY <2>3, <2>4, <2>5, <2>6, BestAtLast, Zenon
<1> QED
  BY <1>1, <1>2, <1>3, PTL DEF Spec
=============================================================================
