------------------------------ MODULE CacheSim ------------------------------
(***************************************************************************)
(* The cache simulator (cache_simulator.c): run_cache_sim asks for the     *)
(* parameters of up to three levels, reads the recorded accesses from      *)
(* /dev/trace_collector and plays them through the levels under LRU or     *)
(* the optimal policy.  An access is its address: its type is only counted *)
(* for the report.  Ways are numbered from 0; what is written as a shift   *)
(* or a mask by a power of two in the code is a division or a remainder.   *)
(***************************************************************************)
EXTENDS Integers, Sequences, FiniteSets, FiniteSetsExt

CONSTANTS
  Numbers,    \* what the user may type, as scanf converts it
  LineSizes,  \* 16, 32, 64
  MaxAssoc,   \* 8
  MaxSize,    \* 2048, 4096, 8192
  READ_BATCH_SIZE,
  INITIAL_TRACE_CAPACITY,
  Addresses,  \* the addresses that occur in traces
  MaxTraces   \* bound: accesses the device hands out

Levels == 1..3

\* A number with the single bit 1: no odd number but 1 divides it.
is_power_of_two(x) == x > 0 /\ \A d \in 2..x : x % d = 0 => d % 2 = 0

ASSUME NumbersAssumption == Numbers \subseteq Nat
ASSUME LinesAssumption ==
  LineSizes \subseteq Nat /\ \A size \in LineSizes : is_power_of_two(size)
ASSUME BatchAssumption ==
  /\ READ_BATCH_SIZE \in Nat \ {0} /\ INITIAL_TRACE_CAPACITY \in Nat
  /\ READ_BATCH_SIZE <= INITIAL_TRACE_CAPACITY
ASSUME SizeAssumption ==
  \A l \in Levels : \A size \in LineSizes : MaxAssoc * size <= MaxSize[l]
ASSUME AddressAssumption == Addresses \subseteq Nat
ASSUME TracesAssumption == MaxTraces \in Nat

VARIABLES
  phase,
  question,      \* the parameter being asked for
  num_lvls, line_size, assoc, lvl_size, policy,
  capacity,      \* of the array of traces, in entries
  traces,
  global_timer,
  cache,         \* l1, l2, l3: their sets, hits and misses
  i,             \* accesses simulated so far
  \* History:
  lost,          \* entries the device handed out that load_traces did not keep
  seen           \* the lines whose accesses reached each level, in order

parameters == <<num_lvls, line_size, assoc, lvl_size, policy>>
simulation == <<global_timer, cache, i, seen>>
vars == <<phase, question, parameters, capacity, traces, lost, simulation>>

Init ==
  /\ phase = "configure"
  /\ question = <<"num_lvls", 0>>
  /\ num_lvls = 0 /\ line_size = 0
  /\ assoc = [l \in Levels |-> 0]
  /\ lvl_size = [l \in Levels |-> 0]
  /\ policy = "ALG_LRU"
  /\ capacity = 0
  /\ traces = <<>>
  /\ global_timer = 0
  /\ cache = <<>>
  /\ i = 0
  /\ lost = 0
  /\ seen = [l \in Levels |-> <<>>]

-----------------------------------------------------------------------------
(***************************************************************************)
(* configure_cache_sim_parameters.  get_valid_input stores whatever number *)
(* was typed and asks again unless it is valid.                            *)
(***************************************************************************)

Answer(q, valid, next) ==
  /\ question = q
  /\ question' = IF valid THEN next ELSE q
  /\ UNCHANGED <<phase, capacity, traces, lost, simulation>>

AskNumLvls(v) ==
  /\ Answer(<<"num_lvls", 0>>, v \in Levels, <<"line_size", 0>>)
  /\ num_lvls' = v
  /\ UNCHANGED <<line_size, assoc, lvl_size, policy>>

AskLineSize(v) ==
  /\ Answer(<<"line_size", 0>>, v \in LineSizes, <<"assoc", 1>>)
  /\ line_size' = v
  /\ UNCHANGED <<num_lvls, assoc, lvl_size, policy>>

\* One question per level in use, then on to the first question of the next kind.
NextLevel(what, l, then) == IF l < num_lvls THEN <<what, l + 1>> ELSE then

AskAssoc(l, v) ==
  /\ Answer(<<"assoc", l>>, is_power_of_two(v) /\ v <= MaxAssoc,
            NextLevel("assoc", l, <<"lvl_size", 1>>))
  /\ assoc' = [assoc EXCEPT ![l] = v]
  /\ UNCHANGED <<num_lvls, line_size, lvl_size, policy>>

\* Mutant: the associativity plays no part in the smallest size.
is_valid_lvl_size_of_line(v, l) ==
  is_power_of_two(v) /\ v >= line_size /\ v <= MaxSize[l]

is_valid_lvl_size(v, l) ==
  is_power_of_two(v) /\ v >= assoc[l] * line_size /\ v <= MaxSize[l]

AskLvlSize(l, v) ==
  /\ Answer(<<"lvl_size", l>>, is_valid_lvl_size(v, l),
            NextLevel("lvl_size", l, <<"policy", 0>>))
  /\ lvl_size' = [lvl_size EXCEPT ![l] = v]
  /\ UNCHANGED <<num_lvls, line_size, assoc, policy>>

\* 1 is the optimal policy, 2 is LRU; then load_traces begins.
AskPolicy(v) ==
  /\ question = <<"policy", 0>>
  /\ v \in {1, 2}
  /\ policy' = IF v = 1 THEN "ALG_OPTIMAL" ELSE "ALG_LRU"
  /\ phase' = "load"
  /\ capacity' = INITIAL_TRACE_CAPACITY
  /\ UNCHANGED <<question, num_lvls, line_size, assoc, lvl_size, traces, lost, simulation>>

\* The input ends: the loop that skips the rest of a line never does.
InputEnds ==
  /\ phase' = "spin"
  /\ UNCHANGED <<question, parameters, capacity, traces, lost, simulation>>

Configure ==
  /\ phase = "configure"
  /\ \/ \E v \in Numbers :
          \/ AskNumLvls(v) \/ AskLineSize(v) \/ AskPolicy(v)
          \/ \E l \in Levels : AskAssoc(l, v) \/ AskLvlSize(l, v)
     \/ InputEnds

-----------------------------------------------------------------------------
(***************************************************************************)
(* load_traces.  A read hands out the next entries of the device's log     *)
(* (TraceLog); a short one may be followed by more.                        *)
(***************************************************************************)

Batches ==
  UNION {[1..n -> Addresses] : n \in 1..Min({READ_BATCH_SIZE, MaxTraces - Len(traces)})}

\* Mutant: the array only grows when it is already full.
MustGrowFull(batch) == Len(traces) >= capacity

MustGrow(batch) == Len(traces) + Len(batch) > capacity

ReadBatch(batch) ==
  /\ traces' = traces \o batch
  /\ capacity' = IF MustGrow(batch) THEN 2 * capacity ELSE capacity
  /\ UNCHANGED <<phase, question, parameters, lost, simulation>>

\* realloc fails: what is loaded is returned, the batch is lost.
ReallocFails(batch) ==
  /\ MustGrow(batch)
  /\ lost' = lost + Len(batch)
  /\ phase' = "loaded"
  /\ UNCHANGED <<question, parameters, capacity, traces, simulation>>

\* The log is exhausted, or a read (or the open, or the first malloc) fails.  The
\* array shrinks to its contents; were it to stay larger, nothing later would notice.
LoadEnds ==
  /\ phase' = "loaded"
  /\ capacity' = IF traces = <<>> THEN capacity ELSE Len(traces)
  /\ UNCHANGED <<question, parameters, traces, lost, simulation>>

Load ==
  /\ phase = "load"
  /\ LoadEnds \/ \E batch \in Batches : ReadBatch(batch) \/ ReallocFails(batch)

-----------------------------------------------------------------------------
(***************************************************************************)
(* The simulation.                                                         *)
(***************************************************************************)

Ways(l) == 0..(assoc[l] - 1)
NumSets(l) == lvl_size[l] \div (line_size * assoc[l])
EmptyLine == [valid |-> FALSE, tag |-> 0, last_used |-> 0]

LineOf(addr) == addr \div line_size
Index(l, addr) == LineOf(addr) % NumSets(l)
Tag(l, addr) == LineOf(addr) \div NumSets(l)

cache_init(l) ==
  [sets |-> [s \in 0..(NumSets(l) - 1) |-> [w \in Ways(l) |-> EmptyLine]],
   hits |-> 0, misses |-> 0]

\* No traces: run_cache_sim returns.
NoTraces ==
  /\ phase = "loaded" /\ traces = <<>>
  /\ phase' = "done"
  /\ capacity' = 0 /\ lost' = 0
  /\ UNCHANGED <<question, parameters, traces, simulation>>

Usable == \A l \in 1..num_lvls : is_power_of_two(NumSets(l))

\* cache_init's error is ignored: the sets are then used without being allocated.
InitCaches ==
  /\ phase = "loaded" /\ traces # <<>>
  /\ phase' = IF Usable THEN "sim" ELSE "crash"
  /\ cache' = IF Usable THEN [l \in 1..num_lvls |-> cache_init(l)] ELSE cache
  /\ lost' = 0
  /\ UNCHANGED <<question, parameters, capacity, traces, global_timer, i, seen>>

\* The allocations of cache_init are used without a test.
InitNoMem ==
  /\ phase = "loaded" /\ traces # <<>>
  /\ phase' = "nomem"
  /\ UNCHANGED <<question, parameters, capacity, traces, lost, simulation>>

\* Mutant: the oldest line is the one with the greatest time.
LruVictimNewest(l, set) ==
  CHOOSE w \in Ways(l) : \A v \in Ways(l) : set[v].last_used <= set[w].last_used

LruVictim(l, set) ==
  CHOOSE w \in Ways(l) : \A v \in Ways(l) : set[w].last_used <= set[v].last_used

\* The positions after the current one where a tag occurs, in whatever set.
Uses(l, tag) == {j \in (i + 2)..Len(traces) : Tag(l, traces[j]) = tag}

\* Mutant: the line that is used again soonest is evicted.
find_optimal_victim_nearest(l, set) ==
  LET unused == {w \in Ways(l) : Uses(l, set[w].tag) = {}}
      next(w) == Min(Uses(l, set[w].tag))
  IN IF unused # {} THEN Min(unused)
     ELSE CHOOSE w \in Ways(l) : \A v \in Ways(l) : next(w) <= next(v)

find_optimal_victim(l, set) ==
  LET unused == {w \in Ways(l) : Uses(l, set[w].tag) = {}}
      next(w) == Min(Uses(l, set[w].tag))
  IN IF unused # {} THEN Min(unused)
     ELSE CHOOSE w \in Ways(l) : \A v \in Ways(l) : next(v) <= next(w)

SetOf(l, addr) == cache[l].sets[Index(l, addr)]

\* Mutant: only the first way is compared.
HitFirstWay(l, addr) ==
  {w \in {0} : SetOf(l, addr)[w].valid /\ SetOf(l, addr)[w].tag = Tag(l, addr)}

\* Mutant: ways that were never filled are compared as well.
HitUnfilled(l, addr) == {w \in Ways(l) : SetOf(l, addr)[w].tag = Tag(l, addr)}

\* The way that holds addr, if there is one.
Hit(l, addr) ==
  {w \in Ways(l) : SetOf(l, addr)[w].valid /\ SetOf(l, addr)[w].tag = Tag(l, addr)}

\* Level l after an access to addr at the given time.
cache_access(l, addr, time) ==
  LET set == SetOf(l, addr)
      hit == Hit(l, addr)
      free == {w \in Ways(l) : ~set[w].valid}
      way == IF hit # {} THEN Min(hit)
             ELSE IF free # {} THEN Min(free)
             ELSE IF policy = "ALG_LRU" THEN LruVictim(l, set)
             ELSE find_optimal_victim(l, set)
  IN [sets |-> [cache[l].sets EXCEPT ![Index(l, addr)][way] =
                  [valid |-> TRUE, tag |-> Tag(l, addr), last_used |-> time]],
      hits |-> cache[l].hits + (IF hit # {} THEN 1 ELSE 0),
      misses |-> cache[l].misses + (IF hit # {} THEN 0 ELSE 1)]

\* Mutant: a level is accessed whatever the one before it found.
ReachedAlways(l, addr) == TRUE

\* A level is accessed when those before it missed: their hits did not change.
Reached(l, addr) == \A k \in 1..(l - 1) : Hit(k, addr) = {}

\* The loop's body, for the next access of the trace.
Simulate ==
  LET addr == traces[i + 1]
      reached == {l \in 1..num_lvls : Reached(l, addr)}
  IN
  /\ phase = "sim" /\ i < Len(traces)
  /\ cache' = [l \in 1..num_lvls |->
                IF l \in reached THEN cache_access(l, addr, global_timer + l) ELSE cache[l]]
  /\ global_timer' = global_timer + Cardinality(reached)
  /\ seen' = [l \in Levels |-> IF l \in reached THEN Append(seen[l], LineOf(addr)) ELSE seen[l]]
  /\ i' = i + 1
  /\ UNCHANGED <<phase, question, parameters, capacity, traces, lost>>

\* The report is printed, and the caches and the traces are freed.
Report ==
  /\ phase = "sim" /\ i = Len(traces)
  /\ phase' = "done"
  /\ capacity' = 0 /\ traces' = <<>> /\ cache' = <<>>
  /\ i' = 0 /\ seen' = [l \in Levels |-> <<>>]
  /\ UNCHANGED <<question, parameters, lost, global_timer>>

Next == Configure \/ Load \/ NoTraces \/ InitCaches \/ InitNoMem \/ Simulate \/ Report

Spec == Init /\ [][Next]_vars

-----------------------------------------------------------------------------
(***************************************************************************)
(* Properties.                                                             *)
(***************************************************************************)

Simulating == cache # <<>>
Simulated  == Simulating /\ i = Len(traces)

\* Parameters that get_valid_input accepts never make cache_init fail, which the
\* caller would not notice: every level has a power of two of sets.
AcceptedIsUsable == phase # "crash"

\* The array of traces holds what was read, although load_traces doubles it only
\* once per batch; and what is simulated is what the device handed out, without
\* gaps: once a batch did not fit, at most that one is missing and no other is read.
TracesHaveNoGap ==
  /\ Len(traces) <= capacity
  /\ lost <= READ_BATCH_SIZE
  /\ phase = "load" => lost = 0

\* The figures of the report add up: the first level sees every access, each
\* further level the misses of the one before it, and each access is a hit or a
\* miss of the levels it reaches.
ReportAddsUp ==
  Simulating =>
    \A l \in 1..num_lvls :
      cache[l].hits + cache[l].misses = IF l = 1 THEN i ELSE cache[l - 1].misses

\* Under either policy no line is in a set twice, the used ways of a set come
\* before the free ones, and the times of use are distinct and past.
SetsWellFormed ==
  Simulating =>
    \A l \in 1..num_lvls : \A s \in 0..(NumSets(l) - 1) : \A w \in Ways(l) :
      LET set == cache[l].sets[s] IN
      set[w].valid =>
        /\ set[w].last_used \in 1..global_timer
        /\ \A v \in 0..(w - 1) :
             /\ set[v].valid
             /\ set[v].tag # set[w].tag
             /\ set[v].last_used # set[w].last_used

\* The lines that a set holds, and those given to it from position m of the lines q on.
Resident(l, s) ==
  LET set == cache[l].sets[s] IN
  {set[w].tag * NumSets(l) + s : w \in {v \in Ways(l) : set[v].valid}}

GivenSince(l, s, q, m) == {q[j] : j \in {k \in m..Len(q) : q[k] % NumSets(l) = s}}

\* The last lines given to a set that fit into it.
Recent(l, s, q) ==
  {q[m] : m \in {k \in 1..Len(q) : /\ q[k] % NumSets(l) = s
                                  /\ Cardinality(GivenSince(l, s, q, k)) <= assoc[l]}}

\* Under LRU each set holds the lines most recently used among those that were
\* looked up in it: the times taken from one timer by all levels order them.
LruKeepsRecent ==
  Simulating /\ policy = "ALG_LRU" =>
    \A l \in 1..num_lvls : \A s \in 0..(NumSets(l) - 1) :
      Resident(l, s) = Recent(l, s, seen[l])

\* The fewest misses that any choice of victims can have on the lines q, given to n
\* ways: what is still to be missed from position k on, with the lines S present.
MinMisses(q, n) ==
  LET from[k \in 1..(Len(q) + 1)] ==
        [S \in SUBSET {q[j] : j \in 1..Len(q)} |->
          IF k > Len(q) THEN 0
          ELSE IF q[k] \in S THEN from[k + 1][S]
          ELSE 1 + (IF Cardinality(S) < n THEN from[k + 1][S \cup {q[k]}]
                    ELSE Min({from[k + 1][(S \ {x}) \cup {q[k]}] : x \in S}))]
  IN from[1][{}]

\* No level misses less often than the best choice of victims would if its lines
\* were all in one set, whatever its policy and the levels before it: nothing is
\* found in a cache that was not brought into it.
NoLevelBeatsOptimal ==
  Simulating =>
    \A l \in 1..num_lvls : cache[l].misses >= MinMisses(seen[l], NumSets(l) * assoc[l])

\* The optimal policy is optimal in a first level of one set: no choice of victims
\* misses less often on the whole trace.
OptimalInOneSet ==
  Simulated /\ policy = "ALG_OPTIMAL" /\ NumSets(1) = 1 =>
    cache[1].misses = MinMisses(seen[1], assoc[1])

\* The lines given to a set of the first level have the fewest misses there.
OptimalMisses(s) ==
  MinMisses(SelectSeq(seen[1], LAMBDA line : line % NumSets(1) = s), assoc[1])

\* The optimal policy is optimal in every first level.
OptimalInEverySet ==
  Simulated /\ policy = "ALG_OPTIMAL" =>
    cache[1].misses = MapThenSumSet(OptimalMisses, 0..(NumSets(1) - 1))
=============================================================================
