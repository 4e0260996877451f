------------------------------ MODULE Scheduler ------------------------------
(***************************************************************************)
(* MacScheduler::schedule of src/scheduler.cpp: the UEs it lets pass, the   *)
(* order it takes them in and the loop that packs their resource blocks.    *)
(*                                                                         *)
(* composite_metric is a product of doubles; here it is a number a UE       *)
(* brings with it. The share of a UE is the floor of a number close to its  *)
(* exact part of the blocks: the sum, the quotient and the product are      *)
(* rounded, up or down, by less than 1/Precision of their value together.   *)
(* MCS, layers and replay_hash are computed from the allocation and do not  *)
(* act on it.                                                               *)
(***************************************************************************)
EXTENDS Integers, Sequences, Functions

CONSTANTS
    NPrbs,    \* values of cfg_.n_prb
    MaxUes,   \* values of cfg_.max_ues
    Ues,      \* the UEs, records with the fields of UeType
    Batches,  \* the argument vectors, sequences over Ues
    Precision \* of the doubles: a share is exact up to 1/Precision of it

\* ok: the four conditions on rrc_connected, filtered_out, buffer and HARQ budget.
UeType == [id : Nat, ok : BOOLEAN, metric : Nat]

\* cfg_ is any pair of ints; schedule throws unless both are positive. n_prb is below
\* 2^31, and doubles are good for more than that.
ASSUME SchedulerAssumption ==
    /\ NPrbs \subseteq Nat \ {0}
    /\ MaxUes \subseteq Nat \ {0}
    /\ Ues \subseteq UeType
    /\ Batches \subseteq Seq(Ues)
    /\ Precision \in Nat \ {0} /\ \A n \in NPrbs : n <= Precision

VARIABLES
    n_prb, max_ues, ues,  \* the configuration and the argument
    pc,                   \* the loop the call is in
    i,                    \* its index
    eligible,             \* eligible, sorted once pc is past "filter"
    filtered,             \* filtered_ues
    sum_m,                \* sum of the metrics of the selected
    cursor, remaining,    \* the packing loop's counters
    allocations           \* the allocations pushed so far

input == <<n_prb, max_ues, ues>>
vars == <<input, pc, i, eligible, filtered, sum_m, cursor, remaining, allocations>>

Init ==
    /\ n_prb \in NPrbs
    /\ max_ues \in MaxUes
    /\ ues \in Batches
    /\ pc = "filter"
    /\ i = 1
    /\ eligible = <<>>
    /\ filtered = <<>>
    /\ sum_m = 0
    /\ cursor = 0
    /\ remaining = n_prb
    /\ allocations = <<>>

Filter ==
    /\ pc = "filter" /\ i <= Len(ues)
    /\ \/ /\ ues[i].ok
          /\ eligible' = Append(eligible, ues[i])
          /\ UNCHANGED filtered
       \/ /\ ~ues[i].ok
          /\ filtered' = Append(filtered, ues[i])
          /\ UNCHANGED eligible
    /\ i' = i + 1
    /\ UNCHANGED <<input, pc, sum_m, cursor, remaining, allocations>>

\* Mutant: the order puts the worst metric first.
Before_Ascending(s, a, b) ==
    s[a].metric < s[b].metric \/ (s[a].metric = s[b].metric /\ a < b)

\* The order of stable_sort with "greater metric first": ties keep their order.
Before(s, a, b) ==
    s[a].metric > s[b].metric \/ (s[a].metric = s[b].metric /\ a < b)

Sort ==
    /\ pc = "filter" /\ i > Len(ues)
    /\ \E p \in Bijection(DOMAIN eligible, DOMAIN eligible) :
        /\ \A a, b \in DOMAIN eligible : a < b => Before(eligible, p[a], p[b])
        /\ eligible' = [a \in DOMAIN eligible |-> eligible[p[a]]]
    /\ pc' = "sum"
    /\ i' = 1
    /\ UNCHANGED <<input, filtered, sum_m, cursor, remaining, allocations>>

Least(a, b) == IF a < b THEN a ELSE b
Most(a, b) == IF a < b THEN b ELSE a

NSel == Least(max_ues, Len(eligible))

Sum ==
    /\ pc = "sum" /\ i <= NSel
    /\ sum_m' = sum_m + eligible[i].metric
    /\ i' = i + 1
    /\ UNCHANGED <<input, pc, eligible, filtered, cursor, remaining, allocations>>

SumDone ==
    /\ pc = "sum" /\ i > NSel
    /\ pc' = "pack"
    /\ i' = 1
    /\ UNCHANGED <<input, eligible, filtered, sum_m, cursor, remaining, allocations>>

\* The share without rounding; no metric at all counts as the 1e-9 floor, which
\* leaves every quotient below one.
Exact(j) == IF sum_m = 0 THEN 0 ELSE (n_prb * eligible[j].metric) \div sum_m

\* floor(n_prb * (m / sum_m)), of a number next to the exact one.
Floors(j) ==
    LET part == n_prb * eligible[j].metric
        unit == sum_m * Precision
    IN  IF sum_m = 0 THEN {0}
        ELSE (part * (Precision - 1)) \div unit .. (part * (Precision + 1)) \div unit

\* Mutant: the last UE is given its share instead of what is left.
Wanted_NoRest(j, f) == Most(1, f)

\* Mutant: the others' shares are rounded up.
Wanted_Ceil(j, f) == IF j = NSel THEN remaining ELSE f + 1

\* Mutant: a share of less than a block is no block.
Wanted_NoMinimum(j, f) == IF j = NSel THEN remaining ELSE f

\* The last UE takes what is left, the others at least one block.
Wanted(j, f) == IF j = NSel THEN remaining ELSE Most(1, f)

Granted(j, f) == Least(Wanted(j, f), remaining)

Pack ==
    /\ pc = "pack" /\ i <= NSel
    /\ \E f \in Floors(i) :
        LET n == Granted(i, f) IN
        /\ allocations' = Append(allocations,
               [ue |-> eligible[i], prb_start |-> cursor, prb_count |-> n])
        /\ cursor' = cursor + n
        /\ remaining' = remaining - n
    /\ i' = i + 1
    /\ UNCHANGED <<input, pc, eligible, filtered, sum_m>>

Return ==
    /\ pc = "pack" /\ i > NSel
    /\ pc' = "done"
    /\ UNCHANGED <<input, i, eligible, filtered, sum_m, cursor, remaining, allocations>>

Next == Filter \/ Sort \/ Sum \/ SumDone \/ Pack \/ Return

Spec == Init /\ [][Next]_vars

-----------------------------------------------------------------------------

TypeOK ==
    /\ n_prb \in NPrbs /\ max_ues \in MaxUes /\ ues \in Seq(Ues)
    /\ pc \in {"filter", "sum", "pack", "done"}
    /\ i \in Nat /\ sum_m \in Nat
    /\ eligible \in Seq(Ues) /\ filtered \in Seq(Ues)
    /\ cursor \in Nat /\ remaining \in Nat
    /\ allocations \in Seq([ue : Ues, prb_start : Nat, prb_count : Nat])

Done == pc = "done"
Selected == DOMAIN allocations
Start(k) == allocations[k].prb_start
Count(k) == allocations[k].prb_count

\* The allocations follow one another from block 0, and together they are exactly
\* n_prb blocks unless nobody was eligible (scheduler.cpp:61-82).
Tiling ==
    /\ \A k \in Selected :
        /\ Start(k) = IF k = 1 THEN 0 ELSE Start(k - 1) + Count(k - 1)
        /\ Start(k) + Count(k) <= n_prb
    /\ Done /\ allocations # <<>> =>
        Start(Len(allocations)) + Count(Len(allocations)) = n_prb

\* The minimum of one block for small shares can use the blocks up: a selected UE
\* may be left with none. Then all those after it have none, too: no UE goes
\* without while one with a worse metric is served (scheduler.cpp:66-68).
StarvedAreLast ==
    \A k, l \in Selected : k < l /\ Count(k) = 0 => Count(l) = 0

\* When every selected UE's share is a block or more, each of them gets a block,
\* and its share up to the rounding of the double quotients, its own and those of
\* the UEs before it: the minimum of one block, shares that are rounded up and the
\* rest for the last UE take no more than a block away from anyone.
FairUnlessTiny ==
    Done /\ (\A k \in Selected : Exact(k) >= 1) =>
        \A k \in Selected : Count(k) >= Most(1, Exact(k) - 1)

\* A UE passed over for one that was selected has no better metric, and an equal
\* one only if it comes later in the argument; nobody is both served and reported
\* as filtered (scheduler.cpp:40-53). Eligible UEs beyond max_ues are in neither list.
BestAreSelected ==
    Done => \A a, b \in DOMAIN ues :
        LET served(k) == \E l \in Selected : allocations[l].ue = ues[k] IN
        /\ served(a) => ues[a].ok
        /\ served(a) /\ ~served(b) /\ ues[b].ok =>
            \/ ues[a].metric > ues[b].metric
            \/ ues[a].metric = ues[b].metric /\ a < b

=============================================================================
