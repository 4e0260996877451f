--------------------------- MODULE SchedulerProofs ---------------------------
(***************************************************************************)
(* Theorems about MacScheduler::schedule, for every configuration and every *)
(* vector of UEs.                                                           *)
(***************************************************************************)
EXTENDS Scheduler, TLAPS

PrbAllocation == [ue : Ues, prb_start : Nat, prb_count : Nat]

LEMMA ConfigTyped ==
    ASSUME TypeOK
    PROVE  /\ n_prb \in Nat \ {0} /\ max_ues \in Nat \ {0}
           /\ \A k \in DOMAIN eligible : eligible[k] \in Ues /\ eligible[k].metric \in Nat
           /\ NSel \in Nat /\ NSel <= Len(eligible)
<1>1. n_prb \in Nat \ {0} /\ max_ues \in Nat \ {0}
  BY SchedulerAssumption DEF TypeOK
<1>2. \A k \in DOMAIN eligible : eligible[k] \in Ues
  BY DEF TypeOK
<1>3. \A u \in Ues : u.metric \in Nat
  BY SchedulerAssumption DEF UeType
<1>4. Len(eligible) \in Nat
  BY DEF TypeOK
<1> QED
  BY <1>1, <1>2, <1>3, <1>4 DEF NSel, Least

\* A share is a natural number, however it is rounded.
LEMMA FloorsTyped ==
    ASSUME TypeOK, NEW j \in DOMAIN eligible
    PROVE  Exact(j) \in Nat /\ Floors(j) \subseteq Nat
<1>1. n_prb \in Nat /\ sum_m \in Nat /\ eligible[j].metric \in Nat
  BY ConfigTyped DEF TypeOK
<1>2. n_prb * eligible[j].metric \in Nat
  BY <1>1
<1>3. \A a \in Nat, b \in Nat \ {0} : a \div b \in Nat
  OBVIOUS
<1>4. Exact(j) \in Nat
  BY <1>1, <1>2, <1>3 DEF Exact
<1>5. CASE sum_m = 0
  BY <1>4, <1>5 DEF Floors
<1>6. CASE sum_m # 0
  <2>1. PICK part \in Nat : part = n_prb * eligible[j].metric
    BY <1>2
  <2>2. PICK pr \in Nat \ {0} : pr = Precision
    BY SchedulerAssumption
  <2>3. PICK unit \in Nat \ {0} : unit = sum_m * Precision
    BY <1>1, <1>6, <2>2
  <2>4. part * (pr - 1) \in Nat /\ part * (pr + 1) \in Nat
    <3>1. pr - 1 \in Nat /\ pr + 1 \in Nat
      OBVIOUS
    <3> QED
      BY <3>1
  <2>5. (part * (pr - 1)) \div unit \in Nat /\ (part * (pr + 1)) \div unit \in Nat
    BY <1>3, <2>4
  <2>6. Floors(j) = (part * (pr - 1)) \div unit .. (part * (pr + 1)) \div unit
    BY <1>6, <2>1, <2>2, <2>3 DEF Floors
  <2> QED
    BY <1>4, <2>5, <2>6
<1> QED
  BY <1>5, <1>6

\* Nobody is granted more than is left; the last UE gets all of it, and the
\* others something as long as there is something.
LEMMA GrantedFacts ==
    ASSUME TypeOK, NEW j \in DOMAIN eligible, NEW f \in Floors(j)
    PROVE  /\ Granted(j, f) \in Nat /\ Granted(j, f) <= remaining
           /\ j = NSel => Granted(j, f) = remaining
           /\ Granted(j, f) = 0 => remaining = 0
<1>1. f \in Nat /\ remaining \in Nat
  BY FloorsTyped DEF TypeOK
<1> QED
  BY <1>1 DEF Granted, Wanted, Least, Most

\* The blocks handed out end where the cursor is, the rest is what remains, and
\* nothing remains once somebody was left without or the last UE was reached.
PackInv ==
    /\ TypeOK
    /\ i \in Nat \ {0}
    /\ cursor + remaining = n_prb
    /\ pc \in {"filter", "sum"} => allocations = <<>>
    /\ pc \in {"pack", "done"} => Len(allocations) = i - 1 /\ i <= NSel + 1
    /\ pc = "done" => i > NSel
    /\ cursor = IF allocations = <<>> THEN 0
                ELSE Start(Len(allocations)) + Count(Len(allocations))
    /\ \A k \in Selected :
        /\ Start(k) = IF k = 1 THEN 0 ELSE Start(k - 1) + Count(k - 1)
        /\ Start(k) + Count(k) <= n_prb
        /\ Count(k) = 0 => remaining = 0
    /\ allocations # <<>> /\ i > NSel => remaining = 0
    /\ StarvedAreLast

LEMMA PackInit == Init => PackInv
<1> SUFFICES ASSUME Init PROVE PackInv
  OBVIOUS
<1>1. n_prb \in Nat \ {0} /\ ues \in Seq(Ues)
  BY SchedulerAssumption DEF Init
<1> QED
  BY <1>1 DEF Init, PackInv, TypeOK, Selected, StarvedAreLast

LEMMA FilterStep ==
    ASSUME PackInv, Filter
    PROVE  PackInv'
<1>1. ues[i] \in Ues
  BY DEF PackInv, TypeOK, Filter
<1>2. eligible' \in Seq(Ues) /\ filtered' \in Seq(Ues)
  <2>1. eligible \in Seq(Ues) /\ filtered \in Seq(Ues)
    BY DEF PackInv, TypeOK
  <2>2. \/ eligible' = Append(eligible, ues[i]) /\ filtered' = filtered
        \/ filtered' = Append(filtered, ues[i]) /\ eligible' = eligible
    BY DEF Filter
  <2>3. Append(eligible, ues[i]) \in Seq(Ues) /\ Append(filtered, ues[i]) \in Seq(Ues)
    BY <1>1, <2>1
  <2> QED
    BY <2>1, <2>2, <2>3
<1> QED
  BY <1>2 DEF PackInv, TypeOK, Filter, input, Selected, StarvedAreLast, Start, Count

LEMMA SortStep ==
    ASSUME PackInv, Sort
    PROVE  PackInv'
<1>1. PICK p \in Bijection(DOMAIN eligible, DOMAIN eligible) :
        eligible' = [a \in DOMAIN eligible |-> eligible[p[a]]]
  BY DEF Sort
<1>2. p \in [DOMAIN eligible -> DOMAIN eligible]
  BY DEF Bijection, Injection
<1>3. eligible \in Seq(Ues)
  BY DEF PackInv, TypeOK
<1>4. DOMAIN eligible = 1 .. Len(eligible) /\ Len(eligible) \in Nat
  BY <1>3
<1>5. \A a \in 1 .. Len(eligible) : eligible[p[a]] \in Ues
  BY <1>2, <1>3, <1>4
<1>6. eligible' \in Seq(Ues)
  BY <1>1, <1>4, <1>5
<1> QED
  BY <1>6 DEF PackInv, TypeOK, Sort, input, Selected, StarvedAreLast, Start, Count

LEMMA SumStep ==
    ASSUME PackInv, Sum
    PROVE  PackInv'
<1>1. i \in DOMAIN eligible /\ eligible[i].metric \in Nat
  BY ConfigTyped DEF PackInv, TypeOK, Sum
<1> QED
  BY <1>1 DEF PackInv, TypeOK, Sum, input, Selected, StarvedAreLast, Start, Count

LEMMA PackStep ==
    ASSUME PackInv, Pack
    PROVE  PackInv'
<1>t. TypeOK /\ i \in Nat \ {0} /\ NSel \in Nat /\ NSel <= Len(eligible) /\ i <= NSel
  BY ConfigTyped DEF PackInv, Pack
<1>d. i \in DOMAIN eligible /\ eligible[i] \in Ues
  BY <1>t DEF TypeOK
<1>1. PICK f \in Floors(i) :
        /\ allocations' = Append(allocations,
               [ue |-> eligible[i], prb_start |-> cursor, prb_count |-> Granted(i, f)])
        /\ cursor' = cursor + Granted(i, f)
        /\ remaining' = remaining - Granted(i, f)
  BY DEF Pack
<1> DEFINE n == Granted(i, f)
           a == [ue |-> eligible[i], prb_start |-> cursor, prb_count |-> n]
<1>2. /\ n \in Nat /\ n <= remaining
      /\ i = NSel => n = remaining
      /\ n = 0 => remaining = 0
  BY <1>t, <1>d, GrantedFacts
<1>c. PICK c \in Nat \ {0} : c = i
  BY <1>t
<1>3. /\ input' = input /\ pc' = pc /\ pc = "pack" /\ i' = i + 1
      /\ eligible' = eligible /\ filtered' = filtered /\ sum_m' = sum_m
      /\ NSel' = NSel /\ n_prb' = n_prb
  BY DEF Pack, input, NSel
<1> HIDE DEF n
<1>4. cursor \in Nat /\ remaining \in Nat /\ cursor + remaining = n_prb /\ n_prb \in Nat
  BY <1>t, <1>c, ConfigTyped DEF PackInv, TypeOK
<1>5. /\ allocations \in Seq(PrbAllocation) /\ a \in PrbAllocation
      /\ allocations' = Append(allocations, a) /\ Len(allocations) = c - 1
  BY <1>t, <1>c, <1>d, <1>1, <1>2, <1>3, <1>4 DEF PrbAllocation, TypeOK, PackInv, n
<1>6. /\ Len(allocations') = c /\ allocations' # <<>> /\ allocations' \in Seq(PrbAllocation)
      /\ \A k \in 1 .. c - 1 : allocations'[k] = allocations[k]
      /\ allocations'[c] = a
      /\ Selected = 1 .. c - 1 /\ Selected' = 1 .. c
  BY <1>5, <1>t, <1>c DEF Selected
<1>7. /\ cursor' = cursor + n /\ remaining' = remaining - n
      /\ cursor' \in Nat /\ remaining' \in Nat /\ cursor' + remaining' = n_prb
  BY <1>1, <1>2, <1>4 DEF n
<1>8. TypeOK'
  BY <1>t, <1>c, <1>3, <1>6, <1>7 DEF TypeOK, PrbAllocation, input
<1>9. \A k \in 1 .. c - 1 : Start(k)' = Start(k) /\ Count(k)' = Count(k)
  BY <1>6 DEF Start, Count
<1>10. Start(c)' = cursor /\ Count(c)' = n
  BY <1>6 DEF Start, Count
<1>11. cursor = IF c = 1 THEN 0 ELSE Start(c - 1) + Count(c - 1)
  <2>1. allocations = <<>> <=> c = 1
    BY <1>5, <1>t
  <2> QED
    BY <1>5, <2>1 DEF PackInv
<1>12. ASSUME NEW k \in 1 .. c
       PROVE  /\ Start(k)' = IF k = 1 THEN 0 ELSE Start(k - 1)' + Count(k - 1)'
              /\ Start(k)' + Count(k)' <= n_prb
              /\ Count(k)' = 0 => remaining' = 0
  <2>1. CASE k = c
    <3>1. Start(k)' = IF k = 1 THEN 0 ELSE Start(k - 1)' + Count(k - 1)'
      BY <1>t, <1>c, <1>9, <1>10, <1>11, <2>1
    <3> QED
      BY <1>2, <1>4, <1>7, <1>10, <2>1, <3>1
  <2>2. CASE k # c
    <3>1. k \in 1 .. c - 1 /\ k \in Selected
      BY <1>t, <1>c, <1>6, <2>2
    <3>2. /\ Start(k) = IF k = 1 THEN 0 ELSE Start(k - 1) + Count(k - 1)
          /\ Start(k) + Count(k) <= n_prb
          /\ Count(k) = 0 => remaining = 0
      BY <3>1 DEF PackInv
    <3>3. k # 1 => k - 1 \in 1 .. c - 1
      BY <1>t, <1>c, <3>1
    <3> QED
      BY <1>2, <1>4, <1>7, <1>9, <3>1, <3>2, <3>3
  <2> QED
    BY <2>1, <2>2
<1>13. StarvedAreLast'
  <2> SUFFICES ASSUME NEW k \in 1 .. c, NEW l \in 1 .. c, k < l, Count(k)' = 0
               PROVE  Count(l)' = 0
    BY <1>6 DEF StarvedAreLast
  <2>1. k \in 1 .. c - 1 /\ Count(k) = 0
    BY <1>t, <1>c, <1>9
  <2>2. remaining = 0
    BY <1>6, <2>1 DEF PackInv
  <2>3. CASE l = c
    BY <1>2, <1>4, <1>10, <2>2, <2>3
  <2>4. CASE l # c
    <3>1. l \in 1 .. c - 1
      BY <1>t, <1>c, <2>4
    <3> QED
      BY <1>6, <1>9, <2>1, <3>1 DEF PackInv, StarvedAreLast
  <2> QED
    BY <2>3, <2>4
<1>14. i' > NSel' => remaining' = 0
  BY <1>t, <1>c, <1>2, <1>3, <1>4, <1>7
<1>15. cursor' = Start(c)' + Count(c)'
  BY <1>7, <1>10
<1> QED
  BY <1>t, <1>c, <1>3, <1>6, <1>7, <1>8, <1>12, <1>13, <1>14, <1>15 DEF PackInv

LEMMA SchedulerStep ==
    ASSUME PackInv, [Next]_vars
    PROVE  PackInv'
<1>1. CASE SumDone
  <2>1. NSel' = NSel /\ NSel \in Nat
    BY <1>1, ConfigTyped DEF SumDone, input, NSel, PackInv
  <2> QED
    BY <1>1, <2>1 DEF PackInv, TypeOK, SumDone, input, Selected, StarvedAreLast, Start, Count
<1>2. CASE Return
  <2>1. NSel' = NSel
    BY <1>2 DEF Return, input, NSel
  <2> QED
    BY <1>2, <2>1 DEF PackInv, TypeOK, Return, input, Selected, StarvedAreLast, Start, Count
<1>3. CASE UNCHANGED vars
  BY <1>3 DEF PackInv, TypeOK, vars, input, NSel, Selected, StarvedAreLast, Start, Count
<1> QED
  BY <1>1, <1>2, <1>3, FilterStep, SortStep, SumStep, PackStep DEF Next

LEMMA SchedulerInvariant == Spec => []PackInv
  BY PackInit, SchedulerStep, PTL DEF Spec

\* The counters of the packing loop stay natural numbers, and so do the blocks
\* of every allocation (scheduler.cpp:61-84).
THEOREM SchedulerTyped == Spec => []TypeOK
<1>1. PackInv => TypeOK
  BY DEF PackInv
<1> QED
  BY <1>1, SchedulerInvariant, PTL

\* The allocations tile the band: contiguous, disjoint, inside n_prb, and all of
\* it as soon as one UE is eligible (scheduler.cpp:61-82).
THEOREM TilingTheorem == Spec => []Tiling
<1>1. PackInv => Tiling
  <2> SUFFICES ASSUME PackInv PROVE Tiling
    OBVIOUS
  <2>1. n_prb \in Nat /\ cursor \in Nat /\ remaining \in Nat
    BY ConfigTyped DEF PackInv, TypeOK
  <2>2. ASSUME Done, allocations # <<>>
        PROVE  Start(Len(allocations)) + Count(Len(allocations)) = n_prb
    <3>1. remaining = 0
      BY <2>2 DEF PackInv, Done
    <3> QED
      BY <2>1, <2>2, <3>1 DEF PackInv
  <2> QED
    BY <2>2 DEF PackInv, Tiling
<1> QED
  BY <1>1, SchedulerInvariant, PTL

\* If a selected UE gets no block, none after it does (scheduler.cpp:66-68).
THEOREM StarvedTheorem == Spec => []StarvedAreLast
<1>1. PackInv => StarvedAreLast
  BY DEF PackInv
<1> QED
  BY <1>1, SchedulerInvariant, PTL

-----------------------------------------------------------------------------

(***************************************************************************)
(* Who is selected.                                                         *)
(***************************************************************************)

\* No UE is twice in an argument vector: a ue_id is the identity of a UE.
DistinctUes == \A s \in Batches : \A k, l \in DOMAIN s : s[k] = s[l] => k = l

\* The order the UEs of the argument are to be served in, by their places in it.
Better(k, l) ==
    \/ ues[k].metric > ues[l].metric
    \/ ues[k].metric = ues[l].metric /\ k < l

\* The first n UEs of the argument, those that pass, are what eligible holds.
Sifted(n) ==
    /\ \A a \in DOMAIN eligible : \E k \in 1 .. n : ues[k].ok /\ eligible[a] = ues[k]
    /\ \A k \in 1 .. n : ues[k].ok => \E a \in DOMAIN eligible : eligible[a] = ues[k]

\* The order of eligible before it is sorted, and after.
InOrder ==
    \A a, b \in DOMAIN eligible : a < b =>
        \A k, l \in DOMAIN ues : eligible[a] = ues[k] /\ eligible[b] = ues[l] => k < l

Sorted ==
    \A a, b \in DOMAIN eligible : a < b =>
        \A k, l \in DOMAIN ues : eligible[a] = ues[k] /\ eligible[b] = ues[l] => Better(k, l)

SelectInv ==
    /\ ues \in Batches
    /\ pc = "filter" =>
          i <= Len(ues) + 1 /\ Sifted(i - 1) /\ InOrder
    /\ pc # "filter" => Sifted(Len(ues)) /\ Sorted
    /\ \A k \in Selected : k \in DOMAIN eligible /\ allocations[k].ue = eligible[k]

LEMMA SelectInit == Init => SelectInv
<1> SUFFICES ASSUME Init PROVE SelectInv
  OBVIOUS
<1>1. /\ ues \in Batches /\ ues \in Seq(Ues) /\ pc = "filter" /\ i = 1
      /\ eligible = <<>> /\ allocations = <<>> /\ Len(ues) \in Nat
  BY SchedulerAssumption DEF Init
<1>2. DOMAIN eligible = {} /\ Selected = {} /\ 1 .. i - 1 = {}
  BY <1>1 DEF Selected
<1> QED
  BY <1>1, <1>2 DEF SelectInv, Sifted, InOrder

LEMMA SelectFilter ==
    ASSUME DistinctUes, PackInv, SelectInv, Filter
    PROVE  SelectInv'
<1>1. /\ ues' = ues /\ pc' = "filter" /\ pc = "filter" /\ i' = i + 1
      /\ allocations' = allocations /\ i \in Nat \ {0} /\ i <= Len(ues)
      /\ Len(ues) \in Nat /\ i \in DOMAIN ues /\ allocations = <<>> /\ i' - 1 = i
  BY DEF Filter, input, PackInv, TypeOK
<1>2. \A k, l \in DOMAIN ues : ues[k] = ues[l] => k = l
  BY DEF DistinctUes, SelectInv
<1>3. eligible \in Seq(Ues) /\ DOMAIN ues = 1 .. Len(ues)
  BY DEF PackInv, TypeOK
<1>4. Sifted(i - 1) /\ InOrder
  BY <1>1 DEF SelectInv
<1>5. CASE ~ues[i].ok /\ eligible' = eligible
  <2>1. Sifted(i - 1)'
    BY <1>1, <1>4, <1>5 DEF Sifted
  <2>2. InOrder'
    BY <1>1, <1>4, <1>5 DEF InOrder
  <2> QED
    BY <1>1, <2>1, <2>2 DEF SelectInv, Selected
<1>6. CASE ues[i].ok /\ eligible' = Append(eligible, ues[i])
  <2>d. PICK n \in Nat : n = Len(eligible)
    BY <1>3
  <2>1. /\ DOMAIN eligible = 1 .. n /\ DOMAIN eligible' = 1 .. n + 1
        /\ eligible'[n + 1] = ues[i]
        /\ \A a \in 1 .. n : eligible'[a] = eligible[a]
    BY <1>3, <1>6, <2>d
  <2>2. Sifted(i - 1)'
    <3>1. ASSUME NEW a \in 1 .. n + 1
          PROVE  \E k \in 1 .. i : ues[k].ok /\ eligible'[a] = ues[k]
      <4>1. CASE a = n + 1
        BY <1>1, <1>6, <2>1, <4>1
      <4>2. CASE a # n + 1
        <5>1. a \in 1 .. n
          BY <4>2
        <5>2. PICK k \in 1 .. i - 1 : ues[k].ok /\ eligible[a] = ues[k]
          BY <1>4, <2>1, <5>1 DEF Sifted
        <5>3. k \in 1 .. i
          BY <1>1
        <5> QED
          BY <2>1, <5>1, <5>2, <5>3
      <4> QED
        BY <4>1, <4>2
    <3>2. ASSUME NEW k \in 1 .. i, ues[k].ok
          PROVE  \E a \in 1 .. n + 1 : eligible'[a] = ues[k]
      <4>1. CASE k = i
        BY <2>1, <4>1
      <4>2. CASE k # i
        <5>1. k \in 1 .. i - 1
          BY <1>1, <4>2
        <5>2. PICK a \in 1 .. n : eligible[a] = ues[k]
          BY <1>4, <2>1, <3>2, <5>1 DEF Sifted
        <5> QED
          BY <2>1, <5>2
      <4> QED
        BY <4>1, <4>2
    <3> QED
      BY <1>1, <2>1, <3>1, <3>2 DEF Sifted
  <2>3. ASSUME NEW a \in 1 .. n + 1, NEW b \in 1 .. n + 1, a < b,
               NEW k \in DOMAIN ues, NEW l \in DOMAIN ues,
               eligible'[a] = ues[k], eligible'[b] = ues[l]
        PROVE  k < l
    <3>1. a \in 1 .. n /\ eligible[a] = ues[k]
      BY <2>1, <2>3
    <3>2. CASE b = n + 1
      <4>1. l = i
        BY <1>1, <1>2, <2>1, <2>3, <3>2
      <4>2. PICK h \in 1 .. i - 1 : eligible[a] = ues[h]
        BY <1>4, <2>1, <3>1 DEF Sifted
      <4>3. h \in DOMAIN ues
        BY <1>1, <1>3
      <4>4. h = k
        BY <1>2, <3>1, <4>2, <4>3
      <4> QED
        BY <1>1, <4>1, <4>4
    <3>3. CASE b # n + 1
      <4>1. b \in 1 .. n /\ eligible[b] = ues[l]
        BY <2>1, <2>3, <3>3
      <4> QED
        BY <1>4, <2>1, <2>3, <3>1, <4>1 DEF InOrder
    <3> QED
      BY <3>2, <3>3
  <2>4. InOrder'
    BY <1>1, <2>1, <2>3 DEF InOrder
  <2> QED
    BY <1>1, <2>2, <2>4 DEF SelectInv, Selected
<1> QED
  BY <1>5, <1>6 DEF Filter

LEMMA SelectSort ==
    ASSUME DistinctUes, PackInv, SelectInv, Sort
    PROVE  SelectInv'
<1>1. /\ ues' = ues /\ pc' = "sum" /\ pc = "filter" /\ allocations' = <<>>
      /\ eligible \in Seq(Ues) /\ DOMAIN ues = 1 .. Len(ues)
  BY DEF Sort, input, PackInv, TypeOK
<1>2. Sifted(Len(ues)) /\ InOrder
  <2>1. i \in Nat /\ Len(ues) \in Nat /\ i > Len(ues) /\ i <= Len(ues) + 1
    BY <1>1 DEF Sort, PackInv, TypeOK, SelectInv
  <2>2. i - 1 = Len(ues)
    BY <2>1
  <2> QED
    BY <1>1, <2>2 DEF SelectInv
<1> DEFINE D == DOMAIN eligible
<1>3. PICK p \in Bijection(D, D) :
        /\ \A a, b \in D : a < b => Before(eligible, p[a], p[b])
        /\ eligible' = [a \in D |-> eligible[p[a]]]
  BY DEF Sort
<1>4. p \in [D -> D] /\ \A b \in D : \E a \in D : p[a] = b
  BY DEF Bijection, Injection, Surjection
<1>5. DOMAIN eligible' = D /\ \A a \in D : eligible'[a] = eligible[p[a]] /\ p[a] \in D
  BY <1>3, <1>4
<1>6. Sifted(Len(ues))'
  <2>1. ASSUME NEW a \in D
        PROVE  \E k \in 1 .. Len(ues) : ues[k].ok /\ eligible'[a] = ues[k]
    <3>1. PICK k \in 1 .. Len(ues) : ues[k].ok /\ eligible[p[a]] = ues[k]
      BY <1>2, <1>5 DEF Sifted
    <3> QED
      BY <1>5, <3>1
  <2>2. ASSUME NEW k \in 1 .. Len(ues), ues[k].ok
        PROVE  \E a \in D : eligible'[a] = ues[k]
    <3>1. PICK b \in D : eligible[b] = ues[k]
      BY <1>2, <2>2 DEF Sifted
    <3>2. PICK a \in D : p[a] = b
      BY <1>4
    <3> QED
      BY <1>5, <3>1, <3>2
  <2> QED
    BY <1>1, <1>5, <2>1, <2>2 DEF Sifted
<1>7. ASSUME NEW a \in D, NEW b \in D, a < b,
             NEW k \in DOMAIN ues, NEW l \in DOMAIN ues,
             eligible'[a] = ues[k], eligible'[b] = ues[l]
      PROVE  Better(k, l)
  <2>1. /\ eligible[p[a]] = ues[k] /\ eligible[p[b]] = ues[l] /\ p[a] \in D /\ p[b] \in D
        /\ Before(eligible, p[a], p[b])
    BY <1>3, <1>5, <1>7
  <2>2. p[a] < p[b] => k < l
    BY <1>2, <2>1 DEF InOrder
  <2>3. \/ ues[k].metric > ues[l].metric
        \/ ues[k].metric = ues[l].metric /\ p[a] < p[b]
    BY <2>1, Zenon DEF Before
  <2> QED
    BY <2>2, <2>3, Zenon DEF Better
<1>8. Sorted'
  <2> SUFFICES ASSUME NEW a \in D, NEW b \in D, a < b,
                      NEW k \in DOMAIN ues, NEW l \in DOMAIN ues,
                      eligible'[a] = ues[k], eligible'[b] = ues[l]
               PROVE  Better(k, l)'
    BY <1>1, <1>5 DEF Sorted
  <2>1. Better(k, l)
    BY <1>7
  <2> QED
    BY <1>1, <2>1 DEF Better
<1>9. Selected' = {}
  BY <1>1 DEF Selected
<1> QED
  BY <1>1, <1>6, <1>8, <1>9 DEF SelectInv

LEMMA SelectPack ==
    ASSUME PackInv, SelectInv, Pack
    PROVE  SelectInv'
<1>1. /\ ues' = ues /\ pc' = pc /\ pc = "pack" /\ eligible' = eligible
      /\ i \in Nat \ {0} /\ i <= NSel /\ NSel \in Nat /\ NSel <= Len(eligible)
      /\ Len(allocations) = i - 1 /\ allocations \in Seq(PrbAllocation)
      /\ eligible \in Seq(Ues)
  BY ConfigTyped DEF Pack, input, PackInv, TypeOK, PrbAllocation
<1>2. PICK n : allocations' = Append(allocations,
                   [ue |-> eligible[i], prb_start |-> cursor, prb_count |-> n])
  BY DEF Pack
<1>c. PICK c \in Nat \ {0} : c = i
  BY <1>1
<1>3. /\ DOMAIN allocations' = 1 .. c /\ Selected = 1 .. c - 1
      /\ allocations'[c].ue = eligible[c]
      /\ \A k \in 1 .. c - 1 : allocations'[k] = allocations[k]
  BY <1>1, <1>c, <1>2 DEF Selected
<1>4. ASSUME NEW k \in 1 .. c
      PROVE  k \in DOMAIN eligible /\ allocations'[k].ue = eligible[k]
  <2>1. CASE k = c
    BY <1>1, <1>c, <1>3, <2>1
  <2>2. CASE k # c
    <3>1. k \in 1 .. c - 1
      BY <1>c, <2>2
    <3> QED
      BY <1>3, <3>1 DEF SelectInv
  <2> QED
    BY <2>1, <2>2
<1>5. Sifted(Len(ues))' /\ Sorted'
  BY <1>1 DEF SelectInv, Sifted, Sorted, Better
<1> QED
  BY <1>1, <1>3, <1>4, <1>5 DEF SelectInv, Selected

LEMMA SelectStep ==
    ASSUME DistinctUes, PackInv, SelectInv, [Next]_vars
    PROVE  SelectInv'
<1>1. CASE Sum \/ SumDone \/ Return
  <2>1. /\ ues' = ues /\ eligible' = eligible /\ allocations' = allocations
        /\ pc # "filter" /\ pc' # "filter"
    BY <1>1 DEF Sum, SumDone, Return, input
  <2> QED
    BY <2>1 DEF SelectInv, Sifted, Sorted, Better, Selected
<1>2. CASE UNCHANGED vars
  BY <1>2 DEF vars, input, SelectInv, Sifted, InOrder, Sorted, Better, Selected
<1> QED
  BY <1>1, <1>2, SelectFilter, SelectSort, SelectPack DEF Next

\* No UE that was passed over goes before one that was selected, in the order "better
\* metric, then earlier in the argument" (scheduler.cpp:40-53): for every
\* configuration, and every argument no UE is twice in.
THEOREM BestTheorem ==
    ASSUME DistinctUes
    PROVE  Spec => []BestAreSelected
<1>1. Init => SelectInv
  BY SelectInit
<1>2. PackInv /\ SelectInv /\ [Next]_vars => SelectInv'
  BY SelectStep
<1>3. PackInv /\ SelectInv => BestAreSelected
  <2> SUFFICES ASSUME PackInv, SelectInv, Done, NEW a \in DOMAIN ues, NEW b \in DOMAIN ues,
                      NEW m \in Selected, allocations[m].ue = ues[a]
               PROVE  /\ ues[a].ok
                      /\ (~\E l \in Selected : allocations[l].ue = ues[b]) /\ ues[b].ok
                            => Better(a, b)
    BY DEF BestAreSelected, Better
  <2>1. /\ Sifted(Len(ues)) /\ Sorted /\ DOMAIN ues = 1 .. Len(ues)
        /\ m \in DOMAIN eligible /\ eligible[m] = ues[a]
    BY DEF SelectInv, Done, PackInv, TypeOK
  <2>2. ues[a].ok
    BY <2>1 DEF Sifted
  <2>3. ASSUME ~\E l \in Selected : allocations[l].ue = ues[b], ues[b].ok
        PROVE  Better(a, b)
    <3>1. PICK l \in DOMAIN eligible : eligible[l] = ues[b]
      BY <2>1, <2>3 DEF Sifted
    <3>2. l \notin Selected
      BY <2>3, <3>1 DEF SelectInv
    <3>3. Selected = 1 .. Len(allocations) /\ Len(allocations) \in Nat /\ l \in Nat \ {0}
      <4>1. allocations \in Seq(PrbAllocation) /\ eligible \in Seq(Ues)
        BY DEF PackInv, TypeOK, PrbAllocation
      <4> QED
        BY <4>1 DEF Selected
    <3>4. m < l
      BY <3>2, <3>3
    <3> QED
      BY <2>1, <3>1, <3>4 DEF Sorted
  <2> QED
    BY <2>2, <2>3
<1> QED
  BY <1>1, <1>2, <1>3, SchedulerInvariant, PTL DEF Spec

-----------------------------------------------------------------------------

(***************************************************************************)
(* Who gets how much.                                                       *)
(***************************************************************************)

\* A quotient rounded down, multiplied back, is no more than the dividend.
LEMMA FloorTimes ==
    ASSUME NEW a \in Nat, NEW s \in Nat \ {0}
    PROVE  s * (a \div s) <= a
  OBVIOUS

\* A product grows with its factor.
LEMMA TimesMono ==
    ASSUME NEW n \in Nat, NEW a \in Nat, NEW b \in Nat, a <= b
    PROVE  n * a <= n * b
  OBVIOUS

\* What is given out stays within the share while each part does.
LEMMA GrantWithin ==
    ASSUME NEW n \in Nat, NEW s \in Nat, NEW c \in Nat, NEW e \in Nat, NEW g \in Nat,
           NEW t \in Nat, NEW m \in Nat,
           s * c <= n * t, s * e <= n * m, g <= e
    PROVE  s * (c + g) <= n * (t + m)
<1>1. n * (t + m) = n * t + n * m /\ s * (c + g) = s * c + s * g
  OBVIOUS
<1>2. s * c \in Nat /\ s * e \in Nat /\ s * g \in Nat /\ n * t \in Nat /\ n * m \in Nat
  OBVIOUS
<1>3. s * g <= s * e
  OBVIOUS
<1> QED
  BY <1>1, <1>2, <1>3

\* A number of blocks that fits in the share of what is left fits in what is left,
\* even if the shares given out were each rounded up: c blocks for a part t of s, up to
\* one part in r, leave e blocks for a part m.
LEMMA ShareFits ==
    ASSUME NEW n \in Nat, NEW s \in Nat \ {0}, NEW r \in Nat \ {0}, NEW c \in Nat,
           NEW e \in Nat \ {0}, NEW t \in Nat, NEW m \in Nat, n <= r,
           (s * r) * c <= (n * (r + 1)) * t, s * e <= n * m, t + m <= s
    PROVE  c + e <= n
<1>1. PICK a \in Nat, b \in Nat, d \in Nat : a = n * m /\ b = n * t /\ d = n * s
  OBVIOUS
<1>2. a + b <= d
  <2>1. n * (t + m) <= n * s
    <3>1. s \in Nat /\ t + m \in Nat
      OBVIOUS
    <3> QED
      BY <3>1, TimesMono, Zenon
  <2>2. n * (t + m) = n * t + n * m
    OBVIOUS
  <2> QED
    BY <1>1, <2>1, <2>2
<1>3. a > 0
  <2>1. s * e > 0
    OBVIOUS
  <2> QED
    BY <1>1, <2>1
<1>4. d <= r * s
  <2>1. s * n <= s * r
    <3>1. s \in Nat /\ r \in Nat
      OBVIOUS
    <3> QED
      BY <3>1, TimesMono, Zenon
  <2> QED
    BY <1>1, <2>1
<1>5. (n * (r + 1)) * t = r * b + b
  BY <1>1
<1>6. (s * r) * e <= r * a
  <2>1. r * (s * e) <= r * (n * m)
    <3>1. r \in Nat /\ s * e \in Nat /\ n * m \in Nat
      OBVIOUS
    <3> QED
      BY <3>1, TimesMono, Zenon
  <2>2. (s * r) * e = r * (s * e)
    OBVIOUS
  <2> QED
    BY <1>1, <2>1, <2>2
<1>7. r * (a + b) <= r * d /\ r * (a + b) = r * a + r * b
  <2>1. r \in Nat /\ a + b \in Nat
    OBVIOUS
  <2>2. r * (a + b) <= r * d
    BY <1>2, <2>1, TimesMono, Zenon
  <2>3. r * (a + b) = r * a + r * b
    OBVIOUS
  <2> QED
    BY <2>2, <2>3
<1>8. PICK u \in Nat \ {0} : u = s * r /\ u = r * s
  OBVIOUS
<1>9. r * d = u * n
  BY <1>1, <1>8
<1>10. u * (c + e) < u * n + u
  <2>1. u * (c + e) = u * c + u * e
    OBVIOUS
  <2>2. /\ u * c \in Nat /\ u * e \in Nat /\ r * a \in Nat /\ r * b \in Nat /\ r * d \in Nat
        /\ u * n \in Nat
    OBVIOUS
  <2>3. u * c <= r * b + b /\ u * e <= r * a
    BY <1>5, <1>6, <1>8
  <2> QED
    BY <1>2, <1>3, <1>4, <1>7, <1>8, <1>9, <2>1, <2>2, <2>3
<1> SUFFICES ASSUME c + e > n PROVE FALSE
  OBVIOUS
<1>11. u * (n + 1) <= u * (c + e)
  <2>1. u \in Nat /\ n + 1 \in Nat /\ c + e \in Nat /\ n + 1 <= c + e
    OBVIOUS
  <2> QED
    BY <2>1, TimesMono, Zenon
<1>12. u * (n + 1) = u * n + u /\ u * n \in Nat /\ u * (c + e) \in Nat
  OBVIOUS
<1> QED
  BY <1>10, <1>11, <1>12

\* A quotient that is off by less than one part in r of its value v / s, where v is at
\* most r times s, is at most one below its floor, and multiplied back exceeds v by no more
\* than that part.
LEMMA RoundedFloor ==
    ASSUME NEW v \in Nat, NEW s \in Nat \ {0}, NEW r \in Nat \ {0}, v <= s * r,
           NEW f \in (v * (r - 1)) \div (s * r) .. (v * (r + 1)) \div (s * r)
    PROVE  f \in Nat /\ v \div s <= f + 1 /\ (s * r) * f <= v * (r + 1)
<1>1. PICK u \in Nat \ {0} : u = s * r
  OBVIOUS
<1>2. PICK q \in Nat : q = v \div s /\ s * q <= v
  <2>1. v \div s \in Nat
    OBVIOUS
  <2> QED
    BY <2>1, FloorTimes
<1>3. PICK lo \in Nat, hi \in Nat : lo = v * (r - 1) /\ hi = v * (r + 1) /\ lo + v = v * r
  <2>1. r - 1 \in Nat /\ r + 1 \in Nat
    OBVIOUS
  <2>2. v * (r - 1) \in Nat /\ v * (r + 1) \in Nat
    BY <2>1
  <2>3. v * (r - 1) + v = v * r
    OBVIOUS
  <2> QED
    BY <2>2, <2>3
<1>4. PICK k \in Nat, h \in Nat : k = lo \div u /\ h = hi \div u /\ u * h <= hi
  <2>1. lo \div u \in Nat /\ hi \div u \in Nat
    OBVIOUS
  <2> QED
    BY <2>1, FloorTimes
<1>5. lo < u * k + u
  BY <1>4
<1>6. f \in k .. h
  BY <1>1, <1>3, <1>4
<1>7. u * f <= hi
  <2>1. u \in Nat /\ f \in Nat /\ f <= h
    BY <1>6
  <2>2. u * f <= u * h
    BY <2>1, TimesMono, Zenon
  <2>3. u * f \in Nat /\ u * h \in Nat
    BY <2>1
  <2> QED
    BY <1>4, <2>2, <2>3
<1>8. q <= k + 1
  <2> SUFFICES ASSUME q > k + 1 PROVE FALSE
    OBVIOUS
  <2>1. u * (k + 2) <= u * q
    <3>1. u \in Nat /\ k + 2 \in Nat /\ k + 2 <= q
      OBVIOUS
    <3> QED
      BY <3>1, TimesMono, Zenon
  <2>2. u * q <= r * v
    <3>1. r * (s * q) <= r * v
      <4>1. r \in Nat /\ s * q \in Nat
        OBVIOUS
      <4> QED
        BY <1>2, <4>1, TimesMono, Zenon
    <3>2. u * q = r * (s * q)
      BY <1>1
    <3> QED
      BY <3>1, <3>2
  <2>3. u * (k + 2) = u * k + u + u /\ u * k \in Nat /\ u * q \in Nat /\ r * v \in Nat
        /\ r * v = v * r
    OBVIOUS
  <2> QED
    BY <1>1, <1>3, <1>5, <2>1, <2>2, <2>3
<1> QED
  BY <1>1, <1>2, <1>3, <1>6, <1>7, <1>8

\* S is the sums of the first metrics of eligible, up to the n-th; no partial sum
\* is more than the last.
PartialSums(S, n) ==
    /\ S \in [0 .. n -> Nat]
    /\ S[0] = 0
    /\ \A k \in 1 .. n : S[k] = S[k - 1] + eligible[k].metric
    /\ \A k \in 0 .. n : S[k] <= S[n]

LargeShares == \A k \in Selected : Exact(k) >= 1

\* With rounding, a UE of metric m has Unit * blocks <= Part * m.
Unit == sum_m * Precision
Part == n_prb * (Precision + 1)

\* While every share so far was a block or more, the UEs have together no more than
\* their share of the blocks, and each its own.
FairInv ==
    /\ pc = "filter" => sum_m = 0 /\ i \in Nat \ {0}
    /\ pc = "sum" =>
        /\ i - 1 <= NSel
        /\ \E S \in [0 .. i - 1 -> Nat] : PartialSums(S, i - 1) /\ S[i - 1] = sum_m
    /\ pc \in {"pack", "done"} =>
        \E S \in [0 .. NSel -> Nat] :
            /\ PartialSums(S, NSel) /\ S[NSel] = sum_m
            /\ LargeShares =>
                /\ Unit * cursor <= Part * S[i - 1]
                /\ \A k \in Selected : Count(k) >= Most(1, Exact(k) - 1)

LEMMA FairSum ==
    ASSUME PackInv, FairInv, Sum
    PROVE  FairInv'
<1>1. /\ pc = "sum" /\ pc' = "sum" /\ eligible' = eligible /\ max_ues' = max_ues
      /\ i' = i + 1 /\ sum_m' = sum_m + eligible[i].metric
      /\ i <= NSel /\ NSel \in Nat /\ NSel <= Len(eligible) /\ Len(eligible) \in Nat
      /\ i \in Nat \ {0} /\ sum_m \in Nat
  BY ConfigTyped DEF Sum, input, PackInv, TypeOK
<1>c. PICK c \in Nat : i = c + 1
  <2>1. i - 1 \in Nat /\ i = (i - 1) + 1
    BY <1>1
  <2> QED
    BY <2>1
<1>2. PICK S \in [0 .. c -> Nat] : PartialSums(S, c) /\ S[c] = sum_m
  BY <1>1, <1>c DEF FairInv
<1>3. eligible[c + 1].metric \in Nat
  BY <1>1, <1>c, ConfigTyped DEF PackInv, TypeOK
<1>4. PICK T \in [0 .. c + 1 -> Nat] : T[c + 1] = sum_m' /\ \A k \in 0 .. c : T[k] = S[k]
  <2> DEFINE U == [k \in 0 .. c + 1 |->
                     IF k = c + 1 THEN sum_m + eligible[c + 1].metric ELSE S[k]]
  <2>1. \A k \in 0 .. c + 1 : k # c + 1 => k \in 0 .. c
    BY <1>c
  <2>2. \A k \in 0 .. c : k \in 0 .. c + 1 /\ k # c + 1
    BY <1>c
  <2>3. c + 1 \in 0 .. c + 1
    BY <1>c
  <2>4. sum_m + eligible[c + 1].metric \in Nat /\ sum_m' = sum_m + eligible[c + 1].metric
    BY <1>1, <1>3, <1>c
  <2>5. U \in [0 .. c + 1 -> Nat]
    BY <1>2, <2>1, <2>4
  <2>6. U[c + 1] = sum_m' /\ \A k \in 0 .. c : U[k] = S[k]
    BY <2>2, <2>3, <2>4
  <2> QED
    BY <2>5, <2>6
<1>5. PartialSums(T, c + 1)
  <2>1. T[0] = 0
    BY <1>2, <1>4 DEF PartialSums
  <2>2. ASSUME NEW k \in 1 .. c + 1 PROVE T[k] = T[k - 1] + eligible[k].metric
    <3>1. CASE k = c + 1
      BY <1>1, <1>2, <1>4, <1>c, <3>1
    <3>2. CASE k # c + 1
      <4>1. k \in 1 .. c /\ k \in 0 .. c /\ k - 1 \in 0 .. c
        BY <3>2
      <4> QED
        BY <1>2, <1>4, <4>1 DEF PartialSums
    <3> QED
      BY <3>1, <3>2
  <2>3. ASSUME NEW k \in 0 .. c + 1 PROVE T[k] <= T[c + 1]
    <3>1. T[c + 1] = sum_m + eligible[c + 1].metric /\ sum_m \in Nat
      BY <1>1, <1>4, <1>c
    <3>2. CASE k = c + 1
      BY <1>1, <1>3, <3>1, <3>2
    <3>3. CASE k # c + 1
      <4>1. k \in 0 .. c
        BY <3>3
      <4>2. T[k] = S[k] /\ S[k] <= sum_m /\ S[k] \in Nat
        BY <1>2, <1>4, <4>1 DEF PartialSums
      <4> QED
        BY <1>3, <3>1, <4>2
    <3> QED
      BY <3>2, <3>3
  <2> QED
    BY <1>4, <2>1, <2>2, <2>3 DEF PartialSums
<1>6. PartialSums(T, c + 1)'
  BY <1>1, <1>5 DEF PartialSums
<1>7. i' - 1 = c + 1 /\ NSel' = NSel /\ c + 1 <= NSel
  BY <1>1, <1>c DEF NSel
<1>8. \E X \in [0 .. i' - 1 -> Nat] : PartialSums(X, i - 1)' /\ X[i' - 1] = sum_m'
  BY <1>4, <1>6, <1>7
<1> QED
  BY <1>1, <1>7, <1>8 DEF FairInv

\* What a UE is given when its share and all before it are a block or more.
LEMMA FairGrant ==
    ASSUME TypeOK, cursor + remaining = n_prb, NEW j \in 1 .. NSel, Exact(j) >= 1,
           NEW f \in Floors(j), NEW S \in [0 .. NSel -> Nat], PartialSums(S, NSel),
           S[NSel] = sum_m, Unit * cursor <= Part * S[j - 1]
    PROVE  /\ Granted(j, f) >= Most(1, Exact(j) - 1)
           /\ Unit * (cursor + Granted(j, f)) <= Part * S[j]
<1>1. /\ n_prb \in Nat \ {0} /\ NSel \in Nat /\ NSel <= Len(eligible) /\ sum_m \in Nat
      /\ cursor \in Nat /\ remaining \in Nat /\ Len(eligible) \in Nat
  BY ConfigTyped DEF TypeOK
<1>2. j \in DOMAIN eligible
  BY <1>1 DEF TypeOK
<1>3. eligible[j].metric \in Nat
  BY <1>2, ConfigTyped
<1>4. sum_m # 0 /\ Exact(j) = (n_prb * eligible[j].metric) \div sum_m
  BY DEF Exact
<1>5. Exact(j) \in Nat /\ f \in Nat
  BY <1>2, FloorsTyped
<1>6. sum_m * Exact(j) <= n_prb * eligible[j].metric
  <2>1. n_prb * eligible[j].metric \in Nat
    BY <1>1, <1>3
  <2> QED
    BY <1>1, <1>4, <2>1, FloorTimes
<1>7. /\ S[j - 1] \in Nat /\ S[j] \in Nat /\ S[j] = S[j - 1] + eligible[j].metric
      /\ S[j] <= sum_m
  <2>1. j - 1 \in 0 .. NSel /\ j \in 0 .. NSel
    BY <1>1
  <2> QED
    BY <2>1 DEF PartialSums
<1>8. PICK e \in Nat \ {0}, t \in Nat, m \in Nat, r \in Nat \ {0}, n \in Nat \ {0},
           s \in Nat \ {0} :
        /\ e = Exact(j) /\ t = S[j - 1] /\ m = eligible[j].metric
        /\ r = Precision /\ n = n_prb /\ s = sum_m
  <2>1. Precision \in Nat \ {0}
    BY SchedulerAssumption
  <2> QED
    BY <1>1, <1>3, <1>4, <1>5, <1>7, <2>1
<1>s. /\ Unit = s * r /\ Part = n * (r + 1) /\ n <= r
      /\ (s * r) * cursor <= (n * (r + 1)) * t /\ s * e <= n * m /\ t + m <= s
  <2>1. Unit = s * r /\ Part = n * (r + 1)
    BY <1>8 DEF Unit, Part
  <2>2. n <= r
    BY <1>8, SchedulerAssumption DEF TypeOK
  <2>3. (s * r) * cursor <= (n * (r + 1)) * t
    BY <1>8, <2>1
  <2>4. s * e <= n * m /\ t + m <= s
    BY <1>6, <1>7, <1>8
  <2> QED
    BY <2>1, <2>2, <2>3, <2>4
<1>f. cursor + e <= n
  <2>1. n \in Nat /\ cursor \in Nat
    BY <1>1
  <2> QED
    BY <1>s, <2>1, ShareFits, Zenon
<1>9. e <= remaining
  BY <1>1, <1>8, <1>f
<1>10. f \in Nat /\ e <= f + 1 /\ (s * r) * f <= (n * (r + 1)) * m
  <2>1. PICK v \in Nat : v = n * m /\ v <= s * r
    <3>1. n * m <= n * s
      <4>1. n \in Nat /\ s \in Nat /\ m <= s
        BY <1>s
      <4> QED
        BY <4>1, TimesMono, Zenon
    <3>2. s * n <= s * r
      <4>1. s \in Nat /\ n \in Nat /\ r \in Nat
        OBVIOUS
      <4> QED
        BY <1>s, <4>1, TimesMono, Zenon
    <3>3. n * m \in Nat /\ n * s = s * n /\ s * n \in Nat /\ s * r \in Nat
      OBVIOUS
    <3> QED
      BY <3>1, <3>2, <3>3
  <2>2. f \in (v * (r - 1)) \div (s * r) .. (v * (r + 1)) \div (s * r)
    BY <1>8, <2>1 DEF Floors
  <2>3. f \in Nat /\ v \div s <= f + 1 /\ (s * r) * f <= v * (r + 1)
    BY <2>1, <2>2, RoundedFloor, Zenon
  <2>4. e = v \div s
    BY <1>4, <1>8, <2>1
  <2>5. v * (r + 1) = (n * (r + 1)) * m
    <3>1. (n * m) * (r + 1) = (n * (r + 1)) * m
      OBVIOUS
    <3> QED
      BY <2>1, <3>1
  <2> QED
    BY <2>3, <2>4, <2>5
<1>11. CASE j = NSel
  <2>1. Granted(j, f) = remaining /\ cursor + Granted(j, f) = n_prb
    BY <1>1, <1>2, <1>11, GrantedFacts
  <2>2. remaining >= Most(1, Exact(j) - 1)
    BY <1>1, <1>8, <1>9 DEF Most
  <2>3. Unit * n_prb <= Part * S[j]
    <3>1. S[j] = s /\ n_prb = n
      BY <1>1, <1>8, <1>11
    <3>2. (s * r) * n <= (n * (r + 1)) * s
      <4>1. (n * (r + 1)) * s = (s * r) * n + n * s
        OBVIOUS
      <4>2. (s * r) * n \in Nat /\ n * s \in Nat
        OBVIOUS
      <4> QED
        BY <4>1, <4>2
    <3> QED
      BY <1>s, <3>1, <3>2
  <2> QED
    BY <2>1, <2>2, <2>3
<1>12. CASE j # NSel
  <2>1. PICK g \in Nat : g = Granted(j, f) /\ (g <= f \/ g <= e) /\ g >= Most(1, e - 1)
    BY <1>1, <1>8, <1>9, <1>10, <1>12 DEF Granted, Wanted, Least, Most
  <2>2. (s * r) * e <= (n * (r + 1)) * m
    <3>1. r * (s * e) <= r * (n * m)
      <4>1. r \in Nat /\ s * e \in Nat /\ n * m \in Nat
        OBVIOUS
      <4> QED
        BY <1>s, <4>1, TimesMono, Zenon
    <3>2. /\ (s * r) * e = r * (s * e) /\ (n * (r + 1)) * m = r * (n * m) + n * m
          /\ r * (n * m) \in Nat /\ n * m \in Nat /\ r * (s * e) \in Nat
      OBVIOUS
    <3> QED
      BY <3>1, <3>2
  <2>3. (s * r) * (cursor + g) <= (n * (r + 1)) * (t + m)
    <3>1. s * r \in Nat /\ n * (r + 1) \in Nat /\ e \in Nat /\ cursor \in Nat
      BY <1>1
    <3> QED
      BY <1>s, <1>10, <2>1, <2>2, <3>1, GrantWithin, Zenon
  <2> QED
    BY <1>7, <1>8, <1>s, <2>1, <2>3
<1> QED
  BY <1>11, <1>12

LEMMA FairPack ==
    ASSUME PackInv, FairInv, Pack
    PROVE  FairInv'
<1>1. /\ pc = "pack" /\ pc' = "pack" /\ eligible' = eligible /\ n_prb' = n_prb
      /\ sum_m' = sum_m /\ i' = i + 1 /\ NSel' = NSel
      /\ i \in Nat \ {0} /\ i <= NSel /\ NSel \in Nat /\ cursor + remaining = n_prb
      /\ Len(allocations) = i - 1 /\ allocations \in Seq(PrbAllocation) /\ TypeOK
  BY ConfigTyped DEF Pack, input, NSel, PackInv, TypeOK, PrbAllocation
<1>2. PICK f \in Floors(i) :
        /\ allocations' = Append(allocations,
               [ue |-> eligible[i], prb_start |-> cursor, prb_count |-> Granted(i, f)])
        /\ cursor' = cursor + Granted(i, f)
  BY DEF Pack
<1>c. PICK c \in Nat \ {0} : c = i
  BY <1>1
<1>3. /\ Selected = 1 .. c - 1 /\ Selected' = 1 .. c
      /\ \A k \in 1 .. c - 1 : Count(k)' = Count(k)
      /\ Count(c)' = Granted(i, f)
  <2>1. /\ DOMAIN allocations' = 1 .. c /\ DOMAIN allocations = 1 .. c - 1
        /\ \A k \in 1 .. c - 1 : allocations'[k] = allocations[k]
        /\ allocations'[c].prb_count = Granted(i, f)
    BY <1>1, <1>2, <1>c
  <2> QED
    BY <2>1 DEF Selected, Count
<1>4. (\A k : Exact(k)' = Exact(k)) /\ Unit' = Unit /\ Part' = Part
  BY <1>1 DEF Exact, Unit, Part
<1>5. PICK S \in [0 .. NSel -> Nat] :
        /\ PartialSums(S, NSel) /\ S[NSel] = sum_m
        /\ LargeShares =>
              /\ Unit * cursor <= Part * S[i - 1]
              /\ \A k \in Selected : Count(k) >= Most(1, Exact(k) - 1)
  BY <1>1 DEF FairInv
<1>6. ASSUME LargeShares'
      PROVE  /\ Unit' * cursor' <= Part' * S[i' - 1]
             /\ \A k \in 1 .. c : Count(k)' >= Most(1, Exact(k)' - 1)
  <2>1. LargeShares /\ Exact(c) >= 1
    <3>1. \A k \in 1 .. c : Exact(k) >= 1
      BY <1>3, <1>4, <1>6 DEF LargeShares
    <3>2. c \in 1 .. c /\ 1 .. c - 1 \subseteq 1 .. c
      BY <1>c
    <3> QED
      BY <1>3, <3>1, <3>2 DEF LargeShares
  <2>2. i \in 1 .. NSel /\ i' - 1 = i
    BY <1>1
  <2>3. Unit * cursor <= Part * S[i - 1]
    BY <1>5, <2>1
  <2>4. /\ Granted(i, f) >= Most(1, Exact(i) - 1)
        /\ Unit * (cursor + Granted(i, f)) <= Part * S[i]
    BY <1>1, <1>5, <1>c, <2>1, <2>2, <2>3, FairGrant
  <2>5. ASSUME NEW k \in 1 .. c PROVE Count(k)' >= Most(1, Exact(k)' - 1)
    <3>1. CASE k = c
      BY <1>3, <1>4, <1>c, <2>4, <3>1
    <3>2. CASE k # c
      <4>1. k \in 1 .. c - 1
        BY <3>2
      <4> QED
        BY <1>3, <1>4, <1>5, <2>1, <4>1
    <3> QED
      BY <3>1, <3>2
  <2> QED
    BY <1>2, <1>4, <2>2, <2>4, <2>5
<1>7. PartialSums(S, NSel)' /\ S \in [0 .. NSel' -> Nat] /\ S[NSel'] = sum_m'
  BY <1>1, <1>5 DEF PartialSums
<1> QED
  BY <1>1, <1>3, <1>6, <1>7 DEF FairInv, Most

LEMMA FairStep ==
    ASSUME PackInv, FairInv, [Next]_vars
    PROVE  FairInv'
<1>1. CASE Filter
  BY <1>1 DEF Filter, FairInv, PackInv
<1>2. CASE Sort
  <2>1. pc' = "sum" /\ i' = 1 /\ sum_m' = 0
    BY <1>2 DEF Sort, FairInv
  <2>2. 0 <= NSel'
    <3>1. TypeOK'
      BY <1>2, SortStep DEF PackInv
    <3>2. Len(eligible') \in Nat /\ max_ues' \in Nat
      BY <3>1, SchedulerAssumption DEF TypeOK
    <3> QED
      BY <3>2 DEF NSel, Least
  <2>3. PICK S \in [0 .. 0 -> Nat] : S = [k \in 0 .. 0 |-> 0]
    OBVIOUS
  <2>4. S[0] = 0 /\ PartialSums(S, 0)'
    BY <2>3 DEF PartialSums
  <2>5. \E X \in [0 .. i' - 1 -> Nat] : PartialSums(X, i - 1)' /\ X[i' - 1] = sum_m'
    BY <2>1, <2>4
  <2> QED
    BY <2>1, <2>2, <2>5 DEF FairInv
<1>3. CASE Sum
  BY <1>3, FairSum
<1>4. CASE SumDone
  <2>1. /\ pc = "sum" /\ pc' = "pack" /\ i' = 1 /\ NSel' = NSel /\ n_prb' = n_prb
        /\ eligible' = eligible /\ sum_m' = sum_m /\ cursor' = cursor
        /\ allocations' = allocations /\ allocations = <<>>
    BY <1>4 DEF SumDone, input, NSel, PackInv
  <2>2. i - 1 = NSel
    <3>1. i \in Nat /\ NSel \in Nat /\ i > NSel /\ i - 1 <= NSel
      BY <1>4, <2>1, ConfigTyped DEF SumDone, PackInv, FairInv
    <3> QED
      BY <3>1
  <2>3. PICK S \in [0 .. NSel -> Nat] : PartialSums(S, NSel) /\ S[NSel] = sum_m
    BY <2>1, <2>2 DEF FairInv
  <2>4. cursor = 0 /\ S[0] = 0 /\ Selected' = {} /\ sum_m \in Nat /\ n_prb \in Nat
    BY <2>1, <2>3, ConfigTyped DEF PackInv, TypeOK, PartialSums, Selected
  <2>5. Unit' * cursor' <= Part' * S[i' - 1]
    <3>1. PICK x \in Nat, y \in Nat : x = Unit /\ y = Part
      BY <2>4, SchedulerAssumption DEF Unit, Part
    <3>2. x * 0 = 0 /\ y * 0 = 0
      OBVIOUS
    <3>3. Unit' = x /\ Part' = y /\ cursor' = 0 /\ i' - 1 = 0
      BY <2>1, <2>4, <3>1 DEF Unit, Part
    <3> QED
      BY <2>4, <3>2, <3>3
  <2>6. PartialSums(S, NSel)'
    BY <2>1, <2>3 DEF PartialSums
  <2> QED
    BY <2>1, <2>3, <2>4, <2>5, <2>6 DEF FairInv
<1>5. CASE Pack
  BY <1>5, FairPack
<1>6. CASE Return
  <2>1. /\ UNCHANGED <<n_prb, max_ues, i, eligible, sum_m, cursor, allocations>>
        /\ pc = "pack" /\ pc' = "done"
    BY <1>6 DEF Return, input
  <2> QED
    BY <2>1 DEF FairInv, PartialSums, LargeShares, Exact, Count, Selected, NSel,
       Unit, Part
<1>7. CASE UNCHANGED vars
  BY <1>7 DEF vars, input, FairInv, PartialSums, LargeShares, Exact, Count, Selected, NSel,
       Unit, Part
<1> QED
  BY <1>1, <1>2, <1>3, <1>4, <1>5, <1>6, <1>7 DEF Next

\* When every selected UE's share is a block or more, each of them gets a block and
\* its share up to the rounding of the quotient, the last one included: the shares
\* given out before, rounded up or down, take no more than a block of it
\* (scheduler.cpp:59-84).
THEOREM FairTheorem == Spec => []FairUnlessTiny
<1>1. Init => FairInv
  BY DEF Init, FairInv
<1>2. PackInv /\ FairInv /\ [Next]_vars => FairInv'
  BY FairStep
<1>3. FairInv => FairUnlessTiny
  BY DEF FairInv, FairUnlessTiny, Done, LargeShares
<1> QED
  BY <1>1, <1>2, <1>3, SchedulerInvariant, PTL DEF Spec

=============================================================================
