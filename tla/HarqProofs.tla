------------------------------ MODULE HarqProofs ------------------------------
(***************************************************************************)
(* Theorems about HarqBuffer: on a link where the new-data indicator is     *)
(* wide enough, no soft buffer mixes transport blocks and no upsert throws, *)
(* and if it also keeps the order, no delivery goes uncounted; on any link, *)
(* only LLRs of one length are added.                                       *)
(***************************************************************************)
EXTENDS Harq, TLAPS

\* Numbers closer together than the modulus are told apart by it.
LEMMA NdiTellsApart ==
    ASSUME NEW M \in Nat \ {0}, NEW a \in Nat, NEW b \in Nat,
           a - b < M, b - a < M, a % M = b % M
    PROVE  a = b
<1>1. a = M * (a \div M) + (a % M)
  OBVIOUS
<1>1b. b = M * (b \div M) + (b % M)
  OBVIOUS
<1>2. a \div M \in Nat /\ b \div M \in Nat
  OBVIOUS
<1>3. PICK d \in Nat : a = M * d + (a % M)
  BY <1>1, <1>2
<1>3b. PICK e \in Nat : b = M * e + (a % M)
  BY <1>1b, <1>2
<1>3c. a % M \in Nat
  OBVIOUS
<1>3d. a - b = M * (d - e)
  BY <1>3, <1>3b, <1>3c
<1>4. d \in Nat /\ e \in Nat
  OBVIOUS
<1>5. d - e < 1
  <2>1. CASE d - e >= 1
    <3>1. M * (d - e) >= M
      BY <1>4, <2>1
    <3> QED
      BY <1>3d, <3>1
  <2> QED
    BY <1>4, <2>1
<1>6. e - d < 1
  <2>1. CASE e - d >= 1
    <3>1. M * (e - d) >= M
      BY <1>4, <2>1
    <3>2. b - a = M * (e - d)
      BY <1>3d, <1>4
    <3> QED
      BY <3>1, <3>2
  <2> QED
    BY <1>4, <2>1
<1>7. d = e
  BY <1>4, <1>5, <1>6
<1> QED
  BY <1>3d, <1>7, <1>4

\* An entry belongs to one block of the sender, no older than the delay of the
\* link and the blocks begun since the process was last heard.
Holds(p, b) ==
    /\ procs[p].parts = {b} /\ procs[p].ndi = Ndi(b) /\ procs[p].size = SizeOf(b)
    /\ b <= block[p] /\ block[p] - b <= link.lateness + unheard[p]

HarqInv ==
    /\ TypeOK
    /\ \A p \in Processes : unheard[p] <= link.unheard + 1
    /\ WideEnough =>
          /\ \A p \in Processes : Known(p) => \E b \in Blocks : Holds(p, b)
          /\ outcome # "thrown"

\* The fields of the link of a behaviour.
LEMMA LinkTyped ==
    ASSUME TypeOK
    PROVE  /\ link.ndi_mod \in Nat \ {0} /\ link.lateness \in Nat /\ link.unheard \in Nat
           /\ \A b \in Blocks : Ndi(b) \in Nat
<1>1. link \in Link
  BY HarqAssumption DEF TypeOK
<1>2. link.ndi_mod \in Nat \ {0} /\ link.lateness \in Nat /\ link.unheard \in Nat
  BY <1>1 DEF Link
<1> QED
  BY <1>2, HarqAssumption DEF Blocks, Ndi

LEMMA HarqInit == Init => HarqInv
<1> SUFFICES ASSUME Init PROVE HarqInv
  OBVIOUS
<1>1. TypeOK
  BY HarqAssumption DEF Init, TypeOK, Blocks, Absent
<1>2. \A p \in Processes : unheard[p] <= link.unheard + 1
  <2>1. link.unheard \in Nat
    BY <1>1, LinkTyped
  <2>2. 0 <= link.unheard + 1
    BY <2>1
  <2>3. \A p \in Processes : unheard[p] = 0
    BY DEF Init
  <2> QED
    BY <2>2, <2>3
<1> QED
  BY <1>1, <1>2 DEF Init, HarqInv, Known

\* What is written into an entry is an entry.
LEMMA UpsertTyped ==
    ASSUME TypeOK, NEW p \in Processes, NEW b \in Blocks, NEW rv \in Rvs, upsert(p, b, rv)
    PROVE  procs' \in [Processes -> HarqProcess \cup {Absent}]
<1>1. CASE Replace(p, b, rv)
  <2>1. Entry(Ndi(b), {b}, SizeOf(b), rv, 1) \in HarqProcess
    BY LinkTyped, HarqAssumption DEF HarqProcess, Blocks, Entry
  <2> QED
    BY <1>1, <2>1 DEF Replace, TypeOK
<1>2. CASE Combine(p, b, rv)
  <2>1. procs[p] \in HarqProcess
    BY <1>2 DEF Combine, IsNew, TypeOK
  <2>2. Added(procs[p], b, rv) \in HarqProcess
    BY <1>2, <2>1, HarqAssumption DEF Combine, HarqProcess, Added, Entry
  <2> QED
    BY <1>2, <2>2 DEF Combine, TypeOK
<1>3. CASE Mismatch(p, b, rv)
  BY <1>3 DEF Mismatch, TypeOK
<1> QED
  BY <1>1, <1>2, <1>3 DEF upsert

LEMMA StepTyped ==
    ASSUME TypeOK, [Next]_vars
    PROVE  TypeOK'
<1>1. ASSUME NEW p \in Processes, NEW b \in Blocks, NEW rv \in Rvs, Deliver(p, b, rv)
      PROVE  TypeOK'
  <2>1. upsert(p, b, rv) /\ procs' \in [Processes -> HarqProcess \cup {Absent}]
    BY <1>1, UpsertTyped DEF Deliver
  <2>2. outcome' \in {"none", "replaced", "combined", "thrown"}
    BY <2>1 DEF upsert, Replace, Combine, Mismatch
  <2>3. count[p] \in Nat /\ count' = [count EXCEPT ![p] = IF b = block[p] THEN @ + 1 ELSE @]
    BY <1>1 DEF Deliver, TypeOK
  <2>4. /\ count' \in [Processes -> Nat] /\ unheard' \in [Processes -> Nat] /\ block' = block
        /\ link' = link
    BY <1>1, <2>3 DEF Deliver, TypeOK
  <2> QED
    BY <2>1, <2>2, <2>4 DEF TypeOK
<1>2. ASSUME NEW p \in Processes, NewBlock(p) PROVE TypeOK'
  BY <1>2, HarqAssumption DEF NewBlock, TypeOK, Blocks
<1>3. ASSUME NEW p \in Processes, clear(p) PROVE TypeOK'
  BY <1>3 DEF clear, TypeOK
<1>4. CASE UNCHANGED vars
  BY <1>4 DEF vars, TypeOK
<1> QED
  BY <1>1, <1>2, <1>3, <1>4 DEF Next

THEOREM HarqTyped == Spec => []TypeOK
<1>1. Init => TypeOK
  BY HarqInit DEF HarqInv
<1> QED
  BY <1>1, StepTyped, PTL DEF Spec

\* A delivered block with the indicator of the entry is the block of the entry.
LEMMA SameNdiSameBlock ==
    ASSUME HarqInv, WideEnough, NEW p \in Processes, NEW b \in Blocks, NEW c \in Blocks,
           b <= block[p], block[p] - b <= link.lateness, Holds(p, c), Ndi(b) = Ndi(c)
    PROVE  b = c
<1>0. link.ndi_mod \in Nat \ {0} /\ link.lateness \in Nat /\ link.unheard \in Nat
  BY LinkTyped DEF HarqInv
<1>1. /\ b \in Nat /\ c \in Nat /\ block[p] \in Nat /\ unheard[p] \in Nat
      /\ unheard[p] <= link.unheard + 1
      /\ c <= block[p] /\ block[p] - c <= link.lateness + unheard[p]
  BY HarqAssumption DEF HarqInv, TypeOK, Blocks, Holds
<1>2. b - c < link.ndi_mod /\ c - b < link.ndi_mod
  BY <1>1, <1>0 DEF WideEnough
<1> QED
  BY <1>0, <1>1, <1>2, NdiTellsApart DEF Ndi

\* A delivery leaves entries that belong to one block each, and does not throw.
LEMMA DeliverHolds ==
    ASSUME HarqInv, WideEnough, TypeOK', link' = link,
           NEW p \in Processes, NEW b \in Blocks, NEW rv \in Rvs, Deliver(p, b, rv)
    PROVE  /\ \A q \in Processes : Known(q)' => \E c \in Blocks : Holds(q, c)'
           /\ outcome' # "thrown"
<1>t. /\ TypeOK
      /\ link.ndi_mod \in Nat \ {0} /\ link.lateness \in Nat /\ link.unheard \in Nat
  BY LinkTyped DEF HarqInv
<1>1. /\ upsert(p, b, rv) /\ block' = block
      /\ b <= block[p] /\ block[p] - b <= link.lateness
      /\ unheard' = [unheard EXCEPT ![p] = 0]
  BY DEF Deliver
<1>2. /\ outcome' # "thrown"
      /\ procs'[p].parts = {b} /\ procs'[p].ndi = Ndi(b) /\ procs'[p].size = SizeOf(b)
      /\ \A q \in Processes \ {p} : procs'[q] = procs[q]
  <2>1. CASE Replace(p, b, rv)
    BY <1>t, <2>1 DEF Replace, Entry, TypeOK
  <2>2. CASE ~IsNew(p, Ndi(b))
    <3>1. PICK c \in Blocks : Holds(p, c)
      BY <2>2 DEF HarqInv, Known, IsNew
    <3>2. b = c
      BY <1>1, <2>2, <3>1, SameNdiSameBlock DEF IsNew, Holds
    <3>3. procs[p].parts = {b} /\ procs[p].ndi = Ndi(b) /\ procs[p].size = SizeOf(b)
      BY <3>1, <3>2 DEF Holds
    <3>4. Combine(p, b, rv) /\ procs[p] \in HarqProcess
      BY <1>t, <1>1, <2>2, <3>3 DEF upsert, Replace, Mismatch, IsNew, TypeOK
    <3> QED
      BY <1>t, <3>3, <3>4 DEF Combine, Added, Entry, TypeOK, HarqProcess
  <2> QED
    BY <1>1, <2>1, <2>2 DEF upsert, Combine, Mismatch
<1>3. Holds(p, b)'
  <2>1. block[p] \in Nat /\ unheard'[p] = 0
    BY <1>t, <1>1, HarqAssumption DEF TypeOK, Blocks
  <2>2. Ndi(b)' = Ndi(b)
    BY DEF Ndi
  <2> QED
    BY <1>t, <1>1, <1>2, <2>1, <2>2, HarqAssumption DEF Holds
<1>4. ASSUME NEW q \in Processes \ {p}, Known(q)'
      PROVE  \E c \in Blocks : Holds(q, c)'
  <2>1. procs'[q] = procs[q] /\ unheard'[q] = unheard[q] /\ block'[q] = block[q]
    BY <1>t, <1>1, <1>2 DEF TypeOK
  <2>2. PICK c \in Blocks : Holds(q, c)
    BY <1>4, <2>1 DEF HarqInv, Known
  <2>3. Holds(q, c)'
    BY <2>1, <2>2 DEF Holds, Ndi
  <2> QED
    BY <2>3
<1> QED
  BY <1>2, <1>3, <1>4

LEMMA HarqStep ==
    ASSUME HarqInv, [Next]_vars
    PROVE  HarqInv'
<1>t. /\ TypeOK /\ TypeOK'
      /\ link.ndi_mod \in Nat \ {0} /\ link.lateness \in Nat /\ link.unheard \in Nat
  BY StepTyped, LinkTyped DEF HarqInv
<1>l. link' = link
  BY DEF Next, Deliver, NewBlock, clear, vars
<1>w. WideEnough' = WideEnough
  BY <1>l DEF WideEnough
<1>u. \A p \in Processes : unheard'[p] <= link'.unheard + 1
  <2>1. ASSUME NEW p \in Processes,
               \/ \E b \in Blocks, rv \in Rvs : Deliver(p, b, rv)
               \/ NewBlock(p) \/ clear(p)
        PROVE  \A q \in Processes : unheard'[q] <= link'.unheard + 1
    BY <1>t, <1>l, <2>1 DEF HarqInv, TypeOK, Deliver, NewBlock, clear
  <2>2. CASE UNCHANGED vars
    BY <1>l, <2>2 DEF vars, HarqInv
  <2> QED
    BY <2>1, <2>2 DEF Next
<1>h. ASSUME WideEnough
      PROVE  /\ \A p \in Processes : Known(p)' => \E b \in Blocks : Holds(p, b)'
             /\ outcome' # "thrown"
  <2>1. ASSUME NEW p \in Processes, NEW b \in Blocks, NEW rv \in Rvs, Deliver(p, b, rv)
        PROVE  /\ \A q \in Processes : Known(q)' => \E c \in Blocks : Holds(q, c)'
               /\ outcome' # "thrown"
    BY <1>h, <1>t, <1>l, <2>1, DeliverHolds
  <2>2. ASSUME NEW p \in Processes, NewBlock(p), NEW q \in Processes, Known(q)'
        PROVE  \E c \in Blocks : Holds(q, c)'
    <3>1. /\ procs' = procs
          /\ block' = [block EXCEPT ![p] = @ + 1]
          /\ unheard' = [unheard EXCEPT ![p] = @ + 1]
      BY <2>2 DEF NewBlock
    <3>2. PICK c \in Blocks : Holds(q, c)
      BY <1>h, <2>2, <3>1 DEF HarqInv, Known
    <3>3. block[q] \in Nat /\ unheard[q] \in Nat /\ c \in Nat
      BY <1>t, HarqAssumption DEF TypeOK, Blocks
    <3>4. \/ block'[q] = block[q] /\ unheard'[q] = unheard[q]
          \/ block'[q] = block[q] + 1 /\ unheard'[q] = unheard[q] + 1
      BY <1>t, <3>1 DEF TypeOK
    <3>5. Holds(q, c)'
      BY <1>t, <1>l, <3>1, <3>2, <3>3, <3>4 DEF Holds, Ndi
    <3> QED
      BY <3>5
  <2>3. ASSUME NEW p \in Processes, clear(p), NEW q \in Processes, Known(q)'
        PROVE  \E c \in Blocks : Holds(q, c)'
    <3>1. procs'[q] = procs[q] /\ block' = block /\ unheard' = unheard
      BY <1>t, <2>3 DEF clear, Known, TypeOK
    <3>2. PICK c \in Blocks : Holds(q, c)
      BY <1>h, <2>3, <3>1 DEF HarqInv, Known
    <3>3. Holds(q, c)'
      BY <1>l, <3>1, <3>2 DEF Holds, Ndi
    <3> QED
      BY <3>3
  <2>4. CASE UNCHANGED vars
    BY <1>h, <2>4 DEF vars, HarqInv, Known, Holds, Ndi
  <2>5. \A p \in Processes : NewBlock(p) \/ clear(p) => outcome' # "thrown"
    BY <1>h DEF HarqInv, NewBlock, clear
  <2> QED
    BY <2>1, <2>2, <2>3, <2>4, <2>5 DEF Next
<1> QED
  BY <1>t, <1>w, <1>u, <1>h DEF HarqInv

LEMMA HarqInvariant == Spec => []HarqInv
<1>1. HarqInv /\ [Next]_vars => HarqInv'
  BY HarqStep
<1> QED
  BY <1>1, HarqInit, PTL DEF Spec

\* When the indicator is wide enough for the link, a soft buffer never mixes two
\* transport blocks (harq.cpp:8-21).
THEOREM OneBlockTheorem == Spec => []OneBlock
<1>1. HarqInv => OneBlock
  BY DEF HarqInv, OneBlock, Holds
<1> QED
  BY <1>1, HarqInvariant, PTL

\* And no upsert throws (harq.cpp:18).
THEOREM NeverThrowsTheorem == Spec => []NeverThrows
<1>1. HarqInv => NeverThrows
  BY DEF HarqInv, NeverThrows
<1> QED
  BY <1>1, HarqInvariant, PTL

-----------------------------------------------------------------------------

LEMMA SizesStep ==
    ASSUME TypeOK, SizesAgree, [Next]_vars
    PROVE  SizesAgree'
<1>1. ASSUME NEW p \in Processes, NEW b \in Blocks, NEW rv \in Rvs, Deliver(p, b, rv)
      PROVE  SizesAgree'
  <2>1. ASSUME NEW q \in Processes, Known(q)', NEW c \in procs'[q].parts
        PROVE  SizeOf(c) = procs'[q].size
    <3>1. CASE q = p /\ Replace(p, b, rv)
      BY <2>1, <3>1 DEF Replace, Entry, TypeOK
    <3>2. CASE q = p /\ Combine(p, b, rv)
      <4>1. procs[p] \in HarqProcess /\ Known(p)
        BY <3>2 DEF Combine, IsNew, TypeOK, Known
      <4>2. procs'[p].parts = procs[p].parts \cup {b} /\ procs'[p].size = procs[p].size
        BY <3>2, <4>1 DEF Combine, Added, Entry, TypeOK, HarqProcess
      <4> QED
        BY <2>1, <3>2, <4>1, <4>2 DEF Combine, SizesAgree
    <3>3. CASE procs'[q] = procs[q]
      BY <2>1, <3>3 DEF SizesAgree, Known
    <3> QED
      BY <1>1, <3>1, <3>2, <3>3 DEF Deliver, upsert, Replace, Combine, Mismatch, TypeOK
  <2> QED
    BY <2>1 DEF SizesAgree
<1>2. ASSUME NEW p \in Processes, clear(p) PROVE SizesAgree'
  BY <1>2 DEF clear, SizesAgree, Known, TypeOK
<1>3. CASE procs' = procs
  BY <1>3 DEF SizesAgree, Known
<1> QED
  BY <1>1, <1>2, <1>3 DEF Next, NewBlock, vars

\* On every link, narrow indicators included, only LLRs of one length are ever
\* added up (harq.cpp:18-21).
THEOREM SizesTheorem == Spec => []SizesAgree
<1>1. Init => SizesAgree
  BY DEF Init, SizesAgree, Known
<1>2. TypeOK /\ SizesAgree /\ [Next]_vars => SizesAgree'
  BY SizesStep
<1> QED
  BY <1>1, <1>2, HarqTyped, PTL DEF Spec

-----------------------------------------------------------------------------

\* The count of an entry that holds the sender's present block is the number of its
\* deliveries; no delivery of the present block is counted elsewhere.
Counted(p) ==
    IF Known(p) /\ block[p] \in procs[p].parts
    THEN procs[p].tx_count = count[p]
    ELSE count[p] = 0

InOrder == WideEnough /\ link.lateness = 0

CountInv == InOrder => \A p \in Processes : Counted(p)

\* On a link that keeps the order, the delivered block is the present one: it finds
\* an entry of its own or none, and the entry counts with the deliveries.
LEMMA DeliverCounted ==
    ASSUME HarqInv, CountInv, InOrder, NEW p \in Processes, NEW b \in Blocks,
           NEW rv \in Rvs, Deliver(p, b, rv), NEW q \in Processes
    PROVE  Counted(q)'
<1>t. TypeOK /\ WideEnough /\ link.lateness = 0
  BY DEF HarqInv, InOrder
<1>1. /\ upsert(p, b, rv) /\ block' = block /\ b = block[p]
      /\ count' = [count EXCEPT ![p] = @ + 1]
  <2>1. b \in Nat /\ block[p] \in Nat
    BY <1>t, HarqAssumption DEF TypeOK, Blocks
  <2>2. b = block[p]
    BY <1>t, <2>1 DEF Deliver
  <2> QED
    BY <2>2 DEF Deliver
<1>2. Counted(p) /\ Counted(q) /\ count[p] \in Nat /\ count'[p] = count[p] + 1
  BY <1>t, <1>1 DEF CountInv, TypeOK
<1>3. CASE q # p
  <2>1. procs'[q] = procs[q] /\ count'[q] = count[q]
    BY <1>t, <1>1, <1>3 DEF upsert, Replace, Combine, Mismatch, TypeOK
  <2> QED
    BY <1>1, <1>2, <2>1 DEF Counted, Known
<1>4. CASE q = p /\ IsNew(p, Ndi(b))
  <2>1. procs' = [procs EXCEPT ![p] = Entry(Ndi(b), {b}, SizeOf(b), rv, 1)]
    BY <1>1, <1>4 DEF upsert, Replace, Combine, Mismatch
  <2>2. procs'[p] = Entry(Ndi(b), {b}, SizeOf(b), rv, 1)
    BY <1>t, <2>1 DEF TypeOK
  <2>3. count[p] = 0
    <3>1. ASSUME Known(p) PROVE b \notin procs[p].parts
      BY <1>t, <1>4, <3>1 DEF HarqInv, Holds, IsNew, Known
    <3> QED
      BY <1>1, <1>2, <3>1 DEF Counted
  <2>4. Known(p)' /\ block'[p] \in procs'[p].parts /\ procs'[p].tx_count = 1
    <3>1. Ndi(b) # -1
      BY <1>t, LinkTyped
    <3> QED
      BY <1>1, <2>2, <3>1 DEF Entry, Known, Absent
  <2> QED
    BY <1>2, <1>4, <2>3, <2>4 DEF Counted
<1>5. CASE q = p /\ ~IsNew(p, Ndi(b))
  <2>1. PICK c \in Blocks : Holds(p, c)
    BY <1>t, <1>5 DEF HarqInv, Known, IsNew
  <2>2. b = c
    BY <1>t, <1>1, <1>5, <2>1, SameNdiSameBlock, HarqAssumption DEF Deliver, IsNew, Holds
  <2>3. procs[p].parts = {b} /\ procs[p].size = SizeOf(b) /\ Known(p)
    BY <1>5, <2>1, <2>2 DEF Holds, IsNew, Known
  <2>4. Combine(p, b, rv) /\ procs[p] \in HarqProcess
    BY <1>t, <1>1, <1>5, <2>3 DEF upsert, Replace, Mismatch, IsNew, TypeOK
  <2>5. /\ procs'[p].tx_count = procs[p].tx_count + 1 /\ procs'[p].parts = {b}
        /\ Known(p)'
    <3>1. procs'[p] = Added(procs[p], b, rv)
      BY <1>t, <2>4 DEF Combine, TypeOK
    <3>2. procs[p].ndi # -1
      BY <2>4 DEF HarqProcess
    <3> QED
      BY <2>3, <3>1, <3>2 DEF Added, Entry, Known, Absent
  <2>6. procs[p].tx_count = count[p]
    BY <1>1, <1>2, <2>3 DEF Counted
  <2> QED
    BY <1>1, <1>2, <1>5, <2>5, <2>6 DEF Counted
<1> QED
  BY <1>3, <1>4, <1>5

LEMMA CountStep ==
    ASSUME HarqInv, CountInv, [Next]_vars
    PROVE  CountInv'
<1>t. TypeOK
  BY DEF HarqInv
<1>l. link' = link
  BY DEF Next, Deliver, NewBlock, clear, vars
<1>w. InOrder' = InOrder
  BY <1>l DEF InOrder, WideEnough
<1> SUFFICES ASSUME InOrder, NEW q \in Processes PROVE Counted(q)'
  BY <1>w DEF CountInv
<1>c. Counted(q)
  BY DEF CountInv
<1>1. ASSUME NEW p \in Processes, NEW b \in Blocks, NEW rv \in Rvs, Deliver(p, b, rv)
      PROVE  Counted(q)'
  BY <1>1, DeliverCounted
<1>2. ASSUME NEW p \in Processes, NewBlock(p) PROVE Counted(q)'
  <2>1. CASE q = p
    <3>1. procs' = procs /\ block'[p] = block[p] + 1 /\ count'[p] = 0
      BY <1>t, <1>2 DEF NewBlock, TypeOK
    <3>2. ASSUME Known(p) PROVE block[p] + 1 \notin procs[p].parts
      <4>1. PICK c \in Blocks : Holds(p, c)
        BY <3>2 DEF HarqInv, InOrder
      <4>2. c \in Nat /\ block[p] \in Nat /\ c <= block[p] /\ procs[p].parts = {c}
        BY <1>t, <4>1, HarqAssumption DEF Holds, TypeOK, Blocks
      <4> QED
        BY <4>2
    <3> QED
      BY <2>1, <3>1, <3>2 DEF Counted, Known
  <2>2. CASE q # p
    <3>1. procs' = procs /\ block'[q] = block[q] /\ count'[q] = count[q]
      BY <1>t, <1>2, <2>2 DEF NewBlock, TypeOK
    <3> QED
      BY <1>c, <3>1 DEF Counted, Known
  <2> QED
    BY <2>1, <2>2
<1>3. ASSUME NEW p \in Processes, clear(p) PROVE Counted(q)'
  <2>1. CASE q = p
    BY <1>t, <1>3, <2>1 DEF clear, Counted, Known, TypeOK
  <2>2. CASE q # p
    BY <1>t, <1>3, <1>c, <2>2 DEF clear, Counted, Known, TypeOK
  <2> QED
    BY <2>1, <2>2
<1>4. CASE UNCHANGED vars
  BY <1>c, <1>4 DEF vars, Counted, Known
<1> QED
  BY <1>1, <1>2, <1>3, <1>4 DEF Next

\* On a link that keeps the order, with an indicator wide enough, the entry of the
\* sender's present block has taken every transmission of it that was delivered: none
\* is lost on an entry of another block, none is counted twice (harq.cpp:14, 21).
THEOREM EveryDeliveryTheorem == Spec => []EveryDeliveryCounts
<1>1. Init => CountInv
  BY DEF Init, CountInv, Counted, Known
<1>2. HarqInv /\ CountInv /\ [Next]_vars => CountInv'
  BY CountStep
<1>3. CountInv => EveryDeliveryCounts
  BY DEF CountInv, InOrder, Counted, EveryDeliveryCounts
<1> QED
  BY <1>1, <1>2, <1>3, HarqInvariant, PTL DEF Spec

=============================================================================
