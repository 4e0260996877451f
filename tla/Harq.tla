-------------------------------- MODULE Harq --------------------------------
(***************************************************************************)
(* HarqBuffer of src/harq.cpp, between a sender that numbers its transport  *)
(* blocks with a new-data indicator and a link that loses, repeats and      *)
(* delays transmissions. How wide the indicator is and how bad the link is  *)
(* is settled at the start (link) and differs between behaviours.           *)
(*                                                                         *)
(* A soft buffer is the blocks whose LLRs were added up in it. The sender   *)
(* and the link are the environment: nothing under src/ drives a            *)
(* HarqBuffer, a caller brings process_id, ndi, LLRs and rv.                *)
(***************************************************************************)
EXTENDS Integers

CONSTANTS
    Processes,   \* process_id values in use
    Links,       \* the links and indicators considered
    Rvs,         \* redundancy versions
    SizeOf(_),   \* LLRs of a transmission of a block, by its number
    MaxBlock,    \* bound: blocks the sender numbers
    MaxTx        \* bound: transmissions in one buffer, and deliveries of a sender's block

\* ndi_mod: values the sender's ndi runs through (1 bit: 2); lateness: how many
\* blocks back a delayed transmission may belong to; unheard: how many blocks in a
\* row may be lost altogether before one is heard.
Link == [ndi_mod : Nat \ {0}, lateness : Nat, unheard : Nat]

ASSUME HarqAssumption ==
    /\ Links \subseteq Link
    /\ MaxBlock \in Nat /\ MaxTx \in Nat \ {0}
    /\ \A b \in 0 .. MaxBlock : SizeOf(b) \in Nat

Blocks == 0 .. MaxBlock

HarqProcess == [ndi : Nat, parts : SUBSET Blocks, size : Nat,
                rv : Rvs, tx_count : 1 .. MaxTx]

Absent == [ndi |-> -1]

VARIABLES
    link,     \* the indicator and the link of this behaviour
    procs,    \* procs_: the entry of each process, or Absent
    block,    \* the block each sender process is at
    unheard,  \* blocks begun since a transmission of the process was delivered
    count,    \* deliveries of the sender's present block since it began, or clear()
    outcome   \* what the last upsert did

vars == <<link, procs, block, unheard, count, outcome>>

Ndi(b) == b % link.ndi_mod

Init ==
    /\ link \in Links
    /\ procs = [p \in Processes |-> Absent]
    /\ block = [p \in Processes |-> 0]
    /\ unheard = [p \in Processes |-> 0]
    /\ count = [p \in Processes |-> 0]
    /\ outcome = "none"

\* Mutant: only an unknown process starts afresh, ndi is not compared.
IsNew_NoNdi(p, ndi) == procs[p] = Absent

IsNew(p, ndi) == procs[p] = Absent \/ procs[p].ndi # ndi

Entry(ndi, parts, size, rv, n) ==
    [ndi |-> ndi, parts |-> parts, size |-> size, rv |-> rv, tx_count |-> n]

\* Mutant: the first transmission is not counted.
Replace_NoCount(p, b, rv) ==
    /\ IsNew(p, Ndi(b))
    /\ procs' = [procs EXCEPT ![p] = Entry(Ndi(b), {b}, SizeOf(b), rv, 0)]
    /\ outcome' = "replaced"

\* upsert replaces the entry for a new process or another ndi ...
Replace(p, b, rv) ==
    /\ IsNew(p, Ndi(b))
    /\ procs' = [procs EXCEPT ![p] = Entry(Ndi(b), {b}, SizeOf(b), rv, 1)]
    /\ outcome' = "replaced"

Added(e, b, rv) == Entry(e.ndi, e.parts \cup {b}, e.size, rv, e.tx_count + 1)

\* Mutant: whatever is there is added to, the lengths are not compared.
Combine_AnySize(p, b, rv) ==
    /\ ~IsNew(p, Ndi(b))
    /\ procs[p].tx_count < MaxTx
    /\ procs' = [procs EXCEPT ![p] = Added(@, b, rv)]
    /\ outcome' = "combined"

\* ... adds the LLRs to those of the same ndi ...
Combine(p, b, rv) ==
    /\ ~IsNew(p, Ndi(b))
    /\ procs[p].size = SizeOf(b)
    /\ procs[p].tx_count < MaxTx
    /\ procs' = [procs EXCEPT ![p] = Added(@, b, rv)]
    /\ outcome' = "combined"

\* ... and throws, having changed nothing, when their numbers differ.
Mismatch(p, b, rv) ==
    /\ ~IsNew(p, Ndi(b))
    /\ procs[p].size # SizeOf(b)
    /\ outcome' = "thrown"
    /\ UNCHANGED procs

upsert(p, b, rv) == Replace(p, b, rv) \/ Combine(p, b, rv) \/ Mismatch(p, b, rv)

\* A transmission of block b reaches the receiver: the present block, or one of
\* the link.lateness blocks before it.
Deliver(p, b, rv) ==
    /\ b <= block[p] /\ block[p] - b <= link.lateness
    /\ b = block[p] => count[p] < MaxTx
    /\ upsert(p, b, rv)
    /\ unheard' = [unheard EXCEPT ![p] = 0]
    /\ count' = [count EXCEPT ![p] = IF b = block[p] THEN @ + 1 ELSE @]
    /\ UNCHANGED <<link, block>>

\* The sender goes on to its next block, heard or not.
NewBlock(p) ==
    /\ block[p] < MaxBlock
    /\ unheard[p] <= link.unheard
    /\ block' = [block EXCEPT ![p] = @ + 1]
    /\ unheard' = [unheard EXCEPT ![p] = @ + 1]
    /\ count' = [count EXCEPT ![p] = 0]
    /\ UNCHANGED <<link, procs, outcome>>

clear(p) ==
    /\ procs' = [procs EXCEPT ![p] = Absent]
    /\ count' = [count EXCEPT ![p] = 0]
    /\ UNCHANGED <<link, block, unheard, outcome>>

Next == \E p \in Processes :
    \/ \E b \in Blocks, rv \in Rvs : Deliver(p, b, rv)
    \/ NewBlock(p)
    \/ clear(p)

Spec == Init /\ [][Next]_vars

-----------------------------------------------------------------------------

TypeOK ==
    /\ link \in Links
    /\ procs \in [Processes -> HarqProcess \cup {Absent}]
    /\ block \in [Processes -> Blocks]
    /\ unheard \in [Processes -> Nat]
    /\ count \in [Processes -> Nat]
    /\ outcome \in {"none", "replaced", "combined", "thrown"}

Known(p) == procs[p] # Absent

\* An indicator is wide enough when it does not come round within the blocks that
\* can be lost in a row and the delay of the link.
WideEnough == link.unheard + link.lateness + 1 < link.ndi_mod

\* With an indicator wide enough, a soft buffer holds LLRs of one transport block,
\* although upsert tells blocks apart by ndi alone (harq.cpp:8).
OneBlock ==
    WideEnough => \A p \in Processes : Known(p) => \E b \in Blocks : procs[p].parts = {b}

\* And no upsert throws: equal ndi means equal block, and so equal length
\* (harq.cpp:18).
NeverThrows == WideEnough => outcome # "thrown"

\* On every link, however blocks are mixed, only LLRs of one length are ever added,
\* and the entry keeps that length: the throw comes before any assignment
\* (harq.cpp:18-21).
SizesAgree ==
    \A p \in Processes : Known(p) => \A b \in procs[p].parts : SizeOf(b) = procs[p].size

\* On a link that keeps the order, with an indicator wide enough, the buffer of the
\* sender's present block has taken every transmission of it that was delivered
\* (harq.cpp:14, 21).
EveryDeliveryCounts ==
    WideEnough /\ link.lateness = 0 =>
        \A p \in Processes :
            Known(p) /\ block[p] \in procs[p].parts => procs[p].tx_count = count[p]

=============================================================================
