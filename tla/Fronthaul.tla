------------------------------ MODULE Fronthaul ------------------------------
(***************************************************************************)
(* FronthaulEmulator of src/fronthaul.cpp: apply_impairments loses,         *)
(* corrupts, swaps and rotates the packets of a batch, and every call seeds *)
(* its generator anew.                                                      *)
(*                                                                         *)
(* A packet is its position in the batch: metadata, samples and raw bytes   *)
(* travel with it. The generator is a stream of numbers below Levels; a     *)
(* probability p stands for p / Levels, so that a draw u succeeds when      *)
(* u < p, always for Levels and never for 0.                                *)
(***************************************************************************)
EXTENDS Integers, Sequences, FiniteSets

CONSTANTS
    Levels,       \* values a draw can have
    Impairments,  \* settings of an emulator, records in FhImpairments
    Streams,      \* what a seed makes of the generator, one number per draw
    Period,       \* bound: draws until a stream starts again
    Batches,      \* batches of packets, records in Batch
    MaxCalls      \* bound: calls on one emulator

Probability == 0 .. Levels

FhImpairments == [loss_prob : Probability, reorder_prob : Probability,
                  delay_packets : Int, corrupt_prob : Probability]

\* The number of packets, and those made from no samples.
Batch == {b \in [size : Nat, empty : SUBSET Nat] : b.empty \subseteq 1 .. b.size}

ASSUME FronthaulAssumption ==
    /\ Levels \in Nat /\ Period \in Nat \ {0} /\ MaxCalls \in Nat
    /\ \A m \in Impairments : m \in FhImpairments
    /\ \A s \in Streams : s \in [0 .. Period - 1 -> 0 .. Levels - 1]
    /\ \A b \in Batches : b.size \in Nat /\ b.empty \subseteq 1 .. b.size

VARIABLES
    imp_,   \* the settings
    stream, \* the generator their seed starts
    pc,     \* "idle", "loop", "swap" or "rotate"
    batch,  \* the argument
    i,      \* the packet the loop is at
    drawn,  \* draws since the call began
    out,    \* the result: positions in the batch
    lost,   \* history: the packets of this call not passed on,
    hit,    \* the corrupted ones,
    at,     \* and the draws before each packet
    past    \* history: what became of the batches of earlier calls

settings == <<imp_, stream>>
fates == <<lost, hit, at>>
vars == <<settings, pc, batch, i, drawn, out, fates, past>>

-----------------------------------------------------------------------------

Init ==
    /\ imp_ \in Impairments
    /\ stream \in Streams
    /\ pc = "idle"
    /\ batch = [size |-> 0, empty |-> {}]
    /\ i = 1
    /\ drawn = 0
    /\ out = <<>>
    /\ lost = {}
    /\ hit = {}
    /\ at = <<0>>
    /\ past = <<>>

\* U(rng) < p, for the draw after n others.
Success(n, p) == stream[n % Period] < p

\* Mutant: the generator is a member of the emulator and goes on.
Begin_KeepsRng(b) ==
    /\ pc = "idle" /\ Len(past) < MaxCalls
    /\ pc' = "loop"
    /\ batch' = b
    /\ i' = 1
    /\ out' = <<>>
    /\ lost' = {}
    /\ hit' = {}
    /\ at' = <<drawn>>
    /\ UNCHANGED <<settings, drawn, past>>

\* The caller has a batch of packets; the generator starts from the seed.
Begin(b) ==
    /\ pc = "idle" /\ Len(past) < MaxCalls
    /\ pc' = "loop"
    /\ batch' = b
    /\ i' = 1
    /\ drawn' = 0
    /\ out' = <<>>
    /\ lost' = {}
    /\ hit' = {}
    /\ at' = <<0>>
    /\ UNCHANGED <<settings, past>>

Visiting == pc = "loop" /\ i <= batch.size

Lose ==
    /\ Visiting
    /\ Success(drawn, imp_.loss_prob)
    /\ lost' = lost \cup {i}
    /\ drawn' = drawn + 1
    /\ at' = Append(at, drawn')
    /\ i' = i + 1
    /\ UNCHANGED <<settings, pc, batch, out, hit, past>>

\* The draw comes before the test for samples: an empty packet takes one too.
Corrupted == Success(drawn + 1, imp_.corrupt_prob) /\ i \notin batch.empty

\* Mutant: what is kept is put in front.
Kept_Front == <<i>> \o out

Kept == Append(out, i)

Keep ==
    /\ Visiting
    /\ ~Success(drawn, imp_.loss_prob)
    /\ hit' = IF Corrupted THEN hit \cup {i} ELSE hit
    /\ out' = Kept
    /\ drawn' = drawn + 2
    /\ at' = Append(at, drawn')
    /\ i' = i + 1
    /\ UNCHANGED <<settings, pc, batch, lost, past>>

LoopDone ==
    /\ pc = "loop" /\ i > batch.size
    /\ pc' = "swap"
    /\ UNCHANGED <<settings, batch, i, drawn, out, fates, past>>

Swaps ==
    imp_.reorder_prob > 0 /\ Len(out) >= 2 /\ Success(drawn, imp_.reorder_prob)

\* Reordering exchanges the first packet and the last.
Reorder ==
    /\ pc = "swap"
    /\ out' = IF Swaps THEN [out EXCEPT ![1] = out[Len(out)], ![Len(out)] = out[1]]
              ELSE out
    /\ pc' = "rotate"
    /\ UNCHANGED <<settings, batch, i, drawn, fates, past>>

\* Mutant: shifted without wrapping round.
Rotated_Shift(s, d) == [j \in 1 .. Len(s) |-> IF j + d <= Len(s) THEN s[j + d] ELSE s[j]]

\* std::rotate: element d (from 0) becomes the first.
Rotated(s, d) == [j \in 1 .. Len(s) |-> s[((j - 1 + d) % Len(s)) + 1]]

Fate == [size |-> batch.size, empty |-> batch.empty, lost |-> lost, hit |-> hit, at |-> at]

\* The delay rotates the batch to the left, and the call returns.
Return ==
    /\ pc = "rotate"
    /\ out' = IF imp_.delay_packets > 0 /\ out # <<>>
              THEN Rotated(out, imp_.delay_packets % Len(out)) ELSE out
    /\ pc' = "idle"
    /\ past' = Append(past, Fate)
    /\ UNCHANGED <<settings, batch, i, drawn, fates>>

Next ==
    \/ \E b \in Batches : Begin(b)
    \/ Lose
    \/ Keep
    \/ LoopDone
    \/ Reorder
    \/ Return

Spec == Init /\ [][Next]_vars

-----------------------------------------------------------------------------

Positions == 1 .. batch.size

FateType == [size : Nat, empty : SUBSET Nat, lost : SUBSET Nat, hit : SUBSET Nat,
             at : Seq(Nat)]

TypeOK ==
    /\ imp_ \in Impairments
    /\ stream \in Streams
    /\ pc \in {"idle", "loop", "swap", "rotate"}
    /\ batch.size \in Nat /\ batch.empty \subseteq Positions
    /\ i \in 1 .. batch.size + 1
    /\ drawn \in Nat
    /\ out \in Seq(Positions)
    /\ lost \subseteq Positions
    /\ hit \subseteq Positions
    /\ at \in Seq(Nat)
    /\ past \in Seq(FateType)

\* Losing, swapping and rotating neither drop a packet nor double one: what is
\* passed on, and what is lost, is the part of the batch the loop has seen, each
\* packet once (fronthaul.cpp:33-48).
Conserved ==
    /\ \A j, k \in DOMAIN out : out[j] = out[k] => j = k
    /\ \A p \in Positions : p < i <=> p \in lost \/ \E j \in DOMAIN out : out[j] = p
    /\ \A j \in DOMAIN out : out[j] \notin lost

Descents(s) == {j \in 1 .. Len(s) - 1 : s[j] > s[j + 1]}

\* A receiver sees the batch in ascending runs: one without impairments of the
\* order, two with the rotation, three with the swap (fronthaul.cpp:41-48).
FewRuns ==
    Cardinality(Descents(out)) <=
        IF imp_.reorder_prob > 0 THEN 2 ELSE IF imp_.delay_packets > 0 THEN 1 ELSE 0

\* The settings and the seed decide about a position of a batch: in whatever call,
\* the packet there is lost or not, corrupted or not (empty ones apart). An
\* experiment can be repeated ("Record JSON result with seed",
\* docs/lab/E2E_FAULT_INJECTION.md:9), and a retransmission in a call of its own
\* meets the fate of the first (fronthaul.cpp:29).
FateRepeats ==
    \A a, b \in 1 .. Len(past) :
        \A p \in 1 .. past[a].size :
            p <= past[b].size =>
                /\ p \in past[a].lost <=> p \in past[b].lost
                /\ p \notin past[a].empty \cup past[b].empty =>
                       (p \in past[a].hit <=> p \in past[b].hit)

=============================================================================
