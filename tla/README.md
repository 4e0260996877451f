# TLA+ verification of gunnchos-gpu-nr-baseband-platform

TLA+ models of the nr_bb library, from FAPI messages to the threads of its kernels, TLC runs that
check them on small instances, and TLAPS proofs for all values of the
constants. `PROJECT.json` lists components, runs, mutants, the lines each
definition models, findings, hazards and theorems.

## The system

nr_bb is a C++20 library of 5G-NR-like baseband blocks with tests, benchmarks,
CUDA kernels and shell gates that publish results. The library is sequential:
no threads, no locks, no asynchronous calls. What makes it hard is elsewhere:
objects that keep state between calls made in any order (the FAPI session, the
HARQ buffer), index arithmetic that two functions must do alike (rate matching
and dematching, segmentation and concatenation, CRC attach and check), integer
divisions and roundings at boundaries (lifting sizes, redundancy version
offsets, PRB shares), and steps of which a later one can throw.

| Component | State | Operations | What makes it correct |
|---|---|---|---|
| FAPI session (`fapi.cpp`) | `state_`, `slot_count_`, `sfn_`, `slot_` | `handle`, `reset` | no service before configuration and start, nor after an error; one slot clock |
| FAPI fixture runner (`fapi.cpp`) | error count; the session, across runs | `fapi_run_fixture_lines` | the count means what it says; a session can be recovered; it returns |
| HARQ buffer (`harq.cpp`) | `procs_`: ndi, soft bits, rv, count | `upsert`, `get`, `clear` | one transport block per buffer; lengths agree; nothing forgotten |
| Rate matching (`rate_matching.cpp`) | none (loop buffers) | `rate_match`, `rate_dematch` | the LLR of a bit is added to that bit, none is lost |
| Segmentation (`segmentation.cpp`) | none (loop state) | `segment_transport_block`, `concatenate_code_blocks` | a partition; plans the encoder accepts; block size bound |
| CRC (`crc.cpp`) | none (register) | `crc_attach`, `crc_check` | clean blocks pass, bursts do not |
| Scheduler (`scheduler.cpp`) | configuration | `schedule` | allocations tile the grid; the best are served |
| LDPC (`ldpc.cpp`) | none | encode, decode, syndrome, lifting | codewords satisfy all checks; what the checks can make good decodes to the information sent |
| Fronthaul emulator (`fronthaul.cpp`) | impairment settings | `make_u_plane`, `apply_impairments`, `loopback` | a batch out is a permutation of part of a batch in |
| Gate scripts (`scripts/`) | binaries, report files | `supervisor_cpu_gate.sh`, `gate4_gpu.sh`, ... | a published PASS rests on tests and reports of its own run, and belongs to the commit it names |
| FFT and OFDM (`fft.cpp`, `ofdm.cpp`) | none | `fft_radix2`, `ofdm_modulate`, `ofdm_demodulate` | the transform is the DFT; a symbol delayed within its prefix is the same symbol |
| Modulation, layers, scrambling (`modulation.cpp`, `layer_mapping.cpp`, `scrambling.cpp`) | none | both directions of each | bits survive; hard and soft demodulators agree |
| Estimation, equalizer, MIMO, channel, DMRS | none | `ls_channel_estimate`, `equalize_zf_tones`, `equalize_mmse_tones`, `equalize_sample`, `equalize_stream`, `mat_inv`, ... | the estimate follows the pilots; the equalizer's output solves its equations |
| CUDA kernels and references (`cuda/`, `cuda_cpu_ref.cpp`) | device buffers | launches and their mirrors | whatever the order of the threads, a kernel leaves what its reference returns |
| Educational code (`educational/`) | none | compact LDPC code, `naive_dft`, ... | codewords; the DFT as definition |
| Deadline monitor and metrics | none | percentile, misses | each against its definition |

How they interact: a transport block gets a CRC, is cut into code blocks, each
is encoded, rate-matched with a redundancy version, scrambled, modulated and
sent; the receiver dematches LLRs and gives them to the HARQ buffer under the
process and the new-data indicator of the transmission, decodes what has been
added up, and checks the CRC. The MAC drives this through FAPI messages and the
scheduler. The components call nothing of each other except that segmentation
calls the CRC and the lifting selection, HARQ calls `llr_combine`, the
encoder and decoder share a graph, and the estimators call OFDM: the
composition is in the tests and in the caller, so the models state what a
caller must provide. The order in which `PhyLink` calls the physical layer is
that of `docs/uml/current/sequence_pusch_slot.md`, with OFDM and antennas as
two paths.

## Modules

| Module | Models | Correspondence |
|---|---|---|
| `FapiSession` | `FapiSession` | one action per case of the switch of `handle` (`Configure`, `Start`, `Stop`, `Data`), one for all paths through `err()` (`Reject`), and `Reset`. A call is one step because nothing runs beside it. |
| `FapiContract` | what a MAC may rely on | abstract: one counter, four phases |
| `FapiAudit` | the session and an observer | history of served requests, faults and configuration; the refinement mapping to `FapiContract` |
| `FapiFixture` | `fapi_run_fixture_lines` over a session | `Begin`, then for each line `Throw` (the catch arm) or `HandleLine`, then `Return`; `ResetBetween` runs |
| `Harq` | `HarqBuffer` with a sender and a link | `upsert` is `Replace`, `Combine` or `Mismatch`; `clear`; the environment is `NewBlock` and `Deliver` |
| `RateMatching` | the index arithmetic of both directions | operators with the names of the code |
| `SoftCombining` | `rate_match`, `rate_dematch`, `llr_combine` and `upsert` of one process | `Receive`, a step `Accumulate` per LLR, `Unpack` (write-back), `Upsert`, `Clear` |
| `Lifting` | lifting sizes, their sets, base graph choice | operators with the names of the code; used by `Segmentation` and the LDPC modules |
| `Segmentation` | `segment_transport_block`, concatenation | `Begin` (early return and requirement), a step `PlanBlock` or `Throw` per code block, `Return` |
| `Crc` | `compute_crc`, `crc_attach`, `crc_check` | attach and check side by side, a step per bit; the link may flip each bit |
| `Scheduler` | `MacScheduler::schedule` | one action per loop: `Filter`, `Sort`, `Sum`, `Pack`, and the steps between them |
| `Fronthaul` | `FronthaulEmulator::apply_impairments`, call after call | `Begin` (seeds the generator), `Lose` or `Keep` for each packet, `LoopDone`, `Reorder`, `Return` (rotates and returns) |
| `LdpcTables` | `ldpc_bg_tables.hpp`, rows 0-3 of BG1 and 0-5 of BG2 | the edges and shifts as in the header; the code lifts no row from `mb_use` on, so a graph cut at these rows is the code's own |
| `LdpcGraph` | `make_graph` and what it refuses, `build_H`, `expand_edges`, the syndrome | a row of the matrix is the set of its columns, an edge a pair |
| `LdpcEncoder` | `ldpc_encode`, `encode_ge` | a step per column of the elimination (`Eliminate`), then the codeword |
| `LdpcDecoder` | `ldpc_decode` after an encoder and a link | a step per turn of the loop of `decode_minsum` |
| `CompactQc` | the educational compact code | the same steps over its own graph; `CodesSpec` runs both codes |
| `Complex` | exact numbers for the physical layer | rational combinations of the eighth roots of unity |
| `Scrambling`, `Ofdm`, `Modulation`, `ChannelEstimation`, `Mimo`, `Kernels` | the files of these names, DMRS and channel with them | operators with the names of the code |
| `PhyLink` | the whole chain over OFDM or over antennas, on the host or as launches | a step per stage, per pivot column of an inversion, per thread of a kernel; `DropsAll`, `WindowShort`, `SingularGram` are the ways it stops early |
| `SupervisorGate` | `scripts/supervisor_cpu_gate.sh`, with what it calls | an action per command; `Stop` is `set -e` or a kill at any of them, files stay; `Edit` and `Commit` go on beside it, `Bootstrap` and `OtherTargets` between runs |
| `*Proofs` | | the theorems about a component: `BlockProofs` about `Segmentation` and `Crc`, `HarnessProofs` about `Fronthaul` and `SupervisorGate`, the others about the module of that name and what it is composed of |
| `InductionFacts` | | the lemmas these share: induction over numbers and finite sets, sums over functions and sets |
| `MC*` | | instances for TLC |

Abstractions. FAPI: `handle`, JSON text and error wording are not modelled, a
fixture line is the type and version the parser sees. HARQ: a soft buffer is
the set of blocks added in it, with its length; the values themselves are in
`SoftCombining`. Soft bits: an LLR is an integer with the sign of its bit, so
the link is noiseless and a wrong sign means a wrong index. Segmentation: a bit
is its position. Fronthaul: a packet is its position in the batch, since all of it
moves together; a draw is a number below `Levels`, a probability a threshold, and
the generator a periodic stream of draws that the seed fixes. Scheduler: the composite metric is a number that comes with
the UE; a share is the floor of any number within one part in `Precision` of the exact one,
above or below, which is what rounding the sum, the quotient and the product can make of it. MCS and
the replay hash are functions of the allocation and left out. CRC: a register is a
function from bit numbers to bits.
LDPC: a word is the set of its ones; an LLR is an integer in units of
4^-max_iter, which the factor 0.75 of every turn divides evenly.

Physical layer: numbers are exact, so rounding, the thresholds of 1e-12 and 1e-14,
which are zero here, and the difference of float and double are left out. Symbols are in units of their
constellation's scale. Each LLR of `demodulate_llr` is in a positive unit of its
own, so that its sign counts; `qpsk_llr_kernel` and its reference keep theirs. Noise is one
disturbed sample. A carrier frequency offset is left out, an equalizer's type
is its regularisation, and the Gold sequence keeps its offset of 1600.

## Runs

| Run | Shows | Bounds and why they are enough |
|---|---|---|
| `fapi` | `ClocksAgree`, `NoServiceAfterFault`, refinement of `FapiContract` | 3 slots, 2 frames, a counter modulo 8, 20 served requests: both digits wrap, the counter wraps at another place, and both happen more than once |
| `fapi_configured` | violated: a session runs without CONFIG_REQ | as above |
| `fixture` | `GoodScriptVerdict`, `FaultCascades`, `AlwaysRecoverable`, `RunReturns` | all scripts of up to three of nine kinds of line and three longer ones, in any order; the clock has one slot because it has a run of its own |
| `gate` | `PassIsHonest` | three runs, so that one leaves something behind, one reuses it and one overwrites a summary; three versions of the sources, each good or bad; no commands for the GPU, commands without a GPU, and both |
| `soft` | `Aligned`, `SentIsRecovered`, `NothingLost`, `RvsDiffer` | six configurations: E above and below the buffer, derived and limited buffers, both base graphs, no lifting size; two transmissions with any two of four redundancy versions (one of them negative); 48 more for the offsets alone, with one LLR each, some with fewer cells than five lifted columns. No buffer has more cells than coded bits: there LLRs are lost, see below |
| `harq` | `OneBlock`, `NeverThrows` where the indicator is wide enough, `EveryDeliveryCounts` where the link also keeps the order, `SizesAgree` everywhere | three links: one-bit indicator in order; indicator of 4 with delay 1 and one lost block, the least width that is enough; the same link with one bit, where blocks do mix and `upsert` throws. Two processes, six blocks |
| `fronthaul` | `Conserved`, `FewRuns`, `FateRepeats` | ten settings (probabilities 0, a half and 1, delays none, negative, within, equal to and beyond the batch), all 512 streams of nine draws, the most a batch of four takes; two calls, which is what comparing calls needs |
| `scheduler` | `Tiling`, `StarvedAreLast`, `FairUnlessTiny`, `BestAreSelected` | vectors of up to four UEs, metrics 0, 1, 5 and filtered; grids from 1 to 50 blocks: fewer blocks than UEs, ties, even and uneven shares; `Precision` 60, the largest grid and a little: far coarser than a double, so that shares are rounded up as well as down |
| `crc` | `CleanPasses`, `BurstCaught` | all payloads up to seven bits, all bursts, polynomials of 1, 3, 4 and 6 bits |
| `segmentation` | `Partition`, `AllOrNothing`, `EncoderAccepts`, `RoundTrip` | every size up to 165 bits, and one below, at and above every limit in the code; eight values of K_cb, all flags, three rates; `MaxParts`: at most four times K_cb, so four blocks |
| `ldpc` | `EncodedIsCodeword`, `SolvesUnlessCut`, `SyndromesAgree`, `ReturnsSent` (with `NeverMisled`) | all eight lifting sets, zc 2, 3 and 5, every cut of the tables (1 to 4 and 1 to 6 rows), other numbers of information columns, every refusal; five codes go the whole way, two of them also with words longer than `info_bits`, with the punctured columns erased, any one soft value missing or any one weakly inverted, which is `Correctable` in each of them from the first turn on; the compact code beside them |
| `phy` | `KernelsMirror`, `BitsSurvive`, `DemodulatorsAgree`, `FftIsDft`, `FollowsPilots`, `EqualizerSolves` | transforms of 4 and 8 points, so two and three stages; prefixes 0 to 2 and delays from before the start to beyond the prefix, one that drops every sample; all four constellations; held and comb pilots, first, last and inner tones without one; channels of 1, 2 and 4 layers, square, tall, wide (singular), permuted (a pivot is sought) and zero; kernels in blocks of 3 threads, with a partial last block, in all orders |

`CHECK_DEADLOCK FALSE` is set in the runs of `Scheduler`, `Crc` and
`Segmentation`, which model one call, of `ldpc` and `phy`, which model one
code word and one link, and of `Fronthaul`, whose caller makes
`MaxCalls` of them: they end. The others never stop.

Fairness. Only the fixture runner has a liveness property. Its loop is a plain
`for` over a vector and nothing it calls blocks, so a run in progress goes on:
`WF(Loop)`. Starting runs and resetting carry no fairness.

## What the violated run shows

`RunsOnlyConfigured`: any refused message leads to Error, STOP_REQ from Error
to Configured (`fapi.cpp:78-84`), START_REQ and data follow. The upstream
validator (`upstream/srsran/fapi_sequencing_validator.patch:4`) asks for
CONFIG_REQ first.

What holds only within limits, and what else was met while modelling:

- `supervisor_cpu_gate.sh:11` takes whatever test binary is there, of any age: line 19
  rebuilds four other targets and not the tests. After an edit and a commit the gate
  runs the tests of the sources before and publishes CPU_PASS with the present HEAD.
  `docs/uml/current/state_validation_gate.md` calls the promotion fail-closed.
  Nor is HEAD asked for before the end (line 51): a commit made meanwhile is named too.
  `NamesTested` has the condition under which the name is true; without
  `seen.clean` it is false, so no property covers these two. Likewise a failing binary is reused after the fix, until `make
  bootstrap` or `gate4_cpu.sh` builds.
- `fapi.cpp:132` keeps 16 bits of the version: a fixture line with version 65537 is
  served as version 1, and `FapiFixture` does the same.
- `rate_matching.cpp:82` assigns instead of adding. With an `n_cb` beyond the
  coded bits a bit has two cells and loses the LLRs of one; the assumption
  `FittingBuffers` of `RecoveryTheorem` excludes such buffers.
- `segmentation.cpp:25` compares the size with the bound before the block CRC is
  added. With the default bound of 8448, a block of 16896 bits gives code blocks
  of 8472 bits, for which there is no lifting size, and segmentation throws
  (`AllOrNothing` covers that way out).
- The parity columns of a graph can be solved for unless `mb_use` cuts into the
  first four rows, or `kb` is not the base graph's own: `SolvesUnlessCut`.
  A `kb` above the default without `mb_use` is excluded by `ParamsAssumption`.
- `ldpc_encode` takes a word longer than `info_bits` and puts the rest where the fillers go; such words
  come out of the decoder again (in the `ldpc` run, two of the codes that go the whole way). With
  no `zc` and no `info_bits` encoding works, since the word sizes the graph,
  and decoding throws.
- `ldpc.hpp:11` calls the schedule layered; the code floods: a turn updates all
  variables, then all checks. `LdpcDecoder` follows the code.
- Kernels and library functions of like name differ: `qpsk_llr_kernel` gives
  the max-log value of `modulation.cpp` times the square root of 2; the kernel that
  equalizes a tone gives 0 on a zero channel where `equalize_zf_tones` throws; the
  launch of `qpsk_mod` drops an odd last bit where `modulate` throws; and
  `rate_match_kernel` is `rate_match` only under the default configuration.
  `KernelsMirror` compares kernels with the references beside them, which agree.

## Proofs

TLAPS checks these for all values of the constants under the named assumptions
of each module.

- **FAPI session** (`FapiProofs`). `ClocksAgree` is inductive with `TypeOK`; the witness
  counts of wraps advance with the clock. `FaultTheorem` needs that a session
  that is Running has seen an accepted START_REQ after the last error. The
  contract: the mapping takes `<<sfn, slot>>` to one number, and a served request
  to adding one modulo the cycle, by division with remainder.
- **FAPI fixture** (`FapiProofs`). `RunTyped` gives a result for each line before the
  next. The invariants say where these lines have left the session: in Error, if one was refused
  and none has recovered it since (`FaultInv`); and for a good script, `StateAfter` of the number of
  lines, with the errors counted so far (`GoodInv`). Nothing is asked of the scripts but that
  their lines are lines (`FixtureAssumption`, with a positive modulus for the version).
- **HARQ** (`HarqProofs`). `OneBlock` is not inductive: the invariant says how far
  the block in the buffer can be behind the sender, at most the blocks lost since
  plus the delay. With fewer of these in all than the indicator has values, equal
  indicators mean equal blocks. That is `WideEnough`, which the properties carry as
  a condition; on the narrow link of the run `OneBlock` is false without it.
  `SizesTheorem` assumes nothing of the link. For `EveryDeliveryTheorem` the entry of the
  present block counts its deliveries, and if there is no such entry there were none (`CountInv`).
- **Soft bits** (`SoftProofs`). Each cell only ever takes LLRs of the coded bit
  `Source` names, and the last cell written back to a bit is one of its own.
  `RecoveryTheorem` adds that cells visited by the loop are not zero, and needs
  buffers no longer than the coded bits (`FittingBuffers`), each bit having one cell at most.
  `LosslessTheorem`, under the same assumption: the magnitudes in the soft buffer, and in the stage a transmission is in,
  add up to what was received. An accumulation adds its magnitude, since it never argues
  against what is there (`AlignInv`); the write-back and the zeros around it keep the sum.
  `RvsTheorem`: the offsets are quotients of multiples of the buffer's length, so they come in order and within
  the buffer, however small; their differences are at least one column once five columns fit.
- **Fronthaul** (`HarnessProofs`). A rotation by less than the length and a swap
  are one-to-one, so the output holds the same packets, each once. For the fates:
  every call is lawful, which says that loss and corruption of a packet follow from
  the number of draws before it, and that number from the fate of the packet
  before; of two lawful calls, a least packet whose numbers of draws differ would
  need an earlier one. For `RunsTheorem`, the batch as a circle: ascending it falls at one place, where it
  closes; after a swap it falls at two places at most, the first and the last but one; a rotation
  keeps the circle, and cuts it open elsewhere.
- **Gate** (`HarnessProofs`). By command, what a run has established when it gets there
  (`ReportInv`, tests passed), and that a clean run finds one version of everything, which no
  other step has touched (`CleanInv`).
- **Scheduler** (`SchedulerProofs`). cursor + remaining = n_prb, and once a UE was
  granted nothing, nothing remains. `BestTheorem`: the filter keeps who passes, in order,
  and the sort orders them by `Better`, which needs that no UE is twice in the argument
  (`DistinctUes`), as a `ue_id` is its identity. `FairTheorem`: there are partial sums of the metrics, and
  those served so far hold no more than their part of the blocks and of the rounding, one part in `Precision`
  between them. What is left is then enough for the share of the next, because a grid has no more than
  `Precision` blocks.
- **CRC** (`BlockProofs`). The difference of the two registers, after taking out the
  shifting of the appended register, takes the same step as a register fed with
  the flipped bits alone. It is zero without flips. With a burst it is not: while
  fewer bits than the CRC have passed since the first flip, a one is among the
  low positions, and after that a zero feedback only shifts it up, one never lets
  the lowest bit be zero, since every polynomial ends in a one.
- **Segmentation** (`BlockProofs`). With C = ceil(B / K) and K' = ceil(B / C),
  (C - 1) K' < B <= C K': the refinement loop of the code never changes C, no
  block is empty, and offsets are multiples of K' until the last block. `EncoderTheorem` reads the
  plan off the selection of the lifting size; `RoundTripTheorem` is an induction over the blocks
  concatenated.
- **LDPC** (`LdpcProofs`). The invariant of the elimination: every solution of the
  rows as they stand satisfies the parity checks, and in the columns done there is a
  one on the diagonal only. After the last column the right-hand side is itself a
  solution, hence `EncodedTheorem`. `SyndromesTheorem`: the check by columns and the check by
  lifted edges count the same bits, since quotient and remainder by zc name the
  one edge between a check and a column of a block. `NeverMisledTheorem` is about a link that erases
  and inverts nothing: no message of any turn argues against the word sent (`DecoderInv`). A check that has
  only messages other than zero multiplies the signs of the bits of a word it is even on, which gives the
  sign of the bit left out; a variable adds up values none of which argues against its bit, and its own
  channel value argues for it unless it was erased. It needs that no check is a single edge (`Joined`, which the runs
  meet in every graph), the codeword of `EncodedTheorem` and the two views of a check of `SyndromesTheorem`.
  Positive units rest on `Power4`, a recursive function, which is proved to exist and to grow (`Power4Values`).
- **LDPC, what is returned** (`ReturnsSentTheorem`). Beyond the sign, a message has three quarters of the least magnitude beside it
  (`MessageSign`). Two kinds of damage are made good (`Correctable`). Erasures that *peel*: there are
  layers, as many as turns at most, so that each erased variable has a check whose other erased variables are in layers
  before. After `it` turns those of the layers up to `it` have an a posteriori value of the sign of their bit
  (`LayersTold`). Weak wrong bits *apart*, none in a check with another: the first turn gives each
  only messages that are for its bit, each at least as strong as 3 units against its own 1, and lets
  a variable beside wrong bits down by less than its channel value (`Answered`; five
  messages of 3/4 of a unit are less than 4 units, hence the five of `Scattered`). `TurnsInv` joins both with `DecoderInv`. The
  decoder may also stop before that: then all checks are even, and an even check whose other bits are as sent
  has the last one as sent too (`OddOneOut`), layer by layer (`EvenIsSent`) or beside the wrong bits
  (`UnaskedIsSent`).
- **LDPC, solving** (`SolvesTheorem`). `Regular`: only the empty set of columns has an even number in
  every row. A step of the elimination keeps it (`RegularStep`, from the lemmas of `EncodedTheorem` with
  zeros at the right), and a column without a pivot is a sum of columns before it (`NoPivot`), so a
  regular system is solved to the end. That a lifted table is regular needs `TablesAssumption`, which TLC
  evaluates on the rows of the runs and which holds of all rows of `ldpc_bg_tables.hpp`: the parity columns are made as
  `DualDiagonal` says. Rows 0 and 3, with one shift in the first column, and the diagonals make columns 1 to 3 agree; what is left of the
  row with three entries is a rotated copy of column 0, which must be empty. Then
  the other three are, and every later row has one column more (`CoreEmpty`, `ShapedEmpty`). A
  rotation reaches every place (`Rotated`), so this holds for every lifting size and set; with
  the mutant, which forgets the rotation, it does not.

Induction over data is done on sets: a set of numbers that holds 0 and with each number the next is all
of them (`NatFrom`, from the well-foundedness of < in the library), and a set of subsets closed under
adding the element a fold takes next holds the whole set (`SubsetInduction`). So the folds of the community
modules can be reasoned about, and with them sums (`SumIs`, `SetSumSign`); RECURSIVE operators cannot.

Type invariants are proved rather than run: the `*Typed` theorems and the typing part
of each inductive invariant.

Only model-checked:

- All properties of the physical layer (`KernelsMirror`, `BitsSurvive`, `DemodulatorsAgree`, `FftIsDft`,
  `FollowsPilots`, `EqualizerSolves`): `Complex`, `Scrambling` and the modules over them recurse, or work on
  bits with `Bitwise`, which the SMT backend cannot follow.
- `RunReturns`, liveness.

## Plan

Order of what follows, most important first:

1. The composition of `Fronthaul` with `Harq`: a batch of transmissions through the
   emulator and then through `upsert`, as an implementation of `Harq`'s link, whose
   `lateness` the blocks of a batch bound; and what `FateRepeats` does to a
   retransmission.
2. Proofs: the launches of `Kernels` as a module without recursion, in which the order of the threads
   can be proved not to matter; weak wrong bits together with erasures.

## Not modelled

- Reports of the gates that nothing reads again (gate 6, profiles, manifests), and the release scripts.
  Two gates at once on one checkout: the Makefile has no such use.
- Deadline monitor and metrics: an index into a sorted vector and a count, with
  no state; nothing about them takes more than a step.
- BER campaign, benchmarks, fuzzing, report writers: drivers around the library; what
  they call is modelled, what they print is output.
- `binary_pam` and `ldpc_short` of the educational code: one comparison, one small
  table.
- `harq_combine_kernel` and `scheduler_metric_kernel`: one assignment per thread, to
  the thread's own element, of a sum and of a real-valued quotient. `compare_f32`
  measures rounding, which is left out.
- Rounding everywhere, the conditioning of an inversion near the thresholds, carrier
  frequency offset, average energy of a constellation: TLC has no reals.
- Rows of the base graphs beyond the first: lifting them all takes no other
  path through the code, and TLC some thousand times longer.
