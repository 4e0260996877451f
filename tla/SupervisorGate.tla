--------------------------- MODULE SupervisorGate ---------------------------
(***************************************************************************)
(* scripts/supervisor_cpu_gate.sh, run after run on one checkout: an action *)
(* per command. Under set -e a run ends at any command that fails or when   *)
(* it is killed, and everything written so far stays: binaries, reports,    *)
(* the summary of an earlier run. Beside the gate sources are edited and    *)
(* committed; between runs, other targets of the Makefile build and write.  *)
(*                                                                         *)
(* A version of the sources is a number. A binary is the version it was     *)
(* built from. Of the reports only what the summary takes over is kept.     *)
(***************************************************************************)
EXTENDS Integers

CONSTANTS
    MaxVersion,  \* bound on the versions of the sources
    MaxRuns      \* bound on the runs of the gate

NONE == 0

VARIABLES
    tree,      \* the version in the working tree
    head,      \* the version of HEAD
    good,      \* the versions whose tests pass
    tools,     \* the commands nvcc and nvidia-smi are there
    gpu,       \* and nvidia-smi -L lists a GPU
    tests,     \* build/cpu/nr_bb_tests
    programs,  \* the four other binaries of build/cpu
    run,       \* runs begun
    command,   \* the command to come
    phy,       \* results/phy_independent/summary.json
    blocked,   \* results/blocked_gpu/BLOCKED_GPU.json
    summary,   \* results/supervisor/SUPERVISOR_CPU_GATE.json
    seen       \* history of this run: versions tested and run, and whether it began clean

machine == <<tools, gpu>>
sources == <<tree, head, good, machine>>
binaries == <<tests, programs>>
results == <<phy, blocked, summary>>
gateVars == <<sources, binaries, run, command, results, seen>>

Statuses == {"PASS", "PENDING", "FAIL"}
Phy(r, status) == [run |-> r, status |-> status]
Blocked(r, gate) == [run |-> r, gate |-> gate, status |-> IF gpu THEN "CUDA_HARDWARE_PRESENT" ELSE "BLOCKED_GPU"]
Unseen == [tested |-> NONE, ran |-> NONE, clean |-> FALSE]

\* Reports from elsewhere lie in the checkout, binaries do not.
GateInit ==
    /\ tree = 1 /\ head = 1 /\ good \in SUBSET {1}
    /\ tools \in BOOLEAN /\ gpu \in BOOLEAN /\ (gpu => tools)
    /\ tests = NONE /\ programs = NONE
    /\ run = 0 /\ command = "idle" /\ seen = Unseen
    /\ phy \in {Phy(0, status) : status \in Statuses} /\ blocked = Blocked(0, "gate4-gpu")
    /\ summary = [status |-> "NONE"]

-----------------------------------------------------------------------------
(* The gate.                                                               *)

\* Clean: the sources are committed, and no binary is of other sources.
BeginRun ==
    /\ command = "idle" /\ run < MaxRuns
    /\ run' = run + 1
    /\ command' = "claims"
    /\ seen' = [Unseen EXCEPT !.clean = tree = head /\ tests \in {NONE, tree}]
    /\ UNCHANGED <<sources, binaries, results>>

\* A command has failed, or somebody has stopped the run.
Stop == command # "idle" /\ command' = "idle" /\ UNCHANGED <<sources, binaries, run, results, seen>>

At(this, following) == command = this /\ command' = following /\ UNCHANGED <<sources, run>>

ValidateClaims == At("claims", "build") /\ UNCHANGED <<binaries, results, seen>>

Reuse == At("build", "ctest") /\ tests # NONE /\ UNCHANGED <<binaries, results, seen>>

\* All targets are built.
Build ==
    /\ At("build", "ctest") /\ tests = NONE
    /\ tests' = tree /\ programs' = tree
    /\ UNCHANGED <<results, seen>>

\* One target cannot be built, others have been.
BuildFails ==
    /\ At("build", "idle") /\ tests = NONE
    /\ tests' \in {tests, tree} /\ programs' \in {programs, tree}
    /\ UNCHANGED <<results, seen>>

\* Mutant: what ctest returns is ignored.
Ctest_Ignored ==
    /\ At("ctest", "targets")
    /\ seen' = [seen EXCEPT !.tested = tests]
    /\ UNCHANGED <<binaries, results>>

Ctest ==
    /\ At("ctest", "targets") /\ tests \in good
    /\ seen' = [seen EXCEPT !.tested = tests]
    /\ UNCHANGED <<binaries, results>>

\* The four targets named, and not the tests.
BuildTargets ==
    /\ At("targets", "programs")
    /\ programs' = tree
    /\ UNCHANGED <<tests, results, seen>>

RunPrograms ==
    /\ At("programs", "phy")
    /\ seen' = [seen EXCEPT !.ran = programs]
    /\ UNCHANGED <<binaries, results>>

\* The summary is written whatever the adapters said; FAIL then ends the run.
ValidatePhy ==
    \/ /\ At("phy", "cuda")
       /\ phy' \in {Phy(run, status) : status \in {"PASS", "PENDING"}}
       /\ UNCHANGED <<binaries, blocked, summary, seen>>
    \/ /\ At("phy", "idle")
       /\ phy' = Phy(run, "FAIL")
       /\ UNCHANGED <<binaries, blocked, summary, seen>>

\* A failure to write the report is ignored.
CudaEquivalence ==
    /\ At("cuda", "gate4")
    /\ blocked' \in {blocked, Blocked(run, "cuda-equivalence")}
    /\ UNCHANGED <<binaries, phy, summary, seen>>

\* With both commands the script builds in build/gpu and writes no such report, even
\* if no GPU is listed.
Gate4Gpu ==
    /\ At("gate4", "emit")
    /\ blocked' = IF tools THEN blocked ELSE Blocked(run, "gate4-gpu")
    /\ UNCHANGED <<binaries, phy, summary, seen>>

EmitBlocked ==
    /\ At("emit", "gate6")
    /\ blocked' = Blocked(run, "supervisor-cpu-gate")
    /\ UNCHANGED <<binaries, phy, summary, seen>>

Gate6Report == At("gate6", "summary") /\ UNCHANGED <<binaries, results, seen>>

Publish ==
    /\ At("summary", "idle")
    /\ summary' = [status |-> "CPU_PASS", commit |-> head, phy |-> phy, gpu |-> blocked, run |-> run, seen |-> seen]
    /\ UNCHANGED <<binaries, phy, blocked, seen>>

Gate ==
    \/ BeginRun \/ Stop \/ ValidateClaims \/ Reuse \/ Build \/ BuildFails \/ Ctest \/ BuildTargets
    \/ RunPrograms \/ ValidatePhy \/ CudaEquivalence \/ Gate4Gpu \/ EmitBlocked \/ Gate6Report
    \/ Publish

-----------------------------------------------------------------------------
(* Beside it.                                                              *)

Edit ==
    /\ tree < MaxVersion
    /\ tree' = tree + 1
    /\ good' \in {good, good \cup {tree'}}
    /\ seen' = [seen EXCEPT !.clean = FALSE]
    /\ UNCHANGED <<head, machine, binaries, run, command, results>>

Commit ==
    /\ head # tree
    /\ head' = tree
    /\ UNCHANGED <<tree, good, machine, binaries, run, command, results, seen>>

\* make bootstrap, or gate4_cpu.sh: it always builds.
Bootstrap ==
    /\ command = "idle"
    /\ tests' = tree /\ programs' = tree
    /\ UNCHANGED <<sources, run, command, results, seen>>

\* make validate-phy-independent and make gate4-gpu.
OtherTargets ==
    /\ command = "idle"
    /\ \/ phy' \in {Phy(0, status) : status \in Statuses} /\ UNCHANGED blocked
       \/ ~tools /\ blocked' = Blocked(0, "gate4-gpu") /\ UNCHANGED phy
    /\ UNCHANGED <<sources, binaries, run, command, summary, seen>>

GateNext == Gate \/ Edit \/ Commit \/ Bootstrap \/ OtherTargets

GateSpec == GateInit /\ [][GateNext]_gateVars

-----------------------------------------------------------------------------

TestsPassed == summary.seen.tested \in good

OwnEvidence ==
    /\ summary.phy.run = summary.run /\ summary.phy.status # "FAIL"
    /\ summary.gpu.run = summary.run /\ summary.gpu.gate = "supervisor-cpu-gate"

NamesTested ==
    summary.seen.clean => summary.seen.tested = summary.commit /\ summary.seen.ran = summary.commit

\* Whatever runs were stopped before it and whatever they left behind, a published
\* CPU_PASS rests on tests that passed and on reports of its own run; and if the run
\* began with committed sources and no binary of others, and nobody edited until it
\* ended, the commit it names is the one that was tested. Without the latter it may
\* name a commit no test of which was ever run: the gate reuses a test binary of any
\* age and asks for HEAD last (supervisor_cpu_gate.sh:3, 12-17, 19, 26-31, 33-72).
PassIsHonest == summary.status = "CPU_PASS" => TestsPassed /\ OwnEvidence /\ NamesTested

=============================================================================
