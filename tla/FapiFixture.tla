----------------------------- MODULE FapiFixture -----------------------------
(***************************************************************************)
(* The JSONL fixture runner, fapi_run_fixture_lines, over one FapiSession:  *)
(* each line is parsed and handed to the session, rejections are counted,   *)
(* and the session keeps its state from one run to the next.                *)
(*                                                                         *)
(* A line is the pair of texts the parser looks at; the numeric keys sfn,   *)
(* slot and handle are parsed alike and the session only echoes them.       *)
(***************************************************************************)
EXTENDS FapiSession, Sequences, FiniteSets

CONSTANTS
    Scripts,     \* the fixtures, sequences of lines
    VersionMod,  \* the version is cast to uint16_t (2^16)
    NoKey,       \* the line has no such key, or an empty value
    Junk         \* a value parse_type or stoul does not take

Types == FapiMsgType \cup {NoKey, Junk}

Line == [type : Types, version : Nat \cup {NoKey, Junk}]

ASSUME FixtureAssumption ==
    /\ Scripts \subseteq Seq(Line)
    /\ VersionMod \in Nat \ {0}

VARIABLES
    busy,     \* a run is in progress
    script,   \* the lines of the present or the last run
    next,     \* the line the loop is at
    errors,   \* the runner's count
    outcome,  \* what became of each line so far
    entry     \* the session's state when the run began

runVars == <<busy, script, next, errors, outcome, entry>>
fixtureVars == <<vars, runVars>>

FixtureInit ==
    /\ Init
    /\ busy = FALSE
    /\ script = <<>>
    /\ next = 1
    /\ errors = 0
    /\ outcome = <<>>
    /\ entry = "Idle"

\* fapi_from_json_line throws: no known type, or a version stoul rejects.
Malformed(line) == line.type \notin FapiMsgType \/ line.version = Junk

\* static_cast<uint16_t>(std::stoul(s)); without the key the default stays.
VersionOf(line) ==
    IF line.version = NoKey THEN FAPI_MSG_VERSION ELSE line.version % VersionMod

Parsed(line) ==
    [version |-> VersionOf(line), type |-> line.type, sfn |-> 0, slot |-> 0,
     payload |-> CHOOSE p \in Payloads : TRUE, crc_ok |-> FALSE]

Begin(s) ==
    /\ ~busy
    /\ busy' = TRUE
    /\ script' = s
    /\ next' = 1
    /\ errors' = 0
    /\ outcome' = <<>>
    /\ entry' = state
    /\ UNCHANGED vars

Record(result) ==
    /\ outcome' = Append(outcome, result)
    /\ errors' = IF result = "served" THEN errors ELSE errors + 1
    /\ next' = next + 1
    /\ UNCHANGED <<busy, script, entry>>

\* Mutant: the catch arm goes round without taking the next line.
Throw_Retries ==
    /\ busy /\ next <= Len(script)
    /\ Malformed(script[next])
    /\ UNCHANGED fixtureVars

\* The catch (...) arm: counted, and the session never saw the line.
Throw ==
    /\ busy /\ next <= Len(script)
    /\ Malformed(script[next])
    /\ Record("thrown")
    /\ UNCHANGED vars

HandleLine ==
    /\ busy /\ next <= Len(script)
    /\ ~Malformed(script[next])
    /\ handle(Parsed(script[next]))
    /\ Record(IF reply'.type = "ERROR_IND" THEN "refused" ELSE "served")

Return ==
    /\ busy /\ next > Len(script)
    /\ busy' = FALSE
    /\ UNCHANGED <<vars, script, next, errors, outcome, entry>>

\* A caller may reset the session between runs.
ResetBetween ==
    /\ ~busy
    /\ Reset
    /\ UNCHANGED runVars

Loop == Throw \/ HandleLine \/ Return

FixtureNext ==
    \/ \E s \in Scripts : Begin(s)
    \/ Loop
    \/ ResetBetween

\* The runner is a plain for loop: while it is busy it keeps going.
FixtureSpec == FixtureInit /\ [][FixtureNext]_fixtureVars /\ WF_fixtureVars(Loop)

-----------------------------------------------------------------------------

Supported(line) == VersionOf(line) \in {0, FAPI_MSG_VERSION}

DataLine(line) == line.type \in DataRequests

\* CONFIG_REQ, START_REQ, data, and possibly a STOP_REQ to end with.
GoodScript(s) ==
    /\ Len(s) >= 2
    /\ \A i \in 1 .. Len(s) : ~Malformed(s[i]) /\ Supported(s[i])
    /\ s[1].type = "CONFIG_REQ" /\ s[2].type = "START_REQ"
    /\ \A i \in 3 .. Len(s) : DataLine(s[i]) \/ (s[i].type = "STOP_REQ" /\ i = Len(s))

RunReturned == ~busy /\ script # <<>>

\* The result of a run depends on the state an earlier run left behind: a good
\* script gives 0 from every state but Running, where its own CONFIG_REQ stops
\* the session and all its lines up to the STOP_REQ are refused.
GoodScriptVerdict ==
    RunReturned /\ GoodScript(script) =>
        errors = IF entry # "Running" THEN 0
                 ELSE Cardinality({i \in 1 .. Len(script) : script[i].type # "STOP_REQ"})

Recovers(line) == ~Malformed(line) /\ Supported(line) /\ line.type \in {"CONFIG_REQ", "STOP_REQ"}

\* One refused line takes the rest with it: nothing after it is served before a
\* CONFIG_REQ or STOP_REQ with a supported version comes by (fapi.cpp:50-56).
FaultCascades ==
    \A i, k \in 1 .. Len(outcome) :
        /\ i < k
        /\ outcome[i] = "refused"
        /\ \A j \in i + 1 .. k : ~Recovers(script[j])
        => outcome[k] # "served"

\* STOP_REQ and then CONFIG_REQ recover a session from every state, whatever the
\* lines before did to it: the STOP_REQ may be refused, the CONFIG_REQ is not.
AlwaysRecoverable ==
    \A i \in 2 .. Len(outcome) :
        /\ Recovers(script[i]) /\ script[i].type = "CONFIG_REQ"
        /\ Recovers(script[i - 1]) /\ script[i - 1].type = "STOP_REQ"
        => outcome[i] = "served"

\* The runner always returns to its caller.
RunReturns == busy ~> ~busy

=============================================================================
