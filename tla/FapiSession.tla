----------------------------- MODULE FapiSession -----------------------------
(***************************************************************************)
(* The FAPI-like session of src/fapi.cpp: the state machine behind          *)
(* FapiSession::handle, its slot clock and the message it returns.          *)
(*                                                                         *)
(* handle is a synchronous call on one object, so a call is one step: the   *)
(* request is chosen from Requests, `reply` holds the returned message.     *)
(***************************************************************************)
EXTENDS Integers

CONSTANTS
    SlotsPerFrame,  \* slots before the frame number advances (20)
    FrameCycle,     \* frame numbers before they start again (1024)
    CountMod,       \* slot_count_ counts modulo this (2^32: it is a uint32_t)
    Versions,       \* version fields a caller puts in a message (uint16_t)
    Stamps,         \* <<sfn, slot>> pairs a caller puts in a message
    Payloads        \* payloads, the empty one included

ASSUME ClockAssumption ==
    /\ SlotsPerFrame \in Nat \ {0}
    /\ FrameCycle \in Nat \ {0}
    /\ CountMod \in Nat \ {0}

ASSUME MessageAssumption ==
    /\ Versions \subseteq Nat
    /\ Stamps \subseteq Nat \X Nat
    /\ Payloads # {}

FAPI_MSG_VERSION == 1

FapiState == {"Idle", "Configured", "Running", "Error"}

DataRequests == {"UL_TTI_REQ", "DL_TTI_REQ", "TX_DATA_REQ"}

\* The types only the session sends; receiving one is a direction error.
Outbound == {"CONFIG_RESP", "SLOT_IND", "RX_DATA_IND", "CRC_IND", "ERROR_IND"}

FapiMsgType == {"CONFIG_REQ", "START_REQ", "STOP_REQ"} \cup DataRequests \cup Outbound

\* `handle`, json_meta and the error text are copied or worded, never read.
FapiMessage == [version : Nat, type : FapiMsgType, sfn : Nat, slot : Nat,
                payload : Payloads, crc_ok : BOOLEAN]

Request(q) == [version |-> q[1], type |-> q[2], sfn |-> q[3][1], slot |-> q[3][2],
               payload |-> q[4], crc_ok |-> FALSE]

Requests == {Request(q) : q \in Versions \X FapiMsgType \X Stamps \X Payloads}

\* Before the first call nothing has been returned.
NoReply == [type |-> "NONE"]

VARIABLES
    state,       \* state_
    slot_count,  \* slot_count_
    sfn,         \* sfn_
    slot,        \* slot_
    reply        \* the message the last handle returned

sessionVars == <<state, slot_count, sfn, slot>>
vars == <<sessionVars, reply>>

-----------------------------------------------------------------------------

Init ==
    /\ state = "Idle"
    /\ slot_count = 0
    /\ sfn = 0
    /\ slot = 0
    /\ reply = NoReply

Reset ==
    /\ state' = "Idle"
    /\ slot_count' = 0
    /\ sfn' = 0
    /\ slot' = 0
    /\ UNCHANGED reply

VersionOK(m) == m.version \in {0, FAPI_MSG_VERSION}

\* Mutant: CONFIG_REQ does not look at the state.
Accepts_ConfigAnytime(m) ==
    /\ VersionOK(m)
    /\ \/ m.type = "CONFIG_REQ"
       \/ m.type = "START_REQ" /\ state = "Configured"
       \/ m.type = "STOP_REQ" /\ state \in {"Running", "Error"}
       \/ m.type \in DataRequests /\ state = "Running"

\* Mutant: CONFIG_REQ is no way out of Error.
Accepts_ErrorSticks(m) ==
    /\ VersionOK(m)
    /\ \/ m.type = "CONFIG_REQ" /\ state \in {"Idle", "Configured"}
       \/ m.type = "START_REQ" /\ state = "Configured"
       \/ m.type = "STOP_REQ" /\ state \in {"Running", "Error"}
       \/ m.type \in DataRequests /\ state = "Running"

\* What handle accepts in the present state; everything else goes to err().
Accepts(m) ==
    /\ VersionOK(m)
    /\ \/ m.type = "CONFIG_REQ" /\ state \in {"Idle", "Configured", "Error"}
       \/ m.type = "START_REQ" /\ state = "Configured"
       \/ m.type = "STOP_REQ" /\ state \in {"Running", "Error"}
       \/ m.type \in DataRequests /\ state = "Running"

\* Every reply starts as a copy of the request: `FapiMessage out = in`.
Answer(m, t) == [m EXCEPT !.type = t, !.version = FAPI_MSG_VERSION]

\* Mutant: the version check returns its error without leaving the state.
Reject_VersionKeepsState(m) ==
    /\ ~Accepts(m)
    /\ state' = IF VersionOK(m) THEN "Error" ELSE state
    /\ reply' = Answer(m, "ERROR_IND")
    /\ UNCHANGED <<slot_count, sfn, slot>>

Reject(m) ==
    /\ ~Accepts(m)
    /\ state' = "Error"
    /\ reply' = Answer(m, "ERROR_IND")
    /\ UNCHANGED <<slot_count, sfn, slot>>

\* Mutant: reconfiguration restarts the slot clock and not the count.
Configure_RestartsClock(m) ==
    /\ Accepts(m) /\ m.type = "CONFIG_REQ"
    /\ state' = "Configured"
    /\ sfn' = 0 /\ slot' = 0
    /\ reply' = Answer(m, "CONFIG_RESP")
    /\ UNCHANGED slot_count

Configure(m) ==
    /\ Accepts(m) /\ m.type = "CONFIG_REQ"
    /\ state' = "Configured"
    /\ reply' = Answer(m, "CONFIG_RESP")
    /\ UNCHANGED <<slot_count, sfn, slot>>

Start(m) ==
    /\ Accepts(m) /\ m.type = "START_REQ"
    /\ state' = "Running"
    /\ reply' = [Answer(m, "SLOT_IND") EXCEPT !.sfn = sfn, !.slot = slot]
    /\ UNCHANGED <<slot_count, sfn, slot>>

Stop(m) ==
    /\ Accepts(m) /\ m.type = "STOP_REQ"
    /\ state' = "Configured"
    /\ reply' = Answer(m, "CONFIG_RESP")
    /\ UNCHANGED <<slot_count, sfn, slot>>

DataReplyType(m) == IF m.type = "TX_DATA_REQ" THEN "CRC_IND" ELSE "SLOT_IND"

NextSlot == (slot + 1) % SlotsPerFrame

\* Mutant: the frame advances on the old slot number.
NextSfn_OldSlot == IF slot = 0 THEN (sfn + 1) % FrameCycle ELSE sfn

NextSfn == IF NextSlot = 0 THEN (sfn + 1) % FrameCycle ELSE sfn

Data(m) ==
    /\ Accepts(m) /\ m.type \in DataRequests
    /\ slot_count' = (slot_count + 1) % CountMod
    /\ slot' = NextSlot
    /\ sfn' = NextSfn
    /\ reply' = [Answer(m, DataReplyType(m)) EXCEPT
                    !.sfn = NextSfn, !.slot = NextSlot, !.crc_ok = TRUE]
    /\ UNCHANGED state

handle(m) == Reject(m) \/ Configure(m) \/ Start(m) \/ Stop(m) \/ Data(m)

Next ==
    \/ Reset
    \/ \E m \in Requests : handle(m)

Spec == Init /\ [][Next]_vars

-----------------------------------------------------------------------------

TypeOK ==
    /\ state \in FapiState
    /\ slot_count \in 0 .. CountMod - 1
    /\ sfn \in 0 .. FrameCycle - 1
    /\ slot \in 0 .. SlotsPerFrame - 1
    /\ reply \in FapiMessage \cup {NoReply}

\* The two-digit clock <<sfn_, slot_>> read as one number.
Tick == SlotsPerFrame * sfn + slot
Cycle == SlotsPerFrame * FrameCycle

=============================================================================
