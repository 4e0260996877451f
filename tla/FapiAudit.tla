------------------------------ MODULE FapiAudit ------------------------------
(***************************************************************************)
(* FapiSession watched by an observer that remembers what the session       *)
(* itself forgets: how many data requests were served since reset(), and    *)
(* whether an ERROR_IND was returned since the last accepted START_REQ.     *)
(* The safety properties of the session are stated over this history.       *)
(***************************************************************************)
EXTENDS FapiSession

CONSTANT MaxServed  \* bound: data requests served in one lifetime

ASSUME BoundAssumption == MaxServed \in Nat

VARIABLES
    served,     \* data requests served since the last reset()
    faulted,    \* an ERROR_IND since the last accepted START_REQ or reset()
    configured  \* a CONFIG_REQ was accepted since the last reset()

history == <<served, faulted, configured>>
auditVars == <<vars, history>>

AuditInit ==
    /\ Init
    /\ served = 0
    /\ faulted = FALSE
    /\ configured = FALSE

AuditReset ==
    /\ Reset
    /\ served' = 0
    /\ faulted' = FALSE
    /\ configured' = FALSE

\* A call of handle, and what the observer learns from the reply.
Observe(m) ==
    /\ Accepts(m) /\ m.type \in DataRequests => served < MaxServed
    /\ handle(m)
    /\ served' = IF reply'.crc_ok THEN served + 1 ELSE served
    /\ faulted' = (reply'.type = "ERROR_IND" \/ (faulted /\ m.type # "START_REQ"))
    /\ configured' = (configured \/ (m.type = "CONFIG_REQ" /\ reply'.type = "CONFIG_RESP"))

AuditNext ==
    \/ AuditReset
    \/ \E m \in Requests : Observe(m)

AuditSpec == AuditInit /\ [][AuditNext]_auditVars

-----------------------------------------------------------------------------

(***************************************************************************)
(* The session as the contract sees it.                                     *)
(***************************************************************************)

phaseOf == [Idle |-> "off", Configured |-> "ready", Running |-> "live", Error |-> "fault"]

toldBy(r) ==
    CASE r.type = "NONE" -> <<"nothing">>
      [] r.type = "ERROR_IND" -> <<"refused">>
      [] r.type = "CONFIG_RESP" -> <<"ready">>
      [] OTHER -> <<"slot", SlotsPerFrame * r.sfn + r.slot>>

Contract == INSTANCE FapiContract WITH
    Cycle <- Cycle, phase <- phaseOf[state], tick <- Tick, told <- toldBy(reply)

\* The session implements the contract: its two-digit clock is one counter, the
\* time on every SLOT_IND and CRC_IND is that counter's, and STOP, errors and a
\* new CONFIG_REQ neither rewind nor skip it (fapi.cpp:75-76, 90-95).
ContractSpec == Contract!Spec

\* slot_count_ and the <<sfn_, slot_>> clock are two readings of one number, the
\* served requests: they agree through STOP, errors and reconfiguration, each up
\* to its own wrap-around (fapi.cpp:89-91; only reset() clears them, 41-46).
ClocksAgree ==
    /\ \E w \in 0 .. served : served = w * CountMod + slot_count
    /\ \E c \in 0 .. served : served = c * Cycle + Tick

\* After any ERROR_IND no data request is served until a START_REQ is accepted
\* again: every error path leaves Running (err(), fapi.cpp:50-56).
NoServiceAfterFault == state = "Running" => ~faulted

\* A session serves TX_DATA_REQ only after CONFIG_REQ and then START_REQ were
\* accepted: "Validate CONFIG_REQ -> START_REQ -> TX_DATA_REQ ordering in
\* fixtures" (upstream/srsran/fapi_sequencing_validator.patch:4). The code lets a
\* refused message stand in for the CONFIG_REQ: Idle -> Error -> STOP_REQ.
RunsOnlyConfigured == state = "Running" => configured

=============================================================================
