---------------------------- MODULE FapiContract ----------------------------
(***************************************************************************)
(* What a MAC may rely on when it drives a FAPI-like session: a single      *)
(* slot counter that only a served data request advances and that no        *)
(* outage rewinds or skips, announced on every start and every service,     *)
(* and no service between a fault and the next start.                       *)
(***************************************************************************)
EXTENDS Integers

CONSTANT Cycle  \* slot numbers before the counter starts again, at least 1

VARIABLES
    phase,  \* "off", "ready", "live" or "fault"
    tick,   \* the slot the session is in
    told    \* what the last exchange told the MAC

vars == <<phase, tick, told>>

Announce(t) == <<"slot", t>>

Init ==
    /\ phase = "off"
    /\ tick = 0
    /\ told = <<"nothing">>

Reset ==
    /\ phase' = "off"
    /\ tick' = 0
    /\ UNCHANGED told

\* Any exchange may be refused, and a refusal ends the service.
Refuse ==
    /\ phase' = "fault"
    /\ told' = <<"refused">>
    /\ UNCHANGED tick

Prepare ==
    /\ phase' = "ready"
    /\ told' = <<"ready">>
    /\ UNCHANGED tick

Open ==
    /\ phase = "ready"
    /\ phase' = "live"
    /\ told' = Announce(tick)
    /\ UNCHANGED tick

Serve ==
    /\ phase = "live"
    /\ tick' = (tick + 1) % Cycle
    /\ told' = Announce(tick')
    /\ UNCHANGED phase

Next == Reset \/ Refuse \/ Prepare \/ Open \/ Serve

Spec == Init /\ [][Next]_vars

=============================================================================
