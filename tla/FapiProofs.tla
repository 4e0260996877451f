------------------------------ MODULE FapiProofs ------------------------------
(***************************************************************************)
(* Theorems about the FAPI session, for every frame length, frame cycle,    *)
(* counter width and set of requests: under an observer that sees every     *)
(* call (FapiAudit), and driven line by line by the fixture runner          *)
(* (FapiFixture), for every set of fixtures.                                *)
(***************************************************************************)
EXTENDS FapiAudit, FapiFixture, FiniteSetTheorems, TLAPS

\* A successor modulo M either counts on or starts again.
LEMMA ModSucc ==
    ASSUME NEW M \in Nat \ {0}, NEW x \in 0 .. M - 1
    PROVE  (x + 1) % M = IF x + 1 = M THEN 0 ELSE x + 1
  OBVIOUS

\* A request is a message the type invariant knows.
LEMMA RequestsTyped == Requests \subseteq FapiMessage
<1> SUFFICES ASSUME NEW m \in Requests PROVE m \in FapiMessage
  OBVIOUS
<1>1. PICK q \in Versions \X FapiMsgType \X Stamps \X Payloads : m = Request(q)
  BY DEF Requests
<1>2. q[1] \in Nat /\ q[2] \in FapiMsgType /\ q[3] \in Nat \X Nat /\ q[4] \in Payloads
  BY MessageAssumption
<1> QED
  BY <1>1, <1>2 DEF Request, FapiMessage

\* The clock of a served request stays inside its digits.
LEMMA ClockTyped ==
    ASSUME TypeOK
    PROVE  /\ NextSlot \in 0 .. SlotsPerFrame - 1
           /\ NextSfn \in 0 .. FrameCycle - 1
           /\ (slot_count + 1) % CountMod \in 0 .. CountMod - 1
  BY ClockAssumption, ModSucc DEF TypeOK, NextSlot, NextSfn

\* Every call keeps the session's types.
LEMMA HandleTyped ==
    ASSUME TypeOK, NEW m \in Requests, handle(m)
    PROVE  TypeOK'
<1> m \in FapiMessage /\ SlotsPerFrame - 1 \in Int /\ FrameCycle - 1 \in Int
  BY RequestsTyped, ClockAssumption
<1>1. CASE Reject(m)
  BY <1>1 DEF Reject, Answer, TypeOK, FapiState, FapiMessage, FapiMsgType, Outbound, FAPI_MSG_VERSION
<1>2. CASE Configure(m)
  BY <1>2 DEF Configure, Answer, TypeOK, FapiState, FapiMessage, FapiMsgType, Outbound, FAPI_MSG_VERSION
<1>3. CASE Start(m)
  <2>1. sfn \in Nat /\ slot \in Nat
    BY DEF TypeOK
  <2> QED
    BY <1>3, <2>1 DEF Start, Answer, TypeOK, FapiState, FapiMessage, FapiMsgType, Outbound, FAPI_MSG_VERSION
<1>4. CASE Stop(m)
  BY <1>4 DEF Stop, Answer, TypeOK, FapiState, FapiMessage, FapiMsgType, Outbound, FAPI_MSG_VERSION
<1>5. CASE Data(m)
  <2>1. NextSfn \in Nat /\ NextSlot \in Nat
    BY ClockTyped
  <2>2. reply' \in FapiMessage
    BY <1>5, <2>1 DEF Data, Answer, DataReplyType, FapiMessage, FapiMsgType, Outbound, FAPI_MSG_VERSION
  <2> QED
    BY <1>5, <2>2, ClockTyped DEF Data, TypeOK
<1> QED
  BY <1>1, <1>2, <1>3, <1>4, <1>5 DEF handle

\* reset() puts the session back into its initial state.
LEMMA ResetTyped ==
    ASSUME TypeOK, Reset
    PROVE  TypeOK'
  BY ClockAssumption DEF Reset, TypeOK, FapiState

LEMMA InitTyped == Init => TypeOK
  BY ClockAssumption DEF Init, TypeOK, FapiState

\* The session never leaves its types: the state machine has no fifth state and
\* the slot clock stays below its two bounds (fapi.cpp:41-107).
THEOREM SessionTyped == Spec => []TypeOK
<1>1. Init => TypeOK
  BY InitTyped
<1>2. TypeOK /\ [Next]_vars => TypeOK'
  <2> SUFFICES ASSUME TypeOK, [Next]_vars PROVE TypeOK'
    OBVIOUS
  <2>1. CASE Reset
    BY <2>1, ResetTyped
  <2>2. CASE \E m \in Requests : handle(m)
    BY <2>2, HandleTyped
  <2>3. CASE UNCHANGED vars
    BY <2>3 DEF vars, sessionVars, TypeOK
  <2> QED
    BY <2>1, <2>2, <2>3 DEF Next
<1> QED
  BY <1>1, <1>2, PTL DEF Spec

-----------------------------------------------------------------------------

(***************************************************************************)
(* The two clocks.                                                          *)
(***************************************************************************)

\* Multiplication by a natural number preserves order.
LEMMA MulMono ==
    ASSUME NEW a \in Nat, NEW b \in Nat, NEW c \in Nat, a <= b
    PROVE  c * a <= c * b
  OBVIOUS

\* The two-digit clock is a number below the cycle, and zero when both digits are.
LEMMA TickRange ==
    ASSUME TypeOK
    PROVE  /\ Cycle \in Nat \ {0}
           /\ Tick \in 0 .. Cycle - 1
<1>1. /\ SlotsPerFrame \in Nat \ {0} /\ FrameCycle \in Nat \ {0}
      /\ sfn \in 0 .. FrameCycle - 1 /\ slot \in 0 .. SlotsPerFrame - 1
  BY ClockAssumption DEF TypeOK
<1>2. SlotsPerFrame * (sfn + 1) <= SlotsPerFrame * FrameCycle
  BY <1>1, MulMono
<1>3. SlotsPerFrame * (sfn + 1) = SlotsPerFrame * sfn + SlotsPerFrame
  BY <1>1
<1>4. SlotsPerFrame * FrameCycle \in Nat /\ SlotsPerFrame * sfn \in Nat
  BY <1>1
<1> QED
  BY <1>1, <1>2, <1>3, <1>4 DEF Cycle, Tick

\* Serving a request carries from the slot digit to the frame digit exactly as
\* one counter modulo the cycle would (fapi.cpp:90-91).
LEMMA TickSucc ==
    ASSUME TypeOK
    PROVE  SlotsPerFrame * NextSfn + NextSlot = (Tick + 1) % Cycle
<1>1. /\ SlotsPerFrame \in Nat \ {0} /\ FrameCycle \in Nat \ {0}
      /\ sfn \in 0 .. FrameCycle - 1 /\ slot \in 0 .. SlotsPerFrame - 1
  BY ClockAssumption DEF TypeOK
<1>2. (Tick + 1) % Cycle = IF Tick + 1 = Cycle THEN 0 ELSE Tick + 1
  BY TickRange, ModSucc
<1>3. CASE slot + 1 # SlotsPerFrame
  <2>1. NextSlot = slot + 1 /\ NextSfn = sfn
    BY <1>1, <1>3, ModSucc DEF NextSlot, NextSfn
  <2>2. SlotsPerFrame * (sfn + 1) <= SlotsPerFrame * FrameCycle
    BY <1>1, MulMono
  <2>3. SlotsPerFrame * (sfn + 1) = SlotsPerFrame * sfn + SlotsPerFrame
    BY <1>1
  <2>4. SlotsPerFrame * FrameCycle \in Nat /\ SlotsPerFrame * sfn \in Nat
    BY <1>1
  <2>5. Tick + 1 < Cycle
    BY <1>1, <1>3, <2>2, <2>3, <2>4 DEF Tick, Cycle
  <2> QED
    BY <1>1, <1>2, <2>1, <2>4, <2>5 DEF Tick, Cycle
<1>4. CASE slot + 1 = SlotsPerFrame
  <2>1. NextSlot = 0 /\ NextSfn = IF sfn + 1 = FrameCycle THEN 0 ELSE sfn + 1
    BY <1>1, <1>4, ModSucc DEF NextSlot, NextSfn
  <2>2. SlotsPerFrame * (sfn + 1) = SlotsPerFrame * sfn + SlotsPerFrame
    BY <1>1
  <2>3. Tick + 1 = SlotsPerFrame * (sfn + 1)
    BY <1>1, <1>4, <2>2 DEF Tick
  <2>4. CASE sfn + 1 = FrameCycle
    BY <1>1, <1>2, <2>1, <2>3, <2>4 DEF Cycle
  <2>5. CASE sfn + 1 # FrameCycle
    <3>1. SlotsPerFrame * (sfn + 2) <= SlotsPerFrame * FrameCycle
      BY <1>1, <2>5, MulMono
    <3>2. SlotsPerFrame * (sfn + 2) = SlotsPerFrame * (sfn + 1) + SlotsPerFrame
      BY <1>1
    <3>3. SlotsPerFrame * FrameCycle \in Nat /\ SlotsPerFrame * (sfn + 1) \in Nat
      BY <1>1
    <3>4. Tick + 1 # Cycle
      BY <1>1, <2>3, <3>1, <3>2, <3>3 DEF Cycle
    <3> QED
      BY <1>2, <2>1, <2>3, <2>5, <3>3, <3>4
  <2> QED
    BY <2>4, <2>5
<1> QED
  BY <1>3, <1>4

-----------------------------------------------------------------------------

(***************************************************************************)
(* The audited session.                                                     *)
(***************************************************************************)

AuditInv ==
    /\ TypeOK
    /\ served \in Nat
    /\ ClocksAgree
    /\ NoServiceAfterFault

\* A number written as quotient and remainder goes on to its successor.
LEMMA QuotientSucc ==
    ASSUME NEW M \in Nat \ {0}, NEW n \in Nat, NEW x \in 0 .. M - 1,
           NEW q \in 0 .. n, n = q * M + x
    PROVE  \E r \in 0 .. n + 1 : n + 1 = r * M + ((x + 1) % M)
<1>1. (x + 1) % M = IF x + 1 = M THEN 0 ELSE x + 1
  BY ModSucc
<1>2. CASE x + 1 = M
  <2>1. (q + 1) * M = q * M + M
    OBVIOUS
  <2>2. n + 1 = (q + 1) * M + 0
    BY <1>2, <2>1
  <2>3. (x + 1) % M = 0 /\ q + 1 \in 0 .. n + 1
    BY <1>1, <1>2
  <2>4. n + 1 = (q + 1) * M + ((x + 1) % M)
    BY <2>2, <2>3
  <2> QED
    BY <2>3, <2>4
<1>3. CASE x + 1 # M
  <2>1. n + 1 = q * M + (x + 1) /\ q \in 0 .. n + 1
    OBVIOUS
  <2> QED
    BY <1>1, <1>3, <2>1
<1> QED
  BY <1>2, <1>3

LEMMA AuditInitInv == AuditInit => AuditInv
<1> SUFFICES ASSUME AuditInit PROVE AuditInv
  OBVIOUS
<1>1. TypeOK /\ served = 0 /\ slot_count = 0 /\ state = "Idle"
  BY InitTyped DEF AuditInit, Init
<1>2. Tick = 0
  BY ClockAssumption DEF AuditInit, Init, Tick
<1>3. 0 = 0 * CountMod + 0 /\ 0 = 0 * Cycle + 0
  BY <1>1, ClockAssumption, TickRange
<1>4. ClocksAgree
  BY <1>1, <1>2, <1>3 DEF ClocksAgree
<1> QED
  BY <1>1, <1>4 DEF AuditInv, NoServiceAfterFault

LEMMA ObserveInv ==
    ASSUME AuditInv, NEW m \in Requests, Observe(m)
    PROVE  AuditInv'
<1>1. TypeOK /\ served \in Nat /\ TypeOK' /\ m \in FapiMessage /\ m.crc_ok = FALSE
  BY HandleTyped, RequestsTyped DEF AuditInv, Observe, Requests, Request
<1>2. CASE Data(m)
  <2>1. reply'.crc_ok = TRUE /\ reply'.type # "ERROR_IND" /\ m.type # "START_REQ"
    BY <1>1, <1>2 DEF Data, Answer, DataReplyType, DataRequests, FapiMessage
  <2>2. served' = served + 1 /\ (faulted' <=> faulted) /\ state' = state
    BY <1>2, <2>1 DEF Observe, Data
  <2>3. Tick' = (Tick + 1) % Cycle
    BY <1>1, <1>2, TickSucc DEF Data, Tick
  <2>4. slot_count' = (slot_count + 1) % CountMod
    BY <1>2 DEF Data
  <2>5. \E w \in 0 .. served + 1 : served + 1 = w * CountMod + slot_count'
    <3>1. PICK w \in 0 .. served : served = w * CountMod + slot_count
      BY DEF AuditInv, ClocksAgree
    <3>2. CountMod \in Nat \ {0} /\ slot_count \in 0 .. CountMod - 1
      BY <1>1, ClockAssumption DEF TypeOK
    <3> QED
      BY <1>1, <2>4, <3>1, <3>2, QuotientSucc
  <2>6. \E c \in 0 .. served + 1 : served + 1 = c * Cycle + Tick'
    <3>1. PICK c \in 0 .. served : served = c * Cycle + Tick
      BY DEF AuditInv, ClocksAgree
    <3>2. Cycle \in Nat \ {0} /\ Tick \in 0 .. Cycle - 1
      BY <1>1, TickRange
    <3> QED
      BY <1>1, <2>3, <3>1, <3>2, QuotientSucc
  <2>7. ClocksAgree'
    BY <2>2, <2>5, <2>6 DEF ClocksAgree, Cycle
  <2>8. NoServiceAfterFault'
    BY <2>2 DEF AuditInv, NoServiceAfterFault
  <2> QED
    BY <1>1, <2>2, <2>7, <2>8 DEF AuditInv
<1>3. CASE ~Data(m)
  <2>1. Reject(m) \/ Configure(m) \/ Start(m) \/ Stop(m)
    BY <1>3 DEF Observe, handle
  <2>2. reply'.crc_ok = FALSE /\ UNCHANGED <<slot_count, sfn, slot>>
    BY <1>1, <2>1 DEF Reject, Configure, Start, Stop, Answer, FapiMessage
  <2>3. served' = served /\ Tick' = Tick
    BY <2>2 DEF Observe, Tick
  <2>4. ClocksAgree'
    BY <2>2, <2>3 DEF AuditInv, ClocksAgree, Cycle
  <2>5. NoServiceAfterFault'
    <3>1. CASE Reject(m)
      BY <3>1 DEF Reject, NoServiceAfterFault
    <3>2. CASE Configure(m)
      BY <3>2 DEF Configure, NoServiceAfterFault
    <3>3. CASE Stop(m)
      BY <3>3 DEF Stop, NoServiceAfterFault
    <3>4. CASE Start(m)
      BY <1>1, <3>4 DEF Start, Answer, Observe, NoServiceAfterFault, FapiMessage
    <3> QED
      BY <2>1, <3>1, <3>2, <3>3, <3>4
  <2> QED
    BY <1>1, <2>3, <2>4, <2>5 DEF AuditInv
<1> QED
  BY <1>2, <1>3

LEMMA AuditStep == AuditInv /\ [AuditNext]_auditVars => AuditInv'
<1> SUFFICES ASSUME AuditInv, [AuditNext]_auditVars PROVE AuditInv'
  OBVIOUS
<1>1. CASE AuditReset
  <2>1. TypeOK'
    BY <1>1, ResetTyped DEF AuditReset, AuditInv
  <2>2. state' = "Idle" /\ slot_count' = 0 /\ sfn' = 0 /\ slot' = 0 /\ served' = 0
    BY <1>1 DEF AuditReset, Reset
  <2>3. Tick' = 0 /\ Cycle \in Nat
    BY <2>2, ClockAssumption DEF Tick, Cycle
  <2>4. 0 = 0 * CountMod + 0 /\ 0 = 0 * Cycle + 0
    BY <2>3, ClockAssumption
  <2>5. ClocksAgree'
    BY <2>2, <2>3, <2>4 DEF ClocksAgree, Cycle
  <2> QED
    BY <2>1, <2>2, <2>5 DEF AuditInv, NoServiceAfterFault
<1>2. CASE \E m \in Requests : Observe(m)
  BY <1>2, ObserveInv
<1>3. CASE UNCHANGED auditVars
  BY <1>3 DEF auditVars, history, vars, sessionVars, AuditInv, TypeOK, ClocksAgree,
              NoServiceAfterFault, Tick, Cycle
<1> QED
  BY <1>1, <1>2, <1>3 DEF AuditNext

LEMMA AuditInvariant == AuditSpec => []AuditInv
<1> QED
  BY AuditInitInv, AuditStep, PTL DEF AuditSpec

\* slot_count_ and <<sfn_, slot_>> read one number, the requests served since
\* reset(), each modulo its own width, through every outage (fapi.cpp:89-91).
THEOREM ClocksTheorem == AuditSpec => []ClocksAgree
<1>1. AuditInv => ClocksAgree
  BY DEF AuditInv
<1> QED
  BY <1>1, AuditInvariant, PTL

\* No data request is served between an ERROR_IND and the next accepted
\* START_REQ (fapi.cpp:50-56, 70-77, 88).
THEOREM FaultTheorem == AuditSpec => []NoServiceAfterFault
<1>1. AuditInv => NoServiceAfterFault
  BY DEF AuditInv
<1> QED
  BY <1>1, AuditInvariant, PTL

-----------------------------------------------------------------------------

(***************************************************************************)
(* The refinement.                                                          *)
(***************************************************************************)

LEMMA ContractInit == AuditInit => Contract!Init
<1> SUFFICES ASSUME AuditInit PROVE Contract!Init
  OBVIOUS
<1>1. Tick = 0
  BY ClockAssumption DEF AuditInit, Init, Tick
<1>2. state = "Idle" /\ reply = NoReply
  BY DEF AuditInit, Init
<1> QED
  BY <1>1, <1>2 DEF Contract!Init, phaseOf, toldBy, NoReply

LEMMA ContractStep ==
    ASSUME AuditInv, [AuditNext]_auditVars
    PROVE  [Contract!Next]_Contract!vars
<1>t. TypeOK
  BY DEF AuditInv
<1>1. CASE AuditReset
  <2>1. state' = "Idle" /\ Tick' = 0 /\ reply' = reply
    BY <1>1, ClockAssumption DEF AuditReset, Reset, Tick
  <2> QED
    BY <2>1 DEF Contract!Next, Contract!Reset, phaseOf, toldBy
<1>2. ASSUME NEW m \in Requests, Observe(m)
      PROVE  Contract!Next
  <2>m. m \in FapiMessage
    BY RequestsTyped
  <2>1. CASE Reject(m)
    <3>1. state' = "Error" /\ reply'.type = "ERROR_IND" /\ Tick' = Tick
      BY <2>1, <2>m DEF Reject, Answer, FapiMessage, Tick
    <3> QED
      BY <3>1 DEF Contract!Next, Contract!Refuse, phaseOf, toldBy
  <2>2. CASE Configure(m) \/ Stop(m)
    <3>1. state' = "Configured" /\ reply'.type = "CONFIG_RESP" /\ Tick' = Tick
      BY <2>2, <2>m DEF Configure, Stop, Answer, FapiMessage, Tick
    <3> QED
      BY <3>1 DEF Contract!Next, Contract!Prepare, phaseOf, toldBy
  <2>3. CASE Start(m)
    <3>1. /\ state = "Configured" /\ state' = "Running"
          /\ reply'.type = "SLOT_IND" /\ reply'.sfn = sfn /\ reply'.slot = slot
          /\ Tick' = Tick
      BY <2>3, <2>m DEF Start, Accepts, Answer, FapiMessage, Tick, DataRequests
    <3>2. toldBy(reply)' = <<"slot", Tick>>
      BY <3>1 DEF toldBy, Tick
    <3> QED
      BY <3>1, <3>2 DEF Contract!Next, Contract!Open, Contract!Announce, phaseOf
  <2>4. CASE Data(m)
    <3>1. /\ state = "Running" /\ state' = state
          /\ reply'.type \in {"CRC_IND", "SLOT_IND"}
          /\ reply'.sfn = NextSfn /\ reply'.slot = NextSlot
      BY <2>4, <2>m DEF Data, Accepts, Answer, FapiMessage, DataReplyType, DataRequests
    <3>2. Tick' = (Tick + 1) % Cycle
      BY <1>t, <2>4, TickSucc DEF Data, Tick
    <3>3. toldBy(reply)' = <<"slot", (Tick + 1) % Cycle>>
      BY <1>t, <3>1, TickSucc DEF toldBy
    <3> QED
      BY <3>1, <3>2, <3>3 DEF Contract!Next, Contract!Serve, Contract!Announce, phaseOf
  <2> QED
    BY <1>2, <2>1, <2>2, <2>3, <2>4 DEF Observe, handle
<1>3. CASE UNCHANGED auditVars
  BY <1>3 DEF auditVars, vars, sessionVars, Contract!vars, Tick, toldBy
<1> QED
  BY <1>1, <1>2, <1>3 DEF AuditNext

\* The session implements the contract of one slot counter that no outage rewinds
\* or skips (fapi.cpp:41-107 against FapiContract).
THEOREM ContractTheorem == AuditSpec => ContractSpec
<1>1. AuditInit => Contract!Init
  BY ContractInit
<1>2. AuditInv /\ [AuditNext]_auditVars => [Contract!Next]_Contract!vars
  BY ContractStep
<1> QED
  BY <1>1, <1>2, AuditInvariant, PTL DEF AuditSpec, ContractSpec, Contract!Spec

-----------------------------------------------------------------------------

(***************************************************************************)
(* The fixture runner.                                                      *)
(***************************************************************************)

Results == {"served", "refused", "thrown"}

\* The types of a run, and how far it is: a result for each line before the next.
RunTyped ==
    /\ busy \in BOOLEAN /\ state \in FapiState /\ entry \in FapiState
    /\ script \in Seq(Line) /\ outcome \in Seq(Results)
    /\ next = Len(outcome) + 1 /\ Len(outcome) <= Len(script)
    /\ ~busy => Len(outcome) = Len(script)

\* What becomes of a line, and of the session by it.
LineResult(line, r) ==
    \/ r = "thrown" /\ Malformed(line) /\ state' = state
    \/ r = "refused" /\ ~Malformed(line) /\ ~Accepts(Parsed(line)) /\ state' = "Error"
    \/ /\ r = "served" /\ ~Malformed(line) /\ Accepts(Parsed(line))
       /\ state' = IF line.type \in {"CONFIG_REQ", "STOP_REQ"} THEN "Configured" ELSE "Running"

\* The session takes a line for what its version and its type are.
LEMMA AcceptsLine ==
    ASSUME NEW line
    PROVE  Accepts(Parsed(line)) <=>
              /\ Supported(line)
              /\ \/ line.type = "CONFIG_REQ" /\ state \in {"Idle", "Configured", "Error"}
                 \/ line.type = "START_REQ" /\ state = "Configured"
                 \/ line.type = "STOP_REQ" /\ state \in {"Running", "Error"}
                 \/ line.type \in DataRequests /\ state = "Running"
  BY DEF Accepts, Parsed, VersionOK, Supported

LEMMA LineOutcome ==
    ASSUME Throw \/ HandleLine
    PROVE  \E r \in Results : Record(r) /\ LineResult(script[next], r)
<1> DEFINE line == script[next]
<1>1. CASE Throw
  BY <1>1 DEF Throw, LineResult, Results, vars, sessionVars
<1>2. CASE HandleLine
  <2>1. /\ handle(Parsed(line)) /\ ~Malformed(line) /\ Parsed(line).type = line.type
        /\ Record(IF reply'.type = "ERROR_IND" THEN "refused" ELSE "served")
    BY <1>2 DEF HandleLine, Parsed
  <2>2. \A t : Answer(Parsed(line), t).type = t
    BY DEF Answer, Parsed
  <2>3. CASE Reject(Parsed(line))
    <3>1. reply'.type = "ERROR_IND" /\ LineResult(line, "refused")
      BY <2>1, <2>2, <2>3 DEF Reject, LineResult
    <3> QED
      BY <2>1, <3>1 DEF Results
  <2>4. CASE ~Reject(Parsed(line))
    <3>1. Configure(Parsed(line)) \/ Start(Parsed(line)) \/ Stop(Parsed(line)) \/ Data(Parsed(line))
      BY <2>1, <2>4 DEF handle
    <3>2. reply'.type \in {"CONFIG_RESP", "SLOT_IND", "CRC_IND"}
      BY <2>2, <3>1 DEF Configure, Start, Stop, Data, DataReplyType, Answer, Parsed
    <3>3. LineResult(line, "served")
      BY <2>1, <3>1 DEF Configure, Start, Stop, Data, LineResult, Accepts, DataRequests
    <3> QED
      BY <2>1, <3>2, <3>3 DEF Results
  <2> QED
    BY <2>3, <2>4
<1> QED
  BY <1>1, <1>2

\* The results recorded so far stay, one is added.
LEMMA Recorded ==
    ASSUME RunTyped, NEW r \in Results, Record(r)
    PROVE  /\ outcome' \in Seq(Results) /\ Len(outcome') = Len(outcome) + 1
           /\ Len(outcome) \in Nat
           /\ outcome'[Len(outcome) + 1] = r
           /\ \A k \in 1 .. Len(outcome) : outcome'[k] = outcome[k]
  BY DEF RunTyped, Record

LEMMA RunTypedStep ==
    ASSUME RunTyped, [FixtureNext]_fixtureVars
    PROVE  RunTyped'
<1>1. ASSUME NEW s \in Scripts, Begin(s) PROVE RunTyped'
  BY <1>1, FixtureAssumption DEF Begin, RunTyped, vars, sessionVars
<1>2. CASE Throw \/ HandleLine
  <2>1. PICK r \in Results : Record(r) /\ LineResult(script[next], r)
    BY <1>2, LineOutcome
  <2>2. busy /\ next <= Len(script)
    BY <1>2 DEF Throw, HandleLine
  <2>3. state' \in FapiState
    BY <2>1 DEF LineResult, RunTyped, FapiState
  <2>4. /\ busy' = busy /\ entry' = entry /\ script' = script /\ next' = next + 1
        /\ Len(script) \in Nat
    BY <2>1 DEF Record, RunTyped
  <2> QED
    BY <2>1, <2>2, <2>3, <2>4, Recorded DEF RunTyped
<1>3. CASE Return
  <2>1. Len(outcome) \in Nat /\ Len(script) \in Nat
    BY DEF RunTyped
  <2>2. Len(outcome) = Len(script)
    BY <1>3, <2>1 DEF Return, RunTyped
  <2>3. busy' = FALSE /\ UNCHANGED <<state, entry, script, outcome, next>>
    BY <1>3 DEF Return, vars, sessionVars
  <2> QED
    BY <2>2, <2>3 DEF RunTyped
<1>4. CASE ResetBetween
  BY <1>4 DEF ResetBetween, Reset, runVars, RunTyped, FapiState
<1>5. CASE UNCHANGED fixtureVars
  BY <1>5 DEF fixtureVars, runVars, vars, sessionVars, RunTyped
<1> QED
  BY <1>1, <1>2, <1>3, <1>4, <1>5 DEF FixtureNext, Loop

LEMMA RunTypedInit == FixtureInit => RunTyped
<1> SUFFICES ASSUME FixtureInit PROVE RunTyped
  OBVIOUS
<1>1. script = <<>> /\ outcome = <<>> /\ Len(<<>>) = 0 /\ next = 1
  BY DEF FixtureInit
<1>2. busy = FALSE /\ state = "Idle" /\ entry = "Idle"
  BY DEF FixtureInit, Init
<1>3. script \in Seq(Line) /\ outcome \in Seq(Results)
  BY <1>1
<1>4. busy \in BOOLEAN /\ state \in FapiState /\ entry \in FapiState
  BY <1>2 DEF FapiState
<1>5. /\ next = Len(outcome) + 1 /\ Len(outcome) <= Len(script)
      /\ Len(outcome) = Len(script)
  BY <1>1
<1> QED
  BY <1>3, <1>4, <1>5 DEF RunTyped

LEMMA RunTypedInvariant == FixtureSpec => []RunTyped
<1>1. RunTyped /\ [FixtureNext]_fixtureVars => RunTyped'
  BY RunTypedStep
<1> QED
  BY <1>1, RunTypedInit, PTL DEF FixtureSpec

-----------------------------------------------------------------------------

\* A refused line that nothing has recovered the session from has left it in Error;
\* a STOP_REQ with a supported version has not left it in Running.
FaultInv ==
    /\ FaultCascades
    /\ AlwaysRecoverable
    /\ busy =>
          /\ \A i \in 1 .. Len(outcome) :
                /\ outcome[i] = "refused"
                /\ \A j \in i + 1 .. Len(outcome) : ~Recovers(script[j])
                => state = "Error"
          /\ outcome # <<>> =>
                LET last == script[Len(outcome)]
                IN  Recovers(last) /\ last.type = "STOP_REQ" => state # "Running"

\* A line is served in Error only if it recovers the session.
LEMMA ErrorRefuses ==
    ASSUME NEW line, NEW r, LineResult(line, r), state = "Error", ~Recovers(line)
    PROVE  r # "served" /\ state' = "Error"
  BY AcceptsLine DEF LineResult, Recovers, DataRequests

LEMMA FaultLine ==
    ASSUME RunTyped, FaultInv, Throw \/ HandleLine
    PROVE  FaultInv'
<1> DEFINE n == Len(outcome)
           line == script[n + 1]
<1>1. PICK r \in Results : Record(r) /\ LineResult(line, r)
  BY LineOutcome DEF RunTyped
<1>2. /\ n \in Nat /\ Len(outcome') = n + 1 /\ outcome'[n + 1] = r
      /\ \A k \in 1 .. n : outcome'[k] = outcome[k]
      /\ script' = script /\ busy
  BY <1>1, Recorded DEF Record, Throw, HandleLine
<1>3. \A x : Recovers(x)' = Recovers(x)
  BY DEF Recovers, Malformed, Supported, VersionOf
<1>4. ASSUME NEW i \in 1 .. n + 1, outcome'[i] = "refused",
             \A j \in i + 1 .. n + 1 : ~Recovers(script[j])
      PROVE  state' = "Error" /\ (i < n + 1 => r # "served")
  <2>1. CASE i = n + 1
    BY <1>1, <1>2, <1>4, <2>1 DEF LineResult
  <2>2. CASE i < n + 1
    <3>1. i \in 1 .. n /\ n + 1 \in i + 1 .. n + 1 /\ i + 1 .. n \subseteq i + 1 .. n + 1
      BY <1>2, <2>2
    <3>2. state = "Error"
      BY <1>2, <1>4, <3>1 DEF FaultInv
    <3>3. ~Recovers(line)
      BY <1>4, <3>1
    <3> QED
      BY <1>1, <3>2, <3>3, ErrorRefuses
  <2> QED
    BY <1>2, <2>1, <2>2
<1>5. FaultCascades'
  <2> SUFFICES ASSUME NEW i \in 1 .. n + 1, NEW k \in 1 .. n + 1, i < k,
                      outcome'[i] = "refused",
                      \A j \in i + 1 .. k : ~Recovers(script[j])
               PROVE  outcome'[k] # "served"
    BY <1>2, <1>3 DEF FaultCascades
  <2>1. CASE k = n + 1
    BY <1>2, <1>4, <2>1
  <2>2. CASE k # n + 1
    <3>1. i \in 1 .. n /\ k \in 1 .. n
      BY <1>2, <2>2
    <3> QED
      BY <1>2, <3>1 DEF FaultInv, FaultCascades
  <2> QED
    BY <2>1, <2>2
<1>6. AlwaysRecoverable'
  <2> SUFFICES ASSUME NEW i \in 2 .. n + 1,
                      Recovers(script[i]), script[i].type = "CONFIG_REQ",
                      Recovers(script[i - 1]), script[i - 1].type = "STOP_REQ"
               PROVE  outcome'[i] = "served"
    BY <1>2, <1>3 DEF AlwaysRecoverable
  <2>1. CASE i = n + 1
    <3>1. outcome # <<>> /\ i - 1 = n
      BY <1>2, <2>1 DEF RunTyped
    <3>2. state # "Running"
      BY <1>2, <3>1 DEF FaultInv
    <3>3. Accepts(Parsed(line)) /\ ~Malformed(line)
      BY <2>1, <3>2, AcceptsLine DEF Recovers, RunTyped, FapiState
    <3> QED
      BY <1>1, <1>2, <2>1, <3>3 DEF LineResult
  <2>2. CASE i # n + 1
    <3>1. i \in 2 .. n /\ i \in 1 .. n
      BY <1>2, <2>2
    <3> QED
      BY <1>2, <3>1 DEF FaultInv, AlwaysRecoverable
  <2> QED
    BY <2>1, <2>2
<1>7. Recovers(line) /\ line.type = "STOP_REQ" => state' # "Running"
  BY <1>1 DEF LineResult, Recovers
<1> QED
  BY <1>2, <1>3, <1>4, <1>5, <1>6, <1>7 DEF FaultInv

LEMMA FaultStep ==
    ASSUME RunTyped, FaultInv, [FixtureNext]_fixtureVars
    PROVE  FaultInv'
<1>3. \A x : Recovers(x)' = Recovers(x)
  BY DEF Recovers, Malformed, Supported, VersionOf
<1>1. ASSUME NEW s \in Scripts, Begin(s) PROVE FaultInv'
  <2>1. outcome' = <<>> /\ Len(outcome') = 0
    BY <1>1 DEF Begin
  <2>2. 1 .. 0 = {} /\ 2 .. 0 = {}
    OBVIOUS
  <2> QED
    BY <2>1, <2>2 DEF FaultInv, FaultCascades, AlwaysRecoverable
<1>2. CASE Throw \/ HandleLine
  BY <1>2, FaultLine
<1>4. CASE Return \/ ResetBetween
  <2>1. script' = script /\ outcome' = outcome /\ ~busy'
    BY <1>4 DEF Return, ResetBetween, runVars
  <2> QED
    BY <1>3, <2>1 DEF FaultInv, FaultCascades, AlwaysRecoverable
<1>5. CASE UNCHANGED fixtureVars
  BY <1>3, <1>5 DEF fixtureVars, runVars, vars, sessionVars, FaultInv, FaultCascades,
                    AlwaysRecoverable
<1> QED
  BY <1>1, <1>2, <1>4, <1>5 DEF FixtureNext, Loop

LEMMA FaultInvariant == FixtureSpec => []FaultInv
<1>1. FixtureInit => FaultInv
  <2>1. 1 .. 0 = {} /\ 2 .. 0 = {} /\ Len(<<>>) = 0
    OBVIOUS
  <2> QED
    BY <2>1 DEF FixtureInit, FaultInv, FaultCascades, AlwaysRecoverable
<1>2. RunTyped /\ FaultInv /\ [FixtureNext]_fixtureVars => FaultInv'
  BY FaultStep
<1> QED
  BY <1>1, <1>2, RunTypedInvariant, PTL DEF FixtureSpec

\* For every fixture and from every state an earlier one left: nothing after a refused
\* line is served before a CONFIG_REQ or STOP_REQ comes by (fapi.cpp:50-56, 149-161).
THEOREM CascadeTheorem == FixtureSpec => []FaultCascades
<1>1. FaultInv => FaultCascades
  BY DEF FaultInv
<1> QED
  BY <1>1, FaultInvariant, PTL

\* STOP_REQ and then CONFIG_REQ recover the session whatever came before them
\* (fapi.cpp:62-69, 78-84).
THEOREM RecoveryTheorem == FixtureSpec => []AlwaysRecoverable
<1>1. FaultInv => AlwaysRecoverable
  BY DEF FaultInv
<1> QED
  BY <1>1, FaultInvariant, PTL

-----------------------------------------------------------------------------

\* The lines of a good script that a session in Running refuses, up to the n-th.
NotStop(n) == {i \in 1 .. n : script[i].type # "STOP_REQ"}

Verdict(n) == IF entry # "Running" THEN 0 ELSE Cardinality(NotStop(n))

\* Where the first n lines of a good script leave the session.
StateAfter(n) ==
    IF n = 0 THEN entry
    ELSE IF script[n].type = "STOP_REQ" THEN "Configured"
    ELSE IF entry = "Running" THEN "Error"
    ELSE IF n = 1 THEN "Configured"
    ELSE "Running"

GoodInv ==
    GoodScript(script) =>
        /\ errors = Verdict(Len(outcome))
        /\ busy => state = StateAfter(Len(outcome))

LEMMA NotStopCount ==
    ASSUME NEW n \in Nat
    PROVE  /\ IsFiniteSet(NotStop(n)) /\ Cardinality(NotStop(n)) \in Nat
           /\ Cardinality(NotStop(n + 1)) =
                 IF script[n + 1].type = "STOP_REQ" THEN Cardinality(NotStop(n))
                 ELSE Cardinality(NotStop(n)) + 1
<1>1. IsFiniteSet(1 .. n) /\ NotStop(n) \subseteq 1 .. n
  BY FS_Interval DEF NotStop
<1>2. IsFiniteSet(NotStop(n)) /\ Cardinality(NotStop(n)) \in Nat
  BY <1>1, FS_Subset, FS_CardinalityType
<1>3. 1 .. n + 1 = (1 .. n) \cup {n + 1} /\ n + 1 \notin 1 .. n
  OBVIOUS
<1>4. CASE script[n + 1].type = "STOP_REQ"
  <2>1. NotStop(n + 1) = NotStop(n)
    BY <1>3, <1>4 DEF NotStop
  <2> QED
    BY <1>2, <1>4, <2>1
<1>5. CASE script[n + 1].type # "STOP_REQ"
  <2>1. NotStop(n + 1) = NotStop(n) \cup {n + 1} /\ n + 1 \notin NotStop(n)
    BY <1>3, <1>5 DEF NotStop
  <2> QED
    BY <1>2, <1>5, <2>1, FS_AddElement
<1> QED
  BY <1>2, <1>4, <1>5

\* A line of a good script: what it is by its place, and that the parser takes it.
LEMMA GoodLine ==
    ASSUME NEW n \in Nat, n + 1 <= Len(script), script \in Seq(Line), GoodScript(script)
    PROVE  /\ ~Malformed(script[n + 1]) /\ Supported(script[n + 1])
           /\ n = 0 => script[n + 1].type = "CONFIG_REQ"
           /\ n = 1 => script[n + 1].type = "START_REQ"
           /\ n >= 2 => script[n + 1].type \in DataRequests \cup {"STOP_REQ"}
           /\ n >= 1 => script[n].type # "STOP_REQ"
<1> n + 1 \in 1 .. Len(script) /\ Len(script) \in Nat
  OBVIOUS
<1>1. ~Malformed(script[n + 1]) /\ Supported(script[n + 1])
  BY DEF GoodScript
<1>2. n >= 2 => script[n + 1].type \in DataRequests \cup {"STOP_REQ"}
  BY DEF GoodScript, DataLine
<1>3. n >= 1 => script[n].type # "STOP_REQ"
  <2>1. CASE n <= 2
    BY <2>1 DEF GoodScript
  <2>2. CASE n >= 3
    <3>1. n \in 3 .. Len(script) /\ n # Len(script)
      BY <2>2
    <3> QED
      BY <3>1 DEF GoodScript, DataLine, DataRequests
  <2> QED
    BY <2>1, <2>2
<1> QED
  BY <1>1, <1>2, <1>3 DEF GoodScript

LEMMA GoodStepLine ==
    ASSUME RunTyped, GoodInv, Throw \/ HandleLine
    PROVE  GoodInv'
<1> DEFINE n == Len(outcome)
           line == script[n + 1]
<1>1. PICK r \in Results : Record(r) /\ LineResult(line, r)
  BY LineOutcome DEF RunTyped
<1>2. /\ n \in Nat /\ Len(outcome') = n + 1 /\ n + 1 <= Len(script)
      /\ script' = script /\ entry' = entry /\ busy
      /\ script \in Seq(Line) /\ state \in FapiState /\ entry \in FapiState
      /\ errors' = IF r = "served" THEN errors ELSE errors + 1
  BY <1>1, Recorded DEF Record, Throw, HandleLine, RunTyped
<1>3. GoodScript(script)' <=> GoodScript(script)
  BY <1>2 DEF GoodScript, Malformed, Supported, VersionOf, DataLine
<1> SUFFICES ASSUME GoodScript(script)
             PROVE  errors' = Verdict(n + 1) /\ state' = StateAfter(n + 1)
  BY <1>2, <1>3 DEF GoodInv, Verdict, NotStop, StateAfter
<1>4. /\ ~Malformed(line) /\ Supported(line)
      /\ n = 0 => line.type = "CONFIG_REQ"
      /\ n = 1 => line.type = "START_REQ"
      /\ n >= 2 => line.type \in DataRequests \cup {"STOP_REQ"}
      /\ n >= 1 => script[n].type # "STOP_REQ"
  BY <1>2, GoodLine
<1>5. errors = Verdict(n) /\ state = StateAfter(n)
  BY <1>2 DEF GoodInv
<1>n. n \in Nat
  BY <1>2
<1> HIDE DEF n
<1>6. /\ r = "served" <=> (entry # "Running" \/ line.type = "STOP_REQ")
      /\ state' = StateAfter(n + 1)
  <2>1. CASE n = 0
    BY <1>1, <1>2, <1>4, <1>5, <2>1, AcceptsLine
    DEF StateAfter, LineResult, FapiState, DataRequests
  <2>2. CASE n = 1
    BY <1>1, <1>2, <1>4, <1>5, <2>2, AcceptsLine DEF StateAfter, LineResult, DataRequests
  <2>3. CASE n >= 2
    <3>1. state = IF entry = "Running" THEN "Error" ELSE "Running"
      <4>1. n # 0 /\ n # 1 /\ script[n].type # "STOP_REQ"
        <5>1. n # 0 /\ n # 1 /\ n >= 1
          BY <1>n, <2>3
        <5> QED
          BY <1>4, <5>1
      <4> QED
        BY <1>5, <4>1, Zenon DEF StateAfter
    <3>2. StateAfter(n + 1) = IF line.type = "STOP_REQ" THEN "Configured"
                              ELSE IF entry = "Running" THEN "Error" ELSE "Running"
      BY <1>2, <2>3 DEF StateAfter
    <3> QED
      BY <1>1, <1>4, <2>3, <3>1, <3>2, AcceptsLine DEF LineResult, DataRequests
  <2>4. n = 0 \/ n = 1 \/ n >= 2
    BY <1>n
  <2> QED
    BY <2>1, <2>2, <2>3, <2>4, Zenon
<1>7. errors' = Verdict(n + 1)
  BY <1>2, <1>5, <1>6, NotStopCount DEF Verdict
<1> QED
  BY <1>6, <1>7

LEMMA GoodStep ==
    ASSUME RunTyped, GoodInv, [FixtureNext]_fixtureVars
    PROVE  GoodInv'
<1>1. ASSUME NEW s \in Scripts, Begin(s) PROVE GoodInv'
  <2>1. Len(outcome') = 0 /\ errors' = 0 /\ entry' = state'
    BY <1>1 DEF Begin, vars, sessionVars
  <2>2. Verdict(0)' = 0 /\ StateAfter(0)' = entry'
    <3>1. NotStop(0)' = {}
      BY DEF NotStop
    <3> QED
      BY <3>1, FS_EmptySet DEF Verdict, StateAfter
  <2> QED
    BY <2>1, <2>2 DEF GoodInv, Verdict, StateAfter, NotStop
<1>2. CASE Throw \/ HandleLine
  BY <1>2, GoodStepLine
<1>3. CASE Return \/ ResetBetween
  <2>1. /\ script' = script /\ outcome' = outcome /\ errors' = errors /\ entry' = entry
        /\ busy' = FALSE
    BY <1>3 DEF Return, ResetBetween, runVars
  <2>2. GoodScript(script)' <=> GoodScript(script)
    BY <2>1 DEF GoodScript, Malformed, Supported, VersionOf, DataLine
  <2> QED
    BY <2>1, <2>2 DEF GoodInv, Verdict, NotStop
<1>4. CASE UNCHANGED fixtureVars
  BY <1>4 DEF fixtureVars, runVars, vars, sessionVars, GoodInv, Verdict, NotStop, StateAfter,
              GoodScript, Malformed, Supported, VersionOf, DataLine
<1> QED
  BY <1>1, <1>2, <1>3, <1>4 DEF FixtureNext, Loop

\* For every fixture: a run of a good one returns 0, unless an earlier run left the
\* session in Running; then it returns the number of its lines but STOP_REQ, however
\* long the fixture is (fapi.cpp:58-99, 149-161).
THEOREM VerdictTheorem == FixtureSpec => []GoodScriptVerdict
<1>1. FixtureInit => GoodInv
  <2>1. FixtureInit => ~GoodScript(script)
    BY DEF FixtureInit, GoodScript
  <2> QED
    BY <2>1 DEF GoodInv
<1>2. RunTyped /\ GoodInv /\ [FixtureNext]_fixtureVars => GoodInv'
  BY GoodStep
<1>3. RunTyped /\ GoodInv => GoodScriptVerdict
  <2> SUFFICES ASSUME RunTyped, GoodInv, ~busy, GoodScript(script)
               PROVE  errors = Verdict(Len(script))
    BY DEF GoodScriptVerdict, RunReturned, Verdict, NotStop
  <2> QED
    BY DEF RunTyped, GoodInv
<1> QED
  BY <1>1, <1>2, <1>3, RunTypedInvariant, PTL DEF FixtureSpec

=============================================================================
