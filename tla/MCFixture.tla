------------------------------ MODULE MCFixture ------------------------------
(***************************************************************************)
(* Instances of FapiFixture for TLC: every script of up to three of eight   *)
(* kinds of line, and a few longer ones. The clock is collapsed to one slot *)
(* (it has runs of its own): only the protocol state matters here.          *)
(***************************************************************************)
EXTENDS FapiFixture

LOCAL INSTANCE SequencesExt

L(t, v) == [type |-> t, version |-> v]

MCLines == {
    L("CONFIG_REQ", 1), L("START_REQ", NoKey), L("STOP_REQ", 0), L("TX_DATA_REQ", 1),
    L("TX_DATA_REQ", 99), L("UL_TTI_REQ", 65537), L("CRC_IND", 1), L(Junk, 1),
    L("DL_TTI_REQ", Junk)}

MCLong == {
    <<L("CONFIG_REQ", 1), L("START_REQ", 1), L("TX_DATA_REQ", 1), L("STOP_REQ", 1)>>,
    <<L("CONFIG_REQ", 1), L("START_REQ", 1), L("TX_DATA_REQ", 1), L("UL_TTI_REQ", 1)>>,
    <<L("STOP_REQ", 1), L("CONFIG_REQ", 1), L("START_REQ", 1), L("DL_TTI_REQ", 1)>>}

MCScripts == SeqOf(MCLines, 3) \cup MCLong

MCVersions == {1}
MCStamps == {<<0, 0>>}
MCPayloads == {"empty"}

=============================================================================
