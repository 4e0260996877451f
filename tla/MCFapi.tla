------------------------------- MODULE MCFapi -------------------------------
(***************************************************************************)
(* Instances of FapiAudit for TLC. A frame of three slots and two frames    *)
(* make both clock digits wrap; the 8 of CountMod is no multiple of the     *)
(* cycle of 6, as 2^32 is no multiple of 20 * 1024.                         *)
(***************************************************************************)
EXTENDS FapiAudit

MCVersions == {0, 1, 2}
MCStamps == {<<0, 0>>, <<1, 2>>}
MCPayloads == {"empty", "bits"}

=============================================================================
