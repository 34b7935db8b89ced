---------------------------- MODULE MCTxCounter -----------------------------
(***************************************************************************)
(* Three transaction types (one that the switch does not name) and two     *)
(* confirmed batches, one of them mixed.                                   *)
(***************************************************************************)
EXTENDS TxCounter

ThreeTypes == {"Normal", "Sequencer", "Campaign"}
TwoBatches == { <<"Normal", "Sequencer">>, <<"Campaign">> }
=============================================================================
