--------------------------- MODULE MCNvdaDriver ---------------------------
(***************************************************************************)
(* Three utterances: with a single index, which is not reported early,     *)
(* with several, and with none.                                            *)
(***************************************************************************)
EXTENDS NvdaDriver

MixedIndexes == <<1, 3, 0>>
=============================================================================
