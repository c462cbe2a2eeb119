------------------------- MODULE MCSpeakFragments -------------------------
(***************************************************************************)
(* SpeakFragments with the rates for TLC: with the adjustments, one speed  *)
(* in each of the ranges, one beyond the limit, and one between two rates  *)
(* of the engine.                                                          *)
(***************************************************************************)
EXTENDS SpeakFragments

SomeRates == {-10, 7}
SomeRateAdjs == {0, 4}
=============================================================================
