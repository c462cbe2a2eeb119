---------------------------- MODULE MCVoiceHost ----------------------------
(***************************************************************************)
(* VoiceHost for TLC: its engines are interchangeable.                     *)
(***************************************************************************)
EXTENDS VoiceHost, TLC

EnginesAlike == Permutations(Engines)
=============================================================================
