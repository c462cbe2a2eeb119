--------------------------- MODULE MCSpeakWindow ---------------------------
(***************************************************************************)
(* Four voices of the fourteen: FRED, DRACULA (base pitch 47, two above    *)
(* the lower limit), GRANNY (the highest, against a limit lowered to 353)  *)
(* and GHOST.                                                              *)
(***************************************************************************)
EXTENDS SpeakWindow

FourFreqs == [v \in 0..3 |-> <<80, 47, 350, 60>>[v + 1]]

LowGain == -15
StartGain == -5
LowRate == -20
=============================================================================
