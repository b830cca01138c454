------------------------- MODULE MCSerialInterview --------------------------
(***************************************************************************)
(* Instances of the serial interview for model checking.                   *)
(***************************************************************************)
EXTENDS SerialInterview

(* One main question per phase: six decisive turns are a whole interview.  *)
OnePerPhase == [phase \in Phases |-> 1]
=============================================================================
