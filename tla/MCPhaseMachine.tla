--------------------------- MODULE MCPhaseMachine ---------------------------
(***************************************************************************)
(* The interview plan with the program's own maxima (phase.go:24-32).      *)
(***************************************************************************)
EXTENDS PhaseMachine

ProgramMaxima ==
  [phase \in Phases |->
     CASE phase \in {"introduction", "behavioral", "system_design"} -> 3
       [] phase \in {"fundamentals", "deep_technical"} -> 4
       [] phase \in {"coding", "wrap_up"} -> 2]
=============================================================================
