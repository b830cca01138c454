------------------------ MODULE MCInterviewService --------------------------
(***************************************************************************)
(* Instances of the interview handlers for model checking.                 *)
(***************************************************************************)
EXTENDS InterviewService, TLC

(* One main question per phase: every turn that advances changes phase.    *)
OnePerPhase == [phase \in Phases |-> 1]
TwoPerPhase == [phase \in Phases |-> 2]

SlotSymmetry == Permutations(Slots)
=============================================================================
