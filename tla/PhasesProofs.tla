---------------------------- MODULE PhasesProofs ----------------------------
(***************************************************************************)
(* What the functions of the interview plan return, for every choice of    *)
(* the phase maxima.                                                       *)
(***************************************************************************)
EXTENDS Phases, TLAPS

(* The phase every reader takes a row to be in is one of the seven.        *)
LEMMA PhaseOfType == \A p \in Phases \cup {""} : PhaseOf(p) \in Phases
BY DEF PhaseOf, Phases

(* The plan goes on in one of the seven phases or is complete.             *)
LEMMA NextPhaseType ==
  \A p \in Phases, l \in Levels : NextPhaseFor(p, l) \in Phases \cup {"complete"}
BY DEF NextPhaseFor, Phases, Levels

LEMMA LevelOfType == \A l \in StoredLevels : LevelOf(l) \in Levels
BY DEF LevelOf, StoredLevels, Levels

(* The estimate stays inside 0.0 .. 10.0.                                  *)
LEMMA SkillEstimateType ==
  \A e \in Estimates, s \in Scores : UpdateSkillEstimate(EstimateOf(e), s) \in Estimates
BY DEF UpdateSkillEstimate, EstimateOf, Estimates, Scores

(* What an advancement makes of a well-formed row.                         *)
LEMMA AdvancementType ==
  ASSUME NEW r \in PhaseRow, NEW l \in StoredLevels, NEW s \in Scores
  PROVE  /\ ComputePhaseAdvancement(r, l, s).row \in PhaseRow
         /\ ComputePhaseAdvancement(r, l, s).row.phase \in Phases
<1>1. PhaseOf(r.phase) \in Phases
  BY PhaseOfType DEF PhaseRow
<1>2. NextPhaseFor(PhaseOf(r.phase), LevelOf(l)) \in Phases \cup {"complete"}
  BY <1>1, NextPhaseType, LevelOfType
<1>3. UpdateSkillEstimate(EstimateOf(r.estimate), s) \in Estimates
  BY SkillEstimateType DEF PhaseRow
<1> DEFINE new == ComputePhaseAdvancement(r, l, s).row
<1>4. r.count \in Nat
  BY DEF PhaseRow
<1>5. new = [phase |-> new.phase, count |-> new.count, estimate |-> new.estimate]
  BY DEF ComputePhaseAdvancement
<1>6. new.phase \in Phases
  BY <1>1, <1>2 DEF ComputePhaseAdvancement
<1>7. new.count \in Nat
  BY <1>4 DEF ComputePhaseAdvancement
<1>8. new.estimate \in Estimates
  BY <1>3 DEF ComputePhaseAdvancement
<1>9. QED
  BY <1>5, <1>6, <1>7, <1>8 DEF PhaseRow
=============================================================================
