------------------------------- MODULE Phases -------------------------------
(***************************************************************************)
(* The interview plan of handles/phase.go: the order of the phases, how    *)
(* many main questions each of them takes, and how one evaluated main      *)
(* answer moves the phase, the question count and the skill estimate.      *)
(*                                                                         *)
(* The skill estimate is a float that only ever moves by 0.5 inside        *)
(* 0.0 .. 10.0, so it is kept in half points: 0 .. 20.                     *)
(***************************************************************************)
EXTENDS Integers

CONSTANT MaxQuestions   \* phaseMaxQuestions: main questions per phase

Phases == {"introduction", "fundamentals", "deep_technical", "coding",
           "behavioral", "system_design", "wrap_up"}

Levels == {"beginner", "intermediate", "senior"}

ASSUME MaxQuestionsAssumption == MaxQuestions \in [Phases -> Nat \ {0}]

Scores == 0..10
Estimates == 0..20

(* What the columns of an interview may hold: a row written before the     *)
(* phase system has the empty phase and level and the estimate 0.          *)
PhaseRow == [phase : Phases \cup {""}, count : Nat, estimate : Estimates]
StoredLevels == Levels \cup {""}

(* The row of a fresh interview: the column defaults of model.Interview.   *)
NewRow == [phase |-> "introduction", count |-> 0, estimate |-> 10]

-----------------------------------------------------------------------------
(* Defaults that every reader of a row applies.                            *)

PhaseOf(stored) == IF stored = "" THEN "introduction" ELSE stored
LevelOf(stored) == IF stored = "" THEN "intermediate" ELSE stored

(* Faulty variant: compares whole points, so that 0.5 counts as not set.   *)
EstimateOfWholePoints(stored) == IF stored \div 2 = 0 THEN 10 ELSE stored

EstimateOf(stored) == IF stored = 0 THEN 10 ELSE stored

(* The order the comment at phase.go:34 gives, without the coding phase.   *)
NextPhaseForWithoutCoding(phase, level) ==
  CASE phase = "introduction"   -> "fundamentals"
    [] phase = "fundamentals"   -> "deep_technical"
    [] phase = "deep_technical" -> "behavioral"
    [] phase = "behavioral"     -> IF level = "senior" THEN "system_design"
                                                       ELSE "wrap_up"
    [] phase = "system_design"  -> "wrap_up"
    [] OTHER                    -> "complete"

NextPhaseFor(phase, level) ==
  CASE phase = "introduction"   -> "fundamentals"
    [] phase = "fundamentals"   -> "deep_technical"
    [] phase = "deep_technical" -> "coding"
    [] phase = "coding"         -> "behavioral"
    [] phase = "behavioral"     -> IF level = "senior" THEN "system_design"
                                                       ELSE "wrap_up"
    [] phase = "system_design"  -> "wrap_up"
    [] phase = "wrap_up"        -> "complete"

DifficultyFromEstimate(estimate) ==
  CASE estimate <= 6  -> "easy"
    [] estimate \in 7..12 -> "medium"
    [] estimate > 12  -> "hard"

(* The difficulty of the next question asked for a row, as the phase       *)
(* context of phaseContextFromInterview carries it.                        *)
ContextDifficulty(row) == DifficultyFromEstimate(EstimateOf(row.estimate))

(* Faulty variant: no clamping to 0.0 .. 10.0.                             *)
UnclampedSkillEstimate(current, score) ==
  CASE score >= 8    -> current + 1
    [] score < 5     -> current - 1
    [] score \in 5..7 -> current

UpdateSkillEstimate(current, score) ==
  CASE score >= 8    -> IF current < 20 THEN current + 1 ELSE 20
    [] score < 5     -> IF current > 0 THEN current - 1 ELSE 0
    [] score \in 5..7 -> current

(* Faulty variants: one question too many; no recovery past the maximum.   *)
PhaseFilledLate(phase, count) == count > MaxQuestions[phase]
PhaseFilledExactly(phase, count) == count = MaxQuestions[phase]

PhaseFilled(phase, count) == count >= MaxQuestions[phase]

(* Faulty variant: the end of the plan is stored as if it were a phase.    *)
AdvancementStoringComplete(row, level, score) ==
  LET phase  == PhaseOf(row.phase)
      filled == PhaseFilled(phase, row.count + 1)
      next   == NextPhaseFor(phase, LevelOf(level))
  IN  [row      |-> [phase    |-> IF filled THEN next ELSE phase,
                     count    |-> IF filled THEN 0 ELSE row.count + 1,
                     estimate |-> UpdateSkillEstimate(EstimateOf(row.estimate),
                                                      score)],
       complete |-> filled /\ next = "complete"]

(* One evaluated main answer: computePhaseAdvancement.  "complete" is the  *)
(* ShouldComplete flag; the row is what the three columns are set to.      *)
ComputePhaseAdvancement(row, level, score) ==
  LET phase  == PhaseOf(row.phase)
      count  == row.count + 1
      filled == PhaseFilled(phase, count)
      next   == NextPhaseFor(phase, LevelOf(level))
      moves  == filled /\ next # "complete"
  IN  [row      |-> [phase    |-> IF moves THEN next ELSE phase,
                     count    |-> IF moves THEN 0 ELSE count,
                     estimate |-> UpdateSkillEstimate(EstimateOf(row.estimate),
                                                      score)],
       complete |-> filled /\ next = "complete"]
=============================================================================
