---------------------------- MODULE PhaseMachine ----------------------------
(***************************************************************************)
(* What the interview plan promises, seen from the interview row alone:    *)
(* evaluated main answers drive it through the phases one at a time, and   *)
(* it ends either because wrap_up is filled or because somebody ends it    *)
(* early.  InterviewService implements this specification as long as one   *)
(* request is handled at a time.                                           *)
(*                                                                         *)
(* The answer and the end of the interview are separate writes in the      *)
(* handlers, so an interrupted request can leave wrap_up filled with the   *)
(* interview still open; the next main answer then counts past the         *)
(* maximum.  MaxLostFinishes bounds how often that happens.                *)
(***************************************************************************)
EXTENDS Phases

CONSTANT MaxLostFinishes

ASSUME LostFinishesAssumption == MaxLostFinishes \in Nat

VARIABLES
  status,    \* Status
  level,     \* CandidateLevel: no handler writes it
  row,       \* CurrentPhase, PhaseQuestionCount, SkillEstimate
  answers    \* history: the evaluated main answers so far

vars == <<status, level, row, answers>>

TypeOK ==
  /\ status \in {"in_progress", "completed"}
  /\ level \in StoredLevels
  /\ row \in PhaseRow
  /\ answers \in Nat

(* A fresh row, or one that was created before the phase columns.          *)
Init ==
  /\ status = "in_progress"
  /\ level \in StoredLevels
  /\ row \in {NewRow, [phase |-> "", count |-> 0, estimate |-> 0]}
  /\ answers = 0

(* Wrap_up has taken all its questions and the interview is still open.    *)
FinishDue ==
  /\ PhaseOf(row.phase) = "wrap_up"
  /\ PhaseFilled("wrap_up", row.count)

MainAnswer(score) ==
  /\ status = "in_progress"
  /\ row.count < MaxQuestions[PhaseOf(row.phase)] + MaxLostFinishes
  /\ row' = ComputePhaseAdvancement(row, level, score).row
  /\ answers' = answers + 1
  /\ UNCHANGED <<status, level>>

Finish ==
  /\ status = "in_progress"
  /\ FinishDue
  /\ status' = "completed"
  /\ UNCHANGED <<level, row, answers>>

EndEarly ==
  /\ status = "in_progress"
  /\ status' = "completed"
  /\ UNCHANGED <<level, row, answers>>

Next ==
  \/ \E score \in Scores : MainAnswer(score)
  \/ Finish
  \/ EndEarly

Spec == Init /\ [][Next]_vars

(* The candidate keeps answering and a due finish is not put off forever.  *)
Fairness ==
  /\ WF_vars(\E score \in Scores : MainAnswer(score))
  /\ WF_vars(Finish)

FairSpec == Spec /\ Fairness

-----------------------------------------------------------------------------
(* Reference: the main answers an interview has behind it when a phase     *)
(* starts, from the documented route through the phases.                   *)
AnswersBefore(phase, candidate) ==
  LET M == MaxQuestions
      throughCoding == M["introduction"] + M["fundamentals"]
                       + M["deep_technical"] + M["coding"]
      throughBehavioral == throughCoding + M["behavioral"]
      seniorOnly == IF candidate = "senior" THEN M["system_design"] ELSE 0
  IN  CASE phase = "introduction"   -> 0
        [] phase = "fundamentals"   -> M["introduction"]
        [] phase = "deep_technical" -> M["introduction"] + M["fundamentals"]
        [] phase = "coding"         -> throughCoding - M["coding"]
        [] phase = "behavioral"     -> throughCoding
        [] phase = "system_design"  -> throughBehavioral
        [] phase = "wrap_up"        -> throughBehavioral + seniorOnly

(* No answer is lost or counted twice: the position in the plan accounts   *)
(* for every evaluated main answer, so a phase is neither skipped nor cut  *)
(* short nor stretched, whatever the scores were.                          *)
EveryAnswerCounted ==
  answers = AnswersBefore(PhaseOf(row.phase), level) + row.count

(* A phase never holds more evaluated main answers than its maximum; only  *)
(* wrap_up can reach it, and then the interview is about to finish.        *)
PhaseNeverOverfull ==
  \/ row.count < MaxQuestions[PhaseOf(row.phase)]
  \/ PhaseOf(row.phase) = "wrap_up"

Rank(difficulty) ==
  CASE difficulty = "easy" -> 1 [] difficulty = "medium" -> 2
    [] difficulty = "hard" -> 3

(* A weak main answer (score below 5) never makes the next question        *)
(* harder, unless it takes the estimate to the floor 0.0, which every      *)
(* reader of the row takes for "not set".                                  *)
WeakAnswerNeverHarder ==
  [][\A score \in 0..4 :
       MainAnswer(score) =>
         \/ Rank(ContextDifficulty(row')) <= Rank(ContextDifficulty(row))
         \/ row'.estimate = 0]_vars

(* Answering every question finishes the interview, by the plan's own      *)
(* arithmetic and not because somebody ends it.                            *)
InterviewConcludes == <>(status = "completed")
=============================================================================
