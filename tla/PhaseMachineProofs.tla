------------------------- MODULE PhaseMachineProofs -------------------------
(***************************************************************************)
(* Proofs about the interview plan, for every choice of the phase maxima   *)
(* and of MaxLostFinishes.                                                 *)
(***************************************************************************)
EXTENDS PhaseMachine, PhasesProofs

-----------------------------------------------------------------------------
(* The row stays well formed: no phase outside the plan is ever stored,    *)
(* "complete" included, and the estimate stays in its range.               *)
THEOREM PlanTypeCorrect == Spec => []TypeOK
<1>1. Init => TypeOK
  <2>1. NewRow \in PhaseRow
    BY DEF NewRow, PhaseRow, Phases, Estimates
  <2>2. [phase |-> "", count |-> 0, estimate |-> 0] \in PhaseRow
    BY DEF PhaseRow, Estimates
  <2>3. Init => row = NewRow \/ row = [phase |-> "", count |-> 0, estimate |-> 0]
    BY DEF Init
  <2>4. Init => row \in PhaseRow
    BY <2>1, <2>2, <2>3
  <2>5. Init => status = "in_progress" /\ level \in StoredLevels /\ answers = 0
    BY DEF Init
  <2>6. QED
    BY <2>4, <2>5 DEF TypeOK
<1>2. TypeOK /\ [Next]_vars => TypeOK'
  <2> SUFFICES ASSUME TypeOK, [Next]_vars
               PROVE  TypeOK'
    OBVIOUS
  <2>1. ASSUME NEW score \in Scores, MainAnswer(score)
        PROVE  TypeOK'
    BY <2>1, AdvancementType DEF TypeOK, MainAnswer
  <2>2. CASE Finish
    BY <2>2 DEF Finish, TypeOK
  <2>3. CASE EndEarly
    BY <2>3 DEF EndEarly, TypeOK
  <2>4. CASE UNCHANGED vars
    BY <2>4 DEF vars, TypeOK
  <2>5. QED
    BY <2>1, <2>2, <2>3, <2>4 DEF Next
<1>3. QED
  BY <1>1, <1>2, PTL DEF Spec

-----------------------------------------------------------------------------
(* The reference position is a natural number for every phase.             *)
LEMMA AnswersBeforeType ==
  \A p \in Phases, l \in StoredLevels : AnswersBefore(p, l) \in Nat
<1>1. \A p \in Phases : MaxQuestions[p] \in Nat \ {0}
  BY MaxQuestionsAssumption
<1>2. /\ MaxQuestions["introduction"] \in Nat
      /\ MaxQuestions["fundamentals"] \in Nat
      /\ MaxQuestions["deep_technical"] \in Nat
      /\ MaxQuestions["coding"] \in Nat
      /\ MaxQuestions["behavioral"] \in Nat
      /\ MaxQuestions["system_design"] \in Nat
  BY <1>1 DEF Phases
<1>3. QED
  BY <1>2 DEF AnswersBefore, Phases

(* Leaving a phase for the next one adds exactly its maximum.  The senior  *)
(* detour through system_design is the only step that depends on level.    *)
LEMMA NextPhasePosition ==
  ASSUME NEW l \in StoredLevels,
         NEW p \in Phases,
         p = "system_design" => l = "senior",
         NextPhaseFor(p, LevelOf(l)) # "complete"
  PROVE  AnswersBefore(NextPhaseFor(p, LevelOf(l)), l)
           = AnswersBefore(p, l) + MaxQuestions[p]
<1>1. \A q \in Phases : MaxQuestions[q] \in Nat \ {0}
  BY MaxQuestionsAssumption
<1>2. /\ MaxQuestions["introduction"] \in Nat
      /\ MaxQuestions["fundamentals"] \in Nat
      /\ MaxQuestions["deep_technical"] \in Nat
      /\ MaxQuestions["coding"] \in Nat
      /\ MaxQuestions["behavioral"] \in Nat
      /\ MaxQuestions["system_design"] \in Nat
  BY <1>1 DEF Phases
<1>3. LevelOf(l) = "senior" <=> l = "senior"
  BY DEF LevelOf, StoredLevels, Levels
<1>4. CASE p = "introduction"
  BY <1>2, <1>4 DEF NextPhaseFor, AnswersBefore
<1>5. CASE p = "fundamentals"
  BY <1>2, <1>5 DEF NextPhaseFor, AnswersBefore
<1>6. CASE p = "deep_technical"
  BY <1>2, <1>6 DEF NextPhaseFor, AnswersBefore
<1>7. CASE p = "coding"
  BY <1>2, <1>7 DEF NextPhaseFor, AnswersBefore
<1>8. CASE p = "behavioral"
  BY <1>2, <1>3, <1>8 DEF NextPhaseFor, AnswersBefore
<1>9. CASE p = "system_design"
  BY <1>2, <1>3, <1>9 DEF NextPhaseFor, AnswersBefore
<1>10. CASE p = "wrap_up"
  BY <1>10 DEF NextPhaseFor
<1>11. QED
  BY <1>4, <1>5, <1>6, <1>7, <1>8, <1>9, <1>10 DEF Phases

(* The inductive invariant: the position accounts for the answers, only    *)
(* wrap_up may be full, and only seniors are sent to system_design (which  *)
(* is what makes the position of wrap_up right for everybody else).        *)
PlanInv ==
  /\ EveryAnswerCounted
  /\ PhaseNeverOverfull
  /\ row.phase = "system_design" => level = "senior"

LEMMA PlanInvInit == Init => PlanInv
<1> SUFFICES ASSUME Init PROVE PlanInv
  OBVIOUS
<1>0. row = NewRow \/ row = [phase |-> "", count |-> 0, estimate |-> 0]
  BY DEF Init
<1>1. /\ PhaseOf(row.phase) = "introduction"
      /\ row.count = 0
      /\ answers = 0
      /\ row.phase # "system_design"
  <2>1. CASE row = NewRow
    BY <2>1 DEF Init, PhaseOf, NewRow
  <2>2. CASE row = [phase |-> "", count |-> 0, estimate |-> 0]
    BY <2>2 DEF Init, PhaseOf
  <2>3. QED
    BY <1>0, <2>1, <2>2
<1>2. MaxQuestions["introduction"] \in Nat \ {0}
  BY MaxQuestionsAssumption DEF Phases
<1>3. EveryAnswerCounted
  BY <1>1 DEF EveryAnswerCounted, AnswersBefore
<1>4. PhaseNeverOverfull
  BY <1>1, <1>2 DEF PhaseNeverOverfull
<1>5. QED
  BY <1>1, <1>3, <1>4 DEF PlanInv

LEMMA PlanInvAnswer ==
  ASSUME TypeOK, PlanInv, NEW score \in Scores, MainAnswer(score)
  PROVE  PlanInv'
<1> DEFINE p == PhaseOf(row.phase)
           n == NextPhaseFor(p, LevelOf(level))
           full == PhaseFilled(p, row.count + 1)
<1>1. p \in Phases /\ row.count \in Nat /\ level \in StoredLevels
  BY PhaseOfType DEF TypeOK, PhaseRow
<1>2. n \in Phases \cup {"complete"}
  BY <1>1, NextPhaseType, LevelOfType
<1>3. MaxQuestions[p] \in Nat \ {0} /\ AnswersBefore(p, level) \in Nat
  BY <1>1, MaxQuestionsAssumption, AnswersBeforeType
<1>4. /\ row'.phase = IF full /\ n # "complete" THEN n ELSE p
      /\ row'.count = IF full /\ n # "complete" THEN 0 ELSE row.count + 1
      /\ answers' = answers + 1
      /\ level' = level
  BY DEF MainAnswer, ComputePhaseAdvancement
<1>5. p = "system_design" => level = "senior"
  BY DEF PlanInv, PhaseOf
<1>6. answers = AnswersBefore(p, level) + row.count
  BY DEF PlanInv, EveryAnswerCounted
<1>7. row.count < MaxQuestions[p] \/ p = "wrap_up"
  BY DEF PlanInv, PhaseNeverOverfull
<1>8. n = "complete" <=> p = "wrap_up"
  BY <1>1 DEF NextPhaseFor, Phases
<1>9. PhaseOf(row'.phase) = row'.phase
  BY <1>1, <1>2, <1>4 DEF PhaseOf, Phases
<1>10. EveryAnswerCounted' <=>
         answers + 1 = AnswersBefore(row'.phase, level) + row'.count
  BY <1>4, <1>9 DEF EveryAnswerCounted
<1>11. CASE full /\ n # "complete"
  <2>1. row'.phase = n /\ row'.count = 0
    BY <1>4, <1>11
  <2>2. row.count + 1 = MaxQuestions[p]
    BY <1>1, <1>3, <1>7, <1>8, <1>11 DEF PhaseFilled
  <2>3. AnswersBefore(n, level) = AnswersBefore(p, level) + MaxQuestions[p]
    BY <1>1, <1>5, <1>11, NextPhasePosition
  <2>4. EveryAnswerCounted'
    BY <2>1, <2>2, <2>3, <1>1, <1>3, <1>6, <1>10
  <2>5. MaxQuestions[n] \in Nat \ {0}
    BY <1>2, <1>11, MaxQuestionsAssumption
  <2>6. PhaseNeverOverfull'
    BY <2>1, <2>5, <1>9 DEF PhaseNeverOverfull
  <2>7. n = "system_design" => level = "senior"
    BY <1>1 DEF NextPhaseFor, LevelOf, StoredLevels, Levels, Phases
  <2>8. QED
    BY <2>1, <2>4, <2>6, <2>7, <1>4 DEF PlanInv
<1>12. CASE ~(full /\ n # "complete")
  <2>1. row'.phase = p /\ row'.count = row.count + 1
    BY <1>4, <1>12
  <2>2. EveryAnswerCounted'
    BY <2>1, <1>1, <1>3, <1>6, <1>10
  <2>3. PhaseNeverOverfull'
    BY <2>1, <1>1, <1>3, <1>8, <1>9, <1>12 DEF PhaseNeverOverfull, PhaseFilled
  <2>4. QED
    BY <2>1, <2>2, <2>3, <1>4, <1>5 DEF PlanInv
<1>13. QED
  BY <1>11, <1>12

LEMMA PlanInvOther ==
  ASSUME PlanInv, UNCHANGED <<level, row, answers>>
  PROVE  PlanInv'
BY DEF PlanInv, EveryAnswerCounted, PhaseNeverOverfull, AnswersBefore

LEMMA PlanInvHolds == Spec => []PlanInv
<1>1. TypeOK /\ PlanInv /\ [Next]_vars => PlanInv'
  <2> SUFFICES ASSUME TypeOK, PlanInv, [Next]_vars
               PROVE  PlanInv'
    OBVIOUS
  <2>1. ASSUME NEW score \in Scores, MainAnswer(score)
        PROVE  PlanInv'
    BY <2>1, PlanInvAnswer
  <2>2. CASE Finish
    BY <2>2, PlanInvOther DEF Finish
  <2>3. CASE EndEarly
    BY <2>3, PlanInvOther DEF EndEarly
  <2>4. CASE UNCHANGED vars
    BY <2>4, PlanInvOther DEF vars
  <2>5. QED
    BY <2>1, <2>2, <2>3, <2>4 DEF Next
<1>2. QED
  BY PlanInvInit, <1>1, PlanTypeCorrect, PTL DEF Spec

(* For every choice of maxima: the position in the plan accounts for every *)
(* evaluated main answer, so no phase is skipped, cut short or stretched.  *)
THEOREM AnswersAccountedFor == Spec => []EveryAnswerCounted
<1>1. PlanInv => EveryAnswerCounted
  BY DEF PlanInv
<1>2. QED
  BY <1>1, PlanInvHolds, PTL

(* For every choice of maxima: no phase but wrap_up is ever full.          *)
THEOREM PhasesNeverOverfull == Spec => []PhaseNeverOverfull
<1>1. PlanInv => PhaseNeverOverfull
  BY DEF PlanInv
<1>2. QED
  BY <1>1, PlanInvHolds, PTL

-----------------------------------------------------------------------------
(* A weak answer lowers the estimate by at most half a point and leaves it *)
(* at or below where it was.                                               *)
LEMMA WeakAnswerLowersEstimate ==
  ASSUME NEW e \in Estimates, NEW s \in 0..4
  PROVE  /\ UpdateSkillEstimate(EstimateOf(e), s) \in Estimates
         /\ UpdateSkillEstimate(EstimateOf(e), s) <= EstimateOf(e)
BY DEF UpdateSkillEstimate, EstimateOf, Estimates

(* The difficulty is monotone in the estimate.                             *)
LEMMA DifficultyMonotone ==
  ASSUME NEW d \in Estimates, NEW e \in Estimates, d <= e
  PROVE  Rank(DifficultyFromEstimate(d)) <= Rank(DifficultyFromEstimate(e))
<1>1. \A x \in Estimates : Rank(DifficultyFromEstimate(x))
                             = IF x <= 6 THEN 1 ELSE IF x <= 12 THEN 2 ELSE 3
  <2> SUFFICES ASSUME NEW x \in Estimates
               PROVE  Rank(DifficultyFromEstimate(x))
                        = IF x <= 6 THEN 1 ELSE IF x <= 12 THEN 2 ELSE 3
    OBVIOUS
  <2>1. CASE x <= 6
    BY <2>1 DEF Rank, DifficultyFromEstimate, Estimates
  <2>2. CASE x \in 7..12
    BY <2>2 DEF Rank, DifficultyFromEstimate, Estimates
  <2>3. CASE x > 12
    BY <2>3 DEF Rank, DifficultyFromEstimate, Estimates
  <2>4. QED
    BY <2>1, <2>2, <2>3 DEF Estimates
<1>2. QED
  BY <1>1 DEF Estimates

(* For every row: a weak answer never makes the next question harder,      *)
(* unless it takes the estimate to the floor that reads as "not set".      *)
THEOREM WeakAnswersNeverHarder == Spec => WeakAnswerNeverHarder
<1>1. ASSUME TypeOK, [Next]_vars, NEW score \in 0..4, MainAnswer(score),
             row'.estimate # 0
      PROVE  Rank(ContextDifficulty(row')) <= Rank(ContextDifficulty(row))
  <2>1. row.estimate \in Estimates
    BY <1>1 DEF TypeOK, PhaseRow
  <2>2. row'.estimate = UpdateSkillEstimate(EstimateOf(row.estimate), score)
    BY <1>1 DEF MainAnswer, ComputePhaseAdvancement
  <2>3. /\ row'.estimate \in Estimates
        /\ EstimateOf(row.estimate) \in Estimates
        /\ EstimateOf(row'.estimate) = row'.estimate
        /\ row'.estimate <= EstimateOf(row.estimate)
    BY <1>1, <2>1, <2>2, WeakAnswerLowersEstimate DEF EstimateOf, Estimates
  <2>4. QED
    BY <2>3, DifficultyMonotone DEF ContextDifficulty
<1>2. TypeOK /\ [Next]_vars =>
        [\A score \in 0..4 :
           MainAnswer(score) =>
             \/ Rank(ContextDifficulty(row')) <= Rank(ContextDifficulty(row))
             \/ row'.estimate = 0]_vars
  BY <1>1
<1>3. QED
  BY <1>2, PlanTypeCorrect, PTL DEF Spec, WeakAnswerNeverHarder
=============================================================================
