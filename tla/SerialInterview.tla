--------------------------- MODULE SerialInterview --------------------------
(***************************************************************************)
(* One interview whose requests are handled one at a time, whatever they   *)
(* name.  The handlers then keep much stronger promises than they do for   *)
(* overlapping requests, and the interview row implements the plan of      *)
(* PhaseMachine.                                                           *)
(***************************************************************************)
EXTENDS InterviewService

ASSUME SerialAssumption == \E r \in Slots : Slots = {r}

Idle == \A r \in Slots : At(r, "idle")

(* The score stored with a response is the score of its evaluation, unless *)
(* a program was handed in for it: SubmitCode writes answer and score of   *)
(* any response before the index rejects a second evaluation               *)
(* (coding.go:62-71), and nothing else writes over an evaluated answer,    *)
(* no retry after a failure and no skip.                                   *)
ScoresAgreeWithEvaluations ==
  \A e \in evaluations :
    responses[e.response].answer # "code" => responses[e.response].score = e.score

(* The final score is the average of the interview as it stays: nothing    *)
(* was scored between the read of the responses and the completion, and    *)
(* nothing is scored afterwards.                                           *)
FinalScoreIsFinal ==
  status = "completed" => finalScore = ResponseScores(responses)

(* The transcript is read by question number: the numbers follow the order *)
(* in which the questions were asked, follow-ups included.                 *)
NumbersFollowAsking ==
  \A i, j \in DOMAIN responses : i < j => responses[i].num < responses[j].num

(* The completion webhook is started at most once.                         *)
CompletionFiredOnce == fired <= 1

(* The session summary loses context in two ways only: an answer leaves it *)
(* when the window is full of newer ones, and a blank answer of the model  *)
(* empties it (ai_helpers.go:326-329, 482-486, against the comment at 436  *)
(* that existing context is never lost).                                   *)
SummaryLosesOldestOrAll ==
  [][\A i \in summary \ summary' :
       \/ summary' = {}
       \/ /\ Cardinality(summary') = SummaryWindow
          /\ \A j \in summary' : j > i]_vars

-----------------------------------------------------------------------------
(* The interview row implements the plan: the four variables of            *)
(* PhaseMachine are the status, the level, the row and the number of       *)
(* answers that advanced it, and every other step leaves them alone.       *)
Plan == INSTANCE PhaseMachine WITH
          level <- Level,
          answers <- Cardinality(advanced),
          MaxLostFinishes <- MaxResponses

ImplementsPlan == Plan!Spec

IsMain(id) == responses[id].parent = 0

(* No turn is lost and none counts twice when no request is cut short:     *)
(* between requests, an evaluated main answer has either been followed up  *)
(* or advanced the plan, also when a program was handed in for it again,   *)
(* and of the answers to follow-ups only programs advance.                 *)
EveryTurnAdvancesOrFollowsUp ==
  Idle =>
    /\ \A i \in DOMAIN responses :
         IsMain(i) /\ Evaluated(i) => (i \in advanced <=> ~FollowedUp(i))
    /\ \A i \in advanced :
         Evaluated(i) /\ (IsMain(i) \/ responses[i].answer = "code")

(* phase.go:101-103, "Only call this for main-question answers (not        *)
(* follow-ups)": only answers to main questions advance the phase.         *)
OnlyMainAnswersAdvance == \A i \in advanced : IsMain(i)

(* phase.go:23, "how many main questions belong to each phase": no phase   *)
(* gets more than that, apart from those whose answers were followed up:   *)
(* these do not count, so a middling candidate stays in a phase for long.  *)
MainQuestionsWithinPhase ==
  \A phase \in Phases :
    Cardinality({i \in DOMAIN responses :
                   /\ IsMain(i) /\ ~FollowedUp(i)
                   /\ responses[i].phase = phase}) <= MaxQuestions[phase]

-----------------------------------------------------------------------------
(* A steady candidate: asks for a question when there is none and answers  *)
(* the one there is, with the code editor or by voice.                     *)
Turn(r) ==
  \E kind \in Kinds \cap {"question", "answer", "code"} :
    /\ kind = "question" <=> Pending(responses) = {}
    /\ \E question \in Named(kind) \cap ({0} \cup Pending(responses)) :
         Begin(r, kind, question)

(* The goroutine of a request runs; the candidate does not give up.        *)
Fairness ==
  \A r \in Slots : WF_vars(Handle(r)) /\ SF_vars(Turn(r))

FairSpec == Spec /\ Fairness

Decisive == \A e \in evaluations : e.score \notin 3..7

(* A candidate whose answers are never in the follow-up range 3..7 gets    *)
(* through all phases and the interview completes by itself.               *)
DecisiveCandidateFinishes == []Decisive => <>(status = "completed")
=============================================================================
