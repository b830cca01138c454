-------------------------- MODULE InterviewService --------------------------
(***************************************************************************)
(* The handlers of one interview: the voice loop (handles/voice_loop.go),  *)
(* the text API and the completion of handles/interviews.go and the coding *)
(* round of handles/coding.go, working on the rows of that interview.      *)
(*                                                                         *)
(* A request is handled by a goroutine of its own that loads rows, calls   *)
(* the language model and writes rows back.  Nothing locks the interview   *)
(* and every store call commits by itself, so an action is one store call  *)
(* (with the model call before it, which touches no row) and a request     *)
(* carries what it has read from one action to the next.                   *)
(*                                                                         *)
(* A response's id is its position in "responses": ids and creation times  *)
(* both follow the order of creation.                                      *)
(***************************************************************************)
EXTENDS Phases, Sequences, FiniteSets

CONSTANTS
  Slots,          \* requests that can be in progress at the same time
  Kinds,          \* the endpoints the clients of this instance call
  Level,          \* CandidateLevel of the interview: no handler writes it
  AnswerScores,   \* the scores an evaluation may give
  MaxFollowUps,   \* maxFollowUps
  SummaryWindow,  \* answers a session summary is made from: the last five
  MaxResponses,   \* bound on the questions asked
  Naming,         \* the questions clients name, one of Namings
  Faults          \* what fails in this instance, subset of AllFaults

AllKinds == {"question", "answer", "skip", "hint", "generate", "respond",
             "followup", "code", "problem", "complete"}

(* A client may name any question, or do as the candidate page while no    *)
(* reply is lost: it names the pending question (0 here, which selects the *)
(* same one), and hands in code for any question of the coding phase,      *)
(* reviewed already or not.                                                *)
Namings == {"any", "page"}

(* The model fails to ask or evaluate; it fails to summarise; the server   *)
(* stops.                                                                  *)
AllFaults == {"llm", "summary", "crash"}

ASSUME ServiceAssumption ==
  /\ Kinds \subseteq AllKinds
  /\ Level \in StoredLevels
  /\ AnswerScores \subseteq Scores
  /\ MaxFollowUps \in Nat
  /\ SummaryWindow \in Nat \ {0}
  /\ MaxResponses \in Nat
  /\ Naming \in Namings
  /\ Faults \subseteq AllFaults

VARIABLES
  status,       \* interviews.status
  row,          \* interviews.current_phase, phase_question_count, skill_estimate
  summary,      \* interviews.session_summary: the answers it was made from
  finalScore,   \* interviews.score: the response scores it is the average of
  responses,    \* responses of the interview, in order of creation
  evaluations,  \* evaluations: one per response (unique index)
  contexts,     \* ids of the responses that have a follow_up_contexts row
  requests,     \* the requests in progress
  advanced,     \* history: the responses whose answer advanced the phase
  fired         \* completion webhooks started

vars == <<status, row, summary, finalScore, responses, evaluations, contexts,
          requests, advanced, fired>>

(* parent is 0 for a main question (ParentID nil, IsFollowUp false);       *)
(* problem counts how often a coding problem was generated into the row.   *)
Response ==
  [num : Nat, parent : Nat, phase : Phases,
   answer : {"none", "spoken", "code", "skipped"}, score : Scores,
   hinted : BOOLEAN, problem : Nat]

Evaluation == [response : Nat, score : Scores]

Labels == {"idle", "load", "responses", "record", "evaluation", "reread",
           "ask", "context", "advance", "summary", "create", "skip", "hint",
           "problem", "finish", "fire"}

Request ==
  [kind : AllKinds \cup {"none"}, pc : Labels, question : Nat,
   row : PhaseRow, summary : SUBSET Nat, seen : Seq(Response), current : Nat,
   score : Scores]

NoRequest ==
  [kind |-> "none", pc |-> "idle", question |-> 0, row |-> NewRow,
   summary |-> {}, seen |-> <<>>, current |-> 0, score |-> 0]

TypeOK ==
  /\ status \in {"in_progress", "completed"}
  /\ row \in PhaseRow
  /\ summary \subseteq Nat
  /\ finalScore \in Seq(Scores)
  /\ responses \in Seq(Response)
  /\ evaluations \subseteq Evaluation
  /\ contexts \subseteq Nat
  /\ requests \in [Slots -> Request]
  /\ advanced \subseteq Nat
  /\ fired \in Nat

-----------------------------------------------------------------------------
(* Reading a list of responses.                                            *)

Answered(response) == response.answer # "none"

(* Ascending("question_num", "created_at").                                *)
Precedes(list, i, j) ==
  \/ list[i].num < list[j].num
  \/ list[i].num = list[j].num /\ i < j

(* The last of the ids in that order, 0 if there is none.                  *)
LastOf(list, ids) ==
  IF ids = {} THEN 0
  ELSE CHOOSE i \in ids : \A j \in ids \ {i} : Precedes(list, j, i)

LastAsked(list) == LastOf(list, DOMAIN list)

(* Faulty variant: takes the first question of the list for the last.      *)
NextNumberAfterFirst(list) == IF list = <<>> THEN 1 ELSE list[1].num + 1

NextNumber(list) == IF list = <<>> THEN 1 ELSE list[LastAsked(list)].num + 1

Pending(list) == {i \in DOMAIN list : ~Answered(list[i])}

(* Faulty variant: forgets that the candidate may have answered already.   *)
FindAnyResponse(list, question) ==
  LastOf(list, {i \in DOMAIN list : question \in {0, i}})

(* question 0 asks for the latest pending response.                        *)
FindPendingResponse(list, question) ==
  LastOf(list, {i \in Pending(list) : question \in {0, i}})

(* Main question at the root of a chain of follow-ups.                     *)
ResolveRoot(list) ==
  LET root[i \in DOMAIN list] ==
        IF list[i].parent \in DOMAIN list THEN root[list[i].parent] ELSE i
  IN  root

CountFollowUpsForRoot(list, main) ==
  Cardinality({i \in DOMAIN list : /\ list[i].parent # 0
                                   /\ ResolveRoot(list)[i] = main})

FollowUpDue(list, current, score) ==
  /\ score \in 3..7
  /\ CountFollowUpsForRoot(list, ResolveRoot(list)[current]) < MaxFollowUps

(* computeFinalScore averages these, unanswered questions included.        *)
ResponseScores(list) == [i \in DOMAIN list |-> list[i].score]

(* Faulty variant: one answer short of the window.                         *)
SummarisedOneShort(list) ==
  LET answered == DOMAIN list \ Pending(list)
  IN  {i \in answered :
         Cardinality({j \in answered : Precedes(list, i, j)}) + 1 < SummaryWindow}

(* The answers a session summary is made from: the last ones of the list.  *)
Summarised(list) ==
  LET answered == DOMAIN list \ Pending(list)
  IN  {i \in answered :
         Cardinality({j \in answered : Precedes(list, i, j)}) < SummaryWindow}

NewResponse(num, parent, phase) ==
  [num |-> num, parent |-> parent, phase |-> phase, answer |-> "none",
   score |-> 0, hinted |-> FALSE, problem |-> 0]

-----------------------------------------------------------------------------
(* A request in progress.                                                  *)

At(r, pc) == requests[r].pc = pc
Handling(r, kinds) == requests[r].kind \in kinds

Goto(r, pc) == requests' = [requests EXCEPT ![r].pc = pc]
Done(r) == requests' = [requests EXCEPT ![r] = NoRequest]

(* The handler has read all responses and goes on with one of them; it     *)
(* keeps the list unless its next step is the last one to need it.         *)
Proceed(r, pc, current) ==
  requests' = [requests EXCEPT
    ![r].pc = pc,
    ![r].question = 0,
    ![r].seen = IF pc \in {"record", "skip", "hint", "problem"} THEN <<>>
                ELSE responses,
    ![r].current = current]

storeVars == <<status, row, summary, finalScore, responses, evaluations,
               contexts, advanced, fired>>
interviewVars == <<status, row, summary, finalScore, advanced, fired>>
responseVars == <<responses, evaluations, contexts>>

(* The endpoints that may append a question.                               *)
Asking == {"question", "answer", "skip", "generate", "followup"}

Room ==
  Len(responses) + Cardinality({r \in Slots : requests[r].kind \in Asking})
    < MaxResponses

(* The question ids a client may put into a request of this kind.          *)
Named(kind) ==
  CASE kind \in {"answer", "skip", "hint"} ->
         IF Naming = "any" THEN 0..Len(responses) ELSE {0}
    [] kind = "code" ->
         {i \in DOMAIN responses :
            Naming = "page" => responses[i].phase = "coding"}
    [] OTHER -> {0}

Begin(r, kind, question) ==
  /\ At(r, "idle")
  /\ kind \in Asking => Room
  /\ question \in Named(kind)
  /\ requests' = [requests EXCEPT ![r] =
       [NoRequest EXCEPT !.kind = kind, !.pc = "load", !.question = question]]
  /\ UNCHANGED storeVars

(* Faulty variants: skip accepts a completed interview; nobody asks.       *)
RefusesUnlessSkipping(kind) ==
  status = "completed" /\ kind \notin {"hint", "problem", "skip"}
NeverRefuses(kind) == FALSE

(* Every handler but hint and coding problem turns a completed interview   *)
(* away: 400, or the "already complete" body of the voice loop.            *)
Refuses(kind) == status = "completed" /\ kind \notin {"hint", "problem"}

RefuseCompleted(r) ==
  /\ At(r, "load")
  /\ Refuses(requests[r].kind)
  /\ Done(r)
  /\ UNCHANGED storeVars

LoadInterview(r) ==
  /\ At(r, "load")
  /\ ~Refuses(requests[r].kind)
  /\ requests' = [requests EXCEPT ![r].pc = "responses",
                                  ![r].row = row,
                                  ![r].summary = summary]
  /\ UNCHANGED storeVars

-----------------------------------------------------------------------------
(* Second read: each handler picks the response it works on.               *)

(* Faulty variant: no look for a pending question.                         *)
AlwaysCreates(r) ==
  /\ At(r, "responses")
  /\ Handling(r, {"question"})
  /\ Proceed(r, "create", 0)
  /\ UNCHANGED storeVars

(* GenerateAIVoiceQuestion: a pending question is returned, not a new one. *)
ReadForQuestion(r) ==
  /\ At(r, "responses")
  /\ Handling(r, {"question"})
  /\ IF FindPendingResponse(responses, 0) # 0
     THEN Done(r)
     ELSE Proceed(r, "create", 0)
  /\ UNCHANGED storeVars

(* SubmitAIVoiceAnswer *)
ReadForAnswer(r) ==
  LET pending == FindPendingResponse(responses, requests[r].question)
  IN  /\ At(r, "responses")
      /\ Handling(r, {"answer"})
      /\ IF pending # 0 THEN Proceed(r, "record", pending) ELSE Done(r)
      /\ UNCHANGED storeVars

(* SkipQuestion: a new question is asked even if there is nothing to skip. *)
ReadForSkip(r) ==
  LET pending == FindPendingResponse(responses, requests[r].question)
  IN  /\ At(r, "responses")
      /\ Handling(r, {"skip"})
      /\ Proceed(r, IF pending # 0 THEN "skip" ELSE "create", pending)
      /\ UNCHANGED storeVars

(* HintQuestion *)
ReadForHint(r) ==
  LET pending == FindPendingResponse(responses, requests[r].question)
  IN  /\ At(r, "responses")
      /\ Handling(r, {"hint"})
      /\ IF pending # 0 THEN Proceed(r, "hint", pending) ELSE Done(r)
      /\ UNCHANGED storeVars

(* GenerateInterviewQuestion asks whether or not a question is pending.    *)
ReadForGenerate(r) ==
  /\ At(r, "responses")
  /\ Handling(r, {"generate"})
  /\ Proceed(r, "create", 0)
  /\ UNCHANGED storeVars

(* SubmitInterviewResponse answers the latest question if it is pending.   *)
ReadForRespond(r) ==
  LET latest == LastAsked(responses)
  IN  /\ At(r, "responses")
      /\ Handling(r, {"respond"})
      /\ IF latest \in Pending(responses)
         THEN Proceed(r, "record", latest)
         ELSE Done(r)
      /\ UNCHANGED storeVars

(* Faulty variant: the latest question need not be answered.               *)
FollowsUpAnything(r) ==
  LET latest == LastAsked(responses)
  IN  /\ At(r, "responses")
      /\ Handling(r, {"followup"})
      /\ IF latest # 0 THEN Proceed(r, "ask", latest) ELSE Done(r)
      /\ UNCHANGED storeVars

(* GenerateInterviewFollowUp needs the latest question answered.           *)
ReadForFollowUp(r) ==
  LET latest == LastAsked(responses)
  IN  /\ At(r, "responses")
      /\ Handling(r, {"followup"})
      /\ IF latest \in DOMAIN responses \ Pending(responses)
         THEN Proceed(r, "ask", latest)
         ELSE Done(r)
      /\ UNCHANGED storeVars

(* SubmitCode takes any response of the interview, answered or not.        *)
ReadForCode(r) ==
  /\ At(r, "responses")
  /\ Handling(r, {"code"})
  /\ Proceed(r, "record", requests[r].question)
  /\ UNCHANGED storeVars

(* GetCodingProblem: the newest unanswered coding question; a problem that *)
(* is already stored is returned as it is.                                 *)
ReadForProblem(r) ==
  LET open == {i \in Pending(responses) : responses[i].phase = "coding"}
      newest == CHOOSE i \in open : \A j \in open : j <= i
  IN  /\ At(r, "responses")
      /\ Handling(r, {"problem"})
      /\ IF open # {} /\ responses[newest].problem = 0
         THEN Proceed(r, "problem", newest)
         ELSE Done(r)
      /\ UNCHANGED storeVars

(* CompleteInterview: the preloaded responses.                             *)
ReadForComplete(r) ==
  /\ At(r, "responses")
  /\ Handling(r, {"complete"})
  /\ Proceed(r, "finish", 0)
  /\ UNCHANGED storeVars

ReadResponses(r) ==
  \/ ReadForQuestion(r)
  \/ ReadForAnswer(r)
  \/ ReadForSkip(r)
  \/ ReadForHint(r)
  \/ ReadForGenerate(r)
  \/ ReadForRespond(r)
  \/ ReadForFollowUp(r)
  \/ ReadForCode(r)
  \/ ReadForProblem(r)
  \/ ReadForComplete(r)

-----------------------------------------------------------------------------
(* Recording an answer.                                                    *)

(* Faulty variant: "Answer" is missing from the list of columns to update. *)
RecordScoreOnly(r, score) ==
  /\ At(r, "record")
  /\ responses' = [responses EXCEPT ![requests[r].current].score = score]
  /\ requests' = [requests EXCEPT ![r].pc = "evaluation", ![r].score = score]
  /\ UNCHANGED <<evaluations, contexts>>
  /\ UNCHANGED interviewVars

(* Evaluate, then write the answer and its score over whatever is there.   *)
RecordAnswer(r, score) ==
  LET current == requests[r].current
  IN  /\ At(r, "record")
      /\ responses' = [responses EXCEPT
           ![current].answer = IF Handling(r, {"code"}) THEN "code" ELSE "spoken",
           ![current].score = score]
      /\ requests' = [requests EXCEPT ![r].pc = "evaluation",
                                      ![r].score = score]
      /\ UNCHANGED <<evaluations, contexts>>
      /\ UNCHANGED interviewVars

(* Faulty variant: no unique index on response_id.                         *)
NeverEvaluated(id) == FALSE

Evaluated(id) == \E e \in evaluations : e.response = id

RecordEvaluation(r) ==
  LET request == requests[r]
  IN  /\ At(r, "evaluation")
      /\ ~Evaluated(request.current)
      /\ evaluations' = evaluations \cup
           {[response |-> request.current, score |-> request.score]}
      /\ CASE request.kind = "answer"  -> Goto(r, "reread")
           [] request.kind = "code"    -> Goto(r, "advance")
           [] request.kind = "respond" -> Done(r)
      /\ UNCHANGED <<responses, contexts>>
      /\ UNCHANGED interviewVars

(* The unique index on response_id rejects a second evaluation: 500, with  *)
(* the answer already overwritten.                                         *)
RejectEvaluation(r) ==
  /\ At(r, "evaluation")
  /\ Evaluated(requests[r].current)
  /\ Done(r)
  /\ UNCHANGED storeVars

(* Faulty variant: a follow-up answer advanced the phase as well.          *)
DecideTurnForAnyAnswer(r) ==
  LET current == requests[r].current
  IN  /\ At(r, "reread")
      /\ Handling(r, {"answer"})
      /\ IF FollowUpDue(responses, current, requests[r].score)
         THEN Proceed(r, "ask", current)
         ELSE Proceed(r, "advance", current)
      /\ UNCHANGED storeVars

(* The voice loop decides on the fresh list how the turn goes on.          *)
DecideTurn(r) ==
  LET current == requests[r].current
  IN  /\ At(r, "reread")
      /\ Handling(r, {"answer"})
      /\ CASE FollowUpDue(responses, current, requests[r].score) ->
                Proceed(r, "ask", current)
           [] /\ ~FollowUpDue(responses, current, requests[r].score)
              /\ responses[current].parent = 0 ->
                Proceed(r, "advance", current)
           [] OTHER -> Proceed(r, "summary", current)
      /\ UNCHANGED storeVars

SkipCurrent(r) ==
  LET current == requests[r].current
  IN  /\ At(r, "skip")
      /\ responses' = [responses EXCEPT ![current].answer = "skipped",
                                        ![current].score = 5]
      /\ Goto(r, "reread")
      /\ UNCHANGED <<evaluations, contexts>>
      /\ UNCHANGED interviewVars

RereadAfterSkip(r) ==
  /\ At(r, "reread")
  /\ Handling(r, {"skip"})
  /\ Proceed(r, "create", requests[r].current)
  /\ UNCHANGED storeVars

-----------------------------------------------------------------------------
(* Asking the next question.                                               *)

(* A follow-up of the text API is stored with the default phase.           *)
AskFollowUp(r) ==
  LET request == requests[r]
      phase == IF request.kind = "followup" THEN "introduction"
               ELSE PhaseOf(request.row.phase)
  IN  /\ At(r, "ask")
      /\ responses' = Append(responses,
           NewResponse(request.seen[request.current].num + 1,
                       request.current, phase))
      /\ requests' = [requests EXCEPT ![r].pc = "context",
                                      ![r].current = Len(responses')]
      /\ UNCHANGED <<evaluations, contexts>>
      /\ UNCHANGED interviewVars

RecordFollowUpContext(r) ==
  /\ At(r, "context")
  /\ contexts' = contexts \cup {requests[r].current}
  /\ Done(r)
  /\ UNCHANGED <<responses, evaluations>>
  /\ UNCHANGED interviewVars

CreateQuestion(r) ==
  LET request == requests[r]
  IN  /\ At(r, "create")
      /\ responses' = Append(responses,
           NewResponse(NextNumber(request.seen), 0, PhaseOf(request.row.phase)))
      /\ Done(r)
      /\ UNCHANGED <<evaluations, contexts>>
      /\ UNCHANGED interviewVars

GiveHint(r) ==
  /\ At(r, "hint")
  /\ responses' = [responses EXCEPT ![requests[r].current].hinted = TRUE]
  /\ Done(r)
  /\ UNCHANGED <<evaluations, contexts>>
  /\ UNCHANGED interviewVars

StoreProblem(r) ==
  /\ At(r, "problem")
  /\ responses' = [responses EXCEPT ![requests[r].current].problem = @ + 1]
  /\ Done(r)
  /\ UNCHANGED <<evaluations, contexts>>
  /\ UNCHANGED interviewVars

-----------------------------------------------------------------------------
(* The interview row.                                                      *)

(* Faulty variants: CurrentPhase is missing from the columns to update; the *)
(* last answer of the plan is treated like any other.                      *)
RowWithoutPhase(new) == [new EXCEPT !.phase = row.phase]
NeverConcludes(advancement) == FALSE

(* The three columns that an advancement writes, and ShouldComplete.       *)
SavedRow(new) == new
Concludes(advancement) == advancement.complete

(* The new row is computed from the one the request loaded at its start.   *)
AdvancePhase(r) ==
  LET advancement ==
        ComputePhaseAdvancement(requests[r].row, Level, requests[r].score)
      next == CASE Handling(r, {"answer"}) ->
                     IF Concludes(advancement) THEN "finish" ELSE "summary"
                [] Handling(r, {"code"}) ->
                     IF Concludes(advancement) THEN "reread" ELSE "idle"
  IN  /\ At(r, "advance")
      /\ row' = SavedRow(advancement.row)
      /\ advanced' = advanced \cup {requests[r].current}
      /\ requests' = [requests EXCEPT ![r] =
           IF next = "idle" THEN NoRequest
           ELSE [@ EXCEPT !.pc = next, !.row = advancement.row]]
      /\ UNCHANGED <<status, summary, finalScore, fired>>
      /\ UNCHANGED responseVars

RereadAfterCode(r) ==
  /\ At(r, "reread")
  /\ Handling(r, {"code"})
  /\ Proceed(r, "finish", requests[r].current)
  /\ UNCHANGED storeVars

(* What generateSessionSummary returns when the model fails: the summary   *)
(* the request loaded, if the call ends with an error; the empty text, if  *)
(* the model answers with a blank, which counts as a success.              *)
FailedSummaries(request) == {request.summary, {}}

(* A summary of the last answers seen, or what a failed one leaves.  Every *)
(* request that gets here has an answer of its own in seen.                *)
UpdateSummary(r) ==
  /\ At(r, "summary")
  /\ \/ summary' = Summarised(requests[r].seen)
     \/ "summary" \in Faults /\ summary' \in FailedSummaries(requests[r])
  /\ Goto(r, "create")
  /\ UNCHANGED <<status, row, finalScore, advanced, fired>>
  /\ UNCHANGED responseVars

(* finalizeInterviewTurn, the end of SubmitCode and CompleteInterview.     *)
CompleteInterview(r) ==
  /\ At(r, "finish")
  /\ status' = "completed"
  /\ finalScore' = ResponseScores(requests[r].seen)
  /\ Goto(r, "fire")
  /\ UNCHANGED <<row, summary, advanced, fired>>
  /\ UNCHANGED responseVars

FireInterviewCompleted(r) ==
  /\ At(r, "fire")
  /\ fired' = fired + 1
  /\ Done(r)
  /\ UNCHANGED <<status, row, summary, finalScore, advanced>>
  /\ UNCHANGED responseVars

-----------------------------------------------------------------------------
(* Failures.                                                               *)

(* The language model fails or answers nonsense: 500, nothing more done.   *)
ModelFails(r) ==
  /\ "llm" \in Faults
  /\ requests[r].pc \in {"record", "ask", "create", "hint", "problem"}
  /\ Done(r)
  /\ UNCHANGED storeVars

(* The server stops: the requests in progress are gone, the rows stay.     *)
Crash ==
  /\ "crash" \in Faults
  /\ \E r \in Slots : ~At(r, "idle")
  /\ requests' = [r \in Slots |-> NoRequest]
  /\ UNCHANGED storeVars

Handle(r) ==
  \/ RefuseCompleted(r)
  \/ LoadInterview(r)
  \/ ReadResponses(r)
  \/ \E score \in AnswerScores : RecordAnswer(r, score)
  \/ RecordEvaluation(r)
  \/ RejectEvaluation(r)
  \/ DecideTurn(r)
  \/ SkipCurrent(r)
  \/ RereadAfterSkip(r)
  \/ AskFollowUp(r)
  \/ RecordFollowUpContext(r)
  \/ CreateQuestion(r)
  \/ GiveHint(r)
  \/ StoreProblem(r)
  \/ AdvancePhase(r)
  \/ RereadAfterCode(r)
  \/ UpdateSummary(r)
  \/ CompleteInterview(r)
  \/ FireInterviewCompleted(r)

Init ==
  /\ status = "in_progress"
  /\ row = NewRow
  /\ summary = {}
  /\ finalScore = <<>>
  /\ responses = <<>>
  /\ evaluations = {}
  /\ contexts = {}
  /\ requests = [r \in Slots |-> NoRequest]
  /\ advanced = {}
  /\ fired = 0

Next ==
  \/ \E r \in Slots, kind \in Kinds :
       \E question \in Named(kind) : Begin(r, kind, question)
  \/ \E r \in Slots : Handle(r)
  \/ \E r \in Slots : ModelFails(r)
  \/ Crash

Spec == Init /\ [][Next]_vars

-----------------------------------------------------------------------------
(* What holds whatever the clients send and however requests overlap.      *)

(* An evaluation is only ever stored for a question that has its answer:   *)
(* the answer is written first (voice_loop.go:187,193, coding.go:62,67).   *)
EvaluationsAreOfAnswers ==
  \A e \in evaluations : e.response \in DOMAIN responses \ Pending(responses)

(* A follow-up is asked about an answer: its parent is an older response   *)
(* that is answered, so every chain of parents ends at a main question and *)
(* the walk of resolveRootResponse terminates.                             *)
FollowUpsHaveAnsweredParents ==
  \A i \in DOMAIN responses : responses[i].parent # 0 =>
    /\ responses[i].parent < i
    /\ Answered(responses[responses[i].parent])

(* Calling /question again without answering returns the pending question  *)
(* rather than creating a duplicate, and every other way to a new question *)
(* goes through the answer of the old one (whatwehave.md:139): at most one *)
(* question waits for an answer, even after failures and restarts.         *)
AtMostOnePending == Cardinality(Pending(responses)) <= 1

(* The cap on follow-ups per main question holds in the voice loop even    *)
(* when answers overlap, although it is checked on a list that may be old  *)
(* when the follow-up is stored: only the request that got its evaluation  *)
(* past the unique index asks, so a chain grows at one end, one link at a  *)
(* time.  (The text API asks follow-ups without a cap.)                    *)
FollowUpsCapped ==
  "followup" \notin Kinds =>
    \A i \in DOMAIN responses : responses[i].parent = 0 =>
      CountFollowUpsForRoot(responses, i) <= MaxFollowUps

FollowedUp(id) == \E i \in DOMAIN responses : responses[i].parent = id

(* However submissions overlap, a voice or code answer has one outcome: it *)
(* is followed up once, or it advances the phase, never both and never     *)
(* twice.  (The text API may ask any number of follow-ups.)                *)
OneOutcomePerAnswer ==
  "followup" \notin Kinds =>
    /\ \A i \in advanced : ~FollowedUp(i)
    /\ \A i, j \in DOMAIN responses :
         responses[i].parent = responses[j].parent /\ responses[i].parent # 0
           => i = j

(* The phase advances for a stored evaluation, and once per evaluation: a  *)
(* question submitted twice does not count twice.                          *)
OneAdvancePerEvaluation ==
  [][\A r \in Slots : AdvancePhase(r) =>
       /\ Evaluated(requests[r].current)
       /\ requests[r].current \notin advanced]_vars
=============================================================================
