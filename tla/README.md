# Verification of the interview platform

This directory holds TLA+ models of the interview platform in `src/`, the TLC
configurations that check them on small instances, and proofs that TLAPS
checks for every instance.  Paths below are relative to `src/`, line numbers
belong to the commit the models were written from.

## 1. The system

The backend is a Go service (framework `eskeon/scale`, GORM, PostgreSQL); the
frontend is a Next.js application.  A partner creates an interview, sends the
candidate to the interview page, the page runs the interview question by
question against the API, and the result is reported back by a webhook and by
report endpoints.  Every judgement (next question, evaluation, follow-up,
summary, coding problem) is a call to an external language model.

| Component | State | Operations | Interacts with |
|---|---|---|---|
| Interview plan, `handles/phase.go` | columns `current_phase`, `phase_question_count`, `skill_estimate` of `interviews` | `computePhaseAdvancement`, `phaseContextFromInterview` (pure) | called by the voice loop and the coding round |
| Voice loop, `handles/voice_loop.go` | rows of `interviews`, `responses`, `evaluations`, `follow_up_contexts` | `GenerateAIVoiceQuestion`, `SubmitAIVoiceAnswer`, `SkipQuestion`, `HintQuestion`, `finalizeInterviewTurn` | model client, plan, webhook |
| Coding round, `handles/coding.go` | the same rows, `responses.response_metadata` | `SubmitCode`, `GetCodingProblem` | model client, plan, webhook |
| Text API and completion, `handles/interviews.go` | the same rows | `CreateInterview`, `GenerateInterviewQuestion`, `SubmitInterviewResponse`, `GenerateInterviewFollowUp`, `CompleteInterview`, read-only views | model client, webhook |
| Model client, `handles/ai_helpers.go` | none | one HTTP call per use; `generateSessionSummary` keeps the old summary after an error | external service |
| Completion webhook, `handles/webhook.go` | `webhook_logs`; a goroutine per completion | `FireInterviewCompleted`: up to three attempts with backoff | partner's callback |
| Reports, `handles/report.go` | `interview_reports`, one row per interview | generate on first read, transcript | model client |
| Access, `handles/auth.go`, `handles/session.go`, `handles/ratelimit.go` | partners, API keys, candidate sessions, used launch tokens, in-memory counters | authenticate, exchange a launch token, throttle | in front of every handler |
| Interview page, `frontend/app/interview/[id]/page.tsx` and its hooks | recorder, player, current question, page phase | record, submit, skip, hint, end, play | voice loop, coding round |
| Dashboard, library, results, response, report and replay pages, `frontend/app/page.tsx`, `history/`, `results/`, `responses/`, `interviews/` | what each page has loaded; messages (`Toast.tsx`) | load when mounted, link to other places, create an interview, load the list again | the text API's read-only views, reports |
| Migrations and commands, `migration/`, `cmd/` | `schema_migrations` | apply once, create partners and keys | database |

What is hard here:

* **Nothing locks an interview.**  Each request runs in its own goroutine, every
  store call commits by itself, and a handler waits for the language model for
  up to 45 seconds between reading rows and writing them.  Decisions (is a
  question pending? is the follow-up cap reached? is the interview complete? which
  phase comes next?) are taken on rows that may be old when they are acted on.
* **Handlers fail half way.**  The model can fail between two writes, the server
  can stop between any two of them, and there is no recovery code: the rows as
  they are left must still lead to a sensible interview.
* **Three ways to answer** (voice, text, code) work on the same rows with
  different rules for what they accept and what they advance.
* **The browser cancels nothing.**  A page that is left or reloaded has requests on their
  way, an older answer overtakes a newer one, two references to the question in hand
  are updated at different times, and lists the user clicks on are out of date.
* **The plan is arithmetic on three columns** spread over many turns, with
  defaults for unset columns that overlap with legal values.

What makes the components correct, in a sentence each:

* Plan: every evaluated main answer counts exactly once, phases come in the
  documented order and length, the difficulty follows the answers, and answering ends
  the interview.
* Handlers: an answer that is evaluated is followed up or it advances, once, whatever
  overlaps; follow-ups are capped and hang on answers.  One request at a time, at most
  one question is pending, an evaluated answer stays as it is unless a program is handed in
  for it, a completed interview stays as it is and is announced once.
* Webhook: a delivery starts after the completion is stored, posts three times
  at most and never again once it was acknowledged.
* Reports: one report per interview, and every reader gets that one.
* Access: a launch token opens one session; a practice has one interview; within the
  length of a window an identity gets at most twice its limit through, and once more for every restart.
* Page: whatever overlaps, it never waits for nothing, submits code once at a time, and
  sends the candidate away only from an interview that is over.
* Coding round on the page: a program names a question, the round never gets ahead of the
  questions that were reviewed, and the review on the screen is the stored one.
* The other pages: the outcome that is shown is that of a completed interview, lists lead to
  results of such only, and a load that fails is told and ends.

## 2. Plan of the modules

Status: (done) in this directory, (next) planned in this order.

1. (done) `Phases`: the pure functions of `phase.go`, as operators.
2. (done) `PhaseMachine` over `Phases`: the abstract specification of an
   interview, with `PhaseMachineProofs`.
3. (done) `InterviewService` over `Phases`: every handler that changes the rows of an
   interview, with any number of requests in progress.
4. (done) `SerialInterview` over `InterviewService`: one request at a time;
   `InterviewService` implements `PhaseMachine` there.
5. (done) `InterviewServiceProofs`, with `PhasesProofs`: what holds for any number of
   requests.
6. (done) `RateLimiter` and, over it, `Gateway`: `CreateInterview` with its reuse by `practice_id`,
   the exchange of launch tokens, session expiry and scope.
7. (done) `Aftermath`: completion, delivery attempts of the webhook, and the report that
   is generated on first read and stored.
8. (done) `PartnerFlow` over `Gateway` and `Aftermath`: a partner's use of the service from
   end to end, with restarts.
9. (done) `CandidatePage`: page phases, recorder, player and buttons, over what the server
   may answer.
10. (done) `CodingRound`: the round between the editor on the page and the server, which
   tells questions and programs apart.
11. (done) `Console`: the pages before and after an interview, in one tab.
12. (done) `PartnerFlowProofs`, `CandidatePageProofs`, `CodingRoundProofs`, `ConsoleProofs`:
   the safety properties of these for every instance.
13. (done) `SerialInterviewProofs`: the invariants of `SerialInterview`, its action property
   and the refinement `ImplementsPlan`.
14. (next) Questions that are told apart in the voice part of `CandidatePage`, so that an
   answer can be compared with the question it was recorded for.
15. (next) The migration runner: a stop between a migration and its record.

## 3. The modules

**`Phases`** keeps the skill estimate in half points (0..20 for 0.0..10.0), because it
only ever moves by 0.5.  `ComputePhaseAdvancement` returns what the three columns are
set to and the `ShouldComplete` flag.  `PhaseRow` allows the rows that were written
before the phase columns existed (empty phase, estimate 0).  `MaxQuestions` is a
parameter; the run `phase_machine` uses the program's table.

**`PhaseMachine`** is what the plan promises, seen from the interview row:
`MainAnswer(score)`, `Finish`, `EndEarly`.  The answer and the end are separate
writes in the handlers, so an interrupted request leaves `wrap_up` full
with the interview open; `MaxLostFinishes` bounds how often that happens.

**`InterviewService`** has the rows of one interview as state (`status`, `row`,
`summary`, `finalScore`, `responses`, `evaluations`, `contexts`), the `requests` in
progress, and two histories (`advanced`, `fired`).  A request moves through
labels; each action is one store call together with the model call before it, which
touches no row.  What a handler has read (`row`, `summary`, `seen`, `current`,
`score`) is kept in the request, so a decision taken on an old list is taken on that
list.

| Handler | Actions, in order |
|---|---|
| every handler | `Begin`, `LoadInterview` or `RefuseCompleted` |
| `GenerateAIVoiceQuestion` | `ReadForQuestion`, `CreateQuestion` |
| `SubmitAIVoiceAnswer` | `ReadForAnswer`, `RecordAnswer`, `RecordEvaluation`/`RejectEvaluation`, `DecideTurn`, then `AskFollowUp`, `RecordFollowUpContext`; or `AdvancePhase` and `CompleteInterview`, `FireInterviewCompleted`; or [`AdvancePhase`,] `UpdateSummary`, `CreateQuestion` |
| `SkipQuestion` | `ReadForSkip`, [`SkipCurrent`, `RereadAfterSkip`,] `CreateQuestion` |
| `HintQuestion` | `ReadForHint`, `GiveHint` |
| `SubmitCode` | `ReadForCode`, `RecordAnswer`, `RecordEvaluation`/`RejectEvaluation`, `AdvancePhase`, [`RereadAfterCode`, `CompleteInterview`, `FireInterviewCompleted`] |
| `GetCodingProblem` | `ReadForProblem`, `StoreProblem` |
| `GenerateInterviewQuestion` | `ReadForGenerate`, `CreateQuestion` |
| `SubmitInterviewResponse` | `ReadForRespond`, `RecordAnswer`, `RecordEvaluation`/`RejectEvaluation` |
| `GenerateInterviewFollowUp` | `ReadForFollowUp`, `AskFollowUp`, `RecordFollowUpContext` |
| `CompleteInterview` | `ReadForComplete`, `CompleteInterview`, `FireInterviewCompleted` |

`ModelFails` is a failing model call (HTTP 500, nothing more done), `Crash` a stop of
the server: requests are gone, rows stay.  `CompleteInterview` reads the interview and
its responses with one call that preloads; GORM runs it as two queries, which is
`LoadInterview` and `ReadForComplete`.  `SubmitCode` loads one response by id where
the other handlers load the list; responses are never deleted, so that read cannot
fail for an id that was shown to a client.

Abstractions: texts are left out; an answer is one of `none`, `spoken`, `code`,
`skipped` (transcription rejects empty transcripts, `ai_helpers.go:397-400`, and the other
endpoints reject empty bodies, so a recorded answer is never empty).  A hint is a flag and a
coding problem a counter of how often one was generated.  A session summary is the
set of answers it was made from; `FailedSummaries` is what a failed call leaves, the summary that was
loaded after an error and the empty one after a blank answer, which `callGroqText` returns
without an error.  `finalScore` is the sequence of scores the average is
taken of.  A response's id is its position; ids and creation times follow the
order of the inserts.

**`SerialInterview`** adds the assumption of one slot, and states what the handlers promise then, among it `ImplementsPlan`, the
refinement: `level <- Level`, `answers <- Cardinality(advanced)`, and `status` and `row` are
those of the service.  What clients may name is a constant, `Naming`: any question, or with `"page"` what the interview page
names while no reply is lost, the pending question in a voice request and any question of
the coding phase, reviewed or not, in a code submission.  Every step but `AdvancePhase` and `CompleteInterview` is a
stutter of the plan.  Its `FairSpec` describes a candidate who keeps answering.

**`RateLimiter`** is `allow`: a count and an end of the window per identity.  The code's
map has a bucket only for identities it has seen; a bucket whose window has passed is
replaced before it is looked at, so a missing one is one that has passed.  `admitted`
is a history that nothing empties: for each call that passed, the tick and the number of restarts before
it.  `Forget` is what a restart does to the map.

**`Gateway`** has the rows `interviews`, `tokens` (every launch token that was handed out; the
code keeps none, the claims are in the token itself), `jtis` and `sessions`, and the
requests that create or exchange, store call by store call.

| Handler | Actions, in order |
|---|---|
| `CreateInterview` | `ReceiveCreate`, [`FindInterview`,] `InsertInterview` |
| `ExchangeSession` | `ReceiveExchange`, `CheckToken`, `ClaimToken`, `StoreSession` |
| middleware of the other calls | `Admitted` over `Allow`, in `PartnerFlow!Call` |

**`Aftermath`** has the completed interviews, a count of stored answers for each, report rows,
and the webhook goroutines in progress.  Histories: `posts`, what the receivers got, and
`replies`, which reports were returned.

| Code | Actions, in order |
|---|---|
| an answer, a completion | `LoadForWrite`, `StoreAnswer` or `Complete` |
| `GetInterviewReport` | `LoadForReport`, `FindReport`, `ReadAnswers`, `StoreReport` |
| `FireInterviewCompleted` | `LoadForWebhook`, `Attempt` until acknowledged or `GivesUp` |

A report is the pair of the narrative (one per request) and the answers it was computed from: two
computations always differ.  An attempt is lost, or received and acknowledged, or
received without the sender learning of it.

**`PartnerFlow`** composes the two: a slot holds a request of either.  A call of a known key or of a
session that has not expired passes the limiter and the scope check in one step, for the
rows these read do not change here.  `Crash` ends requests and deliveries and takes the
limiter's map with it (`Forget`); `MaxRestarts` bounds it.

**`CandidatePage`** is one browser tab.  JavaScript runs a task at a time, so an action is a task: a
click, an answer that arrives, an event of a recorder or of an audio element.

| Code | State and actions |
|---|---|
| `page.tsx`: `phase`, `initializedRef`, `questionIdRef`, `lastTurnCompletedRef`, `codeSubmitting`, `partnerRedirectRef`, handoff | `phase`, `started`, `asked`, `lastDone`, `submitting`, `returnTo`, `handoff` |
| handoff effect, `handleStart`, `handleSkip`, `handleHint`, `handleEndInterview`, `handleCodeSubmit`, `handleCodingContinue` | `Init` and `Reload` send the exchange; `HandleStart`, `SkipOrHint`, `HandleEndInterview`, `HandleCodeSubmit`, `HandleCodingContinue`; their second halves, after the `await`, are `ExchangeAnswered`, `TurnArrives`/`TurnFails`, `EndAnswered`, `CodeReviewed` |
| `useVoiceRecorder` | `recorders` (each asking for permission, recording, or stopping), `recorder`, `stream`, `isRecording`; `StartRecording`, `MicGranted`, `MicDenied`, `StopPressed`, `RecorderFails`, `RecorderStops` |
| `useAudioPlayer` | `prompts` (each being fetched, starting, playing, or paused too early), `player`; `PlayAudio`, `StopAudio`, `PromptFetched`, `PromptPlays`, `PromptFails`, `PromptEnds` |
| fetches | `calls`; `Serve` is the server, with `Replies` for what it may answer |

Nothing that was started is cancelled: an older turn is shown when it arrives, a prompt that
was being fetched when another began still plays, a second click on Speak opens a second recorder.  A
prompt that is paused before `play()` has resolved runs its callback (the promise is
rejected), one that is paused later does not.  `Reload` keeps what the tab keeps: the session token and the
URL.  The server is reduced to `over` and `claimed`; any answer may fail or get lost.

**`CodingRound`** has both ends of the round.  The page keeps two references to its question,
`questionIdRef` (`shown`) from the turn that opened the round and `codingResponseId` (`target`)
from the problem that is fetched afterwards; a program goes to the second, or the
first while there is none.  The server is the list of questions with the program each one's answer and
only evaluation are about, and the place of the round in the plan (`advances`).  A request that waits for the model
between its reads and its writes is handled in steps, and any number of them are under way.

| Code | Actions |
|---|---|
| `GenerateAIVoiceQuestion`, `SkipQuestion` | `LoadForQuestion` or `LoadForSkip`, then `CreateQuestion` |
| `GetCodingProblem` | `ServeProblem` |
| `SubmitCode` | `LoadForCode`, `StoreProgram`, `InsertEvaluation`, `AdvancePhase` from the row that was loaded first |
| a failing model or store call, a request without a question, a stop of the server | `Breaks`, before any of these steps |
| `enterCodingMode`, `handleCodeSubmit`, `handleCodingContinue`, `handleSkip` | `TurnArrives`/`TurnFails` with `EnterCodingMode`, `ProblemArrives`, `Edit`, `HandleCodeSubmit`, `CodeReviewed`, `HandleCodingContinue`, `HandleSkip` |
| a reload of the page | `Reload`: the state of the page is new, its requests are still handled |

`Reply` puts the answer on its way, loses it, or (after a reload) has nobody to give it to.  `Faults` names what
may go wrong: requests that are refused, problems that cannot be fetched, answers that are
lost, and a candidate who goes on editing while a review is on its way.

**`Console`** is one tab over the other pages: a `Place` is a page with its parameters, `Loads` what its
effect requests when it is mounted, `Screen` whether the page shows data, `shown` the data with
the place they were loaded for.  Requests that are awaited together are one fetch whose parts
are read one after the other, so that the parts may see different states of an
interview; it settles when the last one is in or the first one fails.  `Settled` is the continuation of a
mount that may be gone.  Links come from what is on the screen (`LinkOf`, `RecentLinks`,
`LibraryLinks`, `CardLinks`), the menu, the address bar (`AddressBar`: the results, reports and replay of any interview, completed or not, and any
response) and the history (`Back`); `EndInterview` is End on the interview page, which goes on to the
results whether or not the completion was stored; `HandleStart` creates an interview and goes there when the answer comes.
`InterviewGoesOn` is whatever happens to interviews in other browsers meanwhile.  One assumption is
the framework's: a page whose path or parameter changes is mounted anew.

`MCPhaseMachine`, `MCInterviewService`, `MCSerialInterview` and `MCPartnerFlow` hold the values
that a configuration cannot write down (phase tables, limits, symmetry sets).

## 4. The runs

| Run | Question it asks | Bounds |
|---|---|---|
| `phase_machine` | Does the plan count every answer, respect the maxima and conclude? | the program's table, all levels, all scores 0..10, two interrupted finishes |
| `serial` | Do the handlers keep the interview consistent and implement the plan to its end, with failing models and restarts anywhere? | one slot, six questions (the plan takes six), scores 5 and 9, one question per phase, one follow-up |
| `steady` | Does every turn count once, do phases keep to their maxima apart from followed-up answers, and does a decisive candidate get to the end? | one slot, seven questions (the plan takes six), scores 5 and 9, code for any coding question, summary of two answers |
| `voice_concurrent` | What do overlapping voice requests keep? | two slots, three questions, any question named |
| `mixed_concurrent` | What do overlapping requests of all three ways to answer keep? | two slots, two questions |
| `candidate_page` | Does the page survive buttons, recordings, prompts and answers in any order? | four buttons, one reload |
| `partner_flow` | Do rows, reports and announcements agree when requests overlap, inserts fail and the server restarts? | two slots, four requests, one partner and practice, two interviews, two tokens, three ticks, one restart |
| `completion_posts` | Is a completion posted three times at most? (violated) | two slots, four requests, one interview, no faults |
| `code_follow_up` | Do only main answers advance? (violated) | as `serial`, seven questions, no faults |
| `coding_round` | Do page, plan and reviews agree when answers are late, lost or overtaken? | two questions of the plan and one more, three programs, one reload, all faults |
| `console` | Does every page stop loading, with the outcome of completed interviews only or a message? | one interview and one created, one response each, three moves, opening the tab included |
| `returns_to_partner` | Does a partner's candidate end on the partner's site? (violated after a reload) | three buttons, one reload |

Why the bounds are enough.  The handlers compare scores only with 3, 5, 7 and 8:
5 and 9 stand for a middling and a strong answer (a weak one differs only in the
estimate), and `phase_machine` takes every score.  With one question per phase each advance changes the phase, so
that six questions cover the whole plan, and with one follow-up the cap is
reached.  In `serial` six questions reach the end of the plan and the loss of the completion there; that a
question asked after that counts in the full `wrap_up` takes a seventh and is left to the theorem
`HandlersImplementPlan` and to `phase_machine`.  Two overlapping requests are enough for each hazard listed: every one of
them is a request acting on what another has changed since its read.  Three questions leave
room for a main question, its follow-up and a question asked by the other
request.  `MaxResponses` bounds the questions asked: a request that may ask starts only if
there is room for its question.

Four buttons are one more than it takes to have two turns on their way and a recording between them
(start, skip, speak, continue or end); one reload suffices, because it resets everything the page
has.  In `partner_flow` each hazard is a pair of requests on one row after at most two
requests that prepare it (create, exchange, complete, read: four), addresses have a limit of one and the
other identities of two, and a window is one tick of three, so that a window ends and
another begins, and one restart falls between two calls of a window.  The second interview has a callback, so that
two deliveries of one completion take all four requests.  The three attempts of a delivery are the program's.  In `coding_round` a third
question lets the round go on beside a question that is still being reviewed, three programs
are one handed in before the reload, one after it and one that overtakes; in `console` there is an
interview that changes under the tab and one that is created, and the
third move is the one made while the answers of the first two places are on their way.  Requests, interviews and
tokens are bounded by `MaxRequests`, `MaxInterviews` and `MaxTokens`, late answers by
`MaxAnswers`.

Fairness.  `PhaseMachine!FairSpec` assumes that the candidate keeps answering and that a
due finish is not put off forever; nothing forces `EndEarly`.
`SerialInterview!FairSpec` assumes weak fairness of a request in progress (its goroutine
runs, model calls have a timeout of 45 seconds) and strong fairness of the candidate's
next turn, which is only possible between requests.

`CandidatePage!FairSpec` assumes that the browser goes on (`Background`): a fetch settles, a
recorder that was stopped says so, a prompt is fetched, plays and ends.  Nothing is assumed of
the candidate, who may neither press a button nor answer the question for the microphone.
`Console!FairSpec` is weak fairness of `Network`: a request is handled or fails, and its
continuation runs; nothing is assumed of the user or of the interviews.
`partner_flow` and `coding_round` have safety properties only.

Deadlock is checked in `serial`, `voice_concurrent` and `mixed_concurrent`.  Elsewhere the system really
comes to an end: the interview is completed or has used up its questions
(`phase_machine`, `steady`, `code_follow_up`), the candidate has left
(`candidate_page`, `returns_to_partner`), the last request, program or move of the bounds is made
and answered (`partner_flow`, `completion_posts`, `coding_round`, `console`).

## 5. What is proved

**The plan.**  `PhaseMachineProofs` proves, for every table of phase maxima, every level and every
sequence of scores: `PlanTypeCorrect` (type invariant), `AnswersAccountedFor`
(`EveryAnswerCounted`), `PhasesNeverOverfull` (`PhaseNeverOverfull`) and
`WeakAnswersNeverHarder` (the action property `WeakAnswerNeverHarder`).  The only
assumption is `MaxQuestionsAssumption`: every maximum is a positive number.
The inductive invariant is the conjunction of the type invariant with the two
others: `EveryAnswerCounted` alone is not inductive, since a phase that was overfull would
move on with a count the table does not account for.  What the functions of `Phases`
return is proved in `PhasesProofs`, which the proofs of the plan and of the handlers use.

**The handlers.**  `InterviewServiceProofs` proves, for any number of requests in progress, any
clients, any scores and any failures (`ServiceAssumption` only says of which
sets the constants are):

| Theorem | States |
|---|---|
| `ServiceTypeCorrect` | `TypeOK` |
| `EvaluationsHaveAnswers` | `EvaluationsAreOfAnswers` |
| `FollowUpsHangOnAnswers` | `FollowUpsHaveAnsweredParents` |
| `OneOutcome` | `OneOutcomePerAnswer` |
| `AdvancesOnce` | the action property `OneAdvancePerEvaluation` |
| `CapHolds` | `FollowUpsCapped` |

There are three inductive invariants.  `ServiceInv` adds to the first three what a request
may rely on while others change the rows under it (`SlotInv`): the list it has read is no
longer than the stored one, the response it works on exists, and at the labels after
the answer is written it stays answered.  It is stable because the list of responses
changes in three ways only, not at all, by an update that keeps an answer an answer, or by
an append (`UpdateResponse`, `AppendResponse`, `SlotMonotone`).  A part of it, `NumsBounded`,
says that question numbers never run ahead of ids, so that a largest one exists
and `LastOf` picks a member of the list.

`OutcomeInv` is about the requests that have stored their evaluation and not yet acted on
it (`Undecided`): the response of each is evaluated, has no outcome yet, and no two of them
work on the same response.  `OneOutcomePerAnswer` alone is not inductive, for it says
nothing of two requests about to act; what keeps them apart is the unique index on
`evaluations.response_id`, which lets one of them past (`OutcomeByEvaluation`).  `OutcomeKept`
covers all steps that decide nothing.

`CapInv` is about the chains of follow-ups, and needs the two others.  The handler counts
follow-ups on a list that may be old when it stores the next one, so the cap alone is not inductive:
`CapInv` adds that whoever is about to ask still has room under the question its chain starts
from.  Room found by `DecideTurn` is still there at `AskFollowUp` because a chain grows at its end
only (`FamiliesAreChains`): of the requests that work on answers of one chain, one at most is
about to ask (`OneAsksInAFamily`).  Where a chain starts is a recursive function, `ResolveRoot`, and nothing
can be proved of it by induction over the list.  That it satisfies its own equation (`RootsOK`) is
therefore a part of the invariant.  It holds of the empty list, and an update leaves it alone; a response
that is appended extends it (`RootsOfAppend`), because two functions that satisfy the equation
agree (`RootsUnique`, which looks at the first response on which they would not).

**One request at a time.**  `SerialInterviewProofs` proves what `SerialInterview` states, for interviews
of any length, any table of maxima, any cap on follow-ups and any summary window.
`SerialAssumption` (one slot) describes the module's subject, and
the runs `serial` and `steady` satisfy it.

| Theorem | States | Assumed besides |
|---|---|---|
| `ScoresStayEvaluated` | `ScoresAgreeWithEvaluations` | |
| `FinalScoreStays` | `FinalScoreIsFinal` | |
| `CompletionFiresOnce` | `CompletionFiredOnce` | |
| `HandlersImplementPlan` | the refinement `ImplementsPlan` | |
| `OneQuestionPending` | `AtMostOnePending` | clients name the pending question (`Naming = "page"`), and nobody calls `generate`, which asks unconditionally |
| `NumbersKeepOrder` | `NumbersFollowAsking` | the same |
| `SummaryKeepsContext` | the action property `SummaryLosesOldestOrAll` | the same |
| `NoTurnLost` | `EveryTurnAdvancesOrFollowsUp` | no text-API answers and follow-ups, no request cut short |
| `PhasesKeepTheirSize` | `MainQuestionsWithinPhase` | as the page's steady client (`SteadyClients`) |

The extra assumptions are conditions on the constants `Kinds`, `Naming` and `Faults`, not on the behaviour, and
the properties are false without them: `generate` asks while a question waits, and so does a skip that
names a question answered already, the text API
stores an evaluation without advancing the plan, a model that fails or a restart after the evaluation loses the
advance, a skipped question belongs to a phase without counting in it.

`Step` first restates every action as what it does to the one request and to the fields of the rows
(the lemmas `...Effect`); the invariants are then proved over `Step`, each on top of the one before:

* `CoreInv` is what one request may rely on and needs no assumption: what it has read is what is stored
  (`ReadsOK`), the answer it is about to write is not there yet (`WorkOK`), a completed
  interview is only hinted at (`CompletionOK`).  None of the three properties it gives is inductive:
  an evaluation in hand could overwrite a score, a list read too early could be averaged.
  `RoomOK` and `PlanOK` are there for the refinement.
* `OrderOK`: the pending question, if there is one, is the last of the list, and there is none
  while a request is about to ask.  The newest question is then the one with the highest number
  (`LastAskedIsNewest`), so the next number is larger than all of them.
* `TurnOK` says at every step what `EveryTurnAdvancesOrFollowsUp` says between requests: an evaluated main
  answer has advanced the plan or was followed up, save the one in hand (`MainTurns`), and what else
  advanced is a program (`OtherTurns`).
* `PhaseOK` counts: the questions of the current phase that are not followed up are its counted answers
  and at most one more, earlier phases are closed, later ones empty, and nothing is asked when
  the plan is filled.  A program may name any coding question; the one that gets its
  evaluation is for the newest, since all others have theirs (`CodeOK`).

For the summary, `LastElements` shows that the `w` last elements of a finite set of numbers are exactly
`w` if there are more of them, all above the ones left out; `Summarised` is such a set
because numbers follow the order of asking.  The refinement (`PlanNext`) needs three facts: `AdvancePhase`
starts from the row as it is stored, its interview is open and its response has not advanced the plan
before, so that fewer than `MaxResponses` have (`RoomToAdvance`), which is the plan's own
bound.  Every other step completes an open interview (`EndEarly`) or is a stutter.

**Access, webhook and reports.**  `PartnerFlowProofs` proves of the composed service, for any number of
partners, practices, requests, deliveries, inserts that fail and restarts:

| Theorem | States | What keeps it |
|---|---|---|
| `FlowTypes` | `TypeOK` | |
| `TokensLetOneIn` | `OneSessionPerToken` | a claimed token is in the hands of one request until its session is stored (`TokensOnce`) |
| `PracticesHaveOneInterview` | `OneInterviewPerPractice` | no two rows of a partner and practice (`PracticesOnce`) |
| `ReadersAgree` | `ReportsAgree` | one row per interview, and every reply is that row (`ReportsOnce`) |
| `AnnouncementsAreTrue` | `AnnouncedMeansReadable` | deliveries in progress are of completed interviews as well (`Announced`) |
| `LimitsHold` | `BoundedCallsPerWindow` | since a call that is less than a window's length ago, no more has passed than a limit for its own window, one for each restart since, and what the present bucket has counted (`WindowsOK`) |
| `DeliveriesEnd` | `DeliveriesAreDisciplined`, of each delivery, assuming the program's two backoffs | what a delivery has posted was an earlier attempt and not acknowledged (`Attempts`) |

The invariant `FlowInv` is the conjunction of one about the gateway and one about the handlers; a
request is in one of them at a time, and only the middleware (`Call`) leads from the one to the
other.  The assumptions are `LimiterAssumption`, `GatewayAssumption` (the mark for "no practice" is not
a practice, lifetimes are numbers), `AftermathAssumption` and `FlowAssumption` (the two
modules number the same requests and interviews).  That a new delivery can be numbered
(`FreshDeliveryIsFresh`) is a counting argument over the ones there are.

The limiter's property counts calls in spans of time that start anywhere, and its windows start at
a call.  `WindowHolds` therefore says of every call that is still near how many have passed since: its
`Share`, which is one limit and one more for each restart since then, and on top of it what the present
bucket has counted.  It is kept when a window opens (`WindowOpens`), since the calls made in the one before
fit into the share, when a call is counted (`WindowCounts`), when a window passes (`WindowCloses`), and by
a restart (`WindowForgotten`), which moves what the bucket had counted into the share.

**The interview page.**  `CandidatePageProofs` proves `WaitsForSomething` (`ProcessingHasARequest`),
`OneReviewAtATime` (`SubmitLockedWhileReviewing`) and `NobodyIsSentAway` (`LeavesOnlyWhenOver`) for any
number of presses and reloads.  The first two are inductive; for the third the invariant
says of everything that may still lead away (an answer that reports the end, the answer to
End, the closing prompt, the flag `lastDone`) that the interview is over or was ended.

**The coding round.**  `CodingRoundProofs` proves `RoundFollowsReviews` (`NeverAheadOfReviews`), `ReviewsAreKept` and
`SubmissionsNameAQuestion` for any number of questions, programs and reloads and every set
of faults (`RoundAssumption`).  The invariant adds to the three properties that the page's
references, and the questions named by what is on its way, exist (`PageOK`, `CallsOK`), and that an
answered submission on its way tells of the stored evaluation.  A handler about to advance the round has stored an
evaluation after it loaded the row, so that what it writes is no more than the reviews there are, however old
the row is.  The invariant is stable because the list of
questions only grows and an evaluation is never replaced (`Grows`).

**The other pages.**  `ConsoleProofs` proves `OutcomesAreOfCompleted` (`OutcomeOnlyOfCompleted`), `ListsLeadToCompleted`
(`ListsLeadToResults`) and `NoLoadEndsUntold` (the action property `FailuresAreTold`) for any
number of interviews, responses and moves (`ConsoleAssumption`).  The first two are not
inductive: what is on the screen came from an answer that was on its way, and the requests of one page are
answered at different times.  The invariant says of every list, shown or on its way, that what it calls
completed is, and of every load of an outcome that has its evaluation or report that the interview was
completed then (`ShownOK`, `LoadsOK`).

## 6. What is only model-checked, and what is not modelled

Every invariant, action property and refinement that a passing run checks is stated by a theorem of
§5.  Liveness (`InterviewConcludes`, `DecisiveCandidateFinishes`, `NoScreenIsForever`, `PagesLoad`)
is checked by TLC only.  The three claims that §7
shows false have no theorem.

What the code does and no property forbids, though the models have it (the hazards list each at its line):

* two overlapping requests lose an advance of the plan, ask two questions with one number, average scores that
  are being written, and generate a coding problem twice;
* a stop between a completion and its webhook loses the webhook, and one between an evaluation and what
  follows loses the follow-up or the advance;
* a report does not have the answers that were stored after it;
* a client that names a question answered already, as the page does after a lost reply, is asked a new
  one by `SkipQuestion` beside the one that waits (`Naming = "any"`).

Not modelled:

* the migration runner and the commands, the speech proxy, configuration and routing;
* expiry and deactivation of API keys and partners, calls with wrong credentials, and the mode
  without keys (`REQUIRE_API_KEY=false`), in which the unique index on practices does not
  guard rows without a partner;
* the rows of `webhook_logs`, which no code reads;
* on the interview page, what is displayed and what a late answer still does after the candidate has
  left, and questions of the voice part (they are not told apart);
* on the other pages, the topic filter and search, texts and scores, which message is on the
  screen and for how long; the settings cards, themes, the transcript and the avatar, which
  only render; `useSpeechRecognition`, which no page uses.

The estimate of 0.0 is both the floor and the mark for "not set" (`handles/phase.go:114`): after ten
weak answers in a row the next one moves the estimate from 0.0 to 4.5.  `Phases` models it
and `WeakAnswerNeverHarder` allows for it.

## 7. Where the code differs from what is said of it

Three disagreements are shown by a run:

* `code_follow_up`: `phase.go:101-103` says that only main answers advance a phase; `SubmitCode`
  advances it for a follow-up as well (`handles/coding.go:81`).
* `returns_to_partner`: `PARTNER_API.md:103` says that the candidate is returned to `redirect_url`;
  after a reload the page no longer knows it (`interview/[id]/page.tsx:230`).
* `completion_posts`: `PARTNER_API.md:210` says that the completion webhook is retried up to three attempts
  in all; two completions that overlap both find the interview open (`handles/interviews.go:181`)
  and start a delivery each, of three attempts of its own.

Others were met while modelling.  The models do what the code does; no run is spent on them:

* `/question` is said to be idempotent (`whatwehave.md:139`); two calls that overlap both find no
  pending question and ask one each (`handles/voice_loop.go:70`).
* `phase.go:23` gives the number of main questions of a phase; a main question whose answer is
  followed up does not count, so a phase can have more of them.
* The comment of `generateSessionSummary` says that existing context is never lost (`handles/ai_helpers.go:436-437`); a
  model that answers with a blank text counts as a success (lines 326-329), and the summary is stored empty
  (`SummaryLosesOldestOrAll` allows for that and nothing else).
* `SubmitCode` advances the row it loaded before the review (`handles/coding.go:34`, 81-86): of two reviews that
  overlap one advance is lost, and so it is when the server stops after the evaluation
  (`NeverAheadOfReviews` says that a round never gets ahead, not that it never stays behind).
* A program handed in again overwrites the stored answer and score of a question that is evaluated, before
  the second evaluation is refused (`handles/coding.go:62`; `ScoresAgreeWithEvaluations` exempts
  it), and the reference of the last
  coding problem can be that of an earlier question (`interview/[id]/page.tsx:105-119`).
* `PARTNER_API.md:102` says that the candidate is sent back at the end; a hint or a recording that
  ends late starts another prompt, and the closing one, whose end does it, is
  stopped (`interview/[id]/page.tsx:155`).
* End leaves the interview page also when its request has failed (`interview/[id]/page.tsx:283-284`); the
  results page then has nothing to show (`OutcomeOnlyOfCompleted`).
* Entries of the rate limiter are said to be evicted (`handles/ratelimit.go:14-16`); they are only replaced
  when the same identity calls again.
* `PARTNER_API.md:148` wants the session token with every call; the page requests speech without
  it (`frontend/app/lib/useAudioPlayer.ts:39`).
* The list of responses is said to nest follow-ups under their parents (`whatwehave.md:57`); a response
  is copied into the list before its follow-ups are appended to it, so that it is listed
  without them (`handles/interviews.go:447-456`), and the results page never shows one.
* "Questions answered" on the results page counts questions that are still open
  (`handles/interviews.go:529`), and the cards of responses without an evaluation lead to a page that
  is refused (`handles/interviews.go:548`).
* When a list cannot be loaded, the pages show a message and then the text for an empty list
  (`frontend/app/page.tsx:177`, `history/page.tsx:109`, the replay at line 38).
