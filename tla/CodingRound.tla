----------------------------- MODULE CodingRound ----------------------------
(***************************************************************************)
(* The coding round between the page and the server.  The page keeps two   *)
(* references to the question in hand: questionIdRef, from the turn that   *)
(* opened the round, and codingResponseId, from the problem fetched        *)
(* afterwards.  Answers are slow, overtake each other or get lost, and     *)
(* requests of a page that was reloaded are still handled, next to those   *)
(* of the page that came after it.                                         *)
(*                                                                         *)
(* A program is the number of the edit that produced it.  Left out: the    *)
(* problem's text, the language, the scores, and Speak and Hint on the     *)
(* voice screen a failed request leads to.                                 *)
(***************************************************************************)
EXTENDS Naturals, Sequences, FiniteSets

CONSTANTS
  PhaseQuestions,  \* phaseMaxQuestions["coding"]
  MaxQuestions,    \* bound: questions asked in the round
  MaxEdits,        \* bound: programs written
  MaxReloads,      \* bound: reloads of the page
  Faults           \* what goes wrong: a subset of AllFaults

(* "refused": turns and reviews break off; "unfetched": problems fail;     *)
(* "hasty": the candidate does not wait for the problem and goes on        *)
(* editing.                                                                *)
AllFaults == {"refused", "unfetched", "lost", "hasty"}

ASSUME RoundAssumption ==
  /\ PhaseQuestions \in Nat \ {0} /\ MaxQuestions \in Nat \ {0}
  /\ MaxEdits \in Nat /\ MaxReloads \in Nat
  /\ Faults \subseteq AllFaults

VARIABLES
  screen,     \* phase
  shown,      \* questionIdRef
  target,     \* codingResponseId
  editor,     \* codeValue, 0 when empty
  review,     \* codeResult: the question and the program it is about
  submitting, \* codeSubmitting
  calls,      \* requests and answers on their way
  responses,  \* server: the coding questions
  advances,   \* server: where the row is in the plan, in questions counted
              \* since the round began
  edits, reloads

page == <<screen, shown, target, editor, review, submitting>>
server == <<responses, advances>>
bounds == <<edits, reloads>>
vars == <<page, calls, server, bounds>>

Screens == {"coding", "code_feedback", "processing", "listening", "voice"}
Kinds == {"question", "skip", "problem", "code"}
Questions == 1 .. MaxQuestions
Programs == 1 .. MaxEdits
Skipped == MaxEdits + 1

(* coding: asked in the coding phase; evaluated: the program its only      *)
(* evaluation is about.                                                    *)
Response == [coding : BOOLEAN, answer : 0 .. Skipped,
             evaluated : 0 .. MaxEdits]

(* about: the question a request names or was made for; at: what its       *)
(* handler does next; seen: the advances of the row its handler loaded;    *)
(* answer: the question of the reply, 0 for a turn of another phase.       *)
Call == [kind : Kinds, about : 0 .. MaxQuestions, program : 0 .. MaxEdits,
         state : {"sent", "orphan", "ok", "refused"},
         at : {"load", "create", "write", "insert", "advance"},
         seen : Nat, answer : 0 .. MaxQuestions]

NoReview == [question |-> 0, program |-> 0]

Request(kind, about, program) ==
  [kind |-> kind, about |-> about, program |-> program, state |-> "sent",
   at |-> "load", seen |-> 0, answer |-> 0]

(***************************************************************************)
(* The server.                                                             *)
(***************************************************************************)
Open == {i \in DOMAIN responses : responses[i].answer = 0}
OpenCoding == {i \in Open : responses[i].coding}
Newest(S) == {i \in S : \A j \in S : j <= i}
InRound(count) == count < PhaseQuestions

(* A reply reaches the page, or is lost; nobody hears that of an orphan.   *)
Reply(c, state, answer) ==
  \E heard \in {state} \cup (IF "lost" \in Faults THEN {"refused"} ELSE {}) :
    calls' = (calls \ {c}) \cup
             (IF c.state = "orphan" THEN {}
              ELSE {[c EXCEPT !.state = heard, !.answer = answer,
                              !.at = "load", !.seen = 0]})

(* A request that is handled and has come to a step.                       *)
Handling(c, kinds, at) ==
  c.kind \in kinds /\ c.state \in {"sent", "orphan"} /\ c.at = at

Proceed(c, at, seen) ==
  calls' = (calls \ {c}) \cup {[c EXCEPT !.at = at, !.seen = seen]}

(* GenerateAIVoiceQuestion: the pending question or, after a call of the   *)
(* model, a new one.                                                       *)
LoadForQuestion(c) ==
  /\ Handling(c, {"question"}, "load")
  /\ \/ Open = {} /\ Proceed(c, "create", advances)
     \/ \E q \in Newest(Open) : Reply(c, "ok", IF InRound(advances) THEN q ELSE 0)
  /\ UNCHANGED <<server, page, bounds>>

(* SkipQuestion asks a new question whether or not there is one to skip.   *)
LoadForSkip(c) ==
  LET skipped == IF c.about = 0 THEN Newest(Open) ELSE {c.about} \cap Open
  IN /\ Handling(c, {"skip"}, "load")
     /\ responses' = [i \in DOMAIN responses |->
                        IF i \in skipped
                        THEN [responses[i] EXCEPT !.answer = Skipped]
                        ELSE responses[i]]
     /\ Proceed(c, "create", advances)
     /\ UNCHANGED <<advances, page, bounds>>

(* The question is of the phase of the row that was loaded.                *)
CreateQuestion(c) ==
  /\ Handling(c, {"question", "skip"}, "create")
  /\ Len(responses) < MaxQuestions
  /\ responses' = Append(responses, [coding |-> InRound(c.seen),
                                     answer |-> 0, evaluated |-> 0])
  /\ Reply(c, "ok", IF InRound(c.seen) THEN Len(responses) + 1 ELSE 0)
  /\ UNCHANGED <<advances, page, bounds>>

(* GetCodingProblem: of the newest open question, whichever it was         *)
(* fetched for.                                                            *)
ServeProblem(c) ==
  /\ Handling(c, {"problem"}, "load")
  /\ \/ OpenCoding = {} /\ Reply(c, "refused", 0)
     \/ \E q \in Newest(OpenCoding) : Reply(c, "ok", q)
  /\ UNCHANGED <<server, page, bounds>>

(* SubmitCode: the interview is loaded before the model reviews, and the   *)
(* advance is counted from what was loaded then.                           *)
LoadForCode(c) ==
  /\ Handling(c, {"code"}, "load") /\ c.about \in DOMAIN responses
  /\ Proceed(c, "write", advances)
  /\ UNCHANGED <<server, page, bounds>>

StoreProgram(c) ==
  /\ Handling(c, {"code"}, "write")
  /\ responses' = [responses EXCEPT ![c.about].answer = c.program]
  /\ Proceed(c, "insert", c.seen)
  /\ UNCHANGED <<advances, page, bounds>>

(* Mutant: evaluations have no unique index.                               *)
InsertAnyNumber(c) ==
  /\ Handling(c, {"code"}, "insert")
  /\ responses' = [responses EXCEPT ![c.about].evaluated = c.program]
  /\ Proceed(c, "advance", c.seen)
  /\ UNCHANGED <<advances, page, bounds>>

(* The unique index refuses a second evaluation of a question.             *)
InsertEvaluation(c) ==
  /\ Handling(c, {"code"}, "insert")
  /\ \/ /\ responses[c.about].evaluated = 0
        /\ responses' = [responses EXCEPT ![c.about].evaluated = c.program]
        /\ Proceed(c, "advance", c.seen)
     \/ /\ responses[c.about].evaluated # 0
        /\ Reply(c, "refused", 0)
        /\ UNCHANGED responses
  /\ UNCHANGED <<advances, page, bounds>>

AdvancePhase(c) ==
  /\ Handling(c, {"code"}, "advance")
  /\ advances' = c.seen + 1
  /\ Reply(c, "ok", c.about)
  /\ UNCHANGED <<responses, page, bounds>>

(* A request without a question, a call of the model or of the store that  *)
(* fails, or a stop of the server: what has been written stays.            *)
Breaks(c) ==
  /\ c.state \in {"sent", "orphan"}
  /\ \/ c.kind = "problem" /\ "unfetched" \in Faults
     \/ c.kind # "problem" /\ "refused" \in Faults
     \/ c.kind = "code" /\ c.about = 0
  /\ Reply(c, "refused", 0)
  /\ UNCHANGED <<server, page, bounds>>

Serve(c) ==
  \/ LoadForQuestion(c) \/ LoadForSkip(c) \/ CreateQuestion(c)
  \/ ServeProblem(c)
  \/ LoadForCode(c) \/ StoreProgram(c) \/ InsertEvaluation(c) \/ AdvancePhase(c)
  \/ Breaks(c)

(***************************************************************************)
(* The page.                                                               *)
(***************************************************************************)
(* enterCodingMode: the reference of the previous problem stays until the  *)
(* new one has been fetched.                                               *)
EnterCodingMode(c) ==
  /\ screen' = "coding" /\ shown' = c.answer
  /\ editor' = 0 /\ review' = NoReview
  /\ calls' = (calls \ {c}) \cup {Request("problem", c.answer, 0)}
  /\ UNCHANGED <<target, submitting>>

TurnArrives(c) ==
  /\ c.kind \in {"question", "skip"} /\ c.state = "ok"
  /\ IF c.answer # 0
     THEN EnterCodingMode(c)
     ELSE /\ screen' = "voice"
          /\ calls' = calls \ {c}
          /\ UNCHANGED <<shown, target, editor, review, submitting>>
  /\ UNCHANGED <<server, bounds>>

TurnFails(c) ==
  /\ c.kind \in {"question", "skip"} /\ c.state = "refused"
  /\ screen' = "listening"
  /\ calls' = calls \ {c}
  /\ UNCHANGED <<shown, target, editor, review, submitting, server, bounds>>

(* A problem is taken for that of the question on the screen, whichever    *)
(* turn it was fetched for.                                                *)
ProblemArrives(c) ==
  /\ c.kind = "problem" /\ c.state \in {"ok", "refused"}
  /\ target' = IF c.state = "ok" THEN c.answer ELSE target
  /\ calls' = calls \ {c}
  /\ UNCHANGED <<screen, shown, editor, review, submitting, server, bounds>>

CodeReviewed(c) ==
  /\ c.kind = "code" /\ c.state \in {"ok", "refused"}
  /\ submitting' = FALSE
  /\ calls' = calls \ {c}
  /\ IF c.state = "ok"
     THEN /\ screen' = "code_feedback"
          /\ review' = [question |-> c.answer, program |-> c.program]
     ELSE UNCHANGED <<screen, review>>
  /\ UNCHANGED <<shown, target, editor, server, bounds>>

Answered(c) ==
  TurnArrives(c) \/ TurnFails(c) \/ ProblemArrives(c) \/ CodeReviewed(c)

(* The editor is only locked once the review is there.                     *)
Edit ==
  /\ screen = "coding" /\ edits < MaxEdits
  /\ editor = 0 \/ "hasty" \in Faults
  /\ edits' = edits + 1 /\ editor' = edits + 1
  /\ UNCHANGED <<screen, shown, target, review, submitting, calls, server,
                 reloads>>

(* Mutant: without a problem the program goes to no question.              *)
FetchedQuestion == target

(* codingResponseId || questionIdRef.current                               *)
SubmittedQuestion == IF target # 0 THEN target ELSE shown

ProblemAwaited == \E c \in calls : c.kind = "problem" /\ c.state # "orphan"

HandleCodeSubmit ==
  /\ screen = "coding" /\ editor # 0 /\ ~submitting
  /\ "hasty" \in Faults \/ ~ProblemAwaited
  /\ submitting' = TRUE
  /\ calls' = calls \cup {Request("code", SubmittedQuestion, editor)}
  /\ UNCHANGED <<screen, shown, target, editor, review, server, bounds>>

HandleCodingContinue ==
  /\ screen = "code_feedback"
  /\ screen' = "processing"
  /\ calls' = calls \cup {Request("question", 0, 0)}
  /\ UNCHANGED <<shown, target, editor, review, submitting, server, bounds>>

HandleSkip ==
  /\ screen = "listening"
  /\ screen' = "processing"
  /\ calls' = calls \cup {Request("skip", shown, 0)}
  /\ UNCHANGED <<shown, target, editor, review, submitting, server, bounds>>

(* The page starts over with the first request, "processing" here; what it *)
(* has sent is handled for nobody.                                         *)
Reload ==
  /\ reloads < MaxReloads
  /\ reloads' = reloads + 1
  /\ screen' = "processing"
  /\ shown' = 0 /\ target' = 0 /\ editor' = 0 /\ review' = NoReview
  /\ submitting' = FALSE
  /\ calls' = {[c EXCEPT !.state = "orphan"] :
                 c \in {d \in calls : d.state \in {"sent", "orphan"}}}
              \cup {Request("question", 0, 0)}
  /\ UNCHANGED <<server, edits>>

Init ==
  /\ screen = "processing" /\ shown = 0 /\ target = 0 /\ editor = 0
  /\ review = NoReview /\ submitting = FALSE
  /\ calls = {Request("question", 0, 0)}
  /\ responses = <<>> /\ advances = 0 /\ edits = 0 /\ reloads = 0

Network == \E c \in calls : Serve(c) \/ Answered(c)

Candidate ==
  \/ Edit \/ HandleCodeSubmit \/ HandleCodingContinue \/ HandleSkip \/ Reload

Next == Network \/ Candidate

Spec == Init /\ [][Next]_vars

(***************************************************************************)
(* Properties.                                                             *)
(***************************************************************************)
TypeOK ==
  /\ screen \in Screens /\ shown \in 0 .. MaxQuestions
  /\ target \in 0 .. MaxQuestions /\ editor \in 0 .. MaxEdits
  /\ review \in [question : 0 .. MaxQuestions, program : 0 .. MaxEdits]
  /\ submitting \in BOOLEAN /\ calls \subseteq Call
  /\ responses \in Seq(Response) /\ Len(responses) <= MaxQuestions
  /\ advances \in Nat /\ edits \in 0 .. MaxEdits
  /\ reloads \in 0 .. MaxReloads

(* However often a program is handed in again, for the question on the     *)
(* screen or, with a reference that is late, for an earlier one, the round *)
(* never gets ahead of the questions that were reviewed.  It may stay      *)
(* behind: an advance is lost when two reviews overlap, since each counts  *)
(* from the row it loaded before its review (coding.go:34, 81-86), and     *)
(* when a request breaks off after its evaluation was stored.              *)
NeverAheadOfReviews ==
  advances <= Cardinality({i \in DOMAIN responses : responses[i].evaluated # 0})

(* The review the candidate reads is the one the reports will be made of:  *)
(* a program handed in before a reload and handled late does not replace   *)
(* it.                                                                     *)
ReviewOnScreenIsKept ==
  review # NoReview =>
    responses[review.question].evaluated = review.program

(* Every program that is handed in names a question, also when its problem *)
(* could not be fetched (page.tsx:119).                                    *)
SubmissionNamesAQuestion ==
  \A c \in calls : c.kind = "code" => c.about \in DOMAIN responses
=============================================================================
