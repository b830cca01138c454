-------------------------- MODULE CodingRoundProofs --------------------------
(***************************************************************************)
(* For any number of questions, programs and reloads, and whichever faults *)
(* happen: the round never gets ahead of the reviews, the review on the    *)
(* screen is the stored one, and every program handed in names a question. *)
(***************************************************************************)
EXTENDS CodingRound, FiniteSetTheorems, TLAPS

Reviewed == {i \in DOMAIN responses : responses[i].evaluated # 0}
Reviews == Cardinality(Reviewed)

(* What the page holds: questions the server has asked.                    *)
PageOK ==
  /\ target \in {0} \cup DOMAIN responses
  /\ screen = "coding" => shown \in DOMAIN responses
  /\ review # NoReview =>
       /\ review.question \in DOMAIN responses
       /\ review.program # 0
       /\ responses[review.question].evaluated = review.program

(* What is under way: a program names a question, a review that came back  *)
(* is the stored one, and a turn or a problem is of a question.  A handler *)
(* that is about to advance the phase has stored its evaluation after it   *)
(* loaded the row.                                                         *)
CallOK(c) ==
  /\ c.kind = "code" => /\ c.about \in DOMAIN responses /\ c.program # 0
                        /\ c.seen <= Reviews
  /\ c.kind = "code" /\ c.at = "advance" =>
       responses[c.about].evaluated = c.program /\ c.seen + 1 <= Reviews
  /\ c.kind = "code" /\ c.state = "ok" =>
       c.answer = c.about /\ responses[c.about].evaluated = c.program
  /\ c.kind # "code" /\ c.state = "ok" =>
       c.answer \in {0} \cup DOMAIN responses

CallsOK == \A c \in calls : CallOK(c)

Inv == TypeOK /\ PageOK /\ CallsOK /\ NeverAheadOfReviews

(* Questions are not lost, and a review is never replaced.                 *)
Grows ==
  /\ responses' \in Seq(Response) /\ Len(responses') <= MaxQuestions
  /\ DOMAIN responses \subseteq DOMAIN responses'
  /\ \A i \in DOMAIN responses :
       responses[i].evaluated # 0 =>
         responses'[i].evaluated = responses[i].evaluated

(* The page's references stay good while the list grows.                   *)
LEMMA PageStays ==
  ASSUME Inv, Grows, UNCHANGED page
  PROVE  /\ PageOK'
         /\ screen' \in Screens /\ shown' \in 0 .. MaxQuestions
         /\ target' \in 0 .. MaxQuestions /\ editor' \in 0 .. MaxEdits
         /\ review' \in [question : 0 .. MaxQuestions, program : 0 .. MaxEdits]
         /\ submitting' \in BOOLEAN
BY DEF Inv, TypeOK, PageOK, Grows, page

LEMMA ReviewedIsFinite ==
  ASSUME Inv
  PROVE  IsFiniteSet(Reviewed)
<1>1. responses \in Seq(Response)
  BY DEF Inv, TypeOK
<1>2. Reviewed \subseteq 1 .. Len(responses) /\ IsFiniteSet(1 .. Len(responses))
  BY <1>1, FS_Interval DEF Reviewed
<1> QED
  BY <1>2, FS_Subset

LEMMA ReviewsStay ==
  ASSUME Inv, Grows
  PROVE  Reviews \in Nat /\ Reviews' \in Nat /\ Reviews <= Reviews'
<1>1. responses' \in Seq(Response) /\ Reviewed \subseteq Reviewed'
  BY DEF Grows, Reviewed
<1>2. IsFiniteSet(Reviewed')
  <2>1. Reviewed' \subseteq 1 .. Len(responses') /\ IsFiniteSet(1 .. Len(responses'))
    BY <1>1, FS_Interval DEF Reviewed
  <2> QED
    BY <2>1, FS_Subset
<1>3. Cardinality(Reviewed) <= Cardinality(Reviewed')
  BY <1>1, <1>2, FS_Subset
<1> QED
  BY <1>2, <1>3, ReviewedIsFinite, FS_CardinalityType DEF Reviews

LEMMA CallStays ==
  ASSUME Inv, Grows, NEW c \in calls
  PROVE  c \in Call /\ CallOK(c)'
<1>1. c \in Call /\ CallOK(c)
  BY DEF Inv, TypeOK, CallsOK
<1> QED
  BY <1>1, ReviewsStay DEF CallOK, Grows, Call

(* Of a request and its reply, only the reply is new.                      *)
LEMMA ReplyKeeps ==
  ASSUME Inv, Grows, NEW c \in calls, NEW state \in {"ok", "refused"},
         NEW answer \in 0 .. MaxQuestions,
         /\ c.kind = "code" /\ state = "ok" =>
              /\ answer = c.about /\ c.about \in DOMAIN responses'
              /\ responses'[c.about].evaluated = c.program
         /\ c.kind # "code" => answer \in {0} \cup DOMAIN responses',
         Reply(c, state, answer)
  PROVE  calls' \subseteq Call /\ CallsOK'
<1>1. c \in Call /\ CallOK(c)'
  BY CallStays
<1> DEFINE reply(heard) == [c EXCEPT !.state = heard, !.answer = answer,
                                     !.at = "load", !.seen = 0]
<1>0. PICK heard \in {state, "refused"} :
        \/ calls' = calls \ {c}
        \/ calls' = (calls \ {c}) \cup {reply(heard)}
  <2>1. PICK heard \in {state} \cup
                         (IF "lost" \in Faults THEN {"refused"} ELSE {}) :
          calls' = (calls \ {c}) \cup
             (IF c.state = "orphan" THEN {} ELSE {reply(heard)})
    BY DEF Reply
  <2>2. heard \in {state, "refused"}
    BY <2>1
  <2> QED
    BY <2>1, <2>2
<1>2. PICK new : /\ new = reply(heard)
                 /\ \/ calls' = calls \ {c}
                    \/ calls' = (calls \ {c}) \cup {new}
  BY <1>0
<1>3. /\ new \in Call /\ new.kind = c.kind /\ new.about = c.about
      /\ new.program = c.program /\ new.answer = answer
      /\ new.state = "ok" => state = "ok"
      /\ new.at = "load" /\ new.seen = 0
  BY <1>1, <1>2 DEF Call
<1>4. CallOK(new)'
  BY <1>1, <1>3, ReviewsStay DEF CallOK
<1> QED
  BY <1>2, <1>3, <1>4, CallStays DEF CallsOK

(* A handler that goes on to its next step.                                *)
LEMMA ProceedKeeps ==
  ASSUME Inv, Grows, NEW c \in calls, c.state \in {"sent", "orphan"},
         NEW at \in {"create", "write", "insert", "advance"}, NEW seen \in Nat,
         c.kind = "code" => seen <= Reviews',
         c.kind = "code" /\ at = "advance" =>
           responses'[c.about].evaluated = c.program /\ seen + 1 <= Reviews',
         Proceed(c, at, seen)
  PROVE  calls' \subseteq Call /\ CallsOK'
<1>1. c \in Call /\ CallOK(c)'
  BY CallStays
<1>2. PICK new : /\ new = [c EXCEPT !.at = at, !.seen = seen]
                 /\ calls' = (calls \ {c}) \cup {new}
  BY DEF Proceed
<1>3. /\ new \in Call /\ new.kind = c.kind /\ new.about = c.about
      /\ new.program = c.program /\ new.answer = c.answer
      /\ new.state = c.state /\ new.at = at /\ new.seen = seen
  BY <1>1, <1>2 DEF Call
<1>4. CallOK(new)'
  BY <1>1, <1>3 DEF CallOK
<1> QED
  BY <1>2, <1>3, <1>4, CallStays DEF CallsOK

LEMMA InitInv ==
  ASSUME Init
  PROVE  Inv
<1>1. Request("question", 0, 0) \in Call /\ CallOK(Request("question", 0, 0))
  BY RoundAssumption DEF Request, Call, CallOK, Kinds, Init
<1>2. TypeOK
  <2>1. submitting \in BOOLEAN /\ screen \in Screens
    BY Zenon DEF Init, Screens
  <2>2. calls \subseteq Call
    BY <1>1 DEF Init
  <2>3. /\ shown \in 0 .. MaxQuestions /\ target \in 0 .. MaxQuestions
        /\ editor \in 0 .. MaxEdits /\ edits \in 0 .. MaxEdits
        /\ reloads \in 0 .. MaxReloads /\ advances \in Nat
        /\ responses \in Seq(Response) /\ Len(responses) <= MaxQuestions
        /\ review \in [question : 0 .. MaxQuestions, program : 0 .. MaxEdits]
    BY RoundAssumption DEF Init, NoReview
  <2> QED
    BY <2>1, <2>2, <2>3, Zenon DEF TypeOK
<1>3. PageOK
  BY DEF Init, PageOK
<1>4. CallsOK
  BY <1>1 DEF Init, CallsOK
<1>5. NeverAheadOfReviews
  BY FS_EmptySet DEF Init, NeverAheadOfReviews
<1> QED
  BY <1>2, <1>3, <1>4, <1>5 DEF Inv

-----------------------------------------------------------------------------
(* Steps of the server.                                                    *)

LEMMA UnchangedGrows ==
  ASSUME Inv, UNCHANGED responses
  PROVE  Grows /\ Reviews' = Reviews
BY DEF Inv, TypeOK, Grows, Reviews, Reviewed

(* A step of the server puts the invariant together from what it does to   *)
(* the list, the row and the requests.                                     *)
LEMMA ServerStep ==
  ASSUME Inv, Grows, advances' \in Nat, advances' <= Reviews',
         UNCHANGED <<page, bounds>>, calls' \subseteq Call, CallsOK'
  PROVE  Inv'
<1>1. edits' \in 0 .. MaxEdits /\ reloads' \in 0 .. MaxReloads
  BY DEF Inv, TypeOK, bounds
<1>2. NeverAheadOfReviews'
  BY DEF NeverAheadOfReviews, Reviews, Reviewed
<1> QED
  BY <1>1, <1>2, PageStays DEF Inv, TypeOK, Grows

(* One that leaves the row alone.                                          *)
LEMMA ListStep ==
  ASSUME Inv, Grows, UNCHANGED <<advances, page, bounds>>,
         calls' \subseteq Call, CallsOK'
  PROVE  Inv'
<1>1. advances' \in Nat /\ advances <= Reviews
  BY DEF Inv, TypeOK, NeverAheadOfReviews, Reviews, Reviewed
<1> QED
  BY <1>1, ReviewsStay, ServerStep

(* A request that is answered and writes nothing.                          *)
LEMMA AnswerKeeps ==
  ASSUME Inv, NEW c \in calls, NEW state \in {"ok", "refused"},
         NEW answer \in {0} \cup DOMAIN responses,
         c.kind # "code" \/ state = "refused",
         Reply(c, state, answer), UNCHANGED <<server, page, bounds>>
  PROVE  Inv'
<1>1. Grows
  BY UnchangedGrows DEF server
<1>2. answer \in 0 .. MaxQuestions /\ answer \in {0} \cup DOMAIN responses'
  BY RoundAssumption DEF Inv, TypeOK, server
<1>3. calls' \subseteq Call /\ CallsOK'
  BY <1>1, <1>2, ReplyKeeps
<1> QED
  BY <1>1, <1>3, ListStep DEF server

(* A handler that has loaded the row: it has seen no more advances than    *)
(* there are reviews.                                                      *)
LEMMA LoadKeeps ==
  ASSUME Inv, Grows, NEW c \in calls, c.state \in {"sent", "orphan"},
         NEW at \in {"create", "write"}, Proceed(c, at, advances),
         UNCHANGED <<advances, page, bounds>>
  PROVE  Inv'
<1>1. advances \in Nat /\ advances <= Reviews
  BY DEF Inv, TypeOK, NeverAheadOfReviews, Reviews, Reviewed
<1>2. calls' \subseteq Call /\ CallsOK'
  BY <1>1, ReviewsStay, ProceedKeeps
<1> QED
  BY <1>2, ListStep

LEMMA LoadForQuestionKeeps ==
  ASSUME Inv, NEW c \in calls, LoadForQuestion(c)
  PROVE  Inv'
<1>1. /\ c.kind # "code" /\ c.state \in {"sent", "orphan"}
      /\ UNCHANGED <<server, page, bounds>>
  BY DEF LoadForQuestion, Handling
<1>2. CASE Proceed(c, "create", advances)
  BY <1>1, <1>2, UnchangedGrows, LoadKeeps DEF server
<1>3. CASE \E q \in Newest(Open) : Reply(c, "ok", IF InRound(advances) THEN q ELSE 0)
  <2>1. PICK answer \in {0} \cup DOMAIN responses : Reply(c, "ok", answer)
    BY <1>3 DEF Newest, Open
  <2> QED
    BY <1>1, <2>1, AnswerKeeps
<1> QED
  BY <1>2, <1>3 DEF LoadForQuestion

(* The list with other answers and the same evaluations.                   *)
LEMMA AnswersGrow ==
  ASSUME Inv, responses' \in Seq(Response), Len(responses') = Len(responses),
         \A i \in DOMAIN responses :
           responses'[i].evaluated = responses[i].evaluated
  PROVE  Grows
BY DEF Inv, TypeOK, Grows

LEMMA LoadForSkipKeeps ==
  ASSUME Inv, NEW c \in calls, LoadForSkip(c)
  PROVE  Inv'
<1>1. responses \in Seq(Response)
  BY DEF Inv, TypeOK
<1>2. PICK S : responses' = [i \in DOMAIN responses |->
                               IF i \in S
                               THEN [responses[i] EXCEPT !.answer = Skipped]
                               ELSE responses[i]]
  BY DEF LoadForSkip
<1> DEFINE skipped(i) == IF i \in S
                         THEN [responses[i] EXCEPT !.answer = Skipped]
                         ELSE responses[i]
<1>3. ASSUME NEW i \in DOMAIN responses
      PROVE  skipped(i) \in Response /\ skipped(i).evaluated = responses[i].evaluated
  <2>1. responses[i] \in Response
    BY <1>1
  <2> QED
    BY <2>1, RoundAssumption DEF Response, Skipped
<1>4. responses' = [i \in 1 .. Len(responses) |-> skipped(i)]
  BY <1>1, <1>2
<1> HIDE DEF skipped
<1>5. Grows
  BY <1>1, <1>3, <1>4, AnswersGrow
<1>6. /\ c.state \in {"sent", "orphan"} /\ Proceed(c, "create", advances)
      /\ UNCHANGED <<advances, page, bounds>>
  BY DEF LoadForSkip, Handling
<1> QED
  BY <1>5, <1>6, LoadKeeps

LEMMA CreateQuestionKeeps ==
  ASSUME Inv, NEW c \in calls, CreateQuestion(c)
  PROVE  Inv'
<1>1. PICK new \in Response :
        new.evaluated = 0 /\ responses' = Append(responses, new)
  <2>1. [coding |-> InRound(c.seen), answer |-> 0, evaluated |-> 0] \in Response
    BY RoundAssumption DEF Response, Skipped, InRound
  <2> QED
    BY <2>1 DEF CreateQuestion
<1>2. responses \in Seq(Response) /\ Len(responses) < MaxQuestions /\ c.kind # "code"
  BY DEF Inv, TypeOK, CreateQuestion, Handling
<1>3. /\ responses' \in Seq(Response) /\ Len(responses') = Len(responses) + 1
      /\ \A i \in DOMAIN responses :
           i \in DOMAIN responses' /\ responses'[i].evaluated = responses[i].evaluated
  BY <1>1, <1>2
<1>4. Grows
  BY <1>2, <1>3, RoundAssumption DEF Grows
<1>5. calls' \subseteq Call /\ CallsOK'
  <2>1. PICK answer \in {0, Len(responses) + 1} : Reply(c, "ok", answer)
    BY DEF CreateQuestion
  <2>2. answer \in 0 .. MaxQuestions /\ answer \in {0} \cup DOMAIN responses'
    BY <1>2, <1>3, <2>1, RoundAssumption
  <2> QED
    BY <1>2, <1>4, <2>1, <2>2, ReplyKeeps
<1> QED
  BY <1>4, <1>5, ListStep DEF CreateQuestion

LEMMA ServeProblemKeeps ==
  ASSUME Inv, NEW c \in calls, ServeProblem(c)
  PROVE  Inv'
<1>1. PICK state \in {"ok", "refused"}, answer \in {0} \cup DOMAIN responses :
        Reply(c, state, answer)
  BY DEF ServeProblem, Newest, OpenCoding, Open
<1>2. c.kind # "code" /\ UNCHANGED <<server, page, bounds>>
  BY DEF ServeProblem, Handling
<1> QED
  BY <1>1, <1>2, AnswerKeeps

LEMMA BreaksKeeps ==
  ASSUME Inv, NEW c \in calls, Breaks(c)
  PROVE  Inv'
BY AnswerKeeps DEF Breaks

LEMMA LoadForCodeKeeps ==
  ASSUME Inv, NEW c \in calls, LoadForCode(c)
  PROVE  Inv'
BY UnchangedGrows, LoadKeeps DEF LoadForCode, Handling, server

(* What is known of a submission that is handled.                          *)
LEMMA SubmissionFacts ==
  ASSUME Inv, NEW c \in calls, NEW at, Handling(c, {"code"}, at)
  PROVE  /\ c \in Call /\ CallOK(c) /\ c.kind = "code" /\ c.at = at
         /\ c.state \in {"sent", "orphan"} /\ c.about \in DOMAIN responses
         /\ c.about \in 0 .. MaxQuestions /\ c.program \in 1 .. MaxEdits
         /\ c.seen \in Nat /\ c.seen <= Reviews
         /\ responses \in Seq(Response) /\ Len(responses) <= MaxQuestions
         /\ responses[c.about] \in Response
<1>1. c \in Call /\ CallOK(c) /\ responses \in Seq(Response)
      /\ Len(responses) <= MaxQuestions
  BY DEF Inv, TypeOK, CallsOK
<1>2. c.kind = "code" /\ c.at = at /\ c.state \in {"sent", "orphan"}
  BY DEF Handling
<1> QED
  BY <1>1, <1>2 DEF Call, CallOK

LEMMA StoreProgramKeeps ==
  ASSUME Inv, NEW c \in calls, StoreProgram(c)
  PROVE  Inv'
<1>1. Handling(c, {"code"}, "write")
  BY DEF StoreProgram
<1> DEFINE new == [responses[c.about] EXCEPT !.answer = c.program]
<1>2. new \in Response /\ new.evaluated = responses[c.about].evaluated
  <2>1. c.program \in 0 .. Skipped /\ responses[c.about] \in Response
    BY <1>1, SubmissionFacts, RoundAssumption DEF Skipped
  <2>2. \A r \in Response : /\ [r EXCEPT !.answer = c.program] \in Response
                           /\ [r EXCEPT !.answer = c.program].evaluated
                                = r.evaluated
    BY <2>1 DEF Response
  <2> QED
    BY <2>1, <2>2
<1>3. responses' = [responses EXCEPT ![c.about] = new]
  BY DEF StoreProgram
<1> HIDE DEF new
<1>4. Grows
  BY <1>1, <1>2, <1>3, SubmissionFacts, AnswersGrow
<1>5. calls' \subseteq Call /\ CallsOK'
  <2>1. /\ c.seen \in Nat /\ c.seen <= Reviews' /\ c.state \in {"sent", "orphan"}
    BY <1>1, <1>4, SubmissionFacts, ReviewsStay
  <2> QED
    BY <1>4, <2>1, ProceedKeeps DEF StoreProgram
<1> QED
  BY <1>4, <1>5, ListStep DEF StoreProgram

LEMMA InsertEvaluationKeeps ==
  ASSUME Inv, NEW c \in calls, InsertEvaluation(c)
  PROVE  Inv'
<1>1. Handling(c, {"code"}, "insert") /\ UNCHANGED <<advances, page, bounds>>
  BY DEF InsertEvaluation
<1>2. CASE responses[c.about].evaluated = 0
  <2> DEFINE new == [responses[c.about] EXCEPT !.evaluated = c.program]
  <2>1. new \in Response /\ new.evaluated = c.program
    <3>1. c.program \in 0 .. MaxEdits /\ responses[c.about] \in Response
      BY <1>1, SubmissionFacts
    <3>2. \A r \in Response : /\ [r EXCEPT !.evaluated = c.program] \in Response
                             /\ [r EXCEPT !.evaluated = c.program].evaluated
                                  = c.program
      BY <3>1 DEF Response
    <3> QED
      BY <3>1, <3>2
  <2>2. /\ responses' = [responses EXCEPT ![c.about] = new]
        /\ Proceed(c, "advance", c.seen)
    BY <1>2 DEF InsertEvaluation
  <2> HIDE DEF new
  <2>3. /\ responses' \in Seq(Response) /\ Len(responses') = Len(responses)
        /\ DOMAIN responses' = DOMAIN responses
        /\ responses'[c.about].evaluated = c.program
        /\ \A i \in DOMAIN responses : i # c.about => responses'[i] = responses[i]
    BY <1>1, <2>1, <2>2, SubmissionFacts
  <2>4. Grows
    BY <1>1, <1>2, <2>3, SubmissionFacts DEF Grows
  <2>5. Reviews' = Reviews + 1
    <3>1. Reviewed' = Reviewed \cup {c.about} /\ c.about \notin Reviewed
      BY <1>1, <1>2, <2>3, SubmissionFacts DEF Reviewed
    <3> QED
      BY <3>1, ReviewedIsFinite, FS_AddElement DEF Reviews
  <2>6. calls' \subseteq Call /\ CallsOK'
    <3>1. /\ c.seen \in Nat /\ c.seen <= Reviews' /\ c.seen + 1 <= Reviews'
          /\ c.state \in {"sent", "orphan"}
      BY <1>1, <2>4, <2>5, SubmissionFacts, ReviewsStay
    <3> QED
      BY <2>2, <2>3, <2>4, <3>1, ProceedKeeps
  <2> QED
    BY <1>1, <2>4, <2>6, ListStep
<1>3. CASE responses[c.about].evaluated # 0
  BY <1>1, <1>3, AnswerKeeps DEF InsertEvaluation, server
<1> QED
  BY <1>2, <1>3

LEMMA AdvancePhaseKeeps ==
  ASSUME Inv, NEW c \in calls, AdvancePhase(c)
  PROVE  Inv'
<1>1. /\ Handling(c, {"code"}, "advance") /\ advances' = c.seen + 1
      /\ Reply(c, "ok", c.about) /\ UNCHANGED <<responses, page, bounds>>
  BY DEF AdvancePhase
<1>2. Grows /\ Reviews' = Reviews
  BY <1>1, UnchangedGrows
<1>3. responses[c.about].evaluated = c.program /\ c.seen + 1 <= Reviews
  BY <1>1, SubmissionFacts DEF CallOK
<1>4. advances' \in Nat /\ advances' <= Reviews'
  BY <1>1, <1>2, <1>3, SubmissionFacts
<1>5. calls' \subseteq Call /\ CallsOK'
  BY <1>1, <1>2, <1>3, SubmissionFacts, ReplyKeeps
<1> QED
  BY <1>1, <1>2, <1>4, <1>5, ServerStep

-----------------------------------------------------------------------------
(* Steps of the page: the server's rows stay, and requests are sent or     *)
(* taken off.                                                              *)
LEMMA PageStep ==
  ASSUME Inv, UNCHANGED server,
         \A c \in calls' : c \in calls \/ (c \in Call /\ CallOK(c)),
         PageOK',
         /\ screen' \in Screens /\ shown' \in 0 .. MaxQuestions
         /\ target' \in 0 .. MaxQuestions /\ editor' \in 0 .. MaxEdits
         /\ review' \in [question : 0 .. MaxQuestions, program : 0 .. MaxEdits]
         /\ submitting' \in BOOLEAN
         /\ edits' \in 0 .. MaxEdits /\ reloads' \in 0 .. MaxReloads
  PROVE  Inv'
<1>1. calls' \subseteq Call /\ responses' = responses /\ advances' = advances
  BY DEF Inv, TypeOK, server
<1>2. CallsOK'
  <2>1. \A c \in calls' : CallOK(c)
    BY DEF Inv, CallsOK
  <2> QED
    BY <1>1, <2>1 DEF CallsOK, CallOK, Reviews, Reviewed
<1>3. NeverAheadOfReviews'
  BY <1>1 DEF Inv, NeverAheadOfReviews
<1> QED
  BY <1>1, <1>2, <1>3 DEF Inv, TypeOK

LEMMA RequestOK ==
  ASSUME Inv, NEW kind \in Kinds \ {"code"}, NEW about \in 0 .. MaxQuestions
  PROVE  Request(kind, about, 0) \in Call /\ CallOK(Request(kind, about, 0))
BY RoundAssumption DEF Request, Call, CallOK

LEMMA PageTypes ==
  ASSUME Inv
  PROVE  /\ screen \in Screens /\ shown \in 0 .. MaxQuestions
         /\ target \in 0 .. MaxQuestions /\ editor \in 0 .. MaxEdits
         /\ review \in [question : 0 .. MaxQuestions, program : 0 .. MaxEdits]
         /\ submitting \in BOOLEAN /\ edits \in 0 .. MaxEdits
         /\ reloads \in 0 .. MaxReloads
         /\ DOMAIN responses \subseteq 1 .. MaxQuestions
         /\ 0 \in 0 .. MaxQuestions /\ 0 \in 0 .. MaxEdits
         /\ NoReview \in [question : 0 .. MaxQuestions, program : 0 .. MaxEdits]
BY RoundAssumption DEF Inv, TypeOK, NoReview

LEMMA TurnArrivesKeeps ==
  ASSUME Inv, NEW c \in calls, TurnArrives(c)
  PROVE  Inv'
<1>1. c \in Call /\ CallOK(c) /\ c.answer \in {0} \cup DOMAIN responses
      /\ UNCHANGED <<server, bounds>>
  BY DEF Inv, TypeOK, CallsOK, CallOK, TurnArrives
<1>2. CASE c.answer # 0
  <2>1. /\ EnterCodingMode(c) /\ c.answer \in DOMAIN responses
    BY <1>1, <1>2 DEF TurnArrives
  <2>2. PICK new : new = Request("problem", c.answer, 0)
    OBVIOUS
  <2>3. new \in Call /\ CallOK(new)
    BY <1>1, <2>2, PageTypes, RequestOK DEF Call, Kinds
  <2>4. PageOK'
    BY <1>1, <2>1 DEF Inv, PageOK, EnterCodingMode, server
  <2>5. calls' \subseteq calls \cup {new}
    BY <2>1, <2>2 DEF EnterCodingMode
  <2>6. /\ screen' \in Screens /\ shown' \in 0 .. MaxQuestions
        /\ target' \in 0 .. MaxQuestions /\ editor' \in 0 .. MaxEdits
        /\ review' \in [question : 0 .. MaxQuestions, program : 0 .. MaxEdits]
        /\ submitting' \in BOOLEAN
    BY <2>1, PageTypes DEF EnterCodingMode, Screens
  <2> QED
    BY <1>1, <2>3, <2>4, <2>5, <2>6, PageTypes, PageStep DEF bounds
<1>3. CASE c.answer = 0
  <2>1. /\ screen' = "voice" /\ calls' = calls \ {c}
        /\ UNCHANGED <<shown, target, editor, review, submitting>>
    BY <1>3 DEF TurnArrives
  <2>2. PageOK'
    BY <1>1, <2>1 DEF Inv, PageOK, server
  <2> QED
    BY <1>1, <2>1, <2>2, PageTypes, PageStep DEF bounds, Screens
<1> QED
  BY <1>2, <1>3

LEMMA TurnFailsKeeps ==
  ASSUME Inv, NEW c \in calls, TurnFails(c)
  PROVE  Inv'
<1>1. PageOK'
  BY DEF Inv, PageOK, TurnFails, server
<1> QED
  BY <1>1, PageTypes, PageStep DEF TurnFails, bounds, Screens

LEMMA ProblemArrivesKeeps ==
  ASSUME Inv, NEW c \in calls, ProblemArrives(c)
  PROVE  Inv'
<1>1. c \in Call /\ CallOK(c)
  BY DEF Inv, TypeOK, CallsOK
<1>2. target' \in {0} \cup DOMAIN responses
  BY <1>1 DEF ProblemArrives, CallOK, Inv, PageOK
<1>3. PageOK'
  BY <1>2 DEF Inv, PageOK, ProblemArrives, server
<1>4. target' \in 0 .. MaxQuestions
  BY <1>2, PageTypes
<1> QED
  BY <1>3, <1>4, PageTypes, PageStep DEF ProblemArrives, bounds

LEMMA CodeReviewedKeeps ==
  ASSUME Inv, NEW c \in calls, CodeReviewed(c)
  PROVE  Inv'
<1>1. c \in Call /\ CallOK(c) /\ UNCHANGED <<target, shown, editor, server, bounds>>
      /\ submitting' = FALSE /\ calls' = calls \ {c} /\ c.kind = "code"
  BY DEF Inv, TypeOK, CallsOK, CodeReviewed
<1>2. CASE c.state = "ok"
  <2>1. /\ screen' = "code_feedback"
        /\ review' = [question |-> c.answer, program |-> c.program]
    BY <1>2 DEF CodeReviewed
  <2>2. /\ c.answer \in DOMAIN responses /\ c.program # 0
        /\ responses[c.answer].evaluated = c.program
    BY <1>1, <1>2 DEF CallOK
  <2>3. PageOK'
    BY <1>1, <2>1, <2>2 DEF Inv, PageOK, server
  <2>4. review' \in [question : 0 .. MaxQuestions, program : 0 .. MaxEdits]
    BY <1>1, <2>1 DEF Call
  <2> QED
    BY <1>1, <2>1, <2>3, <2>4, PageTypes, PageStep DEF bounds, Screens
<1>3. CASE c.state # "ok"
  <2>1. UNCHANGED <<screen, review>>
    BY <1>3 DEF CodeReviewed
  <2>2. PageOK'
    BY <1>1, <2>1 DEF Inv, PageOK, server
  <2> QED
    BY <1>1, <2>1, <2>2, PageTypes, PageStep DEF bounds
<1> QED
  BY <1>2, <1>3

LEMMA EditKeeps ==
  ASSUME Inv, Edit
  PROVE  Inv'
<1>1. PageOK'
  BY DEF Inv, PageOK, Edit, server
<1>2. editor' \in 0 .. MaxEdits /\ edits' \in 0 .. MaxEdits
  BY PageTypes, RoundAssumption DEF Edit
<1> QED
  BY <1>1, <1>2, PageTypes, PageStep DEF Edit

LEMMA SubmitKeeps ==
  ASSUME Inv, HandleCodeSubmit
  PROVE  Inv'
<1>1. SubmittedQuestion \in DOMAIN responses /\ editor \in 1 .. MaxEdits
  BY PageTypes DEF HandleCodeSubmit, SubmittedQuestion, Inv, PageOK
<1>2. PICK new : new = Request("code", SubmittedQuestion, editor)
  OBVIOUS
<1>3. new \in Call /\ CallOK(new)
  <2>1. Reviews \in Nat
    BY ReviewedIsFinite, FS_CardinalityType DEF Reviews
  <2> QED
    BY <1>1, <1>2, <2>1, PageTypes DEF Request, Call, CallOK, Kinds
<1>4. calls' = calls \cup {new} /\ UNCHANGED <<screen, shown, target, editor, review,
                                               server, bounds>>
  BY <1>2 DEF HandleCodeSubmit
<1>5. PageOK'
  BY <1>4 DEF Inv, PageOK, server
<1>6. submitting' \in BOOLEAN
  BY DEF HandleCodeSubmit
<1> QED
  BY <1>3, <1>4, <1>5, <1>6, PageTypes, PageStep DEF bounds

LEMMA AskAgainKeeps ==
  ASSUME Inv, HandleCodingContinue \/ HandleSkip
  PROVE  Inv'
<1>1. PICK new : /\ new \in {Request("question", 0, 0), Request("skip", shown, 0)}
                 /\ calls' = calls \cup {new}
  BY DEF HandleCodingContinue, HandleSkip
<1>2. new \in Call /\ CallOK(new)
  BY <1>1, PageTypes, RequestOK DEF Kinds
<1>3. /\ screen' = "processing"
      /\ UNCHANGED <<shown, target, editor, review, submitting, server, bounds>>
  BY DEF HandleCodingContinue, HandleSkip
<1>4. PageOK'
  BY <1>3 DEF Inv, PageOK, server
<1> QED
  BY <1>1, <1>2, <1>3, <1>4, PageTypes, PageStep DEF bounds, Screens

LEMMA ReloadKeeps ==
  ASSUME Inv, Reload
  PROVE  Inv'
<1> DEFINE orphans == {[c EXCEPT !.state = "orphan"] :
                         c \in {d \in calls : d.state \in {"sent", "orphan"}}}
           first == Request("question", 0, 0)
<1>1. \A c \in orphans : c \in Call /\ CallOK(c)
  <2> SUFFICES ASSUME NEW c \in calls
               PROVE  /\ [c EXCEPT !.state = "orphan"] \in Call
                      /\ CallOK([c EXCEPT !.state = "orphan"])
    OBVIOUS
  <2>1. c \in Call /\ CallOK(c)
    BY DEF Inv, TypeOK, CallsOK
  <2> QED
    BY <2>1 DEF Call, CallOK
<1>2. first \in Call /\ CallOK(first)
  BY PageTypes, RequestOK DEF Kinds
<1>3. calls' = orphans \cup {first}
  BY DEF Reload
<1> HIDE DEF orphans, first
<1>5. PageOK'
  BY DEF Reload, PageOK
<1>6. /\ screen' \in Screens /\ shown' = 0 /\ target' = 0 /\ editor' = 0
      /\ review' = NoReview /\ UNCHANGED <<server, edits>>
      /\ reloads' \in 0 .. MaxReloads
  BY PageTypes, RoundAssumption DEF Reload, Screens
<1>7. submitting' \in BOOLEAN
  BY DEF Reload
<1> QED
  BY <1>1, <1>2, <1>3, <1>5, <1>6, <1>7, PageTypes, PageStep

-----------------------------------------------------------------------------
LEMMA NextKeeps ==
  ASSUME Inv, [Next]_vars
  PROVE  Inv'
<1>1. ASSUME NEW c \in calls, Serve(c) PROVE Inv'
  BY <1>1, LoadForQuestionKeeps, LoadForSkipKeeps, CreateQuestionKeeps,
     ServeProblemKeeps, LoadForCodeKeeps, StoreProgramKeeps,
     InsertEvaluationKeeps, AdvancePhaseKeeps, BreaksKeeps DEF Serve
<1>2. ASSUME NEW c \in calls, Answered(c) PROVE Inv'
  BY <1>2, TurnArrivesKeeps, TurnFailsKeeps, ProblemArrivesKeeps,
     CodeReviewedKeeps DEF Answered
<1>3. CASE Candidate
  BY <1>3, EditKeeps, SubmitKeeps, AskAgainKeeps, ReloadKeeps DEF Candidate
<1>4. CASE UNCHANGED vars
  <2>1. PageOK'
    BY <1>4 DEF Inv, PageOK, vars, page, server
  <2>2. UNCHANGED <<page, calls, server, bounds>>
    BY <1>4 DEF vars
  <2> QED
    BY <2>1, <2>2, PageTypes, PageStep DEF page, bounds
<1> QED
  BY <1>1, <1>2, <1>3, <1>4 DEF Next, Network

(* The inductive invariant.                                                *)
THEOREM RoundInvariant == Spec => []Inv
<1>1. Init => Inv
  BY InitInv
<1>2. Inv /\ [Next]_vars => Inv'
  BY NextKeeps
<1> QED
  BY <1>1, <1>2, PTL DEF Spec

(* The round never gets ahead of the reviewed questions (coding.go:67-86), *)
(* however many programs are handed in, before or after a reload, and      *)
(* wherever their handlers break off.                                      *)
THEOREM RoundFollowsReviews == Spec => []NeverAheadOfReviews
<1>1. Inv => NeverAheadOfReviews
  BY DEF Inv
<1> QED
  BY <1>1, RoundInvariant, PTL

(* The review on the screen is the one the reports are made of.            *)
THEOREM ReviewsAreKept == Spec => []ReviewOnScreenIsKept
<1>1. Inv => ReviewOnScreenIsKept
  BY DEF Inv, PageOK, ReviewOnScreenIsKept
<1> QED
  BY <1>1, RoundInvariant, PTL

(* Every program handed in names a question of the interview               *)
(* (page.tsx:119).                                                         *)
THEOREM SubmissionsNameAQuestion == Spec => []SubmissionNamesAQuestion
<1>1. Inv => SubmissionNamesAQuestion
  BY DEF Inv, CallsOK, CallOK, SubmissionNamesAQuestion
<1> QED
  BY <1>1, RoundInvariant, PTL
====
