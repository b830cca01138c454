------------------------ MODULE SerialInterviewProofs -----------------------
(***************************************************************************)
(* Proofs about an interview whose requests are handled one at a time, for *)
(* any list of questions, any follow-ups and any failures the properties   *)
(* allow.                                                                  *)
(*                                                                         *)
(* There is one request, Cur.  Every step of Next is first restated as     *)
(* what it does to Cur and to the fields of the rows (Step); four          *)
(* invariants are then proved from that: what the one request may rely on  *)
(* (CoreInv), the order of the questions (OrderOK), the fate of every turn *)
(* (TurnOK) and the size of the phases (PhaseOK).  CoreInv also carries    *)
(* the step simulation of the plan.                                        *)
(***************************************************************************)
EXTENDS SerialInterview, InterviewServiceProofs, FiniteSetTheorems

One == CHOOSE r \in Slots : TRUE
Cur == requests[One]

LEMMA OneSlot == One \in Slots /\ \A r \in Slots : r = One
BY SerialAssumption DEF One

LEMMA CurType ==
  ASSUME TypeOK
  PROVE  /\ Cur \in Request
         /\ Cur.kind \in AllKinds \cup {"none"}
         /\ Cur.pc \in Labels
         /\ Cur.question \in Nat
         /\ Cur.row \in PhaseRow
         /\ Cur.summary \subseteq Nat
         /\ Cur.seen \in Seq(Response)
         /\ Cur.current \in Nat
         /\ Cur.score \in Scores
BY OneSlot, RequestFields DEF Cur

LEMMA CurBecomes ==
  ASSUME TypeOK, NEW q, requests' = [requests EXCEPT ![One] = q]
  PROVE  Cur' = q
BY OneSlot DEF TypeOK, Cur

-----------------------------------------------------------------------------
(* What becomes of the request.                                            *)

Ends == Cur'.pc = "idle" /\ Cur'.kind = "none"

(* It goes on at pc; its row, current response and score may be new.       *)
Keeps ==
  /\ Cur'.kind = Cur.kind
  /\ Cur'.question = Cur.question
  /\ Cur'.summary = Cur.summary
  /\ Cur'.seen = Cur.seen

GoesTo(pc) ==
  /\ Cur'.pc = pc /\ Keeps
  /\ Cur'.row = Cur.row /\ Cur'.current = Cur.current /\ Cur'.score = Cur.score

ReadsOn(pc, current) ==
  /\ Cur'.pc = pc
  /\ Cur'.current = current
  /\ Cur'.seen = Kept(pc)
  /\ Cur'.kind = Cur.kind
  /\ Cur'.row = Cur.row /\ Cur'.summary = Cur.summary /\ Cur'.score = Cur.score

LEMMA DoneEffect ==
  ASSUME TypeOK, Done(One)
  PROVE  Ends
<1>1. Cur' = NoRequest
  BY CurBecomes DEF Done
<1> QED
  BY <1>1 DEF Ends, NoRequest

LEMMA GotoEffect ==
  ASSUME TypeOK, NEW pc, Goto(One, pc)
  PROVE  GoesTo(pc)
<1>1. requests' = [requests EXCEPT ![One] = [Cur EXCEPT !.pc = pc]]
  BY DEF Goto, Cur
<1>2. Cur' = [Cur EXCEPT !.pc = pc]
  BY <1>1, CurBecomes
<1> QED
  BY <1>2, CurType DEF GoesTo, Keeps, Request

LEMMA ProceedEffect ==
  ASSUME TypeOK, NEW pc, NEW current, Proceed(One, pc, current)
  PROVE  ReadsOn(pc, current)
<1>1. Cur \in Request
  BY CurType
<1>2. requests' = [requests EXCEPT ![One] =
        [Cur EXCEPT !.pc = pc, !.question = 0, !.seen = Kept(pc),
                    !.current = current]]
  BY <1>1 DEF Proceed, Kept, Cur
<1>3. Cur' = [Cur EXCEPT !.pc = pc, !.question = 0, !.seen = Kept(pc),
                         !.current = current]
  BY <1>2, CurBecomes
<1> QED
  BY <1>1, <1>3 DEF ReadsOn, Request

-----------------------------------------------------------------------------
(* What becomes of the responses.                                          *)

QuestionsKept ==
  /\ Len(responses') = Len(responses)
  /\ DOMAIN responses' = DOMAIN responses
  /\ \A i \in DOMAIN responses :
       /\ responses'[i].num = responses[i].num
       /\ responses'[i].parent = responses[i].parent
       /\ responses'[i].phase = responses[i].phase

Rewritten(c) ==
  /\ QuestionsKept
  /\ c \in DOMAIN responses
  /\ \A i \in DOMAIN responses \ {c} : responses'[i] = responses[i]

Asked(num, parent, phase) ==
  /\ Len(responses') = Len(responses) + 1
  /\ DOMAIN responses = 1..Len(responses)
  /\ DOMAIN responses' = 1..(Len(responses) + 1)
  /\ Len(responses) \in Nat
  /\ \A i \in DOMAIN responses : responses'[i] = responses[i]
  /\ responses'[Len(responses) + 1] = NewResponse(num, parent, phase)

LEMMA RewriteEffect ==
  ASSUME TypeOK, NEW c \in DOMAIN responses, NEW new,
         responses' = [responses EXCEPT ![c] = new],
         new.num = responses[c].num, new.parent = responses[c].parent,
         new.phase = responses[c].phase
  PROVE  Rewritten(c) /\ responses'[c] = new
<1>1. responses \in Seq(Response)
  BY DEF TypeOK
<1>2. /\ DOMAIN responses' = DOMAIN responses
      /\ \A i \in DOMAIN responses :
           responses'[i] = IF i = c THEN new ELSE responses[i]
  BY <1>1
<1>3. Len(responses') = Len(responses)
  BY <1>1, <1>2
<1> QED
  BY <1>2, <1>3 DEF Rewritten, QuestionsKept

LEMMA AppendEffect ==
  ASSUME TypeOK, NEW num, NEW parent, NEW phase,
         responses' = Append(responses, NewResponse(num, parent, phase))
  PROVE  Asked(num, parent, phase)
<1>1. responses \in Seq(Response)
  BY DEF TypeOK
<1>2. Len(responses) \in Nat /\ DOMAIN responses = 1..Len(responses)
  BY <1>1, ListProperties
<1> DEFINE new == NewResponse(num, parent, phase)
<1>3. responses' = Append(responses, new)
  OBVIOUS
<1> HIDE DEF new
<1>4. /\ DOMAIN responses' = 1..(Len(responses) + 1)
      /\ Len(responses') = Len(responses) + 1
      /\ \A i \in DOMAIN responses : responses'[i] = responses[i]
      /\ responses'[Len(responses) + 1] = new
  BY <1>1, <1>2, <1>3
<1> QED
  BY <1>2, <1>4 DEF Asked, new

-----------------------------------------------------------------------------
(* The actions.                                                            *)

(* It ends without having changed a row: turned away, rejected or failed.  *)
Quits ==
  /\ Ends /\ UNCHANGED storeVars
  /\ \/ Cur.pc \in {"load", "responses"}
     \/ Cur.pc = "evaluation" /\ Evaluated(Cur.current)
     \/ ~(Faults \subseteq {"summary"})

Begins ==
  /\ Cur.pc = "idle" /\ UNCHANGED storeVars
  /\ Cur'.pc = "load" /\ Cur'.kind \in Kinds
  /\ Naming = "page" /\ Cur'.kind # "code" => Cur'.question = 0
  /\ Cur'.kind = "code" => Cur'.question \in DOMAIN responses
  /\ Cur'.kind = "question" => Cur'.question = 0
  /\ Cur'.kind \in Asking => Len(responses) < MaxResponses

Loads ==
  /\ Cur.pc = "load" /\ UNCHANGED storeVars
  /\ status = "completed" => Cur.kind \in {"hint", "problem"}
  /\ Cur'.pc = "responses" /\ Cur'.kind = Cur.kind
  /\ Cur'.question = Cur.question
  /\ Cur'.row = row /\ Cur'.summary = summary

(* It goes on with an open question, any question for a program, a new     *)
(* question, the last answer or the completion.                            *)
Reads ==
  /\ Cur.pc = "responses" /\ UNCHANGED storeVars
  /\ \/ /\ Cur.kind \in {"question", "skip"}
        /\ Cur.question = 0 => Pending(responses) = {}
        /\ ReadsOn("create", 0)
     \/ Cur.kind = "generate" /\ ReadsOn("create", 0)
     \/ \E c \in Pending(responses) :
          \/ Cur.kind \in {"answer", "respond"} /\ ReadsOn("record", c)
          \/ Cur.kind = "skip" /\ ReadsOn("skip", c)
          \/ Cur.kind = "hint" /\ ReadsOn("hint", c)
          \/ Cur.kind = "problem" /\ ReadsOn("problem", c)
     \/ /\ Cur.kind = "code"
        /\ \E c \in DOMAIN responses : ReadsOn("record", c)
     \/ /\ Cur.kind = "followup"
        /\ LastAsked(responses) \in DOMAIN responses \ Pending(responses)
        /\ ReadsOn("ask", LastAsked(responses))
     \/ Cur.kind = "complete" /\ ReadsOn("finish", 0)

LEMMA BeginEffect ==
  ASSUME ServiceInv, NEW kind \in Kinds, NEW question \in Named(kind),
         Begin(One, kind, question)
  PROVE  Begins
<1>1. TypeOK /\ responses \in Seq(Response)
  BY DEF ServiceInv, TypeOK
<1>2. Cur.pc = "idle" /\ UNCHANGED storeVars
  BY DEF Begin, At, Cur
<1>3. Cur' = [NoRequest EXCEPT !.kind = kind, !.pc = "load", !.question = question]
  BY <1>1, CurBecomes DEF Begin
<1>4. Cur'.pc = "load" /\ Cur'.kind = kind /\ Cur'.question = question
  BY <1>3 DEF NoRequest
<1>5. /\ Naming = "page" /\ kind # "code" => question = 0
      /\ kind = "code" => question \in DOMAIN responses
      /\ kind = "question" => question = 0
  BY DEF Named
<1>6. kind \in Asking => Len(responses) < MaxResponses
  <2> DEFINE asking == {r \in Slots : requests[r].kind \in Asking}
  <2>1. asking \subseteq {One}
    BY OneSlot
  <2>2. Cardinality(asking) \in Nat
    BY <2>1, FS_Singleton, FS_Subset, FS_CardinalityType
  <2>3. Len(responses) \in Nat
    BY <1>1, ListProperties
  <2>4. kind \in Asking => Len(responses) + Cardinality(asking) < MaxResponses
    BY DEF Begin, Room
  <2> HIDE DEF asking
  <2> QED
    BY <2>2, <2>3, <2>4, ServiceAssumption
<1> QED
  BY <1>2, <1>4, <1>5, <1>6 DEF Begins

LEMMA LoadEffect ==
  ASSUME TypeOK, LoadInterview(One)
  PROVE  Loads
<1>1. Cur.pc = "load" /\ UNCHANGED storeVars
  BY DEF LoadInterview, At, Cur
<1>2. requests' = [requests EXCEPT ![One] =
        [Cur EXCEPT !.pc = "responses", !.row = row, !.summary = summary]]
  BY CurType DEF LoadInterview, Cur, Request
<1>3. Cur' = [Cur EXCEPT !.pc = "responses", !.row = row, !.summary = summary]
  BY <1>2, CurBecomes
<1>4. status = "completed" => Cur.kind \in {"hint", "problem"}
  BY DEF LoadInterview, Refuses, Cur
<1> QED
  BY <1>1, <1>3, <1>4, CurType DEF Request, Loads

LEMMA CurSlot ==
  ASSUME ServiceInv
  PROVE  /\ TypeOK
         /\ SlotInv(Cur, responses)
         /\ responses \in Seq(Response)
         /\ DOMAIN responses = 1..Len(responses)
         /\ Len(responses) \in Nat
BY OneSlot, ListProperties DEF ServiceInv, TypeOK, Cur

(* FindPendingResponse finds a pending question if there is one.           *)
LEMMA NothingPending ==
  ASSUME NEW list \in Seq(Response), NumsBounded(list),
         FindPendingResponse(list, 0) = 0
  PROVE  Pending(list) = {}
<1> DEFINE ids == {i \in Pending(list) : 0 \in {0, i}}
<1>1. ids = Pending(list) /\ ids \subseteq DOMAIN list
  BY DEF Pending
<1>2. ids # {} => LastOf(list, ids) \in ids
  BY <1>1, LastOfMember
<1>3. LastOf(list, ids) = 0
  BY DEF FindPendingResponse
<1>4. \A i \in DOMAIN list : i # 0
  BY ListProperties
<1> QED
  BY <1>1, <1>2, <1>3, <1>4

(* The handlers that go on with the question that is pending, if any.      *)
LEMMA ReadPendingEffect ==
  ASSUME ServiceInv, Cur.kind = "question" => Cur.question = 0,
         \/ ReadForQuestion(One) \/ ReadForAnswer(One)
         \/ ReadForSkip(One) \/ ReadForHint(One)
  PROVE  Quits \/ Reads
<1> DEFINE found == FindPendingResponse(responses, Cur.question)
<1>1. TypeOK /\ responses \in Seq(Response) /\ NumsBounded(responses)
  BY DEF ServiceInv, TypeOK, ListInv
<1>2. /\ found = 0 \/ found \in Pending(responses)
      /\ found = 0 /\ Cur.question = 0 => Pending(responses) = {}
  BY <1>1, NothingPending, PendingFound
<1>3. Cur.pc = "responses" /\ UNCHANGED storeVars
  BY DEF ReadForQuestion, ReadForAnswer, ReadForSkip, ReadForHint, At, Cur
<1>4. \A i \in Pending(responses) : i # 0
  BY <1>1, ListProperties DEF Pending
<1>5. \/ Done(One)
      \/ /\ Cur.kind \in {"question", "skip"}
         /\ found = 0 /\ Proceed(One, "create", 0)
      \/ /\ found # 0
         /\ \/ Cur.kind = "answer" /\ Proceed(One, "record", found)
            \/ Cur.kind = "skip" /\ Proceed(One, "skip", found)
            \/ Cur.kind = "hint" /\ Proceed(One, "hint", found)
  BY DEF ReadForQuestion, ReadForAnswer, ReadForSkip, ReadForHint, Handling, Cur
<1> HIDE DEF found
<1>6. \/ Ends
      \/ /\ Cur.kind \in {"question", "skip"}
         /\ found = 0 /\ ReadsOn("create", 0)
      \/ /\ found # 0
         /\ \/ Cur.kind = "answer" /\ ReadsOn("record", found)
            \/ Cur.kind = "skip" /\ ReadsOn("skip", found)
            \/ Cur.kind = "hint" /\ ReadsOn("hint", found)
  BY <1>1, <1>5, DoneEffect, ProceedEffect
<1> QED
  BY <1>2, <1>3, <1>4, <1>6 DEF Quits, Reads

(* The others.                                                             *)
LEMMA ReadOtherEffect ==
  ASSUME ServiceInv,
         \/ ReadForGenerate(One) \/ ReadForRespond(One) \/ ReadForFollowUp(One)
         \/ ReadForCode(One) \/ ReadForProblem(One) \/ ReadForComplete(One)
  PROVE  Quits \/ Reads
<1> DEFINE latest == LastAsked(responses)
           open == {i \in Pending(responses) : responses[i].phase = "coding"}
           newest == CHOOSE i \in open : \A j \in open : j <= i
<1>1. TypeOK /\ responses \in Seq(Response)
  BY DEF ServiceInv, TypeOK
<1>2. Cur.pc = "responses" /\ UNCHANGED storeVars
  BY DEF ReadForGenerate, ReadForRespond, ReadForFollowUp, ReadForCode,
         ReadForProblem, ReadForComplete, At, Cur
<1>3. open # {} => newest \in open
  <2>1. open \subseteq 0..Len(responses) /\ Len(responses) \in Nat
    BY <1>1, ListProperties DEF Pending
  <2> HIDE DEF open
  <2>2. open # {} => \E i \in open : \A j \in open : j <= i
    BY <2>1, MaximumExists
  <2> QED
    BY <2>2
<1>4. open \subseteq Pending(responses)
  OBVIOUS
<1>5. \/ Done(One)
      \/ Cur.kind = "generate" /\ Proceed(One, "create", 0)
      \/ /\ Cur.kind = "respond" /\ latest \in Pending(responses)
         /\ Proceed(One, "record", latest)
      \/ /\ Cur.kind = "problem" /\ open # {}
         /\ Proceed(One, "problem", newest)
      \/ /\ Cur.kind = "followup"
         /\ latest \in DOMAIN responses \ Pending(responses)
         /\ Proceed(One, "ask", latest)
      \/ Cur.kind = "code" /\ Proceed(One, "record", Cur.question)
      \/ Cur.kind = "complete" /\ Proceed(One, "finish", 0)
  BY DEF ReadForGenerate, ReadForRespond, ReadForFollowUp, ReadForCode,
         ReadForProblem, ReadForComplete, Handling, Cur
<1> HIDE DEF latest, open, newest
<1>6. \/ Ends
      \/ Cur.kind = "generate" /\ ReadsOn("create", 0)
      \/ /\ Cur.kind = "respond" /\ latest \in Pending(responses)
         /\ ReadsOn("record", latest)
      \/ /\ Cur.kind = "problem" /\ open # {}
         /\ ReadsOn("problem", newest)
      \/ /\ Cur.kind = "followup"
         /\ latest \in DOMAIN responses \ Pending(responses)
         /\ ReadsOn("ask", latest)
      \/ Cur.kind = "code" /\ ReadsOn("record", Cur.question)
      \/ Cur.kind = "complete" /\ ReadsOn("finish", 0)
  BY <1>1, <1>5, DoneEffect, ProceedEffect
<1>7. Cur.kind = "code" => Cur.question \in DOMAIN responses
  BY <1>2, CurSlot DEF SlotInv
<1> QED
  BY <1>2, <1>3, <1>4, <1>6, <1>7 DEF Quits, Reads, latest

Records ==
  /\ Cur.pc = "record" /\ Cur'.pc = "evaluation" /\ Keeps
  /\ Cur'.row = Cur.row /\ Cur'.current = Cur.current
  /\ Rewritten(Cur.current)
  /\ responses'[Cur.current].answer = IF Cur.kind = "code" THEN "code" ELSE "spoken"
  /\ responses'[Cur.current].score = Cur'.score
  /\ evaluations' = evaluations /\ UNCHANGED interviewVars

LEMMA RecordEffect ==
  ASSUME ServiceInv, NEW score \in AnswerScores, RecordAnswer(One, score)
  PROVE  Records
<1> DEFINE c == Cur.current
           new == [responses[c] EXCEPT
                     !.answer = IF Cur.kind = "code" THEN "code" ELSE "spoken",
                     !.score = score]
<1>1. TypeOK /\ Cur.pc = "record" /\ c \in DOMAIN responses
  BY OneSlot DEF ServiceInv, SlotInv, Working, RecordAnswer, At, Cur
<1>2. responses[c] \in Response
  BY <1>1, ListProperties DEF TypeOK
<1>3. responses' = [responses EXCEPT ![c] = new]
  BY <1>2 DEF RecordAnswer, Handling, Cur, Response
<1>4. /\ new.num = responses[c].num /\ new.parent = responses[c].parent
      /\ new.phase = responses[c].phase
      /\ new.answer = IF Cur.kind = "code" THEN "code" ELSE "spoken"
      /\ new.score = score
  BY <1>2 DEF Response
<1> HIDE DEF new
<1>5. Rewritten(c) /\ responses'[c] = new
  BY <1>1, <1>3, <1>4, RewriteEffect
<1>6. requests' = [requests EXCEPT ![One] =
        [Cur EXCEPT !.pc = "evaluation", !.score = score]]
  BY CurType, <1>1 DEF RecordAnswer, Cur, Request
<1>7. Cur' = [Cur EXCEPT !.pc = "evaluation", !.score = score]
  BY <1>1, <1>6, CurBecomes
<1>8. /\ Cur'.pc = "evaluation" /\ Keeps /\ Cur'.score = score
      /\ Cur'.row = Cur.row /\ Cur'.current = c
  BY <1>1, <1>7, CurType DEF Request, Keeps
<1>9. evaluations' = evaluations /\ UNCHANGED interviewVars
  BY DEF RecordAnswer
<1> QED
  BY <1>1, <1>4, <1>5, <1>8, <1>9 DEF Records

Evaluates ==
  /\ Cur.pc = "evaluation" /\ ~Evaluated(Cur.current)
  /\ evaluations' = evaluations \cup {[response |-> Cur.current, score |-> Cur.score]}
  /\ \/ Cur.kind = "answer" /\ GoesTo("reread")
     \/ Cur.kind = "code" /\ GoesTo("advance")
     \/ Cur.kind = "respond" /\ Ends
  /\ responses' = responses /\ UNCHANGED interviewVars

LEMMA EvaluationEffect ==
  ASSUME ServiceInv, RecordEvaluation(One)
  PROVE  Evaluates
<1>1. /\ TypeOK /\ Cur.pc = "evaluation"
      /\ Cur.kind \in {"answer", "code", "respond"}
  BY OneSlot DEF ServiceInv, SlotInv, RecordEvaluation, At, Cur
<1>2. /\ ~Evaluated(Cur.current)
      /\ evaluations' = evaluations \cup
           {[response |-> Cur.current, score |-> Cur.score]}
      /\ responses' = responses /\ UNCHANGED interviewVars
  BY DEF RecordEvaluation, Cur
<1>3. CASE Cur.kind = "answer"
  <2>1. Goto(One, "reread")
    BY <1>3 DEF RecordEvaluation, Cur
  <2> QED
    BY <1>1, <1>2, <1>3, <2>1, GotoEffect DEF Evaluates
<1>4. CASE Cur.kind = "code"
  <2>1. Goto(One, "advance")
    BY <1>4 DEF RecordEvaluation, Cur
  <2> QED
    BY <1>1, <1>2, <1>4, <2>1, GotoEffect DEF Evaluates
<1>5. CASE Cur.kind = "respond"
  <2>1. Done(One)
    BY <1>5 DEF RecordEvaluation, Cur
  <2> QED
    BY <1>1, <1>2, <1>5, <2>1, DoneEffect DEF Evaluates
<1> QED
  BY <1>1, <1>3, <1>4, <1>5

Decides ==
  /\ Cur.pc = "reread" /\ Cur.kind = "answer" /\ UNCHANGED storeVars
  /\ \/ ReadsOn("ask", Cur.current)
     \/ responses[Cur.current].parent = 0 /\ ReadsOn("advance", Cur.current)
     \/ responses[Cur.current].parent # 0 /\ ReadsOn("summary", Cur.current)

LEMMA DecideEffect ==
  ASSUME ServiceInv, DecideTurn(One)
  PROVE  Decides
<1> DEFINE due == FollowUpDue(responses, Cur.current, Cur.score)
<1>1. TypeOK
  BY DEF ServiceInv
<1>2. Cur.pc = "reread" /\ Cur.kind = "answer" /\ UNCHANGED storeVars
  BY DEF DecideTurn, At, Handling, Cur
<1>3. CASE due
  <2>1. Proceed(One, "ask", Cur.current)
    BY <1>3 DEF DecideTurn, Cur
  <2> QED
    BY <1>1, <1>2, <2>1, ProceedEffect DEF Decides
<1>4. CASE ~due /\ responses[Cur.current].parent = 0
  <2>1. Proceed(One, "advance", Cur.current)
    BY <1>4 DEF DecideTurn, Cur
  <2> QED
    BY <1>1, <1>2, <1>4, <2>1, ProceedEffect DEF Decides
<1>5. CASE ~due /\ responses[Cur.current].parent # 0
  <2>1. Proceed(One, "summary", Cur.current)
    BY <1>5 DEF DecideTurn, Cur
  <2> QED
    BY <1>1, <1>2, <1>5, <2>1, ProceedEffect DEF Decides
<1> QED
  BY <1>3, <1>4, <1>5

Skips ==
  /\ Cur.pc = "skip" /\ GoesTo("reread")
  /\ Rewritten(Cur.current)
  /\ responses'[Cur.current].answer = "skipped"
  /\ evaluations' = evaluations /\ UNCHANGED interviewVars

(* A hint or a problem leaves the answer as it is.                         *)
Hints ==
  /\ Cur.pc = "hint" /\ Ends
  /\ Rewritten(Cur.current)
  /\ responses'[Cur.current].answer = responses[Cur.current].answer
  /\ responses'[Cur.current].score = responses[Cur.current].score
  /\ evaluations' = evaluations /\ UNCHANGED interviewVars

Poses ==
  /\ Cur.pc = "problem" /\ Ends
  /\ Rewritten(Cur.current)
  /\ responses'[Cur.current].answer = responses[Cur.current].answer
  /\ responses'[Cur.current].score = responses[Cur.current].score
  /\ evaluations' = evaluations /\ UNCHANGED interviewVars

LEMMA SkipEffect ==
  ASSUME ServiceInv, SkipCurrent(One)
  PROVE  Skips
<1> DEFINE c == Cur.current
           new == [responses[c] EXCEPT !.answer = "skipped", !.score = 5]
<1>1. TypeOK /\ Cur.pc = "skip" /\ c \in DOMAIN responses
  BY OneSlot DEF ServiceInv, SlotInv, Working, SkipCurrent, At, Cur
<1>2. responses[c] \in Response
  BY <1>1, ListProperties DEF TypeOK
<1>3. responses' = [responses EXCEPT ![c] = new]
  BY <1>2 DEF SkipCurrent, Cur, Response
<1>4. /\ new.num = responses[c].num /\ new.parent = responses[c].parent
      /\ new.phase = responses[c].phase /\ new.answer = "skipped"
  BY <1>2 DEF Response
<1> HIDE DEF new
<1>5. Rewritten(c) /\ responses'[c] = new
  BY <1>1, <1>3, <1>4, RewriteEffect
<1>6. Goto(One, "reread") /\ evaluations' = evaluations /\ UNCHANGED interviewVars
  BY DEF SkipCurrent
<1>7. GoesTo("reread")
  BY <1>1, <1>6, GotoEffect
<1> QED
  BY <1>1, <1>4, <1>5, <1>6, <1>7 DEF Skips

LEMMA HintEffect ==
  ASSUME ServiceInv, GiveHint(One)
  PROVE  Hints
<1> DEFINE c == Cur.current
           new == [responses[c] EXCEPT !.hinted = TRUE]
<1>1. TypeOK /\ Cur.pc = "hint" /\ c \in DOMAIN responses
  BY OneSlot DEF ServiceInv, SlotInv, Working, GiveHint, At, Cur
<1>2. responses[c] \in Response
  BY <1>1, ListProperties DEF TypeOK
<1>3. responses' = [responses EXCEPT ![c] = new]
  BY <1>2 DEF GiveHint, Cur, Response
<1>4. /\ new.num = responses[c].num /\ new.parent = responses[c].parent
      /\ new.phase = responses[c].phase /\ new.answer = responses[c].answer
      /\ new.score = responses[c].score
  BY <1>2 DEF Response
<1> HIDE DEF new
<1>5. Rewritten(c) /\ responses'[c] = new
  BY <1>1, <1>3, <1>4, RewriteEffect
<1>6. Done(One) /\ evaluations' = evaluations /\ UNCHANGED interviewVars
  BY DEF GiveHint
<1>7. Ends
  BY <1>1, <1>6, DoneEffect
<1> QED
  BY <1>1, <1>4, <1>5, <1>6, <1>7 DEF Hints

LEMMA ProblemEffect ==
  ASSUME ServiceInv, StoreProblem(One)
  PROVE  Poses
<1> DEFINE c == Cur.current
           new == [responses[c] EXCEPT !.problem = @ + 1]
<1>1. TypeOK /\ Cur.pc = "problem" /\ c \in DOMAIN responses
  BY OneSlot DEF ServiceInv, SlotInv, Working, StoreProblem, At, Cur
<1>2. responses[c] \in Response
  BY <1>1, ListProperties DEF TypeOK
<1>3. responses' = [responses EXCEPT ![c] = new]
  BY <1>2 DEF StoreProblem, Cur, Response
<1>4. /\ new.num = responses[c].num /\ new.parent = responses[c].parent
      /\ new.phase = responses[c].phase /\ new.answer = responses[c].answer
      /\ new.score = responses[c].score
  BY <1>2 DEF Response
<1> HIDE DEF new
<1>5. Rewritten(c) /\ responses'[c] = new
  BY <1>1, <1>3, <1>4, RewriteEffect
<1>6. Done(One) /\ evaluations' = evaluations /\ UNCHANGED interviewVars
  BY DEF StoreProblem
<1>7. Ends
  BY <1>1, <1>6, DoneEffect
<1> QED
  BY <1>1, <1>4, <1>5, <1>6, <1>7 DEF Poses

FollowsUp ==
  /\ Cur.pc = "ask" /\ Cur'.pc = "context" /\ Keeps /\ Cur'.row = Cur.row
  /\ Asked(Cur.seen[Cur.current].num + 1, Cur.current,
           IF Cur.kind = "followup" THEN "introduction" ELSE PhaseOf(Cur.row.phase))
  /\ evaluations' = evaluations /\ UNCHANGED interviewVars

LEMMA FollowUpEffect ==
  ASSUME ServiceInv, AskFollowUp(One)
  PROVE  FollowsUp
<1>1. TypeOK /\ Cur.pc = "ask"
  BY DEF ServiceInv, AskFollowUp, At, Cur
<1>2. Asked(Cur.seen[Cur.current].num + 1, Cur.current,
        IF Cur.kind = "followup" THEN "introduction" ELSE PhaseOf(Cur.row.phase))
  BY <1>1, AppendEffect DEF AskFollowUp, Cur
<1>3. requests' = [requests EXCEPT ![One] =
        [Cur EXCEPT !.pc = "context", !.current = Len(responses')]]
  BY <1>1, CurType DEF AskFollowUp, Cur, Request
<1>4. Cur' = [Cur EXCEPT !.pc = "context", !.current = Len(responses')]
  BY <1>1, <1>3, CurBecomes
<1>5. Cur'.pc = "context" /\ Keeps /\ Cur'.row = Cur.row
  BY <1>1, <1>4, CurType DEF Request, Keeps
<1>6. evaluations' = evaluations /\ UNCHANGED interviewVars
  BY DEF AskFollowUp
<1> QED
  BY <1>1, <1>2, <1>5, <1>6 DEF FollowsUp

Creates ==
  /\ Cur.pc = "create" /\ Ends
  /\ Asked(NextNumber(Cur.seen), 0, PhaseOf(Cur.row.phase))
  /\ evaluations' = evaluations /\ UNCHANGED interviewVars

LEMMA CreateEffect ==
  ASSUME ServiceInv, CreateQuestion(One)
  PROVE  Creates
<1>1. TypeOK /\ Cur.pc = "create"
  BY DEF ServiceInv, CreateQuestion, At, Cur
<1>2. Asked(NextNumber(Cur.seen), 0, PhaseOf(Cur.row.phase))
  BY <1>1, AppendEffect DEF CreateQuestion, Cur
<1>3. Done(One) /\ evaluations' = evaluations /\ UNCHANGED interviewVars
  BY DEF CreateQuestion
<1> QED
  BY <1>1, <1>2, <1>3, DoneEffect DEF Creates

NotesContext ==
  /\ Cur.pc = "context" /\ Ends
  /\ responses' = responses /\ evaluations' = evaluations /\ UNCHANGED interviewVars

RereadsForQuestion ==
  /\ Cur.pc = "reread" /\ Cur.kind = "skip" /\ UNCHANGED storeVars
  /\ ReadsOn("create", Cur.current)

RereadsForScores ==
  /\ Cur.pc = "reread" /\ Cur.kind = "code" /\ UNCHANGED storeVars
  /\ ReadsOn("finish", Cur.current)

LEMMA ContextEffect ==
  ASSUME ServiceInv, RecordFollowUpContext(One)
  PROVE  NotesContext
<1>1. TypeOK /\ Cur.pc = "context" /\ Done(One)
  BY DEF ServiceInv, RecordFollowUpContext, At, Cur
<1> QED
  BY <1>1, DoneEffect DEF RecordFollowUpContext, NotesContext

LEMMA RereadEffect ==
  ASSUME ServiceInv, RereadAfterSkip(One) \/ RereadAfterCode(One)
  PROVE  RereadsForQuestion \/ RereadsForScores
<1>1. TypeOK /\ Cur.pc = "reread" /\ UNCHANGED storeVars
  BY DEF ServiceInv, RereadAfterSkip, RereadAfterCode, At, Cur
<1>2. \/ Cur.kind = "skip" /\ Proceed(One, "create", Cur.current)
      \/ Cur.kind = "code" /\ Proceed(One, "finish", Cur.current)
  BY DEF RereadAfterSkip, RereadAfterCode, Handling, Cur
<1> QED
  BY <1>1, <1>2, ProceedEffect DEF RereadsForQuestion, RereadsForScores

Advances ==
  /\ Cur.pc = "advance"
  /\ row' = ComputePhaseAdvancement(Cur.row, Level, Cur.score).row
  /\ advanced' = advanced \cup {Cur.current}
  /\ UNCHANGED <<status, summary, finalScore, fired>>
  /\ responses' = responses /\ evaluations' = evaluations
  /\ LET complete == ComputePhaseAdvancement(Cur.row, Level, Cur.score).complete
     IN  \/ Cur.kind = "code" /\ ~complete /\ Ends
         \/ /\ Keeps /\ Cur'.row = row' /\ Cur'.current = Cur.current
            /\ \/ Cur.kind = "answer" /\ complete /\ Cur'.pc = "finish"
               \/ Cur.kind = "answer" /\ ~complete /\ Cur'.pc = "summary"
               \/ Cur.kind = "code" /\ complete /\ Cur'.pc = "reread"

LEMMA AdvanceEffect ==
  ASSUME ServiceInv, AdvancePhase(One)
  PROVE  Advances
<1> DEFINE advancement == ComputePhaseAdvancement(Cur.row, Level, Cur.score)
           complete == advancement.complete
           new == advancement.row
           Next2(pc) == [Cur EXCEPT !.pc = pc, !.row = new]
<1>1. TypeOK /\ Cur.pc = "advance" /\ Cur.kind \in {"answer", "code"}
  BY OneSlot DEF ServiceInv, SlotInv, AdvancePhase, At, Cur
<1>2. /\ row' = new /\ advanced' = advanced \cup {Cur.current}
      /\ UNCHANGED <<status, summary, finalScore, fired>>
      /\ responses' = responses /\ evaluations' = evaluations
  BY DEF AdvancePhase, SavedRow, responseVars, Cur
<1>3. CASE Cur.kind = "code" /\ ~complete
  <2>1. Done(One)
    BY <1>3 DEF AdvancePhase, Concludes, Handling, Done, Cur
  <2> QED
    BY <1>1, <1>2, <1>3, <2>1, DoneEffect DEF Advances
<1>4. ASSUME NEW pc, requests' = [requests EXCEPT ![One] = Next2(pc)]
      PROVE  Keeps /\ Cur'.row = new /\ Cur'.current = Cur.current /\ Cur'.pc = pc
  <2>1. Cur' = Next2(pc)
    BY <1>1, <1>4, CurBecomes
  <2> HIDE DEF new
  <2> QED
    BY <1>1, <2>1, CurType DEF Request, Keeps
<1>5. CASE Cur.kind = "answer" /\ complete
  <2>1. requests' = [requests EXCEPT ![One] = Next2("finish")]
    BY <1>1, <1>5 DEF AdvancePhase, Concludes, Handling, Cur
  <2> HIDE DEF advancement, Next2
  <2>2. Keeps /\ Cur'.row = new /\ Cur'.current = Cur.current /\ Cur'.pc = "finish"
    BY <2>1, <1>4
  <2> USE DEF advancement
  <2> QED
    BY <1>1, <1>2, <1>5, <2>2 DEF Advances
<1>6. CASE Cur.kind = "answer" /\ ~complete
  <2>1. requests' = [requests EXCEPT ![One] = Next2("summary")]
    BY <1>1, <1>6 DEF AdvancePhase, Concludes, Handling, Cur
  <2> HIDE DEF advancement, Next2
  <2>2. Keeps /\ Cur'.row = new /\ Cur'.current = Cur.current /\ Cur'.pc = "summary"
    BY <2>1, <1>4
  <2> USE DEF advancement
  <2> QED
    BY <1>1, <1>2, <1>6, <2>2 DEF Advances
<1>7. CASE Cur.kind = "code" /\ complete
  <2>1. requests' = [requests EXCEPT ![One] = Next2("reread")]
    BY <1>1, <1>7 DEF AdvancePhase, Concludes, Handling, Cur
  <2> HIDE DEF advancement, Next2
  <2>2. Keeps /\ Cur'.row = new /\ Cur'.current = Cur.current /\ Cur'.pc = "reread"
    BY <2>1, <1>4
  <2> USE DEF advancement
  <2> QED
    BY <1>1, <1>2, <1>7, <2>2 DEF Advances
<1> HIDE DEF complete
<1> QED
  BY <1>1, <1>3, <1>5, <1>6, <1>7

Summarises ==
  /\ Cur.pc = "summary" /\ GoesTo("create")
  /\ \/ summary' = Summarised(Cur.seen)
     \/ summary' = Cur.summary
     \/ summary' = {}
  /\ UNCHANGED <<status, row, finalScore, advanced, fired>>
  /\ responses' = responses /\ evaluations' = evaluations

Completes ==
  /\ Cur.pc = "finish" /\ GoesTo("fire")
  /\ status' = "completed" /\ finalScore' = ResponseScores(Cur.seen)
  /\ UNCHANGED <<row, summary, advanced, fired>>
  /\ responses' = responses /\ evaluations' = evaluations

Fires ==
  /\ Cur.pc = "fire" /\ Ends
  /\ fired' = fired + 1
  /\ UNCHANGED <<status, row, summary, finalScore, advanced>>
  /\ responses' = responses /\ evaluations' = evaluations

LEMMA LastEffects ==
  ASSUME ServiceInv,
         \/ UpdateSummary(One) \/ CompleteInterview(One)
         \/ FireInterviewCompleted(One)
  PROVE  Summarises \/ Completes \/ Fires
<1>1. TypeOK
  BY DEF ServiceInv
<1>2. CASE UpdateSummary(One)
  <2>1. Cur.pc = "summary" /\ Goto(One, "create")
    BY <1>2 DEF UpdateSummary, At, Cur
  <2> QED
    BY <1>1, <1>2, <2>1, GotoEffect
    DEF UpdateSummary, FailedSummaries, responseVars, Summarises, Cur
<1>3. CASE CompleteInterview(One)
  <2>1. Cur.pc = "finish" /\ Goto(One, "fire")
    BY <1>3 DEF CompleteInterview, At, Cur
  <2> QED
    BY <1>1, <1>3, <2>1, GotoEffect DEF CompleteInterview, responseVars,
       Completes, Cur
<1>4. CASE FireInterviewCompleted(One)
  <2>1. Cur.pc = "fire" /\ Done(One)
    BY <1>4 DEF FireInterviewCompleted, At, Cur
  <2> QED
    BY <1>1, <1>4, <2>1, DoneEffect DEF FireInterviewCompleted, responseVars,
       Fires
<1> QED
  BY <1>2, <1>3, <1>4

LEMMA QuitEffect ==
  ASSUME ServiceInv,
         RefuseCompleted(One) \/ RejectEvaluation(One) \/ ModelFails(One) \/ Crash
  PROVE  Quits
<1>1. TypeOK
  BY DEF ServiceInv
<1>2. UNCHANGED storeVars
  BY DEF RefuseCompleted, RejectEvaluation, ModelFails, Crash
<1>3. CASE RefuseCompleted(One) \/ RejectEvaluation(One) \/ ModelFails(One)
  <2>1. Done(One)
    BY <1>3 DEF RefuseCompleted, RejectEvaluation, ModelFails
  <2>2. \/ Cur.pc \in {"load", "responses"}
        \/ Cur.pc = "evaluation" /\ Evaluated(Cur.current)
        \/ "llm" \in Faults
    BY <1>3 DEF RefuseCompleted, RejectEvaluation, ModelFails, At, Cur
  <2> QED
    BY <1>1, <1>2, <2>1, <2>2, DoneEffect DEF Quits
<1>4. CASE Crash
  <2>1. Cur' = NoRequest
    BY <1>4, OneSlot DEF Crash, Cur
  <2> QED
    BY <1>2, <1>4, <2>1 DEF Quits, Ends, NoRequest, Crash
<1> QED
  BY <1>3, <1>4

-----------------------------------------------------------------------------
(* The candidate page names the pending question, unless it hands in code; *)
(* the request for a question names none anyway.                           *)
NamingOK ==
  Cur.pc \in {"load", "responses"} =>
    /\ Naming = "page" /\ Cur.kind # "code" => Cur.question = 0
    /\ Cur.kind = "question" => Cur.question = 0

(* Every step is one of these.                                             *)
Step ==
  \/ Begins \/ Loads \/ Reads \/ Records \/ Evaluates \/ Decides \/ Skips
  \/ RereadsForQuestion \/ FollowsUp \/ NotesContext \/ Creates \/ Hints
  \/ Poses \/ Advances \/ RereadsForScores \/ Summarises \/ Completes
  \/ Fires \/ Quits

LEMMA StepEffect ==
  ASSUME ServiceInv, NamingOK, Next
  PROVE  Step
<1>1. CASE \E r \in Slots, kind \in Kinds :
             \E question \in Named(kind) : Begin(r, kind, question)
  BY <1>1, OneSlot, BeginEffect DEF Step
<1>2. CASE Handle(One)
  <2>1. CASE ReadResponses(One)
    <3>1. Cur.pc = "responses"
      BY <2>1 DEF ReadResponses, ReadForQuestion, ReadForAnswer, ReadForSkip,
         ReadForHint, ReadForGenerate, ReadForRespond, ReadForFollowUp,
         ReadForCode, ReadForProblem, ReadForComplete, At, Cur
    <3>2. CASE \/ ReadForQuestion(One) \/ ReadForAnswer(One)
               \/ ReadForSkip(One) \/ ReadForHint(One)
      <4>1. Cur.kind = "question" => Cur.question = 0
        BY <3>1 DEF NamingOK
      <4> QED
        BY <3>2, <4>1, ReadPendingEffect DEF Step
    <3> QED
      BY <2>1, <3>2, ReadOtherEffect DEF ReadResponses, Step
  <2>2. CASE \/ RereadAfterSkip(One) \/ RereadAfterCode(One) \/ UpdateSummary(One)
             \/ CompleteInterview(One) \/ FireInterviewCompleted(One)
             \/ RefuseCompleted(One) \/ RejectEvaluation(One)
    BY <2>2, RereadEffect, LastEffects, QuitEffect DEF Step
  <2>3. LoadInterview(One) => Loads
    BY LoadEffect DEF ServiceInv
  <2>4. CASE \/ LoadInterview(One) \/ RecordEvaluation(One) \/ DecideTurn(One)
             \/ (\E score \in AnswerScores : RecordAnswer(One, score))
             \/ SkipCurrent(One) \/ AskFollowUp(One)
    BY <2>3, <2>4, RecordEffect, EvaluationEffect, DecideEffect,
       SkipEffect, FollowUpEffect DEF Step
  <2>5. CASE \/ RecordFollowUpContext(One) \/ CreateQuestion(One) \/ GiveHint(One)
             \/ StoreProblem(One) \/ AdvancePhase(One)
    BY <2>5, ContextEffect, CreateEffect, HintEffect, ProblemEffect,
       AdvanceEffect DEF Step
  <2> QED
    BY <1>2, <2>1, <2>2, <2>4, <2>5 DEF Handle
<1>3. CASE ModelFails(One) \/ Crash
  BY <1>3, QuitEffect DEF Step
<1>4. \A r \in Slots : r = One
  BY OneSlot
<1>5. CASE \E r \in Slots : Handle(r)
  BY <1>2, <1>4, <1>5
<1>6. CASE \E r \in Slots : ModelFails(r)
  BY <1>3, <1>4, <1>6
<1> QED
  BY <1>1, <1>3, <1>5, <1>6 DEF Next

-----------------------------------------------------------------------------
(* The first invariant: what one request at a time may rely on.            *)

(* Which kinds of requests reach which label.                              *)
LabelsOK ==
  /\ Cur.pc = "idle" <=> Cur.kind = "none"
  /\ Cur.kind \in {"hint", "problem"} =>
       Cur.pc \in {"load", "responses", "hint", "problem"}
  /\ Cur.pc = "problem" => Cur.kind = "problem"
  /\ Cur.pc = "hint" => Cur.kind = "hint"
  /\ Cur.pc \in {"finish", "fire"} => Cur.kind \in {"answer", "code", "complete"}
  /\ Cur.pc = "create" => Cur.kind \in {"question", "answer", "skip", "generate"}
  /\ Cur.pc = "summary" => Cur.kind = "answer"
  /\ Cur.pc = "reread" => Cur.kind \in {"answer", "skip", "code"}
  /\ Cur.pc = "context" => Cur.kind \in {"answer", "followup"}

(* What it has read is what the rows still hold.                           *)
ReadsOK ==
  /\ Cur.pc \notin {"idle", "load"} => Cur.row = row
  /\ Cur.pc \notin {"idle", "load", "create"} => Cur.summary = summary
  /\ \/ Cur.pc \in {"ask", "summary", "create", "finish"}
     \/ Cur.pc = "advance" /\ Cur.kind = "answer"
     => Cur.seen = responses

(* Nothing but hints and problems happens to a completed interview.        *)
CompletionOK ==
  /\ status = "completed" =>
       Cur.pc \in {"idle", "load", "fire"} \/ Cur.kind \in {"hint", "problem"}
  /\ Cur.pc = "fire" => status = "completed" /\ fired = 0
  /\ fired > 0 => status = "completed"
  /\ CompletionFiredOnce

(* What is about to be written is not there yet, save for a program.       *)
WorkOK ==
  /\ Cur.pc \in {"record", "skip"} /\ Cur.kind # "code" =>
       Cur.current \in Pending(responses)
  /\ Cur.pc = "evaluation" =>
       /\ responses[Cur.current].score = Cur.score
       /\ Cur.kind = "code" \/ ~Evaluated(Cur.current)

(* Room makes the one request that asks stop at the bound.                 *)
RoomOK ==
  /\ Len(responses) <= MaxResponses
  /\ Cur.kind \in Asking /\ Cur.pc # "context" => Len(responses) < MaxResponses

SummaryOK == summary \subseteq DOMAIN responses \ Pending(responses)

(* The position in the phase never exceeds the answers that made it.       *)
PlanOK ==
  /\ row.phase \in Phases
  /\ IsFiniteSet(advanced)
  /\ row.count <= Cardinality(advanced)

CoreInv ==
  /\ ServiceInv
  /\ OutcomeInv
  /\ NamingOK
  /\ LabelsOK
  /\ ReadsOK
  /\ CompletionOK
  /\ WorkOK
  /\ RoomOK
  /\ SummaryOK
  /\ PlanOK
  /\ ScoresAgreeWithEvaluations
  /\ FinalScoreIsFinal

(* Every step again, in three groups: the list of responses stays, one of  *)
(* its members is rewritten, or it grows.                                  *)
Reading ==
  \/ Begins \/ Loads \/ Reads \/ Decides \/ RereadsForQuestion
  \/ RereadsForScores \/ Quits
Storing ==
  \/ Evaluates \/ NotesContext \/ Advances \/ Summarises \/ Completes \/ Fires
Rewriting == Records \/ Skips \/ Hints \/ Poses
Asks == FollowsUp \/ Creates

LEMMA StepGroups == Step => Reading \/ Storing \/ Rewriting \/ Asks
BY DEF Step, Reading, Storing, Rewriting, Asks

(* The one request is undecided only about an answer without an outcome.   *)
LEMMA CurUndecided ==
  ASSUME OutcomeInv, Undecided(Cur)
  PROVE  Cur.current \in EvaluatedIds \ advanced
BY OneSlot DEF OutcomeInv, UndecidedInv, Cur

LEMMA LabelsStep ==
  ASSUME CoreInv, Step
  PROVE  LabelsOK'
<1>1. SlotInv(Cur, responses) /\ LabelsOK
  BY CurSlot DEF CoreInv
<1> USE <1>1 DEF LabelsOK, SlotInv, Ends, Keeps, GoesTo, ReadsOn
<1>2. CASE Reading
  BY <1>2, ServiceAssumption DEF Reading, Begins, Loads, Reads, Decides,
     RereadsForQuestion, RereadsForScores, Quits, AllKinds
<1>3. CASE Storing
  BY <1>3 DEF Storing, Evaluates, NotesContext, Advances, Summarises,
     Completes, Fires
<1>4. CASE Rewriting \/ Asks
  BY <1>4 DEF Rewriting, Asks, Records, Skips, Hints, Poses, FollowsUp, Creates
<1> QED
  BY <1>2, <1>3, <1>4, StepGroups

LEMMA NamingStep ==
  ASSUME CoreInv, Step
  PROVE  NamingOK'
<1>1. NamingOK
  BY DEF CoreInv
<1> USE <1>1 DEF NamingOK, Ends, Keeps, GoesTo, ReadsOn
<1>2. CASE Reading
  BY <1>2 DEF Reading, Begins, Loads, Reads, Decides,
     RereadsForQuestion, RereadsForScores, Quits, storeVars
<1>3. CASE Storing
  BY <1>3 DEF Storing, Evaluates, NotesContext, Advances, Summarises,
     Completes, Fires
<1>4. CASE Rewriting \/ Asks
  BY <1>4 DEF Rewriting, Asks, Records, Skips, Hints, Poses, FollowsUp, Creates
<1> QED
  BY <1>2, <1>3, <1>4, StepGroups

LEMMA ReadsStep ==
  ASSUME CoreInv, Step
  PROVE  ReadsOK'
<1>1. SlotInv(Cur, responses) /\ ReadsOK /\ LabelsOK
  BY CurSlot DEF CoreInv
<1> USE <1>1 DEF ReadsOK, LabelsOK, SlotInv, Ends, Keeps, GoesTo, ReadsOn
<1>2. CASE Reading
  BY <1>2 DEF Reading, Begins, Loads, Reads, Decides, Kept,
     RereadsForQuestion, RereadsForScores, Quits, storeVars
<1>3. CASE Storing
  BY <1>3 DEF Storing, Evaluates, NotesContext, Advances, Summarises,
     Completes, Fires, interviewVars
<1>4. CASE Rewriting \/ Asks
  BY <1>4 DEF Rewriting, Asks, Records, Skips, Hints, Poses, FollowsUp, Creates,
     interviewVars
<1> QED
  BY <1>2, <1>3, <1>4, StepGroups

LEMMA CompletionStep ==
  ASSUME CoreInv, Step
  PROVE  CompletionOK'
<1>1. /\ SlotInv(Cur, responses) /\ LabelsOK /\ CompletionOK /\ fired \in Nat
      /\ Cur.pc \in Labels
  BY CurSlot, CurType DEF CoreInv, TypeOK
<1> USE <1>1 DEF CompletionOK, CompletionFiredOnce, LabelsOK, SlotInv, Ends,
Keeps, GoesTo, ReadsOn
<1>2. CASE Reading
  BY <1>2 DEF Reading, Begins, Loads, Reads, Decides,
     RereadsForQuestion, RereadsForScores, Quits, storeVars
<1>3. CASE Storing
  BY <1>3 DEF Storing, Evaluates, NotesContext, Advances, Summarises,
     Completes, Fires, interviewVars
<1>4. CASE Rewriting \/ Asks
  BY <1>4 DEF Rewriting, Asks, Records, Skips, Hints, Poses, FollowsUp, Creates,
     interviewVars
<1> QED
  BY <1>2, <1>3, <1>4, StepGroups

LEMMA WorkStep ==
  ASSUME CoreInv, Step
  PROVE  WorkOK'
<1>1. SlotInv(Cur, responses) /\ LabelsOK /\ WorkOK /\ EvaluationsAreOfAnswers
  BY CurSlot DEF CoreInv, ServiceInv
<1> USE <1>1 DEF WorkOK, LabelsOK, SlotInv, Ends, Keeps, GoesTo, ReadsOn
<1>2. CASE Reading
  BY <1>2 DEF Reading, Begins, Loads, Reads, Decides, Pending,
     RereadsForQuestion, RereadsForScores, Quits, storeVars, Evaluated
<1>3. CASE Storing
  BY <1>3 DEF Storing, Evaluates, NotesContext, Advances, Summarises,
     Completes, Fires, interviewVars
<1>4. CASE Rewriting \/ Asks
  BY <1>4 DEF Rewriting, Asks, Records, Skips, Hints, Poses, FollowsUp, Creates,
     Evaluated, EvaluationsAreOfAnswers
<1> QED
  BY <1>2, <1>3, <1>4, StepGroups

LEMMA RoomStep ==
  ASSUME CoreInv, Step
  PROVE  RoomOK'
<1>1. /\ SlotInv(Cur, responses) /\ LabelsOK /\ RoomOK /\ Len(responses) \in Nat
      /\ MaxResponses \in Nat
  BY CurSlot, ServiceAssumption DEF CoreInv
<1> USE <1>1 DEF RoomOK, LabelsOK, SlotInv, Ends, Keeps, GoesTo, ReadsOn, Asking
<1>2. CASE Reading
  BY <1>2 DEF Reading, Begins, Loads, Reads, Decides,
     RereadsForQuestion, RereadsForScores, Quits, storeVars
<1>3. CASE Storing
  BY <1>3 DEF Storing, Evaluates, NotesContext, Advances, Summarises,
     Completes, Fires, interviewVars
<1>4. CASE Rewriting
  BY <1>4 DEF Rewriting, Records, Skips, Hints, Poses, Rewritten, QuestionsKept
<1>5. CASE Asks
  BY <1>5 DEF Asks, FollowsUp, Creates, Asked
<1> QED
  BY <1>2, <1>3, <1>4, <1>5, StepGroups

LEMMA ScoresStep ==
  ASSUME CoreInv, Step
  PROVE  ScoresAgreeWithEvaluations'
<1>1. /\ WorkOK /\ EvaluationsAreOfAnswers /\ ScoresAgreeWithEvaluations
  BY DEF CoreInv, ServiceInv
<1> USE <1>1 DEF ScoresAgreeWithEvaluations, EvaluationsAreOfAnswers
<1>2. CASE Reading
  BY <1>2 DEF Reading, Begins, Loads, Reads, Decides,
     RereadsForQuestion, RereadsForScores, Quits, storeVars
<1>3. CASE Storing
  BY <1>3 DEF Storing, Evaluates, NotesContext, Advances, Summarises,
     Completes, Fires, WorkOK
<1>4. CASE (Records /\ Cur.kind # "code") \/ Skips
  <2>1. Skips => Cur.kind # "code"
    BY CurSlot DEF CoreInv, Skips, SlotInv
  <2>2. \A e \in evaluations : e.response \in DOMAIN responses \ {Cur.current}
    BY <1>4, <2>1 DEF WorkOK, Records, Skips
  <2> QED
    BY <1>4, <2>2 DEF Records, Skips, Rewritten
<1>5. CASE Hints \/ Poses
  <2>1. \A i \in DOMAIN responses :
          /\ responses'[i].score = responses[i].score
          /\ responses'[i].answer = responses[i].answer
    BY <1>5 DEF Hints, Poses, Rewritten
  <2> QED
    BY <1>5, <2>1 DEF Hints, Poses
<1>6. CASE Asks
  BY <1>6 DEF Asks, FollowsUp, Creates, Asked
<1>7. CASE Records /\ Cur.kind = "code"
  BY <1>7 DEF Records, Rewritten
<1> QED
  BY <1>2, <1>3, <1>4, <1>5, <1>6, <1>7, StepGroups DEF Rewriting

LEMMA FinalScoreStep ==
  ASSUME CoreInv, Step
  PROVE  FinalScoreIsFinal'
<1>1. /\ CompletionOK /\ LabelsOK /\ FinalScoreIsFinal /\ ReadsOK
      /\ SlotInv(Cur, responses)
  BY CurSlot DEF CoreInv
<1> USE <1>1 DEF FinalScoreIsFinal
<1>2. CASE Reading
  BY <1>2 DEF Reading, Begins, Loads, Reads, Decides,
     RereadsForQuestion, RereadsForScores, Quits, storeVars
<1>3. CASE Storing
  BY <1>3 DEF Storing, Evaluates, NotesContext, Advances, Summarises,
     Completes, Fires, ReadsOK, interviewVars
<1>4. CASE Records \/ Skips \/ Asks
  <2>1. status # "completed"
    BY <1>4 DEF Asks, Records, Skips, FollowsUp, Creates, CompletionOK,
       LabelsOK, SlotInv
  <2>2. status' = status
    BY <1>4 DEF Asks, Records, Skips, FollowsUp, Creates, interviewVars
  <2> QED
    BY <2>1, <2>2
<1>5. CASE Hints \/ Poses
  <2>1. /\ DOMAIN responses' = DOMAIN responses
        /\ \A i \in DOMAIN responses : responses'[i].score = responses[i].score
    BY <1>5 DEF Hints, Poses, Rewritten, QuestionsKept
  <2>2. ResponseScores(responses') = ResponseScores(responses)
    BY <2>1 DEF ResponseScores
  <2>3. status' = status /\ finalScore' = finalScore
    BY <1>5 DEF Hints, Poses, interviewVars
  <2> QED
    BY <2>2, <2>3
<1> QED
  BY <1>2, <1>3, <1>4, <1>5, StepGroups DEF Rewriting

(* An answer that was given stays given.                                   *)
LEMMA AnswersStay ==
  ASSUME CoreInv, Step
  PROVE  DOMAIN responses \ Pending(responses)
           \subseteq DOMAIN responses' \ Pending(responses')
<1>1. /\ DOMAIN responses \subseteq DOMAIN responses'
      /\ \A i \in DOMAIN responses :
           Answered(responses[i]) => Answered(responses'[i])
  <2>1. CASE responses' = responses
    BY <2>1
  <2>2. CASE Rewriting
    BY <2>2 DEF Rewriting, Records, Skips, Hints, Poses, Rewritten,
       QuestionsKept, Answered
  <2>3. CASE Asks
    BY <2>3 DEF Asks, FollowsUp, Creates, Asked
  <2>4. Reading \/ Storing => responses' = responses
    BY DEF Reading, Begins, Loads, Reads, Decides, RereadsForQuestion,
       RereadsForScores, Quits, storeVars, Storing, Evaluates, NotesContext,
       Advances, Summarises, Completes, Fires
  <2> QED
    BY <2>1, <2>2, <2>3, <2>4, StepGroups
<1> QED
  BY <1>1 DEF Pending

LEMMA SummaryStep ==
  ASSUME CoreInv, Step
  PROVE  SummaryOK'
<1>1. SummaryOK /\ ReadsOK
  BY DEF CoreInv
<1>2. CASE Summarises
  <2>1. Cur.seen = responses /\ Cur.summary = summary /\ responses' = responses
    BY <1>1, <1>2 DEF Summarises, ReadsOK
  <2>2. Summarised(responses) \subseteq DOMAIN responses \ Pending(responses)
    BY DEF Summarised
  <2> QED
    BY <1>1, <1>2, <2>1, <2>2 DEF Summarises, SummaryOK
<1>3. CASE ~Summarises
  <2>1. summary' = summary
    BY <1>3 DEF Step, Begins, Loads, Reads, Records, Evaluates, Decides, Skips,
       RereadsForQuestion, FollowsUp, NotesContext, Creates, Hints, Poses,
       Advances, RereadsForScores, Completes, Fires, Quits, storeVars,
       interviewVars
  <2> QED
    BY <1>1, <2>1, AnswersStay DEF SummaryOK
<1> QED
  BY <1>2, <1>3

(* What an advancement does to the count of its phase.                     *)
LEMMA AdvancementCount ==
  ASSUME NEW r \in PhaseRow, NEW s \in Scores
  PROVE  /\ ComputePhaseAdvancement(r, Level, s).row.count \in Nat
         /\ ComputePhaseAdvancement(r, Level, s).row.count <= r.count + 1
<1>1. r.count \in Nat
  BY DEF PhaseRow
<1>2. ComputePhaseAdvancement(r, Level, s).row.count \in {0, r.count + 1}
  BY DEF ComputePhaseAdvancement
<1> QED
  BY <1>1, <1>2

LEMMA PlanStep ==
  ASSUME CoreInv, Step
  PROVE  PlanOK'
<1>1. PlanOK /\ ReadsOK /\ TypeOK /\ OutcomeInv /\ LabelsOK
  BY CurSlot DEF CoreInv
<1>2. CASE Advances
  <2> DEFINE c == Cur.current
             new == ComputePhaseAdvancement(row, Level, Cur.score).row
  <2>1. row' = new /\ advanced' = advanced \cup {c}
    BY <1>1, <1>2 DEF Advances, ReadsOK
  <2>2. Undecided(Cur)
    BY <1>2, CurSlot DEF Advances, Undecided, CoreInv, SlotInv
  <2>3. c \notin advanced
    BY <1>1, <2>2, CurUndecided
  <2>4. row \in PhaseRow /\ Cur.score \in Scores /\ Level \in StoredLevels
    BY <1>1, CurType, ServiceAssumption DEF TypeOK
  <2>5. new.phase \in Phases
    BY <2>4, AdvancementType
  <2>6. new.count \in Nat /\ new.count <= row.count + 1 /\ row.count \in Nat
    BY <2>4, AdvancementCount DEF PhaseRow
  <2>7. IsFiniteSet(advanced) /\ Cardinality(advanced) \in Nat
    BY <1>1, FS_CardinalityType DEF PlanOK
  <2>8. /\ IsFiniteSet(advanced \cup {c})
        /\ Cardinality(advanced \cup {c}) = Cardinality(advanced) + 1
    BY <2>3, <2>7, FS_AddElement
  <2>9. row.count <= Cardinality(advanced)
    BY <1>1 DEF PlanOK
  <2> HIDE DEF new, c
  <2>10. new.count <= Cardinality(advanced) + 1
    BY <2>6, <2>7, <2>9
  <2> QED
    BY <2>1, <2>5, <2>8, <2>10 DEF PlanOK
<1>3. CASE ~Advances
  <2>1. row' = row /\ advanced' = advanced
    BY <1>3 DEF Step, Begins, Loads, Reads, Records, Evaluates, Decides, Skips,
       RereadsForQuestion, FollowsUp, NotesContext, Creates, Hints, Poses,
       Summarises, RereadsForScores, Completes, Fires, Quits, storeVars,
       interviewVars
  <2> QED
    BY <1>1, <2>1 DEF PlanOK
<1> QED
  BY <1>2, <1>3

-----------------------------------------------------------------------------
(* The core invariant holds throughout.                                    *)

LEMMA CoreInvInit == Init => CoreInv
<1> SUFFICES ASSUME Init PROVE CoreInv
  OBVIOUS
<1>1. Cur = NoRequest
  BY OneSlot DEF Init, Cur
<1>2. ServiceInv /\ OutcomeInv
  BY ServiceInvInit, OutcomeInvInit
<1>3. DOMAIN responses = {} /\ Len(responses) = 0 /\ responses = <<>>
  BY EmptyList DEF Init
<1>4. NamingOK /\ LabelsOK /\ ReadsOK /\ WorkOK
  BY <1>1 DEF NoRequest, NamingOK, LabelsOK, ReadsOK, WorkOK
<1>5. CompletionOK /\ FinalScoreIsFinal
  BY <1>1 DEF Init, CompletionOK, CompletionFiredOnce, FinalScoreIsFinal,
     NoRequest
<1>6. RoomOK
  BY <1>1, <1>3, ServiceAssumption DEF RoomOK, Asking, NoRequest
<1>7. SummaryOK /\ ScoresAgreeWithEvaluations
  BY <1>3 DEF Init, SummaryOK, ScoresAgreeWithEvaluations
<1>8. PlanOK
  <2>1. row.phase \in Phases /\ row.count = 0 /\ advanced = {}
    BY DEF Init, NewRow, Phases
  <2> QED
    BY <2>1, FS_EmptySet DEF PlanOK
<1> QED
  BY <1>2, <1>4, <1>5, <1>6, <1>7, <1>8 DEF CoreInv

LEMMA CoreInvStep == CoreInv /\ [Next]_vars => CoreInv'
<1>1. ASSUME CoreInv, Next PROVE CoreInv'
  <2>1. Step
    BY <1>1, StepEffect DEF CoreInv
  <2>2. ServiceInv' /\ OutcomeInv'
    BY <1>1, ServiceInvStep, OutcomeInvStep DEF CoreInv
  <2> QED
    BY <1>1, <2>1, <2>2, LabelsStep, NamingStep, ReadsStep, CompletionStep,
       WorkStep, RoomStep, ScoresStep, FinalScoreStep,
       SummaryStep, PlanStep DEF CoreInv
<1>2. ASSUME CoreInv, UNCHANGED vars PROVE CoreInv'
  <2>1. Cur' = Cur
    BY <1>2 DEF vars, Cur
  <2>2. ServiceInv' /\ OutcomeInv'
    BY <1>2, ServiceInvStep, OutcomeInvStep DEF CoreInv
  <2> QED
    BY <1>2, <2>1, <2>2 DEF CoreInv, vars, LabelsOK, NamingOK, ReadsOK,
       CompletionOK,
       CompletionFiredOnce, WorkOK, RoomOK, SummaryOK, PlanOK, Evaluated,
       ScoresAgreeWithEvaluations, FinalScoreIsFinal
<1> QED
  BY <1>1, <1>2

LEMMA CoreInvAlways == Spec => []CoreInv
<1>1. Init => CoreInv
  BY CoreInvInit
<1>2. CoreInv /\ [Next]_vars => CoreInv'
  BY CoreInvStep
<1> QED
  BY <1>1, <1>2, PTL DEF Spec

-----------------------------------------------------------------------------
(* The order of the questions, when every new question waits for the       *)
(* answer of the old one: all endpoints but generate see to that, if the   *)
(* client names the pending question.  A program may be for any question,  *)
(* but asks for no new one.                                                *)

OrderOK ==
  /\ Pending(responses) \subseteq {Len(responses)}
  /\ NumbersFollowAsking
  /\ Cur.kind # "code" =>
       /\ Cur.pc \in {"evaluation", "reread", "ask", "advance", "summary",
                      "create"} =>
            Pending(responses) = {}
       /\ Cur.pc \in {"record", "skip", "evaluation", "reread", "ask", "advance",
                      "summary"} =>
            Cur.current = Len(responses)

(* The question with the highest number is then the newest.                *)
LEMMA LastAskedIsNewest ==
  ASSUME NEW list \in Seq(Response), list # <<>>,
         \A i, j \in DOMAIN list : i < j => list[i].num < list[j].num
  PROVE  LastAsked(list) = Len(list) /\ Len(list) \in DOMAIN list
<1> DEFINE n == Len(list)
<1>1. /\ DOMAIN list = 1..n /\ n \in Nat /\ DOMAIN list # {}
      /\ \A i \in DOMAIN list : list[i].num \in Nat
  BY ListProperties
<1>2. n \in DOMAIN list
  BY <1>1
<1>3. \A j \in DOMAIN list \ {n} : Precedes(list, j, n)
  <2> SUFFICES ASSUME NEW j \in DOMAIN list \ {n} PROVE Precedes(list, j, n)
    OBVIOUS
  <2>1. j < n
    BY <1>1
  <2> QED
    BY <1>2, <2>1 DEF Precedes
<1>4. \A i \in DOMAIN list :
        (\A j \in DOMAIN list \ {i} : Precedes(list, j, i)) => i = n
  <2> SUFFICES ASSUME NEW i \in DOMAIN list, i # n,
                      \A j \in DOMAIN list \ {i} : Precedes(list, j, i)
               PROVE  FALSE
    OBVIOUS
  <2>1. i < n /\ Precedes(list, n, i)
    BY <1>1, <1>2
  <2>2. list[i].num < list[n].num
    BY <1>2, <2>1
  <2> HIDE DEF n
  <2> QED
    BY <1>1, <1>2, <2>1, <2>2 DEF Precedes
<1> HIDE DEF n
<1>5. LastAsked(list) = n
  BY <1>1, <1>2, <1>3, <1>4 DEF LastAsked, LastOf
<1> QED
  BY <1>2, <1>5 DEF n

LEMMA OrderStep ==
  ASSUME "generate" \notin Kinds, Naming = "page", CoreInv, OrderOK, Step
  PROVE  OrderOK'
<1> DEFINE n == Len(responses)
<1>1. /\ SlotInv(Cur, responses) /\ LabelsOK /\ ReadsOK /\ WorkOK
      /\ responses \in Seq(Response) /\ DOMAIN responses = 1..n /\ n \in Nat
  BY CurSlot DEF CoreInv
<1>2. /\ Cur.kind # "generate"
      /\ Cur.pc = "responses" /\ Cur.kind # "code" => Cur.question = 0
      /\ Cur.pc \in {"skip", "ask", "create"} => Cur.kind # "code"
  BY <1>1 DEF SlotInv, CoreInv, NamingOK, LabelsOK
<1>3. \A i \in DOMAIN responses : responses[i].num \in Nat
  BY <1>1, ListProperties
<1>4. /\ n \in DOMAIN responses => LastAsked(responses) = n
      /\ responses # <<>> => n \in DOMAIN responses
  <2>1. n \in DOMAIN responses => responses # <<>>
    BY <1>1
  <2> QED
    BY <1>1, <2>1, LastAskedIsNewest DEF OrderOK, NumbersFollowAsking
<1>5. CASE Reading
  <2>1. responses' = responses
    BY <1>5 DEF Reading, Begins, Loads, Reads, Decides,
       RereadsForQuestion, RereadsForScores, Quits, storeVars
  <2>2. NumbersFollowAsking' /\ Pending(responses)' = Pending(responses)
    BY <2>1 DEF OrderOK, NumbersFollowAsking, Pending
  <2>3. CASE Reads
    <3>1. CASE Cur'.pc = "ask"
      <4>1. /\ LastAsked(responses) \in DOMAIN responses \ Pending(responses)
            /\ Cur'.current = LastAsked(responses)
        BY <2>3, <3>1 DEF Reads, ReadsOn
      <4>2. LastAsked(responses) = n
        <5>1. responses # <<>>
          BY <4>1, EmptyList
        <5> QED
          BY <1>4, <5>1
      <4>3. Pending(responses) = {}
        BY <4>1, <4>2 DEF OrderOK
      <4> QED
        BY <2>1, <2>2, <3>1, <4>1, <4>2, <4>3 DEF OrderOK
    <3>2. CASE Cur'.pc # "ask"
      BY <1>2, <2>1, <2>2, <2>3, <3>2 DEF Reads, ReadsOn, OrderOK
    <3> QED
      BY <3>1, <3>2
  <2>4. CASE Reading /\ ~Reads
    BY <2>1, <2>2, <2>4 DEF Reading, Begins, Loads, Decides, RereadsForQuestion,
       RereadsForScores, Quits, OrderOK, ReadsOn, Ends
  <2> QED
    BY <1>5, <2>3, <2>4
<1>6. CASE Storing
  <2>1. responses' = responses
    BY <1>6 DEF Storing, Evaluates, NotesContext, Advances, Summarises,
       Completes, Fires
  <2>2. NumbersFollowAsking' /\ Pending(responses)' = Pending(responses)
    BY <2>1 DEF OrderOK, NumbersFollowAsking, Pending
  <2> QED
    BY <1>6, <2>1, <2>2 DEF Storing, Evaluates, NotesContext, Advances,
       Summarises,
       Completes, Fires, OrderOK, Ends, Keeps, GoesTo
<1>7. CASE Rewriting
  <2>1. /\ Len(responses') = n /\ DOMAIN responses' = DOMAIN responses
        /\ \A i \in DOMAIN responses : responses'[i].num = responses[i].num
    BY <1>7 DEF Rewriting, Records, Skips, Hints, Poses, Rewritten,
       QuestionsKept
  <2>2. NumbersFollowAsking'
    BY <2>1 DEF OrderOK, NumbersFollowAsking
  <2>3. CASE (Records /\ Cur.kind # "code") \/ Skips
    <3>1. Pending(responses)' = {}
      <4>1. Pending(responses) \subseteq {Cur.current} /\ Cur.current = n
        BY <1>2, <2>3 DEF Records, Skips, OrderOK
      <4> QED
        BY <2>1, <2>3, <4>1 DEF Records, Skips, Rewritten, Pending, Answered
    <3> QED
      BY <2>1, <2>2, <2>3, <3>1 DEF Records, Skips, OrderOK, Keeps, GoesTo
  <2>4. CASE Hints \/ Poses
    <3>1. Pending(responses)' = Pending(responses)
      BY <2>1, <2>4 DEF Hints, Poses, Rewritten, Pending, Answered
    <3> QED
      BY <2>1, <2>2, <2>4, <3>1 DEF Hints, Poses, OrderOK, Ends
  <2>5. CASE Records /\ Cur.kind = "code"
    <3>1. Pending(responses)' \subseteq Pending(responses)
      BY <2>1, <2>5 DEF Records, Rewritten, Pending, Answered
    <3> QED
      BY <2>1, <2>2, <2>5, <3>1 DEF Records, OrderOK, Keeps
  <2> QED
    BY <1>7, <2>3, <2>4, <2>5 DEF Rewriting
<1>8. CASE Asks
  <2> DEFINE new == responses'[n + 1]
  <2>1. /\ Len(responses') = n + 1
        /\ DOMAIN responses' = 1..(n + 1)
        /\ \A i \in DOMAIN responses : responses'[i] = responses[i]
    BY <1>8 DEF Asks, FollowsUp, Creates, Asked
  <2>2. Pending(responses) = {}
    BY <1>2, <1>8 DEF Asks, FollowsUp, Creates, OrderOK
  <2>3. Pending(responses)' \subseteq {n + 1}
    <3>1. \A i \in DOMAIN responses : Answered(responses'[i])
      BY <2>1, <2>2 DEF Pending
    <3> QED
      BY <1>1, <2>1, <3>1 DEF Pending
  <2>4. n \in DOMAIN responses => new.num = responses[n].num + 1
    <3> SUFFICES ASSUME n \in DOMAIN responses PROVE new.num = responses[n].num + 1
      OBVIOUS
    <3>1. Cur.seen = responses
      BY <1>1, <1>8 DEF Asks, FollowsUp, Creates, ReadsOK
    <3>2. CASE FollowsUp
      <4>1. Cur.current = n
        BY <1>2, <3>2 DEF FollowsUp, OrderOK
      <4> QED
        BY <3>1, <3>2, <4>1 DEF FollowsUp, Asked, NewResponse
    <3>3. CASE Creates
      <4>1. responses # <<>>
        BY EmptyList
      <4>2. NextNumber(responses) = responses[n].num + 1
        BY <1>4, <4>1 DEF NextNumber
      <4> QED
        BY <3>1, <3>3, <4>2 DEF Creates, Asked, NewResponse
    <3> QED
      BY <1>8, <3>2, <3>3 DEF Asks
  <2>5. \A i \in DOMAIN responses : responses[i].num < new.num
    <3> SUFFICES ASSUME NEW i \in DOMAIN responses PROVE responses[i].num < new.num
      OBVIOUS
    <3>1. n \in DOMAIN responses /\ i <= n
      BY <1>1
    <3>2. i = n \/ responses[i].num < responses[n].num
      BY <1>1, <3>1 DEF OrderOK, NumbersFollowAsking
    <3> HIDE DEF n, new
    <3> QED
      BY <1>3, <2>4, <3>1, <3>2
  <2>6. NumbersFollowAsking'
    <3> SUFFICES ASSUME NEW i \in DOMAIN responses', NEW j \in DOMAIN responses', i < j
                 PROVE  responses'[i].num < responses'[j].num
      BY DEF NumbersFollowAsking
    <3>1. i \in DOMAIN responses /\ (j \in DOMAIN responses \/ j = n + 1)
      BY <1>1, <2>1
    <3> QED
      BY <2>1, <2>5, <3>1 DEF OrderOK, NumbersFollowAsking
  <2> QED
    BY <1>8, <2>1, <2>3, <2>6 DEF Asks, FollowsUp, Creates, OrderOK, Ends
<1> QED
  BY <1>5, <1>6, <1>7, <1>8, StepGroups

LEMMA OrderInit == Init => OrderOK
<1> SUFFICES ASSUME Init PROVE OrderOK
  OBVIOUS
<1>1. Cur = NoRequest
  BY OneSlot DEF Init, Cur
<1>2. DOMAIN responses = {}
  BY EmptyList DEF Init
<1> QED
  BY <1>1, <1>2 DEF OrderOK, NumbersFollowAsking, Pending, NoRequest

LEMMA OrderAlways ==
  ASSUME "generate" \notin Kinds, Naming = "page"
  PROVE  Spec => []OrderOK
<1>1. Init => CoreInv /\ OrderOK
  BY CoreInvInit, OrderInit
<1>2. CoreInv /\ OrderOK /\ [Next]_vars => OrderOK'
  <2> SUFFICES ASSUME CoreInv, OrderOK, [Next]_vars PROVE OrderOK'
    OBVIOUS
  <2>1. CASE Next
    <3>1. Step
      BY <2>1, StepEffect DEF CoreInv
    <3> QED
      BY <3>1, OrderStep
  <2>2. CASE UNCHANGED vars
    BY <2>2 DEF vars, OrderOK, NumbersFollowAsking, Pending, Cur
  <2> QED
    BY <2>1, <2>2
<1>3. CoreInv /\ [Next]_vars => CoreInv'
  BY CoreInvStep
<1> QED
  BY <1>1, <1>2, <1>3, PTL DEF Spec

-----------------------------------------------------------------------------
(* Turns: without the text API's own ways to answer and to follow up, and  *)
(* if no request is cut short, the evaluated main answers have advanced    *)
(* the plan or been followed up, save the one in hand.                     *)

HasOutcome(i) == i \in advanced <=> ~FollowedUp(i)

InHand(i) == Undecided(Cur) /\ i = Cur.current

AnswerOf(kind) ==
  IF kind = "answer" THEN "spoken" ELSE IF kind = "code" THEN "code" ELSE "skipped"

MainTurns ==
  \A i \in DOMAIN responses :
    IsMain(i) /\ Evaluated(i) => InHand(i) \/ HasOutcome(i)

OtherTurns ==
  \A i \in DOMAIN responses \cap advanced :
    IsMain(i) \/ responses[i].answer = "code"

TurnOK ==
  /\ MainTurns
  /\ OtherTurns
  /\ Cur.pc \in {"evaluation", "reread", "ask", "advance"} =>
       responses[Cur.current].answer = AnswerOf(Cur.kind)
  /\ Cur.pc = "advance" /\ Cur.kind = "answer" => IsMain(Cur.current)
  /\ \A i \in DOMAIN responses :
       responses[i].answer \in {"spoken", "code"} =>
         Evaluated(i) \/ (Cur.pc = "evaluation" /\ i = Cur.current)

LEMMA TurnReading ==
  ASSUME Kinds \cap {"respond", "followup"} = {}, Faults \subseteq {"summary"},
         CoreInv, TurnOK, Reading
  PROVE  TurnOK'
<1>1. /\ SlotInv(Cur, responses) /\ LabelsOK /\ WorkOK
      /\ Cur.kind \notin {"respond", "followup"}
  BY CurSlot DEF CoreInv, SlotInv
<1>2. /\ responses' = responses /\ evaluations' = evaluations
      /\ advanced' = advanced
  BY DEF Reading, Begins, Loads, Reads, Decides, RereadsForQuestion,
     RereadsForScores, Quits, storeVars
<1>3. \A i :
        /\ HasOutcome(i)' <=> HasOutcome(i)
        /\ IsMain(i)' <=> IsMain(i)
        /\ Evaluated(i)' <=> Evaluated(i)
  BY <1>2 DEF HasOutcome, Evaluated, IsMain, FollowedUp
<1>4. OtherTurns'
  BY <1>2, <1>3 DEF TurnOK, OtherTurns
<1>5. CASE Decides
  <2>1. /\ Cur.current \in DOMAIN responses /\ Undecided(Cur)
        /\ responses[Cur.current].answer = "spoken"
        /\ Cur'.current = Cur.current /\ Cur'.kind = Cur.kind
        /\ Cur.pc = "reread" /\ Cur'.pc # "evaluation"
    BY <1>1, <1>5 DEF Decides, ReadsOn, Undecided, TurnOK, SlotInv, Working,
       AnswerOf
  <2>2. \A i : InHand(i) => InHand(i)' \/ ~IsMain(i)
    BY <1>5, <2>1 DEF Decides, ReadsOn, InHand, Undecided, IsMain
  <2>3. MainTurns'
    BY <1>2, <1>3, <2>2 DEF TurnOK, MainTurns
  <2>4. Cur'.pc = "advance" => IsMain(Cur.current)
    BY <1>5 DEF Decides, ReadsOn, IsMain
  <2> QED
    BY <1>2, <1>3, <1>4, <2>1, <2>3, <2>4 DEF TurnOK
<1>6. CASE ~Decides
  <2>1. /\ Cur.pc \notin {"ask", "advance"}
        /\ Cur'.pc \notin {"ask", "advance", "evaluation", "reread"}
        /\ ~(Cur.pc = "reread" /\ Cur.kind = "answer")
        /\ Cur.pc = "evaluation" => Evaluated(Cur.current)
    BY <1>1, <1>6 DEF Reading, Begins, Loads, Reads, RereadsForQuestion, Ends,
       RereadsForScores, Quits, ReadsOn
  <2>2. \A i : ~InHand(i)
    BY <2>1 DEF InHand, Undecided
  <2>3. MainTurns'
    BY <1>2, <1>3, <2>2 DEF TurnOK, MainTurns
  <2> QED
    BY <1>2, <1>3, <1>4, <2>1, <2>3 DEF TurnOK
<1> QED
  BY <1>5, <1>6

LEMMA TurnStoring ==
  ASSUME Kinds \cap {"respond", "followup"} = {}, CoreInv, TurnOK, Storing
  PROVE  TurnOK'
<1>1. /\ SlotInv(Cur, responses) /\ LabelsOK /\ WorkOK /\ OutcomeInv
      /\ Cur.kind \notin {"respond", "followup"}
  BY CurSlot DEF CoreInv, SlotInv
<1>2. responses' = responses
  BY DEF Storing, Evaluates, NotesContext, Advances, Summarises, Completes,
     Fires
<1>3. \A i : (IsMain(i)' <=> IsMain(i)) /\ (FollowedUp(i)' <=> FollowedUp(i))
  BY <1>2 DEF IsMain, FollowedUp
<1>4. CASE Evaluates
  <2> DEFINE c == Cur.current
  <2>1. /\ c \in DOMAIN responses /\ Undecided(Cur)' /\ ~Undecided(Cur)
        /\ responses[c].answer = AnswerOf(Cur.kind)
        /\ Cur'.current = c /\ Cur'.kind = Cur.kind
        /\ Cur.pc = "evaluation" /\ Cur'.pc \in {"reread", "advance"}
        /\ Cur'.pc = "advance" => Cur.kind = "code"
        /\ advanced' = advanced
    BY <1>1, <1>4 DEF Evaluates, GoesTo, Keeps, Undecided, TurnOK, SlotInv,
       Working, interviewVars
  <2>2. \A i : Evaluated(i)' <=> Evaluated(i) \/ i = c
    <3> DEFINE e == [response |-> c, score |-> Cur.score]
    <3>1. evaluations' = evaluations \cup {e} /\ e.response = c
      BY <1>4 DEF Evaluates
    <3> HIDE DEF e, c
    <3> QED
      BY <3>1 DEF Evaluated
  <2>3. \A i : (InHand(i)' <=> i = c) /\ ~InHand(i)
    BY <2>1 DEF InHand
  <2>4. \A i : HasOutcome(i)' <=> HasOutcome(i)
    BY <1>3, <2>1 DEF HasOutcome
  <2>5. MainTurns' /\ OtherTurns'
    BY <1>2, <1>3, <2>1, <2>2, <2>3, <2>4 DEF TurnOK, MainTurns, OtherTurns
  <2> QED
    BY <1>2, <2>1, <2>2, <2>5 DEF TurnOK
<1>5. CASE Advances
  <2> DEFINE c == Cur.current
  <2>1. /\ c \in DOMAIN responses /\ Undecided(Cur) /\ ~Undecided(Cur)'
        /\ responses[c].answer = AnswerOf(Cur.kind)
        /\ Cur.kind \in {"answer", "code"} /\ Cur.pc = "advance"
        /\ advanced' = advanced \cup {c} /\ evaluations' = evaluations
    BY <1>1, <1>5 DEF Advances, Keeps, Undecided, TurnOK, SlotInv, Working, Ends
  <2>2. c \notin Parents
    BY <1>1, <2>1, OneSlot DEF OutcomeInv, UndecidedInv, Cur
  <2>3. \A i : Evaluated(i)' <=> Evaluated(i)
    BY <2>1 DEF Evaluated
  <2>4. \A i : i # c => ~InHand(i) /\ (HasOutcome(i)' <=> HasOutcome(i))
    BY <1>3, <2>1 DEF InHand, HasOutcome
  <2>5. \A i : i = c => HasOutcome(i)'
    BY <1>3, <2>1, <2>2 DEF HasOutcome, FollowedUp, Parents
  <2>6. MainTurns'
    BY <1>2, <1>3, <2>3, <2>4, <2>5 DEF TurnOK, MainTurns
  <2>7. OtherTurns'
    <3>1. IsMain(c) \/ responses[c].answer = "code"
      BY <2>1 DEF TurnOK, AnswerOf
    <3> QED
      BY <1>2, <1>3, <2>1, <3>1 DEF TurnOK, OtherTurns
  <2>8. \/ Cur'.pc \notin {"evaluation", "reread", "ask", "advance"}
        \/ Cur'.pc = "reread" /\ Cur'.current = c /\ Cur'.kind = Cur.kind
    BY <1>5 DEF Advances, Ends, Keeps
  <2> HIDE DEF c
  <2>9. \A i \in DOMAIN responses :
          responses[i].answer \in {"spoken", "code"} => Evaluated(i)'
    BY <2>1, <2>3 DEF TurnOK
  <2> QED
    BY <1>2, <2>1, <2>6, <2>7, <2>8, <2>9 DEF TurnOK
<1>6. CASE NotesContext \/ Summarises \/ Completes \/ Fires
  <2>1. /\ evaluations' = evaluations /\ advanced' = advanced
        /\ Cur.pc \notin {"evaluation", "reread", "ask", "advance"}
        /\ Cur'.pc \notin {"evaluation", "reread", "ask", "advance"}
    BY <1>6 DEF NotesContext, Summarises, Completes, Fires, GoesTo, Ends,
       interviewVars
  <2>2. \A i : (HasOutcome(i)' <=> HasOutcome(i)) /\ (Evaluated(i)' <=> Evaluated(i))
    BY <1>3, <2>1 DEF HasOutcome, Evaluated
  <2>3. \A i : ~InHand(i)
    BY <2>1 DEF InHand, Undecided
  <2>4. MainTurns' /\ OtherTurns'
    BY <1>2, <1>3, <2>1, <2>2, <2>3 DEF TurnOK, MainTurns, OtherTurns
  <2> QED
    BY <1>2, <2>1, <2>2, <2>4 DEF TurnOK
<1> QED
  BY <1>4, <1>5, <1>6 DEF Storing

LEMMA TurnRewriting ==
  ASSUME Kinds \cap {"respond", "followup"} = {}, CoreInv, TurnOK, Rewriting
  PROVE  TurnOK'
<1> DEFINE c == Cur.current
<1>1. /\ SlotInv(Cur, responses) /\ WorkOK /\ EvaluationsAreOfAnswers
      /\ OutcomeInv /\ Cur.kind \notin {"respond", "followup"}
  BY CurSlot DEF CoreInv, ServiceInv, SlotInv
<1>2. /\ DOMAIN responses' = DOMAIN responses
      /\ \A i \in DOMAIN responses : responses'[i].parent = responses[i].parent
      /\ \A i \in DOMAIN responses \ {c} : responses'[i] = responses[i]
      /\ c \in DOMAIN responses
      /\ evaluations' = evaluations /\ advanced' = advanced
  BY DEF Rewriting, Records, Skips, Hints, Poses, Rewritten, QuestionsKept,
     interviewVars
<1>3. \A i \in DOMAIN responses :
        /\ IsMain(i)' <=> IsMain(i)
        /\ HasOutcome(i)' <=> HasOutcome(i)
        /\ Evaluated(i)' <=> Evaluated(i)
  BY <1>2 DEF IsMain, HasOutcome, FollowedUp, Evaluated
<1>4. \A i : ~InHand(i)
  BY <1>1 DEF Rewriting, Records, Skips, Hints, Poses, InHand, Undecided
<1>5. MainTurns'
  BY <1>2, <1>3, <1>4 DEF TurnOK, MainTurns
<1>6. c \in advanced =>
        responses'[c].answer = "code" \/ responses'[c].answer = responses[c].answer
  <2>1. CASE (Records /\ Cur.kind # "code") \/ Skips
    <3>1. c \in Pending(responses)
      BY <1>1, <2>1 DEF Records, Skips, WorkOK, SlotInv
    <3> QED
      BY <1>1, <3>1 DEF EvaluationsAreOfAnswers, OutcomeInv, EvaluatedIds
  <2>2. CASE Records /\ Cur.kind = "code"
    BY <2>2 DEF Records
  <2>3. CASE Hints \/ Poses
    BY <2>3 DEF Hints, Poses
  <2> QED
    BY <2>1, <2>2, <2>3 DEF Rewriting
<1>7. OtherTurns'
  BY <1>2, <1>3, <1>6 DEF TurnOK, OtherTurns
<1>8. Cur'.pc \in {"evaluation", "reread", "ask", "advance"} =>
        /\ Cur'.current = c /\ responses'[c].answer = AnswerOf(Cur'.kind)
        /\ Cur'.pc # "advance"
  BY <1>1 DEF Rewriting, Records, Skips, Hints, Poses, GoesTo, Keeps, Ends,
     AnswerOf, SlotInv
<1>9. \A i \in DOMAIN responses :
        responses'[i].answer \in {"spoken", "code"} =>
          Evaluated(i)' \/ (Cur'.pc = "evaluation" /\ i = Cur'.current)
  <2>1. CASE Records
    BY <1>2, <1>3, <2>1 DEF Records, TurnOK
  <2>2. CASE Skips \/ Hints \/ Poses
    BY <1>2, <1>3, <2>2 DEF Skips, Hints, Poses, TurnOK
  <2> QED
    BY <2>1, <2>2 DEF Rewriting
<1> QED
  BY <1>2, <1>5, <1>7, <1>8, <1>9 DEF TurnOK

LEMMA TurnAsks ==
  ASSUME Kinds \cap {"respond", "followup"} = {}, CoreInv, TurnOK, Asks
  PROVE  TurnOK'
<1> DEFINE n == Len(responses)
           c == Cur.current
<1>1. /\ SlotInv(Cur, responses) /\ EvaluationsAreOfAnswers /\ OutcomeInv
      /\ Cur.kind \notin {"respond", "followup"}
      /\ DOMAIN responses = 1..n /\ n \in Nat
  BY CurSlot DEF CoreInv, ServiceInv, SlotInv
<1>2. /\ DOMAIN responses' = 1..(n + 1)
      /\ \A i \in DOMAIN responses : responses'[i] = responses[i]
      /\ responses'[n + 1].answer = "none"
      /\ evaluations' = evaluations /\ advanced' = advanced
  BY DEF Asks, FollowsUp, Creates, Asked, NewResponse, interviewVars
<1>3. /\ n + 1 \notin advanced /\ ~Evaluated(n + 1)
      /\ \A i : Evaluated(i)' <=> Evaluated(i)
  <2>1. ~Evaluated(n + 1)
    BY <1>1 DEF EvaluationsAreOfAnswers, Evaluated
  <2> QED
    BY <1>1, <1>2, <2>1 DEF OutcomeInv, EvaluatedIds, Evaluated
<1>4. \A i \in DOMAIN responses : IsMain(i)' <=> IsMain(i)
  BY <1>1, <1>2 DEF IsMain
<1>5. \A i \in DOMAIN responses :
        FollowedUp(i)' <=> FollowedUp(i) \/ responses'[n + 1].parent = i
  BY <1>1, <1>2 DEF FollowedUp
<1>6. Cur'.pc \in {"context", "idle"}
  BY DEF Asks, FollowsUp, Creates, Ends
<1>7. DOMAIN responses' = DOMAIN responses \cup {n + 1}
  BY <1>1, <1>2
<1>8. OtherTurns'
  <2> HIDE DEF n
  <2> QED
    BY <1>2, <1>3, <1>4, <1>7 DEF TurnOK, OtherTurns
<1>9. CASE FollowsUp
  <2>1. /\ responses'[n + 1].parent = c /\ Undecided(Cur)
        /\ Cur.kind = "answer" /\ responses[c].answer = "spoken"
        /\ c \in DOMAIN responses /\ Cur.pc = "ask"
    BY <1>1, <1>9 DEF FollowsUp, Asked, NewResponse, SlotInv, Working,
       Undecided, TurnOK,
       AnswerOf
  <2>2. c \notin advanced
    BY <1>1, <2>1, CurUndecided
  <2>3. \A i : i = c => HasOutcome(i)'
    BY <1>2, <1>5, <2>1, <2>2 DEF HasOutcome
  <2>4. \A i \in DOMAIN responses \ {c} :
          ~InHand(i) /\ (HasOutcome(i)' <=> HasOutcome(i))
    BY <1>2, <1>5, <2>1 DEF HasOutcome, InHand
  <2> HIDE DEF n, c
  <2>5. MainTurns'
    BY <1>3, <1>4, <1>7, <2>3, <2>4 DEF TurnOK, MainTurns
  <2>6. \A i \in DOMAIN responses :
          responses'[i].answer \in {"spoken", "code"} => Evaluated(i)'
    BY <1>2, <1>3, <2>1 DEF TurnOK
  <2> QED
    BY <1>2, <1>6, <1>7, <1>8, <2>5, <2>6 DEF TurnOK
<1>10. CASE Creates
  <2>1. responses'[n + 1].parent = 0 /\ Cur.pc = "create"
    BY <1>10 DEF Creates, Asked, NewResponse
  <2>2. \A i \in DOMAIN responses : responses'[n + 1].parent # i
    BY <1>1, <2>1
  <2>3. \A i \in DOMAIN responses : ~InHand(i) /\ (HasOutcome(i)' <=> HasOutcome(i))
    BY <1>2, <1>5, <2>1, <2>2 DEF HasOutcome, InHand, Undecided
  <2> HIDE DEF n
  <2>4. MainTurns'
    BY <1>3, <1>4, <1>7, <2>3 DEF TurnOK, MainTurns
  <2>5. \A i \in DOMAIN responses :
          responses'[i].answer \in {"spoken", "code"} => Evaluated(i)'
    BY <1>2, <1>3, <2>1 DEF TurnOK
  <2> QED
    BY <1>2, <1>6, <1>7, <1>8, <2>4, <2>5 DEF TurnOK
<1> QED
  BY <1>9, <1>10 DEF Asks

LEMMA TurnInit == Init => TurnOK
<1> SUFFICES ASSUME Init PROVE TurnOK
  OBVIOUS
<1>1. Cur = NoRequest
  BY OneSlot DEF Init, Cur
<1>2. DOMAIN responses = {}
  BY EmptyList DEF Init
<1> QED
  BY <1>1, <1>2 DEF TurnOK, MainTurns, OtherTurns, NoRequest

LEMMA TurnStep ==
  ASSUME Kinds \cap {"respond", "followup"} = {}, Faults \subseteq {"summary"},
         CoreInv, TurnOK, [Next]_vars
  PROVE  TurnOK'
<1>1. CASE Next
  <2>1. Step
    BY <1>1, StepEffect DEF CoreInv
  <2> QED
    BY <2>1, StepGroups, TurnReading, TurnStoring, TurnRewriting, TurnAsks
<1>2. CASE UNCHANGED vars
  BY <1>2 DEF vars, TurnOK, MainTurns, OtherTurns, HasOutcome, InHand,
     Undecided, Evaluated, IsMain, FollowedUp, Cur
<1> QED
  BY <1>1, <1>2

LEMMA TurnAlways ==
  ASSUME Kinds \cap {"respond", "followup"} = {}, Faults \subseteq {"summary"}
  PROVE  Spec => [](CoreInv /\ TurnOK)
<1>1. Init => CoreInv /\ TurnOK
  BY CoreInvInit, TurnInit
<1>2. CoreInv /\ TurnOK /\ [Next]_vars => CoreInv' /\ TurnOK'
  BY CoreInvStep, TurnStep
<1> QED
  BY <1>1, <1>2, PTL DEF Spec

-----------------------------------------------------------------------------
(* Phases: questions are asked in the phase of the row, so that those of a *)
(* phase that have not been followed up are its counted answers and at     *)
(* most one more; and nothing is asked once the plan is filled.            *)

Open(phase) ==
  {i \in DOMAIN responses :
     IsMain(i) /\ ~FollowedUp(i) /\ responses[i].phase = phase}

PlanRank(phase) ==
  CASE phase = "introduction"   -> 1
    [] phase = "fundamentals"   -> 2
    [] phase = "deep_technical" -> 3
    [] phase = "coding"         -> 4
    [] phase = "behavioral"     -> 5
    [] phase = "system_design"  -> 6
    [] phase = "wrap_up"        -> 7

NobodySkipped == \A i \in DOMAIN responses : responses[i].answer # "skipped"

(* The plan has all its answers and the interview is being completed.      *)
PlanFilled ==
  /\ row.count = MaxQuestions[row.phase]
  /\ Len(responses) \in advanced
  /\ Pending(responses) = {}
  /\ \/ status = "completed"
     \/ Cur.pc = "finish"
     \/ Cur.pc = "reread" /\ Cur.kind = "code"

(* A program that gets its evaluation is for the newest question: all the  *)
(* others have theirs already.                                             *)
CodeOK ==
  /\ Cur.kind = "code"
  /\ \/ Cur.pc = "evaluation" /\ ~Evaluated(Cur.current)
     \/ Cur.pc = "advance"
  => Cur.current = Len(responses) /\ Pending(responses) = {}

PhaseOK ==
  /\ Cardinality(Open(row.phase) \cap advanced) <= row.count
  /\ \A p \in Phases \ {row.phase} : Cardinality(Open(p)) <= MaxQuestions[p]
  /\ \A p \in Phases : PlanRank(p) > PlanRank(row.phase) => Open(p) = {}
  /\ \A p \in Phases \ {row.phase} : Open(p) \subseteq advanced
  /\ NobodySkipped
  /\ row.count < MaxQuestions[row.phase] \/ PlanFilled
  /\ CodeOK

(* Clients that name the pending question as the page does: nobody skips   *)
(* or asks out of turn, nothing fails but the summary.                     *)
SteadyClients ==
  /\ Naming = "page"
  /\ Kinds \cap {"respond", "followup", "generate", "skip"} = {}
  /\ Faults \subseteq {"summary"}

SteadyInv == CoreInv /\ OrderOK /\ TurnOK /\ PhaseOK

LEMMA OpenFinite ==
  ASSUME ServiceInv, NEW p
  PROVE  IsFiniteSet(Open(p)) /\ Cardinality(Open(p)) \in Nat
<1>1. Open(p) \subseteq 1..Len(responses) /\ Len(responses) \in Nat
  BY CurSlot DEF Open
<1>2. IsFiniteSet(1..Len(responses))
  BY <1>1, FS_Interval
<1>3. IsFiniteSet(Open(p))
  BY <1>1, <1>2, FS_Subset
<1> QED
  BY <1>3, FS_CardinalityType

(* Only the newest question may be open without having counted.            *)
LEMMA OpenOrCounted ==
  ASSUME CoreInv, OrderOK, TurnOK, NobodySkipped, CodeOK, NEW p
  PROVE  Open(p) \ advanced \subseteq {Len(responses)}
<1> SUFFICES ASSUME NEW i \in Open(p) \ advanced
             PROVE  i = Len(responses)
  OBVIOUS
<1>1. i \in DOMAIN responses /\ IsMain(i) /\ ~FollowedUp(i)
  BY DEF Open
<1>2. responses[i].answer \in {"none", "spoken", "code", "skipped"}
  BY <1>1, CurSlot, ListProperties DEF CoreInv, Response
<1>3. CASE InHand(i)
  BY <1>3 DEF InHand, Undecided, OrderOK, CodeOK
<1>4. CASE ~InHand(i)
  <2>1. ~Evaluated(i)
    BY <1>1, <1>4 DEF TurnOK, MainTurns, HasOutcome
  <2>2. CASE responses[i].answer \in {"spoken", "code"}
    BY <1>1, <2>1, <2>2 DEF TurnOK, OrderOK, CodeOK
  <2>3. CASE responses[i].answer = "none"
    BY <1>1, <2>3 DEF OrderOK, Pending, Answered
  <2> QED
    BY <1>1, <1>2, <2>2, <2>3 DEF NobodySkipped
<1> QED
  BY <1>3, <1>4

LEMMA WithinPhase ==
  ASSUME SteadyInv, NEW p \in Phases
  PROVE  Cardinality(Open(p)) <= MaxQuestions[p]
<1>1. CASE p # row.phase
  BY <1>1 DEF SteadyInv, PhaseOK
<1>2. CASE p = row.phase
  <2> DEFINE counted == Open(p) \cap advanced
             n == Len(responses)
  <2>1. /\ Open(p) \ advanced \subseteq {n}
        /\ Cardinality(counted) <= row.count
        /\ row.count < MaxQuestions[p] \/ PlanFilled
    BY <1>2, OpenOrCounted DEF SteadyInv, PhaseOK
  <2>2. IsFiniteSet(counted) /\ Cardinality(counted) \in Nat
    <3>1. IsFiniteSet(Open(p)) /\ counted \subseteq Open(p)
      BY OpenFinite DEF SteadyInv, CoreInv
    <3>2. IsFiniteSet(counted)
      BY <3>1, FS_Subset
    <3> QED
      BY <3>2, FS_CardinalityType
  <2>3. row.count \in Nat /\ MaxQuestions[p] \in Nat
    BY CurSlot, MaxQuestionsAssumption DEF SteadyInv, CoreInv, TypeOK, PhaseRow
  <2>4. CASE Open(p) \subseteq advanced
    <3>1. Open(p) = counted
      BY <2>4
    <3>2. row.count <= MaxQuestions[p]
      BY <1>2, <2>1, <2>3 DEF PlanFilled
    <3> HIDE DEF counted
    <3> QED
      BY <2>1, <2>2, <2>3, <3>1, <3>2
  <2>5. CASE ~(Open(p) \subseteq advanced)
    <3>1. n \in Open(p) /\ n \notin advanced /\ Open(p) = counted \cup {n}
      BY <2>1, <2>5
    <3>2. row.count < MaxQuestions[p]
      BY <2>1, <3>1 DEF PlanFilled
    <3>3. n \notin counted
      BY <3>1
    <3> HIDE DEF counted, n
    <3>4. Cardinality(counted \cup {n}) = Cardinality(counted) + 1
      BY <2>2, <3>3, FS_AddElement
    <3> QED
      BY <2>1, <2>2, <2>3, <3>1, <3>2, <3>4
  <2> QED
    BY <2>4, <2>5
<1> QED
  BY <1>1, <1>2

(* A step that neither asks nor advances.                                  *)
LEMMA PhaseQuiet ==
  ASSUME SteadyClients, SteadyInv, Step, ~Advances, ~Asks
  PROVE  PhaseOK'
<1>1. /\ SlotInv(Cur, responses) /\ LabelsOK /\ CompletionOK /\ PhaseOK
      /\ WorkOK /\ Cur.kind \notin {"respond", "followup", "generate", "skip"}
  BY CurSlot DEF SteadyInv, SteadyClients, CoreInv, SlotInv
<1>2. row' = row /\ advanced' = advanced
  BY DEF Step, Begins, Loads, Reads, Records, Evaluates, Decides, Skips,
     RereadsForQuestion, Asks, NotesContext, Hints, Poses, Summarises,
     RereadsForScores, Completes, Fires, Quits, storeVars, interviewVars
<1>3. Reading \/ Storing => responses' = responses
  BY DEF Reading, Begins, Loads, Reads, Decides, RereadsForQuestion,
     RereadsForScores, Quits, storeVars, Storing, Evaluates, NotesContext,
     Advances, Summarises, Completes, Fires
<1>4. QuestionsKept
  <2>1. Rewriting => QuestionsKept
    BY DEF Rewriting, Records, Skips, Hints, Poses, Rewritten
  <2> QED
    BY <1>3, <2>1, StepGroups DEF QuestionsKept
<1>5. \A p : Open(p)' = Open(p)
  BY <1>4 DEF QuestionsKept, Open, IsMain, FollowedUp
<1>6. NobodySkipped'
  <2>1. CASE Records
    BY <1>1, <2>1 DEF Records, Rewritten, QuestionsKept, PhaseOK, NobodySkipped
  <2>2. CASE Hints \/ Poses
    BY <1>1, <2>2 DEF Hints, Poses, Rewritten, QuestionsKept, PhaseOK,
       NobodySkipped
  <2>3. ~Skips
    BY <1>1 DEF Skips, SlotInv
  <2> QED
    BY <1>1, <1>3, <2>1, <2>2, <2>3, StepGroups DEF Rewriting, PhaseOK,
       NobodySkipped
<1>7. PlanFilled => PlanFilled'
  <2> SUFFICES ASSUME PlanFilled PROVE PlanFilled'
    OBVIOUS
  <2>1. ~Records /\ ~Skips
    BY <1>1 DEF PlanFilled, CompletionOK, Records, Skips, SlotInv
  <2>2. Pending(responses)' = Pending(responses)
    <3>1. CASE Hints \/ Poses
      BY <3>1 DEF Hints, Poses, Rewritten, QuestionsKept, Pending, Answered
    <3> QED
      BY <1>3, <2>1, <3>1, StepGroups DEF Rewriting
  <2>3. \/ status' = "completed"
        \/ Cur'.pc = "finish"
        \/ Cur'.pc = "reread" /\ Cur'.kind = "code"
    <3>1. CASE status = "completed"
      BY <3>1, <2>1 DEF Step, Begins, Loads, Reads, Evaluates, Decides,
         RereadsForQuestion, Asks, NotesContext, Hints, Poses, Summarises,
         RereadsForScores, Completes, Fires, Quits, storeVars, interviewVars
    <3>2. CASE Cur.pc = "finish" \/ (Cur.pc = "reread" /\ Cur.kind = "code")
      BY <3>2, <2>1 DEF Step, Begins, Loads, Reads, Evaluates, Decides,
         RereadsForQuestion, Asks, NotesContext, Hints, Poses, Summarises,
         RereadsForScores, Completes, Fires, Quits, SteadyClients, ReadsOn
    <3> QED
      BY <3>1, <3>2 DEF PlanFilled
  <2> QED
    BY <1>2, <1>4, <2>2, <2>3 DEF PlanFilled, QuestionsKept
<1>8. CodeOK'
  <2>1. CASE Records /\ Cur.kind = "code"
    <3> DEFINE c == Cur.current
               n == Len(responses)
    <3>1. /\ Cur'.kind = "code" /\ Cur'.pc = "evaluation" /\ Cur'.current = c
          /\ Rewritten(c) /\ evaluations' = evaluations /\ c \in DOMAIN responses
          /\ Answered(responses'[c])
      BY <2>1 DEF Records, Keeps, Rewritten, Answered
    <3> SUFFICES ASSUME ~Evaluated(c)
                 PROVE  c = n /\ Pending(responses)' = {} /\ Len(responses') = n
      BY <3>1 DEF CodeOK, Evaluated
    <3>2. responses[c].answer = "none"
      <4>1. responses[c].answer \in {"none", "spoken", "code", "skipped"}
        BY <3>1, CurSlot, ListProperties DEF SteadyInv, CoreInv, Response
      <4>2. responses[c].answer \notin {"spoken", "code"}
        BY <2>1, <3>1 DEF SteadyInv, TurnOK, Records
      <4> QED
        BY <1>1, <3>1, <4>1, <4>2 DEF PhaseOK, NobodySkipped
    <3>3. c \in Pending(responses) /\ Pending(responses) \subseteq {n}
      BY <3>1, <3>2 DEF Pending, Answered, SteadyInv, OrderOK
    <3>4. Pending(responses)' \subseteq Pending(responses) \ {c}
      BY <3>1 DEF Rewritten, QuestionsKept, Pending
    <3> QED
      BY <3>1, <3>3, <3>4 DEF Rewritten, QuestionsKept
  <2>2. CASE Evaluates /\ Cur.kind = "code"
    <3>1. Cur.current = Len(responses) /\ Pending(responses) = {}
      BY <1>1, <2>2 DEF Evaluates, PhaseOK, CodeOK
    <3> QED
      BY <2>2, <3>1 DEF Evaluates, GoesTo, CodeOK, Pending
  <2>3. CASE /\ ~(Records /\ Cur.kind = "code")
             /\ ~(Evaluates /\ Cur.kind = "code")
    <3>1. Cur'.kind # "code" \/ Cur'.pc \notin {"evaluation", "advance"}
      BY <1>1, <2>3 DEF Step, Begins, Loads, Reads, Records, Evaluates, Decides,
         Skips, RereadsForQuestion, Asks, NotesContext, Hints, Poses,
         Summarises, RereadsForScores, Completes, Fires, Quits, Ends, Keeps,
         GoesTo, ReadsOn
    <3> QED
      BY <3>1 DEF CodeOK
  <2> QED
    BY <2>1, <2>2, <2>3
<1> QED
  BY <1>1, <1>2, <1>5, <1>6, <1>7, <1>8 DEF PhaseOK

(* Nothing is asked in a filled plan, and what is asked belongs to the     *)
(* phase of the row.                                                       *)
LEMMA PhaseAsks ==
  ASSUME SteadyClients, SteadyInv, Asks
  PROVE  PhaseOK'
<1> DEFINE n == Len(responses)
<1>1. /\ SlotInv(Cur, responses) /\ LabelsOK /\ CompletionOK /\ PhaseOK /\ ReadsOK
      /\ PlanOK /\ Cur.kind \notin {"respond", "followup", "generate", "skip"}
      /\ DOMAIN responses = 1..n /\ n \in Nat
  BY CurSlot DEF SteadyInv, SteadyClients, CoreInv, SlotInv
<1>2. /\ DOMAIN responses' = 1..(n + 1)
      /\ \A i \in DOMAIN responses : responses'[i] = responses[i]
      /\ responses'[n + 1].answer = "none"
      /\ row' = row /\ advanced' = advanced
  BY DEF Asks, FollowsUp, Creates, Asked, NewResponse, interviewVars
<1>3. Cur.pc \in {"ask", "create"}
  BY DEF Asks, FollowsUp, Creates
<1>4. row.count < MaxQuestions[row.phase]
  BY <1>1, <1>3 DEF PhaseOK, PlanFilled, CompletionOK, LabelsOK
<1>5. NobodySkipped'
  <2> SUFFICES ASSUME NEW i \in DOMAIN responses' PROVE responses'[i].answer # "skipped"
    BY DEF NobodySkipped
  <2>1. i \in DOMAIN responses \/ i = n + 1
    BY <1>1, <1>2
  <2> QED
    BY <1>1, <1>2, <2>1 DEF PhaseOK, NobodySkipped
<1>6. /\ \A p : Open(p)' \subseteq Open(p) \cup {n + 1}
      /\ \A p \in Phases : p # row.phase => Open(p)' \subseteq Open(p)
  <2>1. \A i \in DOMAIN responses : FollowedUp(i) => FollowedUp(i)'
    BY <1>1, <1>2 DEF FollowedUp
  <2>2. ASSUME NEW p, NEW i \in Open(p)', i # n + 1 PROVE i \in Open(p)
    <3>1. i \in DOMAIN responses
      BY <1>1, <1>2, <2>2 DEF Open
    <3> QED
      BY <1>2, <2>1, <2>2, <3>1 DEF Open, IsMain
  <2>3. \A p \in Phases : n + 1 \in Open(p)' => p = row.phase
    <3>1. CASE FollowsUp
      <4>1. responses'[n + 1].parent # 0
        BY <1>1, <3>1 DEF FollowsUp, Asked, NewResponse, SlotInv, Working
      <4> QED
        BY <4>1 DEF Open, IsMain
    <3>2. CASE Creates
      <4>1. PhaseOf(row.phase) = row.phase
        BY <1>1 DEF PlanOK, PhaseOf, Phases
      <4>2. responses'[n + 1].phase = row.phase
        BY <1>1, <3>2, <4>1 DEF Creates, Asked, NewResponse, ReadsOK
      <4> QED
        BY <4>2 DEF Open
    <3> QED
      BY <3>1, <3>2 DEF Asks
  <2> QED
    BY <2>2, <2>3
<1>7. n + 1 \notin advanced
  BY <1>1 DEF SteadyInv, CoreInv, OutcomeInv, ServiceInv,
     EvaluationsAreOfAnswers, EvaluatedIds
<1>8. \A p : IsFiniteSet(Open(p)) /\ Cardinality(Open(p)) \in Nat
  BY OpenFinite DEF SteadyInv, CoreInv
<1>9. \A p \in Phases : MaxQuestions[p] \in Nat
  BY MaxQuestionsAssumption
<1>10. row.count \in Nat
  BY CurSlot DEF SteadyInv, CoreInv, TypeOK, PhaseRow
<1>11. Cardinality(Open(row.phase) \cap advanced)' <= row.count
  <2> DEFINE old == Open(row.phase) \cap advanced
             new == (Open(row.phase) \cap advanced)'
  <2>1. new \subseteq old
    BY <1>2, <1>6, <1>7
  <2>2. IsFiniteSet(old)
    BY <1>8, FS_Subset
  <2>3. Cardinality(old) <= row.count
    BY <1>1 DEF PhaseOK
  <2>4. Cardinality(old) \in Nat
    BY <2>2, FS_CardinalityType
  <2> HIDE DEF old, new
  <2>5. Cardinality(new) <= Cardinality(old) /\ IsFiniteSet(new)
    BY <2>1, <2>2, FS_Subset
  <2>6. Cardinality(new) \in Nat
    BY <2>5, FS_CardinalityType
  <2>7. Cardinality(new) <= row.count
    BY <1>10, <2>3, <2>4, <2>5, <2>6
  <2> QED
    BY <2>7 DEF new
<1>12. ASSUME NEW p \in Phases \ {row.phase}
       PROVE  Cardinality(Open(p))' <= MaxQuestions[p]
  <2> DEFINE old == Open(p)
             new == Open(p)'
  <2>1. new \subseteq old /\ Cardinality(old) <= MaxQuestions[p]
    BY <1>1, <1>6 DEF PhaseOK
  <2>2. IsFiniteSet(old) /\ Cardinality(old) \in Nat /\ MaxQuestions[p] \in Nat
    BY <1>8, <1>9
  <2> HIDE DEF old, new
  <2>3. Cardinality(new) <= Cardinality(old) /\ IsFiniteSet(new)
    BY <2>1, <2>2, FS_Subset
  <2>4. Cardinality(new) \in Nat
    BY <2>3, FS_CardinalityType
  <2>5. Cardinality(new) <= MaxQuestions[p]
    BY <2>1, <2>2, <2>3, <2>4
  <2> QED
    BY <2>5 DEF new
<1>13. \A p \in Phases : PlanRank(p) > PlanRank(row.phase) => Open(p)' = {}
  <2> SUFFICES ASSUME NEW p \in Phases, PlanRank(p) > PlanRank(row.phase)
               PROVE  Open(p)' = {}
    OBVIOUS
  <2>1. p # row.phase
    <3>1. PlanRank(p) \in Nat
      BY DEF PlanRank, Phases
    <3> QED
      BY <3>1
  <2> QED
    BY <1>1, <1>6, <2>1 DEF PhaseOK
<1>14. \A p \in Phases \ {row.phase} : Open(p)' \subseteq advanced
  BY <1>1, <1>6 DEF PhaseOK
<1>15. CodeOK'
  BY DEF Asks, FollowsUp, Creates, Ends, CodeOK
<1> QED
  BY <1>2, <1>4, <1>5, <1>11, <1>12, <1>13, <1>14, <1>15 DEF PhaseOK

(* How the plan goes on from a row whose phase is not filled.              *)
LEMMA PlanGoesOn ==
  ASSUME NEW r \in PhaseRow, r.phase \in Phases, NEW s \in Scores,
         r.count < MaxQuestions[r.phase]
  PROVE  LET advancement == ComputePhaseAdvancement(r, Level, s)
             new == advancement.row
         IN  \/ /\ new.phase \in Phases /\ new.count = 0
                /\ PlanRank(new.phase) > PlanRank(r.phase)
             \/ /\ new.phase = r.phase /\ new.count = r.count + 1
                /\ \/ new.count < MaxQuestions[r.phase]
                   \/ new.count = MaxQuestions[r.phase] /\ advancement.complete
<1> DEFINE count == r.count + 1
           next == NextPhaseFor(r.phase, LevelOf(Level))
           advancement == ComputePhaseAdvancement(r, Level, s)
           new == advancement.row
<1>1. PhaseOf(r.phase) = r.phase
  BY DEF PhaseOf, Phases
<1>2. r.count \in Nat /\ MaxQuestions[r.phase] \in Nat
  BY MaxQuestionsAssumption DEF PhaseRow
<1>3. next = "complete" \/ (next \in Phases /\ PlanRank(next) > PlanRank(r.phase))
  BY DEF NextPhaseFor, PlanRank, Phases
<1>4. CASE count >= MaxQuestions[r.phase] /\ next # "complete"
  <2>1. new.phase = next /\ new.count = 0
    BY <1>1, <1>4 DEF ComputePhaseAdvancement, PhaseFilled
  <2> HIDE DEF next, advancement, new
  <2>2. new.phase \in Phases /\ PlanRank(new.phase) > PlanRank(r.phase)
    BY <1>3, <1>4, <2>1
  <2> QED
    BY <2>1, <2>2 DEF new, advancement
<1>5. CASE ~(count >= MaxQuestions[r.phase] /\ next # "complete")
  <2>1. /\ new.phase = r.phase /\ new.count = count
        /\ count >= MaxQuestions[r.phase] => advancement.complete
    BY <1>1, <1>5 DEF ComputePhaseAdvancement, PhaseFilled
  <2>2. count < MaxQuestions[r.phase] \/ count = MaxQuestions[r.phase]
    BY <1>2
  <2> HIDE DEF next, advancement, new
  <2>3. \/ new.count < MaxQuestions[r.phase]
        \/ new.count = MaxQuestions[r.phase] /\ advancement.complete
    BY <1>2, <2>1, <2>2
  <2> QED
    BY <2>1, <2>3 DEF new, advancement
<1> QED
  BY <1>4, <1>5

LEMMA PhaseAdvances ==
  ASSUME SteadyClients, SteadyInv, Advances
  PROVE  PhaseOK'
<1> DEFINE c == Cur.current
           advancement == ComputePhaseAdvancement(row, Level, Cur.score)
           new == advancement.row
<1>1. /\ SlotInv(Cur, responses) /\ LabelsOK /\ CompletionOK /\ PhaseOK /\ ReadsOK
      /\ PlanOK /\ OrderOK /\ OutcomeInv
  BY CurSlot DEF SteadyInv, CoreInv
<1>2. /\ row \in PhaseRow /\ row.phase \in Phases /\ row.count \in Nat
      /\ Cur.score \in Scores
  BY <1>1, CurSlot, CurType DEF SteadyInv, CoreInv, TypeOK, PhaseRow, PlanOK
<1>3. Cur.row = row /\ Cur.pc = "advance"
  BY <1>1 DEF Advances, ReadsOK
<1>4. row' = new /\ advanced' = advanced \cup {c} /\ responses' = responses
  BY <1>3 DEF Advances
<1>5. c = Len(responses) /\ Pending(responses) = {}
  BY <1>1, <1>3 DEF OrderOK, PhaseOK, CodeOK
<1>6. row.count < MaxQuestions[row.phase]
  BY <1>1, <1>3 DEF PhaseOK, PlanFilled, CompletionOK, LabelsOK
<1>7. \A p : Open(p)' = Open(p)
  BY <1>4 DEF Open, IsMain, FollowedUp
<1>8. \A p : Open(p) \subseteq advanced \cup {c}
  BY <1>5, OpenOrCounted DEF SteadyInv, PhaseOK
<1>9. \A p \in Phases : Cardinality(Open(p)) <= MaxQuestions[p]
  BY WithinPhase
<1>10. NobodySkipped' /\ CodeOK'
  <2>1. Cur'.pc \notin {"evaluation", "advance"}
    BY DEF Advances, Ends
  <2> QED
    BY <1>1, <1>4, <2>1 DEF PhaseOK, NobodySkipped, CodeOK
<1>11. new.phase \in Phases /\ PlanRank(new.phase) >= PlanRank(row.phase)
       => \A p \in Phases : PlanRank(p) > PlanRank(new.phase) => Open(p) = {}
  <2>1. \A p \in Phases : PlanRank(p) \in Nat
    BY DEF PlanRank, Phases
  <2> HIDE DEF new
  <2> QED
    BY <1>1, <1>2, <2>1 DEF PhaseOK
<1>12. CASE /\ new.phase \in Phases /\ new.count = 0
            /\ PlanRank(new.phase) > PlanRank(row.phase)
  <2>1. Open(new.phase) = {}
    BY <1>1, <1>12 DEF PhaseOK
  <2>2. (Open(row.phase) \cap advanced)' = {}
    BY <1>4, <1>7, <2>1
  <2>3. Cardinality((Open(row.phase) \cap advanced)') = 0
    BY <2>2, FS_EmptySet
  <2>4. PlanRank(new.phase) >= PlanRank(row.phase)
    <3>1. PlanRank(new.phase) \in Nat /\ PlanRank(row.phase) \in Nat
      BY <1>2, <1>12 DEF PlanRank, Phases
    <3> HIDE DEF new
    <3> QED
      BY <1>12, <3>1
  <2>5. new.count < MaxQuestions[new.phase]
    BY <1>12, MaxQuestionsAssumption
  <2> HIDE DEF new
  <2> QED
    BY <1>4, <1>7, <1>8, <1>9, <1>10, <1>11, <1>12, <2>3, <2>4, <2>5 DEF PhaseOK
<1>13. CASE /\ new.phase = row.phase /\ new.count = row.count + 1
            /\ \/ new.count < MaxQuestions[row.phase]
               \/ new.count = MaxQuestions[row.phase] /\ advancement.complete
  <2>1. Cardinality((Open(row.phase) \cap advanced)') <= new.count
    <3> DEFINE old == Open(row.phase) \cap advanced
               larger == Open(row.phase) \cap (advanced \cup {c})
    <3>1. larger \subseteq old \cup {c}
      OBVIOUS
    <3>2. IsFiniteSet(old)
      <4>1. IsFiniteSet(Open(row.phase)) /\ old \subseteq Open(row.phase)
        BY OpenFinite DEF SteadyInv, CoreInv
      <4> QED
        BY <4>1, FS_Subset
    <3>3. Cardinality(old) <= row.count
      BY <1>1 DEF PhaseOK
    <3>4. (Open(row.phase) \cap advanced)' = larger
      BY <1>4, <1>7, <1>13
    <3> HIDE DEF old, larger, c
    <3>5. IsFiniteSet(old \cup {c}) /\ Cardinality(old \cup {c}) <= Cardinality(old) + 1
      <4>1. Cardinality(old) \in Nat
        BY <3>2, FS_CardinalityType
      <4>2. /\ IsFiniteSet(old \cup {c})
            /\ Cardinality(old \cup {c}) =
                 IF c \in old THEN Cardinality(old) ELSE Cardinality(old) + 1
        BY <3>2, FS_AddElement
      <4> QED
        BY <4>1, <4>2
    <3>6. IsFiniteSet(larger) /\ Cardinality(larger) <= Cardinality(old \cup {c})
      BY <3>1, <3>5, FS_Subset
    <3>7. /\ Cardinality(old) \in Nat /\ Cardinality(larger) \in Nat
          /\ Cardinality(old \cup {c}) \in Nat
      BY <3>2, <3>5, <3>6, FS_CardinalityType
    <3>8. Cardinality(larger) <= row.count + 1
      BY <1>2, <3>3, <3>5, <3>6, <3>7
    <3> HIDE DEF new
    <3> QED
      BY <1>13, <3>4, <3>8
  <2>2. PlanRank(new.phase) >= PlanRank(row.phase)
    <3>1. PlanRank(row.phase) \in Nat
      BY <1>2 DEF PlanRank, Phases
    <3> HIDE DEF new
    <3> QED
      BY <1>13, <3>1
  <2>3. new.count < MaxQuestions[new.phase] \/ PlanFilled'
    <3>1. CASE new.count < MaxQuestions[row.phase]
      BY <1>13, <3>1
    <3>2. CASE new.count = MaxQuestions[row.phase] /\ advancement.complete
      <4>1. Cur'.pc = "finish" \/ (Cur'.pc = "reread" /\ Cur'.kind = "code")
        BY <1>3, <3>2 DEF Advances, Keeps
      <4>2. Pending(responses)' = {} /\ Len(responses)' \in advanced'
        BY <1>4, <1>5 DEF Pending
      <4> HIDE DEF new, advancement
      <4> QED
        BY <1>4, <1>13, <3>2, <4>1, <4>2 DEF PlanFilled
    <3> QED
      BY <1>13, <3>1, <3>2
  <2> HIDE DEF new, advancement
  <2> QED
    BY <1>2, <1>4, <1>7, <1>8, <1>9, <1>10, <1>11, <1>13, <2>1, <2>2, <2>3 DEF
       PhaseOK
<1> QED
  BY <1>2, <1>6, <1>12, <1>13, PlanGoesOn

LEMMA PhaseInit == Init => PhaseOK
<1> SUFFICES ASSUME Init PROVE PhaseOK
  OBVIOUS
<1>1. DOMAIN responses = {}
  BY EmptyList DEF Init
<1>2. row.phase \in Phases /\ row.count = 0 /\ advanced = {}
  BY DEF Init, NewRow, Phases
<1>3. \A p : Open(p) = {}
  BY <1>1 DEF Open
<1>4. NobodySkipped /\ CodeOK
  <2>1. Cur = NoRequest
    BY OneSlot DEF Init, Cur
  <2> QED
    BY <1>1, <2>1 DEF NobodySkipped, CodeOK, NoRequest
<1>5. Open(row.phase) \cap advanced = {} /\ Cardinality({}) = 0
  BY <1>3, FS_EmptySet
<1>6. \A p \in Phases : 0 < MaxQuestions[p]
  BY MaxQuestionsAssumption
<1>7. \A p \in Phases : 0 <= MaxQuestions[p]
  BY MaxQuestionsAssumption
<1> QED
  BY <1>2, <1>3, <1>4, <1>5, <1>6, <1>7 DEF PhaseOK

LEMMA SteadyAlways ==
  ASSUME SteadyClients
  PROVE  Spec => []SteadyInv
<1>1. /\ Kinds \cap {"respond", "followup"} = {}
      /\ Faults \subseteq {"summary"} /\ "generate" \notin Kinds
      /\ Naming = "page"
  BY DEF SteadyClients
<1>2. Init => SteadyInv
  BY CoreInvInit, OrderInit, TurnInit, PhaseInit DEF SteadyInv
<1>3. SteadyInv /\ [Next]_vars => SteadyInv'
  <2> SUFFICES ASSUME SteadyInv, [Next]_vars PROVE SteadyInv'
    OBVIOUS
  <2>1. CoreInv' /\ TurnOK'
    BY <1>1, CoreInvStep, TurnStep DEF SteadyInv
  <2>2. CASE Next
    <3>1. Step
      BY <2>2, StepEffect DEF SteadyInv, CoreInv
    <3>2. OrderOK'
      BY <1>1, <3>1, OrderStep DEF SteadyInv
    <3>3. PhaseOK'
      BY <3>1, PhaseQuiet, PhaseAsks, PhaseAdvances
    <3> QED
      BY <2>1, <3>2, <3>3 DEF SteadyInv
  <2>3. CASE UNCHANGED vars
    <3>1. OrderOK' /\ PhaseOK'
      BY <2>3 DEF SteadyInv, vars, OrderOK, NumbersFollowAsking, Pending, Cur,
         PhaseOK, PlanFilled, NobodySkipped, CodeOK, Evaluated, Open, IsMain,
         FollowedUp
    <3> QED
      BY <2>1, <3>1 DEF SteadyInv
  <2> QED
    BY <2>2, <2>3
<1> QED
  BY <1>2, <1>3, PTL DEF Spec

-----------------------------------------------------------------------------
(* The theorems.                                                           *)

(* The score of an evaluated answer is overwritten by a program only: as   *)
(* long as none was handed in for it, the score stored with the response   *)
(* is that of its evaluation, through retries, skips, failures and         *)
(* restarts and whatever questions the requests name.                      *)
THEOREM ScoresStayEvaluated == Spec => []ScoresAgreeWithEvaluations
<1>1. CoreInv => ScoresAgreeWithEvaluations
  BY DEF CoreInv
<1> QED
  BY <1>1, CoreInvAlways, PTL

(* The final score of a completed interview is that of the interview as it *)
(* stays.                                                                  *)
THEOREM FinalScoreStays == Spec => []FinalScoreIsFinal
<1>1. CoreInv => FinalScoreIsFinal
  BY DEF CoreInv
<1> QED
  BY <1>1, CoreInvAlways, PTL

(* The completion webhook is started at most once.                         *)
THEOREM CompletionFiresOnce == Spec => []CompletionFiredOnce
<1>1. CoreInv => CompletionFiredOnce
  BY DEF CoreInv, CompletionOK
<1> QED
  BY <1>1, CoreInvAlways, PTL

(* At most one question waits for an answer, whatever fails, if clients    *)
(* name the pending one, as the candidate page does while no reply is      *)
(* lost, and none calls the endpoint that generates questions              *)
(* unconditionally.                                                        *)
THEOREM OneQuestionPending ==
  ASSUME "generate" \notin Kinds, Naming = "page"
  PROVE  Spec => []AtMostOnePending
<1>1. OrderOK => AtMostOnePending
  <2> SUFFICES ASSUME OrderOK PROVE AtMostOnePending
    OBVIOUS
  <2>1. Pending(responses) \in SUBSET {Len(responses)}
    BY DEF OrderOK
  <2>2. /\ IsFiniteSet({Len(responses)})
        /\ Cardinality({Len(responses)}) = 1
    BY FS_Singleton
  <2>3. Cardinality(Pending(responses)) <= Cardinality({Len(responses)})
    BY <2>1, <2>2, FS_Subset
  <2> QED
    BY <2>2, <2>3 DEF AtMostOnePending
<1> QED
  BY <1>1, OrderAlways, PTL

(* Under the same condition the question numbers follow the order in which *)
(* the questions were asked.                                               *)
THEOREM NumbersKeepOrder ==
  ASSUME "generate" \notin Kinds, Naming = "page"
  PROVE  Spec => []NumbersFollowAsking
<1>1. OrderOK => NumbersFollowAsking
  BY DEF OrderOK
<1> QED
  BY <1>1, OrderAlways, PTL

(* Every evaluated main answer either advances the plan or is followed up, *)
(* once its request is over, and of the others only programs advance, if   *)
(* no request is cut short; a summary may fail.                            *)
THEOREM NoTurnLost ==
  ASSUME Kinds \cap {"respond", "followup"} = {}, Faults \subseteq {"summary"}
  PROVE  Spec => []EveryTurnAdvancesOrFollowsUp
<1>1. CoreInv /\ TurnOK => EveryTurnAdvancesOrFollowsUp
  <2> SUFFICES ASSUME CoreInv, TurnOK, Idle
               PROVE  EveryTurnAdvancesOrFollowsUp
    BY DEF EveryTurnAdvancesOrFollowsUp
  <2>1. Cur.pc = "idle"
    BY OneSlot DEF Idle, At, Cur
  <2>2. \A i : ~InHand(i)
    BY <2>1 DEF InHand, Undecided
  <2>3. \A i \in advanced : i \in DOMAIN responses /\ Evaluated(i)
    BY DEF CoreInv, ServiceInv, OutcomeInv, EvaluatedIds, Evaluated,
       EvaluationsAreOfAnswers
  <2> QED
    BY <2>2, <2>3 DEF TurnOK, MainTurns, OtherTurns, HasOutcome,
       EveryTurnAdvancesOrFollowsUp
<1> QED
  BY <1>1, TurnAlways, PTL

(* No phase gets more main questions than the plan gives it, apart from    *)
(* those that were followed up.                                            *)
THEOREM PhasesKeepTheirSize ==
  ASSUME SteadyClients
  PROVE  Spec => []MainQuestionsWithinPhase
<1>1. SteadyInv => MainQuestionsWithinPhase
  <2> SUFFICES ASSUME SteadyInv, NEW p \in Phases
               PROVE  Cardinality(Open(p)) <= MaxQuestions[p]
    BY DEF MainQuestionsWithinPhase, Open
  <2> QED
    BY WithinPhase
<1> QED
  BY <1>1, SteadyAlways, PTL

-----------------------------------------------------------------------------
(* The summary.                                                            *)

(* The last elements of a set of naturals, those with fewer than w         *)
(* elements above them: if some element is not among them, they are        *)
(* exactly w, all above it.                                                *)
ElementsAbove(A, k) == {j \in A : k < j}
LastOnes(A, w) == {k \in A : Cardinality(ElementsAbove(A, k)) < w}

LEMMA LastElements ==
  ASSUME NEW n \in Nat, NEW A, A \subseteq 0..n, NEW w \in Nat \ {0},
         NEW i \in A \ LastOnes(A, w)
  PROVE  /\ Cardinality(LastOnes(A, w)) = w
         /\ \A j \in LastOnes(A, w) : j > i
<1> DEFINE Above(k) == {j \in A : k < j}
           S == {k \in A : Cardinality(Above(k)) < w}
<1>0. LastOnes(A, w) = S
  BY DEF LastOnes, ElementsAbove
<1>1. A \subseteq Nat
  OBVIOUS
<1>2. IsFiniteSet(A)
  <2>1. IsFiniteSet(0..n)
    BY FS_Interval
  <2> QED
    BY <2>1, FS_Subset
<1>3. \A k : IsFiniteSet(Above(k)) /\ Cardinality(Above(k)) \in Nat
  <2> SUFFICES ASSUME NEW k
               PROVE  IsFiniteSet(Above(k)) /\ Cardinality(Above(k)) \in Nat
    OBVIOUS
  <2> DEFINE T == Above(k)
  <2>1. T \subseteq A
    OBVIOUS
  <2> HIDE DEF T
  <2>2. IsFiniteSet(T)
    BY <1>2, <2>1, FS_Subset
  <2>3. Cardinality(T) \in Nat
    BY <2>2, FS_CardinalityType
  <2> QED
    BY <2>2, <2>3 DEF T
<1>4. ASSUME NEW k \in A, NEW m \in A, k <= m
      PROVE  Cardinality(Above(m)) <= Cardinality(Above(k))
  <2>1. Above(m) \subseteq Above(k)
    <3> SUFFICES ASSUME NEW x \in A, m < x PROVE k < x
      OBVIOUS
    <3>1. x \in Nat /\ m \in Nat /\ k \in Nat
      BY <1>1
    <3> QED
      BY <1>4, <3>1
  <2> HIDE DEF Above
  <2> QED
    BY <1>3, <2>1, FS_Subset
<1>5. ASSUME NEW k \in S, NEW m \in A, k <= m PROVE m \in S
  <2>1. k \in A /\ Cardinality(Above(k)) < w
    OBVIOUS
  <2>2. Cardinality(Above(m)) <= Cardinality(Above(k))
    BY <1>4, <1>5, <2>1
  <2>3. Cardinality(Above(m)) \in Nat /\ Cardinality(Above(k)) \in Nat
    BY <1>3
  <2>4. Cardinality(Above(m)) < w
    <3> HIDE DEF Above
    <3> QED
      BY <2>1, <2>2, <2>3
  <2> QED
    BY <2>4
<1>6. i \notin S
  BY <1>0
<1>7. \A j \in S : j > i
  <2> SUFFICES ASSUME NEW j \in S, ~(j > i) PROVE FALSE
    OBVIOUS
  <2>1. j <= i
    BY <1>1
  <2> HIDE DEF S
  <2> QED
    BY <1>5, <1>6, <2>1
<1>8. PICK m \in A \ S : \A x \in A \ S : x <= m
  <2>1. A \ S \subseteq 0..n /\ A \ S # {}
    BY <1>6
  <2> HIDE DEF S
  <2> QED
    BY <2>1, MaximumExists
<1>9. S = Above(m)
  <2>1. \A x \in S : x \in Above(m)
    <3> SUFFICES ASSUME NEW x \in S PROVE m < x
      OBVIOUS
    <3>1. x \in Nat /\ m \in Nat /\ x \in A
      BY <1>1
    <3> HIDE DEF S
    <3>2. ~(x <= m)
      BY <1>5, <1>8
    <3> QED
      BY <3>1, <3>2
  <2>2. \A x \in Above(m) : x \in S
    <3> SUFFICES ASSUME NEW x \in A, m < x PROVE x \in S
      OBVIOUS
    <3>1. x \in Nat /\ m \in Nat
      BY <1>1
    <3> HIDE DEF S
    <3> QED
      BY <1>8, <3>1
  <2> HIDE DEF S, Above
  <2> QED
    BY <2>1, <2>2 DEF S, Above
<1>10. IsFiniteSet(S) /\ Cardinality(S) \in Nat /\ ~(Cardinality(S) < w)
  <2>1. ~(Cardinality(Above(m)) < w)
    OBVIOUS
  <2> HIDE DEF S, Above
  <2> QED
    BY <1>3, <1>9, <2>1
<1>11. PICK k \in S : \A x \in S : k <= x
  <2>1. S \subseteq Nat
    BY <1>1
  <2> HIDE DEF S
  <2>2. S # {}
    BY <1>10, FS_EmptySet
  <2> QED
    BY <2>1, <2>2, MinimumExists
<1>12. Above(k) = S \ {k}
  <2>1. \A x \in A : k < x => x \in S
    <3> SUFFICES ASSUME NEW x \in A, k < x PROVE x \in S
      OBVIOUS
    <3>1. k <= x
      BY <1>1
    <3> HIDE DEF S
    <3> QED
      BY <1>5, <3>1
  <2>2. \A x \in S \ {k} : x \in A /\ k < x
    BY <1>1, <1>11
  <2>3. k \in A /\ k \in Nat
    BY <1>1
  <2>4. \A x : x \in Above(k) <=> x \in A /\ k < x
    OBVIOUS
  <2>5. ~(k < k)
    BY <2>3
  <2> HIDE DEF S, Above
  <2>6. \A x : x \in Above(k) <=> x \in S \ {k}
    BY <2>1, <2>2, <2>4, <2>5
  <2> QED
    BY <2>6
<1>13. Cardinality(S \ {k}) = Cardinality(S) - 1
  <2> HIDE DEF S
  <2> QED
    BY <1>10, FS_RemoveElement
<1>14. Cardinality(S \ {k}) < w
  <2>1. Cardinality(Above(k)) < w
    OBVIOUS
  <2> HIDE DEF S, Above
  <2> QED
    BY <1>12, <2>1
<1>15. Cardinality(S) = w
  <2> HIDE DEF S
  <2> QED
    BY <1>10, <1>13, <1>14
<1> QED
  BY <1>0, <1>7, <1>15

LEMMA SummaryKeeps ==
  ASSUME CoreInv, OrderOK, [Next]_vars
  PROVE  \A i \in summary \ summary' :
           \/ summary' = {}
           \/ /\ Cardinality(summary') = SummaryWindow
              /\ \A j \in summary' : j > i
<1> SUFFICES ASSUME NEW i \in summary \ summary', summary' # {}
             PROVE  /\ Cardinality(summary') = SummaryWindow
                    /\ \A j \in summary' : j > i
  OBVIOUS
<1> DEFINE A == DOMAIN responses \ Pending(responses)
           n == Len(responses)
<1>1. i \in A /\ A \subseteq 0..n /\ n \in Nat /\ A \subseteq DOMAIN responses
  BY CurSlot DEF CoreInv, SummaryOK
<1>2. summary' = Summarised(responses)
  <2>1. Step
    BY StepEffect DEF CoreInv, vars
  <2>2. Summarises
    BY <2>1 DEF Step, Begins, Loads, Reads, Records, Evaluates, Decides, Skips,
       RereadsForQuestion, FollowsUp, NotesContext, Creates, Hints, Poses,
       Advances, RereadsForScores, Completes, Fires, Quits, storeVars,
       interviewVars
  <2>3. Cur.seen = responses /\ Cur.summary = summary
    BY <2>2 DEF Summarises, CoreInv, ReadsOK
  <2> QED
    BY <2>2, <2>3 DEF Summarises
<1>3. \A k, j \in A : Precedes(responses, k, j) <=> k < j
  <2> SUFFICES ASSUME NEW k \in A, NEW j \in A
               PROVE  Precedes(responses, k, j) <=> k < j
    OBVIOUS
  <2>1. /\ k \in DOMAIN responses /\ j \in DOMAIN responses
        /\ responses[k].num \in Nat /\ responses[j].num \in Nat
        /\ k \in Nat /\ j \in Nat
    BY CurSlot, ListProperties DEF CoreInv
  <2>2. k < j => responses[k].num < responses[j].num
    BY <2>1 DEF OrderOK, NumbersFollowAsking
  <2>3. j < k => responses[j].num < responses[k].num
    BY <2>1 DEF OrderOK, NumbersFollowAsking
  <2> QED
    BY <2>1, <2>2, <2>3 DEF Precedes
<1>4. \A k \in A : {j \in A : Precedes(responses, k, j)} = ElementsAbove(A, k)
  BY <1>3 DEF ElementsAbove
<1>5. summary' = LastOnes(A, SummaryWindow)
  BY <1>2, <1>4 DEF Summarised, LastOnes
<1>6. SummaryWindow \in Nat \ {0}
  BY ServiceAssumption
<1> HIDE DEF A, n
<1> QED
  BY <1>1, <1>5, <1>6, LastElements

(* The session summary is either emptied, by a blank answer of the model,  *)
(* or an answer leaves it because the window is full of newer ones; model  *)
(* errors and restarts lose nothing.                                       *)
THEOREM SummaryKeepsContext ==
  ASSUME "generate" \notin Kinds, Naming = "page"
  PROVE  Spec => SummaryLosesOldestOrAll
<1> DEFINE Kept2 == \A i \in summary \ summary' :
                     \/ summary' = {}
                     \/ /\ Cardinality(summary') = SummaryWindow
                        /\ \A j \in summary' : j > i
<1>1. CoreInv /\ OrderOK /\ [Next]_vars => [Kept2]_vars
  BY SummaryKeeps
<1>2. Spec => []CoreInv
  BY CoreInvAlways
<1>3. Spec => []OrderOK
  BY OrderAlways
<1> HIDE DEF Kept2
<1>4. Spec => [][Kept2]_vars
  BY <1>1, <1>2, <1>3, PTL DEF Spec
<1> QED
  BY <1>4 DEF Kept2, SummaryLosesOldestOrAll

-----------------------------------------------------------------------------
(* The refinement: the interview row implements the plan.                  *)

(* The plan of PhaseMachine computes what the handlers compute.            *)
LEMMA SamePlan ==
  \A r, l, s :
    /\ Plan!ComputePhaseAdvancement(r, l, s) = ComputePhaseAdvancement(r, l, s)
    /\ Plan!PhaseOf(r) = PhaseOf(r)
BY DEF Plan!ComputePhaseAdvancement, ComputePhaseAdvancement, Plan!PhaseOf,
   PhaseOf,
   Plan!PhaseFilled, PhaseFilled, Plan!NextPhaseFor, NextPhaseFor,
   Plan!LevelOf, LevelOf, Plan!UpdateSkillEstimate, UpdateSkillEstimate,
   Plan!EstimateOf, EstimateOf

LEMMA PlanInit == Init => Plan!Init
<1> SUFFICES ASSUME Init PROVE Plan!Init
  OBVIOUS
<1>1. Plan!NewRow = NewRow /\ Plan!StoredLevels = StoredLevels
  BY DEF Plan!NewRow, NewRow, Plan!StoredLevels, StoredLevels, Plan!Levels,
     Levels
<1>2. status = "in_progress" /\ row = NewRow /\ Cardinality(advanced) = 0
  BY FS_EmptySet DEF Init
<1> QED
  BY <1>1, <1>2, ServiceAssumption DEF Plan!Init

(* Everything that advanced the plan is a response, and what is about to   *)
(* is one more.                                                            *)
LEMMA RoomToAdvance ==
  ASSUME CoreInv, NEW c \in DOMAIN responses \ advanced
  PROVE  Cardinality(advanced) < MaxResponses
<1> DEFINE n == Len(responses)
<1>1. /\ IsFiniteSet(advanced) /\ n <= MaxResponses
      /\ DOMAIN responses = 1..n /\ n \in Nat /\ MaxResponses \in Nat
  BY CurSlot, ServiceAssumption DEF CoreInv, PlanOK, RoomOK
<1>2. advanced \subseteq DOMAIN responses
  BY DEF CoreInv, ServiceInv, OutcomeInv, EvaluatedIds, EvaluationsAreOfAnswers
<1>3. IsFiniteSet(1..n) /\ Cardinality(1..n) = n
  <2> HIDE DEF n
  <2>1. n \in Int /\ 1 \in Int /\ n - 1 + 1 = n /\ (1 > n => n = 0)
    BY <1>1
  <2>2. /\ IsFiniteSet(1..n)
        /\ Cardinality(1..n) = IF 1 > n THEN 0 ELSE n - 1 + 1
    BY <2>1, FS_Interval
  <2> QED
    BY <2>1, <2>2
<1>4. advanced \cup {c} \in SUBSET (1..n) /\ c \notin advanced
  BY <1>1, <1>2
<1>5. Cardinality(advanced \cup {c}) <= n
  BY <1>3, <1>4, FS_Subset
<1>6. Cardinality(advanced \cup {c}) = Cardinality(advanced) + 1
  BY <1>1, <1>4, FS_AddElement
<1>7. Cardinality(advanced) \in Nat
  BY <1>1, FS_CardinalityType
<1> HIDE DEF n
<1> QED
  BY <1>1, <1>5, <1>6, <1>7

(* Each step of the handlers is a step of the plan or none at all.         *)
LEMMA PlanNext ==
  ASSUME CoreInv, [Next]_vars
  PROVE  [Plan!Next]_(Plan!vars)
<1>1. CASE UNCHANGED <<status, row, advanced>>
  BY <1>1 DEF Plan!vars
<1>2. CASE Advances
  <2> DEFINE c == Cur.current
  <2>1. /\ PlanOK /\ ReadsOK /\ LabelsOK /\ CompletionOK /\ OutcomeInv
        /\ SlotInv(Cur, responses) /\ TypeOK
    BY CurSlot DEF CoreInv
  <2>2. status = "in_progress" /\ status' = status
    BY <1>2, <2>1 DEF Advances, CompletionOK, LabelsOK, TypeOK
  <2>3. Cur.row = row /\ Cur.score \in Scores /\ c \in DOMAIN responses
    BY <1>2, <2>1, CurType DEF Advances, ReadsOK, SlotInv, Working
  <2>4. c \notin advanced
    BY <1>2, <2>1, CurUndecided DEF Advances, Undecided, SlotInv
  <2>5. Cardinality(advanced') = Cardinality(advanced) + 1
    <3>1. advanced' = advanced \cup {c} /\ IsFiniteSet(advanced)
      BY <1>2, <2>1 DEF Advances, PlanOK
    <3> HIDE DEF c
    <3> QED
      BY <2>4, <3>1, FS_AddElement
  <2>6. row.count < MaxQuestions[PhaseOf(row.phase)] + MaxResponses
    <3>1. row.count \in Nat /\ row.count <= Cardinality(advanced)
      BY <2>1 DEF PlanOK, TypeOK, PhaseRow
    <3>2. Cardinality(advanced) < MaxResponses
      BY <2>3, <2>4, RoomToAdvance
    <3>3. Cardinality(advanced) \in Nat
      BY <2>1, FS_CardinalityType DEF PlanOK
    <3>4. PhaseOf(row.phase) \in Phases
      BY <2>1, PhaseOfType DEF TypeOK, PhaseRow
    <3>5. MaxQuestions[PhaseOf(row.phase)] \in Nat
      BY <3>4, MaxQuestionsAssumption
    <3>6. MaxResponses \in Nat
      BY ServiceAssumption
    <3> QED
      BY <3>1, <3>2, <3>3, <3>5, <3>6
  <2>7. row' = ComputePhaseAdvancement(row, Level, Cur.score).row
    BY <1>2, <2>3 DEF Advances
  <2>8. Plan!MainAnswer(Cur.score)
    BY <2>2, <2>5, <2>6, <2>7, SamePlan DEF Plan!MainAnswer
  <2>9. Plan!Scores = Scores
    BY DEF Plan!Scores, Scores
  <2> QED
    BY <2>3, <2>8, <2>9 DEF Plan!Next
<1>3. CASE Completes
  <2>1. status = "in_progress"
    BY <1>3 DEF Completes, CoreInv, ServiceInv, TypeOK, CompletionOK, LabelsOK
  <2>2. Plan!EndEarly
    BY <1>3, <2>1 DEF Completes, Plan!EndEarly
  <2> QED
    BY <2>2 DEF Plan!Next
<1>4. CASE ~Advances /\ ~Completes /\ Next
  <2>1. Step
    BY <1>4, StepEffect DEF CoreInv
  <2>2. UNCHANGED <<status, row, advanced>>
    BY <1>4, <2>1 DEF Step, Begins, Loads, Reads, Records, Evaluates, Decides,
       Skips, RereadsForQuestion, FollowsUp, NotesContext, Creates, Hints,
       Poses, Summarises, RereadsForScores, Fires, Quits, storeVars,
       interviewVars
  <2> QED
    BY <1>1, <2>2
<1>5. CASE UNCHANGED vars
  BY <1>1, <1>5 DEF vars
<1> QED
  BY <1>2, <1>3, <1>4, <1>5

(* The handlers implement the plan: whatever the clients send and whatever *)
(* fails, the interview row only ever moves as PhaseMachine says.          *)
THEOREM HandlersImplementPlan == Spec => ImplementsPlan
<1>1. Init => Plan!Init
  BY PlanInit
<1>2. CoreInv /\ [Next]_vars => [Plan!Next]_(Plan!vars)
  BY PlanNext
<1> QED
  BY <1>1, <1>2, CoreInvAlways, PTL DEF Spec, ImplementsPlan, Plan!Spec
=============================================================================
