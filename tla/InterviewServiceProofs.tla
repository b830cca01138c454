----------------------- MODULE InterviewServiceProofs -----------------------
(***************************************************************************)
(* Proofs about the interview handlers, for any number of requests in      *)
(* progress, any clients and any bounds.                                   *)
(*                                                                         *)
(* Every action but Begin, which adds a request, and Crash, which drops    *)
(* them all, is one step of one request r.  It changes the request of r,   *)
(* and it changes the list of responses in one of three ways: not at all,  *)
(* by updating one response, or by appending one.  The lemmas follow this: *)
(* what the list keeps in each way, what a request may rely on while the   *)
(* list changes under it, and then one step per action.                    *)
(***************************************************************************)
EXTENDS InterviewService, PhasesProofs, SequenceTheorems, FiniteSetTheorems,
        WellFoundedInduction

-----------------------------------------------------------------------------
(* Maxima: what LastOf relies on.                                          *)

LEMMA MinimumExists ==
  ASSUME NEW T, T \subseteq Nat, T # {}
  PROVE  \E m \in T : \A x \in T : m <= x
<1> DEFINE R == {p \in Nat \X Nat : p[1] < p[2]}
<1>1. IsWellFoundedOn(R, Nat)
  BY NatLessThanWellFounded DEF OpToRel
<1>2. \A x, y \in Nat : x < y => <<x, y>> \in R
  OBVIOUS
<1> HIDE DEF R
<1>3. PICK m \in T : \A y \in T : <<y, m>> \notin R
  BY <1>1, WFMin
<1>4. ASSUME NEW x \in T
      PROVE  m <= x
  <2>1. x \in Nat /\ m \in Nat /\ ~(x < m)
    BY <1>2, <1>3
  <2>2. QED
    BY <2>1
<1>5. QED
  BY <1>4

LEMMA MaximumExists ==
  ASSUME NEW n \in Nat, NEW T, T \subseteq 0..n, T # {}
  PROVE  \E m \in T : \A x \in T : x <= m
<1> DEFINE U == {n - x : x \in T}
<1>1. U \subseteq Nat
  <2>1. \A x \in T : n - x \in Nat
    BY SMT
  <2>2. QED
    BY <2>1, Zenon
<1>2. U # {}
  OBVIOUS
<1>3. \A x \in T : n - x \in U
  OBVIOUS
<1>4. \A u \in U : \E x \in T : u = n - x
  OBVIOUS
<1> HIDE DEF U
<1>5. PICK u \in U : \A x \in U : u <= x
  BY <1>1, <1>2, MinimumExists
<1>6. PICK m \in T : u = n - m
  BY <1>4
<1>7. ASSUME NEW x \in T
      PROVE  x <= m
  <2>1. n - m <= n - x
    BY <1>3, <1>5, <1>6
  <2>2. x \in Nat /\ m \in Nat
    OBVIOUS
  <2>3. QED
    BY <2>1, <2>2
<1>8. QED
  BY <1>7

-----------------------------------------------------------------------------
(* Question numbers never run ahead of the ids: each is taken from an      *)
(* older question.                                                         *)
NumsBounded(list) == \A i \in DOMAIN list : list[i].num <= i

(* With bounded numbers, the last of some questions is one of them.        *)
LEMMA LastOfMember ==
  ASSUME NEW list \in Seq(Response), NumsBounded(list),
         NEW ids, ids \subseteq DOMAIN list, ids # {}
  PROVE  LastOf(list, ids) \in ids
<1> DEFINE nums == {list[i].num : i \in ids}
<1>0. DOMAIN list = 1..Len(list) /\ Len(list) \in Nat
  BY LenProperties
<1>1. \A i \in ids : list[i].num \in Nat /\ i \in Nat /\ i <= Len(list)
  <2>1. \A i \in ids : list[i] \in Response /\ i \in 1..Len(list)
    BY <1>0, ElementOfSeq
  <2>2. QED
    BY <1>0, <2>1 DEF Response
<1>2. nums \subseteq 0..Len(list)
  BY <1>0, <1>1 DEF NumsBounded
<1>3. nums # {}
  OBVIOUS
<1>4. \A i \in ids : list[i].num \in nums
  OBVIOUS
<1>5. \A n \in nums : \E i \in ids : list[i].num = n
  OBVIOUS
<1> HIDE DEF nums
<1>6. PICK n \in nums : \A x \in nums : x <= n
  BY <1>0, <1>2, <1>3, MaximumExists
<1> DEFINE newest == {i \in ids : list[i].num = n}
<1>7. newest \subseteq 0..Len(list) /\ newest # {}
  BY <1>0, <1>5
<1>8. PICK i \in newest : \A j \in newest : j <= i
  BY <1>0, <1>7, MaximumExists
<1>9. ASSUME NEW j \in ids \ {i}
      PROVE  Precedes(list, j, i)
  <2>1. list[j].num <= list[i].num
    BY <1>4, <1>6, <1>8
  <2>2. CASE list[j].num = list[i].num
    BY <1>1, <1>8, <2>2 DEF Precedes
  <2>3. CASE list[j].num < list[i].num
    BY <2>3 DEF Precedes
  <2>4. QED
    BY <1>1, <1>8, <2>1, <2>2, <2>3
<1>10. i \in ids
  BY <1>8
<1>11. QED
  BY <1>9, <1>10 DEF LastOf

(* A list is a function on 1..Len, and its elements are responses.         *)
LEMMA ListProperties ==
  ASSUME NEW list \in Seq(Response)
  PROVE  /\ DOMAIN list = 1..Len(list)
         /\ Len(list) \in Nat
         /\ list # <<>> => DOMAIN list # {}
         /\ \A i \in DOMAIN list :
              /\ list[i] \in Response
              /\ i \in Nat
              /\ list[i].num \in Nat
              /\ list[i].parent \in Nat
<1>1. DOMAIN list = 1..Len(list) /\ Len(list) \in Nat
  BY LenProperties
<1>2. list # <<>> => Len(list) # 0
  BY EmptySeq
<1>3. \A i \in DOMAIN list : list[i] \in Response
  BY <1>1, ElementOfSeq
<1>4. \A x \in Response : x.num \in Nat /\ x.parent \in Nat
  BY DEF Response
<1>5. list # <<>> => 1 \in DOMAIN list
  BY <1>1, <1>2
<1>6. \A i \in DOMAIN list : i \in Nat
  BY <1>1
<1>7. QED
  BY <1>1, <1>3, <1>4, <1>5, <1>6

LEMMA NextNumberBounded ==
  ASSUME NEW list \in Seq(Response), NumsBounded(list)
  PROVE  NextNumber(list) \in Nat /\ NextNumber(list) <= Len(list) + 1
<1>1. DOMAIN list = 1..Len(list) /\ Len(list) \in Nat
  BY LenProperties
<1>2. CASE list = <<>>
  BY <1>1, <1>2 DEF NextNumber
<1>3. CASE list # <<>>
  <2>1. DOMAIN list # {}
    BY <1>3, ListProperties
  <2>2. LastAsked(list) \in DOMAIN list
    BY <2>1, LastOfMember DEF LastAsked
  <2>3. list[LastAsked(list)] \in Response
    BY <1>1, <2>2, ElementOfSeq
  <2>4. /\ list[LastAsked(list)].num \in Nat
        /\ list[LastAsked(list)].num <= Len(list)
    BY <1>1, <2>2, <2>3 DEF NumsBounded, Response
  <2>5. QED
    BY <1>1, <1>3, <2>4 DEF NextNumber
<1>4. QED
  BY <1>2, <1>3

(* What is picked by FindPendingResponse or as the latest question.        *)
LEMMA PendingFound ==
  ASSUME NEW list \in Seq(Response), NumsBounded(list), NEW question
  PROVE  \/ FindPendingResponse(list, question) = 0
         \/ FindPendingResponse(list, question) \in Pending(list)
<1> DEFINE ids == {i \in Pending(list) : question \in {0, i}}
<1>1. ids \subseteq DOMAIN list
  BY DEF Pending
<1>2. CASE ids = {}
  BY <1>2 DEF FindPendingResponse, LastOf
<1>3. CASE ids # {}
  <2>1. LastOf(list, ids) \in ids
    BY <1>1, <1>3, LastOfMember
  <2>2. QED
    BY <2>1 DEF FindPendingResponse
<1>4. QED
  BY <1>2, <1>3

-----------------------------------------------------------------------------
(* The list of responses.                                                  *)

(* Numbers are bounded, and follow-ups hang on older answers.              *)
ListInv(list) ==
  /\ NumsBounded(list)
  /\ \A i \in DOMAIN list : list[i].parent # 0 =>
       /\ list[i].parent < i
       /\ Answered(list[list[i].parent])

(* What never goes away: questions and the fact that they are answered.    *)
Grows(old, new) ==
  /\ Len(old) <= Len(new)
  /\ \A i \in DOMAIN old : Answered(old[i]) => Answered(new[i])

(* An update of one response that keeps its place and its answer.          *)
LEMMA UpdateResponse ==
  ASSUME NEW list \in Seq(Response), ListInv(list),
         NEW c \in DOMAIN list, NEW new \in Response,
         new.num = list[c].num, new.parent = list[c].parent,
         Answered(list[c]) => Answered(new)
  PROVE  LET list2 == [list EXCEPT ![c] = new]
         IN  /\ list2 \in Seq(Response)
             /\ DOMAIN list2 = DOMAIN list
             /\ ListInv(list2)
             /\ Grows(list, list2)
<1> DEFINE list2 == [list EXCEPT ![c] = new]
<1>1. DOMAIN list = 1..Len(list) /\ Len(list) \in Nat
  BY LenProperties
<1>2. /\ list2 \in Seq(Response)
      /\ Len(list2) = Len(list)
      /\ \A j \in 1..Len(list) : list2[j] = IF j = c THEN new ELSE list[j]
  BY <1>1, ExceptSeq
<1>3. DOMAIN list2 = 1..Len(list)
  BY <1>2, LenProperties
<1>4. \A j \in 1..Len(list) : list2[j].num = list[j].num /\ list2[j].parent = list[j].parent
  BY <1>2
<1>5. \A j \in 1..Len(list) : Answered(list[j]) => Answered(list2[j])
  BY <1>2
<1> HIDE DEF list2
<1>6. Grows(list, list2)
  BY <1>1, <1>2, <1>5 DEF Grows
<1>7. \A i \in 1..Len(list) : list[i].parent \in Nat
  BY <1>1, ListProperties
<1>8. ASSUME NEW i \in 1..Len(list), list2[i].parent # 0
      PROVE  list2[i].parent < i /\ Answered(list2[list2[i].parent])
  <2>1. list[i].parent < i /\ Answered(list[list[i].parent])
    BY <1>1, <1>4, <1>8 DEF ListInv
  <2>2. list[i].parent \in 1..Len(list)
    BY <1>1, <1>4, <1>7, <1>8, <2>1
  <2>3. QED
    BY <1>4, <1>5, <2>1, <2>2
<1>9. ListInv(list2)
  BY <1>1, <1>3, <1>4, <1>8 DEF ListInv, NumsBounded
<1>10. QED
  BY <1>1, <1>2, <1>3, <1>6, <1>9 DEF list2

(* A new question: a main one, or a follow-up of an answered question.     *)
LEMMA AppendResponse ==
  ASSUME NEW list \in Seq(Response), ListInv(list),
         NEW new \in Response, new.num <= Len(list) + 1,
         \/ new.parent = 0
         \/ new.parent \in DOMAIN list /\ Answered(list[new.parent])
  PROVE  LET list2 == Append(list, new)
         IN  /\ list2 \in Seq(Response)
             /\ Len(list2) = Len(list) + 1
             /\ \A i \in DOMAIN list : list2[i] = list[i]
             /\ list2[Len(list) + 1] = new
             /\ ListInv(list2)
             /\ Grows(list, list2)
<1> DEFINE list2 == Append(list, new)
           n == Len(list)
<1>1. DOMAIN list = 1..n /\ n \in Nat
  BY LenProperties
<1>2. /\ list2 \in Seq(Response)
      /\ Len(list2) = n + 1
      /\ \A j \in 1..n : list2[j] = list[j]
      /\ list2[n + 1] = new
  BY <1>1
<1>3. DOMAIN list2 = 1..(n + 1)
  BY <1>2, LenProperties
<1> HIDE DEF list2
<1>4. Grows(list, list2)
  BY <1>1, <1>2 DEF Grows
<1>5. \A i \in 1..n : list[i].parent \in Nat
  BY <1>1, ListProperties
<1>6. ASSUME NEW i \in 1..n, list2[i].parent # 0
      PROVE  list2[i].parent < i /\ Answered(list2[list2[i].parent])
  <2>1. list[i].parent < i /\ Answered(list[list[i].parent])
    BY <1>1, <1>2, <1>6 DEF ListInv
  <2>2. list[i].parent \in 1..n
    BY <1>1, <1>2, <1>5, <1>6, <2>1
  <2>3. QED
    BY <1>2, <2>1, <2>2
<1>7. new.parent # 0 => new.parent < n + 1 /\ Answered(list2[new.parent])
  BY <1>1, <1>2
<1>8. \A i \in 1..(n + 1) : i \in 1..n \/ i = n + 1
  BY <1>1
<1>9. NumsBounded(list2)
  BY <1>1, <1>2, <1>3, <1>8 DEF ListInv, NumsBounded
<1>10. ListInv(list2)
  BY <1>2, <1>3, <1>6, <1>7, <1>8, <1>9 DEF ListInv
<1>11. QED
  BY <1>1, <1>2, <1>4, <1>10 DEF list2

-----------------------------------------------------------------------------
(* A request in progress.                                                  *)

(* The labels at which a request works on one response.                    *)
Working == {"record", "evaluation", "reread", "ask", "advance", "skip", "hint",
            "problem", "context"}

(* What a request may rely on, whatever other requests do in between: the  *)
(* response it works on exists, and once its answer is recorded it stays   *)
(* answered.                                                               *)
SlotInv(q, list) ==
  /\ q.kind \in Kinds \cup {"none"}
  /\ Len(q.seen) <= Len(list)
  /\ NumsBounded(q.seen)
  /\ q.kind = "code" /\ q.pc \in {"load", "responses"} => q.question \in DOMAIN list
  /\ q.pc \in Working => q.current \in DOMAIN list
  /\ q.pc = "ask" => q.current \in DOMAIN q.seen
  /\ q.pc \in {"evaluation", "ask"} => Answered(list[q.current])
  /\ q.pc = "reread" /\ q.kind = "answer" => Answered(list[q.current])
  /\ q.pc \in {"record", "evaluation"} => q.kind \in {"answer", "code", "respond"}
  /\ q.pc = "ask" => q.kind \in {"answer", "followup"}
  /\ q.pc = "advance" => q.kind \in {"answer", "code"}
  /\ q.pc = "skip" => q.kind = "skip"

LEMMA SlotMonotone ==
  ASSUME NEW old \in Seq(Response), NEW new \in Seq(Response), Grows(old, new),
         NEW q, SlotInv(q, old)
  PROVE  SlotInv(q, new)
<1>1. DOMAIN old = 1..Len(old) /\ Len(old) \in Nat
  BY ListProperties
<1>2. DOMAIN new = 1..Len(new) /\ Len(new) \in Nat
  BY ListProperties
<1>3. DOMAIN old \subseteq DOMAIN new
  BY <1>1, <1>2 DEF Grows
<1>4. \A i \in DOMAIN old : Answered(old[i]) => Answered(new[i])
  BY DEF Grows
<1>5. /\ q.kind \in Kinds \cup {"none"}
      /\ NumsBounded(q.seen)
      /\ q.pc = "ask" => q.current \in DOMAIN q.seen
      /\ q.pc \in {"record", "evaluation"} => q.kind \in {"answer", "code", "respond"}
      /\ q.pc = "ask" => q.kind \in {"answer", "followup"}
      /\ q.pc = "advance" => q.kind \in {"answer", "code"}
      /\ q.pc = "skip" => q.kind = "skip"
  BY DEF SlotInv
<1>6. Len(q.seen) <= Len(new)
  BY <1>1, <1>2 DEF SlotInv, Grows
<1>7. /\ q.kind = "code" /\ q.pc \in {"load", "responses"} => q.question \in DOMAIN new
      /\ q.pc \in Working => q.current \in DOMAIN new
  BY <1>3 DEF SlotInv
<1>8. /\ q.pc \in {"evaluation", "ask"} => Answered(new[q.current])
      /\ q.pc = "reread" /\ q.kind = "answer" => Answered(new[q.current])
  BY <1>4 DEF SlotInv, Working
<1>9. QED
  BY <1>5, <1>6, <1>7, <1>8 DEF SlotInv

(* A request without a handler, and the empty list it starts with.         *)
LEMMA EmptyList ==
  /\ <<>> \in Seq(Response)
  /\ Len(<<>>) = 0
  /\ DOMAIN <<>> = {}
  /\ ListInv(<<>>)
<1>1. <<>> \in Seq(Response) /\ Len(<<>>) = 0
  BY EmptySeq
<1>2. DOMAIN <<>> = {}
  OBVIOUS
<1>3. QED
  BY <1>1, <1>2 DEF ListInv, NumsBounded

LEMMA NewRowType == NewRow \in PhaseRow
BY DEF NewRow, PhaseRow, Phases, Estimates

LEMMA NoRequestType == NoRequest \in Request
<1>1. 0 \in Scores
  BY DEF Scores
<1>2. <<>> \in Seq(Response)
  BY EmptyList
<1>3. QED
  BY <1>1, <1>2, NewRowType DEF NoRequest, Request, Labels

LEMMA NoRequestSlot ==
  ASSUME NEW list \in Seq(Response)
  PROVE  SlotInv(NoRequest, list)
<1>1. Len(list) \in Nat
  BY ListProperties
<1>2. NumsBounded(<<>>) /\ Len(<<>>) = 0
  BY EmptyList DEF ListInv
<1>3. QED
  BY <1>1, <1>2 DEF SlotInv, NoRequest, Working

(* The invariant of the service.                                           *)
ServiceInv ==
  /\ TypeOK
  /\ ListInv(responses)
  /\ EvaluationsAreOfAnswers
  /\ \A r \in Slots : SlotInv(requests[r], responses)

(* The rows of the interview that are not responses or evaluations.        *)
OtherRowsOK ==
  /\ status \in {"in_progress", "completed"}
  /\ row \in PhaseRow
  /\ summary \subseteq Nat
  /\ finalScore \in Seq(Scores)
  /\ contexts \subseteq Nat
  /\ advanced \subseteq Nat
  /\ fired \in Nat

(* One step of the request r: it becomes q, and the list grows.            *)
LEMMA OneRequestSteps ==
  ASSUME ServiceInv, NEW r \in Slots, NEW q \in Request,
         requests' = [requests EXCEPT ![r] = q],
         responses' \in Seq(Response),
         ListInv(responses'),
         Grows(responses, responses'),
         SlotInv(q, responses'),
         evaluations' \subseteq Evaluation,
         \A e \in evaluations' :
           \/ e \in evaluations
           \/ /\ e.response \in DOMAIN responses'
              /\ Answered(responses'[e.response]),
         OtherRowsOK'
  PROVE  ServiceInv'
<1>1. requests \in [Slots -> Request] /\ responses \in Seq(Response)
  BY DEF ServiceInv, TypeOK
<1>2. requests' \in [Slots -> Request]
  BY <1>1
<1>3. TypeOK'
  BY <1>2 DEF TypeOK, OtherRowsOK
<1>4. ASSUME NEW s \in Slots
      PROVE  SlotInv(requests'[s], responses')
  <2>1. CASE s = r
    BY <1>1, <2>1
  <2>2. CASE s # r
    <3>1. requests'[s] = requests[s]
      BY <1>1, <2>2
    <3>2. SlotInv(requests[s], responses)
      BY DEF ServiceInv
    <3>3. QED
      BY <1>1, <3>1, <3>2, SlotMonotone
  <2>3. QED
    BY <2>1, <2>2
<1>5. EvaluationsAreOfAnswers'
  <2> SUFFICES ASSUME NEW e \in evaluations'
               PROVE  e.response \in DOMAIN responses' \ Pending(responses')
    BY DEF EvaluationsAreOfAnswers
  <2>1. e.response \in DOMAIN responses' /\ Answered(responses'[e.response])
    <3>1. CASE e \in evaluations
      <4>1. e.response \in DOMAIN responses /\ Answered(responses[e.response])
        BY <3>1 DEF ServiceInv, EvaluationsAreOfAnswers, Pending
      <4>2. /\ DOMAIN responses = 1..Len(responses)
            /\ DOMAIN responses' = 1..Len(responses')
            /\ Len(responses) \in Nat /\ Len(responses') \in Nat
        BY <1>1, ListProperties
      <4>3. QED
        BY <4>1, <4>2 DEF Grows
    <3>2. QED
      BY <3>1
  <2>2. QED
    BY <2>1 DEF Pending
<1>6. QED
  BY <1>3, <1>4, <1>5 DEF ServiceInv

(* The same for a step that leaves responses and evaluations alone.        *)
LEMMA QuietStep ==
  ASSUME ServiceInv, NEW r \in Slots, NEW q \in Request,
         requests' = [requests EXCEPT ![r] = q],
         responses' = responses, evaluations' = evaluations,
         SlotInv(q, responses),
         OtherRowsOK'
  PROVE  ServiceInv'
<1>1. /\ responses \in Seq(Response)
      /\ ListInv(responses)
      /\ evaluations \subseteq Evaluation
  BY DEF ServiceInv, TypeOK
<1>2. Grows(responses, responses)
  BY <1>1, ListProperties DEF Grows
<1>3. /\ responses' \in Seq(Response)
      /\ ListInv(responses')
      /\ Grows(responses, responses')
      /\ SlotInv(q, responses')
      /\ evaluations' \subseteq Evaluation
  BY <1>1, <1>2
<1>4. \A e \in evaluations' :
           \/ e \in evaluations
           \/ /\ e.response \in DOMAIN responses'
              /\ Answered(responses'[e.response])
  OBVIOUS
<1>5. QED
  BY <1>3, <1>4, OneRequestSteps

LEMMA OtherRowsUnchanged ==
  ASSUME TypeOK, UNCHANGED <<status, row, summary, finalScore, advanced, fired>>,
         contexts' \subseteq Nat
  PROVE  OtherRowsOK'
BY DEF TypeOK, OtherRowsOK

(* The types of a request's fields.                                        *)
LEMMA RequestFields ==
  ASSUME TypeOK, NEW r \in Slots
  PROVE  /\ requests[r] \in Request
         /\ requests[r].kind \in AllKinds \cup {"none"}
         /\ requests[r].pc \in Labels
         /\ requests[r].question \in Nat
         /\ requests[r].row \in PhaseRow
         /\ requests[r].summary \subseteq Nat
         /\ requests[r].seen \in Seq(Response)
         /\ requests[r].current \in Nat
         /\ requests[r].score \in Scores
BY DEF TypeOK, Request

(* The ways a request goes on.                                             *)
LEMMA DoneStep ==
  ASSUME ServiceInv, NEW r \in Slots, Done(r), UNCHANGED storeVars
  PROVE  ServiceInv'
<1>1. SlotInv(NoRequest, responses)
  BY NoRequestSlot DEF ServiceInv, TypeOK
<1>2. OtherRowsOK'
  BY DEF ServiceInv, TypeOK, storeVars, OtherRowsOK
<1>3. QED
  BY <1>1, <1>2, NoRequestType, QuietStep DEF Done, storeVars

LEMMA GotoRequest ==
  ASSUME TypeOK, NEW r \in Slots, NEW pc \in Labels, Goto(r, pc)
  PROVE  \E q \in Request :
           /\ requests' = [requests EXCEPT ![r] = q]
           /\ q = [requests[r] EXCEPT !.pc = pc]
<1>1. [requests[r] EXCEPT !.pc = pc] \in Request
  BY RequestFields DEF Request
<1>2. requests' = [requests EXCEPT ![r] = [requests[r] EXCEPT !.pc = pc]]
  BY DEF Goto
<1>3. QED
  BY <1>1, <1>2

(* What the handler keeps of the list it has read.                         *)
Kept(pc) == IF pc \in {"record", "skip", "hint", "problem"} THEN <<>> ELSE responses

LEMMA ProceedRequest ==
  ASSUME ServiceInv, NEW r \in Slots, NEW pc \in Labels, NEW current \in Nat,
         Proceed(r, pc, current)
  PROVE  \E q \in Request :
           /\ requests' = [requests EXCEPT ![r] = q]
           /\ q.kind = requests[r].kind
           /\ q.pc = pc
           /\ q.seen = Kept(pc)
           /\ q.current = current
<1> DEFINE q == [requests[r] EXCEPT !.pc = pc, !.question = 0,
                                    !.seen = Kept(pc), !.current = current]
<1>1. requests[r] \in Request
  BY RequestFields DEF ServiceInv
<1>2. Kept(pc) \in Seq(Response)
  BY EmptyList DEF Kept, ServiceInv, TypeOK
<1>3. q \in Request
  BY <1>1, <1>2 DEF Request
<1>4. requests' = [requests EXCEPT ![r] = q]
  BY <1>1 DEF Proceed, Kept
<1>5. /\ q.kind = requests[r].kind
      /\ q.pc = pc
      /\ q.seen = Kept(pc)
      /\ q.current = current
  BY <1>1 DEF Request
<1>6. QED
  BY <1>3, <1>4, <1>5

(* A handler goes on with the list it has just read.                       *)
LEMMA ProceedStep ==
  ASSUME ServiceInv, NEW r \in Slots, NEW pc \in Labels, NEW current \in Nat,
         Proceed(r, pc, current), UNCHANGED storeVars,
         pc \notin {"load", "responses"},
         pc \in Working => current \in DOMAIN responses,
         pc \in {"evaluation", "ask"} => Answered(responses[current]),
         pc # "reread",
         pc \in {"record", "evaluation"} =>
           requests[r].kind \in {"answer", "code", "respond"},
         pc = "ask" => requests[r].kind \in {"answer", "followup"},
         pc = "advance" => requests[r].kind \in {"answer", "code"},
         pc = "skip" => requests[r].kind = "skip"
  PROVE  ServiceInv'
<1>1. PICK q \in Request :
        /\ requests' = [requests EXCEPT ![r] = q]
        /\ q.kind = requests[r].kind
        /\ q.pc = pc
        /\ q.seen = Kept(pc)
        /\ q.current = current
  BY ProceedRequest
<1>2. responses \in Seq(Response) /\ NumsBounded(responses)
  BY DEF ServiceInv, TypeOK, ListInv
<1>3. Len(q.seen) <= Len(responses) /\ NumsBounded(q.seen)
  BY <1>1, <1>2, EmptyList, ListProperties DEF Kept, ListInv
<1>4. pc = "ask" => q.current \in DOMAIN q.seen
  BY <1>1 DEF Kept, Working
<1>5. requests[r].kind \in Kinds \cup {"none"}
  BY DEF ServiceInv, SlotInv
<1>6. SlotInv(q, responses)
  BY <1>1, <1>3, <1>4, <1>5 DEF SlotInv
<1>7. OtherRowsOK'
  BY DEF ServiceInv, TypeOK, storeVars, OtherRowsOK
<1>8. QED
  BY <1>1, <1>6, <1>7, QuietStep DEF storeVars

-----------------------------------------------------------------------------
(* The first two reads.                                                    *)

LEMMA ServiceInvBegin ==
  ASSUME ServiceInv, NEW r \in Slots, NEW kind \in Kinds,
         NEW question \in Named(kind), Begin(r, kind, question)
  PROVE  ServiceInv'
<1> DEFINE q == [NoRequest EXCEPT !.kind = kind, !.pc = "load", !.question = question]
<1>1. responses \in Seq(Response)
  BY DEF ServiceInv, TypeOK
<1>2. DOMAIN responses = 1..Len(responses) /\ Len(responses) \in Nat
  BY <1>1, ListProperties
<1>3. question \in Nat /\ (kind = "code" => question \in DOMAIN responses)
  BY <1>2 DEF Named
<1>4. kind \in AllKinds
  BY ServiceAssumption
<1>5. q \in Request
  BY <1>3, <1>4, NoRequestType DEF Request, Labels
<1>6. /\ q.kind = kind
      /\ q.pc = "load"
      /\ q.question = question
      /\ q.seen = <<>>
  BY DEF NoRequest
<1>7. NumsBounded(<<>>) /\ Len(<<>>) = 0
  BY EmptyList DEF ListInv
<1>8. SlotInv(q, responses)
  BY <1>2, <1>3, <1>6, <1>7 DEF SlotInv, Working
<1>9. OtherRowsOK'
  BY DEF Begin, ServiceInv, TypeOK, storeVars, OtherRowsOK
<1>10. QED
  BY <1>5, <1>8, <1>9, QuietStep DEF Begin, storeVars

LEMMA ServiceInvLoad ==
  ASSUME ServiceInv, NEW r \in Slots, LoadInterview(r)
  PROVE  ServiceInv'
<1> DEFINE q == [requests[r] EXCEPT !.pc = "responses", !.row = row, !.summary = summary]
<1>1. requests[r] \in Request /\ row \in PhaseRow /\ summary \subseteq Nat
  BY DEF ServiceInv, TypeOK
<1>2. q \in Request
  BY <1>1 DEF Request, Labels
<1>3. requests' = [requests EXCEPT ![r] = q]
  BY <1>1 DEF LoadInterview, Request
<1>4. /\ q.kind = requests[r].kind
      /\ q.pc = "responses"
      /\ q.question = requests[r].question
      /\ q.seen = requests[r].seen
  BY <1>1 DEF Request
<1>5. SlotInv(requests[r], responses) /\ requests[r].pc = "load"
  BY DEF ServiceInv, LoadInterview, At
<1>6. SlotInv(q, responses)
  BY <1>4, <1>5 DEF SlotInv, Working
<1>7. OtherRowsOK'
  BY DEF LoadInterview, ServiceInv, TypeOK, storeVars, OtherRowsOK
<1>8. QED
  BY <1>2, <1>3, <1>6, <1>7, QuietStep DEF LoadInterview, storeVars

LEMMA ServiceInvRead ==
  ASSUME ServiceInv, NEW r \in Slots, ReadResponses(r)
  PROVE  ServiceInv'
<1>1. /\ responses \in Seq(Response)
      /\ NumsBounded(responses)
      /\ DOMAIN responses = 1..Len(responses)
      /\ Len(responses) \in Nat
      /\ \A i \in DOMAIN responses : i \in Nat
  BY ListProperties DEF ServiceInv, TypeOK, ListInv
<1>2. \A question : LET i == FindPendingResponse(responses, question)
                    IN  i \in Nat /\ (i # 0 => i \in DOMAIN responses)
  <2> TAKE question
  <2>1. CASE FindPendingResponse(responses, question) = 0
    BY <2>1
  <2>2. CASE FindPendingResponse(responses, question) \in Pending(responses)
    BY <1>1, <2>2 DEF Pending
  <2>3. QED
    BY <1>1, <2>1, <2>2, PendingFound
<1>3. UNCHANGED storeVars
  BY DEF ReadResponses, ReadForQuestion, ReadForAnswer, ReadForSkip, ReadForHint,
         ReadForGenerate, ReadForRespond, ReadForFollowUp, ReadForCode,
         ReadForProblem, ReadForComplete
<1>4. CASE Done(r)
  BY <1>3, <1>4, DoneStep
<1>5. CASE ReadForQuestion(r)
  <2>1. Proceed(r, "create", 0) \/ Done(r)
    BY <1>5 DEF ReadForQuestion
  <2>2. QED
    BY <1>3, <1>4, <2>1, ProceedStep DEF Labels, Working
<1>6. CASE ReadForAnswer(r)
  <2> DEFINE pending == FindPendingResponse(responses, requests[r].question)
  <2>1. requests[r].kind = "answer"
    BY <1>6 DEF ReadForAnswer, Handling
  <2>2. pending \in Nat /\ (pending # 0 => pending \in DOMAIN responses)
    BY <1>2
  <2>3. (pending # 0 /\ Proceed(r, "record", pending)) \/ Done(r)
    BY <1>6 DEF ReadForAnswer
  <2> HIDE DEF pending
  <2>4. QED
    BY <1>3, <1>4, <2>1, <2>2, <2>3, ProceedStep DEF Labels
<1>7. CASE ReadForSkip(r)
  <2> DEFINE pending == FindPendingResponse(responses, requests[r].question)
  <2>1. pending \in Nat /\ (pending # 0 => pending \in DOMAIN responses)
    BY <1>2
  <2>2. /\ requests[r].kind = "skip"
        /\ \/ pending # 0 /\ Proceed(r, "skip", pending)
           \/ Proceed(r, "create", pending)
    BY <1>7 DEF ReadForSkip, Handling
  <2> HIDE DEF pending
  <2>3. QED
    BY <1>3, <2>1, <2>2, ProceedStep DEF Labels, Working
<1>8. CASE ReadForHint(r)
  <2> DEFINE pending == FindPendingResponse(responses, requests[r].question)
  <2>1. pending \in Nat /\ (pending # 0 => pending \in DOMAIN responses)
    BY <1>2
  <2>2. (pending # 0 /\ Proceed(r, "hint", pending)) \/ Done(r)
    BY <1>8 DEF ReadForHint
  <2> HIDE DEF pending
  <2>3. QED
    BY <1>3, <1>4, <2>1, <2>2, ProceedStep DEF Labels
<1>9. CASE ReadForGenerate(r)
  BY <1>3, <1>9, ProceedStep DEF ReadForGenerate, Labels, Working
<1>10. CASE ReadForRespond(r)
  <2> DEFINE latest == LastAsked(responses)
  <2>1. requests[r].kind = "respond"
    BY <1>10 DEF ReadForRespond, Handling
  <2>2. (latest \in Pending(responses) /\ Proceed(r, "record", latest)) \/ Done(r)
    BY <1>10 DEF ReadForRespond
  <2>3. latest \in Pending(responses) => latest \in Nat /\ latest \in DOMAIN responses
    BY <1>1 DEF Pending
  <2> HIDE DEF latest
  <2>4. QED
    BY <1>3, <1>4, <2>1, <2>2, <2>3, ProceedStep DEF Labels
<1>11. CASE ReadForFollowUp(r)
  <2> DEFINE latest == LastAsked(responses)
  <2>1. requests[r].kind = "followup"
    BY <1>11 DEF ReadForFollowUp, Handling
  <2>2. \/ latest \in DOMAIN responses \ Pending(responses) /\ Proceed(r, "ask", latest)
        \/ Done(r)
    BY <1>11 DEF ReadForFollowUp
  <2>3. latest \in DOMAIN responses \ Pending(responses) =>
          latest \in Nat /\ latest \in DOMAIN responses /\ Answered(responses[latest])
    BY <1>1 DEF Pending
  <2> HIDE DEF latest
  <2>4. QED
    BY <1>3, <1>4, <2>1, <2>2, <2>3, ProceedStep DEF Labels
<1>12. CASE ReadForCode(r)
  <2>1. requests[r].kind = "code" /\ requests[r].pc = "responses"
    BY <1>12 DEF ReadForCode, Handling, At
  <2>2. requests[r].question \in DOMAIN responses
    BY <2>1 DEF ServiceInv, SlotInv
  <2>3. QED
    BY <1>1, <1>3, <1>12, <2>1, <2>2, ProceedStep DEF ReadForCode, Labels
<1>13. CASE ReadForProblem(r)
  <2> DEFINE open == {i \in Pending(responses) : responses[i].phase = "coding"}
             newest == CHOOSE i \in open : \A j \in open : j <= i
  <2>1. \/ open # {} /\ Proceed(r, "problem", newest)
        \/ Done(r)
    BY <1>13 DEF ReadForProblem
  <2>2. open \subseteq 0..Len(responses)
    BY <1>1 DEF Pending
  <2>3. ASSUME open # {}
        PROVE  newest \in open
    <3> HIDE DEF open
    <3>1. \E i \in open : \A j \in open : j <= i
      BY <1>1, <2>2, <2>3, MaximumExists
    <3>2. QED
      BY <3>1
  <2>4. open \subseteq DOMAIN responses
    BY DEF Pending
  <2> HIDE DEF open, newest
  <2>5. open # {} => newest \in Nat /\ newest \in DOMAIN responses
    BY <1>1, <2>3, <2>4
  <2>6. QED
    BY <1>3, <1>4, <2>1, <2>5, ProceedStep DEF Labels
<1>14. CASE ReadForComplete(r)
  BY <1>3, <1>14, ProceedStep DEF ReadForComplete, Labels, Working
<1>15. QED
  BY <1>5, <1>6, <1>7, <1>8, <1>9, <1>10, <1>11, <1>12, <1>13, <1>14 DEF ReadResponses

-----------------------------------------------------------------------------
(* Recording an answer.                                                    *)

(* A step that writes one response.                                        *)
LEMMA UpdateStep ==
  ASSUME ServiceInv, NEW r \in Slots, NEW q \in Request,
         requests' = [requests EXCEPT ![r] = q],
         NEW c \in DOMAIN responses, NEW new \in Response,
         responses' = [responses EXCEPT ![c] = new],
         new.num = responses[c].num, new.parent = responses[c].parent,
         Answered(responses[c]) => Answered(new),
         evaluations' = evaluations,
         contexts' = contexts,
         UNCHANGED interviewVars,
         SlotInv(q, responses')
  PROVE  ServiceInv'
<1>1. responses \in Seq(Response) /\ ListInv(responses) /\ evaluations \subseteq Evaluation
  BY DEF ServiceInv, TypeOK
<1>2. /\ responses' \in Seq(Response)
      /\ ListInv(responses')
      /\ Grows(responses, responses')
  BY <1>1, UpdateResponse
<1>3. OtherRowsOK'
  BY DEF ServiceInv, TypeOK, interviewVars, OtherRowsOK
<1>4. evaluations' \subseteq Evaluation
  BY <1>1
<1>5. \A e \in evaluations' :
           \/ e \in evaluations
           \/ /\ e.response \in DOMAIN responses'
              /\ Answered(responses'[e.response])
  OBVIOUS
<1>6. QED
  BY <1>2, <1>3, <1>4, <1>5, OneRequestSteps

LEMMA ServiceInvRecord ==
  ASSUME ServiceInv, NEW r \in Slots, NEW score \in AnswerScores, RecordAnswer(r, score)
  PROVE  ServiceInv'
<1> DEFINE c == requests[r].current
           answer == IF Handling(r, {"code"}) THEN "code" ELSE "spoken"
           new == [responses[c] EXCEPT !.answer = answer, !.score = score]
           q == [requests[r] EXCEPT !.pc = "evaluation", !.score = score]
<1>1. /\ requests[r] \in Request
      /\ responses \in Seq(Response)
      /\ score \in Scores
  BY ServiceAssumption, RequestFields DEF ServiceInv, TypeOK
<1>2. requests[r].pc = "record" /\ SlotInv(requests[r], responses)
  BY DEF RecordAnswer, At, ServiceInv
<1>3. /\ c \in DOMAIN responses
      /\ requests[r].kind \in {"answer", "code", "respond"}
  BY <1>2 DEF SlotInv, Working
<1>4. responses[c] \in Response
  BY <1>1, <1>3, ListProperties
<1>5. /\ new \in Response
      /\ new.num = responses[c].num
      /\ new.parent = responses[c].parent
      /\ Answered(new)
  BY <1>1, <1>4 DEF Response, Answered
<1>6. responses' = [responses EXCEPT ![c] = new]
  BY <1>1, <1>3, <1>4 DEF RecordAnswer, Response
<1>7. q \in Request /\ requests' = [requests EXCEPT ![r] = q]
  BY <1>1 DEF RecordAnswer, Request, Labels
<1>8. /\ responses' \in Seq(Response)
      /\ DOMAIN responses' = DOMAIN responses
      /\ Grows(responses, responses')
  BY <1>1, <1>3, <1>5, <1>6, UpdateResponse DEF ServiceInv
<1>9. responses'[c] = new
  BY <1>3, <1>6
<1>10. SlotInv(requests[r], responses')
  BY <1>1, <1>2, <1>8, SlotMonotone
<1>11. /\ q.kind = requests[r].kind
       /\ q.pc = "evaluation"
       /\ q.seen = requests[r].seen
       /\ q.current = c
  BY <1>1 DEF Request
<1>12. SlotInv(q, responses')
  BY <1>2, <1>3, <1>5, <1>8, <1>9, <1>10, <1>11 DEF SlotInv, Working
<1> HIDE DEF q, new, c
<1>13. evaluations' = evaluations /\ contexts' = contexts /\ UNCHANGED interviewVars
  BY DEF RecordAnswer
<1>14. QED
  BY <1>3, <1>5, <1>6, <1>7, <1>12, <1>13, UpdateStep

LEMMA ServiceInvEvaluation ==
  ASSUME ServiceInv, NEW r \in Slots, RecordEvaluation(r)
  PROVE  ServiceInv'
<1> DEFINE c == requests[r].current
           e == [response |-> c, score |-> requests[r].score]
<1>1. /\ requests[r].pc = "evaluation"
      /\ SlotInv(requests[r], responses)
      /\ evaluations' = evaluations \cup {e}
      /\ responses' = responses
      /\ contexts' = contexts
      /\ UNCHANGED interviewVars
  BY DEF RecordEvaluation, At, ServiceInv
<1>2. /\ c \in DOMAIN responses
      /\ Answered(responses[c])
      /\ requests[r].kind \in {"answer", "code", "respond"}
  BY <1>1 DEF SlotInv, Working
<1>3. responses \in Seq(Response) /\ ListInv(responses) /\ evaluations \subseteq Evaluation
  BY DEF ServiceInv, TypeOK
<1>4. e \in Evaluation /\ e.response = c
  BY RequestFields DEF ServiceInv, Evaluation
<1>5. PICK q \in Request : /\ requests' = [requests EXCEPT ![r] = q]
                           /\ SlotInv(q, responses)
  <2>1. CASE requests[r].kind = "answer"
    <3>1. Goto(r, "reread")
      BY <2>1 DEF RecordEvaluation
    <3>2. PICK q \in Request : /\ requests' = [requests EXCEPT ![r] = q]
                               /\ q = [requests[r] EXCEPT !.pc = "reread"]
      BY <3>1, GotoRequest DEF ServiceInv, Labels
    <3>3. /\ q.kind = "answer" /\ q.pc = "reread" /\ q.current = c
          /\ q.seen = requests[r].seen
      BY <2>1, <3>2, RequestFields DEF ServiceInv, Request
    <3>4. SlotInv(q, responses)
      BY <1>1, <1>2, <2>1, <3>3 DEF SlotInv, Working
    <3>5. QED
      BY <3>2, <3>4
  <2>2. CASE requests[r].kind = "code"
    <3>1. Goto(r, "advance")
      BY <2>2 DEF RecordEvaluation
    <3>2. PICK q \in Request : /\ requests' = [requests EXCEPT ![r] = q]
                               /\ q = [requests[r] EXCEPT !.pc = "advance"]
      BY <3>1, GotoRequest DEF ServiceInv, Labels
    <3>3. /\ q.kind = "code" /\ q.pc = "advance" /\ q.current = c
          /\ q.seen = requests[r].seen
      BY <2>2, <3>2, RequestFields DEF ServiceInv, Request
    <3>4. SlotInv(q, responses)
      BY <1>1, <1>2, <2>2, <3>3 DEF SlotInv, Working
    <3>5. QED
      BY <3>2, <3>4
  <2>3. CASE requests[r].kind = "respond"
    <3>1. Done(r)
      BY <2>3 DEF RecordEvaluation
    <3>2. QED
      BY <1>3, <3>1, NoRequestType, NoRequestSlot DEF Done
  <2>4. QED
    BY <1>2, <2>1, <2>2, <2>3
<1>6. OtherRowsOK'
  BY <1>1 DEF ServiceInv, TypeOK, interviewVars, OtherRowsOK
<1>7. Grows(responses, responses')
  BY <1>1, <1>3, ListProperties DEF Grows
<1>8. evaluations' \subseteq Evaluation
  BY <1>1, <1>3, <1>4
<1>9. \A x \in evaluations' :
           \/ x \in evaluations
           \/ /\ x.response \in DOMAIN responses'
              /\ Answered(responses'[x.response])
  BY <1>1, <1>2, <1>4
<1>10. QED
  BY <1>1, <1>3, <1>5, <1>6, <1>7, <1>8, <1>9, OneRequestSteps

LEMMA ServiceInvDecide ==
  ASSUME ServiceInv, NEW r \in Slots, DecideTurn(r)
  PROVE  ServiceInv'
<1> DEFINE c == requests[r].current
           due == FollowUpDue(responses, c, requests[r].score)
<1>1. /\ requests[r].pc = "reread"
      /\ requests[r].kind = "answer"
      /\ UNCHANGED storeVars
  BY DEF DecideTurn, At, Handling
<1>2. c \in Nat /\ c \in DOMAIN responses /\ Answered(responses[c])
  BY <1>1, RequestFields DEF ServiceInv, SlotInv, Working
<1>3. Proceed(r, "ask", c) \/ Proceed(r, "advance", c) \/ Proceed(r, "summary", c)
  BY DEF DecideTurn
<1> HIDE DEF c
<1>4. CASE Proceed(r, "ask", c)
  BY <1>1, <1>2, <1>4, ProceedStep DEF Labels
<1>5. CASE Proceed(r, "advance", c)
  BY <1>1, <1>2, <1>5, ProceedStep DEF Labels
<1>6. CASE Proceed(r, "summary", c)
  BY <1>1, <1>2, <1>6, ProceedStep DEF Labels, Working
<1>7. QED
  BY <1>3, <1>4, <1>5, <1>6

LEMMA ServiceInvSkip ==
  ASSUME ServiceInv, NEW r \in Slots, SlotInv(requests[r], responses), SkipCurrent(r)
  PROVE  ServiceInv'
<1> DEFINE c == requests[r].current
           new == [responses[c] EXCEPT !.answer = "skipped", !.score = 5]
<1>1. /\ requests[r] \in Request
      /\ responses \in Seq(Response)
      /\ 5 \in Scores
  BY RequestFields DEF ServiceInv, TypeOK, Scores
<1>2. requests[r].pc = "skip" /\ c \in DOMAIN responses
  BY DEF SkipCurrent, At, SlotInv, Working
<1>3. responses[c] \in Response
  BY <1>1, <1>2, ListProperties
<1>4. /\ new \in Response
      /\ new.num = responses[c].num
      /\ new.parent = responses[c].parent
      /\ Answered(new)
  BY <1>1, <1>3 DEF Response, Answered
<1>5. responses' = [responses EXCEPT ![c] = new]
  BY <1>1, <1>2, <1>3 DEF SkipCurrent, Response
<1>6. PICK q \in Request : /\ requests' = [requests EXCEPT ![r] = q]
                           /\ q = [requests[r] EXCEPT !.pc = "reread"]
  BY GotoRequest DEF SkipCurrent, ServiceInv, Labels
<1>7. /\ responses' \in Seq(Response)
      /\ DOMAIN responses' = DOMAIN responses
      /\ Grows(responses, responses')
  BY <1>1, <1>2, <1>4, <1>5, UpdateResponse DEF ServiceInv
<1>8. responses'[c] = new
  BY <1>2, <1>5
<1>9. SlotInv(requests[r], responses')
  BY <1>1, <1>7, SlotMonotone
<1>10. /\ q.kind = requests[r].kind
       /\ q.pc = "reread"
       /\ q.seen = requests[r].seen
       /\ q.current = c
  BY <1>1, <1>6 DEF Request
<1>11. SlotInv(q, responses')
  BY <1>2, <1>4, <1>7, <1>8, <1>9, <1>10 DEF SlotInv, Working
<1> HIDE DEF new, c
<1>12. evaluations' = evaluations /\ contexts' = contexts /\ UNCHANGED interviewVars
  BY DEF SkipCurrent
<1>13. QED
  BY <1>2, <1>4, <1>5, <1>6, <1>11, <1>12, UpdateStep

LEMMA ServiceInvHint ==
  ASSUME ServiceInv, NEW r \in Slots, SlotInv(requests[r], responses), GiveHint(r)
  PROVE  ServiceInv'
<1> DEFINE c == requests[r].current
           new == [responses[c] EXCEPT !.hinted = TRUE]
<1>1. responses \in Seq(Response) /\ requests[r].pc = "hint" /\ c \in DOMAIN responses
  BY DEF GiveHint, At, SlotInv, Working, ServiceInv, TypeOK
<1>2. responses[c] \in Response
  BY <1>1, ListProperties
<1>3. /\ new \in Response
      /\ new.num = responses[c].num
      /\ new.parent = responses[c].parent
      /\ Answered(responses[c]) => Answered(new)
  BY <1>2 DEF Response, Answered
<1>4. responses' = [responses EXCEPT ![c] = new]
  BY <1>1, <1>2 DEF GiveHint, Response
<1>5. responses' \in Seq(Response)
  BY <1>1, <1>3, <1>4, UpdateResponse DEF ServiceInv
<1>6. SlotInv(NoRequest, responses')
  BY <1>5, NoRequestSlot
<1> HIDE DEF new, c
<1>7. /\ requests' = [requests EXCEPT ![r] = NoRequest]
      /\ evaluations' = evaluations /\ contexts' = contexts /\ UNCHANGED interviewVars
  BY DEF GiveHint, Done
<1>8. QED
  BY <1>1, <1>3, <1>4, <1>6, <1>7, NoRequestType, UpdateStep

LEMMA ServiceInvProblem ==
  ASSUME ServiceInv, NEW r \in Slots, SlotInv(requests[r], responses), StoreProblem(r)
  PROVE  ServiceInv'
<1> DEFINE c == requests[r].current
           new == [responses[c] EXCEPT !.problem = @ + 1]
<1>1. responses \in Seq(Response) /\ requests[r].pc = "problem" /\ c \in DOMAIN responses
  BY DEF StoreProblem, At, SlotInv, Working, ServiceInv, TypeOK
<1>2. responses[c] \in Response
  BY <1>1, ListProperties
<1>3. /\ new \in Response
      /\ new.num = responses[c].num
      /\ new.parent = responses[c].parent
      /\ Answered(responses[c]) => Answered(new)
  BY <1>2 DEF Response, Answered
<1>4. responses' = [responses EXCEPT ![c] = new]
  BY <1>1, <1>2 DEF StoreProblem, Response
<1>5. responses' \in Seq(Response)
  BY <1>1, <1>3, <1>4, UpdateResponse DEF ServiceInv
<1>6. SlotInv(NoRequest, responses')
  BY <1>5, NoRequestSlot
<1> HIDE DEF new, c
<1>7. /\ requests' = [requests EXCEPT ![r] = NoRequest]
      /\ evaluations' = evaluations /\ contexts' = contexts /\ UNCHANGED interviewVars
  BY DEF StoreProblem, Done
<1>8. QED
  BY <1>1, <1>3, <1>4, <1>6, <1>7, NoRequestType, UpdateStep

-----------------------------------------------------------------------------
(* Asking a question.                                                      *)

(* A step that appends a question.                                         *)
LEMMA AppendStep ==
  ASSUME ServiceInv, NEW r \in Slots, NEW q \in Request,
         requests' = [requests EXCEPT ![r] = q],
         NEW new \in Response,
         responses' = Append(responses, new),
         new.num <= Len(responses) + 1,
         \/ new.parent = 0
         \/ new.parent \in DOMAIN responses /\ Answered(responses[new.parent]),
         evaluations' = evaluations,
         contexts' = contexts,
         UNCHANGED interviewVars,
         SlotInv(q, responses')
  PROVE  ServiceInv'
<1>1. responses \in Seq(Response) /\ ListInv(responses) /\ evaluations \subseteq Evaluation
  BY DEF ServiceInv, TypeOK
<1>2. /\ responses' \in Seq(Response)
      /\ ListInv(responses')
      /\ Grows(responses, responses')
  BY <1>1, AppendResponse
<1>3. OtherRowsOK'
  BY DEF ServiceInv, TypeOK, interviewVars, OtherRowsOK
<1>4. evaluations' \subseteq Evaluation
  BY <1>1
<1>5. \A e \in evaluations' :
           \/ e \in evaluations
           \/ /\ e.response \in DOMAIN responses'
              /\ Answered(responses'[e.response])
  OBVIOUS
<1>6. QED
  BY <1>2, <1>3, <1>4, <1>5, OneRequestSteps

LEMMA NewResponseType ==
  ASSUME NEW num \in Nat, NEW parent \in Nat, NEW phase \in Phases
  PROVE  /\ NewResponse(num, parent, phase) \in Response
         /\ NewResponse(num, parent, phase).num = num
         /\ NewResponse(num, parent, phase).parent = parent
BY DEF NewResponse, Response, Scores

LEMMA ServiceInvCreate ==
  ASSUME ServiceInv, NEW r \in Slots, SlotInv(requests[r], responses), CreateQuestion(r)
  PROVE  ServiceInv'
<1> DEFINE num == NextNumber(requests[r].seen)
           phase == PhaseOf(requests[r].row.phase)
           new == NewResponse(num, 0, phase)
<1>1. /\ requests[r].seen \in Seq(Response)
      /\ requests[r].row \in PhaseRow
      /\ responses \in Seq(Response)
      /\ ListInv(responses)
  BY RequestFields DEF ServiceInv, TypeOK
<1>2. NumsBounded(requests[r].seen) /\ Len(requests[r].seen) <= Len(responses)
  BY DEF SlotInv
<1>3. Len(responses) \in Nat /\ Len(requests[r].seen) \in Nat
  BY <1>1, ListProperties
<1>4. num \in Nat /\ num <= Len(responses) + 1
  BY <1>1, <1>2, <1>3, NextNumberBounded
<1>5. phase \in Phases
  BY <1>1, PhaseOfType DEF PhaseRow
<1> HIDE DEF num, phase
<1>6. new \in Response /\ new.num = num /\ new.parent = 0
  BY <1>4, <1>5, NewResponseType
<1>7. responses' = Append(responses, new)
  BY DEF CreateQuestion, num, phase
<1> HIDE DEF new
<1>8. responses' \in Seq(Response)
  BY <1>1, <1>6, <1>7
<1>9. SlotInv(NoRequest, responses')
  BY <1>8, NoRequestSlot
<1>10. /\ requests' = [requests EXCEPT ![r] = NoRequest]
       /\ evaluations' = evaluations /\ contexts' = contexts /\ UNCHANGED interviewVars
  BY DEF CreateQuestion, Done
<1>11. QED
  BY <1>4, <1>6, <1>7, <1>9, <1>10, NoRequestType, AppendStep

LEMMA ServiceInvFollowUp ==
  ASSUME ServiceInv, NEW r \in Slots, SlotInv(requests[r], responses), AskFollowUp(r)
  PROVE  ServiceInv'
<1> DEFINE c == requests[r].current
           num == requests[r].seen[c].num + 1
           phase == IF requests[r].kind = "followup" THEN "introduction"
                    ELSE PhaseOf(requests[r].row.phase)
           new == NewResponse(num, c, phase)
           q == [requests[r] EXCEPT !.pc = "context", !.current = Len(responses')]
<1>1. /\ requests[r] \in Request
      /\ requests[r].seen \in Seq(Response)
      /\ requests[r].row \in PhaseRow
      /\ responses \in Seq(Response)
      /\ ListInv(responses)
  BY RequestFields DEF ServiceInv, TypeOK
<1>2. /\ requests[r].pc = "ask"
      /\ NumsBounded(requests[r].seen)
      /\ Len(requests[r].seen) <= Len(responses)
      /\ c \in DOMAIN requests[r].seen
      /\ c \in DOMAIN responses
      /\ Answered(responses[c])
  BY DEF AskFollowUp, At, SlotInv, Working
<1>3. /\ Len(responses) \in Nat
      /\ DOMAIN responses = 1..Len(responses)
      /\ c \in Nat
      /\ requests[r].seen[c].num \in Nat
  BY <1>1, <1>2, ListProperties
<1>4. num \in Nat /\ num <= Len(responses) + 1
  BY <1>2, <1>3 DEF NumsBounded
<1>5. phase \in Phases
  <2>1. "introduction" \in Phases
    BY DEF Phases
  <2>2. PhaseOf(requests[r].row.phase) \in Phases
    BY <1>1, PhaseOfType DEF PhaseRow
  <2>3. QED
    BY <2>1, <2>2
<1>6. responses' = Append(responses, new)
  BY DEF AskFollowUp
<1>7. requests' = [requests EXCEPT ![r] = q]
  BY <1>1 DEF AskFollowUp, Request
<1> HIDE DEF num, phase
<1>8. new \in Response /\ new.num = num /\ new.parent = c
  BY <1>3, <1>4, <1>5, NewResponseType
<1> HIDE DEF new
<1>9. /\ responses' \in Seq(Response)
      /\ Len(responses') = Len(responses) + 1
      /\ Grows(responses, responses')
  BY <1>1, <1>2, <1>4, <1>6, <1>8, AppendResponse
<1>10. Len(responses') \in Nat /\ Len(responses') \in DOMAIN responses'
  BY <1>3, <1>9, ListProperties
<1>11. q \in Request
  BY <1>1, <1>10 DEF Request, Labels
<1>12. /\ q.kind = requests[r].kind
       /\ q.pc = "context"
       /\ q.seen = requests[r].seen
       /\ q.current = Len(responses')
  BY <1>1 DEF Request
<1> HIDE DEF q
<1>13. SlotInv(requests[r], responses')
  BY <1>1, <1>9, SlotMonotone
<1>14. SlotInv(q, responses')
  BY <1>10, <1>12, <1>13 DEF SlotInv, Working
<1>15. evaluations' = evaluations /\ contexts' = contexts /\ UNCHANGED interviewVars
  BY DEF AskFollowUp
<1> HIDE DEF c
<1>16. QED
  BY <1>2, <1>4, <1>6, <1>7, <1>8, <1>11, <1>14, <1>15, AppendStep
LEMMA ServiceInvContext ==
  ASSUME ServiceInv, NEW r \in Slots, RecordFollowUpContext(r)
  PROVE  ServiceInv'
<1>1. requests' = [requests EXCEPT ![r] = NoRequest]
  BY DEF RecordFollowUpContext, Done
<1>2. SlotInv(NoRequest, responses)
  BY NoRequestSlot DEF ServiceInv, TypeOK
<1>3. contexts \subseteq Nat /\ requests[r].current \in Nat
  BY RequestFields DEF ServiceInv, TypeOK
<1>4. contexts' \subseteq Nat
  BY <1>3 DEF RecordFollowUpContext
<1>5. OtherRowsOK'
  BY <1>4 DEF RecordFollowUpContext, ServiceInv, TypeOK, interviewVars, OtherRowsOK
<1>6. responses' = responses /\ evaluations' = evaluations
  BY DEF RecordFollowUpContext
<1>7. QED
  BY <1>1, <1>2, <1>5, <1>6, NoRequestType, QuietStep

-----------------------------------------------------------------------------
(* The interview row.                                                      *)

LEMMA ServiceInvAdvance ==
  ASSUME ServiceInv, NEW r \in Slots, SlotInv(requests[r], responses), AdvancePhase(r)
  PROVE  ServiceInv'
<1> DEFINE advancement ==
             ComputePhaseAdvancement(requests[r].row, Level, requests[r].score)
           Next2(pc) == [requests[r] EXCEPT !.pc = pc, !.row = advancement.row]
<1>1. /\ requests[r] \in Request
      /\ requests[r].row \in PhaseRow
      /\ requests[r].score \in Scores
      /\ requests[r].current \in Nat
      /\ responses \in Seq(Response)
      /\ Level \in StoredLevels
  BY RequestFields, ServiceAssumption DEF ServiceInv, TypeOK
<1>2. advancement.row \in PhaseRow
  BY <1>1, AdvancementType
<1>3. row' = advancement.row /\ advanced' = advanced \cup {requests[r].current}
  BY DEF AdvancePhase, SavedRow
<1>4. requests[r].kind \in {"answer", "code"} /\ requests[r].pc = "advance"
  BY DEF AdvancePhase, At, SlotInv
<1>5. \/ requests[r].kind = "answer" /\ requests' = [requests EXCEPT ![r] = Next2("finish")]
      \/ requests[r].kind = "answer" /\ requests' = [requests EXCEPT ![r] = Next2("summary")]
      \/ requests[r].kind = "code" /\ requests' = [requests EXCEPT ![r] = Next2("reread")]
      \/ requests' = [requests EXCEPT ![r] = NoRequest]
  <2> HIDE DEF advancement
  <2>1. CASE requests[r].kind = "answer"
    BY <1>1, <2>1 DEF AdvancePhase, Handling, advancement, Request
  <2>2. CASE requests[r].kind = "code"
    BY <1>1, <2>2 DEF AdvancePhase, Handling, advancement, Request
  <2>3. QED
    BY <1>4, <2>1, <2>2
<1> HIDE DEF advancement
<1>6. \A pc \in {"finish", "summary", "reread"} :
        /\ Next2(pc) \in Request
        /\ Next2(pc).kind = requests[r].kind
        /\ Next2(pc).pc = pc
        /\ Next2(pc).seen = requests[r].seen
        /\ Next2(pc).current = requests[r].current
  BY <1>1, <1>2 DEF Request, Labels
<1>7. ASSUME NEW pc \in {"finish", "summary", "reread"},
             pc = "reread" => requests[r].kind = "code"
      PROVE  SlotInv(Next2(pc), responses)
  <2> DEFINE q == Next2(pc)
  <2>1. /\ q.kind = requests[r].kind
        /\ q.pc = pc
        /\ q.seen = requests[r].seen
        /\ q.current = requests[r].current
    BY <1>6
  <2> HIDE DEF q
  <2>2. SlotInv(q, responses)
    BY <1>4, <1>7, <2>1 DEF SlotInv, Working
  <2>3. QED
    BY <2>2 DEF q
<1>8. PICK q \in Request : /\ requests' = [requests EXCEPT ![r] = q]
                           /\ SlotInv(q, responses)
  <2>1. NoRequest \in Request /\ SlotInv(NoRequest, responses)
    BY <1>1, NoRequestType, NoRequestSlot
  <2> HIDE DEF Next2
  <2>2. QED
    BY <1>5, <1>6, <1>7, <2>1
<1>9. advanced' \subseteq Nat
  BY <1>1, <1>3 DEF ServiceInv, TypeOK
<1>10. OtherRowsOK'
  BY <1>2, <1>3, <1>9 DEF AdvancePhase, responseVars, ServiceInv, TypeOK, OtherRowsOK
<1>11. responses' = responses /\ evaluations' = evaluations
  BY DEF AdvancePhase, responseVars
<1>12. QED
  BY <1>8, <1>10, <1>11, QuietStep

LEMMA ServiceInvSummary ==
  ASSUME ServiceInv, NEW r \in Slots, SlotInv(requests[r], responses), UpdateSummary(r)
  PROVE  ServiceInv'
<1>1. /\ requests[r] \in Request
      /\ requests[r].seen \in Seq(Response)
      /\ requests[r].summary \subseteq Nat
  BY RequestFields DEF ServiceInv
<1>2. PICK q \in Request : /\ requests' = [requests EXCEPT ![r] = q]
                           /\ q = [requests[r] EXCEPT !.pc = "create"]
  BY GotoRequest DEF UpdateSummary, ServiceInv, Labels
<1>3. q.kind = requests[r].kind /\ q.pc = "create" /\ q.seen = requests[r].seen
  BY <1>1, <1>2 DEF Request
<1>4. SlotInv(q, responses)
  BY <1>3 DEF SlotInv, Working
<1>5. Summarised(requests[r].seen) \subseteq Nat
  <2>1. Summarised(requests[r].seen) \subseteq DOMAIN requests[r].seen
    BY DEF Summarised
  <2>2. QED
    BY <1>1, <2>1, ListProperties
<1>6. summary' \subseteq Nat
  BY <1>1, <1>5 DEF UpdateSummary, FailedSummaries
<1>7. OtherRowsOK'
  BY <1>6 DEF UpdateSummary, responseVars, ServiceInv, TypeOK, OtherRowsOK
<1>8. responses' = responses /\ evaluations' = evaluations
  BY DEF UpdateSummary, responseVars
<1>9. QED
  BY <1>2, <1>4, <1>7, <1>8, QuietStep

LEMMA ResponseScoresType ==
  ASSUME NEW list \in Seq(Response)
  PROVE  ResponseScores(list) \in Seq(Scores)
<1>1. DOMAIN list = 1..Len(list) /\ Len(list) \in Nat
  BY ListProperties
<1>2. \A i \in 1..Len(list) : list[i].score \in Scores
  BY <1>1, ListProperties DEF Response
<1>3. ResponseScores(list) = [i \in 1..Len(list) |-> list[i].score]
  BY <1>1 DEF ResponseScores
<1>4. QED
  BY <1>1, <1>2, <1>3, IsASeq

LEMMA ServiceInvFinish ==
  ASSUME ServiceInv, NEW r \in Slots, SlotInv(requests[r], responses), CompleteInterview(r)
  PROVE  ServiceInv'
<1>1. requests[r] \in Request /\ requests[r].seen \in Seq(Response)
  BY RequestFields DEF ServiceInv
<1>2. PICK q \in Request : /\ requests' = [requests EXCEPT ![r] = q]
                           /\ q = [requests[r] EXCEPT !.pc = "fire"]
  BY GotoRequest DEF CompleteInterview, ServiceInv, Labels
<1>3. q.kind = requests[r].kind /\ q.pc = "fire" /\ q.seen = requests[r].seen
  BY <1>1, <1>2 DEF Request
<1>4. SlotInv(q, responses)
  BY <1>3 DEF SlotInv, Working
<1>5. finalScore' \in Seq(Scores)
  BY <1>1, ResponseScoresType DEF CompleteInterview
<1>6. OtherRowsOK'
  BY <1>5 DEF CompleteInterview, responseVars, ServiceInv, TypeOK, OtherRowsOK
<1>7. responses' = responses /\ evaluations' = evaluations
  BY DEF CompleteInterview, responseVars
<1>8. QED
  BY <1>2, <1>4, <1>6, <1>7, QuietStep

LEMMA ServiceInvFire ==
  ASSUME ServiceInv, NEW r \in Slots, FireInterviewCompleted(r)
  PROVE  ServiceInv'
<1>1. requests' = [requests EXCEPT ![r] = NoRequest]
  BY DEF FireInterviewCompleted, Done
<1>2. SlotInv(NoRequest, responses)
  BY NoRequestSlot DEF ServiceInv, TypeOK
<1>3. OtherRowsOK'
  BY DEF FireInterviewCompleted, responseVars, ServiceInv, TypeOK, OtherRowsOK
<1>4. responses' = responses /\ evaluations' = evaluations
  BY DEF FireInterviewCompleted, responseVars
<1>5. QED
  BY <1>1, <1>2, <1>3, <1>4, NoRequestType, QuietStep

-----------------------------------------------------------------------------
(* The invariant.                                                          *)

LEMMA ServiceInvInit == Init => ServiceInv
<1> SUFFICES ASSUME Init PROVE ServiceInv
  OBVIOUS
<1>1. responses = <<>> /\ evaluations = {} /\ requests = [r \in Slots |-> NoRequest]
  BY DEF Init
<1>2. responses \in Seq(Response) /\ ListInv(responses)
  BY <1>1, EmptyList
<1>3. finalScore \in Seq(Scores)
  BY DEF Init
<1>4. TypeOK
  BY <1>1, <1>2, <1>3, NewRowType, NoRequestType DEF Init, TypeOK
<1>5. \A r \in Slots : SlotInv(requests[r], responses)
  BY <1>1, <1>2, NoRequestSlot
<1>6. QED
  BY <1>1, <1>2, <1>4, <1>5 DEF ServiceInv, EvaluationsAreOfAnswers

LEMMA ServiceInvCrash ==
  ASSUME ServiceInv, Crash
  PROVE  ServiceInv'
<1>1. requests' = [r \in Slots |-> NoRequest] /\ UNCHANGED storeVars
  BY DEF Crash
<1>2. responses \in Seq(Response) /\ responses' = responses
  BY <1>1 DEF ServiceInv, TypeOK, storeVars
<1>3. \A r \in Slots : SlotInv(requests'[r], responses')
  BY <1>1, <1>2, NoRequestSlot
<1>4. TypeOK'
  BY <1>1, NoRequestType DEF ServiceInv, TypeOK, storeVars
<1>5. ListInv(responses') /\ EvaluationsAreOfAnswers'
  BY <1>1 DEF ServiceInv, storeVars, EvaluationsAreOfAnswers, Pending
<1>6. QED
  BY <1>3, <1>4, <1>5 DEF ServiceInv

LEMMA ServiceInvHandle ==
  ASSUME ServiceInv, NEW r \in Slots, Handle(r)
  PROVE  ServiceInv'
<1>1. SlotInv(requests[r], responses) /\ requests[r].current \in Nat
  BY RequestFields DEF ServiceInv
<1>2. CASE RefuseCompleted(r) \/ RejectEvaluation(r)
  BY <1>2, DoneStep DEF RefuseCompleted, RejectEvaluation
<1>3. CASE RereadAfterSkip(r)
  BY <1>1, <1>3, ProceedStep DEF RereadAfterSkip, Labels, Working
<1>4. CASE RereadAfterCode(r)
  BY <1>1, <1>4, ProceedStep DEF RereadAfterCode, Labels, Working
<1>5. CASE \E score \in AnswerScores : RecordAnswer(r, score)
  BY <1>5, ServiceInvRecord
<1>6. CASE LoadInterview(r) \/ ReadResponses(r)
  BY <1>6, ServiceInvLoad, ServiceInvRead
<1>7. CASE RecordEvaluation(r) \/ DecideTurn(r) \/ SkipCurrent(r)
  BY <1>1, <1>7, ServiceInvEvaluation, ServiceInvDecide, ServiceInvSkip
<1>8. CASE AskFollowUp(r) \/ RecordFollowUpContext(r) \/ CreateQuestion(r)
  BY <1>1, <1>8, ServiceInvFollowUp, ServiceInvContext, ServiceInvCreate
<1>9. CASE GiveHint(r) \/ StoreProblem(r)
  BY <1>1, <1>9, ServiceInvHint, ServiceInvProblem
<1>10. CASE AdvancePhase(r) \/ UpdateSummary(r)
  BY <1>1, <1>10, ServiceInvAdvance, ServiceInvSummary
<1>11. CASE CompleteInterview(r) \/ FireInterviewCompleted(r)
  BY <1>1, <1>11, ServiceInvFinish, ServiceInvFire
<1>12. QED
  BY <1>2, <1>3, <1>4, <1>5, <1>6, <1>7, <1>8, <1>9, <1>10, <1>11 DEF Handle

LEMMA ServiceInvStep == ServiceInv /\ [Next]_vars => ServiceInv'
<1> SUFFICES ASSUME ServiceInv, [Next]_vars PROVE ServiceInv'
  OBVIOUS
<1>1. ASSUME NEW r \in Slots, NEW kind \in Kinds,
             NEW question \in Named(kind), Begin(r, kind, question)
      PROVE  ServiceInv'
  BY <1>1, ServiceInvBegin
<1>2. ASSUME NEW r \in Slots, Handle(r)
      PROVE  ServiceInv'
  BY <1>2, ServiceInvHandle
<1>3. ASSUME NEW r \in Slots, ModelFails(r)
      PROVE  ServiceInv'
  BY <1>3, DoneStep DEF ModelFails
<1>4. CASE Crash
  BY <1>4, ServiceInvCrash
<1>5. CASE UNCHANGED vars
  BY <1>5 DEF vars, ServiceInv, TypeOK, EvaluationsAreOfAnswers, Pending
<1>6. QED
  BY <1>1, <1>2, <1>3, <1>4, <1>5 DEF Next

(* The rows keep their types whatever the clients send, however requests   *)
(* overlap and wherever the server fails.                                  *)
THEOREM ServiceTypeCorrect == Spec => []TypeOK
<1>1. ServiceInv => TypeOK
  BY DEF ServiceInv
<1>2. QED
  BY <1>1, ServiceInvInit, ServiceInvStep, PTL DEF Spec

(* An evaluation is only ever stored for a question that has its answer.   *)
THEOREM EvaluationsHaveAnswers == Spec => []EvaluationsAreOfAnswers
<1>1. ServiceInv => EvaluationsAreOfAnswers
  BY DEF ServiceInv
<1>2. QED
  BY <1>1, ServiceInvInit, ServiceInvStep, PTL DEF Spec

(* A follow-up hangs on an older question that is answered, so the walk to *)
(* the root of a chain of follow-ups always ends.                          *)
THEOREM FollowUpsHangOnAnswers == Spec => []FollowUpsHaveAnsweredParents
<1>1. ServiceInv => FollowUpsHaveAnsweredParents
  BY DEF ServiceInv, ListInv, FollowUpsHaveAnsweredParents
<1>2. QED
  BY <1>1, ServiceInvInit, ServiceInvStep, PTL DEF Spec

-----------------------------------------------------------------------------
(* What a step does to the requests: only the one that takes it changes.   *)

LEMMA BeginChangesOne ==
  ASSUME TypeOK, NEW r \in Slots, NEW kind, NEW question, Begin(r, kind, question)
  PROVE  \E q : requests' = [requests EXCEPT ![r] = q]
BY DEF Begin

LEMMA ReadChangesOne ==
  ASSUME TypeOK, NEW r \in Slots, ReadResponses(r)
  PROVE  \E q : requests' = [requests EXCEPT ![r] = q]
<1>1. Done(r) \/ \E pc, current : Proceed(r, pc, current)
  BY DEF ReadResponses, ReadForQuestion, ReadForAnswer, ReadForSkip, ReadForHint,
         ReadForGenerate, ReadForRespond, ReadForFollowUp, ReadForCode,
         ReadForProblem, ReadForComplete
<1>2. QED
  BY <1>1 DEF Done, Proceed

LEMMA HandleChangesOne ==
  ASSUME ServiceInv, NEW r \in Slots, Handle(r)
  PROVE  \E q : requests' = [requests EXCEPT ![r] = q]
<1> USE DEF Done, Goto
<1>1. TypeOK /\ SlotInv(requests[r], responses)
  BY DEF ServiceInv
<1>2. CASE ReadResponses(r)
  BY <1>1, <1>2, ReadChangesOne
<1>3. CASE RefuseCompleted(r) \/ LoadInterview(r) \/ RejectEvaluation(r)
  BY <1>3 DEF RefuseCompleted, LoadInterview, RejectEvaluation
<1>4. CASE \E score \in AnswerScores : RecordAnswer(r, score)
  BY <1>4 DEF RecordAnswer
<1>5. CASE RecordEvaluation(r)
  <2>1. requests[r].kind \in {"answer", "code", "respond"}
    BY <1>1, <1>5 DEF RecordEvaluation, At, SlotInv
  <2>2. Goto(r, "reread") \/ Goto(r, "advance") \/ Done(r)
    BY <1>5, <2>1 DEF RecordEvaluation
  <2>3. QED
    BY <2>2
<1>6. CASE DecideTurn(r) \/ RereadAfterSkip(r) \/ RereadAfterCode(r)
  BY <1>6 DEF DecideTurn, RereadAfterSkip, RereadAfterCode, Proceed
<1>7. CASE \/ SkipCurrent(r) \/ RecordFollowUpContext(r) \/ CreateQuestion(r)
           \/ GiveHint(r) \/ StoreProblem(r)
  BY <1>7 DEF SkipCurrent, RecordFollowUpContext, CreateQuestion, GiveHint, StoreProblem
<1>8. CASE AskFollowUp(r)
  BY <1>8 DEF AskFollowUp
<1>9. CASE AdvancePhase(r)
  BY <1>9 DEF AdvancePhase
<1>10. CASE UpdateSummary(r) \/ CompleteInterview(r) \/ FireInterviewCompleted(r)
  BY <1>10 DEF UpdateSummary, CompleteInterview, FireInterviewCompleted
<1>11. QED
  BY <1>2, <1>3, <1>4, <1>5, <1>6, <1>7, <1>8, <1>9, <1>10 DEF Handle

-----------------------------------------------------------------------------
(* One outcome per answer.                                                 *)

(* A request that has stored the evaluation of its response and has not    *)
(* yet followed it up or advanced the phase for it.                        *)
Undecided(q) ==
  \/ q.kind = "answer" /\ q.pc \in {"reread", "ask", "advance"}
  \/ q.kind = "code" /\ q.pc = "advance"

EvaluatedIds == {e.response : e \in evaluations}
Parents == {responses[i].parent : i \in DOMAIN responses}

(* No two follow-ups hang on the same answer.                              *)
OnlyChildren ==
  \A i, j \in DOMAIN responses :
    responses[i].parent = responses[j].parent /\ responses[i].parent # 0 => i = j

(* The response of an undecided request is evaluated and has no outcome,   *)
(* and two requests are never undecided about the same response: the       *)
(* unique index let only one of them past.  This is what makes the outcome *)
(* inductive; the outcome alone says nothing of requests under way.        *)
UndecidedInv ==
  /\ \A r \in Slots : Undecided(requests[r]) =>
       /\ requests[r].current \in EvaluatedIds \ advanced
       /\ "followup" \notin Kinds => requests[r].current \notin Parents
  /\ \A r, s \in Slots :
       /\ Undecided(requests[r])
       /\ Undecided(requests[s])
       /\ requests[r].current = requests[s].current
       => r = s

OutcomeInv ==
  /\ UndecidedInv
  /\ advanced \subseteq EvaluatedIds
  /\ "followup" \notin Kinds =>
       /\ Parents \subseteq EvaluatedIds \cup {0}
       /\ advanced \cap Parents = {}
       /\ OnlyChildren

LEMMA OutcomeInvImplies == OutcomeInv => OneOutcomePerAnswer
BY DEF OutcomeInv, OneOutcomePerAnswer, OnlyChildren, FollowedUp, Parents

SameParents ==
  /\ DOMAIN responses' = DOMAIN responses
  /\ \A i \in DOMAIN responses : responses'[i].parent = responses[i].parent

(* A step of r that decides nothing: r is undecided afterwards only if it  *)
(* was before, about the same response.                                    *)
DecidesNothing(r, q) ==
  Undecided(q) => Undecided(requests[r]) /\ q.current = requests[r].current

LEMMA OutcomeKept ==
  ASSUME TypeOK, OutcomeInv, NEW r \in Slots, NEW q, DecidesNothing(r, q),
         requests' = [requests EXCEPT ![r] = q],
         evaluations' = evaluations, advanced' = advanced, SameParents
  PROVE  OutcomeInv'
<1>1. requests \in [Slots -> Request]
  BY DEF TypeOK
<1>2. EvaluatedIds' = EvaluatedIds
  BY DEF EvaluatedIds
<1>3. Parents' = Parents /\ (OnlyChildren => OnlyChildren')
  BY DEF Parents, OnlyChildren, SameParents
<1>4. requests'[r] = q /\ \A s \in Slots : s # r => requests'[s] = requests[s]
  BY <1>1
<1>5. \A s \in Slots : Undecided(requests'[s]) =>
        Undecided(requests[s]) /\ requests'[s].current = requests[s].current
  BY <1>4 DEF DecidesNothing
<1>6. UndecidedInv'
  <2>1. \A s \in Slots : Undecided(requests'[s]) =>
          /\ requests'[s].current \in EvaluatedIds' \ advanced'
          /\ "followup" \notin Kinds => requests'[s].current \notin Parents'
    BY <1>2, <1>3, <1>5 DEF OutcomeInv, UndecidedInv
  <2>2. \A s, t \in Slots :
          /\ Undecided(requests'[s])
          /\ Undecided(requests'[t])
          /\ requests'[s].current = requests'[t].current
          => s = t
    BY <1>5 DEF OutcomeInv, UndecidedInv
  <2>3. QED
    BY <2>1, <2>2 DEF UndecidedInv, Undecided
<1>7. QED
  BY <1>2, <1>3, <1>6 DEF OutcomeInv

(* The evaluation gets past the unique index: r becomes undecided about a  *)
(* response nobody else is undecided about.                                *)
LEMMA OutcomeByEvaluation ==
  ASSUME ServiceInv, OutcomeInv, NEW r \in Slots, RecordEvaluation(r)
  PROVE  OutcomeInv'
<1> DEFINE c == requests[r].current
<1>1. /\ requests \in [Slots -> Request]
      /\ requests[r].pc = "evaluation"
      /\ requests[r].kind \in {"answer", "code", "respond"}
      /\ c \in DOMAIN responses
  BY DEF ServiceInv, TypeOK, SlotInv, Working, RecordEvaluation, At
<1>2. /\ responses' = responses
      /\ advanced' = advanced
      /\ ~Evaluated(c)
      /\ evaluations' = evaluations \cup {[response |-> c, score |-> requests[r].score]}
  BY DEF RecordEvaluation, interviewVars
<1>3. c \notin EvaluatedIds /\ EvaluatedIds' = EvaluatedIds \cup {c}
  <2> DEFINE e == [response |-> c, score |-> requests[r].score]
  <2>1. e.response = c
    OBVIOUS
  <2>2. evaluations' = evaluations \cup {e}
    BY <1>2
  <2> HIDE DEF e, c
  <2>3. c \notin EvaluatedIds
    BY <1>2 DEF Evaluated, EvaluatedIds
  <2>4. EvaluatedIds' = EvaluatedIds \cup {c}
    BY <2>1, <2>2 DEF EvaluatedIds
  <2>5. QED
    BY <2>3, <2>4
<1>4. Parents' = Parents /\ (OnlyChildren => OnlyChildren')
  BY <1>2 DEF Parents, OnlyChildren
<1>5. requests[r] \in Request
  BY <1>1
<1>6. PICK q : requests' = [requests EXCEPT ![r] = q] /\ (Undecided(q) => q.current = c)
  <2>1. CASE requests[r].kind = "respond"
    <3>1. ~Undecided(NoRequest)
      BY DEF NoRequest, Undecided
    <3>2. QED
      BY <2>1, <3>1 DEF RecordEvaluation, Done
  <2>2. CASE requests[r].kind \in {"answer", "code"}
    <3>1. Goto(r, "reread") \/ Goto(r, "advance")
      BY <2>2 DEF RecordEvaluation
    <3>2. \A pc : [requests[r] EXCEPT !.pc = pc].current = c
      BY <1>5 DEF Request
    <3>3. QED
      BY <3>1, <3>2 DEF Goto
  <2>3. QED
    BY <1>1, <2>1, <2>2
<1>7. requests'[r] = q /\ \A s \in Slots : s # r => requests'[s] = requests[s]
  BY <1>1, <1>6
<1>8. c # 0
  BY <1>1, ListProperties DEF ServiceInv, TypeOK
<1>9. c \notin advanced /\ ("followup" \notin Kinds => c \notin Parents)
  BY <1>3, <1>8 DEF OutcomeInv
<1>10. \A s \in Slots : Undecided(requests[s]) => requests[s].current # c
  BY <1>3 DEF OutcomeInv, UndecidedInv
<1> HIDE DEF c
<1>11. UndecidedInv'
  <2>1. \A s \in Slots : Undecided(requests'[s]) =>
          /\ requests'[s].current \in EvaluatedIds' \ advanced'
          /\ "followup" \notin Kinds => requests'[s].current \notin Parents'
    BY <1>2, <1>3, <1>4, <1>6, <1>7, <1>9 DEF OutcomeInv, UndecidedInv
  <2>2. \A s, t \in Slots :
          /\ Undecided(requests'[s])
          /\ Undecided(requests'[t])
          /\ requests'[s].current = requests'[t].current
          => s = t
    BY <1>6, <1>7, <1>10 DEF OutcomeInv, UndecidedInv
  <2>3. QED
    BY <2>1, <2>2 DEF UndecidedInv, Undecided
<1>12. QED
  BY <1>2, <1>3, <1>4, <1>11 DEF OutcomeInv

(* The phase advances for a response that has no outcome.                  *)
LEMMA OutcomeByAdvance ==
  ASSUME ServiceInv, OutcomeInv, NEW r \in Slots, AdvancePhase(r)
  PROVE  OutcomeInv' /\ requests[r].current \in EvaluatedIds \ advanced
<1> DEFINE c == requests[r].current
<1>1. /\ requests \in [Slots -> Request]
      /\ requests[r].pc = "advance"
      /\ requests[r].kind \in {"answer", "code"}
      /\ Undecided(requests[r])
  BY DEF ServiceInv, TypeOK, SlotInv, AdvancePhase, At, Undecided
<1>2. /\ responses' = responses
      /\ evaluations' = evaluations
      /\ advanced' = advanced \cup {c}
  BY DEF AdvancePhase, responseVars
<1>3. /\ c \in EvaluatedIds \ advanced
      /\ "followup" \notin Kinds => c \notin Parents
  BY <1>1 DEF OutcomeInv, UndecidedInv
<1>4. EvaluatedIds' = EvaluatedIds /\ Parents' = Parents /\ (OnlyChildren => OnlyChildren')
  BY <1>2 DEF EvaluatedIds, Parents, OnlyChildren
<1>5. requests[r] \in Request
  BY <1>1
<1>6. PICK q : requests' = [requests EXCEPT ![r] = q] /\ ~Undecided(q)
  <2>1. ~Undecided(NoRequest)
    BY DEF NoRequest, Undecided
  <2>2. \A pc, x : LET new == [requests[r] EXCEPT !.pc = pc, !.row = x]
                   IN  new.pc = pc /\ new.kind = requests[r].kind
    BY <1>5 DEF Request
  <2>3. \A x : LET new == [requests[r] EXCEPT !.pc = "finish", !.row = x]
               IN  ~Undecided(new)
    BY <2>2 DEF Undecided
  <2>4. \A x : LET new == [requests[r] EXCEPT !.pc = "summary", !.row = x]
               IN  ~Undecided(new)
    BY <2>2 DEF Undecided
  <2>5. requests[r].kind = "code" =>
          \A x : LET new == [requests[r] EXCEPT !.pc = "reread", !.row = x]
                 IN  ~Undecided(new)
    BY <2>2 DEF Undecided
  <2>6. CASE requests[r].kind = "answer"
    BY <2>3, <2>4, <2>6 DEF AdvancePhase, Handling
  <2>7. CASE requests[r].kind = "code"
    BY <2>1, <2>5, <2>7 DEF AdvancePhase, Handling
  <2>8. QED
    BY <1>1, <2>6, <2>7
<1>7. requests'[r] = q /\ \A s \in Slots : s # r => requests'[s] = requests[s]
  BY <1>1, <1>6
<1>8. \A s \in Slots : Undecided(requests'[s]) =>
        s # r /\ Undecided(requests[s]) /\ requests'[s] = requests[s]
  BY <1>6, <1>7
<1>9. \A s \in Slots : s # r /\ Undecided(requests[s]) => requests[s].current # c
  BY <1>1 DEF OutcomeInv, UndecidedInv
<1> HIDE DEF c
<1>10. UndecidedInv'
  <2>1. \A s \in Slots : Undecided(requests'[s]) =>
          /\ requests'[s].current \in EvaluatedIds' \ advanced'
          /\ "followup" \notin Kinds => requests'[s].current \notin Parents'
    BY <1>2, <1>4, <1>8, <1>9 DEF OutcomeInv, UndecidedInv
  <2>2. \A s, t \in Slots :
          /\ Undecided(requests'[s])
          /\ Undecided(requests'[t])
          /\ requests'[s].current = requests'[t].current
          => s = t
    BY <1>8 DEF OutcomeInv, UndecidedInv
  <2>3. QED
    BY <2>1, <2>2 DEF UndecidedInv, Undecided
<1>11. QED
  BY <1>2, <1>3, <1>4, <1>10 DEF OutcomeInv, c

(* A response is followed up that has no outcome.                          *)
LEMMA OutcomeByFollowUp ==
  ASSUME ServiceInv, OutcomeInv, NEW r \in Slots, AskFollowUp(r)
  PROVE  OutcomeInv'
<1> DEFINE c == requests[r].current
           n == Len(responses)
           new == responses'[n + 1]
<1>1. /\ requests \in [Slots -> Request]
      /\ requests[r] \in Request
      /\ requests[r].pc = "ask"
      /\ requests[r].kind \in {"answer", "followup"}
      /\ requests[r].kind \in Kinds \cup {"none"}
      /\ responses \in Seq(Response)
  BY DEF ServiceInv, TypeOK, SlotInv, AskFollowUp, At
<1>2. n \in Nat /\ DOMAIN responses = 1..n
  BY <1>1, ListProperties
<1>3. /\ DOMAIN responses' = 1..(n + 1)
      /\ \A i \in 1..n : responses'[i] = responses[i]
      /\ new.parent = c
  <2> DEFINE num == requests[r].seen[c].num + 1
             phase == IF requests[r].kind = "followup" THEN "introduction"
                      ELSE PhaseOf(requests[r].row.phase)
             asked == NewResponse(num, c, phase)
  <2>1. responses' = Append(responses, asked)
    BY DEF AskFollowUp
  <2>2. asked.parent = c
    BY DEF NewResponse
  <2> HIDE DEF asked, c
  <2>3. /\ Len(responses') = n + 1
        /\ \A i \in 1..n : responses'[i] = responses[i]
        /\ responses'[n + 1] = asked
    BY <1>1, <1>2, <2>1
  <2>4. DOMAIN responses' = 1..(n + 1)
    BY <1>1, <1>2, <2>1
  <2>5. QED
    BY <2>2, <2>3, <2>4
<1>4. advanced' = advanced /\ EvaluatedIds' = EvaluatedIds
  BY DEF AskFollowUp, interviewVars, EvaluatedIds
<1>5. PICK q : /\ requests' = [requests EXCEPT ![r] = q]
               /\ ~Undecided(q)
  <2>1. requests' = [requests EXCEPT
          ![r] = [requests[r] EXCEPT !.pc = "context", !.current = Len(responses')]]
    BY <1>1 DEF AskFollowUp, Request
  <2>2. [requests[r] EXCEPT !.pc = "context", !.current = Len(responses')].pc = "context"
    BY <1>1 DEF Request
  <2>3. QED
    BY <2>1, <2>2 DEF Undecided
<1>6. \A s \in Slots : Undecided(requests'[s]) =>
        s # r /\ Undecided(requests[s]) /\ requests'[s] = requests[s]
  BY <1>1, <1>5
<1>7. "followup" \notin Kinds =>
        Undecided(requests[r]) /\ c \in EvaluatedIds \ advanced /\ c \notin Parents
  BY <1>1 DEF OutcomeInv, UndecidedInv, Undecided
<1> HIDE DEF c, n, new
<1>8. Parents' = Parents \cup {c}
  <2>1. \A i \in 1..n : i \in 1..(n + 1)
    BY <1>2
  <2>2. \A i \in 1..(n + 1) : i \in 1..n \/ i = n + 1
    BY <1>2
  <2>3. n + 1 \in 1..(n + 1)
    BY <1>2
  <2>4. QED
    BY <1>2, <1>3, <2>1, <2>2, <2>3 DEF Parents, new
<1>9. "followup" \notin Kinds => OnlyChildren'
  <2> SUFFICES ASSUME "followup" \notin Kinds,
                      NEW i \in 1..(n + 1), NEW j \in 1..(n + 1),
                      responses'[i].parent = responses'[j].parent,
                      responses'[i].parent # 0
               PROVE  i = j
    BY <1>3 DEF OnlyChildren
  <2>1. \A k \in 1..n : responses[k].parent # c
    BY <1>2, <1>7 DEF Parents
  <2>2. CASE i \in 1..n /\ j \in 1..n
    BY <1>2, <1>3, <2>2 DEF OutcomeInv, OnlyChildren
  <2>3. CASE i \in 1..n /\ j = n + 1
    BY <1>3, <2>1, <2>3 DEF new
  <2>4. CASE i = n + 1 /\ j \in 1..n
    BY <1>3, <2>1, <2>4 DEF new
  <2>5. QED
    BY <1>2, <2>2, <2>3, <2>4
<1>10. UndecidedInv'
  <2>1. "followup" \notin Kinds =>
          \A s \in Slots : s # r /\ Undecided(requests[s]) => requests[s].current # c
    BY <1>7 DEF OutcomeInv, UndecidedInv, c
  <2>2. \A s \in Slots : Undecided(requests'[s]) =>
          /\ requests'[s].current \in EvaluatedIds' \ advanced'
          /\ "followup" \notin Kinds => requests'[s].current \notin Parents'
    BY <1>4, <1>6, <1>8, <2>1 DEF OutcomeInv, UndecidedInv
  <2>3. \A s, t \in Slots :
          /\ Undecided(requests'[s])
          /\ Undecided(requests'[t])
          /\ requests'[s].current = requests'[t].current
          => s = t
    BY <1>6 DEF OutcomeInv, UndecidedInv
  <2>4. QED
    BY <2>2, <2>3 DEF UndecidedInv, Undecided
<1>11. QED
  BY <1>4, <1>7, <1>8, <1>9, <1>10 DEF OutcomeInv

(* A main question has no parent.                                          *)
LEMMA OutcomeByCreation ==
  ASSUME ServiceInv, OutcomeInv, NEW r \in Slots, CreateQuestion(r)
  PROVE  OutcomeInv'
<1> DEFINE n == Len(responses)
<1>1. requests \in [Slots -> Request] /\ responses \in Seq(Response)
  BY DEF ServiceInv, TypeOK
<1>2. n \in Nat /\ DOMAIN responses = 1..n
  BY <1>1, ListProperties
<1>3. /\ DOMAIN responses' = 1..(n + 1)
      /\ \A i \in 1..n : responses'[i] = responses[i]
      /\ responses'[n + 1].parent = 0
  <2> DEFINE asked == NewResponse(NextNumber(requests[r].seen), 0,
                                  PhaseOf(requests[r].row.phase))
  <2>1. responses' = Append(responses, asked)
    BY DEF CreateQuestion
  <2>2. asked.parent = 0
    BY DEF NewResponse
  <2> HIDE DEF asked
  <2>3. /\ Len(responses') = n + 1
        /\ \A i \in 1..n : responses'[i] = responses[i]
        /\ responses'[n + 1] = asked
    BY <1>1, <1>2, <2>1
  <2>4. DOMAIN responses' = 1..(n + 1)
    BY <1>1, <1>2, <2>1
  <2>5. QED
    BY <2>2, <2>3, <2>4
<1>4. advanced' = advanced /\ EvaluatedIds' = EvaluatedIds
  BY DEF CreateQuestion, interviewVars, EvaluatedIds
<1>5. requests' = [requests EXCEPT ![r] = NoRequest] /\ ~Undecided(NoRequest)
  BY DEF CreateQuestion, Done, NoRequest, Undecided
<1>6. \A s \in Slots : Undecided(requests'[s]) =>
        s # r /\ Undecided(requests[s]) /\ requests'[s] = requests[s]
  BY <1>1, <1>5
<1> HIDE DEF n
<1>7. \A i \in 1..(n + 1) : i \in 1..n \/ i = n + 1
  BY <1>2
<1>8. Parents' \subseteq Parents \cup {0}
  BY <1>2, <1>3, <1>7 DEF Parents
<1>9. OnlyChildren => OnlyChildren'
  BY <1>2, <1>3, <1>7 DEF OnlyChildren
<1>10. 0 \notin EvaluatedIds
  <2>1. \A i \in DOMAIN responses : i # 0
    BY <1>2
  <2>2. EvaluatedIds \subseteq DOMAIN responses
    BY DEF EvaluatedIds, ServiceInv, EvaluationsAreOfAnswers
  <2>3. QED
    BY <2>1, <2>2
<1>11. UndecidedInv'
  <2>1. \A s \in Slots : Undecided(requests'[s]) =>
          /\ requests'[s].current \in EvaluatedIds' \ advanced'
          /\ "followup" \notin Kinds => requests'[s].current \notin Parents'
    BY <1>4, <1>6, <1>8, <1>10 DEF OutcomeInv, UndecidedInv
  <2>2. \A s, t \in Slots :
          /\ Undecided(requests'[s])
          /\ Undecided(requests'[t])
          /\ requests'[s].current = requests'[t].current
          => s = t
    BY <1>6 DEF OutcomeInv, UndecidedInv
  <2>3. QED
    BY <2>1, <2>2 DEF UndecidedInv, Undecided
<1>12. advanced \cap {0} = {}
  BY <1>10 DEF OutcomeInv
<1>13. QED
  BY <1>4, <1>8, <1>9, <1>11, <1>12 DEF OutcomeInv

(* The steps that decide nothing.                                          *)

LEMMA OutcomeByDone ==
  ASSUME TypeOK, OutcomeInv, NEW r \in Slots, Done(r),
         evaluations' = evaluations, advanced' = advanced, SameParents
  PROVE  OutcomeInv'
<1>1. requests' = [requests EXCEPT ![r] = NoRequest]
  BY DEF Done
<1>2. DecidesNothing(r, NoRequest)
  BY DEF DecidesNothing, Undecided, NoRequest
<1>3. QED
  BY <1>1, <1>2, OutcomeKept

LEMMA OutcomeByGoto ==
  ASSUME ServiceInv, OutcomeInv, NEW r \in Slots, NEW pc \in Labels, Goto(r, pc),
         pc \notin {"reread", "ask", "advance"}
           \/ requests[r].kind \notin {"answer", "code"},
         evaluations' = evaluations, advanced' = advanced, SameParents
  PROVE  OutcomeInv'
<1>1. TypeOK /\ requests[r] \in Request
  BY DEF ServiceInv, TypeOK
<1>2. PICK q \in Request : /\ requests' = [requests EXCEPT ![r] = q]
                           /\ q = [requests[r] EXCEPT !.pc = pc]
  BY <1>1, GotoRequest
<1>3. q.pc = pc /\ q.kind = requests[r].kind
  BY <1>1, <1>2 DEF Request
<1>4. DecidesNothing(r, q)
  BY <1>3 DEF DecidesNothing, Undecided
<1>5. QED
  BY <1>1, <1>2, <1>4, OutcomeKept

LEMMA OutcomeByProceed ==
  ASSUME ServiceInv, OutcomeInv, NEW r \in Slots, NEW pc \in Labels, NEW current \in Nat,
         Proceed(r, pc, current), UNCHANGED storeVars,
         \/ pc \notin {"reread", "ask", "advance"}
         \/ requests[r].kind \notin {"answer", "code"}
         \/ Undecided(requests[r]) /\ current = requests[r].current
  PROVE  OutcomeInv'
<1>1. PICK q \in Request :
        /\ requests' = [requests EXCEPT ![r] = q]
        /\ q.kind = requests[r].kind
        /\ q.pc = pc
        /\ q.seen = Kept(pc)
        /\ q.current = current
  BY ProceedRequest
<1>2. DecidesNothing(r, q)
  BY <1>1 DEF DecidesNothing, Undecided
<1>3. /\ TypeOK
      /\ evaluations' = evaluations /\ advanced' = advanced /\ SameParents
  BY DEF ServiceInv, storeVars, SameParents
<1>4. QED
  BY <1>1, <1>2, <1>3, OutcomeKept

LEMMA OutcomeByRead ==
  ASSUME ServiceInv, OutcomeInv, NEW r \in Slots, ReadResponses(r)
  PROVE  OutcomeInv'
<1>1. \/ Done(r)
      \/ \E pc \in {"create", "record", "skip", "hint", "problem", "finish"} :
           \E current : Proceed(r, pc, current)
      \/ /\ requests[r].kind = "followup"
         /\ \E current : Proceed(r, "ask", current)
  BY DEF ReadResponses, ReadForQuestion, ReadForAnswer, ReadForSkip, ReadForHint,
         ReadForGenerate, ReadForRespond, ReadForFollowUp, ReadForCode,
         ReadForProblem, ReadForComplete, Handling
<1>2. TypeOK /\ UNCHANGED storeVars
  BY DEF ServiceInv, ReadResponses, ReadForQuestion, ReadForAnswer, ReadForSkip,
         ReadForHint, ReadForGenerate, ReadForRespond, ReadForFollowUp, ReadForCode,
         ReadForProblem, ReadForComplete
<1>3. evaluations' = evaluations /\ advanced' = advanced /\ SameParents
  BY <1>2 DEF storeVars, SameParents
<1>4. requests[r] \in Request
  BY <1>2 DEF TypeOK
<1>5. ASSUME NEW pc, NEW current, Proceed(r, pc, current),
             \/ pc \notin {"reread", "ask", "advance"}
             \/ requests[r].kind = "followup"
      PROVE  OutcomeInv'
  <2> DEFINE q == [requests[r] EXCEPT !.pc = pc, !.question = 0,
                                      !.seen = Kept(pc), !.current = current]
  <2>1. requests' = [requests EXCEPT ![r] = q]
    BY <1>4, <1>5 DEF Proceed, Kept
  <2>2. q.pc = pc /\ q.kind = requests[r].kind
    BY <1>4 DEF Request
  <2>3. DecidesNothing(r, q)
    BY <1>5, <2>2 DEF DecidesNothing, Undecided
  <2> HIDE DEF q
  <2>4. QED
    BY <1>2, <1>3, <2>1, <2>3, OutcomeKept
<1>6. CASE Done(r)
  BY <1>2, <1>3, <1>6, OutcomeByDone
<1>7. QED
  BY <1>1, <1>5, <1>6

(* Updates of a response keep what it follows up.                          *)
LEMMA UpdatesKeepParents ==
  ASSUME ServiceInv, NEW r \in Slots,
         \/ \E score \in AnswerScores : RecordAnswer(r, score)
         \/ SkipCurrent(r) \/ GiveHint(r) \/ StoreProblem(r)
  PROVE  SameParents /\ evaluations' = evaluations /\ advanced' = advanced
<1> DEFINE c == requests[r].current
<1>1. responses \in Seq(Response) /\ \A i \in DOMAIN responses : responses[i] \in Response
  BY ListProperties DEF ServiceInv, TypeOK
<1>2. PICK new : responses' = [responses EXCEPT ![c] = new]
                 /\ (c \in DOMAIN responses => new.parent = responses[c].parent)
  <2>1. CASE \E score \in AnswerScores : RecordAnswer(r, score)
    <3>1. PICK score \in AnswerScores : RecordAnswer(r, score)
      BY <2>1
    <3> DEFINE new == [responses[c] EXCEPT
                         !.answer = IF Handling(r, {"code"}) THEN "code" ELSE "spoken",
                         !.score = score]
    <3>2. responses' = [responses EXCEPT ![c] = new]
      BY <1>1, <3>1 DEF RecordAnswer, Response
    <3>3. c \in DOMAIN responses => new.parent = responses[c].parent
      BY <1>1 DEF Response
    <3>4. QED
      BY <3>2, <3>3
  <2>2. CASE SkipCurrent(r)
    <3> DEFINE new == [responses[c] EXCEPT !.answer = "skipped", !.score = 5]
    <3>1. responses' = [responses EXCEPT ![c] = new]
      BY <1>1, <2>2 DEF SkipCurrent, Response
    <3>2. c \in DOMAIN responses => new.parent = responses[c].parent
      BY <1>1 DEF Response
    <3>3. QED
      BY <3>1, <3>2
  <2>3. CASE GiveHint(r)
    <3> DEFINE new == [responses[c] EXCEPT !.hinted = TRUE]
    <3>1. responses' = [responses EXCEPT ![c] = new]
      BY <1>1, <2>3 DEF GiveHint, Response
    <3>2. c \in DOMAIN responses => new.parent = responses[c].parent
      BY <1>1 DEF Response
    <3>3. QED
      BY <3>1, <3>2
  <2>4. CASE StoreProblem(r)
    <3> DEFINE new == [responses[c] EXCEPT !.problem = @ + 1]
    <3>1. responses' = [responses EXCEPT ![c] = new]
      BY <1>1, <2>4 DEF StoreProblem, Response
    <3>2. c \in DOMAIN responses => new.parent = responses[c].parent
      BY <1>1 DEF Response
    <3>3. QED
      BY <3>1, <3>2
  <2>5. QED
    BY <2>1, <2>2, <2>3, <2>4
<1>3. SameParents
  BY <1>1, <1>2 DEF SameParents
<1>4. QED
  BY <1>3 DEF RecordAnswer, SkipCurrent, GiveHint, StoreProblem, interviewVars

LEMMA OutcomeByHandle ==
  ASSUME ServiceInv, OutcomeInv, NEW r \in Slots, Handle(r)
  PROVE  OutcomeInv'
<1>1. TypeOK /\ SlotInv(requests[r], responses) /\ requests[r].current \in Nat
  BY RequestFields DEF ServiceInv
<1>2. CASE RefuseCompleted(r) \/ RejectEvaluation(r) \/ RecordFollowUpContext(r)
  <2>1. Done(r) /\ responses' = responses /\ evaluations' = evaluations /\ advanced' = advanced
    BY <1>2 DEF RefuseCompleted, RejectEvaluation, RecordFollowUpContext, storeVars, interviewVars
  <2>2. QED
    BY <1>1, <2>1, OutcomeByDone DEF SameParents
<1>3. CASE LoadInterview(r)
  <2> DEFINE q == [requests[r] EXCEPT !.pc = "responses", !.row = row, !.summary = summary]
  <2>1. requests[r] \in Request
    BY <1>1 DEF TypeOK
  <2>2. requests' = [requests EXCEPT ![r] = q]
    BY <1>3, <2>1 DEF LoadInterview, Request
  <2>3. q.pc = "responses"
    BY <2>1 DEF Request
  <2>4. DecidesNothing(r, q)
    BY <2>3 DEF DecidesNothing, Undecided
  <2>5. responses' = responses /\ evaluations' = evaluations /\ advanced' = advanced
    BY <1>3 DEF LoadInterview, storeVars
  <2> HIDE DEF q
  <2>6. QED
    BY <1>1, <2>2, <2>4, <2>5, OutcomeKept DEF SameParents
<1>4. CASE ReadResponses(r)
  BY <1>4, OutcomeByRead
<1>5. CASE \E score \in AnswerScores : RecordAnswer(r, score)
  <2>1. PICK score \in AnswerScores : RecordAnswer(r, score)
    BY <1>5
  <2> DEFINE q == [requests[r] EXCEPT !.pc = "evaluation", !.score = score]
  <2>2. requests[r] \in Request
    BY <1>1 DEF TypeOK
  <2>3. requests' = [requests EXCEPT ![r] = q]
    BY <2>1, <2>2 DEF RecordAnswer, Request
  <2>4. q.pc = "evaluation"
    BY <2>2 DEF Request
  <2>5. DecidesNothing(r, q)
    BY <2>4 DEF DecidesNothing, Undecided
  <2> HIDE DEF q
  <2>6. QED
    BY <1>1, <1>5, <2>3, <2>5, UpdatesKeepParents, OutcomeKept
<1>6. CASE SkipCurrent(r)
  <2>1. Goto(r, "reread") /\ requests[r].kind = "skip"
    BY <1>1, <1>6 DEF SkipCurrent, At, SlotInv
  <2>2. SameParents /\ evaluations' = evaluations /\ advanced' = advanced
    BY <1>6, UpdatesKeepParents
  <2>3. QED
    BY <2>1, <2>2, OutcomeByGoto DEF Labels
<1>7. CASE RecordEvaluation(r) \/ AskFollowUp(r) \/ CreateQuestion(r) \/ AdvancePhase(r)
  BY <1>7, OutcomeByEvaluation, OutcomeByFollowUp, OutcomeByCreation, OutcomeByAdvance
<1>8. CASE DecideTurn(r)
  <2>1. Undecided(requests[r]) /\ UNCHANGED storeVars
    BY <1>8 DEF DecideTurn, At, Handling, Undecided
  <2>2. \E pc \in {"ask", "advance", "summary"} : Proceed(r, pc, requests[r].current)
    BY <1>8 DEF DecideTurn
  <2>3. QED
    BY <1>1, <2>1, <2>2, OutcomeByProceed DEF Labels
<1>9. CASE RereadAfterSkip(r)
  BY <1>1, <1>9, OutcomeByProceed DEF RereadAfterSkip, Labels
<1>10. CASE RereadAfterCode(r)
  BY <1>1, <1>10, OutcomeByProceed DEF RereadAfterCode, Labels
<1>11. CASE GiveHint(r) \/ StoreProblem(r)
  <2>1. Done(r)
    BY <1>11 DEF GiveHint, StoreProblem
  <2>2. QED
    BY <1>1, <1>11, <2>1, UpdatesKeepParents, OutcomeByDone
<1>12. CASE UpdateSummary(r) \/ CompleteInterview(r)
  <2>1. /\ Goto(r, "create") \/ Goto(r, "fire")
        /\ responses' = responses /\ evaluations' = evaluations /\ advanced' = advanced
    BY <1>12 DEF UpdateSummary, CompleteInterview, responseVars
  <2>2. QED
    BY <2>1, OutcomeByGoto DEF Labels, SameParents
<1>13. CASE FireInterviewCompleted(r)
  <2>1. Done(r) /\ responses' = responses /\ evaluations' = evaluations /\ advanced' = advanced
    BY <1>13 DEF FireInterviewCompleted, responseVars
  <2>2. QED
    BY <1>1, <2>1, OutcomeByDone DEF SameParents
<1>14. QED
  BY <1>2, <1>3, <1>4, <1>5, <1>6, <1>7, <1>8, <1>9, <1>10, <1>11, <1>12, <1>13 DEF Handle

LEMMA OutcomeInvInit == Init => OutcomeInv
<1> SUFFICES ASSUME Init PROVE OutcomeInv
  OBVIOUS
<1>1. \A r \in Slots : ~Undecided(requests[r])
  BY DEF Init, Undecided, NoRequest
<1>2. Parents = {} /\ OnlyChildren
  BY DEF Init, Parents, OnlyChildren
<1>3. advanced = {}
  BY DEF Init
<1>4. QED
  BY <1>1, <1>2, <1>3 DEF OutcomeInv, UndecidedInv

LEMMA OutcomeInvStep == ServiceInv /\ OutcomeInv /\ [Next]_vars => OutcomeInv'
<1> SUFFICES ASSUME ServiceInv, OutcomeInv, [Next]_vars PROVE OutcomeInv'
  OBVIOUS
<1>1. TypeOK
  BY DEF ServiceInv
<1>2. ASSUME NEW r \in Slots, NEW kind \in Kinds,
             NEW question \in Named(kind), Begin(r, kind, question)
      PROVE  OutcomeInv'
  <2> DEFINE q == [NoRequest EXCEPT !.kind = kind, !.pc = "load", !.question = question]
  <2>1. requests' = [requests EXCEPT ![r] = q]
    BY <1>2 DEF Begin
  <2>2. q.pc = "load"
    BY DEF NoRequest
  <2>3. DecidesNothing(r, q)
    BY <2>2 DEF DecidesNothing, Undecided
  <2>4. responses' = responses /\ evaluations' = evaluations /\ advanced' = advanced
    BY <1>2 DEF Begin, storeVars
  <2> HIDE DEF q
  <2>5. QED
    BY <1>1, <2>1, <2>3, <2>4, OutcomeKept DEF SameParents
<1>3. ASSUME NEW r \in Slots, Handle(r)
      PROVE  OutcomeInv'
  BY <1>3, OutcomeByHandle
<1>4. ASSUME NEW r \in Slots, ModelFails(r)
      PROVE  OutcomeInv'
  <2>1. Done(r) /\ responses' = responses /\ evaluations' = evaluations /\ advanced' = advanced
    BY <1>4 DEF ModelFails, storeVars
  <2>2. QED
    BY <1>1, <2>1, OutcomeByDone DEF SameParents
<1>5. CASE Crash
  <2>1. \A r \in Slots : ~Undecided(requests'[r])
    BY <1>5 DEF Crash, Undecided, NoRequest
  <2>2. /\ EvaluatedIds' = EvaluatedIds
        /\ Parents' = Parents
        /\ OnlyChildren' <=> OnlyChildren
        /\ advanced' = advanced
    BY <1>5 DEF Crash, storeVars, EvaluatedIds, Parents, OnlyChildren
  <2>3. UndecidedInv'
    BY <2>1 DEF UndecidedInv, Undecided
  <2>4. QED
    BY <2>2, <2>3 DEF OutcomeInv
<1>6. CASE UNCHANGED vars
  BY <1>6 DEF vars, OutcomeInv, UndecidedInv, Undecided, EvaluatedIds, Parents, OnlyChildren
<1>7. QED
  BY <1>2, <1>3, <1>4, <1>5, <1>6 DEF Next

(* A voice or code answer is followed up once or advances the phase, never *)
(* both and never twice, however many submissions of it overlap.           *)
THEOREM OneOutcome == Spec => []OneOutcomePerAnswer
<1>1. ServiceInv /\ OutcomeInv => OneOutcomePerAnswer
  BY OutcomeInvImplies
<1>2. QED
  BY <1>1, ServiceInvInit, ServiceInvStep, OutcomeInvInit, OutcomeInvStep, PTL DEF Spec

(* The phase advances for a stored evaluation and once for each.           *)
THEOREM AdvancesOnce == Spec => OneAdvancePerEvaluation
<1> DEFINE Once == \A r \in Slots : AdvancePhase(r) =>
                     /\ Evaluated(requests[r].current)
                     /\ requests[r].current \notin advanced
<1>1. ServiceInv /\ OutcomeInv /\ [Next]_vars => [Once]_vars
  <2> SUFFICES ASSUME ServiceInv, OutcomeInv, NEW r \in Slots, AdvancePhase(r)
               PROVE  /\ Evaluated(requests[r].current)
                      /\ requests[r].current \notin advanced
    OBVIOUS
  <2>1. requests[r].current \in EvaluatedIds \ advanced
    BY OutcomeByAdvance
  <2>2. QED
    BY <2>1 DEF EvaluatedIds, Evaluated
<1>2. QED
  BY <1>1, ServiceInvInit, ServiceInvStep, OutcomeInvInit, OutcomeInvStep, PTL
     DEF Spec, OneAdvancePerEvaluation

-----------------------------------------------------------------------------
(* Roots: what ResolveRoot returns.  It is a recursive function, so what   *)
(* is known of it is that it satisfies its equation if any function does.  *)

IsRootOf(f, list) ==
  f = [i \in DOMAIN list |->
         IF list[i].parent \in DOMAIN list THEN f[list[i].parent] ELSE i]

ParentsOlder(list) ==
  \A i \in DOMAIN list : list[i].parent # 0 =>
    list[i].parent \in DOMAIN list /\ list[i].parent < i

LEMMA RootsByExistence ==
  ASSUME NEW list, NEW f, IsRootOf(f, list)
  PROVE  IsRootOf(ResolveRoot(list), list)
BY Zenon DEF IsRootOf, ResolveRoot

LEMMA ListHasOlderParents ==
  ASSUME NEW list \in Seq(Response), ListInv(list)
  PROVE  ParentsOlder(list)
BY ListProperties DEF ListInv, ParentsOlder

(* Two such functions agree: the least response on which they differ would *)
(* have a parent on which they differ.                                     *)
LEMMA RootsUnique ==
  ASSUME NEW list \in Seq(Response), ParentsOlder(list),
         NEW f, IsRootOf(f, list), NEW g, IsRootOf(g, list)
  PROVE  f = g
<1> DEFINE T == {i \in DOMAIN list : f[i] # g[i]}
<1>1. /\ f = [i \in DOMAIN list |-> f[i]] /\ g = [i \in DOMAIN list |-> g[i]]
      /\ \A i \in DOMAIN list :
           /\ f[i] = IF list[i].parent \in DOMAIN list THEN f[list[i].parent] ELSE i
           /\ g[i] = IF list[i].parent \in DOMAIN list THEN g[list[i].parent] ELSE i
  BY DEF IsRootOf
<1>2. ASSUME T # {}
      PROVE  FALSE
  <2>1. T \subseteq Nat
    BY ListProperties
  <2>2. PICK m \in T : \A x \in T : m <= x
    BY <1>2, <2>1, MinimumExists
  <2>3. m \in Nat /\ m \in DOMAIN list
    BY <2>1
  <2>4. list[m].parent \in DOMAIN list
    BY <1>1, <2>2
  <2>5. list[m].parent \in Nat /\ list[m].parent < m
    BY <2>3, <2>4, ListProperties DEF ParentsOlder
  <2>6. list[m].parent \in T
    BY <1>1, <2>2, <2>4
  <2> QED
    BY <2>2, <2>3, <2>5, <2>6
<1> QED
  BY <1>1, <1>2

RootsOK(list) == IsRootOf(ResolveRoot(list), list)

(* A root is no younger than the responses below it.                       *)
LEMMA RootsOlder ==
  ASSUME NEW list \in Seq(Response), ParentsOlder(list), RootsOK(list)
  PROVE  \A i \in DOMAIN list :
           ResolveRoot(list)[i] \in DOMAIN list /\ ResolveRoot(list)[i] <= i
<1> DEFINE R == ResolveRoot(list)
           T == {i \in DOMAIN list : ~(R[i] \in DOMAIN list /\ R[i] <= i)}
<1>1. \A i \in DOMAIN list :
        R[i] = IF list[i].parent \in DOMAIN list THEN R[list[i].parent] ELSE i
  BY DEF IsRootOf, RootsOK
<1> HIDE DEF R
<1>2. ASSUME T # {}
      PROVE  FALSE
  <2>1. T \subseteq Nat
    BY ListProperties
  <2>2. PICK m \in T : \A x \in T : m <= x
    BY <1>2, <2>1, MinimumExists
  <2>3. m \in Nat /\ m \in DOMAIN list
    BY <2>1
  <2>4. list[m].parent \in DOMAIN list
    BY <1>1, <2>2, <2>3
  <2>5. list[m].parent \in Nat /\ list[m].parent < m
    BY <2>3, <2>4, ListProperties DEF ParentsOlder
  <2>6. R[m] = R[list[m].parent]
    BY <1>1, <2>3, <2>4
  <2>7. list[m].parent \notin T
    BY <2>2, <2>3, <2>5
  <2>8. R[m] \in DOMAIN list /\ R[m] <= list[m].parent /\ R[m] \in Nat
    BY <2>4, <2>6, <2>7, ListProperties
  <2> QED
    BY <2>2, <2>3, <2>5, <2>8
<1> QED
  BY <1>2 DEF R

(* Roots depend on the parents alone.                                      *)
LEMMA RootsOfUpdate ==
  ASSUME NEW list, NEW list2, RootsOK(list),
         list2 \in Seq(Response), ParentsOlder(list2),
         DOMAIN list2 = DOMAIN list,
         \A i \in DOMAIN list : list2[i].parent = list[i].parent
  PROVE  RootsOK(list2) /\ ResolveRoot(list2) = ResolveRoot(list)
<1>1. IsRootOf(ResolveRoot(list), list2)
  BY DEF IsRootOf, RootsOK
<1>2. IsRootOf(ResolveRoot(list2), list2)
  BY <1>1, RootsByExistence
<1> QED
  BY <1>1, <1>2, RootsUnique DEF RootsOK

(* A new response has the root of its parent, or is one.                   *)
LEMMA RootsOfAppend ==
  ASSUME NEW list \in Seq(Response), NEW list2 \in Seq(Response),
         ParentsOlder(list), ParentsOlder(list2), RootsOK(list),
         Len(list2) = Len(list) + 1,
         \A i \in DOMAIN list : list2[i] = list[i]
  PROVE  LET n == Len(list) + 1
             p == list2[n].parent
             R == ResolveRoot(list)
             R2 == ResolveRoot(list2)
         IN  /\ RootsOK(list2)
             /\ \A i \in DOMAIN list : R2[i] = R[i]
             /\ R2[n] = IF p = 0 THEN n ELSE R[p]
<1> DEFINE n == Len(list) + 1
           p == list2[n].parent
           R == ResolveRoot(list)
           g == [i \in DOMAIN list2 |->
                   IF i \in DOMAIN list THEN R[i] ELSE IF p = 0 THEN n ELSE R[p]]
<1>1. /\ DOMAIN list = 1..Len(list) /\ Len(list) \in Nat
      /\ DOMAIN list2 = 1..n
      /\ \A i \in DOMAIN list2 : list2[i].parent \in Nat
  BY ListProperties
<1>2. \A i \in DOMAIN list :
        R[i] = IF list[i].parent \in DOMAIN list THEN R[list[i].parent] ELSE i
  BY DEF IsRootOf, RootsOK
<1>3. /\ DOMAIN list2 = DOMAIN list \cup {n} /\ n \notin DOMAIN list
      /\ n \in Nat /\ 0 \notin DOMAIN list2
  BY <1>1
<1>4. \A i \in DOMAIN list : list2[i].parent = list[i].parent /\ i < n
  BY <1>1
<1>5. \A i \in DOMAIN list2 : list2[i].parent # 0 => list2[i].parent \in DOMAIN list
  <2> SUFFICES ASSUME NEW i \in DOMAIN list2, list2[i].parent # 0
               PROVE  list2[i].parent \in DOMAIN list
    OBVIOUS
  <2>1. list2[i].parent \in DOMAIN list2 /\ list2[i].parent < i
    BY DEF ParentsOlder
  <2>2. i <= n /\ i \in Nat /\ list2[i].parent \in Nat
    BY <1>1
  <2>3. list2[i].parent # n
    BY <1>3, <2>1, <2>2
  <2> QED
    BY <1>3, <2>1, <2>3
<1> HIDE DEF n, R
<1>6. IsRootOf(g, list2)
  <2> SUFFICES ASSUME NEW i \in DOMAIN list2
               PROVE  g[i] = IF list2[i].parent \in DOMAIN list2
                             THEN g[list2[i].parent] ELSE i
    BY DEF IsRootOf
  <2>1. CASE i \in DOMAIN list
    <3>1. g[i] = R[i]
      BY <2>1
    <3>2. list2[i].parent = list[i].parent
      BY <1>4, <2>1
    <3>3. CASE list[i].parent = 0
      BY <1>2, <1>3, <2>1, <3>1, <3>2, <3>3
    <3>4. CASE list[i].parent # 0
      <4>1. list[i].parent \in DOMAIN list /\ list[i].parent \in DOMAIN list2
        BY <1>3, <1>5, <3>2, <3>4
      <4>2. g[list[i].parent] = R[list[i].parent]
        BY <4>1
      <4> QED
        BY <1>2, <2>1, <3>1, <3>2, <4>1, <4>2
    <3> QED
      BY <3>3, <3>4
  <2>2. CASE i = n
    <3>1. g[i] = IF p = 0 THEN n ELSE R[p]
      BY <1>3, <2>2
    <3>2. CASE p = 0
      BY <1>3, <2>2, <3>1, <3>2
    <3>3. CASE p # 0
      <4>1. p \in DOMAIN list /\ p \in DOMAIN list2
        BY <1>3, <1>5, <2>2, <3>3
      <4>2. g[p] = R[p]
        BY <4>1
      <4> QED
        BY <2>2, <3>1, <3>3, <4>1, <4>2
    <3> QED
      BY <3>2, <3>3
  <2> QED
    BY <1>3, <2>1, <2>2
<1>7. IsRootOf(ResolveRoot(list2), list2)
  BY <1>6, RootsByExistence
<1>8. ResolveRoot(list2) = g
  BY <1>6, <1>7, RootsUnique
<1>9. \A i \in DOMAIN list : g[i] = R[i]
  BY <1>3
<1>10. g[n] = IF p = 0 THEN n ELSE R[p]
  BY <1>3
<1> HIDE DEF g, p
<1> QED
  BY <1>7, <1>8, <1>9, <1>10 DEF RootsOK, R, n, p

(* If no answer is followed up twice, a family of responses has one        *)
(* youngest member only: every other one is followed up.                   *)
LEMMA FamiliesAreChains ==
  ASSUME NEW list \in Seq(Response), ParentsOlder(list), RootsOK(list),
         \A i, j \in DOMAIN list :
           list[i].parent = list[j].parent /\ list[i].parent # 0 => i = j,
         NEW i \in DOMAIN list, NEW j \in DOMAIN list, i < j,
         ResolveRoot(list)[i] = ResolveRoot(list)[j]
  PROVE  \E k \in DOMAIN list : list[k].parent = i
<1> DEFINE R == ResolveRoot(list)
           Follows(x, y) == \E k \in DOMAIN list : k <= y /\ list[k].parent = x
           T == {y \in DOMAIN list :
                   \E x \in DOMAIN list : x < y /\ R[x] = R[y] /\ ~Follows(x, y)}
<1>1. \A x \in DOMAIN list :
        R[x] = IF list[x].parent \in DOMAIN list THEN R[list[x].parent] ELSE x
  BY DEF IsRootOf, RootsOK
<1>2. \A x \in DOMAIN list : R[x] \in Nat /\ R[x] <= x /\ x \in Nat
  BY RootsOlder, ListProperties
<1> HIDE DEF R
<1>3. ASSUME T # {}
      PROVE  FALSE
  <2>1. T \subseteq Nat
    BY <1>2
  <2>2. PICK m \in T : \A y \in T : m <= y
    BY <1>3, <2>1, MinimumExists
  <2>3. m \in DOMAIN list /\ m \in Nat
    BY <1>2
  <2>4. PICK x \in DOMAIN list : x < m /\ R[x] = R[m] /\ ~Follows(x, m)
    OBVIOUS
  <2> DEFINE p == list[m].parent
  <2>5. p \in DOMAIN list /\ p # 0 /\ R[m] = R[p]
    <3>1. ASSUME p \notin DOMAIN list PROVE FALSE
      <4>1. R[m] = m
        BY <1>1, <2>3, <3>1
      <4> QED
        BY <1>2, <2>3, <2>4, <4>1
    <3>2. 0 \notin DOMAIN list
      BY ListProperties
    <3> QED
      BY <1>1, <2>3, <3>1, <3>2
  <2>6. p < m /\ p \in Nat
    BY <1>2, <2>3, <2>5 DEF ParentsOlder
  <2>7. p # x
    BY <2>3, <2>4
  <2>8. CASE x < p
    <3>1. p \notin T
      BY <2>2, <2>3, <2>6
    <3>2. Follows(x, p)
      BY <2>4, <2>5, <2>8, <3>1
    <3>3. Follows(x, m)
      BY <1>2, <2>3, <2>6, <3>2
    <3> QED
      BY <2>4, <3>3
  <2>9. CASE p < x
    <3>1. x \notin T /\ x \in Nat
      BY <1>2, <2>2, <2>3, <2>4
    <3>2. Follows(p, x)
      BY <2>4, <2>5, <2>9, <3>1
    <3>3. PICK k \in DOMAIN list : k <= x /\ list[k].parent = p
      BY <3>2
    <3>4. k = m
      BY <2>3, <2>5, <3>3
    <3> QED
      BY <2>3, <2>4, <3>1, <3>3, <3>4
  <2> QED
    BY <1>2, <2>4, <2>6, <2>7, <2>8, <2>9
<1>4. Follows(i, j)
  BY <1>3 DEF R
<1> QED
  BY <1>4

-----------------------------------------------------------------------------
(* Counting the follow-ups below a main question.                          *)

FollowUpsBelow(list, main) ==
  {i \in DOMAIN list : list[i].parent # 0 /\ ResolveRoot(list)[i] = main}

LEMMA CountIsCardinality ==
  \A list, main :
    CountFollowUpsForRoot(list, main) = Cardinality(FollowUpsBelow(list, main))
BY DEF CountFollowUpsForRoot, FollowUpsBelow

LEMMA FollowUpsFinite ==
  ASSUME NEW list \in Seq(Response), NEW main
  PROVE  /\ IsFiniteSet(FollowUpsBelow(list, main))
         /\ CountFollowUpsForRoot(list, main) \in Nat
<1>1. IsFiniteSet(1..Len(list))
  <2>1. Len(list) \in Int /\ 1 \in Int
    BY ListProperties
  <2> QED
    BY <2>1, FS_Interval
<1>2. FollowUpsBelow(list, main) \subseteq 1..Len(list)
  BY ListProperties DEF FollowUpsBelow
<1> QED
  BY <1>1, <1>2, FS_Subset, FS_CardinalityType, CountIsCardinality

(* A new main question changes no count and has none; a new follow-up      *)
(* counts for the root of its parent.                                      *)
LEMMA CountAfterAppend ==
  ASSUME NEW list \in Seq(Response), NEW list2 \in Seq(Response),
         ParentsOlder(list), ParentsOlder(list2), RootsOK(list),
         Len(list2) = Len(list) + 1,
         \A i \in DOMAIN list : list2[i] = list[i],
         NEW main
  PROVE  LET p == list2[Len(list) + 1].parent
         IN  CountFollowUpsForRoot(list2, main) =
               CountFollowUpsForRoot(list, main) +
                 IF p # 0 /\ ResolveRoot(list)[p] = main THEN 1 ELSE 0
<1> DEFINE n == Len(list) + 1
           p == list2[n].parent
           R == ResolveRoot(list)
           R2 == ResolveRoot(list2)
           A == FollowUpsBelow(list, main)
           A2 == FollowUpsBelow(list2, main)
<1>1. /\ \A i \in DOMAIN list : R2[i] = R[i]
      /\ R2[n] = IF p = 0 THEN n ELSE R[p]
  BY RootsOfAppend
<1>2. /\ DOMAIN list = 1..Len(list) /\ Len(list) \in Nat
      /\ DOMAIN list2 = 1..n
  BY ListProperties
<1>3. DOMAIN list2 = DOMAIN list \cup {n} /\ n \notin DOMAIN list
  BY <1>2
<1>4. IsFiniteSet(A) /\ Cardinality(A) \in Nat
  BY FollowUpsFinite, FS_CardinalityType
<1>5. n \notin A
  BY <1>3 DEF FollowUpsBelow
<1>6. CASE p # 0 /\ R[p] = main
  <2>1. A2 = A \cup {n}
    BY <1>1, <1>3, <1>6 DEF FollowUpsBelow
  <2> HIDE DEF A, A2, n
  <2>2. Cardinality(A \cup {n}) = Cardinality(A) + 1
    BY <1>4, <1>5, FS_AddElement
  <2> QED
    BY <1>6, <2>1, <2>2, CountIsCardinality DEF A, A2, n
<1>7. CASE ~(p # 0 /\ R[p] = main)
  <2>1. A2 = A
    BY <1>1, <1>3, <1>7 DEF FollowUpsBelow
  <2>2. Cardinality(A2) = Cardinality(A) + 0
    BY <1>4, <2>1
  <2> QED
    BY <1>7, <2>2, CountIsCardinality
<1> QED
  BY <1>6, <1>7

LEMMA CountAfterUpdate ==
  ASSUME NEW list, NEW list2, ResolveRoot(list2) = ResolveRoot(list),
         DOMAIN list2 = DOMAIN list,
         \A i \in DOMAIN list : list2[i].parent = list[i].parent
  PROVE  \A main : CountFollowUpsForRoot(list2, main) = CountFollowUpsForRoot(list, main)
<1>1. \A main : FollowUpsBelow(list2, main) = FollowUpsBelow(list, main)
  BY DEF FollowUpsBelow
<1> QED
  BY <1>1, CountIsCardinality

-----------------------------------------------------------------------------
(* The cap.  A request that has decided to follow up still finds room for  *)
(* its follow-up when it stores it.                                        *)

CountFor(main) == CountFollowUpsForRoot(responses, main)
RootOf(i) == ResolveRoot(responses)[i]

CapInv ==
  /\ RootsOK(responses)
  /\ "followup" \notin Kinds =>
       /\ FollowUpsCapped
       /\ \A r \in Slots : requests[r].pc = "ask" =>
            CountFor(RootOf(requests[r].current)) < MaxFollowUps

(* The question it is about to follow up belongs to a main question with   *)
(* fewer follow-ups than the cap.                                          *)
HasRoom(r) ==
  /\ requests'[r].current \in DOMAIN responses
  /\ CountFor(RootOf(requests'[r].current)) < MaxFollowUps

StillAsks(r) ==
  /\ requests[r].pc = "ask"
  /\ requests'[r].current = requests[r].current

(* DecideTurn alone leads to asking, and it has looked for room.           *)
LEMMA AskIsDecided ==
  ASSUME ServiceInv, [Next]_vars, "followup" \notin Kinds,
         NEW s \in Slots, requests'[s].pc = "ask"
  PROVE  StillAsks(s) \/ HasRoom(s)
<1>1. requests \in [Slots -> Request] /\ TypeOK
  BY DEF ServiceInv, TypeOK
<1>2. CASE requests'[s] = requests[s]
  BY <1>2 DEF StillAsks
<1>3. ASSUME Handle(s)
      PROVE  StillAsks(s) \/ HasRoom(s)
  <2>1. /\ SlotInv(requests[s], responses) /\ requests[s] \in Request
        /\ requests[s].kind # "followup"
    BY <1>1 DEF ServiceInv, SlotInv
  <2>2. ~Done(s)
    BY <1>1 DEF Done, NoRequest
  <2>3. \A pc : Goto(s, pc) => requests'[s].pc = pc
    BY <1>1, <2>1 DEF Goto, Request
  <2>4. \A pc, c : Proceed(s, pc, c) =>
          requests'[s].pc = pc /\ requests'[s].current = c
    BY <1>1, <2>1 DEF Proceed, Request
  <2>5. ~ReadResponses(s)
    <3>1. ~(\/ ReadForQuestion(s) \/ ReadForAnswer(s) \/ ReadForSkip(s)
            \/ ReadForHint(s) \/ ReadForGenerate(s))
      BY <2>2, <2>4 DEF ReadForQuestion, ReadForAnswer, ReadForSkip,
         ReadForHint, ReadForGenerate
    <3>2. ~(\/ ReadForRespond(s) \/ ReadForFollowUp(s) \/ ReadForCode(s)
            \/ ReadForProblem(s) \/ ReadForComplete(s))
      BY <2>1, <2>2, <2>4 DEF ReadForRespond, ReadForFollowUp, ReadForCode,
         ReadForProblem, ReadForComplete, Handling
    <3> QED
      BY <3>1, <3>2 DEF ReadResponses
  <2>6. CASE DecideTurn(s)
    <3> DEFINE c == requests[s].current
    <3>1. c \in DOMAIN responses
      BY <2>1, <2>6 DEF DecideTurn, At, SlotInv, Working
    <3>2. FollowUpDue(responses, c, requests[s].score) /\ Proceed(s, "ask", c)
      BY <2>4, <2>6 DEF DecideTurn
    <3>3. requests'[s].current = c
      BY <2>4, <3>2
    <3>4. CountFor(RootOf(c)) < MaxFollowUps
      BY <3>2 DEF FollowUpDue, CountFor, RootOf
    <3> QED
      BY <3>1, <3>3, <3>4 DEF HasRoom
  <2>7. ~(\E score \in AnswerScores : RecordAnswer(s, score)) /\ ~LoadInterview(s)
    BY <1>1, <2>1 DEF RecordAnswer, LoadInterview, Request
  <2>8. ~RecordEvaluation(s)
    <3> SUFFICES ASSUME RecordEvaluation(s) PROVE FALSE
      OBVIOUS
    <3>1. requests[s].kind \in {"answer", "code", "respond"}
      BY <2>1 DEF RecordEvaluation, At, SlotInv
    <3>2. Goto(s, "reread") \/ Goto(s, "advance") \/ Done(s)
      BY <3>1 DEF RecordEvaluation
    <3> QED
      BY <2>2, <2>3, <3>2
  <2>9. ~(\/ RefuseCompleted(s) \/ RejectEvaluation(s) \/ SkipCurrent(s)
          \/ RereadAfterSkip(s) \/ RecordFollowUpContext(s)
          \/ CreateQuestion(s) \/ GiveHint(s) \/ StoreProblem(s)
          \/ RereadAfterCode(s) \/ UpdateSummary(s)
          \/ CompleteInterview(s) \/ FireInterviewCompleted(s))
    BY <2>2, <2>3, <2>4 DEF RefuseCompleted, RejectEvaluation, SkipCurrent,
       RereadAfterSkip, RecordFollowUpContext, CreateQuestion, GiveHint,
       StoreProblem, RereadAfterCode, UpdateSummary, CompleteInterview,
       FireInterviewCompleted
  <2>10. ~AskFollowUp(s)
    BY <1>1, <2>1 DEF AskFollowUp, Request
  <2>11. ~AdvancePhase(s)
    <3> SUFFICES ASSUME AdvancePhase(s) PROVE FALSE
      OBVIOUS
    <3>1. requests[s].kind \in {"answer", "code"}
      BY <2>1 DEF AdvancePhase, At, SlotInv
    <3>2. requests'[s].pc \in {"finish", "summary", "reread", "idle"}
      BY <1>1, <2>1, <3>1 DEF AdvancePhase, Handling, Request, NoRequest
    <3> QED
      BY <3>2
  <2> QED
    BY <1>3, <2>5, <2>6, <2>7, <2>8, <2>9, <2>10, <2>11 DEF Handle
<1>4. ASSUME NEW r \in Slots, Handle(r)
      PROVE  StillAsks(s) \/ HasRoom(s)
  <2>1. CASE r = s
    BY <1>3, <1>4, <2>1
  <2>2. CASE r # s
    BY <1>1, <1>2, <1>4, <2>2, HandleChangesOne
  <2> QED
    BY <2>1, <2>2
<1>5. ASSUME NEW r \in Slots, NEW kind \in Kinds,
             NEW question \in Named(kind), Begin(r, kind, question)
      PROVE  StillAsks(s) \/ HasRoom(s)
  BY <1>1, <1>2, <1>5 DEF Begin, NoRequest
<1>6. ASSUME NEW r \in Slots, ModelFails(r)
      PROVE  StillAsks(s) \/ HasRoom(s)
  BY <1>1, <1>2, <1>6 DEF ModelFails, Done, NoRequest
<1>7. CASE Crash
  BY <1>7 DEF Crash, NoRequest
<1>8. CASE UNCHANGED vars
  BY <1>2, <1>8 DEF vars
<1> QED
  BY <1>4, <1>5, <1>6, <1>7, <1>8 DEF Next

(* Who asks after a step had room for the follow-up before it.             *)
LEMMA AskersHaveRoom ==
  ASSUME ServiceInv, CapInv, [Next]_vars, "followup" \notin Kinds,
         NEW s \in Slots, requests'[s].pc = "ask"
  PROVE  HasRoom(s)
<1>1. CASE StillAsks(s)
  <2>1. requests[s].current \in DOMAIN responses
    BY <1>1 DEF StillAsks, ServiceInv, SlotInv, Working
  <2> QED
    BY <1>1, <2>1 DEF StillAsks, CapInv, HasRoom
<1> QED
  BY <1>1, AskIsDecided

LEMMA ListSteps ==
  ASSUME ServiceInv, [Next]_vars
  PROVE  \/ SameParents
         \/ \E r \in Slots : AskFollowUp(r) \/ CreateQuestion(r)
<1>1. ASSUME NEW r \in Slots, Handle(r)
      PROVE  SameParents \/ AskFollowUp(r) \/ CreateQuestion(r)
  <2>1. CASE \/ \E score \in AnswerScores : RecordAnswer(r, score)
             \/ SkipCurrent(r) \/ GiveHint(r) \/ StoreProblem(r)
    BY <2>1, UpdatesKeepParents
  <2>2. CASE ReadResponses(r)
    BY <2>2 DEF SameParents, storeVars, ReadResponses, ReadForQuestion, ReadForAnswer,
       ReadForSkip, ReadForHint, ReadForGenerate, ReadForRespond,
       ReadForFollowUp, ReadForCode, ReadForProblem, ReadForComplete
  <2>3. CASE \/ RefuseCompleted(r) \/ LoadInterview(r) \/ RecordEvaluation(r)
             \/ RejectEvaluation(r) \/ DecideTurn(r) \/ RereadAfterSkip(r)
             \/ RecordFollowUpContext(r) \/ AdvancePhase(r)
             \/ RereadAfterCode(r) \/ UpdateSummary(r) \/ CompleteInterview(r)
             \/ FireInterviewCompleted(r)
    <3>1. responses' = responses
      BY <2>3 DEF storeVars, responseVars, RefuseCompleted,
         LoadInterview, RecordEvaluation, RejectEvaluation, DecideTurn,
         RereadAfterSkip, RecordFollowUpContext, AdvancePhase,
         RereadAfterCode, UpdateSummary, CompleteInterview,
         FireInterviewCompleted
    <3> QED
      BY <3>1 DEF SameParents
  <2> QED
    BY <1>1, <2>1, <2>2, <2>3 DEF Handle
<1>2. CASE \/ \E r \in Slots, kind \in Kinds :
                \E question \in Named(kind) : Begin(r, kind, question)
           \/ \E r \in Slots : ModelFails(r)
           \/ Crash
           \/ UNCHANGED vars
  <2>1. responses' = responses
    BY <1>2 DEF Begin, ModelFails, Crash, storeVars, vars
  <2> QED
    BY <2>1 DEF SameParents
<1> QED
  BY <1>1, <1>2 DEF Next

LEMMA CapByUpdate ==
  ASSUME ServiceInv, CapInv, [Next]_vars, SameParents
  PROVE  CapInv'
<1>1. ServiceInv'
  BY ServiceInvStep
<1>2. responses' \in Seq(Response) /\ ParentsOlder(responses')
  BY <1>1, ListHasOlderParents DEF ServiceInv, TypeOK
<1>3. RootsOK(responses') /\ ResolveRoot(responses') = ResolveRoot(responses)
  BY <1>2, RootsOfUpdate DEF SameParents, CapInv
<1>4. \A main : CountFollowUpsForRoot(responses', main) = CountFor(main)
  BY <1>3, CountAfterUpdate DEF SameParents, CountFor
<1>5. FollowUpsCapped => FollowUpsCapped'
  BY <1>4 DEF FollowUpsCapped, SameParents, CountFor
<1>6. ASSUME "followup" \notin Kinds, NEW s \in Slots, requests'[s].pc = "ask"
      PROVE  CountFollowUpsForRoot(responses',
               ResolveRoot(responses')[requests'[s].current]) < MaxFollowUps
  BY <1>3, <1>4, <1>6, AskersHaveRoom DEF HasRoom, RootOf
<1> QED
  BY <1>3, <1>5, <1>6 DEF CapInv, CountFor, RootOf

(* A new question: a main one, or a follow-up for which there is room and  *)
(* of whose family nobody else is about to ask.                            *)
LEMMA CapByAppend ==
  ASSUME ServiceInv, CapInv, [Next]_vars,
         Len(responses') = Len(responses) + 1,
         \A i \in DOMAIN responses : responses'[i] = responses[i],
         NEW p, p = responses'[Len(responses) + 1].parent,
         "followup" \notin Kinds /\ p # 0 =>
           /\ p \in DOMAIN responses
           /\ CountFor(RootOf(p)) < MaxFollowUps
           /\ \A s \in Slots : requests'[s].pc = "ask" =>
                RootOf(requests'[s].current) # RootOf(p)
  PROVE  CapInv'
<1> DEFINE n == Len(responses) + 1
           one(main) == IF p # 0 /\ RootOf(p) = main THEN 1 ELSE 0
<1>1. /\ responses \in Seq(Response) /\ ParentsOlder(responses)
      /\ responses' \in Seq(Response) /\ ParentsOlder(responses')
  BY ServiceInvStep, ListHasOlderParents DEF ServiceInv, TypeOK
<1>2. RootsOK(responses)
  BY DEF CapInv
<1>3. /\ RootsOK(responses')
      /\ \A i \in DOMAIN responses : ResolveRoot(responses')[i] = RootOf(i)
  BY <1>1, <1>2, RootsOfAppend DEF RootOf
<1>4. \A main : CountFollowUpsForRoot(responses', main) = CountFor(main) + one(main)
  BY <1>1, <1>2, CountAfterAppend DEF CountFor, RootOf
<1>5. \A main : CountFor(main) \in Nat
  BY <1>1, FollowUpsFinite DEF CountFor
<1>6. /\ DOMAIN responses' = DOMAIN responses \cup {n}
      /\ n \notin DOMAIN responses
      /\ MaxFollowUps \in Nat
  BY <1>1, ListProperties, ServiceAssumption
<1>7. ASSUME "followup" \notin Kinds
      PROVE  FollowUpsCapped'
  <2>1. ASSUME NEW i \in DOMAIN responses, responses'[i].parent = 0
        PROVE  CountFor(i) + one(i) <= MaxFollowUps
    <3>1. CountFor(i) <= MaxFollowUps
      BY <1>7, <2>1 DEF CapInv, FollowUpsCapped, CountFor
    <3>2. one(i) = 1 => CountFor(i) < MaxFollowUps
      BY <1>7
    <3>3. one(i) \in {0, 1}
      OBVIOUS
    <3> HIDE DEF one
    <3> QED
      BY <1>5, <1>6, <3>1, <3>2, <3>3
  <2>2. CountFor(n) + one(n) = 0
    <3>1. \A i \in DOMAIN responses : RootOf(i) \in DOMAIN responses
      BY <1>1, <1>2, RootsOlder DEF RootOf
    <3>2. FollowUpsBelow(responses, n) = {}
      BY <1>6, <3>1 DEF FollowUpsBelow, RootOf
    <3>3. CountFor(n) = 0
      BY <3>2, CountIsCardinality, FS_EmptySet DEF CountFor
    <3>4. one(n) = 0
      BY <1>6, <1>7, <3>1
    <3> HIDE DEF one
    <3> QED
      BY <3>3, <3>4
  <2> HIDE DEF one, n
  <2>3. \A i \in DOMAIN responses' : responses'[i].parent = 0 =>
          CountFollowUpsForRoot(responses', i) <= MaxFollowUps
    BY <1>4, <1>6, <2>1, <2>2
  <2> QED
    BY <2>3 DEF FollowUpsCapped
<1>8. ASSUME "followup" \notin Kinds, NEW s \in Slots, requests'[s].pc = "ask"
      PROVE  CountFollowUpsForRoot(responses',
               ResolveRoot(responses')[requests'[s].current]) < MaxFollowUps
  <2> DEFINE c == requests'[s].current
  <2>1. c \in DOMAIN responses /\ CountFor(RootOf(c)) < MaxFollowUps
    BY <1>8, AskersHaveRoom DEF HasRoom
  <2>2. one(RootOf(c)) = 0
    BY <1>8
  <2>3. ResolveRoot(responses')[c] = RootOf(c)
    BY <1>3, <2>1
  <2> HIDE DEF one, c
  <2> QED
    BY <1>4, <1>5, <2>1, <2>2, <2>3 DEF c
<1> QED
  BY <1>3, <1>7, <1>8 DEF CapInv, CountFor, RootOf

(* Two requests of one family are not about to ask at the same time: the   *)
(* answers both would follow up have not been followed up, and a family    *)
(* has one such member.                                                    *)
LEMMA OneAsksInAFamily ==
  ASSUME ServiceInv, OutcomeInv, CapInv, "followup" \notin Kinds,
         NEW r \in Slots, requests[r].pc = "ask",
         NEW s \in Slots, requests[s].pc = "ask", s # r
  PROVE  RootOf(requests[r].current) # RootOf(requests[s].current)
<1> DEFINE c == requests[r].current
           d == requests[s].current
<1>1. /\ Undecided(requests[r]) /\ Undecided(requests[s])
      /\ c \in DOMAIN responses /\ d \in DOMAIN responses
  BY DEF ServiceInv, SlotInv, Undecided, Working
<1>2. c # d /\ c \notin Parents /\ d \notin Parents /\ OnlyChildren
  BY <1>1 DEF OutcomeInv, UndecidedInv
<1>3. /\ responses \in Seq(Response) /\ ParentsOlder(responses)
      /\ RootsOK(responses)
  BY ListHasOlderParents DEF ServiceInv, TypeOK, CapInv
<1>4. c \in Nat /\ d \in Nat
  BY <1>1, <1>3, ListProperties
<1> HIDE DEF c, d
<1>5. \A i, j \in DOMAIN responses : i < j /\ RootOf(i) = RootOf(j) => i \in Parents
  BY <1>2, <1>3, FamiliesAreChains DEF OnlyChildren, RootOf, Parents
<1> QED
  BY <1>1, <1>2, <1>4, <1>5 DEF c, d

LEMMA CapStep == ServiceInv /\ OutcomeInv /\ CapInv /\ [Next]_vars => CapInv'
<1> SUFFICES ASSUME ServiceInv, OutcomeInv, CapInv, [Next]_vars PROVE CapInv'
  OBVIOUS
<1>1. requests \in [Slots -> Request] /\ responses \in Seq(Response)
  BY DEF ServiceInv, TypeOK
<1>2. ASSUME NEW r \in Slots, CreateQuestion(r)
      PROVE  CapInv'
  <2> DEFINE asked == NewResponse(NextNumber(requests[r].seen), 0,
                                  PhaseOf(requests[r].row.phase))
  <2>1. responses' = Append(responses, asked) /\ asked.parent = 0
    BY <1>2 DEF CreateQuestion, NewResponse
  <2> HIDE DEF asked
  <2>2. /\ Len(responses') = Len(responses) + 1
        /\ \A i \in DOMAIN responses : responses'[i] = responses[i]
        /\ responses'[Len(responses) + 1].parent = 0
    BY <1>1, <2>1, ListProperties
  <2> QED
    BY <2>2, CapByAppend
<1>3. ASSUME NEW r \in Slots, AskFollowUp(r)
      PROVE  CapInv'
  <2> DEFINE c == requests[r].current
             num == requests[r].seen[c].num + 1
             phase == IF requests[r].kind = "followup" THEN "introduction"
                      ELSE PhaseOf(requests[r].row.phase)
             asked == NewResponse(num, c, phase)
  <2>1. responses' = Append(responses, asked) /\ asked.parent = c
    BY <1>3 DEF AskFollowUp, NewResponse
  <2>2. requests[r].pc = "ask" /\ requests'[r].pc = "context"
    BY <1>1, <1>3 DEF AskFollowUp, At, Request
  <2>3. \A s \in Slots : s # r => requests'[s] = requests[s]
    BY <1>1, <1>3 DEF AskFollowUp
  <2> HIDE DEF asked, c
  <2>4. /\ Len(responses') = Len(responses) + 1
        /\ \A i \in DOMAIN responses : responses'[i] = responses[i]
        /\ responses'[Len(responses) + 1].parent = c
    BY <1>1, <2>1, ListProperties
  <2>5. c \in DOMAIN responses
    BY <2>2 DEF c, ServiceInv, SlotInv, Working
  <2>6. "followup" \notin Kinds => CountFor(RootOf(c)) < MaxFollowUps
    BY <2>2 DEF c, CapInv
  <2>7. "followup" \notin Kinds =>
          \A s \in Slots : requests'[s].pc = "ask" =>
            RootOf(requests'[s].current) # RootOf(c)
    BY <2>2, <2>3, OneAsksInAFamily DEF c
  <2> QED
    BY <2>4, <2>5, <2>6, <2>7, CapByAppend
<1> QED
  BY <1>2, <1>3, ListSteps, CapByUpdate

LEMMA CapInit == Init => CapInv
<1> SUFFICES ASSUME Init PROVE CapInv
  OBVIOUS
<1>1. responses = <<>> /\ DOMAIN responses = {}
  BY DEF Init
<1>2. IsRootOf([i \in DOMAIN responses |-> i], responses)
  BY <1>1 DEF IsRootOf
<1>3. RootsOK(responses)
  BY <1>2, RootsByExistence DEF RootsOK
<1>4. \A r \in Slots : requests[r].pc # "ask"
  BY DEF Init, NoRequest
<1> QED
  BY <1>1, <1>3, <1>4 DEF CapInv, FollowUpsCapped

(* However many answers overlap, a main question never gets more follow-   *)
(* ups than the cap, unless the text API is used, which has none.          *)
THEOREM CapHolds == Spec => []FollowUpsCapped
<1>1. CapInv => FollowUpsCapped
  BY DEF CapInv, FollowUpsCapped
<1> QED
  BY <1>1, ServiceInvInit, ServiceInvStep, OutcomeInvInit, OutcomeInvStep,
     CapInit, CapStep, PTL DEF Spec
=============================================================================
