------------------------------ MODULE Aftermath -----------------------------
(***************************************************************************)
(* The end of an interview and what follows: the completion, its webhook   *)
(* with retries, and the report that is generated when it is first read.   *)
(* The turns of the interview are in InterviewService; here an answer only *)
(* adds to the data that the report is computed from, and may be stored    *)
(* after the completion when its request had begun before.                 *)
(***************************************************************************)
EXTENDS Naturals, Sequences, FiniteSets

CONSTANTS
  Interviews,
  Handlers,    \* requests handled at a time
  Callback,    \* the interviews with a callback URL
  Backoffs,    \* retries after the first attempt
  MaxAnswers   \* bound: answers that are stored

ASSUME AftermathAssumption == Backoffs \in Nat /\ MaxAnswers \in Nat

VARIABLES
  completed,   \* the interviews whose status is completed
  answers,     \* stored answers of each interview
  reports,     \* report rows of each interview, oldest first
  handlers,    \* requests in progress
  deliveries,  \* webhook goroutines in progress
  posts,       \* history: what the receivers got, and whether they said so
  replies      \* history: reports that were returned

aftermath == <<completed, answers, reports, handlers, deliveries, posts,
               replies>>

Free == [pc |-> "free"]

AftermathInit ==
  /\ completed = {}
  /\ answers = [i \in Interviews |-> 0]
  /\ reports = [i \in Interviews |-> <<>>]
  /\ handlers = [h \in Handlers |-> Free]
  /\ deliveries = {} /\ posts = <<>>
  /\ replies = [i \in Interviews |-> {}]

Continue(h, r) == handlers' = [handlers EXCEPT ![h] = r]

(***************************************************************************)
(* Completion and late answers, as far as they matter afterwards.          *)
(***************************************************************************)

(* Both load the interview and refuse when it is completed.                *)
LoadForWrite(h) ==
  LET r == handlers[h]
  IN /\ r.pc = "load" /\ r.kind \in {"answer", "complete"}
     /\ Continue(h, IF r.interview \in completed THEN Free
                    ELSE [r EXCEPT !.pc = "write"])
     /\ UNCHANGED <<completed, answers, reports, deliveries, posts, replies>>

StoreAnswer(h) ==
  LET r == handlers[h]
  IN /\ r.pc = "write" /\ r.kind = "answer"
     /\ answers[r.interview] < MaxAnswers
     /\ answers' = [answers EXCEPT ![r.interview] = @ + 1]
     /\ Continue(h, Free)
     /\ UNCHANGED <<completed, reports, deliveries, posts, replies>>

FreshDelivery ==
  CHOOSE n \in 1 .. Cardinality(deliveries) + Len(posts) + 1 :
    /\ \A d \in deliveries : d.id # n
    /\ \A k \in DOMAIN posts : posts[k].delivery # n

(* FireInterviewCompleted.                                                 *)
Fire(i) ==
  deliveries' = deliveries \cup
    {[id |-> FreshDelivery, interview |-> i, attempt |-> 0]}

(* Mutant: the webhook is started before the status is stored.             *)
CompleteFiringFirst(h) ==
  LET r == handlers[h]
      fired == \E d \in deliveries : d.interview = r.interview
  IN /\ r.pc = "write" /\ r.kind = "complete"
     /\ \/ ~fired /\ Fire(r.interview) /\ UNCHANGED <<completed, handlers>>
        \/ /\ fired /\ completed' = completed \cup {r.interview}
           /\ Continue(h, Free) /\ UNCHANGED deliveries
     /\ UNCHANGED <<answers, reports, posts, replies>>

Complete(h) ==
  LET r == handlers[h]
  IN /\ r.pc = "write" /\ r.kind = "complete"
     /\ completed' = completed \cup {r.interview}
     /\ Fire(r.interview)
     /\ Continue(h, Free)
     /\ UNCHANGED <<answers, reports, posts, replies>>

(***************************************************************************)
(* The webhook.                                                            *)
(***************************************************************************)
LoadForWebhook(d) ==
  /\ d.attempt = 0
  /\ deliveries' = (deliveries \ {d}) \cup
       (IF d.interview \in Callback THEN {[d EXCEPT !.attempt = 1]} ELSE {})
  /\ UNCHANGED <<completed, answers, reports, handlers, posts, replies>>

(* Mutant: one backoff too many.                                           *)
GivesUpLate(d) == d.attempt > Backoffs + 1

GivesUp(d) == d.attempt > Backoffs

(* One attempt: the receiver may not get it, or get it and answer too      *)
(* late, or with an error.  The log row is left out: it is written on a    *)
(* best-effort basis and never read.  The backoff is time that passes      *)
(* before the next attempt.                                                *)
Attempt(d) ==
  /\ d.attempt > 0
  /\ \E got, acked \in BOOLEAN :
       /\ acked => got
       /\ posts' = IF got THEN Append(posts, [delivery |-> d.id,
                                              interview |-> d.interview,
                                              attempt |-> d.attempt,
                                              acked |-> acked])
                   ELSE posts
       /\ deliveries' = (deliveries \ {d}) \cup
            (IF acked \/ GivesUp(d) THEN {}
             ELSE {[d EXCEPT !.attempt = @ + 1]})
  /\ UNCHANGED <<completed, answers, reports, handlers, replies>>

(***************************************************************************)
(* GetInterviewReport.                                                     *)
(***************************************************************************)
LoadForReport(h) ==
  LET r == handlers[h]
  IN /\ r.pc = "load" /\ r.kind = "report"
     /\ Continue(h, [r EXCEPT !.pc = IF r.interview \in completed
                                     THEN "find" ELSE "refuse"])
     /\ UNCHANGED <<completed, answers, reports, deliveries, posts, replies>>

Reply(i, report) == replies' = [replies EXCEPT ![i] = @ \cup {report}]

(* A stored report is returned whatever the status that was loaded.        *)
FindReport(h) ==
  LET r == handlers[h]
      stored == reports[r.interview]
  IN /\ r.pc \in {"find", "refuse"}
     /\ \/ /\ stored # <<>>
           /\ Reply(r.interview, Head(stored))
           /\ Continue(h, Free)
        \/ /\ stored = <<>>
           /\ Continue(h, IF r.pc = "find" THEN [r EXCEPT !.pc = "compute"]
                          ELSE Free)
           /\ UNCHANGED replies
     /\ UNCHANGED <<completed, answers, reports, deliveries, posts>>

(* A report is made of scores, which follow from the answers, and of a     *)
(* narrative that the model writes anew for every request.                 *)
Narrative(h) == h
ComputeInterviewReport(h, i) == <<Narrative(h), answers[i]>>

ReadAnswers(h) ==
  LET r == handlers[h]
  IN /\ r.pc = "compute"
     /\ Continue(h, [pc |-> "store", interview |-> r.interview,
                     kind |-> "report",
                     report |-> ComputeInterviewReport(h, r.interview)])
     /\ UNCHANGED <<completed, answers, reports, deliveries, posts, replies>>

(* Mutant: no unique index on interview_id.                                *)
NeverReported(i) == FALSE

(* The unique index on interview_id.                                       *)
Reported(i) == reports[i] # <<>>

StoreReport(h) ==
  LET r == handlers[h]
  IN /\ r.pc = "store"
     /\ Continue(h, Free)
     /\ \/ /\ Reported(r.interview)
           /\ UNCHANGED <<reports, replies>>
        \/ /\ ~Reported(r.interview)
           /\ reports' = [reports EXCEPT ![r.interview] =
                            Append(@, r.report)]
           /\ Reply(r.interview, r.report)
     /\ UNCHANGED <<completed, answers, deliveries, posts>>

HandlerStep(h) ==
  LoadForWrite(h) \/ StoreAnswer(h) \/ Complete(h) \/ LoadForReport(h)
    \/ FindReport(h) \/ ReadAnswers(h) \/ StoreReport(h)

DeliveryStep(d) == LoadForWebhook(d) \/ Attempt(d)

(***************************************************************************)
(* Properties.                                                             *)
(***************************************************************************)
AftermathTypeOK ==
  /\ completed \subseteq Interviews
  /\ answers \in [Interviews -> 0 .. MaxAnswers]
  /\ reports \in [Interviews -> Seq(Handlers \X Nat)]
  /\ handlers \in [Handlers ->
       {Free} \cup
       [pc : {"load", "write", "find", "refuse", "compute"},
        kind : {"answer", "complete", "report"}, interview : Interviews] \cup
       [pc : {"store"}, kind : {"report"}, interview : Interviews,
        report : Handlers \X Nat]]
  /\ deliveries \subseteq [id : Nat, interview : Interviews, attempt : Nat]
  /\ posts \in Seq([delivery : Nat, interview : Interviews, attempt : Nat,
                    acked : BOOLEAN])
  /\ replies \in [Interviews -> SUBSET (Handlers \X Nat)]

(* PARTNER_API.md:110, whatwehave.md:142: the report is generated once; no *)
(* two readers are given different reports of an interview, also when they *)
(* are the first and read at the same time.                                *)
ReportsAgree ==
  \A i \in Interviews : \A a, b \in replies[i] : a = b

(* PARTNER_API.md:170: a receiver that is told of a completion can read    *)
(* the report: the interview is completed by then.                         *)
AnnouncedMeansReadable ==
  \A k \in DOMAIN posts : posts[k].interview \in completed

(* webhook.go:70-88: one delivery posts three times at most, in the order  *)
(* of the attempts, and not again after it was acknowledged.  It says      *)
(* nothing of two deliveries of one completion.                            *)
DeliveriesAreDisciplined ==
  /\ \A k \in DOMAIN posts : posts[k].attempt \in 1 .. 3
  /\ \A k, l \in DOMAIN posts :
       k < l /\ posts[k].delivery = posts[l].delivery =>
         posts[k].attempt < posts[l].attempt /\ ~posts[k].acked

(* PARTNER_API.md:210, "retried up to 3 attempts total": a completion is   *)
(* posted three times at most.  Two completions that overlap both find the *)
(* interview open and each start a delivery (interviews.go:181-194).       *)
ThreePostsPerCompletion ==
  \A i \in Interviews :
    Cardinality({k \in DOMAIN posts : posts[k].interview = i}) <= 3
=============================================================================
