------------------------- MODULE CandidatePageProofs ------------------------
(***************************************************************************)
(* For any number of buttons pressed and reloads, and whatever overlaps:   *)
(* the page waits only for what is on its way, locks the submit button     *)
(* while a review is, and sends nobody away from an interview that goes    *)
(* on.                                                                     *)
(***************************************************************************)
EXTENDS CandidatePage, TLAPS

IsCall(c) ==
  /\ c = [id |-> c.id, kind |-> c.kind, reply |-> c.reply]
  /\ c.kind \in Kinds

IsPrompt(p) == p = [id |-> p.id, then |-> p.then, state |-> p.state]

(* What leads away is under way only when the interview is over or was     *)
(* ended: an answer that says so, the answer to End, the closing prompt.   *)
CallsOK ==
  \A c \in calls :
    /\ IsCall(c)
    /\ c.reply = "done" => over
    /\ c.kind = "complete" => endPressed

PromptsOK == \A p \in prompts : IsPrompt(p) /\ (p.then = "leave" => over)

DoneOK == lastDone \in BOOLEAN /\ (lastDone => over)

Inv ==
  /\ CallsOK /\ PromptsOK /\ DoneOK
  /\ ProcessingHasARequest /\ SubmitLockedWhileReviewing /\ LeavesOnlyWhenOver

-----------------------------------------------------------------------------
(* Requests and answers.                                                   *)

LEMMA SameCalls ==
  ASSUME CallsOK, UNCHANGED <<calls, over, endPressed>>
  PROVE  CallsOK'
BY DEF CallsOK, IsCall

LEMMA SameLock ==
  ASSUME SubmitLockedWhileReviewing, UNCHANGED <<calls, submitting>>
  PROVE  SubmitLockedWhileReviewing'
BY DEF SubmitLockedWhileReviewing

LEMMA SameWait ==
  ASSUME ProcessingHasARequest, calls \subseteq calls',
         phase' = "processing" => phase = "processing"
  PROVE  ProcessingHasARequest'
BY DEF ProcessingHasARequest

LEMMA SameLeft ==
  ASSUME LeavesOnlyWhenOver, left' = left, over => over',
         endPressed => endPressed'
  PROVE  LeavesOnlyWhenOver'
BY DEF LeavesOnlyWhenOver

LEMMA SentKeeps ==
  ASSUME CallsOK, NEW kind \in Kinds, calls' = Sent(calls, kind), over' = over,
         endPressed => endPressed', kind = "complete" => endPressed'
  PROVE  CallsOK' /\ calls \subseteq calls'
<1>1. PICK c : c = [id |-> FreshId(calls), kind |-> kind, reply |-> "none"]
  OBVIOUS
<1>2. IsCall(c) /\ c.kind = kind /\ c.reply = "none"
  BY <1>1 DEF IsCall
<1>3. calls' = calls \cup {c}
  BY <1>1 DEF Sent
<1> QED
  BY <1>2, <1>3 DEF CallsOK, IsCall

LEMMA SentIsThere ==
  ASSUME NEW S, NEW kind
  PROVE  /\ \E c \in Sent(S, kind) : c.kind = kind
         /\ \A c \in Sent(S, kind) : c \in S \/ c.kind = kind
         /\ \A c, d \in Sent(S, kind) :
              c \notin S /\ d \notin S => c = d
<1>1. PICK e : e = [id |-> FreshId(S), kind |-> kind, reply |-> "none"]
  OBVIOUS
<1>2. e.kind = kind /\ Sent(S, kind) = S \cup {e}
  BY <1>1 DEF Sent
<1> QED
  BY <1>2

LEMMA SentUnlocked ==
  ASSUME SubmitLockedWhileReviewing, NEW kind, kind # "code",
         calls' = Sent(calls, kind), UNCHANGED submitting
  PROVE  SubmitLockedWhileReviewing'
<1>1. calls \subseteq calls'
  BY DEF Sent
<1>2. \A c \in calls' : c.kind = "code" => c \in calls
  BY SentIsThere
<1> QED
  BY <1>1, <1>2 DEF SubmitLockedWhileReviewing

LEMMA RemovedKeeps ==
  ASSUME CallsOK, NEW c \in calls, calls' = calls \ {c},
         UNCHANGED <<over, endPressed>>
  PROVE  CallsOK'
BY DEF CallsOK, IsCall

LEMMA RemovedUnlocked ==
  ASSUME SubmitLockedWhileReviewing, NEW c \in calls, c.kind # "code",
         calls' = calls \ {c}, UNCHANGED submitting
  PROVE  SubmitLockedWhileReviewing'
BY DEF SubmitLockedWhileReviewing

LEMMA ServeKeeps ==
  ASSUME Inv, NEW c \in calls, Serve(c)
  PROVE  Inv'
<1>0. PICK reply \in Replies(c.kind) \cup {"failed"} :
        \E heard \in {reply, "failed"} :
          /\ calls' = (calls \ {c}) \cup {[c EXCEPT !.reply = heard]}
          /\ over' = (\/ over \/ reply = "done"
                      \/ c.kind = "complete" /\ reply = "ok")
  BY DEF Serve
<1>1. PICK heard \in {reply, "failed"} :
        /\ calls' = (calls \ {c}) \cup {[c EXCEPT !.reply = heard]}
        /\ over' = (\/ over \/ reply = "done"
                    \/ c.kind = "complete" /\ reply = "ok")
  BY <1>0
<1>2. UNCHANGED <<ui, mic, audio, link, bounds, left>>
  BY DEF Serve
<1>3. UNCHANGED <<phase, lastDone, submitting, prompts, endPressed, left>>
  BY <1>2 DEF ui, audio, bounds
<1>4. PICK d : d = [c EXCEPT !.reply = heard]
  OBVIOUS
<1>5. IsCall(c)
  BY DEF Inv, CallsOK
<1>6. IsCall(d) /\ d.kind = c.kind /\ d.reply = heard
  BY <1>4, <1>5 DEF IsCall
<1>7. calls' = (calls \ {c}) \cup {d}
  BY <1>1, <1>4
<1>8. over => over'
  BY <1>1
<1>9. heard = "done" => over'
  BY <1>1
<1>10. CallsOK'
  BY <1>3, <1>6, <1>7, <1>8, <1>9 DEF Inv, CallsOK, IsCall
<1>11. PromptsOK' /\ DoneOK' /\ LeavesOnlyWhenOver'
  BY <1>3, <1>8 DEF Inv, PromptsOK, IsPrompt, DoneOK, LeavesOnlyWhenOver
<1>12. ProcessingHasARequest'
  BY <1>3, <1>6, <1>7 DEF Inv, ProcessingHasARequest
<1>13. SubmitLockedWhileReviewing'
  BY <1>3, <1>6, <1>7 DEF Inv, SubmitLockedWhileReviewing
<1> QED
  BY <1>10, <1>11, <1>12, <1>13 DEF Inv

-----------------------------------------------------------------------------
(* Prompts.                                                                *)

LEMMA PausedEnds ==
  ASSUME NEW S, NEW id, \A p \in S : IsPrompt(p)
  PROVE  \A p \in Paused(S, id) :
           IsPrompt(p) /\ \E q \in S : p.then = q.then
<1> TAKE p \in Paused(S, id)
<1>1. PICK q \in S : p = IF q.id = id THEN [q EXCEPT !.state = "aborted"] ELSE q
  BY DEF Paused
<1>2. IsPrompt(q)
  OBVIOUS
<1>3. CASE q.id = id
  <2>1. p = [q EXCEPT !.state = "aborted"]
    BY <1>1, <1>3
  <2>2. IsPrompt(p) /\ p.then = q.then
    BY <1>2, <2>1 DEF IsPrompt
  <2> QED
    BY <2>2
<1>4. CASE q.id # id
  BY <1>1, <1>2, <1>4
<1> QED
  BY <1>3, <1>4

LEMMA PromptsQuiet ==
  ASSUME PromptsOK, over => over',
         \/ StopAudio
         \/ UNCHANGED prompts
         \/ \E then : PlayAudio(then) /\ (then = "leave" => over')
  PROVE  PromptsOK'
<1>1. CASE UNCHANGED prompts
  BY <1>1 DEF PromptsOK, IsPrompt
<1>2. CASE StopAudio
  BY <1>2, PausedEnds DEF StopAudio, PromptsOK, IsPrompt
<1>3. ASSUME NEW then, PlayAudio(then), then = "leave" => over'
      PROVE  PromptsOK'
  <2>1. PICK p : p = [id |-> FreshId(prompts), then |-> then,
                      state |-> "fetching"]
    OBVIOUS
  <2>2. IsPrompt(p) /\ p.then = then
    BY <2>1 DEF IsPrompt
  <2>3. prompts' = Paused(prompts, player) \cup {p}
    BY <1>3, <2>1 DEF PlayAudio
  <2> QED
    BY <1>3, <2>2, <2>3, PausedEnds DEF PromptsOK, IsPrompt
<1> QED
  BY <1>1, <1>2, <1>3

LEMMA PromptEventKeeps ==
  ASSUME Inv, NEW p \in prompts, PromptEvent(p)
  PROVE  Inv'
<1>1. UNCHANGED <<calls, over, endPressed, lastDone, submitting>>
  BY DEF PromptEvent, PromptFetched, PromptPlays, PromptFails, PromptEnds, ui,
         server, bounds
<1>2. IsPrompt(p)
  BY DEF Inv, PromptsOK
<1>3. \A q \in prompts' : IsPrompt(q) /\ \E r \in prompts : q.then = r.then
  <2>1. CASE PromptFetched(p)
    <3>1. PICK e : e = [p EXCEPT !.state = "starting"]
      OBVIOUS
    <3>2. IsPrompt(e) /\ e.then = p.then
      BY <1>2, <3>1 DEF IsPrompt
    <3> QED
      BY <2>1, <3>1, <3>2 DEF PromptFetched, Inv, PromptsOK
  <2>2. CASE PromptPlays(p)
    <3>1. PICK e : e = [p EXCEPT !.state = "playing"]
      OBVIOUS
    <3>2. IsPrompt(e) /\ e.then = p.then
      BY <1>2, <3>1 DEF IsPrompt
    <3> QED
      BY <2>2, <3>1, <3>2 DEF PromptPlays, Inv, PromptsOK
  <2>3. CASE PromptFails(p) \/ PromptEnds(p)
    BY <2>3 DEF PromptFails, PromptEnds, Inv, PromptsOK
  <2> QED
    BY <2>1, <2>2, <2>3 DEF PromptEvent
<1>4. PromptsOK'
  BY <1>1, <1>3 DEF Inv, PromptsOK, IsPrompt
<1>5. /\ phase' = "processing" => phase = "processing"
      /\ left' = left \/ p.then = "leave"
  BY DEF PromptEvent, PromptFetched, PromptPlays, PromptFails, PromptEnds,
         OnEnded, ui
<1>6. LeavesOnlyWhenOver'
  BY <1>1, <1>5 DEF Inv, PromptsOK, LeavesOnlyWhenOver
<1>7. CallsOK' /\ SubmitLockedWhileReviewing' /\ ProcessingHasARequest'
  BY <1>1, <1>5, SameCalls, SameLock, SameWait DEF Inv
<1>8. DoneOK'
  BY <1>1 DEF Inv, DoneOK
<1> QED
  BY <1>4, <1>6, <1>7, <1>8 DEF Inv

-----------------------------------------------------------------------------
(* Answers that arrive.                                                    *)

LEMMA AnsweredKeeps ==
  ASSUME Inv, NEW c \in calls, Answered(c)
  PROVE  Inv'
<1>1. calls' = calls \ {c} /\ UNCHANGED <<over, endPressed>>
  BY DEF Answered, ExchangeAnswered, TurnArrives, TurnFails, CodeReviewed,
         EndAnswered, server, bounds
<1>2. CallsOK'
  BY <1>1, RemovedKeeps DEF Inv
<1>3. CASE ExchangeAnswered(c) \/ EndAnswered(c)
  <2>1. UNCHANGED <<phase, lastDone, submitting, prompts>>
        /\ c.kind \in {"exchange", "complete"}
    BY <1>3 DEF ExchangeAnswered, EndAnswered, ui, audio
  <2>2. left' = left \/ c.kind = "complete"
    BY <1>3 DEF ExchangeAnswered, EndAnswered
  <2>3. LeavesOnlyWhenOver'
    BY <1>1, <2>2 DEF Inv, CallsOK, LeavesOnlyWhenOver
  <2>4. ProcessingHasARequest'
    BY <1>1, <2>1 DEF Inv, ProcessingHasARequest, TurnKinds
  <2>5. SubmitLockedWhileReviewing'
    BY <1>1, <2>1, RemovedUnlocked DEF Inv
  <2>6. PromptsOK' /\ DoneOK'
    BY <1>1, <2>1, PromptsQuiet DEF Inv, DoneOK
  <2> QED
    BY <1>2, <2>3, <2>4, <2>5, <2>6 DEF Inv
<1>4. CASE TurnArrives(c)
  <2>1. UNCHANGED <<submitting, left>> /\ c.kind # "code"
    BY <1>4 DEF TurnArrives, TurnKinds
  <2>2. /\ lastDone' = (c.reply = "done") /\ phase' # "processing"
        /\ \/ c.reply = "done" /\ PlayAudio("leave")
           \/ PlayAudio("listen")
           \/ UNCHANGED prompts
    BY <1>4 DEF TurnArrives, Turns, PlayPrompt, audio
  <2>3. c.reply = "done" => over
    BY DEF Inv, CallsOK
  <2>4. PromptsOK' /\ DoneOK'
    BY <1>1, <2>2, <2>3, PromptsQuiet DEF Inv, DoneOK
  <2>5. ProcessingHasARequest'
    BY <2>2 DEF ProcessingHasARequest
  <2>6. SubmitLockedWhileReviewing' /\ LeavesOnlyWhenOver'
    BY <1>1, <2>1, RemovedUnlocked, SameLeft DEF Inv
  <2> QED
    BY <1>2, <2>4, <2>5, <2>6 DEF Inv
<1>5. CASE TurnFails(c)
  <2>1. /\ UNCHANGED <<submitting, left, lastDone, prompts>>
        /\ c.kind # "code"
        /\ phase' = "processing" => phase = "processing" /\ c.kind = "start"
    BY <1>5 DEF TurnFails, TurnKinds, audio
  <2>2. ProcessingHasARequest'
    BY <1>1, <2>1 DEF Inv, ProcessingHasARequest
  <2>3. PromptsOK' /\ DoneOK'
    BY <1>1, <2>1, PromptsQuiet DEF Inv, DoneOK
  <2>4. SubmitLockedWhileReviewing' /\ LeavesOnlyWhenOver'
    BY <1>1, <2>1, RemovedUnlocked, SameLeft DEF Inv
  <2> QED
    BY <1>2, <2>2, <2>3, <2>4 DEF Inv
<1>6. CASE CodeReviewed(c)
  <2>1. /\ UNCHANGED <<left, prompts>> /\ submitting' = FALSE
        /\ c.kind = "code"
        /\ phase' = "processing" => phase = "processing"
        /\ lastDone' = (lastDone \/ c.reply = "done")
    BY <1>6 DEF CodeReviewed, audio
  <2>2. ProcessingHasARequest'
    BY <1>1, <2>1 DEF Inv, ProcessingHasARequest, TurnKinds
  <2>3. SubmitLockedWhileReviewing'
    BY <1>1, <2>1 DEF Inv, SubmitLockedWhileReviewing
  <2>4. c.reply = "done" => over
    BY DEF Inv, CallsOK
  <2>5. PromptsOK' /\ DoneOK'
    BY <1>1, <2>1, <2>4, PromptsQuiet DEF Inv, DoneOK
  <2>6. LeavesOnlyWhenOver'
    BY <1>1, <2>1, SameLeft DEF Inv
  <2> QED
    BY <1>2, <2>2, <2>3, <2>5, <2>6 DEF Inv
<1> QED
  BY <1>3, <1>4, <1>5, <1>6 DEF Answered

-----------------------------------------------------------------------------
(* The recorder and the buttons.                                           *)

(* A step that sends nothing and shows nothing that waits.                 *)
LEMMA QuietStep ==
  ASSUME Inv, UNCHANGED <<calls, over, left, lastDone, submitting>>,
         endPressed => endPressed',
         phase' = "processing" => phase = "processing", PromptsOK'
  PROVE  Inv'
<1>1. CallsOK'
  BY DEF Inv, CallsOK, IsCall
<1>2. /\ ProcessingHasARequest' /\ SubmitLockedWhileReviewing'
      /\ LeavesOnlyWhenOver'
  BY SameWait, SameLock, SameLeft DEF Inv
<1>3. DoneOK'
  BY DEF Inv, DoneOK
<1> QED
  BY <1>1, <1>2, <1>3 DEF Inv

(* A step that sends a request and waits for it, or goes on as before.     *)
LEMMA SendingStep ==
  ASSUME Inv, NEW kind \in Kinds \ {"code"}, calls' = Sent(calls, kind),
         UNCHANGED <<over, left, lastDone, submitting>>,
         endPressed => endPressed', kind = "complete" => endPressed',
         phase' = phase \/ kind \in TurnKinds \ {"start"}, PromptsOK'
  PROVE  Inv'
<1>1. CallsOK' /\ calls \subseteq calls'
  BY SentKeeps DEF Inv
<1>2. ProcessingHasARequest'
  <2>1. CASE phase' = phase
    BY <1>1, <2>1, SameWait DEF Inv
  <2>2. CASE kind \in TurnKinds \ {"start"}
    BY <2>2, SentIsThere DEF ProcessingHasARequest
  <2> QED
    BY <2>1, <2>2
<1>3. SubmitLockedWhileReviewing' /\ LeavesOnlyWhenOver'
  BY SentUnlocked, SameLeft DEF Inv
<1>4. DoneOK'
  BY DEF Inv, DoneOK
<1> QED
  BY <1>1, <1>2, <1>3, <1>4 DEF Inv

LEMMA RecorderStopsKeeps ==
  ASSUME Inv, NEW m \in recorders, RecorderStops(m)
  PROVE  Inv'
<1>1. UNCHANGED <<over, endPressed, left, lastDone, submitting>>
  BY DEF RecorderStops, server, bounds
<1>2. CASE UNCHANGED <<phase, audio, calls>>
  <2>1. PromptsOK'
    BY <1>1, <1>2, PromptsQuiet DEF Inv, audio
  <2> QED
    BY <1>1, <1>2, <2>1, QuietStep
<1>3. CASE phase' = "complete" /\ PlayAudio("nothing") /\ UNCHANGED calls
  <2>1. PromptsOK'
    BY <1>1, <1>3, PromptsQuiet DEF Inv
  <2> QED
    BY <1>1, <1>3, <2>1, QuietStep
<1>4. CASE calls' = Sent(calls, "answer") /\ UNCHANGED audio
  <2>1. PromptsOK'
    BY <1>1, <1>4, PromptsQuiet DEF Inv, audio
  <2>2. "answer" \in Kinds \ {"code"} /\ "answer" \in TurnKinds \ {"start"}
    BY DEF Kinds, TurnKinds
  <2> QED
    BY <1>1, <1>4, <2>1, <2>2, SendingStep
<1> QED
  BY <1>2, <1>3, <1>4 DEF RecorderStops, SubmitRecordedAnswer

LEMMA ButtonsKeep ==
  ASSUME Inv,
         HandleStart \/ HandleSkip \/ HandleHint \/ HandleEndInterview
           \/ HandleCodingContinue
  PROVE  Inv'
<1>1. UNCHANGED <<over, left, lastDone, submitting>>
      /\ (endPressed => endPressed')
  BY DEF HandleStart, HandleSkip, HandleHint, SkipOrHint, HandleEndInterview,
         HandleCodingContinue, ui, server
<1>2. /\ "start" \in Kinds \ {"code"} /\ "complete" \in Kinds \ {"code"}
      /\ \A kind \in {"skip", "hint", "continue"} :
           kind \in Kinds \ {"code"} /\ kind \in TurnKinds \ {"start"}
  BY DEF Kinds, TurnKinds
<1>3. CASE HandleStart
  <2>1. calls' = Sent(calls, "start") /\ phase' = phase /\ UNCHANGED prompts
    BY <1>3 DEF HandleStart, audio
  <2>2. PromptsOK'
    BY <1>1, <2>1, PromptsQuiet DEF Inv
  <2> QED
    BY <1>1, <1>2, <2>1, <2>2, SendingStep
<1>4. ASSUME NEW kind \in {"skip", "hint"}, SkipOrHint(kind)
      PROVE  Inv'
  <2>1. calls' = Sent(calls, kind) /\ StopAudio
    BY <1>4 DEF SkipOrHint
  <2>2. PromptsOK'
    BY <1>1, <2>1, PromptsQuiet DEF Inv
  <2> QED
    BY <1>1, <1>2, <2>1, <2>2, SendingStep
<1>5. CASE HandleEndInterview
  <2>1. calls' = Sent(calls, "complete") /\ StopAudio /\ endPressed'
        /\ phase' = phase
    BY <1>5 DEF HandleEndInterview, ui
  <2>2. PromptsOK'
    BY <1>1, <2>1, PromptsQuiet DEF Inv
  <2> QED
    BY <1>1, <1>2, <2>1, <2>2, SendingStep
<1>6. CASE HandleCodingContinue
  <2>1. CASE lastDone /\ phase' = "complete" /\ PlayAudio("leave")
             /\ UNCHANGED calls
    <3>1. PromptsOK'
      BY <1>1, <2>1, PromptsQuiet DEF Inv, DoneOK
    <3> QED
      BY <1>1, <2>1, <3>1, QuietStep
  <2>2. CASE calls' = Sent(calls, "continue") /\ UNCHANGED audio
    <3>1. PromptsOK'
      BY <1>1, <2>2, PromptsQuiet DEF Inv, audio
    <3> QED
      BY <1>1, <1>2, <2>2, <3>1, SendingStep
  <2> QED
    BY <1>6, <2>1, <2>2 DEF HandleCodingContinue
<1> QED
  BY <1>3, <1>4, <1>5, <1>6 DEF HandleSkip, HandleHint

LEMMA SubmitKeeps ==
  ASSUME Inv, HandleCodeSubmit
  PROVE  Inv'
<1>1. /\ UNCHANGED <<over, endPressed, left, lastDone, prompts, phase>>
      /\ ~submitting /\ submitting' = TRUE /\ calls' = Sent(calls, "code")
  BY DEF HandleCodeSubmit, server, audio
<1>2. "code" \in Kinds
  BY DEF Kinds
<1>3. CallsOK' /\ calls \subseteq calls'
  BY <1>1, <1>2, SentKeeps DEF Inv
<1>4. SubmitLockedWhileReviewing'
  <2>1. \A c \in calls : c.kind # "code"
    BY <1>1 DEF Inv, SubmitLockedWhileReviewing
  <2> QED
    BY <1>1, <2>1, SentIsThere DEF SubmitLockedWhileReviewing
<1>5. ProcessingHasARequest' /\ LeavesOnlyWhenOver'
  BY <1>1, <1>3, SameWait, SameLeft DEF Inv
<1>6. PromptsOK' /\ DoneOK'
  BY <1>1, PromptsQuiet DEF Inv, DoneOK
<1> QED
  BY <1>3, <1>4, <1>5, <1>6 DEF Inv

LEMMA RecorderKeeps ==
  ASSUME Inv,
         \/ StartRecording \/ StopPressed
         \/ \E m \in recorders :
              MicGranted(m) \/ MicDenied(m) \/ RecorderFails(m)
  PROVE  Inv'
<1>1. UNCHANGED <<calls, over, left, lastDone, submitting, endPressed, phase,
                  prompts>>
  BY DEF StartRecording, StopPressed, MicGranted, MicDenied, RecorderFails, ui,
         audio, server, bounds
<1>2. PromptsOK'
  BY <1>1, PromptsQuiet DEF Inv
<1> QED
  BY <1>1, <1>2, QuietStep

LEMMA ReloadKeeps ==
  ASSUME Inv, Reload
  PROVE  Inv'
<1>1. /\ UNCHANGED <<over, endPressed, left>> /\ phase' = "booting"
      /\ submitting' = FALSE /\ lastDone' = FALSE /\ prompts' = {}
      /\ calls' = Sent({}, "exchange") \/ calls' = {}
  BY DEF Reload, server
<1>2. \A c \in calls' : IsCall(c) /\ c.kind = "exchange" /\ c.reply = "none"
  BY <1>1 DEF Sent, IsCall, Kinds
<1>3. CallsOK' /\ SubmitLockedWhileReviewing'
  BY <1>1, <1>2 DEF CallsOK, IsCall, SubmitLockedWhileReviewing
<1>4. PromptsOK' /\ DoneOK' /\ ProcessingHasARequest' /\ LeavesOnlyWhenOver'
  BY <1>1 DEF Inv, PromptsOK, DoneOK, ProcessingHasARequest, LeavesOnlyWhenOver
<1> QED
  BY <1>3, <1>4 DEF Inv

LEMMA InitInv == Init => Inv
<1> SUFFICES ASSUME Init PROVE Inv
  OBVIOUS
<1>1. /\ phase = "booting" /\ submitting = FALSE /\ lastDone = FALSE
      /\ prompts = {} /\ left = "no"
      /\ calls = Sent({}, "exchange") \/ calls = {}
  BY DEF Init
<1>2. \A c \in calls : IsCall(c) /\ c.kind = "exchange" /\ c.reply = "none"
  BY <1>1 DEF Sent, IsCall, Kinds
<1> QED
  BY <1>1, <1>2 DEF Inv, CallsOK, SubmitLockedWhileReviewing, PromptsOK, DoneOK,
                    ProcessingHasARequest, LeavesOnlyWhenOver

LEMMA StepKeeps ==
  ASSUME Inv, [Next]_vars
  PROVE  Inv'
<1>1. CASE Background
  <2>1. Here(calls) \subseteq calls /\ Here(recorders) \subseteq recorders
        /\ Here(prompts) \subseteq prompts
    BY DEF Here
  <2> QED
    BY <1>1, <2>1, ServeKeeps, AnsweredKeeps, RecorderStopsKeeps,
       PromptEventKeeps DEF Background
<1>2. CASE Candidate
  <2>1. Here(recorders) \subseteq recorders
    BY DEF Here
  <2> QED
    BY <1>2, <2>1, ButtonsKeep, SubmitKeeps, RecorderKeeps, ReloadKeeps
       DEF Candidate
<1>3. CASE UNCHANGED vars
  <2>1. UNCHANGED <<calls, over, left, lastDone, submitting, endPressed, phase,
                    prompts>>
    BY <1>3 DEF vars, ui, audio, server, bounds
  <2>2. PromptsOK'
    BY <2>1, PromptsQuiet DEF Inv
  <2> QED
    BY <2>1, <2>2, QuietStep
<1> QED
  BY <1>1, <1>2, <1>3 DEF Next

-----------------------------------------------------------------------------
(* The invariant of the page, from which the theorems follow.              *)
THEOREM PageInvariant == Spec => []Inv
<1>1. Init => Inv
  BY InitInv
<1>2. Inv /\ [Next]_vars => Inv'
  BY StepKeeps
<1> QED
  BY <1>1, <1>2, PTL DEF Spec

(* page.tsx:160, 165, 263: "Transcribing & evaluating" is on the screen    *)
(* only while a turn that was asked for is on its way, whatever arrived    *)
(* or ended in between.                                                    *)
THEOREM WaitsForSomething == Spec => []ProcessingHasARequest
<1>1. Inv => ProcessingHasARequest
  BY DEF Inv
<1> QED
  BY <1>1, PageInvariant, PTL

(* page.tsx:114-129: one review at a time, and the lock is released with   *)
(* it, also when another turn takes the page elsewhere and back.           *)
THEOREM OneReviewAtATime == Spec => []SubmitLockedWhileReviewing
<1>1. Inv => SubmitLockedWhileReviewing
  BY DEF Inv
<1> QED
  BY <1>1, PageInvariant, PTL

(* page.tsx:82-90: no late prompt, turn or review sends the candidate away *)
(* from an interview that goes on and that the candidate has not ended.    *)
THEOREM NobodyIsSentAway == Spec => []LeavesOnlyWhenOver
<1>1. Inv => LeavesOnlyWhenOver
  BY DEF Inv
<1> QED
  BY <1>1, PageInvariant, PTL
=============================================================================
