---------------------------- MODULE CandidatePage ---------------------------
(***************************************************************************)
(* The page a candidate takes the interview on, with its two hooks: the    *)
(* recorder and the player.  JavaScript runs one task at a time, so a step *)
(* of this module is one task: a click, an answer of the server, an event  *)
(* of the recorder or of the audio element.  Everything that waits - the   *)
(* microphone permission, a fetch, the end of a recording - is state of    *)
(* its own, and nothing that was started is ever cancelled by the code.    *)
(*                                                                         *)
(* Left out: what is shown (texts, scores, the transcript), the coding     *)
(* problem that is fetched to be shown, and the audio data itself.  The    *)
(* server is reduced to what the page can tell apart: see Replies.         *)
(***************************************************************************)
EXTENDS Naturals, FiniteSets

CONSTANTS
  MaxPresses,  \* bound: buttons pressed
  MaxReloads   \* bound: reloads of the page

ASSUME PageAssumption == MaxPresses \in Nat /\ MaxReloads \in Nat

VARIABLES
  handoff,     \* "exchanging", "ready" or "failed"
  launched,    \* the candidate came with a launch token of a partner that
               \* gave a redirect URL; urlToken: it is still in the URL
  urlToken,
  returnTo,    \* partnerRedirectRef is set
  started,     \* initializedRef
  phase,       \* what the page shows
  asked,       \* questionIdRef is set
  lastDone,    \* lastTurnCompletedRef
  submitting,  \* codeSubmitting
  isRecording,
  recorders,   \* every recorder that has not reported its end
  recorder,    \* recorderRef
  stream,      \* streamRef, by the recorder it was opened for
  prompts,     \* every prompt being fetched or played
  player,      \* audioRef
  calls,       \* requests on their way and answers on their way back
  left,        \* "no", or where finishRedirect has sent the candidate
  over,        \* server: the interview is completed
  claimed,     \* server: the launch token is used
  endPressed,  \* history: the candidate pressed End
  presses, reloads

ui == <<started, phase, asked, lastDone, submitting>>
mic == <<isRecording, recorders, recorder, stream>>
audio == <<prompts, player>>
link == <<handoff, launched, urlToken, returnTo>>
server == <<over, claimed>>
bounds == <<endPressed, presses, reloads>>
vars == <<ui, mic, audio, link, server, bounds, calls, left>>

None == 0

Screens == {"booting", "playing", "listening", "processing", "coding",
            "code_feedback", "complete"}
Turns == {"turn", "coding", "done"}
TurnKinds == {"start", "answer", "skip", "hint", "continue"}
Kinds == TurnKinds \cup {"exchange", "code", "complete"}

(* What a prompt does when it ends: the onEnded callback.                  *)
Endings == {"listen", "leave", "nothing"}

Recorder == [id : Nat \ {None}, state : {"asking", "recording", "stopping"}]
Prompt == [id : Nat \ {None}, then : Endings,
           state : {"fetching", "starting", "playing", "aborted"}]
Call == [id : Nat \ {None}, kind : Kinds,
         reply : Turns \cup {"none", "failed", "ok"}]

FreshId(S) ==
  CHOOSE i \in 1 .. Cardinality(S) + 1 : \A x \in S : x.id # i

(***************************************************************************)
(* The recorder.                                                           *)
(***************************************************************************)

Recording(id) == \E m \in recorders : m.id = id /\ m.state = "recording"

(* A recorder stops, asked to or because the tracks of its stream end; it  *)
(* reports that in a later task (onstop).                                  *)
Stopped(S, id) ==
  {IF m.id = id /\ m.state = "recording"
   THEN [m EXCEPT !.state = "stopping"] ELSE m : m \in S}

(* isRecording stays set until onstop when there is something to stop.     *)
StopRecording ==
  /\ recorders' = Stopped(recorders,
                          IF Recording(recorder) THEN recorder ELSE stream)
  /\ stream' = IF Recording(recorder) THEN stream ELSE None
  /\ isRecording' = (isRecording /\ Recording(recorder))
  /\ UNCHANGED recorder

(***************************************************************************)
(* The player.  A prompt that is paused before play() has resolved rejects *)
(* it and so still runs its onEnded; one paused later never does.  A       *)
(* prompt that is still being fetched is out of reach of stopAudio.        *)
(***************************************************************************)
Paused(S, id) ==
  {IF p.id = id THEN [p EXCEPT !.state = "aborted"] ELSE p :
     p \in {q \in S : ~(q.id = id /\ q.state = "playing")}}

StopAudio ==
  /\ prompts' = Paused(prompts, player)
  /\ player' = None

PlayAudio(then) ==
  /\ player' = None
  /\ prompts' = Paused(prompts, player) \cup
                {[id |-> FreshId(prompts), then |-> then,
                  state |-> "fetching"]}

(* finishRedirect.                                                         *)
Destination == IF returnTo THEN "partner" ELSE "results"

OnEnded(p) ==
  /\ phase' = IF p.then = "listen" THEN "listening" ELSE phase
  /\ left' = IF p.then = "leave" THEN Destination ELSE left

(***************************************************************************)
(* Requests.                                                               *)
(***************************************************************************)
Sent(S, kind) ==
  S \cup {[id |-> FreshId(S), kind |-> kind, reply |-> "none"]}

(* What the server may answer when it does.  A question and a skip of a    *)
(* completed interview get a completed turn, an answer and code are        *)
(* refused; a hint does not look at the status.                            *)
Replies(kind) ==
  CASE kind \in {"start", "continue", "skip"} ->
         IF over THEN {"done"} ELSE {"turn", "coding"}
    [] kind = "answer" -> IF over THEN {"failed"} ELSE Turns
    [] kind = "hint" -> {"turn", "coding"}
    [] kind = "code" -> IF over THEN {"failed"} ELSE {"ok", "done"}
    [] kind = "complete" -> IF over THEN {"failed"} ELSE {"ok"}
    [] OTHER -> IF claimed THEN {"failed"} ELSE {"ok"}

(* The server handles a request, or fails to; the answer may get lost.     *)
Serve(c) ==
  /\ c.reply = "none"
  /\ \E reply \in Replies(c.kind) \cup {"failed"} :
       /\ \E heard \in {reply, "failed"} :
            calls' = (calls \ {c}) \cup {[c EXCEPT !.reply = heard]}
       /\ over' = (\/ over \/ reply = "done"
                   \/ c.kind = "complete" /\ reply = "ok")
       /\ claimed' = (claimed \/ (c.kind = "exchange" /\ reply = "ok"))
  /\ UNCHANGED <<ui, mic, audio, link, bounds, left>>

(***************************************************************************)
(* Getting in.                                                             *)
(***************************************************************************)
ExchangeAnswered(c) ==
  /\ c.kind = "exchange" /\ c.reply \in {"ok", "failed"}
  /\ calls' = calls \ {c}
  /\ handoff' = IF c.reply = "ok" THEN "ready" ELSE "failed"
  /\ returnTo' = (c.reply = "ok")
  /\ urlToken' = (c.reply # "ok")
  /\ UNCHANGED <<ui, mic, audio, server, bounds, left, launched>>

Press ==
  /\ left = "no" /\ presses < MaxPresses
  /\ presses' = presses + 1

HandleStart ==
  /\ handoff = "ready" /\ ~started
  /\ Press
  /\ started' = TRUE
  /\ calls' = Sent(calls, "start")
  /\ UNCHANGED <<phase, asked, lastDone, submitting, mic, audio, link,
                 server, endPressed, reloads, left>>

(***************************************************************************)
(* A turn arrives.  The page shows it whatever it has shown since the      *)
(* request was sent.  A failed first request leaves the page as it is.     *)
(***************************************************************************)
PlayPrompt(turn) ==
  /\ StopRecording
  /\ lastDone' = (turn = "done")
  /\ asked' = (asked \/ turn # "done")
  /\ CASE turn = "done" -> phase' = "complete" /\ PlayAudio("leave")
       [] turn = "turn" -> phase' = "playing" /\ PlayAudio("listen")
       [] turn = "coding" -> phase' = "coding" /\ UNCHANGED audio

TurnArrives(c) ==
  /\ c.kind \in TurnKinds /\ c.reply \in Turns
  /\ calls' = calls \ {c}
  /\ PlayPrompt(c.reply)
  /\ UNCHANGED <<started, submitting, link, server, bounds, left>>

(* Mutant: the error is shown and the page left as it is.                  *)
TurnFailsSilently(c) ==
  /\ c.kind \in TurnKinds /\ c.reply = "failed"
  /\ calls' = calls \ {c}
  /\ UNCHANGED <<ui, mic, audio, link, server, bounds, left>>

TurnFails(c) ==
  /\ c.kind \in TurnKinds /\ c.reply = "failed"
  /\ calls' = calls \ {c}
  /\ phase' = IF c.kind = "start" THEN phase ELSE "listening"
  /\ UNCHANGED <<started, asked, lastDone, submitting, mic, audio, link,
                 server, bounds, left>>

CodeReviewed(c) ==
  /\ c.kind = "code" /\ c.reply # "none"
  /\ calls' = calls \ {c}
  /\ submitting' = FALSE
  /\ phase' = IF c.reply = "failed" THEN phase ELSE "code_feedback"
  /\ lastDone' = (lastDone \/ c.reply = "done")
  /\ UNCHANGED <<started, asked, mic, audio, link, server, bounds, left>>

(* Whether the server has completed the interview is not looked at.        *)
EndAnswered(c) ==
  /\ c.kind = "complete" /\ c.reply # "none"
  /\ calls' = calls \ {c}
  /\ left' = Destination
  /\ UNCHANGED <<ui, mic, audio, link, server, bounds>>

(***************************************************************************)
(* Buttons.  The coding screen has none of the voice screen's.             *)
(***************************************************************************)
ButtonsShown == started /\ phase \in {"playing", "listening"}

SkipOrHint(kind) ==
  /\ ButtonsShown /\ Press
  /\ StopAudio /\ StopRecording
  /\ phase' = "processing"
  /\ calls' = Sent(calls, kind)
  /\ UNCHANGED <<started, asked, lastDone, submitting, link, server,
                 endPressed, reloads, left>>

HandleSkip == SkipOrHint("skip")
HandleHint == SkipOrHint("hint")

HandleEndInterview ==
  /\ ButtonsShown /\ Press
  /\ StopAudio /\ StopRecording
  /\ calls' = Sent(calls, "complete")
  /\ endPressed' = TRUE
  /\ UNCHANGED <<ui, link, server, reloads, left>>

(* Mutant: the button is not locked.                                       *)
HandleCodeSubmitUnlocked ==
  /\ phase = "coding" /\ Press
  /\ submitting' = TRUE
  /\ calls' = Sent(calls, "code")
  /\ UNCHANGED <<started, phase, asked, lastDone, mic, audio, link, server,
                 endPressed, reloads, left>>

HandleCodeSubmit ==
  /\ phase = "coding" /\ ~submitting
  /\ Press
  /\ submitting' = TRUE
  /\ calls' = Sent(calls, "code")
  /\ UNCHANGED <<started, phase, asked, lastDone, mic, audio, link, server,
                 endPressed, reloads, left>>

(* Mutant: the coding round is taken for the last one.                     *)
HandleCodingFinish ==
  /\ phase = "code_feedback" /\ Press
  /\ phase' = "complete"
  /\ PlayAudio("leave")
  /\ UNCHANGED <<started, asked, lastDone, submitting, mic, link, server,
                 calls, endPressed, reloads, left>>

HandleCodingContinue ==
  /\ phase = "code_feedback" /\ Press
  /\ \/ /\ lastDone
        /\ phase' = "complete"
        /\ PlayAudio("leave")
        /\ UNCHANGED calls
     \/ /\ ~lastDone
        /\ phase' = "processing"
        /\ calls' = Sent(calls, "continue")
        /\ UNCHANGED audio
  /\ UNCHANGED <<started, asked, lastDone, submitting, mic, link, server,
                 endPressed, reloads, left>>

(* Speak stays on the page while the browser asks for the microphone: a    *)
(* second click opens a second recorder.                                   *)
StartRecording ==
  /\ started /\ phase = "listening" /\ ~isRecording
  /\ ~Recording(recorder)
  /\ Press
  /\ recorders' = recorders \cup {[id |-> FreshId(recorders),
                                   state |-> "asking"]}
  /\ UNCHANGED <<ui, isRecording, recorder, stream, audio, link, server,
                 endPressed, reloads, calls, left>>

(* The Stop button of the voice screen, or ten minutes of silence.         *)
StopPressed ==
  /\ left = "no"
  /\ \/ isRecording /\ phase \notin {"coding", "code_feedback"}
     \/ Recording(recorder)
  /\ StopRecording
  /\ UNCHANGED <<ui, audio, link, server, bounds, calls, left>>

(***************************************************************************)
(* Events of the recorder and of the player.                               *)
(***************************************************************************)
MicGranted(m) ==
  /\ m.state = "asking"
  /\ recorders' = (recorders \ {m}) \cup {[m EXCEPT !.state = "recording"]}
  /\ recorder' = m.id /\ stream' = m.id /\ isRecording' = TRUE
  /\ UNCHANGED <<ui, audio, link, server, bounds, calls, left>>

MicDenied(m) ==
  /\ m.state = "asking"
  /\ recorders' = Stopped(recorders \ {m}, stream)
  /\ stream' = None /\ isRecording' = FALSE
  /\ UNCHANGED <<ui, recorder, audio, link, server, bounds, calls, left>>

(* onerror: the recorder reports its end (onstop) after its error.         *)
RecorderFails(m) ==
  /\ m.state = "recording"
  /\ recorders' = Stopped(Stopped(recorders, m.id), stream)
  /\ stream' = None /\ isRecording' = FALSE
  /\ UNCHANGED <<ui, recorder, audio, link, server, bounds, calls, left>>

(* There is no recording before the first question: the test for that in   *)
(* the code never fails.                                                   *)
SubmitRecordedAnswer ==
  \/ /\ asked /\ lastDone
     /\ phase' = "complete"
     /\ PlayAudio("nothing")
     /\ UNCHANGED calls
  \/ /\ asked /\ ~lastDone
     /\ phase' = "processing"
     /\ calls' = Sent(calls, "answer")
     /\ UNCHANGED audio

(* onstop closes whatever stream is open by then and hands the recording   *)
(* in, unless it is empty.                                                 *)
RecorderStops(m) ==
  /\ m.state = "stopping"
  /\ recorders' = Stopped(recorders \ {m}, stream)
  /\ recorder' = None /\ stream' = None /\ isRecording' = FALSE
  /\ \/ SubmitRecordedAnswer
     \/ UNCHANGED <<phase, audio, calls>>
  /\ UNCHANGED <<started, asked, lastDone, submitting, link, server, bounds,
                 left>>

PromptFetched(p) ==
  /\ p.state = "fetching"
  /\ prompts' = (prompts \ {p}) \cup {[p EXCEPT !.state = "starting"]}
  /\ player' = p.id
  /\ UNCHANGED <<ui, mic, link, server, bounds, calls, left>>

PromptPlays(p) ==
  /\ p.state = "starting"
  /\ prompts' = (prompts \ {p}) \cup {[p EXCEPT !.state = "playing"]}
  /\ UNCHANGED <<ui, mic, player, link, server, bounds, calls, left>>

(* Mutant: a prompt that cannot be played ends nothing.                    *)
PromptFailsSilently(p) ==
  /\ p.state \in {"fetching", "starting", "aborted"}
  /\ prompts' = prompts \ {p}
  /\ player' = IF player = p.id THEN None ELSE player
  /\ UNCHANGED <<ui, mic, link, server, bounds, calls, left>>

(* The fetch fails, the browser refuses to play or play() was interrupted. *)
(* An element that has failed need not be remembered in audioRef: pausing  *)
(* it has no effect.                                                       *)
PromptFails(p) ==
  /\ p.state \in {"fetching", "starting", "aborted"}
  /\ prompts' = prompts \ {p}
  /\ player' = IF player = p.id THEN None ELSE player
  /\ OnEnded(p)
  /\ UNCHANGED <<started, asked, lastDone, submitting, mic, link, server,
                 bounds, calls>>

(* audioRef is cleared whichever element it refers to.                     *)
PromptEnds(p) ==
  /\ p.state = "playing"
  /\ prompts' = prompts \ {p}
  /\ player' = None
  /\ OnEnded(p)
  /\ UNCHANGED <<started, asked, lastDone, submitting, mic, link, server,
                 bounds, calls>>

(* The session token survives in the tab, the URL keeps a launch token     *)
(* until it is exchanged; everything else of the page is lost.             *)
Reload ==
  /\ left = "no" /\ reloads < MaxReloads
  /\ reloads' = reloads + 1
  /\ handoff' = IF urlToken THEN "exchanging" ELSE "ready"
  /\ calls' = IF urlToken THEN Sent({}, "exchange") ELSE {}
  /\ returnTo' = FALSE
  /\ started' = FALSE /\ phase' = "booting" /\ asked' = FALSE
  /\ lastDone' = FALSE /\ submitting' = FALSE
  /\ isRecording' = FALSE /\ recorders' = {}
  /\ recorder' = None /\ stream' = None
  /\ prompts' = {} /\ player' = None
  /\ UNCHANGED <<launched, urlToken, server, endPressed, presses, left>>

(***************************************************************************)
(* The page.                                                               *)
(***************************************************************************)
Init ==
  /\ launched \in BOOLEAN /\ urlToken = launched
  /\ handoff = IF launched THEN "exchanging" ELSE "ready"
  /\ calls = IF launched THEN Sent({}, "exchange") ELSE {}
  /\ returnTo = FALSE /\ started = FALSE /\ phase = "booting"
  /\ asked = FALSE /\ lastDone = FALSE /\ submitting = FALSE
  /\ isRecording = FALSE /\ recorders = {}
  /\ recorder = None /\ stream = None
  /\ prompts = {} /\ player = None
  /\ left = "no" /\ over = FALSE /\ claimed = FALSE
  /\ endPressed = FALSE /\ presses = 0 /\ reloads = 0

(* Leaving ends the page; what still arrives after that is left out.       *)
Here(S) == IF left = "no" THEN S ELSE {}

Answered(c) ==
  ExchangeAnswered(c) \/ TurnArrives(c) \/ TurnFails(c) \/ CodeReviewed(c)
    \/ EndAnswered(c)

PromptEvent(p) ==
  PromptFetched(p) \/ PromptPlays(p) \/ PromptFails(p) \/ PromptEnds(p)

(* Fetches settle and the browser reports what it started.                 *)
Background ==
  \/ \E c \in Here(calls) : Serve(c) \/ Answered(c)
  \/ \E m \in Here(recorders) : RecorderStops(m)
  \/ \E p \in Here(prompts) : PromptEvent(p)

(* What the candidate does, or leaves undone.                              *)
Candidate ==
  \/ HandleStart \/ HandleSkip \/ HandleHint \/ HandleEndInterview
  \/ HandleCodeSubmit \/ HandleCodingContinue
  \/ StartRecording \/ StopPressed
  \/ \E m \in Here(recorders) :
       MicGranted(m) \/ MicDenied(m) \/ RecorderFails(m)
  \/ Reload

Next == Background \/ Candidate

Spec == Init /\ [][Next]_vars

(* The candidate need not press anything, nor answer the request for the   *)
(* microphone.                                                             *)
FairSpec == Spec /\ WF_vars(Background)

(***************************************************************************)
(* Properties.                                                             *)
(***************************************************************************)
TypeOK ==
  /\ handoff \in {"exchanging", "ready", "failed"}
  /\ launched \in BOOLEAN /\ urlToken \in BOOLEAN /\ returnTo \in BOOLEAN
  /\ started \in BOOLEAN /\ phase \in Screens /\ asked \in BOOLEAN
  /\ lastDone \in BOOLEAN /\ submitting \in BOOLEAN
  /\ isRecording \in BOOLEAN /\ recorders \subseteq Recorder
  /\ recorder \in Nat /\ stream \in Nat
  /\ prompts \subseteq Prompt /\ player \in Nat
  /\ calls \subseteq Call
  /\ left \in {"no", "partner", "results"}
  /\ over \in BOOLEAN /\ claimed \in BOOLEAN
  /\ endPressed \in BOOLEAN /\ presses \in Nat /\ reloads \in Nat

(* "Transcribing & evaluating" is shown only while the page waits for a    *)
(* turn: however clicks, recordings, late prompts and answers overlap, the *)
(* page never waits for nothing.                                           *)
ProcessingHasARequest ==
  phase = "processing" => \E c \in calls : c.kind \in TurnKinds \ {"start"}

(* The submit button of the coding round is locked exactly while one       *)
(* review is under way, also when a turn that was on its way takes the     *)
(* page elsewhere and back.                                                *)
SubmitLockedWhileReviewing ==
  /\ submitting <=> \E c \in calls : c.kind = "code"
  /\ \A c, d \in calls : c.kind = "code" /\ d.kind = "code" => c = d

(* The candidate is only sent away from an interview that is completed or  *)
(* that the candidate has ended, whichever prompt or answer was late.      *)
LeavesOnlyWhenOver == left # "no" => over \/ endPressed

(* No spinner and no silent player: a page that waits for a turn or plays  *)
(* a prompt gets on by itself.                                             *)
NoScreenIsForever ==
  \A s \in {"processing", "playing"} :
    phase = s ~> phase # s \/ left # "no"

(* PARTNER_API.md:103: a candidate who was sent by a partner with a        *)
(* redirect URL is sent back there in the end.                             *)
ReturnsToPartner == launched /\ left # "no" => left = "partner"
=============================================================================
