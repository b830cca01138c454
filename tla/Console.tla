------------------------------- MODULE Console ------------------------------
(***************************************************************************)
(* The other pages of the web application, in one browser tab: dashboard,  *)
(* library, results, one response, the two reports and the replay.  Each   *)
(* loads what it shows once, when it is mounted; nothing is cancelled when *)
(* the tab goes elsewhere, so answers may be late, and meanwhile the       *)
(* interviews go on in other browsers.                                     *)
(*                                                                         *)
(* A page of another path or parameter is a new mount with a state of its  *)
(* own (Next.js).  Left out: texts and scores, how long a message is       *)
(* shown, the topic filter, the themes, follow-ups and what happens on the *)
(* interview page before it is left.                                       *)
(***************************************************************************)
EXTENDS Naturals, Sequences

CONSTANTS
  Existing,       \* interviews there are at the start
  MaxInterviews,  \* bound: interviews in all
  MaxResponses,   \* bound: responses of an interview
  MaxMoves        \* bound: what the user does, opening the tab included

ASSUME ConsoleAssumption ==
  /\ Existing \in Nat /\ MaxInterviews \in Nat /\ MaxResponses \in Nat
  /\ MaxMoves \in Nat \ {0} /\ Existing <= MaxInterviews

VARIABLES
  where,      \* the place the tab is at
  past,       \* the places before it
  mount,      \* which mount of a page this is: the move that opened it
  shown,      \* the page's data and the place they were loaded for
  loading, creating,
  picked,     \* replay: cursor; candidate report: expandedId
  fetches,    \* loads on their way
  creates,    \* requests to create an interview, and their answers
  toasts,     \* messages shown so far
  interviews, \* server: status and responses
  moves

page == <<where, past, mount, shown, loading, creating, picked>>
vars == <<page, fetches, creates, toasts, interviews, moves>>

Listing == {"home", "library"}
OutcomePages == {"results", "report", "candidate"}
OfInterview == OutcomePages \cup {"replay"}
Statuses == {"in_progress", "completed"}
(* A skipped response is never evaluated and counts as open here.          *)
Outcomes == {"open", "reviewed"}

(* interview and response are 0 where a place has none.                    *)
Place(name, interview, response) ==
  [page |-> name, interview |-> interview, response |-> response]

Places ==
  [page : Listing \cup OfInterview \cup {"settings", "interview", "response"},
   interview : Nat, response : Nat]

(* What the effect of each page loads when it is mounted; two requests are *)
(* awaited together (Promise.all).                                         *)
DashboardLoads == {"list"}
LibraryLoads == {"list"}
ResultsLoads == {"evaluation", "responses"}
ResponseLoads == {"response"}
ReportLoads == {"report"}
CandidateLoads == {"report", "transcript"}
ReplayLoads == {"transcript"}

Loads ==
  [home |-> DashboardLoads, library |-> LibraryLoads,
   results |-> ResultsLoads, response |-> ResponseLoads,
   report |-> ReportLoads, candidate |-> CandidateLoads,
   replay |-> ReplayLoads, settings |-> {}, interview |-> {}]

Endpoints(name) == Loads[name]

Nothing == [place |-> Place("settings", 0, 0), data |-> << >>]
Loaded == shown # Nothing

(***************************************************************************)
(* The server's reads.                                                     *)
(***************************************************************************)
Completed(i) == interviews[i].status = "completed"

(* Mutant: GetInterviewEvaluation does not look at the status.             *)
RefusedIfReport(endpoint, place) ==
  \/ endpoint = "report" /\ ~Completed(place.interview)
  \/ /\ endpoint = "response"
     /\ interviews[place.interview].responses[place.response] # "reviewed"

(* GetInterviewEvaluation and GetInterviewReport want a completed          *)
(* interview, and GetResponseEvaluation an evaluation.                     *)
Refused(endpoint, place) ==
  \/ endpoint \in {"evaluation", "report"} /\ ~Completed(place.interview)
  \/ /\ endpoint = "response"
     /\ interviews[place.interview].responses[place.response] # "reviewed"

ListRead == [i \in DOMAIN interviews |-> interviews[i].status]
ResponsesRead(i) == interviews[i].responses
TranscriptRead(i) == interviews[i].responses

(* Of an evaluation and a report only that they came is of interest.       *)
Read(endpoint, place) ==
  IF endpoint = "list" THEN ListRead
  ELSE IF endpoint = "responses" THEN ResponsesRead(place.interview)
  ELSE IF endpoint = "transcript" THEN TranscriptRead(place.interview)
  ELSE << >>

(***************************************************************************)
(* What each page puts on the screen.                                      *)
(***************************************************************************)
DashboardScreen ==
  IF loading THEN "skeleton"
  ELSE IF shown.data = << >> THEN "no interviews yet" ELSE "list"

LibraryScreen ==
  IF loading THEN "skeleton"
  ELSE IF shown.data = << >> THEN "no interviews yet" ELSE "list"

ResultsScreen ==
  IF loading THEN "skeleton" ELSE IF Loaded THEN "summary" ELSE "heading"

ResponseScreen ==
  IF loading THEN "skeleton"
  ELSE IF Loaded THEN "evaluation" ELSE "evaluation not found"

ReportScreen ==
  IF loading THEN "skeleton" ELSE IF Loaded THEN "report" ELSE "blank"

CandidateScreen ==
  IF loading THEN "skeleton" ELSE IF Loaded THEN "report" ELSE "blank"

ReplayScreen ==
  IF loading THEN "skeleton"
  ELSE IF shown.data = << >> THEN "no responses yet" ELSE "replay"

Screen ==
  [home |-> DashboardScreen, library |-> LibraryScreen,
   results |-> ResultsScreen, response |-> ResponseScreen,
   report |-> ReportScreen, candidate |-> CandidateScreen,
   replay |-> ReplayScreen, settings |-> "other",
   interview |-> "other"][where.page]

(***************************************************************************)
(* Loading.                                                                *)
(***************************************************************************)
Fetch(id, place) ==
  [id |-> id, mount |-> id, place |-> place, wanted |-> Endpoints(place.page),
   data |-> << >>, failed |-> FALSE]

(* Mutant: a request that is refused is not answered.                      *)
ServeReadIfAllowed(f) ==
  /\ \E endpoint \in f.wanted :
       /\ ~Refused(endpoint, f.place)
       /\ fetches' = (fetches \ {f}) \cup
               {[f EXCEPT !.wanted = @ \ {endpoint},
                          !.data = @ \o Read(endpoint, f.place)]}
  /\ UNCHANGED <<page, creates, toasts, interviews, moves>>

(* One request is answered; Promise.all rejects with the first that fails. *)
(* A page that shows a list keeps it, any other the responses it got.      *)
ServeRead(f) ==
  /\ \E endpoint \in f.wanted :
       \/ /\ ~Refused(endpoint, f.place)
          /\ fetches' = (fetches \ {f}) \cup
               {[f EXCEPT !.wanted = @ \ {endpoint},
                          !.data = @ \o Read(endpoint, f.place)]}
       \/ fetches' = (fetches \ {f}) \cup
               {[f EXCEPT !.wanted = {}, !.failed = TRUE]}
  /\ UNCHANGED <<page, creates, toasts, interviews, moves>>

(* then, catch and finally of a load that has ended.  The state of a page  *)
(* that is gone is gone.                                                   *)
End(f, told) ==
  LET mine == f.mount = mount
  IN  /\ f.wanted = {} /\ fetches' = fetches \ {f}
      /\ loading' = (loading /\ ~mine)
      /\ shown' = IF mine /\ ~f.failed
                  THEN [place |-> f.place, data |-> f.data] ELSE shown
      /\ toasts' = toasts + (IF told THEN 1 ELSE 0)
      /\ UNCHANGED <<where, past, mount, creating, picked, creates,
                     interviews, moves>>

(* Mutant: a failure is not told.                                          *)
SettledSilently(f) == End(f, FALSE)

(* The message is shown wherever the tab is by now.                        *)
Settled(f) == End(f, f.failed)

(***************************************************************************)
(* Going somewhere.                                                        *)
(***************************************************************************)
Mount(place, id) ==
  /\ where' = place /\ mount' = id
  /\ shown' = Nothing /\ picked' = 0 /\ creating' = FALSE
  /\ loading' = (Endpoints(place.page) # {})
  /\ fetches' = fetches \cup
       (IF Endpoints(place.page) # {} THEN {Fetch(id, place)} ELSE {})

Push(place, id) ==
  /\ past' = Append(past, where)
  /\ Mount(place, id)

Move == moves < MaxMoves /\ moves' = moves + 1

(* The menu and the buttons of the shell.                                  *)
MenuLinks == {Place(p, 0, 0) : p \in {"home", "library", "settings"}}

(* Mutant: the list has no status to go by.                                *)
LinkToResults(i) == Place("results", i, 0)

(* done ? `/results/${item.id}` : `/interview/${item.id}`                  *)
LinkOf(i) ==
  Place(IF shown.data[i] = "completed" THEN "results" ELSE "interview", i, 0)

(* The five newest, and all of them.                                       *)
RecentLinks ==
  {LinkOf(i) : i \in {j \in DOMAIN shown.data :
     where.page = "home" /\ Screen = "list" /\ j + 5 > Len(shown.data)}}

LibraryLinks ==
  {LinkOf(i) : i \in {j \in DOMAIN shown.data :
     where.page = "library" /\ Screen = "list"}}

CardLinks ==
  {Place("response", where.interview, r) :
     r \in {j \in DOMAIN shown.data : Screen = "summary"}}

(* A URL can be typed or kept for any interview, whatever its status; no   *)
(* page links to the reports and the replay.  (The interview page is also  *)
(* reached from the lists.)                                                *)
AddressBar ==
  {Place(p, i, 0) : p \in OfInterview, i \in DOMAIN interviews} \cup
  UNION {{Place("response", i, r) : r \in DOMAIN interviews[i].responses} :
           i \in DOMAIN interviews}

FollowLink ==
  /\ Move
  /\ \E place \in MenuLinks \cup RecentLinks \cup LibraryLinks \cup CardLinks
                    \cup AddressBar :
       place # where /\ Push(place, moves')
  /\ UNCHANGED <<creates, toasts, interviews>>

(* "Go back" of a response, or of the browser.                             *)
Back ==
  /\ past # << >> /\ Move
  /\ past' = SubSeq(past, 1, Len(past) - 1)
  /\ Mount(past[Len(past)], moves')
  /\ UNCHANGED <<creates, toasts, interviews>>

Conclude(i) == interviews' = [interviews EXCEPT ![i].status = "completed"]

(* handleEndInterview, from the press to the redirect: the interview page  *)
(* is left for the results also when the completion failed.  The end of    *)
(* the last turn leads there as well.                                      *)
EndInterview ==
  /\ where.page = "interview" /\ Move
  /\ Conclude(where.interview) \/ UNCHANGED interviews
  /\ Push(Place("results", where.interview, 0), moves')
  /\ UNCHANGED <<creates, toasts>>

(***************************************************************************)
(* What the pages offer.                                                   *)
(***************************************************************************)
(* The library's Refresh does not wait for the list that is on its way.    *)
LoadInterviews ==
  /\ where.page = "library" /\ Move
  /\ loading' = TRUE
  /\ fetches' = fetches \cup {[Fetch(moves', where) EXCEPT !.mount = mount]}
  /\ UNCHANGED <<where, past, mount, shown, creating, picked, creates, toasts,
                 interviews>>

(* The button is locked while an interview is being created, the Enter key *)
(* is not.                                                                 *)
HandleStart ==
  /\ where.page = "home" /\ Move
  /\ creating' = TRUE
  /\ creates' = creates \cup {[id |-> moves', mount |-> mount,
                               state |-> "sent", interview |-> 0]}
  /\ UNCHANGED <<where, past, mount, shown, loading, picked, fetches, toasts,
                 interviews>>

InsertInterview ==
  /\ Len(interviews) < MaxInterviews
  /\ interviews' = Append(interviews,
                          [status |-> "in_progress", responses |-> << >>])

ServeCreate(c) ==
  /\ c.state = "sent"
  /\ \/ /\ InsertInterview
        /\ creates' = (creates \ {c}) \cup
             {[c EXCEPT !.state = "created", !.interview = Len(interviews')]}
     \/ /\ creates' = (creates \ {c}) \cup {[c EXCEPT !.state = "failed"]}
        /\ UNCHANGED interviews
  /\ UNCHANGED <<page, fetches, toasts, moves>>

(* The tab goes to the new interview wherever it is by now; the interview  *)
(* page has no state here, its mounts are all called 0.                    *)
CreateAnswered(c) ==
  /\ c.state # "sent" /\ creates' = creates \ {c}
  /\ toasts' = toasts + 1
  /\ IF c.state = "created" /\ where # Place("interview", c.interview, 0)
     THEN Push(Place("interview", c.interview, 0), 0)
     ELSE /\ creating' = (creating /\ c.mount # mount)
          /\ UNCHANGED <<where, past, mount, shown, loading, picked, fetches>>
  /\ UNCHANGED <<interviews, moves>>

Chosen(choices) ==
  /\ picked' \in choices
  /\ UNCHANGED <<where, past, mount, shown, loading, creating, fetches,
                 creates, toasts, interviews, moves>>

(* Previous, Next and the numbers of the replay.                           *)
TurnPage ==
  /\ Screen = "replay"
  /\ Chosen({j - 1 : j \in DOMAIN shown.data})

(* A row of the candidate report opens, and closes the one that was open.  *)
Expand ==
  /\ where.page = "candidate" /\ Screen = "report"
  /\ Chosen({0} \cup DOMAIN shown.data)

(* Elsewhere, interviews are created and go on: a question is asked or     *)
(* answered, and the interview is completed.                               *)
CreatedElsewhere ==
  /\ InsertInterview
  /\ UNCHANGED <<page, fetches, creates, toasts, moves>>

InterviewGoesOn(i) ==
  LET interview == interviews[i]
  IN  /\ interview.status = "in_progress"
      /\ \/ /\ Len(interview.responses) < MaxResponses
            /\ interviews' = [interviews EXCEPT
                                ![i].responses = Append(@, "open")]
         \/ \E r \in DOMAIN interview.responses :
              /\ interview.responses[r] = "open"
              /\ interviews' = [interviews EXCEPT
                                  ![i].responses[r] = "reviewed"]
         \/ Conclude(i)
      /\ UNCHANGED <<page, fetches, creates, toasts, moves>>

-----------------------------------------------------------------------------
Init ==
  /\ where = Place("home", 0, 0) /\ past = << >> /\ mount = 1
  /\ shown = Nothing /\ loading = TRUE /\ creating = FALSE /\ picked = 0
  /\ fetches = {Fetch(1, where)} /\ creates = {} /\ toasts = 0 /\ moves = 1
  /\ interviews = [i \in 1 .. Existing |->
                     [status |-> "in_progress", responses |-> << >>]]

Network ==
  \/ \E f \in fetches : ServeRead(f) \/ Settled(f)
  \/ \E c \in creates : ServeCreate(c) \/ CreateAnswered(c)

User ==
  \/ FollowLink \/ Back \/ EndInterview
  \/ LoadInterviews \/ HandleStart \/ TurnPage \/ Expand

Next ==
  \/ Network \/ User \/ CreatedElsewhere
  \/ \E i \in DOMAIN interviews : InterviewGoesOn(i)

Spec == Init /\ [][Next]_vars

(* Fetches settle.                                                         *)
FairSpec == Spec /\ WF_vars(Network)

(***************************************************************************)
(* Properties.                                                             *)
(***************************************************************************)
Reads == {"list", "evaluation", "responses", "response", "report", "transcript"}
Data == Seq(Statuses \cup Outcomes)
Load == [id : Nat, mount : Nat \ {0}, place : Places, wanted : SUBSET Reads,
         data : Data, failed : BOOLEAN]
Create == [id : Nat, mount : Nat, state : {"sent", "created", "failed"},
           interview : Nat]
Interview == [status : Statuses, responses : Seq(Outcomes)]

TypeOK ==
  /\ where \in Places /\ past \in Seq(Places)
  /\ moves \in Nat \ {0} /\ mount \in 0 .. moves
  /\ shown \in [place : Places, data : Data]
  /\ loading \in BOOLEAN /\ creating \in BOOLEAN /\ picked \in Nat
  /\ fetches \subseteq Load /\ creates \subseteq Create
  /\ toasts \in Nat
  /\ interviews \in Seq(Interview)

(* However a page about the outcome is reached, by a typed URL or after a  *)
(* completion that failed, it shows one of a completed interview only.     *)
OutcomeOnlyOfCompleted ==
  where.page \in OutcomePages /\ Loaded => Completed(where.interview)

(* A list that is out of date leads to the results only of an interview    *)
(* that is completed.                                                      *)
ListsLeadToResults ==
  \A place \in RecentLinks \cup LibraryLinks :
    place.page = "results" => Completed(place.interview)

(* A page that stops loading has something to show or has said why not.    *)
FailuresAreTold ==
  [][loading /\ ~loading' /\ where' = where =>
       Loaded' \/ toasts' > toasts]_vars

(* Whatever is refused or lost, every page stops loading.                  *)
PagesLoad == loading ~> ~loading
=============================================================================
