---------------------------- MODULE ConsoleProofs ---------------------------
(***************************************************************************)
(* For any number of interviews, responses and moves: an outcome is only   *)
(* shown of a completed interview, lists lead to results only of such, and *)
(* no page stops loading without a word.                                   *)
(***************************************************************************)
EXTENDS Console, SequenceTheorems, TLAPS

(* The interview page has no mount of its own, and nothing to load.        *)
MountsDiffer ==
  /\ mount = 0 => where.page = "interview"
  /\ loading => Endpoints(where.page) # {}

(* An interview a place is of exists.                                      *)
PlaceOK(place) ==
  place.page \in OfInterview \cup {"response", "interview"} =>
    place.interview \in DOMAIN interviews

PlacesOK == PlaceOK(where) /\ \A k \in DOMAIN past : PlaceOK(past[k])

(* A list may be old, but what it calls completed is.                      *)
ListOK(data) ==
  \A i \in DOMAIN data :
    i \in DOMAIN interviews /\ (data[i] = "completed" => Completed(i))

ShownOK ==
  Loaded =>
    /\ shown.place = where
    /\ where.page \in Listing => ListOK(shown.data)
    /\ where.page \in OutcomePages => Completed(where.interview)

(* What is on its way was asked by this page for this place, or by a page  *)
(* that is gone.                                                           *)
LoadOK(f) ==
  /\ f.mount <= moves
  /\ f.mount = mount => f.place = where
  /\ PlaceOK(f.place)
  /\ Endpoints(f.place.page) # {} /\ f.wanted \subseteq Endpoints(f.place.page)
  /\ "list" \in f.wanted => f.data = << >>
  /\ f.place.page \in Listing => ListOK(f.data)
  /\ /\ f.place.page \in OutcomePages /\ ~f.failed
     /\ f.wanted \cap {"evaluation", "report"} = {}
     => Completed(f.place.interview)

LoadsOK == \A f \in fetches : LoadOK(f)

CreatesOK ==
  \A c \in creates :
    c.state = "created" => c.interview \in DOMAIN interviews

Inv ==
  TypeOK /\ MountsDiffer /\ PlacesOK /\ ShownOK /\ LoadsOK /\ CreatesOK

(* Interviews are not lost and stay completed.                             *)
Grows ==
  /\ interviews' \in Seq(Interview)
  /\ DOMAIN interviews \subseteq DOMAIN interviews'
  /\ \A i \in DOMAIN interviews : Completed(i) => Completed(i)'

-----------------------------------------------------------------------------
LEMMA EndpointsAreNames ==
  ASSUME NEW place \in Places
  PROVE  /\ Endpoints(place.page) \in SUBSET Reads
         /\ place.page \in Listing => Endpoints(place.page) = {"list"}
         /\ "list" \in Endpoints(place.page) => place.page \in Listing
         /\ place.page \in {"settings", "interview"} =>
              Endpoints(place.page) = {}
         /\ Endpoints(place.page) \cap {"responses", "transcript"} # {} =>
              place.page \in OfInterview
         /\ place.page \in OutcomePages =>
              Endpoints(place.page) \cap {"evaluation", "report"} # {}
<1> DEFINE p == place.page
<1>1. p \in {"home", "library", "results", "report", "candidate", "replay",
            "settings", "interview", "response"}
  BY DEF Places, Listing, OfInterview, OutcomePages
<1>2. /\ p = "home" => Endpoints(p) = {"list"}
      /\ p = "library" => Endpoints(p) = {"list"}
      /\ p = "results" => Endpoints(p) = {"evaluation", "responses"}
      /\ p = "report" => Endpoints(p) = {"report"}
      /\ p = "candidate" => Endpoints(p) = {"report", "transcript"}
      /\ p = "replay" => Endpoints(p) = {"transcript"}
      /\ p = "response" => Endpoints(p) = {"response"}
      /\ p \in {"settings", "interview"} => Endpoints(p) = {}
  BY DEF Endpoints, Loads, DashboardLoads, LibraryLoads, ResultsLoads,
     ResponseLoads, ReportLoads, CandidateLoads, ReplayLoads
<1> HIDE DEF p
<1>3. Endpoints(p) \subseteq Reads
  BY <1>1, <1>2 DEF Reads
<1>4. /\ p \in Listing => Endpoints(p) = {"list"}
      /\ p \in {"settings", "interview"} => Endpoints(p) = {}
  BY <1>2 DEF Listing
<1>5. "list" \in Endpoints(p) => p \in Listing
  BY <1>1, <1>2 DEF Listing
<1>6. Endpoints(p) \cap {"responses", "transcript"} # {} => p \in OfInterview
  BY <1>1, <1>2 DEF OfInterview, OutcomePages
<1>7. p \in OutcomePages => Endpoints(p) \cap {"evaluation", "report"} # {}
  BY <1>2 DEF OutcomePages
<1> QED
  BY <1>3, <1>4, <1>5, <1>6, <1>7 DEF p

LEMMA GrowsKeeps ==
  ASSUME Grows
  PROVE  /\ \A place : PlaceOK(place) => PlaceOK(place)'
         /\ \A data : ListOK(data) => ListOK(data)'
         /\ \A i \in DOMAIN interviews : Completed(i) => Completed(i)'
<1>1. \A place : PlaceOK(place) => PlaceOK(place)'
  BY DEF Grows, PlaceOK, OfInterview
<1>2. \A data : ListOK(data) => ListOK(data)'
  BY DEF Grows, ListOK
<1> QED
  BY <1>1, <1>2 DEF Grows

(* A request that is neither new nor answered stays as good as it was.     *)
LEMMA LoadStays ==
  ASSUME Inv, Grows, NEW f \in fetches, moves' \in Nat, moves <= moves',
         mount' = 0 \/ mount' > moves \/ (mount' = mount /\ where' = where)
  PROVE  f \in Load /\ LoadOK(f)'
<1>1. f \in Load /\ LoadOK(f) /\ moves \in Nat /\ f.mount \in Nat \ {0}
  BY DEF Inv, TypeOK, LoadsOK, Load
<1>2. f.mount <= moves' /\ (f.mount = mount' => f.place = where')
  BY <1>1 DEF LoadOK
<1>3. PlaceOK(f.place)' /\ (f.place.page \in Listing => ListOK(f.data)')
  BY <1>1, GrowsKeeps DEF LoadOK
<1>4. /\ f.place.page \in OutcomePages /\ ~f.failed
      /\ f.wanted \cap {"evaluation", "report"} = {}
      => Completed(f.place.interview)'
  BY <1>1, GrowsKeeps DEF LoadOK, PlaceOK, OfInterview
<1> QED
  BY <1>1, <1>2, <1>3, <1>4 DEF LoadOK

LEMMA MountKeeps ==
  ASSUME Inv, Grows, NEW place \in Places, NEW n \in Nat,
         PlaceOK(place)',
         moves' \in Nat, n <= moves', moves <= moves',
         n = 0 => place.page = "interview",
         n = 0 \/ n > moves,
         Mount(place, n)
  PROVE  /\ where' \in Places /\ loading' \in BOOLEAN /\ mount' \in 0 .. moves'
         /\ creating' \in BOOLEAN /\ picked' \in Nat
         /\ shown' \in [place : Places, data : Data]
         /\ fetches' \subseteq Load
         /\ MountsDiffer' /\ PlaceOK(where)' /\ LoadsOK' /\ ShownOK'
<1>1. Nothing \in [place : Places, data : Data]
  BY DEF Nothing, Place, Places, Data
<1>2. where' = place /\ mount' = n /\ shown' = Nothing /\ picked' = 0
  BY DEF Mount
<1>3. creating' \in BOOLEAN /\ loading' \in BOOLEAN
  BY Zenon DEF Mount
<1>4. ASSUME Endpoints(place.page) # {}
      PROVE  Fetch(n, place) \in Load /\ LoadOK(Fetch(n, place))'
  <2>1. n # 0
    BY <1>4, EndpointsAreNames
  <2>2. Fetch(n, place) \in Load
    BY <2>1, EndpointsAreNames DEF Fetch, Load, Data
  <2> DEFINE g == Fetch(n, place)
  <2>3. /\ g.mount = n /\ g.place = place /\ g.data = << >>
        /\ g.wanted = Endpoints(place.page)
    BY DEF Fetch
  <2> HIDE DEF g
  <2>4. LoadOK(g)'
    BY <1>2, <1>4, <2>3, EndpointsAreNames DEF LoadOK, ListOK
  <2> QED
    BY <2>2, <2>4 DEF g
<1>5. \A f \in fetches : f \in Load /\ LoadOK(f)'
  BY <1>2, LoadStays
<1>6. fetches' \subseteq Load /\ LoadsOK'
  BY <1>4, <1>5 DEF Mount, LoadsOK
<1>7. MountsDiffer'
  BY <1>2 DEF Mount, MountsDiffer
<1>8. ShownOK' /\ PlaceOK(where)'
  BY <1>2 DEF ShownOK, Loaded
<1>9. mount' \in 0 .. moves'
  BY <1>2
<1> QED
  BY <1>1, <1>2, <1>3, <1>6, <1>7, <1>8, <1>9

(* What a page must have loaded for a list or a summary to be seen.        *)
LEMMA ScreenShows ==
  ASSUME Inv
  PROVE  /\ Screen = "list" => Loaded
         /\ Screen = "summary" => where.page = "results"
<1> DEFINE p == where.page
<1>1. p \in {"home", "library", "results", "report", "candidate", "replay",
            "settings", "interview", "response"}
  BY DEF Inv, TypeOK, Places, Listing, OfInterview, OutcomePages
<1>2. /\ p \in {"settings", "interview"} => Screen = "other"
      /\ p = "home" => Screen = DashboardScreen
      /\ p = "library" => Screen = LibraryScreen
      /\ p = "report" => Screen = ReportScreen
      /\ p = "results" => Screen = ResultsScreen
      /\ p = "candidate" => Screen = CandidateScreen
      /\ p = "replay" => Screen = ReplayScreen
      /\ p = "response" => Screen = ResponseScreen
  BY DEF Screen
<1> HIDE DEF p
<1>3. DashboardScreen # "summary" /\ LibraryScreen # "summary"
  BY DEF DashboardScreen, LibraryScreen
<1>4. ReportScreen \notin {"list", "summary"} /\ ResultsScreen # "list"
  BY DEF ReportScreen, ResultsScreen
<1>5. CandidateScreen \notin {"list", "summary"}
  BY DEF CandidateScreen
<1>6. ReplayScreen \notin {"list", "summary"}
  BY DEF ReplayScreen
<1>7. ResponseScreen \notin {"list", "summary"}
  BY DEF ResponseScreen
<1>8. DashboardScreen = "list" \/ LibraryScreen = "list" => Loaded
  BY DEF DashboardScreen, LibraryScreen, Loaded, Nothing
<1>9. Screen = "summary" => p = "results"
  BY <1>1, <1>2, <1>3, <1>4, <1>5, <1>6, <1>7
<1>10. Screen = "list" => Loaded
  BY <1>1, <1>2, <1>4, <1>5, <1>6, <1>7, <1>8
<1> QED
  BY <1>9, <1>10 DEF p

(* A link leads to a place of an interview there is.                       *)
LEMMA LinksOK ==
  ASSUME Inv,
         NEW place \in MenuLinks \cup RecentLinks \cup LibraryLinks
                          \cup CardLinks \cup AddressBar
  PROVE  place \in Places /\ PlaceOK(place)
<1>1. \A i \in DOMAIN shown.data : i \in Nat
  BY DEF Inv, TypeOK, Data
<1>2. \A i \in DOMAIN interviews : i \in Nat
  BY DEF Inv, TypeOK
<1>3. where.interview \in Nat
  BY DEF Inv, TypeOK, Places
<1>4. CASE place \in MenuLinks
  BY <1>4 DEF MenuLinks, Places, Place, Listing, PlaceOK, OfInterview, OutcomePages
<1>5. ASSUME NEW i \in DOMAIN shown.data, ListOK(shown.data), place = LinkOf(i)
      PROVE  place \in Places /\ PlaceOK(place)
  <2>1. i \in Nat /\ i \in DOMAIN interviews
    BY <1>1, <1>5 DEF ListOK
  <2>2. CASE shown.data[i] = "completed"
    <3>1. place = Place("results", i, 0) /\ Completed(i)
      BY <1>5, <2>2 DEF LinkOf, ListOK
    <3> QED
      BY <2>1, <3>1 DEF Place, Places, PlaceOK, OfInterview, OutcomePages
  <2>3. CASE shown.data[i] # "completed"
    <3>1. place = Place("interview", i, 0)
      BY <1>5, <2>3 DEF LinkOf
    <3> QED
      BY <2>1, <3>1 DEF Place, Places, PlaceOK
  <2> QED
    BY <2>2, <2>3
<1>6. CASE place \in RecentLinks \cup LibraryLinks
  <2>1. PICK i \in DOMAIN shown.data :
          place = LinkOf(i) /\ Screen = "list" /\ where.page \in Listing
    BY <1>6 DEF RecentLinks, LibraryLinks, Listing
  <2>2. ListOK(shown.data)
    BY <2>1, ScreenShows DEF Inv, ShownOK
  <2> QED
    BY <1>5, <2>1, <2>2
<1>7. CASE place \in CardLinks
  <2>1. PICK r \in DOMAIN shown.data :
          place = Place("response", where.interview, r) /\ Screen = "summary"
    BY <1>7 DEF CardLinks
  <2>2. where.interview \in DOMAIN interviews
    BY <2>1, ScreenShows DEF Inv, PlacesOK, PlaceOK, OfInterview, OutcomePages
  <2> QED
    BY <1>1, <1>3, <2>1, <2>2 DEF Place, Places, PlaceOK
<1>8. CASE place \in AddressBar
  <2>1. ASSUME NEW i \in DOMAIN interviews, NEW r \in DOMAIN interviews[i].responses
        PROVE  r \in Nat
    <3>1. interviews[i] \in Interview
      BY DEF Inv, TypeOK
    <3>2. interviews[i].responses \in Seq(Outcomes)
      BY <3>1 DEF Interview
    <3> QED
      BY <3>2
  <2>2. \/ \E i \in DOMAIN interviews, p \in OfInterview : place = Place(p, i, 0)
        \/ \E i \in DOMAIN interviews : \E r \in DOMAIN interviews[i].responses :
             place = Place("response", i, r)
    BY <1>8 DEF AddressBar
  <2> QED
    BY <1>2, <2>1, <2>2 DEF Places, Place, OfInterview, PlaceOK
<1> QED
  BY <1>4, <1>6, <1>7, <1>8

LEMMA InitInv ==
  ASSUME Init
  PROVE  Inv
<1>1. Place("home", 0, 0) \in Places /\ Place("settings", 0, 0) \in Places
  BY DEF Place, Places, Listing
<1>2. Endpoints("home") = {"list"}
  BY <1>1, EndpointsAreNames DEF Place, Listing
<1>3. where.page = "home"
  BY DEF Init, Place
<1>4. Fetch(1, where) \in Load
  BY <1>1, <1>2, <1>3, EndpointsAreNames DEF Fetch, Load, Init, Data
<1>10. PlaceOK(where)
  BY <1>3 DEF PlaceOK, OfInterview, OutcomePages
<1>5. LoadOK(Fetch(1, where))
  <2> DEFINE g == Fetch(1, where)
  <2>1. /\ g.mount = 1 /\ g.place = where /\ g.data = << >>
        /\ g.wanted = {"list"}
    BY <1>2, <1>3 DEF Fetch
  <2> HIDE DEF g
  <2>2. LoadOK(g)
    BY <1>2, <1>3, <1>10, <2>1 DEF LoadOK, ListOK, Init, OutcomePages
  <2> QED
    BY <2>2 DEF g
<1>6. interviews \in Seq(Interview)
  <2>1. Existing \in Nat
    BY ConsoleAssumption
  <2>2. [status |-> "in_progress", responses |-> << >>] \in Interview
    BY DEF Interview, Statuses
  <2> QED
    BY <2>1, <2>2 DEF Init
<1>7. Nothing \in [place : Places, data : Data]
  BY <1>1 DEF Nothing, Data
<1>8. TypeOK
  <2>1. /\ moves \in Nat \ {0} /\ mount \in 0 .. moves
        /\ picked \in Nat /\ toasts \in Nat
    BY DEF Init
  <2>5. loading \in BOOLEAN /\ creating \in BOOLEAN
    BY Zenon DEF Init
  <2>2. past \in Seq(Places)
    BY DEF Init
  <2>3. fetches \subseteq Load /\ creates \subseteq Create
    BY <1>4 DEF Init
  <2>4. where \in Places /\ shown \in [place : Places, data : Data]
    BY <1>1, <1>7 DEF Init
  <2> QED
    BY <1>6, <2>1, <2>2, <2>3, <2>4, <2>5, Zenon DEF TypeOK
<1>9. MountsDiffer /\ LoadsOK /\ ShownOK /\ PlacesOK /\ CreatesOK
  BY <1>2, <1>3, <1>5, <1>10
     DEF Init, MountsDiffer, LoadsOK, ShownOK, Loaded, PlacesOK, CreatesOK
<1> QED
  BY <1>8, <1>9 DEF Inv

-----------------------------------------------------------------------------
(* The parts of the invariant that a step leaves alone when it changes     *)
(* neither the place nor what the page shows.                              *)
LEMMA PageStays ==
  ASSUME Inv, Grows, UNCHANGED <<where, past, mount, shown>>
  PROVE  /\ PlacesOK' /\ ShownOK' /\ (creates' \subseteq creates => CreatesOK')
         /\ where' \in Places /\ past' \in Seq(Places)
         /\ shown' \in [place : Places, data : Data]
<1>1. PlacesOK'
  BY GrowsKeeps DEF Inv, PlacesOK
<1>2. ShownOK'
  <2>1. where.page \in OutcomePages => where.interview \in DOMAIN interviews
    BY DEF Inv, PlacesOK, PlaceOK, OfInterview
  <2> QED
    BY <2>1, GrowsKeeps DEF Inv, ShownOK, Loaded
<1>3. creates' \subseteq creates => CreatesOK'
  BY DEF Inv, CreatesOK, Grows
<1> QED
  BY <1>1, <1>2, <1>3 DEF Inv, TypeOK

(* A step that changes no request and does not move the tab.               *)
LEMMA RestStays ==
  ASSUME Inv, Grows, UNCHANGED <<where, past, mount, shown, loading, moves>>
  PROVE  /\ MountsDiffer' /\ PlacesOK' /\ ShownOK'
         /\ creates' \subseteq creates => CreatesOK'
         /\ fetches' = fetches => LoadsOK' /\ fetches' \subseteq Load
         /\ where' \in Places /\ past' \in Seq(Places)
         /\ shown' \in [place : Places, data : Data]
         /\ loading' \in BOOLEAN /\ moves' \in Nat \ {0} /\ mount' \in 0 .. moves'
<1>1. MountsDiffer'
  BY DEF Inv, MountsDiffer
<1>2. fetches' = fetches => LoadsOK' /\ fetches' \subseteq Load
  BY LoadStays DEF Inv, LoadsOK, TypeOK
<1>3. loading' \in BOOLEAN /\ moves' \in Nat \ {0} /\ mount' \in 0 .. moves'
  BY DEF Inv, TypeOK
<1> QED
  BY <1>1, <1>2, <1>3, PageStays

LEMMA GrowsUnchanged ==
  ASSUME Inv, interviews' = interviews
  PROVE  Grows
BY DEF Inv, TypeOK, Grows, Completed

(* A page that is left for another, by a link, a button or an answer.      *)
LEMMA PushKeeps ==
  ASSUME Inv, Grows, NEW place \in Places, NEW n \in Nat,
         PlaceOK(place)', moves' \in Nat \ {0}, n <= moves', moves <= moves',
         n = 0 => place.page = "interview",
         n = 0 \/ n > moves,
         Push(place, n), creates' \subseteq creates, toasts' \in Nat
  PROVE  Inv'
<1>1. Mount(place, n) /\ past' = Append(past, where)
  BY DEF Push
<1>2. past \in Seq(Places) /\ where \in Places /\ PlacesOK
  BY DEF Inv, TypeOK
<1>3. past' \in Seq(Places)
  BY <1>1, <1>2
<1>4. ASSUME NEW k \in DOMAIN past', NEW q, q = past'[k]
      PROVE  PlaceOK(q)'
  <2>1. \/ k \in DOMAIN past /\ q = past[k]
        \/ q = where
    BY <1>1, <1>2, <1>4
  <2>2. PlaceOK(q)
    BY <1>2, <2>1 DEF PlacesOK
  <2> QED
    BY <2>2, GrowsKeeps
<1>5. /\ where' \in Places /\ loading' \in BOOLEAN /\ mount' \in 0 .. moves'
      /\ creating' \in BOOLEAN /\ picked' \in Nat
      /\ shown' \in [place : Places, data : Data]
      /\ fetches' \subseteq Load
      /\ MountsDiffer' /\ PlaceOK(where)' /\ LoadsOK' /\ ShownOK'
  BY <1>1, MountKeeps
<1>6. PlacesOK'
  BY <1>4, <1>5 DEF PlacesOK, PlaceOK
<1>7. CreatesOK' /\ creates' \subseteq Create
  BY DEF Inv, TypeOK, CreatesOK, Grows
<1> QED
  BY <1>3, <1>5, <1>6, <1>7 DEF Inv, TypeOK, Grows

LEMMA FollowLinkKeeps ==
  ASSUME Inv, FollowLink
  PROVE  Inv'
<1>1. PICK place \in MenuLinks \cup RecentLinks \cup LibraryLinks
                       \cup CardLinks \cup AddressBar : Push(place, moves')
  BY DEF FollowLink
<1>2. place \in Places /\ PlaceOK(place) /\ PlaceOK(place)'
  <2>1. Grows
    BY GrowsUnchanged DEF FollowLink
  <2> QED
    BY <2>1, LinksOK, GrowsKeeps
<1>3. moves \in Nat \ {0} /\ moves' = moves + 1
  BY DEF FollowLink, Move, Inv, TypeOK
<1>4. creates' \subseteq creates /\ toasts' \in Nat /\ Grows
  BY GrowsUnchanged DEF FollowLink, Inv, TypeOK
<1> QED
  BY <1>1, <1>2, <1>3, <1>4, PushKeeps

LEMMA ConcludeGrows ==
  ASSUME Inv, NEW i \in DOMAIN interviews, Conclude(i)
  PROVE  Grows
<1>1. interviews \in Seq(Interview) /\ interviews[i] \in Interview
  BY DEF Inv, TypeOK
<1>2. PICK new \in Interview :
        new.status = "completed" /\ interviews' = [interviews EXCEPT ![i] = new]
  <2>1. /\ [interviews[i] EXCEPT !.status = "completed"] \in Interview
        /\ [interviews[i] EXCEPT !.status = "completed"].status = "completed"
    BY <1>1 DEF Interview, Statuses
  <2> QED
    BY <2>1 DEF Conclude
<1>3. /\ interviews' \in Seq(Interview) /\ DOMAIN interviews' = DOMAIN interviews
      /\ interviews'[i] = new
      /\ \A j \in DOMAIN interviews : j # i => interviews'[j] = interviews[j]
  BY <1>1, <1>2
<1> QED
  BY <1>2, <1>3 DEF Grows, Completed

LEMMA EndInterviewKeeps ==
  ASSUME Inv, EndInterview
  PROVE  Inv'
<1>1. PICK place : place = Place("results", where.interview, 0)
  OBVIOUS
<1>2. /\ where.page = "interview" /\ where.interview \in DOMAIN interviews
      /\ where.interview \in Nat
  BY DEF EndInterview, Inv, TypeOK, PlacesOK, PlaceOK, Places
<1>3. Grows
  BY <1>2, ConcludeGrows, GrowsUnchanged DEF EndInterview
<1>4. place \in Places /\ PlaceOK(place)'
  BY <1>1, <1>2, <1>3 DEF Place, Places, PlaceOK, OfInterview, OutcomePages, Grows
<1>5. /\ moves \in Nat \ {0} /\ moves' = moves + 1 /\ Push(place, moves')
      /\ creates' \subseteq creates /\ toasts' \in Nat
  BY <1>1 DEF EndInterview, Move, Inv, TypeOK
<1> QED
  BY <1>3, <1>4, <1>5, PushKeeps

LEMMA BackKeeps ==
  ASSUME Inv, Back
  PROVE  Inv'
<1>0. PICK place : place = past[Len(past)]
  OBVIOUS
<1>1. past \in Seq(Places) /\ past # << >> /\ moves \in Nat \ {0}
      /\ moves' = moves + 1
  BY DEF Back, Move, Inv, TypeOK
<1>2. Len(past) \in DOMAIN past /\ place \in Places
  BY <1>0, <1>1
<1>3. Grows
  BY GrowsUnchanged DEF Back
<1>4. ASSUME NEW k \in DOMAIN past, NEW q, q = past[k] PROVE PlaceOK(q)'
  <2>1. PlaceOK(q)
    BY <1>4 DEF Inv, PlacesOK
  <2> QED
    BY <1>3, <2>1, GrowsKeeps
<1>5. past' = SubSeq(past, 1, Len(past) - 1) /\ Mount(place, moves')
  BY <1>0 DEF Back
<1>6. past' \in Seq(Places) /\ \A k \in DOMAIN past' : k \in DOMAIN past /\ past'[k] = past[k]
  BY <1>1, <1>5
<1>7. PlaceOK(place)'
  BY <1>0, <1>2, <1>4
<1>8. /\ where' \in Places /\ loading' \in BOOLEAN /\ mount' \in 0 .. moves'
      /\ creating' \in BOOLEAN /\ picked' \in Nat
      /\ shown' \in [place : Places, data : Data]
      /\ fetches' \subseteq Load
      /\ MountsDiffer' /\ PlaceOK(where)' /\ LoadsOK' /\ ShownOK'
  BY <1>1, <1>2, <1>3, <1>5, <1>7, MountKeeps
<1>9. creates' \subseteq Create /\ toasts' \in Nat
  BY DEF Back, Inv, TypeOK
<1>10. PlacesOK'
  BY <1>4, <1>6, <1>8 DEF PlacesOK, PlaceOK
<1>11. CreatesOK'
  BY DEF Back, Inv, CreatesOK
<1> QED
  BY <1>1, <1>3, <1>6, <1>8, <1>9, <1>10, <1>11 DEF Inv, TypeOK, Grows

LEMMA LoadInterviewsKeeps ==
  ASSUME Inv, LoadInterviews
  PROVE  Inv'
<1>0. PICK g : g = [Fetch(moves', where) EXCEPT !.mount = mount]
  OBVIOUS
<1>1. /\ where.page = "library" /\ moves' = moves + 1 /\ moves \in Nat \ {0}
      /\ where \in Places /\ mount \in 0 .. moves /\ Grows
      /\ UNCHANGED <<where, past, mount, shown>>
  BY GrowsUnchanged DEF LoadInterviews, Move, Inv, TypeOK
<1>2. mount # 0
  BY <1>1 DEF Inv, MountsDiffer
<1>3. Endpoints(where.page) = {"list"}
  BY <1>1, EndpointsAreNames DEF Listing
<1>4. g = [id |-> moves', mount |-> mount, place |-> where, wanted |-> {"list"},
           data |-> << >>, failed |-> FALSE]
  BY <1>0, <1>3 DEF Fetch
<1>5. g \in Load /\ LoadOK(g)'
  <2>1. g \in Load
    BY <1>1, <1>2, <1>4 DEF Load, Data, Reads
  <2>2. PlaceOK(where)'
    BY <1>1, GrowsKeeps DEF Inv, PlacesOK
  <2>3. where.page \notin OutcomePages
    BY <1>1 DEF OutcomePages
  <2> QED
    BY <1>1, <1>3, <1>4, <2>1, <2>2, <2>3 DEF LoadOK, ListOK
<1>6. \A f \in fetches : f \in Load /\ LoadOK(f)'
  BY <1>1, LoadStays
<1>7. fetches' = fetches \cup {g}
  BY <1>0 DEF LoadInterviews
<1>8. LoadsOK' /\ fetches' \subseteq Load
  BY <1>5, <1>6, <1>7 DEF LoadsOK
<1>9. MountsDiffer' /\ moves' \in Nat \ {0} /\ mount' \in 0 .. moves'
  <2>1. mount' = mount /\ where' = where
    BY <1>1
  <2>2. MountsDiffer'
    BY <1>2, <1>3, <2>1 DEF MountsDiffer
  <2> QED
    BY <1>1, <2>1, <2>2
<1>10. loading' \in BOOLEAN
  BY Zenon DEF LoadInterviews
<1>11. /\ creating' \in BOOLEAN /\ picked' \in Nat /\ creates' \subseteq Create
       /\ toasts' \in Nat /\ interviews' \in Seq(Interview)
       /\ creates' \subseteq creates
  BY DEF LoadInterviews, Inv, TypeOK
<1> QED
  BY <1>1, <1>8, <1>9, <1>10, <1>11, PageStays DEF Inv, TypeOK

LEMMA HandleStartKeeps ==
  ASSUME Inv, HandleStart
  PROVE  Inv'
<1>1. PICK c : c = [id |-> moves', mount |-> mount, state |-> "sent",
                    interview |-> 0]
  OBVIOUS
<1>2. /\ moves' = moves + 1 /\ moves \in Nat \ {0} /\ mount \in 0 .. moves
      /\ Grows /\ UNCHANGED <<where, past, mount, shown, loading, fetches>>
  BY GrowsUnchanged DEF HandleStart, Move, Inv, TypeOK
<1>3. c \in Create
  BY <1>1, <1>2 DEF Create
<1>4. creates' \subseteq Create
  BY <1>1, <1>3 DEF HandleStart, Inv, TypeOK
<1>5. creating' \in BOOLEAN /\ loading' \in BOOLEAN
  BY Zenon, <1>2 DEF HandleStart, Inv, TypeOK
<1>6. LoadsOK' /\ fetches' \subseteq Load
  <2>1. \A f \in fetches : f \in Load /\ LoadOK(f)'
    BY <1>2, LoadStays
  <2> QED
    BY <1>2, <2>1 DEF LoadsOK
<1>7. MountsDiffer'
  BY <1>2 DEF Inv, MountsDiffer
<1>8. /\ moves' \in Nat \ {0} /\ mount' \in 0 .. moves' /\ picked' \in Nat
      /\ toasts' \in Nat /\ interviews' \in Seq(Interview)
  BY <1>2 DEF HandleStart, Inv, TypeOK
<1>9. CreatesOK'
  BY <1>1 DEF HandleStart, Inv, CreatesOK
<1> QED
  BY <1>2, <1>4, <1>5, <1>6, <1>7, <1>8, <1>9, PageStays DEF Inv, TypeOK

(***************************************************************************)
(* The interviews grow.                                                    *)
(***************************************************************************)
LEMMA InsertGrows ==
  ASSUME Inv, InsertInterview
  PROVE  Grows /\ Len(interviews') \in DOMAIN interviews'
<1> DEFINE new == [status |-> "in_progress", responses |-> << >>]
<1>1. new \in Interview
  BY DEF Interview, Statuses
<1>2. interviews \in Seq(Interview) /\ interviews' = Append(interviews, new)
  BY DEF Inv, TypeOK, InsertInterview
<1> HIDE DEF new
<1>3. /\ interviews' \in Seq(Interview)
      /\ DOMAIN interviews \subseteq DOMAIN interviews'
      /\ \A i \in DOMAIN interviews : interviews'[i] = interviews[i]
      /\ Len(interviews') \in DOMAIN interviews'
  BY <1>1, <1>2
<1> QED
  BY <1>3 DEF Grows, Completed

LEMMA ServeCreateKeeps ==
  ASSUME Inv, NEW c \in creates, ServeCreate(c)
  PROVE  Inv'
<1>1. c \in Create /\ creates \subseteq Create
  BY DEF Inv, TypeOK
<1>2. UNCHANGED <<where, past, mount, shown, loading, creating, picked, fetches,
                  toasts, moves>>
  BY DEF ServeCreate, page
<1>3. Grows /\ creates' \subseteq Create /\ CreatesOK'
  <2>1. CASE InsertInterview /\ creates' = (creates \ {c}) \cup
               {[c EXCEPT !.state = "created", !.interview = Len(interviews')]}
    <3>1. /\ Grows /\ Len(interviews') \in Nat
          /\ Len(interviews') \in DOMAIN interviews'
      BY <2>1, InsertGrows DEF Grows
    <3>2. PICK new : new = [c EXCEPT !.state = "created",
                                     !.interview = Len(interviews')]
      OBVIOUS
    <3>3. new \in Create /\ new.interview = Len(interviews')
      BY <1>1, <3>1, <3>2 DEF Create
    <3>4. creates' = (creates \ {c}) \cup {new}
      BY <2>1, <3>2
    <3> QED
      BY <1>1, <3>1, <3>3, <3>4 DEF Inv, CreatesOK, Grows
  <2>2. CASE /\ creates' = (creates \ {c}) \cup {[c EXCEPT !.state = "failed"]}
             /\ UNCHANGED interviews
    <3>1. PICK new : new = [c EXCEPT !.state = "failed"]
      OBVIOUS
    <3>2. new \in Create /\ new.state = "failed"
      BY <1>1, <3>1 DEF Create
    <3> QED
      BY <1>1, <2>2, <3>1, <3>2, GrowsUnchanged DEF Inv, CreatesOK
  <2> QED
    BY <2>1, <2>2 DEF ServeCreate
<1> QED
  BY <1>2, <1>3, RestStays DEF Inv, TypeOK, Grows

LEMMA CreateAnsweredKeeps ==
  ASSUME Inv, NEW c \in creates, CreateAnswered(c)
  PROVE  Inv'
<1>1. c \in Create /\ creates' \subseteq creates /\ toasts' \in Nat /\ Grows
      /\ moves' = moves /\ moves \in Nat \ {0} /\ creates \subseteq Create
  BY GrowsUnchanged DEF CreateAnswered, Inv, TypeOK
<1>2. CASE c.state = "created" /\ where # Place("interview", c.interview, 0)
  <2>1. Push(Place("interview", c.interview, 0), 0)
    BY <1>2 DEF CreateAnswered
  <2>2. PICK place : place = Place("interview", c.interview, 0)
    OBVIOUS
  <2>3. place \in Places /\ place.page = "interview"
    BY <1>1, <2>2 DEF Place, Places, Create
  <2>4. PlaceOK(place)'
    BY <1>1, <1>2, <2>2 DEF PlaceOK, Inv, CreatesOK, Place, Grows
  <2> QED
    BY <1>1, <2>1, <2>2, <2>3, <2>4, PushKeeps
<1>3. CASE ~(c.state = "created" /\ where # Place("interview", c.interview, 0))
  <2>1. /\ UNCHANGED <<where, past, mount, shown, loading, picked, fetches>>
        /\ creating' = (creating /\ c.mount # mount)
    BY <1>3 DEF CreateAnswered
  <2>2. creating' \in BOOLEAN
    BY <2>1
  <2> QED
    BY <1>1, <2>1, <2>2, RestStays DEF Inv, TypeOK, Grows
<1> QED
  BY <1>2, <1>3

LEMMA ChosenKeeps ==
  ASSUME Inv, TurnPage \/ Expand
  PROVE  Inv'
<1>1. /\ UNCHANGED <<where, past, mount, shown, loading, creating, fetches,
                     creates, toasts, interviews, moves>>
      /\ picked' \in {j - 1 : j \in DOMAIN shown.data}
                       \cup {0} \cup DOMAIN shown.data
  BY DEF TurnPage, Expand, Chosen
<1>2. \A j \in DOMAIN shown.data : j \in Nat \ {0}
  BY DEF Inv, TypeOK, Data
<1>3. picked' \in Nat
  BY <1>1, <1>2
<1>4. Grows
  BY <1>1, GrowsUnchanged
<1> QED
  BY <1>1, <1>3, <1>4, RestStays DEF Inv, TypeOK, Grows

LEMMA CreatedElsewhereKeeps ==
  ASSUME Inv, CreatedElsewhere
  PROVE  Inv'
<1>1. UNCHANGED <<where, past, mount, shown, loading, creating, picked, fetches,
                  creates, toasts, moves>>
  BY DEF CreatedElsewhere, page
<1>2. Grows
  BY InsertGrows DEF CreatedElsewhere
<1> QED
  BY <1>1, <1>2, RestStays DEF Inv, TypeOK, Grows

LEMMA InterviewGoesOnKeeps ==
  ASSUME Inv, NEW i \in DOMAIN interviews, InterviewGoesOn(i)
  PROVE  Inv'
<1>1. UNCHANGED <<where, past, mount, shown, loading, creating, picked, fetches,
                  creates, toasts, moves>>
  BY DEF InterviewGoesOn, page
<1>2. /\ interviews \in Seq(Interview) /\ interviews[i] \in Interview
      /\ interviews[i].status = "in_progress"
  BY DEF Inv, TypeOK, InterviewGoesOn
<1>3. PICK new \in Interview : interviews' = [interviews EXCEPT ![i] = new]
  <2> DEFINE old == interviews[i]
  <2>0. old.status \in Statuses /\ old.responses \in Seq(Outcomes)
        /\ old = [status |-> old.status, responses |-> old.responses]
    BY <1>2 DEF Interview
  <2>1. CASE interviews' = [interviews EXCEPT
                              ![i].responses = Append(@, "open")]
    <3>1. [old EXCEPT !.responses = Append(@, "open")] \in Interview
      BY <2>0 DEF Interview, Outcomes
    <3> QED
      BY <2>1, <3>1
  <2>2. ASSUME NEW r \in DOMAIN interviews[i].responses,
               interviews' = [interviews EXCEPT ![i].responses[r] = "reviewed"]
        PROVE  \E new \in Interview : interviews' = [interviews EXCEPT ![i] = new]
    <3>1. [old.responses EXCEPT ![r] = "reviewed"] \in Seq(Outcomes)
      BY <2>0 DEF Outcomes
    <3>2. [old EXCEPT !.responses[r] = "reviewed"] \in Interview
      BY <2>0, <3>1 DEF Interview
    <3> QED
      BY <2>2, <3>2
  <2>3. CASE Conclude(i)
    <3>1. [old EXCEPT !.status = "completed"] \in Interview
      BY <2>0 DEF Interview, Statuses
    <3> QED
      BY <2>3, <3>1 DEF Conclude
  <2> QED
    BY <2>1, <2>2, <2>3 DEF InterviewGoesOn
<1>4. Grows
  <2>1. /\ interviews' \in Seq(Interview) /\ DOMAIN interviews' = DOMAIN interviews
        /\ \A j \in DOMAIN interviews : j # i => interviews'[j] = interviews[j]
    BY <1>2, <1>3
  <2> QED
    BY <1>2, <2>1 DEF Grows, Completed
<1> QED
  BY <1>1, <1>4, RestStays DEF Inv, TypeOK, Grows

(***************************************************************************)
(* Answers.                                                                *)
(***************************************************************************)
LEMMA ReadsData ==
  ASSUME Inv, NEW f \in fetches, NEW endpoint \in f.wanted
  PROVE  /\ Read(endpoint, f.place) \in Data
         /\ endpoint = "list" => ListOK(Read(endpoint, f.place))
<1>1. f \in Load /\ LoadOK(f) /\ interviews \in Seq(Interview)
  BY DEF Inv, TypeOK, LoadsOK
<1>2. f.place \in Places /\ f.wanted \subseteq Endpoints(f.place.page)
  BY <1>1 DEF Load, LoadOK
<1>3. CASE endpoint = "list"
  <2>1. Read(endpoint, f.place) = ListRead
    BY <1>3 DEF Read
  <2>2. \A i \in DOMAIN interviews : interviews[i].status \in Statuses
    <3>1. \A i \in DOMAIN interviews : interviews[i] \in Interview
      BY <1>1
    <3> QED
      BY <3>1 DEF Interview
  <2>3. ListRead \in Data
    BY <1>1, <2>2 DEF ListRead, Data
  <2>4. ListOK(ListRead)
    BY DEF ListOK, ListRead, Completed
  <2> QED
    BY <2>1, <2>3, <2>4
<1>4. CASE endpoint \in {"responses", "transcript"}
  <2>1. f.place.interview \in DOMAIN interviews
    BY <1>1, <1>2, <1>4, EndpointsAreNames DEF LoadOK, PlaceOK
  <2>2. interviews[f.place.interview].responses \in Seq(Outcomes)
    <3>1. interviews[f.place.interview] \in Interview
      BY <1>1, <2>1
    <3> QED
      BY <3>1 DEF Interview
  <2>3. Read(endpoint, f.place) = interviews[f.place.interview].responses
    BY <1>4 DEF Read, ResponsesRead, TranscriptRead
  <2> QED
    BY <1>4, <2>2, <2>3 DEF Data
<1>5. CASE endpoint \notin {"list", "responses", "transcript"}
  BY <1>5 DEF Read, Data
<1> QED
  BY <1>3, <1>4, <1>5

LEMMA ServeReadKeeps ==
  ASSUME Inv, NEW f \in fetches, ServeRead(f)
  PROVE  Inv'
<1>1. f \in Load /\ LoadOK(f) /\ f.place \in Places /\ f.wanted \subseteq Reads
      /\ f.data \in Data
  BY DEF Inv, TypeOK, LoadsOK, Load
<1>2. /\ UNCHANGED <<where, past, mount, shown, loading, creating, picked,
                     creates, toasts, interviews, moves>>
      /\ Grows
  BY GrowsUnchanged DEF ServeRead, page
<1>0. PICK endpoint \in f.wanted :
        \E g : /\ fetches' = (fetches \ {f}) \cup {g}
               /\ \/ /\ g = [f EXCEPT !.wanted = @ \ {endpoint},
                                      !.data = @ \o Read(endpoint, f.place)]
                     /\ ~Refused(endpoint, f.place)
                  \/ g = [f EXCEPT !.wanted = {}, !.failed = TRUE]
  BY DEF ServeRead
<1>3. PICK g : /\ fetches' = (fetches \ {f}) \cup {g}
               /\ \/ /\ g = [f EXCEPT !.wanted = @ \ {endpoint},
                                      !.data = @ \o Read(endpoint, f.place)]
                     /\ ~Refused(endpoint, f.place)
                  \/ g = [f EXCEPT !.wanted = {}, !.failed = TRUE]
  BY <1>0
<1>11. /\ g.failed \/ (g.failed = f.failed /\ g.wanted = f.wanted \ {endpoint})
  BY <1>1, <1>3 DEF Load
<1>12. ~Refused(endpoint, f.place) \/ g.failed
  BY <1>1, <1>3 DEF Load
<1>4. /\ g.mount = f.mount /\ g.place = f.place
      /\ g.wanted \subseteq f.wanted \ {endpoint}
      /\ g.data = f.data \/ g.data = f.data \o Read(endpoint, f.place)
      /\ g = [id |-> f.id, mount |-> f.mount, place |-> f.place,
              wanted |-> g.wanted, data |-> g.data, failed |-> g.failed]
      /\ g.failed \in BOOLEAN
  BY <1>1, <1>3 DEF Load
<1>5. g.data \in Data
  BY <1>1, <1>4, ReadsData, ConcatProperties DEF Data
<1>6. g \in Load
  BY <1>1, <1>4, <1>5 DEF Load
<1>7. "list" \notin g.wanted
  BY <1>1, <1>4, EndpointsAreNames DEF LoadOK
<1>8. f.place.page \in Listing => ListOK(g.data)
  <2> SUFFICES ASSUME f.place.page \in Listing PROVE ListOK(g.data)
    OBVIOUS
  <2>1. endpoint = "list" /\ f.data = << >>
    BY <1>1, EndpointsAreNames DEF LoadOK
  <2>2. << >> \o Read(endpoint, f.place) = Read(endpoint, f.place)
    BY ReadsData DEF Data
  <2>3. ListOK(<< >>)
    BY DEF ListOK
  <2> QED
    BY <1>4, <2>1, <2>2, <2>3, ReadsData
<1>13. /\ g.place.page \in OutcomePages /\ ~g.failed
       /\ g.wanted \cap {"evaluation", "report"} = {}
       => Completed(g.place.interview)
  BY <1>1, <1>4, <1>11, <1>12 DEF LoadOK, Refused
<1>9. LoadOK(g)
  BY <1>1, <1>4, <1>7, <1>8, <1>13 DEF LoadOK
<1>10. fetches' \subseteq Load /\ LoadsOK'
  <2>1. \A h \in fetches' : h \in Load /\ LoadOK(h)
    BY <1>3, <1>6, <1>9 DEF Inv, TypeOK, LoadsOK
  <2> QED
    BY <1>2, <2>1 DEF LoadsOK, LoadOK, PlaceOK, ListOK, Completed
<1> QED
  BY <1>2, <1>10, RestStays DEF Inv, TypeOK, Grows

LEMMA SettledKeeps ==
  ASSUME Inv, NEW f \in fetches, Settled(f)
  PROVE  Inv'
<1>1. f \in Load /\ LoadOK(f)
  BY DEF Inv, TypeOK, LoadsOK
<1>2. /\ UNCHANGED <<where, past, mount, creating, picked, creates, interviews,
                     moves>>
      /\ Grows /\ fetches' = fetches \ {f}
      /\ toasts' \in Nat
  BY GrowsUnchanged DEF Settled, End, Inv, TypeOK
<1>3. loading' \in BOOLEAN /\ (loading' => loading)
  BY Zenon DEF Settled, End
<1>4. MountsDiffer'
  BY <1>2, <1>3 DEF Inv, MountsDiffer
<1>5. PlacesOK'
  BY <1>2, GrowsKeeps DEF Inv, PlacesOK
<1>6. fetches' \subseteq Load /\ LoadsOK'
  <2>1. \A h \in fetches : h \in Load /\ LoadOK(h)'
    BY <1>2, LoadStays DEF Inv, TypeOK
  <2> QED
    BY <1>2, <2>1 DEF LoadsOK
<1>7. ShownOK' /\ shown' \in [place : Places, data : Data]
  <2>1. CASE shown' = shown
    <3>1. ShownOK'
      BY <1>2, <2>1, PageStays
    <3> QED
      BY <2>1, <3>1 DEF Inv, TypeOK
  <2>2. CASE shown' # shown
    <3>1. /\ f.mount = mount /\ shown' = [place |-> f.place, data |-> f.data]
          /\ ~f.failed /\ f.wanted = {}
      BY <2>2 DEF Settled, End
    <3>2. f.place = where /\ (where.page \in Listing => ListOK(f.data))
      BY <1>1, <3>1 DEF LoadOK
    <3>3. shown'.place = where' /\ shown'.data = f.data
      BY <1>2, <3>1, <3>2
    <3>4. where'.page \in Listing => ListOK(f.data)'
      BY <1>2, <3>2, GrowsKeeps
    <3>6. where'.page \in OutcomePages => Completed(where.interview)'
      BY <1>1, <1>2, <3>1, <3>2 DEF LoadOK, Completed
    <3>5. ShownOK'
      BY <1>2, <3>3, <3>4, <3>6 DEF ShownOK, ListOK
    <3> QED
      BY <1>1, <3>1, <3>5 DEF Load
  <2> QED
    BY <2>1, <2>2
<1>8. CreatesOK'
  BY <1>2 DEF Inv, CreatesOK
<1> QED
  BY <1>2, <1>3, <1>4, <1>5, <1>6, <1>7, <1>8 DEF Inv, TypeOK

-----------------------------------------------------------------------------
LEMMA NextKeeps ==
  ASSUME Inv, [Next]_vars
  PROVE  Inv'
<1>1. CASE Network
  BY <1>1, ServeReadKeeps, SettledKeeps, ServeCreateKeeps, CreateAnsweredKeeps
     DEF Network
<1>2. CASE User
  BY <1>2, FollowLinkKeeps, BackKeeps, EndInterviewKeeps, LoadInterviewsKeeps,
     HandleStartKeeps, ChosenKeeps DEF User
<1>3. CASE CreatedElsewhere
  BY <1>3, CreatedElsewhereKeeps
<1>4. CASE \E i \in DOMAIN interviews : InterviewGoesOn(i)
  BY <1>4, InterviewGoesOnKeeps
<1>5. CASE UNCHANGED vars
  <2>1. /\ UNCHANGED <<where, past, mount, shown, loading, creating, picked,
                       fetches, creates, toasts, interviews, moves>>
        /\ Grows
    BY <1>5, GrowsUnchanged DEF vars, page
  <2> QED
    BY <2>1, RestStays DEF Inv, TypeOK, Grows
<1> QED
  BY <1>1, <1>2, <1>3, <1>4, <1>5 DEF Next

(* The inductive invariant.                                                *)
THEOREM ConsoleInvariant == Spec => []Inv
<1>1. Init => Inv
  BY InitInv
<1>2. Inv /\ [Next]_vars => Inv'
  BY NextKeeps
<1> QED
  BY <1>1, <1>2, PTL DEF Spec

(* An outcome is shown of a completed interview only, for any number of    *)
(* interviews and moves, also after a completion that failed               *)
(* (interview page:278-287) and when the URL is typed: the summary waits   *)
(* for both requests and one of them is refused (results page:50-66).      *)
THEOREM OutcomesAreOfCompleted == Spec => []OutcomeOnlyOfCompleted
<1>1. Inv => OutcomeOnlyOfCompleted
  BY DEF Inv, ShownOK, OutcomeOnlyOfCompleted
<1> QED
  BY <1>1, ConsoleInvariant, PTL

(* The links of a list that is out of date lead to results only for an     *)
(* interview that is completed (page.tsx:190, history page:100).           *)
THEOREM ListsLeadToCompleted == Spec => []ListsLeadToResults
<1>1. Inv => ListsLeadToResults
  <2> SUFFICES ASSUME Inv, NEW place \in RecentLinks \cup LibraryLinks,
                      place.page = "results"
               PROVE  Completed(place.interview)
    BY DEF ListsLeadToResults
  <2>1. PICK i \in DOMAIN shown.data :
          place = LinkOf(i) /\ Screen = "list" /\ where.page \in Listing
    BY DEF RecentLinks, LibraryLinks, Listing
  <2>2. ListOK(shown.data)
    BY <2>1, ScreenShows DEF Inv, ShownOK
  <2>3. place.interview = i /\ shown.data[i] = "completed"
    BY <2>1 DEF LinkOf, Place
  <2> QED
    BY <2>2, <2>3 DEF ListOK
<1> QED
  BY <1>1, ConsoleInvariant, PTL

(* Whatever fails, a page that stops loading has something to show or has  *)
(* said why not.                                                           *)
THEOREM NoLoadEndsUntold == Spec => FailuresAreTold
<1> DEFINE A == loading /\ ~loading' /\ where' = where =>
                  Loaded' \/ toasts' > toasts
<1>1. ASSUME Inv, [Next]_vars PROVE [A]_vars
  <2> SUFFICES ASSUME loading, ~loading', where' = where
               PROVE  Loaded' \/ toasts' > toasts
    OBVIOUS
  <2>1. Endpoints(where.page) # {} /\ where \in Places
    BY <1>1 DEF Inv, MountsDiffer, TypeOK
  <2>2. ASSUME NEW place, NEW n, Mount(place, n) PROVE FALSE
    <3>1. place = where /\ loading' = (Endpoints(place.page) # {})
      BY <2>2 DEF Mount
    <3> QED
      BY <2>1, <3>1
  <2>3. CASE Network
    <3>1. PICK f \in fetches : Settled(f)
      <4>1. \A f \in fetches : ~ServeRead(f)
        BY DEF ServeRead, page
      <4>2. \A c \in creates : ~ServeCreate(c)
        BY DEF ServeCreate, page
      <4>3. \A c \in creates : ~CreateAnswered(c)
        BY <2>2 DEF CreateAnswered, Push
      <4> QED
        BY <2>3, <4>1, <4>2, <4>3 DEF Network
    <3>2. f \in Load /\ LoadOK(f) /\ toasts \in Nat
      BY <1>1 DEF Inv, TypeOK, LoadsOK
    <3>3. CASE f.failed
      BY <3>1, <3>2, <3>3 DEF Settled, End
    <3>4. CASE ~f.failed
      <4>1. shown' = [place |-> f.place, data |-> f.data]
        BY <3>1, <3>4 DEF Settled, End
      <4>2. f.place.page # "settings"
        BY <3>2, EndpointsAreNames DEF LoadOK, Load
      <4>3. shown' # Nothing
        <5>1. shown'.place.page # "settings" /\ Nothing.place.page = "settings"
          BY <4>1, <4>2 DEF Nothing, Place
        <5> QED
          BY <5>1
      <4> QED
        BY <4>3 DEF Loaded, Nothing
    <3> QED
      BY <3>3, <3>4
  <2>4. CASE User
    BY <2>2, <2>4 DEF User, FollowLink, Push, Back, EndInterview, LoadInterviews,
       HandleStart, TurnPage, Expand, Chosen
  <2>5. CASE CreatedElsewhere
    BY <2>5 DEF CreatedElsewhere, page
  <2>6. CASE \E i \in DOMAIN interviews : InterviewGoesOn(i)
    BY <2>6 DEF InterviewGoesOn, page
  <2>7. CASE UNCHANGED vars
    BY <2>7 DEF vars, page
  <2> QED
    BY <1>1, <2>3, <2>4, <2>5, <2>6, <2>7 DEF Next
<1>2. [][A]_vars <=> FailuresAreTold
  BY DEF FailuresAreTold
<1> QED
  BY <1>1, ConsoleInvariant, PTL DEF FailuresAreTold, Spec
====
