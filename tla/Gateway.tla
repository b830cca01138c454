------------------------------- MODULE Gateway ------------------------------
(***************************************************************************)
(* How a candidate gets in: a partner creates an interview with its API    *)
(* key and gets a one-time launch token, the candidate's browser exchanges *)
(* it for a session, and every later call passes the middleware that       *)
(* checks the credential and the rate limiter.                             *)
(*                                                                         *)
(* The middleware of a call is one step: the rows it reads never change.   *)
(* Keys do not expire here and partners stay active.                       *)
(***************************************************************************)
EXTENDS RateLimiter, Sequences

CONSTANTS
  Partners,
  Practices,      \* practice ids a create call may carry
  NoPractice,
  Slots,          \* requests handled at a time
  LaunchTTL,      \* life of a launch token, tolerance included
  SessionTTL,
  MaxInterviews,  \* bound: interview rows
  MaxTokens,      \* bound: launch tokens
  Faults          \* "db": an insert may fail; "crash": the server restarts

ASSUME GatewayAssumption ==
  /\ NoPractice \notin Practices
  /\ LaunchTTL \in Nat /\ SessionTTL \in Nat /\ MaxInterviews \in Nat

VARIABLES
  interviews,  \* rows: the owner and the practice id
  tokens,      \* launch tokens handed out, by jti
  jtis,        \* jtis that are used up
  sessions,    \* rows, with the token they were exchanged for
  reqs

access == <<interviews, tokens, jtis, sessions>>

ByKey(p) == <<"key", p>>
BySession(x) == <<"session", x>>
ByAddress == <<"ip", 0>>

Idle == [pc |-> "idle"]

GatewayInit ==
  /\ interviews = <<>> /\ tokens = <<>> /\ jtis = {} /\ sessions = <<>>
  /\ reqs = [s \in Slots |-> Idle]

Goto(s, r) == reqs' = [reqs EXCEPT ![s] = r]

(* BuildRedirectURL: every answer to a create call mints a new token.      *)
Mint(i, p) ==
  /\ Len(tokens) < MaxTokens
  /\ tokens' = Append(tokens, [interview |-> i, partner |-> p,
                               expires |-> now + LaunchTTL])

(***************************************************************************)
(* CreateInterview.                                                        *)
(***************************************************************************)
ReceiveCreate(s) ==
  \E p \in Partners, q \in Practices \cup {NoPractice} :
    /\ Allow(ByKey(p))
    /\ Goto(s, IF ~Admits(ByKey(p)) THEN Idle
               ELSE [pc |-> IF q = NoPractice THEN "insert" ELSE "find",
                     partner |-> p, practice |-> q])
    /\ UNCHANGED access

OfPractice(p, q) ==
  {i \in DOMAIN interviews : /\ interviews[i].partner = p
                             /\ interviews[i].practice = q}

FindInterview(s) ==
  LET r == reqs[s]
  IN /\ r.pc = "find"
     /\ \/ /\ OfPractice(r.partner, r.practice) = {}
           /\ Goto(s, [r EXCEPT !.pc = "insert"])
           /\ UNCHANGED tokens
        \/ \E i \in OfPractice(r.partner, r.practice) :
             /\ \A j \in OfPractice(r.partner, r.practice) : i <= j
             /\ Mint(i, r.partner)
             /\ Goto(s, Idle)
     /\ UNCHANGED <<interviews, jtis, sessions, now, buckets, restarts, admitted>>

(* Mutant: migration 011 is missing.                                       *)
NeverTaken(p, q) == FALSE

(* The unique index on partner and practice.                               *)
PracticeTaken(p, q) == q # NoPractice /\ OfPractice(p, q) # {}

InsertInterview(s) ==
  LET r == reqs[s]
  IN /\ r.pc = "insert"
     /\ Goto(s, Idle)
     /\ \/ /\ PracticeTaken(r.partner, r.practice) \/ "db" \in Faults
           /\ UNCHANGED <<interviews, tokens>>
        \/ /\ ~PracticeTaken(r.partner, r.practice)
           /\ Len(interviews) < MaxInterviews
           /\ interviews' = Append(interviews, [partner |-> r.partner,
                                                practice |-> r.practice])
           /\ Mint(Len(interviews) + 1, r.partner)
     /\ UNCHANGED <<jtis, sessions, now, buckets, restarts, admitted>>

(***************************************************************************)
(* ExchangeSession.                                                        *)
(***************************************************************************)
ReceiveExchange(s) ==
  \E t \in DOMAIN tokens :
    /\ Allow(ByAddress)
    /\ Goto(s, IF Admits(ByAddress) THEN [pc |-> "token", token |-> t]
               ELSE Idle)
    /\ UNCHANGED access

(* The expiry, and the interview the token names: it exists and has the    *)
(* partner of the token, for tokens that were minted here.                 *)
CheckToken(s) ==
  LET r == reqs[s]
  IN /\ r.pc = "token"
     /\ Goto(s, IF /\ now <= tokens[r.token].expires
                   /\ interviews[tokens[r.token].interview].partner
                        = tokens[r.token].partner
                THEN [r EXCEPT !.pc = "claim"] ELSE Idle)
     /\ UNCHANGED <<access, now, buckets, restarts, admitted>>

(* Mutant: the jti is recorded without a primary key.                      *)
ClaimAgain(s) ==
  LET r == reqs[s]
  IN /\ r.pc = "claim"
     /\ jtis' = jtis \cup {r.token}
     /\ Goto(s, [r EXCEPT !.pc = "session"])
     /\ UNCHANGED <<interviews, tokens, sessions, now, buckets, restarts, admitted>>

(* The insert of a jti that is there already fails: token already used.    *)
ClaimToken(s) ==
  LET r == reqs[s]
  IN /\ r.pc = "claim"
     /\ \/ /\ r.token \in jtis \/ "db" \in Faults
           /\ Goto(s, Idle)
           /\ UNCHANGED jtis
        \/ /\ r.token \notin jtis
           /\ jtis' = jtis \cup {r.token}
           /\ Goto(s, [r EXCEPT !.pc = "session"])
     /\ UNCHANGED <<interviews, tokens, sessions, now, buckets, restarts, admitted>>

(* When this insert fails the token is used up and there is no session.    *)
StoreSession(s) ==
  LET r == reqs[s]
  IN /\ r.pc = "session"
     /\ Goto(s, Idle)
     /\ \/ /\ "db" \in Faults
           /\ UNCHANGED sessions
        \/ sessions' = Append(sessions,
                              [interview |-> tokens[r.token].interview,
                               token |-> r.token,
                               expires |-> now + SessionTTL])
     /\ UNCHANGED <<interviews, tokens, jtis, now, buckets, restarts, admitted>>

GatewayStep(s) ==
  FindInterview(s) \/ InsertInterview(s) \/ CheckToken(s) \/ ClaimToken(s)
    \/ StoreSession(s)

(***************************************************************************)
(* The middleware for the calls of the interview itself: an identity, the  *)
(* interview the call is about, and whether the call gets to its handler.  *)
(* An expired session is refused before the limiter, another interview     *)
(* than the session's after it.                                            *)
(***************************************************************************)
Admitted(id, i) ==
  /\ Admits(id)
  /\ id[1] = "session" => sessions[id[2]].interview = i

Callers ==
  {ByKey(p) : p \in Partners} \cup
  {BySession(x) : x \in {y \in DOMAIN sessions : sessions[y].expires >= now}}

(***************************************************************************)
(* Properties.                                                             *)
(***************************************************************************)
GatewayTypeOK ==
  /\ LimiterTypeOK
  /\ interviews \in Seq([partner : Partners,
                         practice : Practices \cup {NoPractice}])
  /\ Len(interviews) <= MaxInterviews
  /\ tokens \in Seq([interview : DOMAIN interviews, partner : Partners,
                     expires : Nat])
  /\ jtis \subseteq DOMAIN tokens
  /\ sessions \in Seq([interview : DOMAIN interviews,
                       token : DOMAIN tokens, expires : Nat])
  /\ reqs \in [Slots ->
       {Idle} \cup
       [pc : {"find", "insert"}, partner : Partners,
        practice : Practices \cup {NoPractice}] \cup
       [pc : {"token", "claim", "session"}, token : DOMAIN tokens]]

(* session.go:123: a launch token lets one browser in, however many        *)
(* exchange it at the same time and whatever fails in between.             *)
OneSessionPerToken ==
  /\ \A x, y \in DOMAIN sessions :
       sessions[x].token = sessions[y].token => x = y
  /\ \A x \in DOMAIN sessions : sessions[x].token \in jtis

(* interviews.go:46: a practice of a partner has one interview, also when  *)
(* create calls overlap.                                                   *)
OneInterviewPerPractice ==
  \A p \in Partners, q \in Practices : Cardinality(OfPractice(p, q)) <= 1
=============================================================================
