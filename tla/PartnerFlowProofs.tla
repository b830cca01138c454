-------------------------- MODULE PartnerFlowProofs --------------------------
(***************************************************************************)
(* For any number of partners, requests, restarts and failures: a launch   *)
(* token lets one browser in, a practice has one interview, a report does  *)
(* not change, and a webhook announces what can be read.                   *)
(*                                                                         *)
(* The state of the gateway and that of the handlers are disjoint but for  *)
(* the calls that the middleware lets through, so their invariants are     *)
(* proved one after the other.                                             *)
(***************************************************************************)
EXTENDS PartnerFlow, FiniteSetTheorems, SequenceTheorems, WellFoundedInduction,
        TLAPS

-----------------------------------------------------------------------------
(* The gateway.                                                            *)

(* A token that was claimed and whose session is not stored yet is in the  *)
(* hands of one request, and has no session.                               *)
Claims(s) == reqs[s].pc = "session"

TokensOnce ==
  /\ OneSessionPerToken
  /\ \A s \in Slots : Claims(s) =>
       /\ reqs[s].token \in jtis
       /\ \A x \in DOMAIN sessions : sessions[x].token # reqs[s].token
       /\ \A t \in Slots :
            Claims(t) /\ reqs[t].token = reqs[s].token => t = s

PracticesOnce ==
  \A i, j \in DOMAIN interviews :
    /\ interviews[i].practice # NoPractice
    /\ interviews[j].practice = interviews[i].practice
    /\ interviews[j].partner = interviews[i].partner
    => j = i

GatewayInv == GatewayTypeOK /\ TokensOnce /\ PracticesOnce

Interview == [partner : Partners, practice : Practices \cup {NoPractice}]
Token == [interview : DOMAIN interviews, partner : Partners, expires : Nat]
Session == [interview : DOMAIN interviews, token : DOMAIN tokens, expires : Nat]
Creation == [pc : {"find", "insert"}, partner : Partners,
             practice : Practices \cup {NoPractice}]
Exchange == [pc : {"token", "claim", "session"}, token : DOMAIN tokens]

LEMMA LimiterInitTypes == LimiterInit => LimiterTypeOK
<1> DEFINE Admission == [at : Times, run : Nat]
<1> SUFFICES ASSUME LimiterInit PROVE LimiterTypeOK
  OBVIOUS
<1>1. <<>> \in Seq(Admission)
  BY EmptySeq
<1>2. admitted \in [Identities -> Seq(Admission)]
  <2> HIDE DEF Admission
  <2> QED
    BY <1>1 DEF LimiterInit
<1>3. buckets \in [Identities -> [count : Nat, resetAt : Nat]] /\ restarts \in Nat
  BY DEF LimiterInit, NoBuckets
<1>4. now \in Times
  BY LimiterAssumption DEF LimiterInit, Times
<1> QED
  BY <1>2, <1>3, <1>4 DEF LimiterTypeOK

LEMMA AllowTypes ==
  ASSUME LimiterTypeOK, NEW id, Allow(id)
  PROVE  LimiterTypeOK'
<1>1. CASE id \in Identities
  <2>1. BucketFor(id) \in [count : Nat, resetAt : Nat]
    BY <1>1, LimiterAssumption DEF BucketFor, LimiterTypeOK, Times
  <2>2. [BucketFor(id) EXCEPT !.count = @ + 1] \in [count : Nat, resetAt : Nat]
    BY <2>1
  <2> DEFINE Admission == [at : Times, run : Nat]
             call == [at |-> now, run |-> restarts]
  <2>3. Append(admitted[id], call) \in Seq(Admission)
    <3>1. call \in Admission
      BY DEF LimiterTypeOK
    <3> HIDE DEF call
    <3> QED
      BY <1>1, <3>1, AppendProperties DEF LimiterTypeOK
  <2>4. [admitted EXCEPT ![id] = Append(@, call)] \in [Identities -> Seq(Admission)]
    BY <1>1, <2>3 DEF LimiterTypeOK
  <2>5. admitted' \in [Identities -> Seq(Admission)]
    BY <2>4 DEF Allow, NoteCall, LimiterTypeOK
  <2> QED
    BY <1>1, <2>2, <2>5 DEF Allow, LimiterTypeOK, Times
<1>2. CASE id \notin Identities
  <2>1. UNCHANGED <<now, buckets, restarts, admitted>>
    BY <1>2 DEF Allow, NoteCall, LimiterTypeOK
  <2> QED
    BY <2>1 DEF LimiterTypeOK, Times
<1> QED
  BY <1>1, <1>2

LEMMA TickTypes ==
  ASSUME LimiterTypeOK, Tick
  PROVE  LimiterTypeOK'
<1>1. now' \in Times
  BY LimiterAssumption DEF LimiterTypeOK, Tick, Times
<1>2. UNCHANGED <<buckets, restarts, admitted>>
  BY DEF Tick
<1> QED
  BY <1>1, <1>2 DEF LimiterTypeOK

LEMMA GatewayInitInv ==
  ASSUME GatewayInit, LimiterInit
  PROVE  GatewayInv
<1>1. GatewayTypeOK
  BY LimiterInitTypes, GatewayAssumption DEF GatewayInit, GatewayTypeOK
<1>2. TokensOnce
  BY DEF GatewayInit, TokensOnce, OneSessionPerToken, Claims, Idle
<1>3. PracticesOnce
  BY DEF GatewayInit, PracticesOnce
<1> QED
  BY <1>1, <1>2, <1>3 DEF GatewayInv

(* A request that is received, drops out or gets on without a claim, and   *)
(* rows that stay or of which there are more.                              *)
MoreTokens ==
  /\ tokens' = tokens \/ \E t \in Token' : tokens' = Append(tokens, t)
  /\ interviews' = interviews
       \/ \E i \in Interview : /\ interviews' = Append(interviews, i)
                               /\ Len(interviews) < MaxInterviews

LEMMA MoreTokensTypes ==
  ASSUME GatewayInv, MoreTokens
  PROVE  /\ interviews' \in Seq(Interview) /\ Len(interviews') <= MaxInterviews
         /\ DOMAIN interviews \subseteq DOMAIN interviews'
         /\ tokens' \in Seq(Token') /\ DOMAIN tokens \subseteq DOMAIN tokens'
<1>1. interviews \in Seq(Interview) /\ tokens \in Seq(Token)
      /\ Len(interviews) <= MaxInterviews
  BY DEF GatewayInv, GatewayTypeOK, Interview, Token
<1>2. /\ interviews' \in Seq(Interview) /\ Len(interviews') <= MaxInterviews
      /\ DOMAIN interviews \subseteq DOMAIN interviews'
  BY <1>1, GatewayAssumption DEF MoreTokens
<1>3. tokens \in Seq(Token')
  <2>1. Token \subseteq Token'
    BY <1>2 DEF Token
  <2> QED
    BY <1>1, <2>1
<1>4. tokens' \in Seq(Token') /\ DOMAIN tokens \subseteq DOMAIN tokens'
  BY <1>3 DEF MoreTokens
<1> QED
  BY <1>2, <1>4

LEMMA QuietStep ==
  ASSUME GatewayInv, LimiterTypeOK', MoreTokens, PracticesOnce',
         UNCHANGED <<jtis, sessions>>,
         NEW s \in Slots, NEW r, Goto(s, r), r.pc # "session",
         r = Idle \/ r \in Creation \/ r \in Exchange'
  PROVE  GatewayInv'
<1>1. /\ interviews' \in Seq(Interview) /\ Len(interviews') <= MaxInterviews
      /\ DOMAIN interviews \subseteq DOMAIN interviews'
      /\ tokens' \in Seq(Token') /\ DOMAIN tokens \subseteq DOMAIN tokens'
  BY MoreTokensTypes
<1>2. reqs \in [Slots -> {Idle} \cup Creation \cup Exchange]
      /\ sessions \in Seq(Session) /\ jtis \subseteq DOMAIN tokens
  BY DEF GatewayInv, GatewayTypeOK, Creation, Exchange, Session
<1>3. Exchange \subseteq Exchange' /\ Session \subseteq Session'
  BY <1>1 DEF Exchange, Session
<1>4. reqs' \in [Slots -> {Idle} \cup Creation \cup Exchange']
  BY <1>2, <1>3 DEF Goto
<1>5. sessions' \in Seq(Session')
  BY <1>2, <1>3
<1>6. GatewayTypeOK'
  BY <1>1, <1>2, <1>4, <1>5
     DEF GatewayTypeOK, Creation, Exchange, Session, Token, Interview
<1>7. TokensOnce'
  <2>1. \A t \in Slots : t # s => reqs'[t] = reqs[t]
    BY <1>2 DEF Goto
  <2>2. reqs'[s].pc # "session"
    BY <1>2 DEF Goto
  <2> QED
    BY <2>1, <2>2 DEF GatewayInv, TokensOnce, OneSessionPerToken, Claims
<1> QED
  BY <1>6, <1>7 DEF GatewayInv

LEMMA ReceiveCreateKeeps ==
  ASSUME GatewayInv, NEW s \in Slots, ReceiveCreate(s)
  PROVE  GatewayInv'
<1>1. PICK p \in Partners, q \in Practices \cup {NoPractice} :
        /\ Allow(ByKey(p))
        /\ Goto(s, IF ~Admits(ByKey(p)) THEN Idle
                   ELSE [pc |-> IF q = NoPractice THEN "insert" ELSE "find",
                         partner |-> p, practice |-> q])
        /\ UNCHANGED access
  BY DEF ReceiveCreate
<1>2. PICK r : Goto(s, r) /\ (r = Idle \/ r \in Creation) /\ r.pc # "session"
  <2>1. [pc |-> IF q = NoPractice THEN "insert" ELSE "find",
         partner |-> p, practice |-> q] \in Creation
    BY DEF Creation
  <2>2. Idle.pc # "session" /\ \A r \in Creation : r.pc # "session"
    BY DEF Idle, Creation
  <2> QED
    BY <1>1, <2>1, <2>2
<1>3. LimiterTypeOK'
  BY <1>1, AllowTypes DEF GatewayInv, GatewayTypeOK
<1>4. MoreTokens /\ UNCHANGED <<jtis, sessions>> /\ PracticesOnce'
  BY <1>1 DEF MoreTokens, access, GatewayInv, PracticesOnce
<1> QED
  BY <1>2, <1>3, <1>4, QuietStep

LEMMA ReceiveExchangeKeeps ==
  ASSUME GatewayInv, NEW s \in Slots, ReceiveExchange(s)
  PROVE  GatewayInv'
<1>1. PICK t \in DOMAIN tokens :
        /\ Allow(ByAddress)
        /\ Goto(s, IF Admits(ByAddress) THEN [pc |-> "token", token |-> t]
                   ELSE Idle)
        /\ UNCHANGED access
  BY DEF ReceiveExchange
<1>2. PICK r : Goto(s, r) /\ (r = Idle \/ r = [pc |-> "token", token |-> t])
  BY <1>1
<1>3. r.pc # "session"
  BY <1>2 DEF Idle
<1>4. LimiterTypeOK'
  BY <1>1, AllowTypes DEF GatewayInv, GatewayTypeOK
<1>5. MoreTokens /\ UNCHANGED <<jtis, sessions>> /\ PracticesOnce'
      /\ tokens' = tokens
  BY <1>1 DEF MoreTokens, access, GatewayInv, PracticesOnce
<1>6. r = Idle \/ r \in Exchange'
  BY <1>2, <1>5 DEF Exchange
<1> QED
  BY <1>2, <1>3, <1>4, <1>5, <1>6, QuietStep

LEMMA LimiterStays ==
  ASSUME GatewayInv, UNCHANGED <<now, buckets, restarts, admitted>>
  PROVE  LimiterTypeOK'
BY DEF GatewayInv, GatewayTypeOK, LimiterTypeOK, Times

LEMMA CreationTypes ==
  ASSUME GatewayInv, NEW s \in Slots, reqs[s].pc \in {"find", "insert"}
  PROVE  reqs[s] \in Creation
<1>1. reqs[s] \in {Idle} \cup Creation \cup Exchange
  BY DEF GatewayInv, GatewayTypeOK, Creation, Exchange
<1>2. Idle.pc = "idle" /\ \A r \in Exchange : r.pc \notin {"find", "insert"}
  BY DEF Idle, Exchange
<1> QED
  BY <1>1, <1>2

LEMMA ExchangeTypes ==
  ASSUME GatewayInv, NEW s \in Slots, reqs[s].pc \in {"token", "claim", "session"}
  PROVE  reqs[s] \in Exchange
<1>1. reqs[s] \in {Idle} \cup Creation \cup Exchange
  BY DEF GatewayInv, GatewayTypeOK, Creation, Exchange
<1>2. /\ Idle.pc = "idle"
      /\ \A r \in Creation : r.pc \notin {"token", "claim", "session"}
  BY DEF Idle, Creation
<1> QED
  BY <1>1, <1>2

LEMMA FindInterviewKeeps ==
  ASSUME GatewayInv, NEW s \in Slots, FindInterview(s)
  PROVE  GatewayInv'
<1>1. reqs[s] \in Creation /\ LimiterTypeOK' /\ now \in Nat
      /\ UNCHANGED <<interviews, jtis, sessions>> /\ PracticesOnce'
  <2>1. UNCHANGED <<interviews, jtis, sessions, now, buckets, restarts, admitted>>
        /\ reqs[s].pc = "find"
    BY DEF FindInterview
  <2>2. now \in Nat
    BY DEF GatewayInv, GatewayTypeOK, LimiterTypeOK, Times
  <2> QED
    BY <2>1, <2>2, CreationTypes, LimiterStays DEF GatewayInv, PracticesOnce
<1>2. CASE tokens' = tokens /\ Goto(s, [reqs[s] EXCEPT !.pc = "insert"])
  <2>1. PICK r : r = [reqs[s] EXCEPT !.pc = "insert"]
    OBVIOUS
  <2>2. r \in Creation /\ r.pc # "session"
    BY <1>1, <2>1 DEF Creation
  <2>3. MoreTokens
    BY <1>1, <1>2 DEF MoreTokens
  <2> QED
    BY <1>1, <1>2, <2>1, <2>2, <2>3, QuietStep
<1>3. ASSUME NEW i \in OfPractice(reqs[s].partner, reqs[s].practice),
             Mint(i, reqs[s].partner), Goto(s, Idle)
      PROVE  GatewayInv'
  <2>1. i \in DOMAIN interviews' /\ reqs[s].partner \in Partners
    BY <1>1 DEF OfPractice, Creation
  <2>2. PICK t : t = [interview |-> i, partner |-> reqs[s].partner,
                      expires |-> now + LaunchTTL]
    OBVIOUS
  <2>3. t \in Token'
    BY <1>1, <2>1, <2>2, GatewayAssumption DEF Token
  <2>4. MoreTokens
    BY <1>1, <1>3, <2>2, <2>3 DEF MoreTokens, Mint
  <2>5. Idle.pc # "session"
    BY DEF Idle
  <2> QED
    BY <1>1, <1>3, <2>4, <2>5, QuietStep
<1> QED
  BY <1>2, <1>3 DEF FindInterview

LEMMA InsertInterviewKeeps ==
  ASSUME GatewayInv, NEW s \in Slots, InsertInterview(s)
  PROVE  GatewayInv'
<1>1. reqs[s] \in Creation /\ LimiterTypeOK' /\ now \in Nat
      /\ UNCHANGED <<jtis, sessions>> /\ Goto(s, Idle) /\ Idle.pc # "session"
  <2>1. UNCHANGED <<jtis, sessions, now, buckets, restarts, admitted>>
        /\ reqs[s].pc = "insert" /\ Goto(s, Idle)
    BY DEF InsertInterview
  <2>2. now \in Nat
    BY DEF GatewayInv, GatewayTypeOK, LimiterTypeOK, Times
  <2> QED
    BY <2>1, <2>2, CreationTypes, LimiterStays DEF Idle
<1>2. CASE UNCHANGED <<interviews, tokens>>
  <2>1. MoreTokens /\ PracticesOnce'
    BY <1>2 DEF MoreTokens, GatewayInv, PracticesOnce
  <2> QED
    BY <1>1, <2>1, QuietStep
<1>3. CASE /\ ~PracticeTaken(reqs[s].partner, reqs[s].practice)
           /\ Len(interviews) < MaxInterviews
           /\ interviews' = Append(interviews,
                                   [partner |-> reqs[s].partner,
                                    practice |-> reqs[s].practice])
           /\ Mint(Len(interviews) + 1, reqs[s].partner)
  <2>1. PICK new \in Interview : /\ interviews' = Append(interviews, new)
                                 /\ new.partner = reqs[s].partner
                                 /\ new.practice = reqs[s].practice
    BY <1>1, <1>3 DEF Creation, Interview
  <2>2. interviews \in Seq(Interview)
    BY DEF GatewayInv, GatewayTypeOK, Interview
  <2>3. Len(interviews) + 1 \in DOMAIN interviews'
    BY <2>1, <2>2
  <2>4. PICK t : t = [interview |-> Len(interviews) + 1,
                      partner |-> reqs[s].partner, expires |-> now + LaunchTTL]
    OBVIOUS
  <2>5. t \in Token'
    BY <1>1, <2>3, <2>4, GatewayAssumption DEF Token, Creation
  <2>6. MoreTokens
    BY <1>3, <2>1, <2>4, <2>5 DEF MoreTokens, Mint
  <2>7. PracticesOnce'
    <3>1. \A i \in DOMAIN interviews' :
            \/ i \in DOMAIN interviews /\ interviews'[i] = interviews[i]
            \/ i = Len(interviews) + 1 /\ interviews'[i] = new
      BY <2>1, <2>2
    <3>2. \A i \in DOMAIN interviews :
            /\ new.practice # NoPractice
            /\ interviews[i].practice = new.practice
            => interviews[i].partner # new.partner
      BY <1>3, <2>1 DEF PracticeTaken, OfPractice
    <3> QED
      BY <3>1, <3>2 DEF GatewayInv, PracticesOnce
  <2> QED
    BY <1>1, <2>6, <2>7, QuietStep
<1> QED
  BY <1>2, <1>3 DEF InsertInterview

LEMMA CheckTokenKeeps ==
  ASSUME GatewayInv, NEW s \in Slots, CheckToken(s)
  PROVE  GatewayInv'
<1>1. reqs[s] \in Exchange /\ LimiterTypeOK' /\ MoreTokens /\ PracticesOnce'
      /\ UNCHANGED <<jtis, sessions, tokens>>
  <2>1. UNCHANGED <<access, now, buckets, restarts, admitted>> /\ reqs[s].pc = "token"
    BY DEF CheckToken
  <2> QED
    BY <2>1, ExchangeTypes, LimiterStays
       DEF MoreTokens, access, GatewayInv, PracticesOnce
<1>2. PICK r : /\ Goto(s, r)
               /\ r = Idle \/ r = [reqs[s] EXCEPT !.pc = "claim"]
  BY DEF CheckToken
<1>3. r.pc # "session" /\ (r = Idle \/ r \in Exchange')
  BY <1>1, <1>2 DEF Exchange, Idle
<1> QED
  BY <1>1, <1>2, <1>3, QuietStep

(* A step that changes neither the tokens nor the interviews.              *)
LEMMA SameTokens ==
  ASSUME GatewayInv, UNCHANGED <<interviews, tokens, now, buckets, restarts, admitted>>,
         jtis' \subseteq DOMAIN tokens, sessions' \in Seq(Session),
         NEW s \in Slots, NEW r, Goto(s, r),
         r = Idle \/ r \in Exchange, TokensOnce'
  PROVE  GatewayInv'
<1>1. reqs \in [Slots -> {Idle} \cup Creation \cup Exchange]
  BY DEF GatewayInv, GatewayTypeOK, Creation, Exchange
<1>2. reqs' \in [Slots -> {Idle} \cup Creation \cup Exchange]
  BY <1>1 DEF Goto
<1>3. Session' = Session /\ Exchange' = Exchange /\ Token' = Token
  BY DEF Session, Exchange, Token
<1>4. GatewayTypeOK'
  <2>1. /\ interviews \in Seq(Interview) /\ Len(interviews) <= MaxInterviews
        /\ tokens \in Seq(Token)
    BY DEF GatewayInv, GatewayTypeOK, Interview, Token
  <2> QED
    BY <1>2, <1>3, <2>1, LimiterStays
       DEF GatewayTypeOK, Creation, Exchange, Session, Token, Interview
<1>5. PracticesOnce'
  BY DEF GatewayInv, PracticesOnce
<1> QED
  BY <1>4, <1>5 DEF GatewayInv

LEMMA ClaimTokenKeeps ==
  ASSUME GatewayInv, NEW s \in Slots, ClaimToken(s)
  PROVE  GatewayInv'
<1>1. /\ reqs[s] \in Exchange /\ reqs[s].token \in DOMAIN tokens
      /\ UNCHANGED <<interviews, tokens, sessions, now, buckets, restarts, admitted>>
      /\ sessions \in Seq(Session) /\ jtis \subseteq DOMAIN tokens
      /\ reqs \in [Slots -> {Idle} \cup Creation \cup Exchange]
  <2>1. reqs[s].pc = "claim"
    BY DEF ClaimToken
  <2>2. reqs[s] \in Exchange
    BY <2>1, ExchangeTypes
  <2> QED
    BY <2>2
       DEF ClaimToken, GatewayInv, GatewayTypeOK, Session, Exchange, Creation
<1>2. CASE Goto(s, Idle) /\ jtis' = jtis
  <2>1. \A t \in Slots : t # s => reqs'[t] = reqs[t]
    BY <1>1, <1>2 DEF Goto
  <2>2. reqs'[s].pc # "session"
    BY <1>1, <1>2 DEF Goto, Idle
  <2>3. TokensOnce'
    BY <1>1, <1>2, <2>1, <2>2
       DEF GatewayInv, TokensOnce, OneSessionPerToken, Claims
  <2> QED
    BY <1>1, <1>2, <2>3, SameTokens
<1>3. CASE /\ reqs[s].token \notin jtis
           /\ jtis' = jtis \cup {reqs[s].token}
           /\ Goto(s, [reqs[s] EXCEPT !.pc = "session"])
  <2>1. PICK r \in Exchange : /\ Goto(s, r) /\ r.pc = "session"
                              /\ r.token = reqs[s].token
    BY <1>1, <1>3 DEF Exchange
  <2>2. reqs'[s] = r /\ \A t \in Slots : t # s => reqs'[t] = reqs[t]
    BY <1>1, <2>1 DEF Goto
  <2>3. \A x \in DOMAIN sessions : sessions[x].token # reqs[s].token
    BY <1>3 DEF GatewayInv, TokensOnce, OneSessionPerToken
  <2>4. \A t \in Slots : Claims(t) => reqs[t].token # reqs[s].token
    BY <1>3 DEF GatewayInv, TokensOnce
  <2>5. TokensOnce'
    BY <1>1, <1>3, <2>1, <2>2, <2>3, <2>4
       DEF GatewayInv, TokensOnce, OneSessionPerToken, Claims
  <2> QED
    BY <1>1, <1>3, <2>1, <2>5, SameTokens
<1> QED
  BY <1>2, <1>3 DEF ClaimToken

LEMMA StoreSessionKeeps ==
  ASSUME GatewayInv, NEW s \in Slots, StoreSession(s)
  PROVE  GatewayInv'
<1>1. /\ reqs[s] \in Exchange /\ reqs[s].token \in DOMAIN tokens
      /\ Claims(s) /\ Goto(s, Idle)
      /\ UNCHANGED <<interviews, tokens, jtis, now, buckets, restarts, admitted>>
      /\ sessions \in Seq(Session) /\ jtis \subseteq DOMAIN tokens
      /\ reqs \in [Slots -> {Idle} \cup Creation \cup Exchange]
      /\ tokens \in Seq(Token) /\ now \in Nat
  <2>1. reqs[s].pc = "session"
    BY DEF StoreSession
  <2>2. reqs[s] \in Exchange
    BY <2>1, ExchangeTypes
  <2> QED
    BY <2>1, <2>2
       DEF StoreSession, GatewayInv, GatewayTypeOK, Session, Exchange,
       Creation, Claims, Token, LimiterTypeOK, Times
<1>2. \A t \in Slots : t # s => reqs'[t] = reqs[t]
  BY <1>1 DEF Goto
<1>3. reqs'[s].pc # "session"
  BY <1>1 DEF Goto, Idle
<1>4. CASE sessions' = sessions
  <2>1. TokensOnce'
    BY <1>1, <1>2, <1>3, <1>4
       DEF GatewayInv, TokensOnce, OneSessionPerToken, Claims
  <2> QED
    BY <1>1, <1>4, <2>1, SameTokens
<1>5. CASE sessions' = Append(sessions,
                              [interview |-> tokens[reqs[s].token].interview,
                               token |-> reqs[s].token,
                               expires |-> now + SessionTTL])
  <2>1. tokens[reqs[s].token] \in Token
    BY <1>1
  <2> DEFINE new == [interview |-> tokens[reqs[s].token].interview,
                     token |-> reqs[s].token, expires |-> now + SessionTTL]
  <2>6. new \in Session /\ new.token = reqs[s].token
    BY <1>1, <2>1, GatewayAssumption DEF Session, Token
  <2> HIDE DEF new
  <2>2. PICK x \in Session : /\ sessions' = Append(sessions, x)
                             /\ x.token = reqs[s].token
    BY <1>5, <2>6 DEF new
  <2>3. sessions' \in Seq(Session)
    BY <1>1, <2>2
  <2>4. \A y \in DOMAIN sessions' :
          \/ y \in DOMAIN sessions /\ sessions'[y] = sessions[y]
          \/ y = Len(sessions) + 1 /\ sessions'[y] = x
    BY <1>1, <2>2
  <2>7. \A y \in DOMAIN sessions : sessions[y].token # reqs[s].token
    BY <1>1 DEF GatewayInv, TokensOnce
  <2>8. OneSessionPerToken'
    BY <1>1, <2>2, <2>4, <2>7
       DEF GatewayInv, TokensOnce, OneSessionPerToken, Claims
  <2>9. ASSUME NEW t \in Slots, Claims(t)'
        PROVE  /\ reqs'[t].token \in jtis'
               /\ \A y \in DOMAIN sessions' :
                    sessions'[y].token # reqs'[t].token
               /\ \A u \in Slots :
                    Claims(u)' /\ reqs'[u].token = reqs'[t].token => u = t
    <3>1. t # s /\ Claims(t) /\ reqs'[t] = reqs[t]
      BY <1>2, <1>3, <2>9 DEF Claims
    <3>2. reqs[t].token # reqs[s].token
      BY <1>1, <3>1 DEF GatewayInv, TokensOnce
    <3>3. \A u \in Slots : Claims(u)' => Claims(u) /\ reqs'[u] = reqs[u]
      BY <1>2, <1>3 DEF Claims
    <3> QED
      BY <1>1, <2>2, <2>4, <3>1, <3>2, <3>3 DEF GatewayInv, TokensOnce
  <2>5. TokensOnce'
    BY <2>8, <2>9 DEF TokensOnce, Claims
  <2> QED
    BY <1>1, <2>3, <2>5, SameTokens
<1> QED
  BY <1>4, <1>5 DEF StoreSession

-----------------------------------------------------------------------------
(* The handlers, the reports and the deliveries.                           *)

ReportsOnce ==
  \A i \in Interviews :
    /\ Len(reports[i]) <= 1
    /\ \A a \in replies[i] : reports[i] # << >> /\ a = Head(reports[i])

Announced ==
  /\ \A d \in deliveries : d.interview \in completed
  /\ AnnouncedMeansReadable

(* What a delivery has posted was posted before its next attempt, and not  *)
(* acknowledged.                                                           *)
Attempts ==
  /\ IsFiniteSet(deliveries)
  /\ \A d, e \in deliveries : d.id = e.id => d = e
  /\ \A d \in deliveries : d.attempt <= Backoffs + 1
  /\ \A d \in deliveries, k \in DOMAIN posts :
       posts[k].delivery = d.id => posts[k].attempt < d.attempt /\ ~posts[k].acked
  /\ \A k \in DOMAIN posts : posts[k].attempt \in 1 .. Backoffs + 1
  /\ \A k, l \in DOMAIN posts :
       k < l /\ posts[k].delivery = posts[l].delivery =>
         posts[k].attempt < posts[l].attempt /\ ~posts[k].acked

AftermathInv == AftermathTypeOK /\ ReportsOnce /\ Announced /\ Attempts

Report == Handlers \X Nat
Working == [pc : {"load", "write", "find", "refuse", "compute"},
            kind : {"answer", "complete", "report"}, interview : Interviews]
Storing == [pc : {"store"}, kind : {"report"}, interview : Interviews,
            report : Report]
Delivery == [id : Nat, interview : Interviews, attempt : Nat]
Post == [delivery : Nat, interview : Interviews, attempt : Nat, acked : BOOLEAN]

LEMMA AftermathTypes ==
  /\ AftermathInv =>
       /\ completed \subseteq Interviews
       /\ answers \in [Interviews -> 0 .. MaxAnswers]
       /\ reports \in [Interviews -> Seq(Report)]
       /\ handlers \in [Handlers -> {Free} \cup Working \cup Storing]
       /\ deliveries \subseteq Delivery /\ posts \in Seq(Post)
       /\ replies \in [Interviews -> SUBSET Report]
  /\ AftermathTypeOK <=>
       /\ completed \subseteq Interviews
       /\ answers \in [Interviews -> 0 .. MaxAnswers]
       /\ reports \in [Interviews -> Seq(Report)]
       /\ handlers \in [Handlers -> {Free} \cup Working \cup Storing]
       /\ deliveries \subseteq Delivery /\ posts \in Seq(Post)
       /\ replies \in [Interviews -> SUBSET Report]
BY DEF AftermathInv, AftermathTypeOK, Report, Working, Storing, Delivery, Post

LEMMA AftermathInitInv ==
  ASSUME AftermathInit
  PROVE  AftermathInv
<1>1. AftermathTypeOK
  BY AftermathAssumption, AftermathTypes DEF AftermathInit
<1>2. ReportsOnce
  BY DEF AftermathInit, ReportsOnce
<1>3. Announced
  BY DEF AftermathInit, Announced, AnnouncedMeansReadable
<1>4. Attempts
  BY FS_EmptySet DEF AftermathInit, Attempts
<1> QED
  BY <1>1, <1>2, <1>3, <1>4 DEF AftermathInv

(* A step of one request that changes only where it stands, and perhaps an *)
(* answer.                                                                 *)
LEMMA HandlerMoves ==
  ASSUME AftermathInv,
         UNCHANGED <<completed, reports, deliveries, posts, replies>>,
         answers' \in [Interviews -> 0 .. MaxAnswers],
         handlers' \in [Handlers -> {Free} \cup Working \cup Storing]
  PROVE  AftermathInv'
<1>1. AftermathTypeOK'
  <2>1. Report' = Report /\ Delivery' = Delivery /\ Post' = Post
        /\ Working' = Working /\ Storing' = Storing /\ Free' = Free
    BY DEF Report, Delivery, Post, Working, Storing, Free
  <2> QED
    BY <2>1, AftermathTypes
       DEF AftermathTypeOK, Report, Working, Storing, Delivery, Post
<1>2. ReportsOnce' /\ Announced' /\ Attempts'
  BY DEF AftermathInv, ReportsOnce, Announced, AnnouncedMeansReadable, Attempts
<1> QED
  BY <1>1, <1>2 DEF AftermathInv

LEMMA ContinueTypes ==
  ASSUME AftermathInv, NEW h \in Handlers,
         NEW r \in {Free} \cup Working \cup Storing, Continue(h, r)
  PROVE  handlers' \in [Handlers -> {Free} \cup Working \cup Storing]
BY AftermathTypes DEF Continue

LEMMA WorkingTypes ==
  ASSUME AftermathInv, NEW h \in Handlers
  PROVE  /\ handlers[h].pc \in {"load", "write", "find", "refuse", "compute"} =>
              handlers[h] \in Working
         /\ handlers[h].pc = "store" => handlers[h] \in Storing
<1>1. handlers[h] \in {Free} \cup Working \cup Storing
  BY AftermathTypes
<1>2. Free.pc = "free" /\ \A r \in Storing : r.pc = "store"
  BY DEF Free, Storing
<1>3. \A r \in Working : r.pc # "store"
  BY DEF Working
<1> QED
  BY <1>1, <1>2, <1>3

(***************************************************************************)
(* A number that no delivery and no post uses is always left.              *)
(***************************************************************************)
LEMMA ImageIsFinite ==
  ASSUME NEW S, IsFiniteSet(S), NEW f \in [S -> Nat]
  PROVE  LET T == {f[x] : x \in S}
         IN  IsFiniteSet(T) /\ Cardinality(T) <= Cardinality(S)
<1> DEFINE T == {f[x] : x \in S}
<1>1. f \in Surjection(S, T)
  BY DEF Surjection
<1> HIDE DEF T
<1>2. IsFiniteSet(T) /\ Cardinality(T) <= Cardinality(S)
  BY <1>1, FS_Surjection
<1> QED
  BY <1>2 DEF T

LEMMA FreshDeliveryIsFresh ==
  ASSUME AftermathInv
  PROVE  /\ FreshDelivery \in Nat
         /\ \A d \in deliveries : d.id # FreshDelivery
         /\ \A k \in DOMAIN posts : posts[k].delivery # FreshDelivery
<1>1. IsFiniteSet(deliveries) /\ deliveries \subseteq Delivery /\ posts \in Seq(Post)
  BY AftermathTypes DEF AftermathInv, Attempts
<1> DEFINE f == [d \in deliveries |-> d.id]
           g == [k \in DOMAIN posts |-> posts[k].delivery]
           U == {f[d] : d \in deliveries}
           V == {g[k] : k \in DOMAIN posts}
           n == Cardinality(deliveries) + Len(posts)
<1>2. f \in [deliveries -> Nat]
  BY <1>1 DEF Delivery
<1>3. g \in [DOMAIN posts -> Nat]
  <2>1. \A k \in DOMAIN posts : posts[k] \in Post
    BY <1>1
  <2> QED
    BY <2>1 DEF Post
<1>4. IsFiniteSet(DOMAIN posts) /\ Cardinality(DOMAIN posts) = Len(posts)
  <2>1. Len(posts) \in Nat /\ DOMAIN posts = 1 .. Len(posts)
    BY <1>1
  <2> QED
    <3>1. \A m \in Nat : IsFiniteSet(1 .. m) /\ Cardinality(1 .. m) = m
      BY FS_Interval
    <3> QED
      BY <2>1, <3>1
<1>5. IsFiniteSet(U) /\ Cardinality(U) <= Cardinality(deliveries)
  BY <1>1, <1>2, ImageIsFinite
<1>6. IsFiniteSet(V) /\ Cardinality(V) <= Len(posts)
  BY <1>3, <1>4, ImageIsFinite
<1>7. /\ IsFiniteSet(U \cup V) /\ Cardinality(U \cup V) <= n /\ n \in Nat
      /\ Cardinality(U \cup V) \in Nat
  <2>1. /\ Cardinality(U \cup V) =
             Cardinality(U) + Cardinality(V) - Cardinality(U \cap V)
        /\ IsFiniteSet(U \cup V)
    BY <1>5, <1>6, FS_Union
  <2>2. Cardinality(U \cap V) \in Nat
    BY <1>5, FS_Intersection, FS_CardinalityType
  <2>3. /\ Cardinality(U) \in Nat /\ Cardinality(V) \in Nat
        /\ Cardinality(U \cup V) \in Nat
        /\ Cardinality(deliveries) \in Nat /\ Len(posts) \in Nat
    BY <1>1, <1>5, <1>6, <2>1, FS_CardinalityType
  <2> HIDE DEF U, V
  <2> QED
    BY <1>5, <1>6, <2>1, <2>2, <2>3
<1> HIDE DEF n
<1>8. \E m \in 1 .. n + 1 : m \notin U \cup V
  <2> SUFFICES ASSUME 1 .. n + 1 \subseteq U \cup V PROVE FALSE
    OBVIOUS
  <2>1. Cardinality(1 .. n + 1) <= Cardinality(U \cup V)
    BY <1>7, FS_Subset
  <2>2. Cardinality(1 .. n + 1) = n + 1
    BY <1>7, FS_Interval
  <2> QED
    BY <1>7, <2>1, <2>2
<1>9. \E m \in 1 .. n + 1 : /\ \A d \in deliveries : d.id # m
                            /\ \A k \in DOMAIN posts : posts[k].delivery # m
  BY <1>8
<1>10. /\ FreshDelivery \in 1 .. n + 1
       /\ \A d \in deliveries : d.id # FreshDelivery
       /\ \A k \in DOMAIN posts : posts[k].delivery # FreshDelivery
  BY <1>9 DEF FreshDelivery, n
<1> QED
  BY <1>7, <1>10

-----------------------------------------------------------------------------
LEMMA MovesKeep ==
  ASSUME AftermathInv, NEW h \in Handlers,
         \/ LoadForWrite(h) \/ StoreAnswer(h) \/ LoadForReport(h)
         \/ ReadAnswers(h)
  PROVE  AftermathInv'
<1> DEFINE r == handlers[h]
<1>1. CASE LoadForWrite(h)
  <2>1. r \in Working
    BY <1>1, WorkingTypes DEF LoadForWrite
  <2>2. [r EXCEPT !.pc = "write"] \in Working
    BY <2>1 DEF Working
  <2>3. PICK n \in {Free} \cup Working \cup Storing : Continue(h, n)
    BY <1>1, <2>2 DEF LoadForWrite
  <2>4. answers' \in [Interviews -> 0 .. MaxAnswers]
    BY <1>1, AftermathTypes DEF LoadForWrite
  <2> QED
    BY <1>1, <2>3, <2>4, ContinueTypes, HandlerMoves DEF LoadForWrite
<1>2. CASE StoreAnswer(h)
  <2>1. r \in Working /\ Continue(h, Free)
    BY <1>2, WorkingTypes DEF StoreAnswer
  <2>2. r.interview \in Interviews
    BY <2>1 DEF Working
  <2>3. answers[r.interview] + 1 \in 0 .. MaxAnswers
    BY <1>2, <2>2, AftermathTypes, AftermathAssumption DEF StoreAnswer
  <2>4. answers' \in [Interviews -> 0 .. MaxAnswers]
    BY <1>2, <2>3, AftermathTypes DEF StoreAnswer
  <2> QED
    BY <1>2, <2>1, <2>4, ContinueTypes, HandlerMoves DEF StoreAnswer
<1>3. CASE LoadForReport(h)
  <2>1. r \in Working
    BY <1>3, WorkingTypes DEF LoadForReport
  <2>2. \A pc \in {"find", "refuse"} : [r EXCEPT !.pc = pc] \in Working
    BY <2>1 DEF Working
  <2>3. PICK n \in {Free} \cup Working \cup Storing : Continue(h, n)
    BY <1>3, <2>2 DEF LoadForReport
  <2>4. answers' \in [Interviews -> 0 .. MaxAnswers]
    BY <1>3, AftermathTypes DEF LoadForReport
  <2> QED
    BY <1>3, <2>3, <2>4, ContinueTypes, HandlerMoves DEF LoadForReport
<1>4. CASE ReadAnswers(h)
  <2>1. r \in Working
    BY <1>4, WorkingTypes DEF ReadAnswers
  <2>2. r.interview \in Interviews
    BY <2>1 DEF Working
  <2>3. ComputeInterviewReport(h, r.interview) \in Report
    BY <2>2, AftermathTypes, AftermathAssumption
       DEF ComputeInterviewReport, Narrative, Report
  <2>4. [pc |-> "store", interview |-> r.interview, kind |-> "report",
         report |-> ComputeInterviewReport(h, r.interview)] \in Storing
    BY <2>2, <2>3 DEF Storing
  <2>5. PICK n \in {Free} \cup Working \cup Storing : Continue(h, n)
    BY <1>4, <2>4 DEF ReadAnswers
  <2>6. answers' \in [Interviews -> 0 .. MaxAnswers]
    BY <1>4, AftermathTypes DEF ReadAnswers
  <2> QED
    BY <1>4, <2>5, <2>6, ContinueTypes, HandlerMoves DEF ReadAnswers
<1> QED
  BY <1>1, <1>2, <1>3, <1>4

(* A report that is returned: the stored one.                              *)
LEMMA ReportsKeep ==
  ASSUME AftermathInv, NEW h \in Handlers, FindReport(h) \/ StoreReport(h)
  PROVE  AftermathInv'
<1> DEFINE r == handlers[h]
<1>1. /\ UNCHANGED <<completed, answers, deliveries, posts>>
      /\ r.interview \in Interviews
      /\ handlers' \in [Handlers -> {Free} \cup Working \cup Storing]
  <2>1. CASE FindReport(h)
    <3>1. r \in Working
      BY <2>1, WorkingTypes DEF FindReport
    <3>2. [r EXCEPT !.pc = "compute"] \in Working /\ r.interview \in Interviews
      BY <3>1 DEF Working
    <3>3. PICK n \in {Free} \cup Working \cup Storing : Continue(h, n)
      BY <2>1, <3>2 DEF FindReport
    <3> QED
      BY <2>1, <3>2, <3>3, ContinueTypes DEF FindReport
  <2>2. CASE StoreReport(h)
    <3>1. r \in Storing /\ Continue(h, Free)
      BY <2>2, WorkingTypes DEF StoreReport
    <3>2. r.interview \in Interviews
      BY <3>1 DEF Storing
    <3> QED
      BY <2>2, <3>1, <3>2, ContinueTypes DEF StoreReport
  <2> QED
    BY <2>1, <2>2
<1>2. PICK i \in Interviews, new \in Report :
        \/ UNCHANGED <<reports, replies>>
        \/ reports[i] # << >> /\ new = Head(reports[i])
           /\ Reply(i, new) /\ reports' = reports
        \/ reports[i] = << >> /\ reports' = [reports EXCEPT ![i] = Append(@, new)]
           /\ Reply(i, new)
  <2>1. CASE FindReport(h)
    <3>1. CASE reports[r.interview] # << >>
      <4>1. reports[r.interview] \in Seq(Report)
        BY <1>1, AftermathTypes
      <4>2. Head(reports[r.interview]) \in Report
        BY <3>1, <4>1
      <4> QED
        BY <1>1, <2>1, <3>1, <4>2 DEF FindReport
    <3>2. CASE reports[r.interview] = << >>
      <4>1. UNCHANGED <<reports, replies>>
        BY <2>1, <3>2 DEF FindReport
      <4>2. <<h, 0>> \in Report
        BY DEF Report
      <4> QED
        BY <1>1, <4>1, <4>2
    <3> QED
      BY <3>1, <3>2
  <2>2. CASE StoreReport(h)
    <3>1. r \in Storing
      BY <2>2, WorkingTypes DEF StoreReport
    <3>2. r.report \in Report
      BY <3>1 DEF Storing
    <3> QED
      BY <1>1, <2>2, <3>2 DEF StoreReport, Reported
  <2> QED
    BY <2>1, <2>2
<1>3. /\ reports \in [Interviews -> Seq(Report)]
      /\ replies \in [Interviews -> SUBSET Report]
  BY AftermathTypes
<1>4. /\ reports' \in [Interviews -> Seq(Report)]
      /\ replies' \in [Interviews -> SUBSET Report]
  <2>1. CASE UNCHANGED <<reports, replies>>
    BY <1>3, <2>1
  <2>2. CASE Reply(i, new) /\ reports' = reports
    <3>1. replies[i] \cup {new} \in SUBSET Report
      BY <1>2, <1>3
    <3> QED
      BY <1>3, <2>2, <3>1 DEF Reply
  <2>3. CASE Reply(i, new) /\ reports' = [reports EXCEPT ![i] = Append(@, new)]
    <3>1. replies[i] \cup {new} \in SUBSET Report
      BY <1>2, <1>3
    <3>2. Append(reports[i], new) \in Seq(Report)
      BY <1>2, <1>3
    <3>3. replies' \in [Interviews -> SUBSET Report]
      BY <1>3, <2>3, <3>1 DEF Reply
    <3>4. reports' \in [Interviews -> Seq(Report)]
      BY <1>3, <2>3, <3>2
    <3> QED
      BY <3>3, <3>4
  <2> QED
    BY <1>2, <2>1, <2>2, <2>3
<1>5. ReportsOnce'
  <2>1. CASE UNCHANGED <<reports, replies>>
    BY <2>1 DEF AftermathInv, ReportsOnce
  <2>2. CASE reports[i] # << >> /\ new = Head(reports[i])
             /\ Reply(i, new) /\ reports' = reports
    BY <1>3, <2>2 DEF AftermathInv, ReportsOnce, Reply
  <2>3. CASE reports[i] = << >> /\ reports' = [reports EXCEPT ![i] = Append(@, new)]
             /\ Reply(i, new)
    <3>1. replies[i] = {}
      BY <2>3 DEF AftermathInv, ReportsOnce
    <3>2. /\ replies'[i] = {new}
          /\ \A j \in Interviews : j # i => replies'[j] = replies[j]
      BY <1>3, <2>3, <3>1 DEF Reply
    <3>3. /\ reports'[i] = <<new>>
          /\ \A j \in Interviews : j # i => reports'[j] = reports[j]
      BY <1>3, <2>3
    <3>4. Len(<<new>>) = 1 /\ Head(<<new>>) = new /\ <<new>> # << >>
      OBVIOUS
    <3>5. Len(reports'[i]) <= 1 /\ reports'[i] # << >> /\ Head(reports'[i]) = new
      BY <3>3, <3>4
    <3>6. ASSUME NEW j \in Interviews
          PROVE  /\ Len(reports'[j]) <= 1
                 /\ \A a \in replies'[j] :
                      reports'[j] # << >> /\ a = Head(reports'[j])
      <4>1. CASE j = i
        BY <3>2, <3>5, <4>1
      <4>2. CASE j # i
        BY <3>2, <3>3, <4>2 DEF AftermathInv, ReportsOnce
      <4> QED
        BY <4>1, <4>2
    <3> QED
      BY <3>6 DEF ReportsOnce
  <2> QED
    BY <1>2, <2>1, <2>2, <2>3
<1>6. AftermathTypeOK'
  BY <1>1, <1>4, AftermathTypes
     DEF AftermathTypeOK, Report, Working, Storing, Delivery, Post
<1>7. Announced' /\ Attempts'
  BY <1>1 DEF AftermathInv, Announced, AnnouncedMeansReadable, Attempts
<1> QED
  BY <1>5, <1>6, <1>7 DEF AftermathInv

LEMMA CompleteKeeps ==
  ASSUME AftermathInv, NEW h \in Handlers, Complete(h)
  PROVE  AftermathInv'
<1> DEFINE r == handlers[h]
<1>1. r \in Working /\ r.interview \in Interviews
  <2>1. r \in Working
    BY WorkingTypes DEF Complete
  <2> QED
    BY <2>1 DEF Working
<1>2. handlers' \in [Handlers -> {Free} \cup Working \cup Storing]
  BY ContinueTypes DEF Complete
<1>3. PICK d : d = [id |-> FreshDelivery, interview |-> r.interview, attempt |-> 0]
  OBVIOUS
<1>4. /\ deliveries' = deliveries \cup {d} /\ d \in Delivery
      /\ d.interview = r.interview /\ d.attempt = 0 /\ d.id = FreshDelivery
      /\ completed' = completed \cup {r.interview}
      /\ UNCHANGED <<answers, reports, posts, replies>>
  BY <1>1, <1>3, FreshDeliveryIsFresh DEF Complete, Fire, Delivery
<1>5. AftermathTypeOK'
  BY <1>1, <1>2, <1>4, AftermathTypes
     DEF AftermathTypeOK, Report, Working, Storing, Delivery, Post
<1>6. ReportsOnce'
  BY <1>4 DEF AftermathInv, ReportsOnce
<1>7. Announced'
  BY <1>4 DEF AftermathInv, Announced, AnnouncedMeansReadable
<1>8. Attempts'
  <2>1. IsFiniteSet(deliveries')
    BY <1>4, FS_AddElement DEF AftermathInv, Attempts
  <2> QED
    BY <1>4, <2>1, FreshDeliveryIsFresh, AftermathAssumption
       DEF AftermathInv, Attempts
<1> QED
  BY <1>5, <1>6, <1>7, <1>8 DEF AftermathInv

(* A delivery moves on, or ends, and has perhaps posted.                   *)
LEMMA WebhookKeeps ==
  ASSUME AftermathInv, NEW d \in deliveries, LoadForWebhook(d)
  PROVE  AftermathInv'
<1>1. /\ UNCHANGED <<completed, answers, reports, handlers, posts, replies>>
      /\ d \in Delivery /\ d.attempt = 0
      /\ deliveries \subseteq Delivery /\ IsFiniteSet(deliveries)
  BY AftermathTypes DEF LoadForWebhook, AftermathInv, Attempts
<1>2. PICK e : e = [d EXCEPT !.attempt = 1]
  OBVIOUS
<1>3. e \in Delivery /\ e.id = d.id /\ e.interview = d.interview /\ e.attempt = 1
  BY <1>1, <1>2 DEF Delivery
<1>4. deliveries' = deliveries \ {d} \/ deliveries' = (deliveries \ {d}) \cup {e}
  BY <1>2 DEF LoadForWebhook
<1>5. AftermathTypeOK'
  BY <1>1, <1>3, <1>4, AftermathTypes
     DEF AftermathTypeOK, Report, Working, Storing, Delivery, Post
<1>6. ReportsOnce'
  BY <1>1 DEF AftermathInv, ReportsOnce
<1>7. Announced'
  BY <1>1, <1>3, <1>4 DEF AftermathInv, Announced, AnnouncedMeansReadable
<1>8. Attempts'
  <2>1. IsFiniteSet(deliveries')
    <3>1. IsFiniteSet(deliveries \ {d})
      BY <1>1, FS_RemoveElement
    <3>2. IsFiniteSet((deliveries \ {d}) \cup {e})
      BY <3>1, FS_AddElement
    <3> QED
      BY <1>4, <3>1, <3>2
  <2>2. \A k \in DOMAIN posts : posts[k].delivery = d.id => FALSE
    BY <1>1, AftermathAssumption DEF AftermathInv, Attempts
  <2>3. \A x \in deliveries' : x = e \/ (x \in deliveries /\ x # d)
    BY <1>4
  <2>4. \A x \in deliveries : x # d => x.id # d.id
    BY DEF AftermathInv, Attempts
  <2>5. \A x \in deliveries' : x.attempt <= Backoffs + 1
    BY <1>3, <2>3, AftermathAssumption DEF AftermathInv, Attempts
  <2>6. \A x, y \in deliveries' : x.id = y.id => x = y
    BY <1>3, <2>3, <2>4 DEF AftermathInv, Attempts
  <2>7. \A x \in deliveries', k \in DOMAIN posts : posts[k].delivery = x.id =>
          posts[k].attempt < x.attempt /\ ~posts[k].acked
    BY <1>3, <2>2, <2>3 DEF AftermathInv, Attempts
  <2> QED
    BY <1>1, <2>1, <2>5, <2>6, <2>7 DEF AftermathInv, Attempts
<1> QED
  BY <1>5, <1>6, <1>7, <1>8 DEF AftermathInv

LEMMA AttemptKeeps ==
  ASSUME AftermathInv, NEW d \in deliveries, Attempt(d)
  PROVE  AftermathInv'
<1>1. /\ UNCHANGED <<completed, answers, reports, handlers, replies>>
      /\ d \in Delivery /\ d.attempt > 0 /\ d.attempt <= Backoffs + 1
      /\ deliveries \subseteq Delivery /\ IsFiniteSet(deliveries)
      /\ posts \in Seq(Post)
  BY AftermathTypes DEF Attempt, AftermathInv, Attempts
<1>2. PICK got \in BOOLEAN, acked \in BOOLEAN :
        /\ acked => got
        /\ posts' = IF got THEN Append(posts, [delivery |-> d.id,
                                               interview |-> d.interview,
                                               attempt |-> d.attempt,
                                               acked |-> acked])
                    ELSE posts
        /\ deliveries' = (deliveries \ {d}) \cup
             (IF acked \/ GivesUp(d) THEN {}
              ELSE {[d EXCEPT !.attempt = @ + 1]})
  BY DEF Attempt
<1>3. PICK e : e = [d EXCEPT !.attempt = @ + 1]
  OBVIOUS
<1>4. e \in Delivery /\ e.id = d.id /\ e.interview = d.interview
      /\ e.attempt = d.attempt + 1
  BY <1>1, <1>3 DEF Delivery
<1>5. PICK p : p = [delivery |-> d.id, interview |-> d.interview,
                    attempt |-> d.attempt, acked |-> acked]
  OBVIOUS
<1>6. p \in Post /\ p.delivery = d.id /\ p.interview = d.interview
      /\ p.attempt = d.attempt /\ p.acked = acked
  BY <1>1, <1>5 DEF Delivery, Post
<1>7. posts' = posts \/ posts' = Append(posts, p)
  BY <1>2, <1>5
<1>8. /\ deliveries' = deliveries \ {d}
         \/ /\ deliveries' = (deliveries \ {d}) \cup {e}
            /\ ~acked /\ d.attempt <= Backoffs
  BY <1>1, <1>2, <1>3, AftermathAssumption DEF GivesUp, Delivery
<1>9. posts' \in Seq(Post)
      /\ \A k \in DOMAIN posts' :
           \/ k \in DOMAIN posts /\ posts'[k] = posts[k]
           \/ k = Len(posts) + 1 /\ posts'[k] = p
  BY <1>1, <1>6, <1>7
<1>10. DOMAIN posts = 1 .. Len(posts) /\ Len(posts) \in Nat
  BY <1>1
<1>11. AftermathTypeOK'
  BY <1>1, <1>4, <1>8, <1>9, AftermathTypes
     DEF AftermathTypeOK, Report, Working, Storing, Delivery, Post
<1>12. ReportsOnce'
  BY <1>1 DEF AftermathInv, ReportsOnce
<1>13. Announced'
  BY <1>1, <1>4, <1>6, <1>8, <1>9
     DEF AftermathInv, Announced, AnnouncedMeansReadable
<1>14. Attempts'
  <2>1. IsFiniteSet(deliveries')
    <3>1. IsFiniteSet(deliveries \ {d})
      BY <1>1, FS_RemoveElement
    <3>2. IsFiniteSet((deliveries \ {d}) \cup {e})
      BY <3>1, FS_AddElement
    <3> QED
      BY <1>8, <3>1, <3>2
  <2>2. \A x \in deliveries' :
          \/ x = e /\ ~acked /\ d.attempt <= Backoffs
          \/ x \in deliveries /\ x # d
    BY <1>8
  <2>3. \A x \in deliveries : x # d => x.id # d.id
    BY DEF AftermathInv, Attempts
  <2>4. \A x \in deliveries' : x.attempt <= Backoffs + 1
    BY <1>1, <1>4, <2>2, AftermathAssumption
       DEF AftermathInv, Attempts, Delivery
  <2>5. \A x, y \in deliveries' : x.id = y.id => x = y
    BY <1>4, <2>2, <2>3 DEF AftermathInv, Attempts
  <2>6. \A k \in DOMAIN posts : posts[k].delivery = d.id =>
          posts[k].attempt < d.attempt /\ ~posts[k].acked
    BY DEF AftermathInv, Attempts
  <2>7. \A k \in DOMAIN posts : posts[k].attempt \in 1 .. Backoffs + 1
    BY DEF AftermathInv, Attempts
  <2>8. \A k \in DOMAIN posts' : posts'[k].attempt \in 1 .. Backoffs + 1
    BY <1>1, <1>6, <1>9, <2>7, AftermathAssumption DEF Delivery
  <2>9. ASSUME NEW x \in deliveries', NEW k \in DOMAIN posts',
               posts'[k].delivery = x.id
        PROVE  posts'[k].attempt < x.attempt /\ ~posts'[k].acked
    <3>1. CASE x \in deliveries /\ x # d
      <4>1. k \in DOMAIN posts /\ posts'[k] = posts[k]
        BY <1>6, <1>9, <2>3, <2>9, <3>1
      <4> QED
        BY <2>9, <3>1, <4>1 DEF AftermathInv, Attempts
    <3>2. CASE x = e /\ ~acked
      <4>1. CASE k \in DOMAIN posts /\ posts'[k] = posts[k]
        <5>1. posts[k].attempt < d.attempt /\ ~posts[k].acked
          BY <1>4, <2>6, <2>9, <3>2, <4>1
        <5> QED
          BY <1>1, <1>4, <2>7, <3>2, <4>1, <5>1, AftermathAssumption
             DEF Delivery
      <4>2. CASE posts'[k] = p
        BY <1>1, <1>4, <1>6, <3>2, <4>2 DEF Delivery
      <4> QED
        BY <1>9, <4>1, <4>2
    <3> QED
      BY <2>2, <3>1, <3>2
  <2>10. ASSUME NEW k \in DOMAIN posts', NEW l \in DOMAIN posts', k < l,
                posts'[k].delivery = posts'[l].delivery
         PROVE  posts'[k].attempt < posts'[l].attempt /\ ~posts'[k].acked
    <3>1. k \in DOMAIN posts /\ posts'[k] = posts[k]
      BY <1>9, <1>10, <2>10
    <3>2. CASE l \in DOMAIN posts /\ posts'[l] = posts[l]
      BY <2>10, <3>1, <3>2 DEF AftermathInv, Attempts
    <3>3. CASE posts'[l] = p
      BY <1>6, <2>6, <2>10, <3>1, <3>3
    <3> QED
      BY <1>9, <3>2, <3>3
  <2> QED
    BY <2>1, <2>4, <2>5, <2>8, <2>9, <2>10 DEF Attempts
<1> QED
  BY <1>11, <1>12, <1>13, <1>14 DEF AftermathInv

LEMMA AftermathStays ==
  ASSUME AftermathInv, UNCHANGED aftermath
  PROVE  AftermathInv'
<1>1. UNCHANGED <<completed, answers, reports, handlers, deliveries, posts,
                  replies>>
  BY DEF aftermath
<1>2. AftermathTypeOK'
  BY <1>1 DEF AftermathInv, AftermathTypeOK, Free
<1>3. ReportsOnce' /\ Announced' /\ Attempts'
  BY <1>1
     DEF AftermathInv, ReportsOnce, Announced, AnnouncedMeansReadable, Attempts
<1> QED
  BY <1>2, <1>3 DEF AftermathInv

LEMMA GatewayStays ==
  ASSUME GatewayInv, LimiterTypeOK', UNCHANGED <<access, reqs>>
  PROVE  GatewayInv'
<1>1. GatewayTypeOK'
  BY DEF GatewayInv, GatewayTypeOK, access, Idle
<1>2. TokensOnce' /\ PracticesOnce'
  BY
     DEF GatewayInv, TokensOnce, OneSessionPerToken, Claims, PracticesOnce,
     access
<1> QED
  BY <1>1, <1>2 DEF GatewayInv

-----------------------------------------------------------------------------
(* The composition.                                                        *)

FlowInv == GatewayInv /\ AftermathInv

LEMMA FlowInitInv == Init => FlowInv
BY GatewayInitInv, AftermathInitInv DEF Init, FlowInv

LEMMA CallKeeps ==
  ASSUME FlowInv, NEW s \in Slots, Call(s)
  PROVE  FlowInv'
<1>1. PICK id \in Callers, i \in DOMAIN interviews,
           kind \in {"answer", "complete", "report"} :
        /\ Allow(id)
        /\ IF Admitted(id, i)
           THEN Continue(s, [pc |-> "load", kind |-> kind, interview |-> i])
           ELSE UNCHANGED handlers
  BY DEF Call
<1>2. UNCHANGED <<access, reqs, completed, answers, reports, deliveries, posts,
                  replies>>
  BY DEF Call
<1>3. LimiterTypeOK'
  BY <1>1, AllowTypes DEF FlowInv, GatewayInv, GatewayTypeOK
<1>4. GatewayInv'
  BY <1>2, <1>3, GatewayStays DEF FlowInv
<1>5. i \in Interviews
  <2>1. interviews \in Seq(Interview) /\ Len(interviews) <= MaxInterviews
    BY DEF FlowInv, GatewayInv, GatewayTypeOK, Interview
  <2> QED
    BY <1>1, <2>1, FlowAssumption, GatewayAssumption
<1>6. [pc |-> "load", kind |-> kind, interview |-> i] \in Working
  BY <1>1, <1>5 DEF Working
<1>7. handlers' \in [Handlers -> {Free} \cup Working \cup Storing]
  <2>1. CASE UNCHANGED handlers
    BY <2>1, AftermathTypes DEF FlowInv
  <2>2. CASE Continue(s, [pc |-> "load", kind |-> kind, interview |-> i])
    BY <1>6, <2>2, ContinueTypes, FlowAssumption DEF FlowInv
  <2> QED
    BY <1>1, <2>1, <2>2
<1>8. answers' \in [Interviews -> 0 .. MaxAnswers]
  BY <1>2, AftermathTypes DEF FlowInv
<1>9. AftermathInv'
  BY <1>2, <1>7, <1>8, HandlerMoves DEF FlowInv
<1> QED
  BY <1>4, <1>9 DEF FlowInv

LEMMA CrashKeeps ==
  ASSUME FlowInv, Crash
  PROVE  FlowInv'
<1>1. /\ reqs' = [s \in Slots |-> Idle] /\ handlers' = [s \in Slots |-> Free]
      /\ deliveries' = {}
      /\ buckets' = [id \in Identities |-> [count |-> 0, resetAt |-> 0]]
      /\ admitted' = admitted /\ restarts' = restarts + 1
      /\ UNCHANGED <<now, completed, answers, reports, posts, replies>>
      /\ UNCHANGED <<interviews, tokens, jtis, sessions>>
  BY DEF Crash, Forget, NoBuckets, access
<1>2. GatewayTypeOK'
  <2>1. LimiterTypeOK'
    <3>1. LimiterTypeOK
      BY DEF FlowInv, GatewayInv, GatewayTypeOK
    <3>2. buckets' \in [Identities -> [count : Nat, resetAt : Nat]]
      BY <1>1
    <3>3. restarts' \in Nat
      BY <1>1, <3>1 DEF LimiterTypeOK
    <3> QED
      BY <1>1, <3>1, <3>2, <3>3 DEF LimiterTypeOK
  <2> QED
    BY <1>1, <2>1 DEF FlowInv, GatewayInv, GatewayTypeOK, Idle
<1>3. TokensOnce' /\ PracticesOnce'
  BY <1>1 DEF FlowInv, GatewayInv, TokensOnce, OneSessionPerToken, Claims,
              PracticesOnce, Idle
<1>4. AftermathTypeOK'
  BY <1>1, FlowAssumption DEF FlowInv, AftermathInv, AftermathTypeOK, Free
<1>5. ReportsOnce' /\ Announced'
  BY <1>1
     DEF FlowInv, AftermathInv, ReportsOnce, Announced, AnnouncedMeansReadable
<1>6. Attempts'
  BY <1>1, FS_EmptySet DEF FlowInv, AftermathInv, Attempts
<1> QED
  BY <1>2, <1>3, <1>4, <1>5, <1>6 DEF FlowInv, GatewayInv, AftermathInv

LEMMA FlowStep ==
  ASSUME FlowInv, [Next]_vars
  PROVE  FlowInv'
<1>1. ASSUME NEW s \in Slots, Receive(s)
      PROVE  FlowInv'
  BY <1>1, ReceiveCreateKeeps, ReceiveExchangeKeeps, AftermathStays
     DEF Receive, FlowInv
<1>2. ASSUME NEW s \in Slots, Call(s)
      PROVE  FlowInv'
  BY <1>2, CallKeeps
<1>3. ASSUME NEW s \in Slots, Handle(s)
      PROVE  FlowInv'
  <2>1. CASE GatewayStep(s) /\ UNCHANGED aftermath
    <3>1. GatewayInv'
      BY <2>1, FindInterviewKeeps, InsertInterviewKeeps, CheckTokenKeeps,
         ClaimTokenKeeps, StoreSessionKeeps DEF GatewayStep, FlowInv
    <3> QED
      BY <2>1, <3>1, AftermathStays DEF FlowInv
  <2>2. CASE HandlerStep(s) /\ UNCHANGED <<now, buckets, restarts, admitted, access, reqs>>
    <3>1. s \in Handlers
      BY FlowAssumption
    <3>2. AftermathInv'
      BY <2>2, <3>1, MovesKeep, CompleteKeeps, ReportsKeep
         DEF HandlerStep, FlowInv
    <3> QED
      BY <2>2, <3>2, LimiterStays, GatewayStays DEF FlowInv
  <2> QED
    BY <1>3, <2>1, <2>2 DEF Handle
<1>4. CASE TimePasses
  <2>1. LimiterTypeOK'
    BY <1>4, TickTypes DEF TimePasses, FlowInv, GatewayInv, GatewayTypeOK
  <2> QED
    BY <1>4, <2>1, GatewayStays, AftermathStays DEF TimePasses, FlowInv
<1>5. CASE Deliver
  <2>1. PICK d \in deliveries : DeliveryStep(d)
    BY <1>5 DEF Deliver
  <2>2. AftermathInv'
    BY <2>1, WebhookKeeps, AttemptKeeps DEF DeliveryStep, FlowInv
  <2> QED
    BY <1>5, <2>2, LimiterStays, GatewayStays DEF Deliver, FlowInv
<1>6. CASE Crash
  BY <1>6, CrashKeeps
<1>7. CASE UNCHANGED vars
  BY <1>7, LimiterStays, GatewayStays, AftermathStays DEF vars, FlowInv
<1> QED
  BY <1>1, <1>2, <1>3, <1>4, <1>5, <1>6, <1>7 DEF Next

(* The invariant of the composed system, from which the theorems follow.   *)
THEOREM FlowInvariant == Spec => []FlowInv
<1>1. Init => FlowInv
  BY FlowInitInv
<1>2. FlowInv /\ [Next]_vars => FlowInv'
  BY FlowStep
<1> QED
  BY <1>1, <1>2, PTL DEF Spec

Counted == requests \in Nat

(* Every state of the composed system is one that its types allow.         *)
THEOREM FlowTypes == Spec => []TypeOK
<1>1. Init => Counted
  BY DEF Init, Counted
<1>2. Counted /\ [Next]_vars => Counted'
  <2> SUFFICES ASSUME Counted, [Next]_vars
               PROVE  requests' = requests \/ requests' = requests + 1
    BY DEF Counted
  <2>1. ASSUME NEW s \in Slots, Receive(s) \/ Call(s)
        PROVE  requests' = requests + 1
    <3>1. Arrives
      BY <2>1 DEF Receive, Call
    <3> QED
      BY <3>1 DEF Arrives
  <2>2. ASSUME NEW s \in Slots, Handle(s)
        PROVE  requests' = requests
    BY <2>2 DEF Handle
  <2>3. ASSUME TimePasses \/ Deliver \/ Crash
        PROVE  requests' = requests
    BY <2>3 DEF TimePasses, Deliver, Crash
  <2>4. ASSUME UNCHANGED vars
        PROVE  requests' = requests
    BY <2>4 DEF vars
  <2>5. ASSUME Next
        PROVE  requests' = requests \/ requests' = requests + 1
    <3>1. CASE \E s \in Slots : Receive(s) \/ Call(s) \/ Handle(s)
      BY <2>1, <2>2, <3>1
    <3>2. CASE TimePasses \/ Deliver \/ Crash
      BY <2>3, <3>2
    <3> QED
      BY <2>5, <3>1, <3>2 DEF Next
  <2> QED
    BY <2>4, <2>5
<1>3. FlowInv /\ Counted => TypeOK
  BY DEF FlowInv, GatewayInv, AftermathInv, TypeOK, Counted
<1> QED
  BY <1>1, <1>2, <1>3, FlowInvariant, PTL DEF Spec

(* session.go:123: however many browsers exchange a launch token, at the   *)
(* same time or one after the other, and whatever inserts fail or restarts *)
(* come in between, one session at most comes of it.                       *)
THEOREM TokensLetOneIn == Spec => []OneSessionPerToken
<1>1. FlowInv => OneSessionPerToken
  BY DEF FlowInv, GatewayInv, TokensOnce
<1> QED
  BY <1>1, FlowInvariant, PTL

(* interviews.go:46: create calls for one practice that overlap, are       *)
(* retried or are cut off leave one interview row.                         *)
THEOREM PracticesHaveOneInterview == Spec => []OneInterviewPerPractice
<1>1. ASSUME FlowInv, NEW p \in Partners, NEW q \in Practices
      PROVE  Cardinality(OfPractice(p, q)) <= 1
  <2>1. q # NoPractice
    BY GatewayAssumption
  <2>2. \A i, j \in OfPractice(p, q) : i = j
    BY <1>1, <2>1 DEF OfPractice, FlowInv, GatewayInv, PracticesOnce
  <2>3. CASE OfPractice(p, q) = {}
    BY <2>3, FS_EmptySet
  <2>4. ASSUME NEW i \in OfPractice(p, q)
        PROVE  Cardinality(OfPractice(p, q)) <= 1
    <3>1. OfPractice(p, q) = {i}
      BY <2>2, <2>4
    <3> QED
      BY <3>1, FS_Singleton
  <2> QED
    BY <2>3, <2>4
<1>2. FlowInv => OneInterviewPerPractice
  BY <1>1 DEF OneInterviewPerPractice
<1> QED
  BY <1>2, FlowInvariant, PTL

(* PARTNER_API.md:110: readers who come first at the same time are given   *)
(* the same report, and so is everyone after them.                         *)
THEOREM ReadersAgree == Spec => []ReportsAgree
<1>1. FlowInv => ReportsAgree
  BY DEF FlowInv, AftermathInv, ReportsOnce, ReportsAgree
<1> QED
  BY <1>1, FlowInvariant, PTL

(* PARTNER_API.md:170: the webhook is sent after the completion is stored. *)
THEOREM AnnouncementsAreTrue == Spec => []AnnouncedMeansReadable
<1>1. FlowInv => AnnouncedMeansReadable
  BY DEF FlowInv, AftermathInv, Announced
<1> QED
  BY <1>1, FlowInvariant, PTL

(* webhook.go:70-88: with the two backoffs of webhook.go:27 a delivery     *)
(* posts three times at most, in order, and not after the receiver has     *)
(* acknowledged it.  A completion may start two deliveries.                *)
THEOREM DeliveriesEnd ==
  ASSUME Backoffs = 2
  PROVE  Spec => []DeliveriesAreDisciplined
<1>1. FlowInv => DeliveriesAreDisciplined
  BY DEF FlowInv, AftermathInv, Attempts, DeliveriesAreDisciplined
<1> QED
  BY <1>1, FlowInvariant, PTL

-----------------------------------------------------------------------------
(* The limiter.  Seen from now, the calls of an identity that passed within *)
(* the last window's length are those counted in the bucket, if its window  *)
(* has not passed yet, a limit of earlier ones, and a limit more for every  *)
(* restart since.                                                           *)

Buckets == [count : Nat, resetAt : Nat]
Calls == [at : Nat, run : Nat]

(* What passes within a window's length of a call made in a given run, the  *)
(* calls of the present bucket apart.                                       *)
Share(runs, run, limit) == (1 + runs - run) * limit

LEMMA ShareFacts ==
  ASSUME NEW runs \in Nat, NEW run \in Nat, run <= runs, NEW limit \in Nat
  PROVE  /\ Share(runs, run, limit) \in Nat
         /\ limit <= Share(runs, run, limit)
         /\ Share(runs + 1, run, limit) = Share(runs, run, limit) + limit
         /\ (2 + runs - run) * limit = Share(runs, run, limit) + limit
<1>1. PICK d \in Nat : runs - run = d
  OBVIOUS
<1>2. /\ 1 + runs - run = d + 1
      /\ 1 + (runs + 1) - run = (d + 1) + 1
      /\ 2 + runs - run = (d + 1) + 1
  BY <1>1
<1>3. \A m \in Nat : m * limit \in Nat /\ (m + 1) * limit = m * limit + limit
  OBVIOUS
<1>4. /\ (d + 1) * limit \in Nat
      /\ (d + 1) * limit = d * limit + limit /\ d * limit \in Nat
      /\ ((d + 1) + 1) * limit = (d + 1) * limit + limit
  BY <1>3
<1>5. limit <= (d + 1) * limit
  BY <1>4
<1> QED
  BY <1>2, <1>4, <1>5 DEF Share

(* The calls that passed in the window of a bucket.                        *)
InWindow(bucket, limit) ==
  IF bucket.count < limit THEN bucket.count ELSE limit

Used(bucket, limit, time) ==
  IF time <= bucket.resetAt THEN InWindow(bucket, limit) ELSE 0

Since(passed, k) == Len(passed) - k + 1

Bounded(passed, limit) ==
  \A j, k \in DOMAIN passed :
    k <= j /\ passed[j].at <= passed[k].at + Window =>
      j - k + 1 <= (2 + passed[j].run - passed[k].run) * limit

WindowHolds(passed, bucket, limit, time, runs) ==
  LET start == bucket.resetAt - Window
  IN  /\ \A k \in DOMAIN passed :
           /\ passed[k].at <= time /\ passed[k].run <= runs
           /\ time <= passed[k].at + Window =>
                Since(passed, k) <=
                  Share(runs, passed[k].run, limit) + Used(bucket, limit, time)
      /\ time <= bucket.resetAt =>
           /\ start <= time
           /\ \A k \in DOMAIN passed :
                start < passed[k].at => Since(passed, k) <= InWindow(bucket, limit)
      /\ Bounded(passed, limit)

WindowsOK ==
  \A id \in Identities :
    WindowHolds(admitted[id], buckets[id], Limit[id], now, restarts)

LEMMA PassedCalls ==
  ASSUME NEW passed \in Seq(Calls)
  PROVE  /\ Len(passed) \in Nat /\ DOMAIN passed = 1..Len(passed)
         /\ \A k \in DOMAIN passed :
              /\ k \in Nat /\ passed[k] \in Calls
              /\ passed[k].at \in Nat /\ passed[k].run \in Nat
              /\ Since(passed, k) \in Nat
<1>1. Len(passed) \in Nat /\ DOMAIN passed = 1..Len(passed)
  BY LenProperties
<1>2. \A k \in DOMAIN passed : passed[k] \in Calls
  BY ElementOfSeq, <1>1
<1> QED
  BY <1>1, <1>2 DEF Calls, Since

LEMMA InWindowFacts ==
  ASSUME NEW bucket \in Buckets, NEW limit \in Nat, NEW time \in Nat
  PROVE  /\ InWindow(bucket, limit) \in Nat /\ InWindow(bucket, limit) <= limit
         /\ Used(bucket, limit, time) \in Nat /\ Used(bucket, limit, time) <= limit
BY DEF InWindow, Used, Buckets

(* A window opens after the last one has passed.                           *)
LEMMA WindowOpens ==
  ASSUME NEW passed \in Seq(Calls), NEW bucket \in Buckets,
         NEW limit \in Nat \ {0}, NEW time \in Nat, NEW runs \in Nat,
         time > bucket.resetAt,
         WindowHolds(passed, bucket, limit, time, runs)
  PROVE  WindowHolds(passed, [count |-> 0, resetAt |-> time + Window], limit,
                     time, runs)
<1> DEFINE new == [count |-> 0, resetAt |-> time + Window]
<1>1. Window \in Nat
  BY LimiterAssumption
<1>2. Used(bucket, limit, time) = 0
  BY DEF Used, Buckets
<1>3. Used(new, limit, time) = 0
  BY DEF Used, InWindow
<1>4. new.resetAt - Window = time
  BY <1>1
<1>5. \A k \in DOMAIN passed : ~(time < passed[k].at)
  BY PassedCalls DEF WindowHolds
<1> HIDE DEF new
<1>6. WindowHolds(passed, new, limit, time, runs)
  BY <1>2, <1>3, <1>4, <1>5 DEF WindowHolds
<1> QED
  BY <1>6 DEF new

(* A call in a window that has not passed is counted and, below the limit, *)
(* passes.                                                                 *)
LEMMA WindowCounts ==
  ASSUME NEW passed \in Seq(Calls), NEW bucket \in Buckets,
         NEW limit \in Nat \ {0}, NEW time \in Nat, NEW runs \in Nat,
         time <= bucket.resetAt,
         WindowHolds(passed, bucket, limit, time, runs)
  PROVE  WindowHolds(IF bucket.count < limit
                     THEN Append(passed, [at |-> time, run |-> runs])
                     ELSE passed,
                     [bucket EXCEPT !.count = @ + 1], limit, time, runs)
<1> DEFINE n == Len(passed)
           new == [bucket EXCEPT !.count = @ + 1]
           start == bucket.resetAt - Window
           call == [at |-> time, run |-> runs]
           longer == Append(passed, call)
<1>1. /\ DOMAIN passed = 1..n /\ n \in Nat /\ Window \in Nat /\ start \in Int
      /\ bucket.count \in Nat /\ bucket.resetAt \in Nat
      /\ new.count = bucket.count + 1 /\ new.resetAt = bucket.resetAt
      /\ new \in Buckets
  BY PassedCalls, LimiterAssumption DEF Buckets
<1>2. /\ Used(bucket, limit, time) = InWindow(bucket, limit)
      /\ Used(new, limit, time) = InWindow(new, limit)
  BY <1>1 DEF Used
<1> HIDE DEF new
<1>3. CASE bucket.count < limit
  <2>1. InWindow(bucket, limit) = bucket.count /\ InWindow(new, limit) = bucket.count + 1
    BY <1>1, <1>3 DEF InWindow
  <2>2. call \in Calls /\ call.at = time /\ call.run = runs
    BY DEF Calls
  <2> HIDE DEF call
  <2>3. /\ longer \in Seq(Calls)
        /\ Len(longer) = n + 1
        /\ \A k \in 1..n : longer[k] = passed[k]
        /\ longer[n + 1] = call
    BY <2>2, AppendProperties
  <2>4. DOMAIN longer = 1..(n + 1)
    BY <2>3, LenProperties
  <2> HIDE DEF longer
  <2>5. /\ \A k \in 1..n : /\ Since(passed, k) \in Nat
                           /\ Since(longer, k) = Since(passed, k) + 1
        /\ Since(longer, n + 1) = 1
    BY <1>1, <2>3, PassedCalls DEF Since
  <2>6. ASSUME NEW k \in 1..n
        PROVE  /\ longer[k].at <= time /\ longer[k].run <= runs
               /\ time <= longer[k].at + Window =>
                    Since(longer, k) <= Share(runs, longer[k].run, limit)
                                          + InWindow(new, limit)
               /\ start < longer[k].at => Since(longer, k) <= InWindow(new, limit)
    <3>1. /\ passed[k].at <= time /\ passed[k].run <= runs
          /\ time <= passed[k].at + Window =>
               Since(passed, k) <= Share(runs, passed[k].run, limit) + bucket.count
          /\ start < passed[k].at => Since(passed, k) <= bucket.count
      BY <1>1, <1>2, <2>1 DEF WindowHolds
    <3>2. Share(runs, passed[k].run, limit) \in Nat
      BY <1>1, <3>1, PassedCalls, ShareFacts
    <3>3. longer[k] = passed[k] /\ Since(longer, k) = Since(passed, k) + 1
          /\ Since(passed, k) \in Nat
      BY <2>3, <2>5
    <3> HIDE DEF start
    <3> QED
      BY <1>1, <2>1, <3>1, <3>2, <3>3
  <2>7. Share(runs, runs, limit) \in Nat /\ limit <= Share(runs, runs, limit)
    BY ShareFacts
  <2>8. ASSUME NEW k \in DOMAIN longer
        PROVE  /\ longer[k].at <= time /\ longer[k].run <= runs
               /\ time <= longer[k].at + Window =>
                    Since(longer, k) <= Share(runs, longer[k].run, limit)
                                          + InWindow(new, limit)
               /\ start < longer[k].at => Since(longer, k) <= InWindow(new, limit)
    <3>1. CASE k = n + 1
      BY <1>1, <2>1, <2>2, <2>3, <2>5, <2>7, <3>1
    <3>2. CASE k \in 1..n
      BY <2>6, <3>2
    <3> QED
      BY <1>1, <2>4, <3>1, <3>2
  <2>9. Bounded(longer, limit)
    <3> SUFFICES ASSUME NEW j \in 1..(n + 1), NEW k \in 1..(n + 1), k <= j,
                        longer[j].at <= longer[k].at + Window
                 PROVE  j - k + 1 <= (2 + longer[j].run - longer[k].run) * limit
      BY <2>4 DEF Bounded
    <3>1. CASE j \in 1..n
      <4>1. k \in 1..n
        BY <1>1, <3>1
      <4> QED
        BY <1>1, <2>3, <3>1, <4>1 DEF WindowHolds, Bounded
    <3>2. CASE j = n + 1
      <4>1. longer[j].at = time /\ longer[j].run = runs
        BY <2>2, <2>3, <3>2
      <4>2. longer[k].run \in Nat /\ longer[k].run <= runs
        BY <2>3, <2>4, <2>8, PassedCalls
      <4>3. Since(longer, k) <= Share(runs, longer[k].run, limit) + InWindow(new, limit)
        BY <2>4, <2>8, <4>1
      <4>4. Since(longer, k) = j - k + 1 /\ Since(longer, k) \in Nat
        BY <2>3, <2>4, <3>2, PassedCalls DEF Since
      <4>5. InWindow(new, limit) \in Nat /\ InWindow(new, limit) <= limit
        BY <1>1, InWindowFacts
      <4>6. /\ Share(runs, longer[k].run, limit) \in Nat
            /\ (2 + runs - longer[k].run) * limit =
                 Share(runs, longer[k].run, limit) + limit
        BY <4>2, ShareFacts
      <4>7. \A a, b, c \in Nat : a <= b + c /\ c <= limit => a <= b + limit
        OBVIOUS
      <4>8. Since(longer, k) <= Share(runs, longer[k].run, limit) + limit
        BY <4>3, <4>4, <4>5, <4>6, <4>7
      <4> QED
        BY <4>1, <4>4, <4>6, <4>8
    <3> QED
      BY <1>1, <3>1, <3>2
  <2>10. start <= time /\ new.resetAt - Window = start
    BY <1>1 DEF WindowHolds
  <2>11. WindowHolds(longer, new, limit, time, runs)
    BY <1>2, <2>8, <2>9, <2>10 DEF WindowHolds
  <2> QED
    BY <1>3, <2>11 DEF longer, new, call
<1>4. CASE ~(bucket.count < limit)
  <2>1. InWindow(new, limit) = InWindow(bucket, limit)
    BY <1>1, <1>4 DEF InWindow
  <2>2. WindowHolds(passed, new, limit, time, runs)
    BY <1>1, <1>2, <2>1 DEF WindowHolds
  <2> QED
    BY <1>4, <2>2 DEF new
<1> QED
  BY <1>3, <1>4

(* Time passes; when the window closes, the calls since its start are the  *)
(* limit that the next one has to reckon with.                             *)
LEMMA WindowCloses ==
  ASSUME NEW passed \in Seq(Calls), NEW bucket \in Buckets,
         NEW limit \in Nat \ {0}, NEW time \in Nat, NEW runs \in Nat,
         WindowHolds(passed, bucket, limit, time, runs)
  PROVE  WindowHolds(passed, bucket, limit, time + 1, runs)
<1> DEFINE start == bucket.resetAt - Window
<1>1. /\ Window \in Nat /\ bucket.resetAt \in Nat /\ start \in Int
      /\ InWindow(bucket, limit) \in Nat /\ InWindow(bucket, limit) <= limit
  BY LimiterAssumption, InWindowFacts DEF Buckets
<1>2. Bounded(passed, limit)
  BY DEF WindowHolds
<1>3. ASSUME NEW k \in DOMAIN passed
      PROVE  /\ passed[k].at <= time + 1 /\ passed[k].run <= runs
             /\ time + 1 <= passed[k].at + Window =>
                  Since(passed, k) <= Share(runs, passed[k].run, limit)
                                        + Used(bucket, limit, time + 1)
             /\ time + 1 <= bucket.resetAt =>
                  /\ start <= time + 1
                  /\ start < passed[k].at => Since(passed, k) <= InWindow(bucket, limit)
  <2>1. /\ passed[k].at \in Nat /\ passed[k].run \in Nat /\ Since(passed, k) \in Nat
        /\ passed[k].at <= time /\ passed[k].run <= runs
        /\ time <= passed[k].at + Window =>
             Since(passed, k) <= Share(runs, passed[k].run, limit)
                                   + Used(bucket, limit, time)
        /\ time <= bucket.resetAt =>
             /\ start <= time
             /\ start < passed[k].at => Since(passed, k) <= InWindow(bucket, limit)
    BY PassedCalls DEF WindowHolds
  <2>2. /\ Share(runs, passed[k].run, limit) \in Nat
        /\ limit <= Share(runs, passed[k].run, limit)
    BY <2>1, ShareFacts
  <2>3. CASE time + 1 <= bucket.resetAt
    <3>1. Used(bucket, limit, time + 1) = Used(bucket, limit, time)
      BY <1>1, <2>3 DEF Used
    <3> HIDE DEF start
    <3> QED
      BY <1>1, <2>1, <3>1
  <2>4. CASE time = bucket.resetAt
    <3>1. Used(bucket, limit, time + 1) = 0
      BY <1>1, <2>4 DEF Used
    <3>2. time + 1 <= passed[k].at + Window => start < passed[k].at
      BY <1>1, <2>1, <2>4
    <3> HIDE DEF start
    <3> QED
      BY <1>1, <2>1, <2>2, <2>4, <3>1, <3>2
  <2>5. CASE time > bucket.resetAt
    <3>1. Used(bucket, limit, time + 1) = 0 /\ Used(bucket, limit, time) = 0
      BY <1>1, <2>5 DEF Used
    <3> HIDE DEF start
    <3> QED
      BY <1>1, <2>1, <2>2, <2>5, <3>1
  <2> QED
    BY <1>1, <2>3, <2>4, <2>5
<1>4. time + 1 <= bucket.resetAt => start <= time + 1
  <2>1. time <= bucket.resetAt => start <= time
    BY DEF WindowHolds
  <2> QED
    BY <1>1, <2>1
<1> QED
  BY <1>2, <1>3, <1>4 DEF WindowHolds

(* A restart lets through what the forgotten bucket had counted, once more. *)
LEMMA WindowForgotten ==
  ASSUME NEW passed \in Seq(Calls), NEW bucket \in Buckets,
         NEW limit \in Nat \ {0}, NEW time \in Nat \ {0}, NEW runs \in Nat,
         WindowHolds(passed, bucket, limit, time, runs)
  PROVE  WindowHolds(passed, [count |-> 0, resetAt |-> 0], limit, time, runs + 1)
<1> DEFINE new == [count |-> 0, resetAt |-> 0]
<1>1. Used(new, limit, time) = 0 /\ ~(time <= new.resetAt)
  BY DEF Used
<1>2. Bounded(passed, limit)
  BY DEF WindowHolds
<1>3. ASSUME NEW k \in DOMAIN passed
      PROVE  /\ passed[k].at <= time /\ passed[k].run <= runs + 1
             /\ time <= passed[k].at + Window =>
                  Since(passed, k) <= Share(runs + 1, passed[k].run, limit) + 0
  <2>1. /\ passed[k].at \in Nat /\ passed[k].run \in Nat /\ Since(passed, k) \in Nat
        /\ passed[k].at <= time /\ passed[k].run <= runs
        /\ time <= passed[k].at + Window =>
             Since(passed, k) <= Share(runs, passed[k].run, limit)
                                   + Used(bucket, limit, time)
    BY PassedCalls DEF WindowHolds
  <2>2. /\ Share(runs, passed[k].run, limit) \in Nat
        /\ Share(runs + 1, passed[k].run, limit) =
             Share(runs, passed[k].run, limit) + limit
    BY <2>1, ShareFacts
  <2>3. Used(bucket, limit, time) \in Nat /\ Used(bucket, limit, time) <= limit
    BY InWindowFacts
  <2> QED
    BY <2>1, <2>2, <2>3
<1> HIDE DEF new
<1>4. WindowHolds(passed, new, limit, time, runs + 1)
  BY <1>1, <1>2, <1>3 DEF WindowHolds
<1> QED
  BY <1>4 DEF new

LEMMA LimiterParts ==
  ASSUME LimiterTypeOK
  PROVE  /\ now \in Nat \ {0} /\ restarts \in Nat
         /\ \A id \in Identities :
              /\ admitted[id] \in Seq(Calls) /\ buckets[id] \in Buckets
              /\ Limit[id] \in Nat \ {0}
<1>1. Times \subseteq Nat /\ 0 \notin Times
  BY LimiterAssumption DEF Times
<1>2. ASSUME NEW id \in Identities
      PROVE  admitted[id] \in Seq(Calls)
  <2> DEFINE Admission == [at : Times, run : Nat]
  <2>1. admitted[id] \in Seq(Admission)
    BY DEF LimiterTypeOK
  <2>2. PICK n \in Nat : admitted[id] \in [1..n -> Admission]
    <3> HIDE DEF Admission
    <3> QED
      BY <2>1, SeqDef
  <2>3. Admission \subseteq Calls
    BY <1>1 DEF Calls
  <2> HIDE DEF Admission
  <2>4. admitted[id] \in [1..n -> Calls]
    BY <2>2, <2>3
  <2> QED
    BY <2>4, SeqDef
<1> QED
  BY <1>1, <1>2, LimiterAssumption DEF LimiterTypeOK, Buckets

LEMMA WindowsByAllow ==
  ASSUME LimiterTypeOK, WindowsOK, NEW i, Allow(i)
  PROVE  WindowsOK'
<1> DEFINE passed == admitted[i]
           bucket == BucketFor(i)
           limit == Limit[i]
           call == [at |-> now, run |-> restarts]
<1>1. now' = now /\ restarts' = restarts
  BY DEF Allow
<1>2. \A id \in Identities : id # i =>
        admitted'[id] = admitted[id] /\ buckets'[id] = buckets[id]
  BY DEF Allow, NoteCall, LimiterTypeOK
<1>3. ASSUME i \in Identities
      PROVE  WindowHolds(admitted'[i], buckets'[i], limit, now, restarts)
  <2>1. /\ passed \in Seq(Calls) /\ buckets[i] \in Buckets /\ now \in Nat
        /\ limit \in Nat \ {0} /\ Window \in Nat /\ restarts \in Nat
    BY <1>3, LimiterParts, LimiterAssumption
  <2>2. WindowHolds(passed, buckets[i], limit, now, restarts)
    BY <1>3 DEF WindowsOK
  <2>3. bucket \in Buckets /\ now <= bucket.resetAt
    BY <2>1 DEF BucketFor, Buckets
  <2>4. WindowHolds(passed, bucket, limit, now, restarts)
    <3>1. CASE now > buckets[i].resetAt
      <4>1. WindowHolds(passed, [count |-> 0, resetAt |-> now + Window], limit,
                        now, restarts)
        BY <2>1, <2>2, <3>1, WindowOpens
      <4> QED
        BY <3>1, <4>1 DEF BucketFor
    <3>2. CASE ~(now > buckets[i].resetAt)
      BY <2>2, <3>2 DEF BucketFor
    <3> QED
      BY <3>1, <3>2
  <2>5. buckets'[i] = [bucket EXCEPT !.count = @ + 1]
    BY <1>3 DEF Allow, LimiterTypeOK
  <2>6. admitted'[i] = IF bucket.count < limit THEN Append(passed, call) ELSE passed
    BY <1>3 DEF Allow, NoteCall, Admits, LimiterTypeOK
  <2> HIDE DEF passed, bucket, limit
  <2>7. WindowHolds(IF bucket.count < limit THEN Append(passed, call) ELSE passed,
                    [bucket EXCEPT !.count = @ + 1], limit, now, restarts)
    BY <2>1, <2>3, <2>4, WindowCounts
  <2> QED
    BY <2>5, <2>6, <2>7
<1> QED
  BY <1>1, <1>2, <1>3 DEF WindowsOK

LEMMA WindowsByTick ==
  ASSUME LimiterTypeOK, WindowsOK, Tick
  PROVE  WindowsOK'
<1>1. /\ now' = now + 1 /\ buckets' = buckets /\ admitted' = admitted
      /\ restarts' = restarts
  BY DEF Tick
<1>2. \A id \in Identities :
        WindowHolds(admitted[id], buckets[id], Limit[id], now + 1, restarts)
  BY LimiterParts, WindowCloses DEF WindowsOK
<1> QED
  BY <1>1, <1>2 DEF WindowsOK

LEMMA WindowsByForget ==
  ASSUME LimiterTypeOK, WindowsOK, Forget
  PROVE  WindowsOK'
<1>1. /\ now' = now /\ admitted' = admitted /\ restarts' = restarts + 1
      /\ \A id \in Identities : buckets'[id] = [count |-> 0, resetAt |-> 0]
  BY DEF Forget, NoBuckets
<1>2. \A id \in Identities :
        WindowHolds(admitted[id], [count |-> 0, resetAt |-> 0], Limit[id], now,
                    restarts + 1)
  BY LimiterParts, WindowForgotten DEF WindowsOK
<1> QED
  BY <1>1, <1>2 DEF WindowsOK

LEMMA WindowsBoundCalls == WindowsOK => BoundedCallsPerWindow
BY DEF WindowsOK, WindowHolds, Bounded, BoundedCallsPerWindow

LEMMA WindowsInit == Init => WindowsOK
<1>1. DOMAIN <<>> = {}
  OBVIOUS
<1> QED
  BY <1>1 DEF Init, LimiterInit, NoBuckets, WindowsOK, WindowHolds, Bounded

LEMMA WindowsStep ==
  ASSUME LimiterTypeOK, WindowsOK, [Next]_vars
  PROVE  WindowsOK'
<1>1. ASSUME NEW id, Allow(id)
      PROVE  WindowsOK'
  BY <1>1, WindowsByAllow
<1>2. CASE UNCHANGED <<now, buckets, restarts, admitted>>
  BY <1>2 DEF WindowsOK
<1>3. ASSUME NEW s \in Slots, Receive(s) \/ Call(s)
      PROVE  WindowsOK'
  BY <1>1, <1>3 DEF Receive, ReceiveCreate, ReceiveExchange, Call
<1>4. ASSUME NEW s \in Slots, Handle(s)
      PROVE  WindowsOK'
  BY <1>2, <1>4 DEF Handle, GatewayStep, FindInterview, InsertInterview,
     CheckToken, ClaimToken, StoreSession
<1>5. CASE TimePasses
  BY <1>5, WindowsByTick DEF TimePasses
<1>6. CASE Deliver \/ UNCHANGED vars
  BY <1>2, <1>6 DEF Deliver, vars
<1>7. CASE Crash
  BY <1>7, WindowsByForget DEF Crash
<1> QED
  BY <1>3, <1>4, <1>5, <1>6, <1>7 DEF Next

(* ratelimit.go:13-36: from a call on, an identity gets twice its limit    *)
(* through within a window's length at most, and a limit more for every    *)
(* restart in between that forgot the count, for every limit and window    *)
(* and however long the service runs.                                      *)
THEOREM LimitsHold == Spec => []BoundedCallsPerWindow
<1>1. FlowInv => LimiterTypeOK
  BY DEF FlowInv, GatewayInv, GatewayTypeOK
<1>2. LimiterTypeOK /\ WindowsOK /\ [Next]_vars => WindowsOK'
  BY WindowsStep
<1>3. WindowsOK => BoundedCallsPerWindow
  BY WindowsBoundCalls
<1> QED
  BY <1>1, <1>2, <1>3, WindowsInit, FlowInvariant, PTL DEF Spec
==============================================================================
