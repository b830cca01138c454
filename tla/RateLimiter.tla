----------------------------- MODULE RateLimiter ----------------------------
(***************************************************************************)
(* The in-memory rate limiter: a counter per identity for a fixed window   *)
(* that starts with the first call after the previous window.  One clock   *)
(* serves the whole program.  The mutex makes a call one step.             *)
(***************************************************************************)
EXTENDS Integers, FiniteSets, Sequences

CONSTANTS
  Identities,  \* API keys, sessions and client addresses
  Limit,       \* calls an identity may make in a window
  Window,      \* length of a window
  MaxTime      \* bound: the last tick of the clock

ASSUME LimiterAssumption ==
  /\ Limit \in [Identities -> Nat \ {0}]
  /\ Window \in Nat \ {0} /\ MaxTime \in Nat \ {0}

VARIABLES
  now,
  buckets,  \* a missing bucket behaves like one whose window has passed
  restarts, \* history: how often the server, and with it the map of the
            \* buckets, was started anew
  admitted  \* history: the calls that passed, in order: the tick and the
            \* restarts before it

Times == 1 .. MaxTime
NoBuckets == [id \in Identities |-> [count |-> 0, resetAt |-> 0]]

LimiterInit ==
  /\ now = 1
  /\ buckets = NoBuckets
  /\ restarts = 0
  /\ admitted = [id \in Identities |-> <<>>]

(* The bucket a call is counted in.                                        *)
BucketFor(id) ==
  IF now > buckets[id].resetAt
  THEN [count |-> 0, resetAt |-> now + Window]
  ELSE buckets[id]

Admits(id) == BucketFor(id).count < Limit[id]

NoteCall(id) ==
  admitted' = IF Admits(id)
              THEN [admitted EXCEPT ![id] =
                      Append(@, [at |-> now, run |-> restarts])]
              ELSE admitted

(* Mutant: a fresh bucket is not put into the map.                         *)
AllowForgetting(id) ==
  /\ buckets' = IF now > buckets[id].resetAt THEN buckets
                ELSE [buckets EXCEPT ![id].count = @ + 1]
  /\ NoteCall(id)
  /\ UNCHANGED <<now, restarts>>

(* allow: refused calls count as well.                                     *)
Allow(id) ==
  /\ buckets' = [buckets EXCEPT ![id] =
                   [BucketFor(id) EXCEPT !.count = @ + 1]]
  /\ NoteCall(id)
  /\ UNCHANGED <<now, restarts>>

(* Time passes between any two steps of the program.                       *)
Tick ==
  /\ now < MaxTime
  /\ now' = now + 1
  /\ UNCHANGED <<buckets, restarts, admitted>>

(* The map is in memory only.                                              *)
Forget ==
  /\ buckets' = NoBuckets
  /\ restarts' = restarts + 1
  /\ UNCHANGED <<now, admitted>>

(***************************************************************************)
(* Properties.                                                             *)
(***************************************************************************)
LimiterTypeOK ==
  /\ now \in Times
  /\ buckets \in [Identities -> [count : Nat, resetAt : Nat]]
  /\ restarts \in Nat
  /\ admitted \in [Identities -> Seq([at : Times, run : Nat])]

(* The limits are meant per minute (PARTNER_API.md:184-186).  Windows are  *)
(* fixed, so a minute may fall into two of them, and a restart forgets     *)
(* what was counted: from a call on, an identity gets twice its limit      *)
(* through within a window's length, and once more for every restart in    *)
(* between (ratelimit.go:13-36), but never more than that.                 *)
BoundedCallsPerWindow ==
  \A id \in Identities : \A j, k \in DOMAIN admitted[id] :
    LET first == admitted[id][k]
        last  == admitted[id][j]
    IN  k <= j /\ last.at <= first.at + Window =>
          j - k + 1 <= (2 + last.run - first.run) * Limit[id]
=============================================================================
