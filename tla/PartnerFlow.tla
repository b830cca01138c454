----------------------------- MODULE PartnerFlow ----------------------------
(***************************************************************************)
(* A partner's use of the service from end to end: interviews are created, *)
(* candidates come in through launch tokens, the interview is completed,   *)
(* the webhook is delivered and the report read, with overlapping          *)
(* requests, time that passes, failing inserts and restarts.               *)
(***************************************************************************)
EXTENDS Gateway, Aftermath

CONSTANTS
  MaxRequests,  \* bound: requests that arrive
  MaxRestarts   \* bound: restarts of the server

(* A request is a slot of the gateway and then one of the handlers.        *)
ASSUME FlowAssumption ==
  Handlers = Slots /\ Interviews = 1 .. MaxInterviews

VARIABLE requests

vars == <<now, buckets, restarts, admitted, access, reqs, aftermath, requests>>

Init == GatewayInit /\ LimiterInit /\ AftermathInit /\ requests = 0

FreeSlot(s) == reqs[s] = Idle /\ handlers[s] = Free

Arrives == requests < MaxRequests /\ requests' = requests + 1

Receive(s) ==
  /\ FreeSlot(s) /\ Arrives
  /\ ReceiveCreate(s) \/ ReceiveExchange(s)
  /\ UNCHANGED aftermath

(* A call of the interview passes the middleware and begins.               *)
Call(s) ==
  /\ FreeSlot(s) /\ Arrives
  /\ \E id \in Callers, i \in DOMAIN interviews,
        kind \in {"answer", "complete", "report"} :
       /\ Allow(id)
       /\ IF Admitted(id, i)
          THEN Continue(s, [pc |-> "load", kind |-> kind, interview |-> i])
          ELSE UNCHANGED handlers
  /\ UNCHANGED <<access, reqs, completed, answers, reports, deliveries,
                 posts, replies>>

TimePasses == Tick /\ UNCHANGED <<access, reqs, aftermath, requests>>

Handle(s) ==
  /\ \/ GatewayStep(s) /\ UNCHANGED aftermath
     \/ HandlerStep(s) /\ UNCHANGED <<now, buckets, restarts, admitted, access, reqs>>
  /\ UNCHANGED requests

Deliver ==
  /\ \E d \in deliveries : DeliveryStep(d)
  /\ UNCHANGED <<now, buckets, restarts, admitted, access, reqs, requests>>

(* A restart ends every request and every delivery and empties the map of  *)
(* the limiter; rows stay.                                                 *)
Crash ==
  /\ "crash" \in Faults
  /\ restarts < MaxRestarts
  /\ reqs' = [s \in Slots |-> Idle]
  /\ handlers' = [s \in Slots |-> Free]
  /\ deliveries' = {}
  /\ Forget
  /\ UNCHANGED <<access, completed, answers, reports, posts, replies,
                 requests>>

Next ==
  \/ \E s \in Slots : Receive(s) \/ Call(s) \/ Handle(s)
  \/ TimePasses
  \/ Deliver
  \/ Crash

Spec == Init /\ [][Next]_vars

(***************************************************************************)
(* Properties.                                                             *)
(***************************************************************************)
TypeOK == GatewayTypeOK /\ AftermathTypeOK /\ requests \in Nat
=============================================================================
