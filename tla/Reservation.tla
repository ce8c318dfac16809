---------------------------- MODULE Reservation ----------------------------
(***************************************************************************)
(* POST /tickets/reserve: TicketHandler.Reserve, one request per order id, *)
(* and the two ways stock gets into Redis and users into the queue.  The   *)
(* handler is a chain of calls to different stores.  Apart from the Lua    *)
(* script's, every error on the way is logged or ignored and the client is *)
(* told RESERVED; nothing undoes the deduction when a later call fails.    *)
(***************************************************************************)
EXTENDS TicketStore

VARIABLES
    rpc,    \* how far the request that gets this order id has come
    req,    \* what it asked for
    host    \* the instance its handler is running on

requestVars == <<rpc, req, host>>

Request == [zone : Zones, qty : Quantities, user : Users]

ASSUME RequestAssumption == None \notin Request

RequestSteps ==
    {"new", "rejected", "reserved", "dequeued", "published", "answered", "aborted"}

\* Orders whose seats the script has taken out of the stock.
Taken == {o \in OrderIds : rpc[o] \notin {"new", "rejected"}}

ReservationInit ==
    /\ rpc = [o \in OrderIds |-> "new"]
    /\ req = [o \in OrderIds |-> None]
    /\ host = [o \in OrderIds |-> None]

ReservationTypeOK ==
    /\ rpc \in [OrderIds -> RequestSteps]
    /\ req \in [OrderIds -> Request \cup {None}]
    /\ host \in [OrderIds -> Servers \cup {None}]
    /\ \A o \in Taken : req[o] \in Request

-----------------------------------------------------------------------------
(* The request's checks and the script.  If the script ran but its reply   *)
(* was lost the handler answers 500 and the seats stay taken.              *)
Reserve(o, s, z, q, u) ==
    /\ rpc[o] = "new"
    /\ Serving(s)
    /\ u \notin Unverified
    /\ ReserveTicket(z, q)
    /\ req' = [req EXCEPT ![o] = [zone |-> z, qty |-> q, user |-> u]]
    /\ \/ /\ NoFault
          /\ rpc' = [rpc EXCEPT ![o] = "reserved"]
          /\ host' = [host EXCEPT ![o] = s]
       \/ /\ Fault
          /\ rpc' = [rpc EXCEPT ![o] = "aborted"]
          /\ UNCHANGED host
    /\ UNCHANGED <<warm, warmups, supplied, keyVars, queueVars, status, topicVars, paid, phase>>

(* 403 for a missing national id, 500 for a cold zone, 409 when sold out.  *)
Refuse(o, s, z, q, u) ==
    /\ rpc[o] = "new"
    /\ Serving(s)
    /\ u \in Unverified \/ NotReservable(z, q)
    /\ rpc' = [rpc EXCEPT ![o] = "rejected"]
    /\ UNCHANGED <<req, host, stockVars, keyVars, queueVars, status, topicVars, paid, phase, faults>>

(* ZREM from the waiting room; a failure is only logged.                   *)
LeaveQueue(o) ==
    /\ rpc[o] = "reserved"
    /\ rpc' = [rpc EXCEPT ![o] = "dequeued"]
    /\ \/ NoFault /\ DequeueUser(req[o].user)
       \/ Fault /\ UNCHANGED score
    /\ UNCHANGED <<req, host, now, stockVars, keyVars, status, topicVars, paid, phase>>

(* WriteMessages retries, so the message may be lost (the error is only    *)
(* logged) or written twice when an acknowledgement is lost.               *)
Publish(o) ==
    /\ rpc[o] = "dequeued"
    /\ rpc' = [rpc EXCEPT ![o] = "published"]
    /\ \/ NoFault /\ PublishOrderCreated(o)
       \/ Fault /\ UNCHANGED log
       \/ Fault /\ log' = log \o <<o, o>>
    /\ UNCHANGED <<req, host, next, committed, owner, moves, stockVars, keyVars, queueVars, status, paid, phase>>

(* SET hold:...  with its error ignored, and the 202 answer.               *)
Answer(o) ==
    /\ rpc[o] = "published"
    /\ rpc' = [rpc EXCEPT ![o] = "answered"]
    /\ host' = [host EXCEPT ![o] = None]
    /\ \/ NoFault /\ hold' = hold \cup {<<req[o].zone, req[o].qty, req[o].user>>}
       \/ Fault /\ UNCHANGED hold
    /\ UNCHANGED <<req, timer, orphan, stockVars, queueVars, status, topicVars, paid, phase>>

(* The instance died: its unfinished requests end where they are.          *)
AbortRequests(s) ==
    /\ rpc' = [o \in OrderIds |-> IF host[o] = s THEN "aborted" ELSE rpc[o]]
    /\ host' = [o \in OrderIds |-> IF host[o] = s THEN None ELSE host[o]]

-----------------------------------------------------------------------------
(* /tickets/warmup sets the counter to the number in the request, whatever *)
(* it is; the warm-up loop of the event admin endpoints sets it to the     *)
(* zone's capacity of the moment.  Neither looks at what is out.           *)
Warmup(z, n) ==
    /\ warmups[z] < MaxWarmups
    /\ warmups' = [warmups EXCEPT ![z] = @ + 1]
    /\ supplied' = [supplied EXCEPT ![z] = IF n > 0 THEN @ + n ELSE @]
    /\ WarmupStock(z, n)
    /\ UNCHANGED <<requestVars, keyVars, queueVars, status, topicVars, paid, phase, faults>>

(* /queue/join: the score is the instance's clock; joining again moves the *)
(* user to the back.                                                       *)
JoinQueue(u) ==
    /\ now < MaxJoins
    /\ now' = now + 1
    /\ EnqueueUser(u, now')
    /\ UNCHANGED <<requestVars, stockVars, keyVars, status, topicVars, paid, phase, faults>>

ReservationNext ==
    \/ \E o \in OrderIds :
          \/ \E s \in Servers, z \in Zones, q \in Quantities, u \in Users :
                Reserve(o, s, z, q, u) \/ Refuse(o, s, z, q, u)
          \/ LeaveQueue(o)
          \/ Publish(o)
          \/ Answer(o)
    \/ \E z \in Zones, n \in Stocks : Warmup(z, n)
    \/ \E u \in Users : JoinQueue(u)
=============================================================================
