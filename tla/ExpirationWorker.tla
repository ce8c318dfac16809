-------------------------- MODULE ExpirationWorker --------------------------
(***************************************************************************)
(* The keyspace-notification listener: ExpirationWorker.Start.  Redis      *)
(* publishes an expired key once, to the instances subscribed at that      *)
(* moment, and each of them starts a goroutine for it: with several        *)
(* instances, several handlers work on the same order.                     *)
(***************************************************************************)
EXTENDS Reservation

VARIABLES
    epc,        \* epc[s][o]: the handler of order o's expiry on instance s
    returned    \* history: orders whose seats were added back to the stock

expiryVars == <<epc, returned>>

ExpiryInit ==
    /\ epc = [s \in Servers |-> [o \in OrderIds |-> "idle"]]
    /\ returned = {}

ExpiryTypeOK ==
    /\ epc \in [Servers -> [OrderIds -> {"idle", "cancel", "restore"}]]
    /\ returned \subseteq OrderIds

Listening == {s \in Servers : Working(s)}

\* Who gets a notification: every listener, or with a fault only some.
Delivered(S) ==
    /\ S \subseteq Listening
    /\ \/ S = Listening /\ NoFault
       \/ S # Listening /\ Fault

-----------------------------------------------------------------------------
(* An order:expire:{id} key reaches its TTL.                               *)
OrderTimerLapses(o, S) ==
    /\ o \in timer
    /\ timer' = timer \ {o}
    /\ Delivered(S)
    /\ epc' = [s \in Servers |->
                 IF s \in S THEN [epc[s] EXCEPT ![o] = "cancel"] ELSE epc[s]]
    /\ UNCHANGED <<returned, requestVars, hold, orphan, stockVars, queueVars, status, topicVars, paid, phase>>

\* Mutant of CancelIfPending: wasCancelled read off the row's status instead
\* of RowsAffected, so a second handler takes the first one's work for its own.
CancelByStatus(s, o) ==
    /\ epc[s][o] = "cancel"
    /\ NoFault
    /\ UpdateWhere(o, "PENDING", "CANCELLED")
    /\ epc' = [epc EXCEPT ![s][o] = IF status'[o] = "CANCELLED" THEN "restore" ELSE "idle"]
    /\ UNCHANGED <<returned, requestVars, keyVars, stockVars, queueVars, topicVars, paid, phase>>

\* Mutant of CancelIfPending: the status is checked after the UPDATE, when it
\* is never PENDING any more.
CancelThenCheck(s, o) ==
    /\ epc[s][o] = "cancel"
    /\ NoFault
    /\ UpdateWhere(o, "PENDING", "CANCELLED")
    /\ epc' = [epc EXCEPT ![s][o] = IF status'[o] = "PENDING" THEN "restore" ELSE "idle"]
    /\ UNCHANGED <<returned, requestVars, keyVars, stockVars, queueVars, topicVars, paid, phase>>

(* handleExpiredOrder up to the check of wasCancelled.  CancelIfPending is *)
(* an UPDATE and then a read of the row: when the call fails after the     *)
(* UPDATE, the handler returns although the order is now CANCELLED.        *)
CancelIfPending(s, o) ==
    /\ epc[s][o] = "cancel"
    /\ \/ /\ NoFault
          /\ UpdateWhere(o, "PENDING", "CANCELLED")
          /\ epc' = [epc EXCEPT ![s][o] = IF status[o] = "PENDING" THEN "restore" ELSE "idle"]
       \/ /\ Fault
          /\ status[o] = "PENDING"
          /\ UpdateWhere(o, "PENDING", "CANCELLED") \/ UNCHANGED status
          /\ epc' = [epc EXCEPT ![s][o] = "idle"]
    /\ UNCHANGED <<returned, requestVars, keyVars, stockVars, queueVars, topicVars, paid, phase>>

(* RestoreZoneStock; a failure is logged and the seats stay out.           *)
RestoreStock(s, o) ==
    /\ epc[s][o] = "restore"
    /\ epc' = [epc EXCEPT ![s][o] = "idle"]
    /\ \/ /\ NoFault
          /\ RestoreZoneStock(req[o].zone, req[o].qty)
          /\ returned' = returned \cup {o}
       \/ Fault /\ UNCHANGED <<stock, warm, returned>>
    /\ UNCHANGED <<warmups, supplied, requestVars, keyVars, queueVars, status, topicVars, paid, phase>>

\* Mutant of HoldLapses: increments the zone's real stock.
HoldLapsesIntoStock(k, S) ==
    /\ k \in hold
    /\ hold' = hold \ {k}
    /\ Delivered(S)
    /\ RestoreZoneStock(k[1], k[2] * Cardinality(S))
    /\ UNCHANGED <<expiryVars, requestVars, timer, orphan, warmups, supplied, queueVars, status, topicVars, paid, phase>>

(* A hold:... key reaches its TTL.  Every instance's handleExpiredHold     *)
(* increments stock:{event}:{zone}, a key no other code reads.             *)
HoldLapses(k, S) ==
    /\ k \in hold
    /\ orphan[k[1]] + k[2] * Cardinality(S) \in (-MaxOrphan)..MaxOrphan
    /\ hold' = hold \ {k}
    /\ Delivered(S)
    /\ orphan' = [orphan EXCEPT ![k[1]] = @ + k[2] * Cardinality(S)]
    /\ UNCHANGED <<expiryVars, requestVars, timer, stockVars, queueVars, status, topicVars, paid, phase>>

ExpiryNext ==
    \/ \E o \in OrderIds :
          \/ \E S \in SUBSET Servers : OrderTimerLapses(o, S)
          \/ \E s \in Servers : CancelIfPending(s, o) \/ RestoreStock(s, o)
    \/ \E k \in hold, S \in SUBSET Servers : HoldLapses(k, S)
=============================================================================
