------------------------------ MODULE Payment ------------------------------
(***************************************************************************)
(* Charges, their confirmation and the gate: CreateCharge, ConfirmPayment  *)
(* (called by the gateway's webhook and by the admin simulator) and        *)
(* VerifyTicket.  ConfirmPayment is four separate calls to PostgreSQL,     *)
(* Redis and Kafka; several confirmations of one order may overlap, with   *)
(* each other and with the order's expiry.                                 *)
(***************************************************************************)
EXTENDS Reservation

CONSTANTS
    Webhooks,       \* deliveries of the gateway, retries included
    Simulations     \* calls of the admin payment simulator

Calls == Webhooks \cup Simulations

VARIABLES
    charge,     \* charge[o]: "none", "checked" (status read) or "issued"
    cpc,        \* where a confirmation is
    call        \* the order it confirms and the instance it runs on

paymentVars == <<charge, cpc, call>>

CallRecord == [order : OrderIds, server : Servers]

ASSUME CallAssumption == None \notin CallRecord

PaymentInit ==
    /\ charge = [o \in OrderIds |-> "none"]
    /\ cpc = [c \in Calls |-> "new"]
    /\ call = [c \in Calls |-> None]

PaymentTypeOK ==
    /\ charge \in [OrderIds -> {"none", "checked", "issued"}]
    /\ cpc \in [Calls -> {"new", "updated", "clear", "publish", "done"}]
    /\ call \in [Calls -> CallRecord \cup {None}]
    /\ \A c \in Calls : cpc[c] \in {"updated", "clear", "publish"} <=> call[c] # None

EndCall(c) ==
    /\ cpc' = [cpc EXCEPT ![c] = "done"]
    /\ call' = [call EXCEPT ![c] = None]

-----------------------------------------------------------------------------
(* CreateCharge reads the order's status, then the TTL of its timer.       *)
CheckPayable(o) ==
    /\ charge[o] = "none"
    /\ status[o] = "PENDING"
    /\ charge' = [charge EXCEPT ![o] = "checked"]
    /\ UNCHANGED <<cpc, call, requestVars, stockVars, keyVars, queueVars, status, topicVars, paid, phase, faults>>

IssueCharge(o) ==
    /\ charge[o] = "checked"
    /\ charge' = [charge EXCEPT ![o] = IF o \in timer THEN "issued" ELSE "none"]
    /\ UNCHANGED <<cpc, call, requestVars, stockVars, keyVars, queueVars, status, topicVars, paid, phase, faults>>

-----------------------------------------------------------------------------
(* MarkPaid's UPDATE.  A webhook names an order the gateway charged; the   *)
(* simulator takes any id.  When the statement fails (before or after it   *)
(* took effect) ConfirmPayment gives up and the webhook still answers 200. *)
MarkPaid(c, o, s) ==
    /\ cpc[c] = "new"
    /\ Serving(s)
    /\ c \in Simulations \/ charge[o] = "issued"
    /\ \/ /\ NoFault
          /\ UpdateWhere(o, "PENDING", "COMPLETED")
          /\ cpc' = [cpc EXCEPT ![c] = "updated"]
          /\ call' = [call EXCEPT ![c] = [order |-> o, server |-> s]]
       \/ /\ Fault
          /\ UpdateWhere(o, "PENDING", "COMPLETED") \/ UNCHANGED status
          /\ EndCall(c)
    /\ UNCHANGED <<charge, requestVars, stockVars, keyVars, queueVars, topicVars, paid, phase>>

\* Mutant of ReadBack: ConfirmPayment does not look at the status.
ReadBackUnchecked(c) ==
    /\ cpc[c] = "updated"
    /\ NoFault
    /\ cpc' = [cpc EXCEPT ![c] = "clear"]
    /\ UNCHANGED <<charge, call, requestVars, stockVars, keyVars, queueVars, status, topicVars, paid, phase>>

(* MarkPaid's FindByID: the status it reads may be another call's doing.   *)
ReadBack(c) ==
    /\ cpc[c] = "updated"
    /\ \/ /\ NoFault
          /\ status[call[c].order] = "COMPLETED"
          /\ cpc' = [cpc EXCEPT ![c] = "clear"]
          /\ UNCHANGED call
       \/ /\ NoFault
          /\ status[call[c].order] # "COMPLETED"
          /\ EndCall(c)
       \/ Fault /\ EndCall(c)
    /\ UNCHANGED <<charge, requestVars, stockVars, keyVars, queueVars, status, topicVars, paid, phase>>

(* ClearOrderExpiry, its error discarded.                                  *)
ClearTimer(c) ==
    /\ cpc[c] = "clear"
    /\ \/ NoFault /\ ClearOrderExpiry(call[c].order)
       \/ Fault /\ UNCHANGED timer
    /\ cpc' = [cpc EXCEPT ![c] = "publish"]
    /\ UNCHANGED <<charge, call, requestVars, hold, orphan, stockVars, queueVars, status, topicVars, paid, phase>>

(* publishOrderPaid, its error logged: as with order.created, the message  *)
(* may be lost or written twice.                                           *)
PublishPaid(c) ==
    /\ cpc[c] = "publish"
    /\ \/ NoFault /\ paid' = Append(paid, call[c].order)
       \/ Fault /\ UNCHANGED paid
       \/ Fault /\ paid' = paid \o <<call[c].order, call[c].order>>
    /\ EndCall(c)
    /\ UNCHANGED <<charge, requestVars, stockVars, keyVars, queueVars, status, topicVars, phase>>

RunsOn(c, s) == call[c] # None /\ call[c].server = s

AbortCalls(s) ==
    /\ cpc' = [c \in Calls |-> IF RunsOn(c, s) THEN "done" ELSE cpc[c]]
    /\ call' = [c \in Calls |-> IF RunsOn(c, s) THEN None ELSE call[c]]

(* The gate scan: one UPDATE, then a lookup that only words the refusal.   *)
VerifyAndCheckInTicket(o) ==
    /\ status[o] = "COMPLETED"
    /\ UpdateWhere(o, "COMPLETED", "CHECKED_IN")
    /\ UNCHANGED <<paymentVars, requestVars, stockVars, keyVars, queueVars, topicVars, paid, phase, faults>>

PaymentNext ==
    \/ \E o \in OrderIds :
          \/ CheckPayable(o)
          \/ IssueCharge(o)
          \/ VerifyAndCheckInTicket(o)
          \/ \E c \in Calls, s \in Servers : MarkPaid(c, o, s)
    \/ \E c \in Calls : ReadBack(c) \/ ClearTimer(c) \/ PublishPaid(c)
=============================================================================
