---------------------------- MODULE TicketPulse ----------------------------
(***************************************************************************)
(* The whole order pipeline: several instances of the API server, each     *)
(* with its request handlers, its order worker and its expiration worker,  *)
(* over the shared stores.  The steps of all of them interleave; instances *)
(* shut down, crash and boot again.                                        *)
(***************************************************************************)
EXTENDS OrderWorker, ExpirationWorker, Payment

vars == <<stockVars, keyVars, queueVars, status, topicVars, paid, phase,
          faults, requestVars, workerVars, expiryVars, paymentVars>>

Init ==
    /\ StoreInit
    /\ ReservationInit
    /\ WorkerInit
    /\ ExpiryInit
    /\ PaymentInit

TypeOK ==
    /\ StoreTypeOK
    /\ ReservationTypeOK
    /\ WorkerTypeOK
    /\ ExpiryTypeOK
    /\ PaymentTypeOK

-----------------------------------------------------------------------------
(* The life of an instance: main.go.                                       *)

(* The workers of s stop; their calls in flight fail with the context.     *)
StopWorkers(s) ==
    /\ GoIdle(s)
    /\ epc' = [epc EXCEPT ![s] = [o \in OrderIds |-> "idle"]]

(* The group does without s: its reader was closed, or its process ended.  *)
LeaveGroup(s) == owner' = IF owner = s THEN None ELSE owner

(* SIGTERM: cancel() ends the workers, while app.Shutdown lets requests    *)
(* finish.  An order worker that is busy comes round to <-ctx.Done() and   *)
(* closes its reader; one that is blocked in ReadMessage returns without.  *)
Shutdown(s) ==
    /\ phase[s] = "up"
    /\ Fault
    /\ StopWorkers(s)
    /\ \/ phase' = [phase EXCEPT ![s] = "draining"] /\ LeaveGroup(s)
       \/ /\ wpc[s] = "idle"
          /\ phase' = [phase EXCEPT ![s] = "lingering"]
          /\ UNCHANGED owner
    /\ UNCHANGED <<returned, requestVars, paymentVars, log, next, committed, moves, stockVars, keyVars, queueVars, status, paid>>

(* app.Shutdown waits for requests without a limit, event streams of the   *)
(* waiting room included, which are not shown here: nothing promises that  *)
(* an instance that was told to stop ever exits.                           *)
Exit(s) ==
    /\ phase[s] \in {"lingering", "draining"}
    /\ \A o \in OrderIds : host[o] # s
    /\ \A c \in Calls : ~RunsOn(c, s)
    /\ phase' = [phase EXCEPT ![s] = "down"]
    /\ LeaveGroup(s)
    /\ UNCHANGED <<expiryVars, workerVars, requestVars, paymentVars, log, next, committed, moves, stockVars, keyVars, queueVars, status, paid, faults>>

(* The process dies: its handlers and workers stop wherever they are.      *)
Crash(s) ==
    /\ Serving(s)
    /\ Fault
    /\ phase' = [phase EXCEPT ![s] = "down"]
    /\ StopWorkers(s)
    /\ LeaveGroup(s)
    /\ AbortRequests(s)
    /\ AbortCalls(s)
    /\ UNCHANGED <<returned, req, charge, log, next, committed, moves, stockVars, keyVars, queueVars, status, paid>>

(* Boot: the workers start and a dummy message pre-warms the topic.        *)
Restart(s) ==
    /\ phase[s] = "down"
    /\ phase' = [phase EXCEPT ![s] = "up"]
    /\ PublishOrderCreated(PreWarm)
    /\ UNCHANGED <<expiryVars, workerVars, requestVars, paymentVars, next, committed, owner, moves, stockVars, keyVars, queueVars, status, paid, faults>>

-----------------------------------------------------------------------------
RequestFrame == UNCHANGED <<workerVars, expiryVars, paymentVars>>
WorkerFrame  == UNCHANGED <<expiryVars, paymentVars>>
ExpiryFrame  == UNCHANGED <<workerVars, paymentVars>>
PaymentFrame == UNCHANGED <<workerVars, expiryVars>>

Next ==
    \/ ReservationNext /\ RequestFrame
    \/ WorkerNext /\ WorkerFrame
    \/ ExpiryNext /\ ExpiryFrame
    \/ PaymentNext /\ PaymentFrame
    \/ \E s \in Servers : Shutdown(s) \/ Exit(s) \/ Crash(s) \/ Restart(s)

Spec == Init /\ [][Next]_vars

(* What keeps going by itself: handlers and loops that have started run    *)
(* on, Redis expires keys whose time has come, and the coordinator gives   *)
(* the topic to somebody.  Nobody has to buy, pay, scan or reboot.         *)
Fairness ==
    /\ \A o \in OrderIds :
          /\ WF_vars(RequestFrame /\ (LeaveQueue(o) \/ Publish(o) \/ Answer(o)))
          /\ WF_vars(ExpiryFrame /\ \E S \in SUBSET Servers : OrderTimerLapses(o, S))
    /\ \A s \in Servers :
          /\ WF_vars(WorkerFrame /\ (Assign(s) \/ Read(s) \/ Persist(s) \/ Arm(s)))
          /\ \A o \in OrderIds :
                WF_vars(ExpiryFrame /\ (CancelIfPending(s, o) \/ RestoreStock(s, o)))
    /\ \A c \in Calls :
          WF_vars(PaymentFrame /\ (ReadBack(c) \/ ClearTimer(c) \/ PublishPaid(c)))

FairSpec == Spec /\ Fairness

-----------------------------------------------------------------------------
(* Safety.                                                                 *)

\* Orders whose quantity still counts against zone z's stock: the script took
\* it and no expiry put it back, whether the order exists yet, is paid, or was
\* lost.  One token per seat: those taken out of the stock, and those a
\* negative quantity has added to it.
Standing(z)  == {o \in Taken \ returned : req[o].zone = z}
SeatsOut(z)  == UNION {{o} \X (1..req[o].qty) : o \in Standing(z)}
SeatsOver(z) == UNION {{o} \X (1..-req[o].qty) : o \in Standing(z)}

\* Apart from a warm-up, nothing makes or destroys seats: no reservation,
\* crash, redelivery, late payment or second expiry handler changes the sum of
\* what is in a zone's counter and what orders have out of it.
Balance(z) == stock[z] + Cardinality(SeatsOut(z)) - Cardinality(SeatsOver(z))
SeatsConservedStep ==
    \A z \in Zones : warmups'[z] = warmups[z] => Balance(z)' = Balance(z)
SeatsConserved == [][SeatsConservedStep]_vars

\* How far the zero overselling of README.md:10 goes: the paid orders of a zone
\* hold no more seats than its warm-ups have put on sale, each counted in full,
\* and reservations of a negative number of seats have added.  So a zone warmed
\* up once, where nobody asks for less than nothing, is never oversold.
SeatsSold(z) ==
    UNION {{o} \X (1..req[o].qty) : o \in {p \in Paid : req[p].zone = z}}
SeatsAdded(z) ==
    UNION {{o} \X (1..-req[o].qty) : o \in {p \in Taken : req[p].zone = z}}
NoOverselling ==
    \A z \in Zones :
        Cardinality(SeatsSold(z)) <= supplied[z] + Cardinality(SeatsAdded(z))

\* Seats go back on sale only for an order that can never be paid any more:
\* it is CANCELLED, and no expiry handler anywhere is about to return them
\* a second time.  (The race of webhook and expiry on several instances.)
ReturnedForGood ==
    \A o \in returned :
        /\ status[o] = "CANCELLED"
        /\ \A s \in Servers : epc[s][o] # "restore"

\* Every row in orders stands for a reservation the script has made, and not of
\* 0 seats.  (It may be of a negative number.)
OrdersAreReserved ==
    \A o \in OrderIds : status[o] # "none" => o \in Taken /\ req[o].qty # 0

\* A live timer belongs to an order that is not cancelled, so CreateCharge,
\* which ends by reading the timer, never charges for released seats.
ChargeableOrderIsLive ==
    \A o \in timer : status[o] \in {"PENDING", "COMPLETED", "CHECKED_IN"}

\* An unpaid order has its expiry running, about to be armed, or just gone off.
Timed(o) ==
    \/ o \in timer
    \/ \E s \in Servers : (wpc[s] = "arm" /\ wmsg[s] = o) \/ epc[s][o] = "cancel"

\* While no call fails, even if Kafka moves the topic and delivers messages
\* again, every unpaid order is timed: none is forgotten as PENDING with its
\* seats.
PendingIsTimed ==
    faults = MaxFaults => \A o \in OrderIds : status[o] = "PENDING" => Timed(o)

\* While no call fails, a reservation that is neither paid nor returned has
\* somebody left to see to it: the handler that will publish, a message not yet
\* read, a worker, a timer or a handler of its expiry.
SeenTo(o) ==
    \/ rpc[o] \in {"reserved", "dequeued"}
    \/ \E i \in (next + 1)..Len(log) : log[i] = o
    \/ \E s \in Servers : (wpc[s] # "idle" /\ wmsg[s] = o) \/ epc[s][o] # "idle"
    \/ o \in timer
NoSeatsForgotten ==
    faults = MaxFaults =>
        \A o \in Taken \ (Paid \cup returned) : req[o].qty # 0 => SeenTo(o)

\* An ORDER_PAID message, and so an e-ticket, exists only for an order that
\* is paid and stays so, however confirmations and the expiry overlap.
AnnouncedOrdersArePaid == \A i \in 1..Len(paid) : paid[i] \in Paid

\* Where things come from, for the proofs: a zone with a stock key was warmed
\* up; seats, messages, work in hand and rows go back to a request that took
\* seats; handlers run where the request says; and one expiry handler at most
\* holds the right to return an order's seats, which it has not used yet.
WarmedUp      == \A z \in warm : warmups[z] > 0
TakenInWarm   == \A o \in Taken : req[o].zone \in warm
LogTraced     == \A i \in 1..Len(log) : log[i] = PreWarm \/ log[i] \in Taken
WorkTraced    == \A s \in Servers :
                    wpc[s] # "idle" => wmsg[s] \in Taken /\ req[wmsg[s]].qty # 0
HostsTraced   == \A o \in OrderIds :
                    host[o] # None => rpc[o] \in {"reserved", "dequeued", "published"}
OneRestorer   == \A s \in Servers, o \in OrderIds :
                    epc[s][o] = "restore" =>
                        /\ status[o] = "CANCELLED"
                        /\ o \notin returned
                        /\ \A t \in Servers : epc[t][o] = "restore" => t = s
Traced ==
    /\ WarmedUp
    /\ TakenInWarm
    /\ LogTraced
    /\ WorkTraced
    /\ HostsTraced
    /\ OrdersAreReserved
    /\ OneRestorer
    /\ ReturnedForGood

\* The seat ledger this pipeline implements: what became of an order's seats.
Fate(o) ==
    CASE o \in returned -> "released"
      [] o \in Paid \ returned -> "sold"
      [] o \in Taken \ (Paid \cup returned) -> "held"
      [] OTHER -> "free"

Claim(o) == IF req[o] = None THEN None ELSE <<req[o].zone, req[o].qty>>

Ledger == INSTANCE SeatLedger WITH
    opened   <- warmups,
    supplied <- supplied,
    avail    <- stock,
    ledger   <- [o \in OrderIds |-> Fate(o)],
    claim    <- [o \in OrderIds |-> Claim(o)]

\* Every step of the pipeline, whatever fails on the way, is a step of the
\* ledger or changes nothing in it.
ImplementsLedger == Ledger!LedgerSpec

\* An order row changes only along PENDING -> COMPLETED -> CHECKED_IN or
\* PENDING -> CANCELLED, whoever gets there first.
StatusMoves ==
    {<<"none", "PENDING">>, <<"PENDING", "COMPLETED">>,
     <<"PENDING", "CANCELLED">>, <<"COMPLETED", "CHECKED_IN">>}
LifecycleStep ==
    \A o \in OrderIds : status'[o] # status[o] => <<status[o], status'[o]>> \in StatusMoves
Lifecycle == [][LifecycleStep]_vars

-----------------------------------------------------------------------------
(* Liveness, of FairSpec.                                                  *)

\* What a reservation took out of the stock (or added to it) is eventually paid
\* for or put back, unless some call fails: none stays held for ever.
SeatsSettle ==
    \A o \in OrderIds :
        (o \in Taken /\ req[o].qty # 0)
            ~> (o \in Paid \/ o \in returned \/ faults < MaxFaults)

\* The order.created topic is read to its end, with no worker stuck on a message,
\* again and again, whoever crashes and however often messages come twice; but
\* only if no instance that was told to stop lingers in the group for ever.
Drained == next = Len(log) /\ \A s \in Servers : wpc[s] = "idle"
TopicDrained ==
    (\A s \in Servers : []<>(phase[s] # "lingering")) => []<>Drained
=============================================================================
