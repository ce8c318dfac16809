------------------------- MODULE TicketPulseProofs -------------------------
(***************************************************************************)
(* Proofs about the order pipeline, for any number of instances, orders,   *)
(* zones, seats, payments and faults.                                      *)
(***************************************************************************)
EXTENDS TicketPulse, FiniteSetTheorems, TLAPS

\* The inductive invariant.  TypeOK is not inductive by itself: that a handler
\* adds a number to a stock counter depends on the order it works for having
\* been requested, which is what Traced follows through the pipeline.
Ind == TypeOK /\ Traced

LEMMA InitInd == Init => Ind
<1> USE BoundsAssumption, ServersAssumption, OrdersAssumption
<1>1. Init => TypeOK
  BY DEF Init, StoreInit, ReservationInit, WorkerInit, ExpiryInit, PaymentInit, Status,
         TypeOK, StoreTypeOK, ReservationTypeOK, WorkerTypeOK, ExpiryTypeOK, PaymentTypeOK,
         Taken, RequestSteps, HoldKey
<1>2. Init => Traced
  BY DEF Init, StoreInit, ReservationInit, WorkerInit, ExpiryInit, Taken,
         Traced, WarmedUp, TakenInWarm, LogTraced, WorkTraced, HostsTraced,
         OrdersAreReserved, OneRestorer, ReturnedForGood
<1> QED
  BY <1>1, <1>2 DEF Ind

LEMMA FaultBudget ==
    ASSUME faults \in 0..MaxFaults, NoFault \/ Fault
    PROVE  faults' \in 0..MaxFaults
BY BoundsAssumption DEF NoFault, Fault

\* A counter stays an integer when something is added to it.
LEMMA Incremented ==
    ASSUME NEW S, NEW f \in [S -> Int], NEW x \in S, NEW n \in Int
    PROVE  [f EXCEPT ![x] = @ + n] \in [S -> Int]
OBVIOUS

\* A part of the invariant holds on while the variables it reads do not change.
LEMMA TypeFrames ==
    /\ ReservationTypeOK /\ UNCHANGED requestVars => ReservationTypeOK'
    /\ WorkerTypeOK /\ UNCHANGED workerVars => WorkerTypeOK'
    /\ ExpiryTypeOK /\ UNCHANGED expiryVars => ExpiryTypeOK'
    /\ PaymentTypeOK /\ UNCHANGED paymentVars => PaymentTypeOK'
BY DEF ReservationTypeOK, Taken, requestVars, WorkerTypeOK, workerVars,
       ExpiryTypeOK, expiryVars, PaymentTypeOK, paymentVars

LEMMA TracedFrame ==
    ASSUME Traced, UNCHANGED <<requestVars, workerVars, expiryVars, status, log, warm, warmups>>
    PROVE  Traced'
BY DEF Traced, WarmedUp, TakenInWarm, LogTraced, WorkTraced, HostsTraced, OrdersAreReserved,
       OneRestorer, ReturnedForGood, Taken, requestVars, workerVars, expiryVars

\* The same when request handlers moved on, but took no more seats and no less.
LEMMA TracedTakenFrame ==
    ASSUME Traced, HostsTraced', Taken' = Taken,
           UNCHANGED <<req, workerVars, expiryVars, status, log, warm, warmups>>
    PROVE  Traced'
BY DEF Traced, WarmedUp, TakenInWarm, LogTraced, WorkTraced, OrdersAreReserved,
       OneRestorer, ReturnedForGood, workerVars, expiryVars

-----------------------------------------------------------------------------
\* The request handlers.

LEMMA ReserveInd ==
    ASSUME Ind, NEW o \in OrderIds, NEW s \in Servers, NEW z \in Zones,
           NEW q \in Quantities, NEW u \in Users, Reserve(o, s, z, q, u), RequestFrame
    PROVE  Ind'
<1> USE QuantityAssumption, BoundsAssumption, ServersAssumption, OrdersAssumption
<1>1. TypeOK'
  <2> USE DEF Ind, TypeOK, Reserve, RequestFrame
  <2>1. StoreTypeOK'
    <3>1. stock' \in [Zones -> Int]
      BY DEF StoreTypeOK, ReserveTicket
    <3>2. faults' \in 0..MaxFaults
      BY FaultBudget DEF StoreTypeOK
    <3> QED
      BY <3>1, <3>2 DEF StoreTypeOK, stockVars, keyVars, queueVars, topicVars
  <2>2. ReservationTypeOK'
    BY DEF ReservationTypeOK, Taken, RequestSteps, Request
  <2>3. WorkerTypeOK' /\ ExpiryTypeOK' /\ PaymentTypeOK'
    BY DEF WorkerTypeOK, ExpiryTypeOK, PaymentTypeOK, workerVars, expiryVars, paymentVars
  <2> QED
    BY <2>1, <2>2, <2>3
<1>2. Traced'
  <2> USE DEF Ind, Traced, TypeOK, Reserve, RequestFrame
  <2>0. Taken' = Taken \cup {o} /\ \A p \in Taken : req'[p] = req[p]
    BY DEF Taken, ReservationTypeOK, RequestSteps
  <2>1. WarmedUp'
    BY DEF WarmedUp, stockVars
  <2>2. TakenInWarm'
    BY <2>0 DEF TakenInWarm, ReservationTypeOK, ReserveTicket
  <2>3. LogTraced'
    BY <2>0 DEF LogTraced, topicVars
  <2>4. WorkTraced' 
    BY <2>0 DEF WorkTraced, workerVars
  <2>5. HostsTraced'
    BY DEF HostsTraced, ReservationTypeOK
  <2>6. OrdersAreReserved'
    BY <2>0 DEF OrdersAreReserved
  <2>7. OneRestorer' /\ ReturnedForGood'
    BY DEF OneRestorer, ReturnedForGood, expiryVars
  <2> QED
    BY <2>1, <2>2, <2>3, <2>4, <2>5, <2>6, <2>7
<1> QED
  BY <1>1, <1>2 DEF Ind

LEMMA RefuseInd ==
    ASSUME Ind, NEW o \in OrderIds, NEW s \in Servers, NEW z \in Zones,
           NEW q \in Quantities, NEW u \in Users, Refuse(o, s, z, q, u), RequestFrame
    PROVE  Ind'
<1> USE DEF Ind, Refuse, RequestFrame
<1>1. TypeOK'
  <2>1. StoreTypeOK'
    BY DEF TypeOK, StoreTypeOK, stockVars, keyVars, queueVars, topicVars
  <2>2. ReservationTypeOK'
    BY DEF TypeOK, ReservationTypeOK, Taken, RequestSteps
  <2> QED
    BY <2>1, <2>2, TypeFrames DEF TypeOK
<1>2. Taken' = Taken /\ HostsTraced'
  BY DEF TypeOK, ReservationTypeOK, Taken, RequestSteps, Traced, HostsTraced
<1> QED
  BY <1>1, <1>2, TracedTakenFrame DEF stockVars, topicVars

LEMMA LeaveQueueInd ==
    ASSUME Ind, NEW o \in OrderIds, LeaveQueue(o), RequestFrame
    PROVE  Ind'
<1> USE DEF Ind, LeaveQueue, RequestFrame
<1>1. TypeOK'
  <2>1. StoreTypeOK'
    <3>1. faults' \in 0..MaxFaults
      BY FaultBudget DEF TypeOK, StoreTypeOK
    <3>2. score' \in [Users -> Nat]
      <4>1. score \in [Users -> Nat]
        BY DEF TypeOK, StoreTypeOK
      <4>2. score' = score \/ \E u : score' = [score EXCEPT ![u] = 0]
        BY DEF DequeueUser
      <4> HIDE DEF Ind, LeaveQueue, RequestFrame
      <4> QED
        BY <4>1, <4>2
    <3> QED
      BY <3>1, <3>2 DEF TypeOK, StoreTypeOK, stockVars, keyVars, topicVars
  <2>2. ReservationTypeOK'
    BY DEF TypeOK, ReservationTypeOK, Taken, RequestSteps
  <2> QED
    BY <2>1, <2>2, TypeFrames DEF TypeOK
<1>2. Taken' = Taken /\ HostsTraced'
  BY DEF TypeOK, ReservationTypeOK, Taken, RequestSteps, Traced, HostsTraced
<1> QED
  BY <1>1, <1>2, TracedTakenFrame DEF stockVars, topicVars

\* What Publish leaves in the log: the old messages, then only this order's.
LEMMA PublishedLog ==
    ASSUME StoreTypeOK, NEW o \in OrderIds, Publish(o)
    PROVE  /\ log' \in Seq(OrderIds \cup {PreWarm})
           /\ Len(log') >= Len(log)
           /\ \A i \in 1..Len(log') : (i <= Len(log) /\ log'[i] = log[i]) \/ log'[i] = o
<1>0. log \in Seq(OrderIds \cup {PreWarm}) /\ Len(log) \in Nat
  BY DEF StoreTypeOK
<1>1. CASE log' = log
  BY <1>0, <1>1
<1>2. CASE log' = Append(log, o)
  BY <1>0, <1>2
<1>3. CASE log' = log \o <<o, o>>
  BY <1>0, <1>3
<1> QED
  BY <1>1, <1>2, <1>3 DEF Publish, PublishOrderCreated

LEMMA PublishInd ==
    ASSUME Ind, NEW o \in OrderIds, Publish(o), RequestFrame
    PROVE  Ind'
<1>0. StoreTypeOK
  BY DEF Ind, TypeOK
<1>1. TypeOK'
  <2>1. StoreTypeOK'
    <3>1. faults' \in 0..MaxFaults
      BY FaultBudget DEF Ind, TypeOK, StoreTypeOK, Publish
    <3>2. Len(log) \in Nat /\ Len(log') \in Nat /\ Len(log') >= Len(log)
      <4>1. log \in Seq(OrderIds \cup {PreWarm})
        BY <1>0 DEF StoreTypeOK
      <4> QED
        BY <1>0, <4>1, PublishedLog
    <3>3. next' \in 0..Len(log') /\ committed' \in 0..next'
      BY <1>0, <3>2 DEF StoreTypeOK, Publish
    <3> QED
      <4>1. log' \in Seq(OrderIds \cup {PreWarm})
        BY <1>0, PublishedLog
      <4> QED
        BY <1>0, <3>1, <3>3, <4>1 DEF StoreTypeOK, Publish, stockVars, keyVars, queueVars
  <2>2. ReservationTypeOK'
    BY DEF Ind, TypeOK, Publish, ReservationTypeOK, Taken, RequestSteps
  <2> QED
    BY <2>1, <2>2, TypeFrames DEF Ind, TypeOK, Publish, RequestFrame
<1>2. Taken' = Taken /\ HostsTraced' /\ o \in Taken
  BY DEF Ind, Publish, TypeOK, ReservationTypeOK, Taken, RequestSteps, Traced, HostsTraced
<1>3. LogTraced'
  BY <1>0, <1>2, PublishedLog DEF Ind, Traced, LogTraced
<1>4. Traced'
  BY <1>2, <1>3
  DEF Ind, Publish, RequestFrame, Traced, WarmedUp, TakenInWarm, WorkTraced, OrdersAreReserved,
      OneRestorer, ReturnedForGood, stockVars, workerVars, expiryVars
<1> QED
  BY <1>1, <1>4 DEF Ind

LEMMA AnswerInd ==
    ASSUME Ind, NEW o \in OrderIds, Answer(o), RequestFrame
    PROVE  Ind'
<1> USE DEF Ind, Answer, RequestFrame
<1>1. TypeOK'
  <2>1. StoreTypeOK'
    <3>1. faults' \in 0..MaxFaults
      BY FaultBudget DEF TypeOK, StoreTypeOK
    <3>2. req[o] \in Request
      BY DEF TypeOK, ReservationTypeOK, Taken
    <3>3. hold' \subseteq HoldKey
      BY <3>2 DEF TypeOK, StoreTypeOK, HoldKey, Request
    <3> QED
      BY <3>1, <3>3 DEF TypeOK, StoreTypeOK, stockVars, queueVars, topicVars
  <2>2. ReservationTypeOK'
    BY DEF TypeOK, ReservationTypeOK, Taken, RequestSteps
  <2> QED
    BY <2>1, <2>2, TypeFrames DEF TypeOK
<1>2. Taken' = Taken /\ HostsTraced'
  BY DEF TypeOK, ReservationTypeOK, Taken, RequestSteps, Traced, HostsTraced
<1> QED
  BY <1>1, <1>2, TracedTakenFrame DEF stockVars, topicVars

LEMMA WarmupInd ==
    ASSUME Ind, NEW z \in Zones, NEW n \in Stocks, Warmup(z, n), RequestFrame
    PROVE  Ind'
<1> USE DEF Ind, Warmup, RequestFrame
<1>1. TypeOK'
  <2>1. StoreTypeOK'
    <3>1. stock' \in [Zones -> Int] /\ warm' \subseteq Zones
      BY StocksAssumption DEF TypeOK, StoreTypeOK, WarmupStock
    <3>2. warmups' \in [Zones -> 0..MaxWarmups]
      BY BoundsAssumption DEF TypeOK, StoreTypeOK
    <3>3. supplied' \in [Zones -> Nat]
      BY StocksAssumption DEF TypeOK, StoreTypeOK
    <3> QED
      BY <3>1, <3>2, <3>3 DEF TypeOK, StoreTypeOK, keyVars, queueVars, topicVars
  <2> QED
    BY <2>1, TypeFrames DEF TypeOK
<1>2. WarmedUp' /\ TakenInWarm'
  BY BoundsAssumption
  DEF TypeOK, StoreTypeOK, WarmupStock, Traced, WarmedUp, TakenInWarm, Taken, requestVars
<1>3. Traced'
  BY <1>2
  DEF Traced, LogTraced, WorkTraced, HostsTraced, OrdersAreReserved, OneRestorer, ReturnedForGood,
      Taken, requestVars, workerVars, expiryVars, topicVars
<1> QED
  BY <1>1, <1>3

LEMMA JoinQueueInd ==
    ASSUME Ind, NEW u \in Users, JoinQueue(u), RequestFrame
    PROVE  Ind'
<1> USE DEF Ind, JoinQueue, RequestFrame
<1>1. now' \in 0..MaxJoins /\ score' \in [Users -> Nat]
  BY BoundsAssumption DEF TypeOK, StoreTypeOK, EnqueueUser
<1>2. StoreTypeOK'
  BY <1>1 DEF TypeOK, StoreTypeOK, stockVars, keyVars, topicVars
<1>3. TypeOK'
  BY <1>2, TypeFrames DEF TypeOK
<1> QED
  BY <1>3, TracedFrame DEF stockVars, topicVars

-----------------------------------------------------------------------------
\* The order worker.

LEMMA AssignInd ==
    ASSUME Ind, NEW s \in Servers, Assign(s) \/ Rebalance(s), WorkerFrame
    PROVE  Ind'
<1> USE DEF Ind, Assign, Rebalance, WorkerFrame
<1>1. /\ next' \in 0..Len(log) /\ committed \in 0..next'
      /\ moves' \in 0..MaxMoves /\ owner' \in Servers \cup {None}
  BY BoundsAssumption DEF TypeOK, StoreTypeOK
<1>2. StoreTypeOK'
  BY <1>1 DEF TypeOK, StoreTypeOK, stockVars, keyVars, queueVars
<1>3. TypeOK'
  BY <1>2, TypeFrames DEF TypeOK
<1> QED
  BY <1>3, TracedFrame DEF stockVars

LEMMA ReadInd ==
    ASSUME Ind, NEW s \in Servers, Read(s), WorkerFrame
    PROVE  Ind'
<1> DEFINE m == log[next + 1]
<1>1. /\ log \in Seq(OrderIds \cup {PreWarm}) /\ Len(log) \in Nat
      /\ next' = next + 1 /\ next + 1 \in 1..Len(log)
  BY DEF Ind, TypeOK, StoreTypeOK, Read
<1>2. m = PreWarm \/ m \in Taken
  BY <1>1 DEF Ind, Traced, LogTraced
<1>3. next' \in 0..Len(log) /\ committed \in 0..next'
  BY <1>1 DEF Ind, TypeOK, StoreTypeOK
<1>4. StoreTypeOK'
  BY <1>3 DEF Ind, TypeOK, StoreTypeOK, Read, stockVars, keyVars, queueVars
<1>5. CASE UNCHANGED workerVars
  <2>1. TypeOK'
    BY <1>4, <1>5, TypeFrames DEF Ind, TypeOK, Read, WorkerFrame
  <2> QED
    BY <1>5, <2>1, TracedFrame DEF Ind, Read, WorkerFrame, stockVars
<1>6. CASE /\ ~Ignored(m)
           /\ wpc' = [wpc EXCEPT ![s] = "persist"]
           /\ wmsg' = [wmsg EXCEPT ![s] = m]
  <2>1. m \in Taken /\ m \in OrderIds /\ req[m].qty \in Int /\ req[m].qty # 0
    BY <1>2, <1>6, QuantityAssumption
    DEF Ignored, Taken, Ind, TypeOK, ReservationTypeOK, Request
  <2>2. WorkerTypeOK'
    BY <1>6, <2>1 DEF Ind, TypeOK, WorkerTypeOK
  <2>3. WorkTraced'
    <3>1. Taken' = Taken /\ req' = req
      BY DEF Read, requestVars, Taken
    <3> QED
      BY <1>6, <2>1, <3>1 DEF Ind, TypeOK, WorkerTypeOK, Traced, WorkTraced
  <2>4. TypeOK'
    BY <1>4, <2>2, TypeFrames DEF Ind, TypeOK, Read, WorkerFrame
  <2>5. Traced'
    BY <2>3
    DEF Ind, Read, WorkerFrame, Traced, WarmedUp, TakenInWarm, LogTraced, HostsTraced,
        OrdersAreReserved, OneRestorer, ReturnedForGood, Taken, requestVars, expiryVars, stockVars
  <2> QED
    BY <2>4, <2>5 DEF Ind
<1> QED
  BY <1>5, <1>6 DEF Read

LEMMA CommitInd ==
    ASSUME Ind, Commit, WorkerFrame
    PROVE  Ind'
<1> USE DEF Ind, Commit, WorkerFrame
<1>1. StoreTypeOK'
  BY DEF TypeOK, StoreTypeOK, stockVars, keyVars, queueVars
<1>2. TypeOK'
  BY <1>1, TypeFrames DEF TypeOK
<1> QED
  BY <1>2, TracedFrame DEF stockVars

LEMMA PersistInd ==
    ASSUME Ind, NEW s \in Servers, Persist(s), WorkerFrame
    PROVE  Ind'
<1> USE DEF Ind, Persist, WorkerFrame, GoIdle
<1>1. wmsg[s] \in OrderIds /\ wmsg[s] \in Taken /\ req[wmsg[s]].qty # 0
  BY DEF TypeOK, WorkerTypeOK, Traced, WorkTraced
<1>2. /\ status' \in [OrderIds -> Status]
      /\ \A o \in OrderIds : status'[o] # status[o] => o = wmsg[s] /\ status[o] = "none"
  BY <1>1 DEF TypeOK, StoreTypeOK, InsertOrder, Status
<1>3. TypeOK'
  <2>1. faults' \in 0..MaxFaults
    BY FaultBudget DEF TypeOK, StoreTypeOK
  <2>2. StoreTypeOK'
    BY <1>2, <2>1 DEF TypeOK, StoreTypeOK, stockVars, keyVars, queueVars, topicVars
  <2>3. WorkerTypeOK'
    BY DEF TypeOK, WorkerTypeOK
  <2> QED
    BY <2>2, <2>3, TypeFrames DEF TypeOK
<1>4. Taken' = Taken /\ req' = req
  BY DEF requestVars, Taken
<1>5. WorkTraced'
  BY <1>4 DEF TypeOK, WorkerTypeOK, Traced, WorkTraced
<1>6. OrdersAreReserved' /\ OneRestorer' /\ ReturnedForGood'
  BY <1>1, <1>2, <1>4
  DEF TypeOK, ExpiryTypeOK, Traced, OrdersAreReserved, OneRestorer, ReturnedForGood, expiryVars
<1>7. Traced'
  BY <1>4, <1>5, <1>6
  DEF Traced, WarmedUp, TakenInWarm, LogTraced, HostsTraced, requestVars, stockVars, topicVars
<1> QED
  BY <1>3, <1>7

LEMMA ArmInd ==
    ASSUME Ind, NEW s \in Servers, Arm(s), WorkerFrame
    PROVE  Ind'
<1> USE DEF Ind, Arm, WorkerFrame, GoIdle
<1>1. TypeOK'
  <2>1. faults' \in 0..MaxFaults
    BY FaultBudget DEF TypeOK, StoreTypeOK
  <2>2. timer' \subseteq OrderIds
    BY DEF TypeOK, StoreTypeOK, WorkerTypeOK, SetOrderExpiry
  <2>3. StoreTypeOK'
    BY <2>1, <2>2 DEF TypeOK, StoreTypeOK, stockVars, queueVars, topicVars
  <2>4. WorkerTypeOK'
    BY DEF TypeOK, WorkerTypeOK
  <2> QED
    BY <2>3, <2>4, TypeFrames DEF TypeOK
<1>2. Taken' = Taken /\ req' = req
  BY DEF requestVars, Taken
<1>3. WorkTraced'
  BY <1>2 DEF TypeOK, WorkerTypeOK, Traced, WorkTraced
<1>4. Traced'
  BY <1>2, <1>3
  DEF Traced, WarmedUp, TakenInWarm, LogTraced, HostsTraced, OrdersAreReserved, OneRestorer,
      ReturnedForGood, requestVars, expiryVars, stockVars, topicVars
<1> QED
  BY <1>1, <1>4

-----------------------------------------------------------------------------
\* The expiration worker.

LEMMA TimerLapseInd ==
    ASSUME Ind, NEW o \in OrderIds, NEW S \in SUBSET Servers, OrderTimerLapses(o, S), ExpiryFrame
    PROVE  Ind'
<1> USE DEF Ind, OrderTimerLapses, ExpiryFrame
<1>1. TypeOK'
  <2>1. faults' \in 0..MaxFaults
    BY FaultBudget DEF TypeOK, StoreTypeOK, Delivered
  <2>2. StoreTypeOK'
    BY <2>1 DEF TypeOK, StoreTypeOK, stockVars, queueVars, topicVars
  <2>3. ExpiryTypeOK'
    BY DEF TypeOK, ExpiryTypeOK
  <2> QED
    BY <2>2, <2>3, TypeFrames DEF TypeOK
<1>2. \A s \in Servers, p \in OrderIds : epc'[s][p] = "restore" => epc[s][p] = "restore"
  BY DEF TypeOK, ExpiryTypeOK
<1>3. OneRestorer' /\ ReturnedForGood'
  BY <1>2 DEF TypeOK, ExpiryTypeOK, Traced, OneRestorer, ReturnedForGood
<1>4. Traced'
  BY <1>3
  DEF Traced, WarmedUp, TakenInWarm, LogTraced, WorkTraced, HostsTraced, OrdersAreReserved,
      Taken, requestVars, workerVars, stockVars, topicVars
<1> QED
  BY <1>1, <1>4

\* At most one UPDATE finds the row PENDING; it alone gets to restore.
LEMMA CancelInd ==
    ASSUME Ind, NEW s \in Servers, NEW o \in OrderIds, CancelIfPending(s, o), ExpiryFrame
    PROVE  Ind'
<1> USE DEF Ind, CancelIfPending, ExpiryFrame, UpdateWhere
<1>1. TypeOK'
  <2>1. faults' \in 0..MaxFaults
    BY FaultBudget DEF TypeOK, StoreTypeOK
  <2>2. status' \in [OrderIds -> Status]
    BY DEF TypeOK, StoreTypeOK, Status
  <2>3. StoreTypeOK'
    BY <2>1, <2>2 DEF TypeOK, StoreTypeOK, stockVars, keyVars, queueVars, topicVars
  <2>4. ExpiryTypeOK'
    BY DEF TypeOK, ExpiryTypeOK
  <2> QED
    BY <2>3, <2>4, TypeFrames DEF TypeOK
<1>2. /\ \A p \in OrderIds \ {o} : status'[p] = status[p]
      /\ status'[o] # status[o] => status[o] = "PENDING" /\ status'[o] = "CANCELLED"
  BY DEF TypeOK, StoreTypeOK
<1>3. /\ \A t \in Servers, p \in OrderIds :
            <<t, p>> # <<s, o>> => epc'[t][p] = epc[t][p]
      /\ epc'[s][o] = "restore" => status[o] = "PENDING" /\ status'[o] = "CANCELLED"
  BY DEF TypeOK, StoreTypeOK, ExpiryTypeOK
<1>4. OneRestorer'
  <2> SUFFICES ASSUME NEW t \in Servers, NEW p \in OrderIds, epc'[t][p] = "restore"
               PROVE  /\ status'[p] = "CANCELLED"
                      /\ p \notin returned'
                      /\ \A r \in Servers : epc'[r][p] = "restore" => r = t
    BY DEF OneRestorer
  <2>1. CASE p # o
    <3>1. \A r \in Servers : epc'[r][p] = epc[r][p]
      BY <1>3, <2>1
    <3> QED
      BY <1>2, <2>1, <3>1 DEF Traced, OneRestorer
  <2>2. CASE p = o /\ status[o] = "PENDING"
    <3>1. o \notin returned /\ \A r \in Servers : epc[r][o] # "restore"
      BY <2>2 DEF Traced, OneRestorer, ReturnedForGood
    <3> QED
      BY <1>3, <2>2, <3>1
  <2>3. CASE p = o /\ status[o] # "PENDING"
    <3>1. \A r \in Servers : epc'[r][o] = "restore" => r # s /\ epc[r][o] = "restore"
      BY <1>3, <2>3
    <3> QED
      BY <1>2, <2>3, <3>1 DEF Traced, OneRestorer
  <2> QED
    BY <2>1, <2>2, <2>3
<1>5. ReturnedForGood'
  BY <1>2, <1>3 DEF TypeOK, ExpiryTypeOK, Traced, ReturnedForGood
<1>6. OrdersAreReserved'
  BY <1>2 DEF Traced, OrdersAreReserved, Taken, requestVars
<1>7. Traced'
  BY <1>4, <1>5, <1>6
  DEF Traced, WarmedUp, TakenInWarm, LogTraced, WorkTraced, HostsTraced,
      Taken, requestVars, workerVars, stockVars, topicVars
<1> QED
  BY <1>1, <1>7

LEMMA RestoreInd ==
    ASSUME Ind, NEW s \in Servers, NEW o \in OrderIds, RestoreStock(s, o), ExpiryFrame
    PROVE  Ind'
<1> USE DEF Ind, RestoreStock, ExpiryFrame
<1>1. status[o] = "CANCELLED" /\ o \notin returned /\ o \in Taken
  BY DEF Traced, OneRestorer, OrdersAreReserved
<1>2. req[o] \in Request /\ req[o].zone \in Zones /\ req[o].qty \in Int /\ req[o].zone \in warm
  BY <1>1, QuantityAssumption DEF TypeOK, ReservationTypeOK, Request, Traced, TakenInWarm
<1>3. warm' = warm /\ stock' \in [Zones -> Int]
  <2>1. CASE UNCHANGED <<stock, warm>>
    BY <2>1 DEF TypeOK, StoreTypeOK
  <2>2. CASE RestoreZoneStock(req[o].zone, req[o].qty)
    <3>1. PICK z \in warm, q \in Int : z = req[o].zone /\ q = req[o].qty
      BY <1>2
    <3>2. stock' = [stock EXCEPT ![z] = @ + q] /\ warm' = warm \cup {z}
      BY <2>2, <3>1 DEF RestoreZoneStock
    <3>3. z \in Zones /\ stock \in [Zones -> Int] /\ warm' = warm
      BY <3>1, <3>2 DEF TypeOK, StoreTypeOK
    <3>4. [stock EXCEPT ![z] = @ + q] \in [Zones -> Int]
      BY <3>3, Incremented
    <3> QED
      BY <3>2, <3>3, <3>4
  <2> QED
    BY <2>1, <2>2
<1>4. TypeOK'
  <2>1. faults' \in 0..MaxFaults
    BY FaultBudget DEF TypeOK, StoreTypeOK
  <2>2. StoreTypeOK'
    BY <1>3, <2>1 DEF TypeOK, StoreTypeOK, keyVars, queueVars, topicVars
  <2>3. ExpiryTypeOK'
    BY DEF TypeOK, ExpiryTypeOK
  <2> QED
    BY <2>2, <2>3, TypeFrames DEF TypeOK
<1>5. \A t \in Servers, p \in OrderIds :
         epc'[t][p] = IF t = s /\ p = o THEN "idle" ELSE epc[t][p]
  BY DEF TypeOK, ExpiryTypeOK
<1>6. OneRestorer'
  <2> SUFFICES ASSUME NEW t \in Servers, NEW p \in OrderIds, epc'[t][p] = "restore"
               PROVE  /\ status'[p] = "CANCELLED"
                      /\ p \notin returned'
                      /\ \A r \in Servers : epc'[r][p] = "restore" => r = t
    BY DEF OneRestorer
  <2>1. \A r \in Servers : epc'[r][p] = "restore" => epc[r][p] = "restore"
    BY <1>5
  <2>2. epc[t][p] = "restore" /\ p # o
    BY <1>5, <2>1 DEF Traced, OneRestorer
  <2> QED
    BY <2>1, <2>2 DEF Traced, OneRestorer
<1>7. ReturnedForGood'
  BY <1>1, <1>5 DEF TypeOK, ExpiryTypeOK, Traced, OneRestorer, ReturnedForGood
<1>8. Traced'
  BY <1>3, <1>6, <1>7
  DEF Traced, WarmedUp, TakenInWarm, LogTraced, WorkTraced, HostsTraced, OrdersAreReserved,
      Taken, requestVars, workerVars, topicVars
<1> QED
  BY <1>4, <1>8

LEMMA HoldLapseInd ==
    ASSUME Ind, NEW k \in hold, NEW S \in SUBSET Servers, HoldLapses(k, S), ExpiryFrame
    PROVE  Ind'
<1> USE DEF Ind, HoldLapses, ExpiryFrame
<1>1. k[1] \in Zones /\ k[2] \in Int
  BY QuantityAssumption DEF TypeOK, StoreTypeOK, HoldKey
<1>2. Cardinality(S) \in Nat
  BY ServersAssumption, FS_Subset, FS_CardinalityType
<1>3. k[2] * Cardinality(S) \in Int
  BY <1>1, <1>2
<1>4. orphan' \in [Zones -> Int]
  <2>1. orphan \in [Zones -> Int]
    BY DEF TypeOK, StoreTypeOK
  <2>2. orphan' = [orphan EXCEPT ![k[1]] = @ + k[2] * Cardinality(S)]
    OBVIOUS
  <2> HIDE DEF Ind, HoldLapses, ExpiryFrame
  <2>3. [orphan EXCEPT ![k[1]] = @ + k[2] * Cardinality(S)] \in [Zones -> Int]
    BY <1>1, <1>3, <2>1, Incremented
  <2> QED
    BY <2>2, <2>3
<1>5. faults' \in 0..MaxFaults
  BY FaultBudget DEF TypeOK, StoreTypeOK, Delivered
<1>6. StoreTypeOK'
  BY <1>4, <1>5 DEF TypeOK, StoreTypeOK, stockVars, queueVars, topicVars
<1>7. TypeOK'
  BY <1>6, TypeFrames DEF TypeOK
<1> QED
  BY <1>7, TracedFrame DEF stockVars, topicVars

-----------------------------------------------------------------------------
\* Charges, confirmations and the gate.

\* Moving on orders that are PENDING or COMPLETED disturbs nothing.
LEMMA TracedStatus ==
    ASSUME TypeOK, Traced, UNCHANGED <<requestVars, workerVars, expiryVars, log, warm, warmups>>,
           \A o \in OrderIds : status'[o] # status[o] => status[o] \in {"PENDING", "COMPLETED"}
    PROVE  Traced'
<1>1. Taken' = Taken /\ req' = req
  BY DEF requestVars, Taken
<1>2. OrdersAreReserved'
  BY <1>1 DEF Traced, OrdersAreReserved
<1>3. OneRestorer'
  BY DEF Traced, OneRestorer, expiryVars
<1>4. ReturnedForGood'
  BY DEF TypeOK, ExpiryTypeOK, Traced, ReturnedForGood, expiryVars
<1> QED
  BY <1>1, <1>2, <1>3, <1>4
  DEF Traced, WarmedUp, TakenInWarm, LogTraced, WorkTraced, HostsTraced, requestVars, workerVars

LEMMA ChargeInd ==
    ASSUME Ind, NEW o \in OrderIds, CheckPayable(o) \/ IssueCharge(o), PaymentFrame
    PROVE  Ind'
<1> USE DEF Ind, CheckPayable, IssueCharge, PaymentFrame
<1>1. StoreTypeOK'
  BY DEF TypeOK, StoreTypeOK, stockVars, keyVars, queueVars, topicVars
<1>2. PaymentTypeOK'
  BY DEF TypeOK, PaymentTypeOK
<1>3. TypeOK'
  BY <1>1, <1>2, TypeFrames DEF TypeOK
<1> QED
  BY <1>3, TracedFrame DEF stockVars, topicVars

LEMMA MarkPaidInd ==
    ASSUME Ind, NEW c \in Calls, NEW o \in OrderIds, NEW s \in Servers, MarkPaid(c, o, s),
           PaymentFrame
    PROVE  Ind'
<1> USE DEF Ind, MarkPaid, PaymentFrame, UpdateWhere
<1>1. /\ status' \in [OrderIds -> Status]
      /\ \A p \in OrderIds : status'[p] # status[p] => status[p] = "PENDING"
  BY DEF TypeOK, StoreTypeOK, Status
<1>2. TypeOK'
  <2>1. faults' \in 0..MaxFaults
    BY FaultBudget DEF TypeOK, StoreTypeOK
  <2>2. StoreTypeOK'
    BY <1>1, <2>1 DEF TypeOK, StoreTypeOK, stockVars, keyVars, queueVars, topicVars
  <2>3. PaymentTypeOK'
    <3>1. [order |-> o, server |-> s] \in CallRecord
      BY DEF CallRecord
    <3> QED
      BY <3>1, CallAssumption DEF TypeOK, PaymentTypeOK, EndCall
  <2> QED
    BY <2>2, <2>3, TypeFrames DEF TypeOK
<1> QED
  BY <1>1, <1>2, TracedStatus DEF stockVars, topicVars

LEMMA ReadBackInd ==
    ASSUME Ind, NEW c \in Calls, ReadBack(c), PaymentFrame
    PROVE  Ind'
<1> USE DEF Ind, ReadBack, PaymentFrame, EndCall
<1>1. faults' \in 0..MaxFaults
  BY FaultBudget DEF TypeOK, StoreTypeOK
<1>2. StoreTypeOK'
  BY <1>1 DEF TypeOK, StoreTypeOK, stockVars, keyVars, queueVars, topicVars
<1>3. PaymentTypeOK'
  BY DEF TypeOK, PaymentTypeOK
<1>4. TypeOK'
  BY <1>2, <1>3, TypeFrames DEF TypeOK
<1> QED
  BY <1>4, TracedFrame DEF stockVars, topicVars

LEMMA ClearTimerInd ==
    ASSUME Ind, NEW c \in Calls, ClearTimer(c), PaymentFrame
    PROVE  Ind'
<1> USE DEF Ind, ClearTimer, PaymentFrame
<1>1. faults' \in 0..MaxFaults
  BY FaultBudget DEF TypeOK, StoreTypeOK
<1>2. StoreTypeOK'
  BY <1>1 DEF TypeOK, StoreTypeOK, ClearOrderExpiry, stockVars, queueVars, topicVars
<1>3. PaymentTypeOK'
  BY DEF TypeOK, PaymentTypeOK
<1>4. TypeOK'
  BY <1>2, <1>3, TypeFrames DEF TypeOK
<1> QED
  BY <1>4, TracedFrame DEF stockVars, topicVars

LEMMA PublishPaidInd ==
    ASSUME Ind, NEW c \in Calls, PublishPaid(c), PaymentFrame
    PROVE  Ind'
<1> USE DEF Ind, PublishPaid, PaymentFrame, EndCall
<1>1. faults' \in 0..MaxFaults
  BY FaultBudget DEF TypeOK, StoreTypeOK
<1>2. paid' \in Seq(OrderIds)
  <2>1. PICK p \in OrderIds : p = call[c].order
    BY DEF TypeOK, StoreTypeOK, PaymentTypeOK, CallRecord
  <2>2. paid \in Seq(OrderIds) /\ <<p, p>> \in Seq(OrderIds)
    BY DEF TypeOK, StoreTypeOK
  <2>3. CASE paid' = paid
    BY <2>2, <2>3
  <2>4. CASE paid' = Append(paid, p)
    BY <2>2, <2>4
  <2>5. CASE paid' = paid \o <<p, p>>
    BY <2>2, <2>5
  <2> QED
    BY <2>1, <2>3, <2>4, <2>5
<1>3. StoreTypeOK'
  BY <1>1, <1>2 DEF TypeOK, StoreTypeOK, stockVars, keyVars, queueVars, topicVars
<1>4. PaymentTypeOK'
  BY DEF TypeOK, PaymentTypeOK
<1>5. TypeOK'
  BY <1>3, <1>4, TypeFrames DEF TypeOK
<1> QED
  BY <1>5, TracedFrame DEF stockVars, topicVars

LEMMA CheckInInd ==
    ASSUME Ind, NEW o \in OrderIds, VerifyAndCheckInTicket(o), PaymentFrame
    PROVE  Ind'
<1> USE DEF Ind, VerifyAndCheckInTicket, PaymentFrame, UpdateWhere
<1>1. /\ status' \in [OrderIds -> Status]
      /\ \A p \in OrderIds : status'[p] # status[p] => status[p] = "COMPLETED"
  BY DEF TypeOK, StoreTypeOK, Status
<1>2. StoreTypeOK'
  BY <1>1 DEF TypeOK, StoreTypeOK, stockVars, keyVars, queueVars, topicVars
<1>3. TypeOK'
  BY <1>2, TypeFrames DEF TypeOK
<1> QED
  BY <1>1, <1>3, TracedStatus DEF stockVars, topicVars

-----------------------------------------------------------------------------
\* The life of an instance.

\* Stopping an instance's workers takes work away and adds none.
LEMMA StoppedTraced ==
    ASSUME TypeOK, Traced, NEW s \in Servers, StopWorkers(s), HostsTraced',
           Taken' = Taken, UNCHANGED <<req, returned, status, log, warm, warmups>>
    PROVE  Traced'
<1>1. \A t \in Servers :
         /\ wpc'[t] # "idle" => wpc'[t] = wpc[t] /\ wmsg'[t] = wmsg[t]
         /\ \A o \in OrderIds : epc'[t][o] # "idle" => epc'[t][o] = epc[t][o]
  BY DEF StopWorkers, GoIdle, TypeOK, WorkerTypeOK, ExpiryTypeOK
<1>2. WorkTraced'
  BY <1>1 DEF Traced, WorkTraced
<1>3. \A t \in Servers, o \in OrderIds : epc'[t][o] = "restore" => epc[t][o] = "restore"
  BY <1>1
<1>4. OneRestorer' /\ ReturnedForGood'
  <2>1. OneRestorer'
    BY <1>3 DEF Traced, OneRestorer
  <2>2. ReturnedForGood'
    BY <1>3 DEF TypeOK, ExpiryTypeOK, Traced, ReturnedForGood
  <2> QED
    BY <2>1, <2>2
<1> QED
  BY <1>2, <1>4 DEF Traced, WarmedUp, TakenInWarm, LogTraced, OrdersAreReserved

LEMMA StoppedTyped ==
    ASSUME TypeOK, NEW s \in Servers, StopWorkers(s), UNCHANGED returned
    PROVE  WorkerTypeOK' /\ ExpiryTypeOK'
BY DEF TypeOK, StopWorkers, GoIdle, WorkerTypeOK, ExpiryTypeOK

LEMMA ShutdownInd ==
    ASSUME Ind, NEW s \in Servers, Shutdown(s)
    PROVE  Ind'
<1> USE DEF Ind, Shutdown
<1>1. /\ faults' \in 0..MaxFaults
      /\ phase' \in [Servers -> {"up", "lingering", "draining", "down"}]
      /\ owner' \in Servers \cup {None}
  BY FaultBudget DEF TypeOK, StoreTypeOK, LeaveGroup
<1>2. StoreTypeOK'
  BY <1>1, StoppedTyped DEF TypeOK, StoreTypeOK, stockVars, keyVars, queueVars
<1>3. TypeOK'
  BY <1>2, StoppedTyped, TypeFrames DEF TypeOK
<1>4. Taken' = Taken /\ HostsTraced' /\ req' = req
  BY DEF Traced, Taken, HostsTraced, requestVars
<1> QED
  BY <1>3, <1>4, StoppedTraced DEF stockVars

LEMMA ExitInd ==
    ASSUME Ind, NEW s \in Servers, Exit(s)
    PROVE  Ind'
<1> USE DEF Ind, Exit
<1>1. StoreTypeOK'
  BY DEF TypeOK, StoreTypeOK, LeaveGroup, stockVars, keyVars, queueVars
<1>2. TypeOK'
  BY <1>1, TypeFrames DEF TypeOK
<1> QED
  BY <1>2, TracedFrame DEF stockVars

LEMMA CrashInd ==
    ASSUME Ind, NEW s \in Servers, Crash(s)
    PROVE  Ind'
<1> USE DEF Ind, Crash
<1>1. /\ faults' \in 0..MaxFaults
      /\ phase' \in [Servers -> {"up", "lingering", "draining", "down"}]
      /\ owner' \in Servers \cup {None}
  BY FaultBudget DEF TypeOK, StoreTypeOK, LeaveGroup
<1>2. StoreTypeOK'
  BY <1>1, StoppedTyped DEF TypeOK, StoreTypeOK, stockVars, keyVars, queueVars
<1>3. /\ \A o \in OrderIds : host[o] = s => rpc[o] \in {"reserved", "dequeued", "published"}
      /\ Taken' = Taken
  BY ServersAssumption DEF AbortRequests, Traced, HostsTraced, Taken
<1>4. ReservationTypeOK'
  BY <1>3 DEF TypeOK, ReservationTypeOK, AbortRequests, RequestSteps
<1>5. PaymentTypeOK'
  BY DEF TypeOK, PaymentTypeOK, AbortCalls, RunsOn
<1>6. TypeOK'
  BY <1>2, <1>4, <1>5, StoppedTyped DEF TypeOK
<1>7. HostsTraced'
  BY DEF Traced, HostsTraced, AbortRequests
<1> QED
  BY <1>3, <1>6, <1>7, StoppedTraced DEF stockVars

LEMMA RestartInd ==
    ASSUME Ind, NEW s \in Servers, Restart(s)
    PROVE  Ind'
<1> USE DEF Ind, Restart, PublishOrderCreated
<1>1. /\ log' \in Seq(OrderIds \cup {PreWarm})
      /\ Len(log) \in Nat /\ Len(log') = Len(log) + 1
      /\ \A i \in 1..Len(log') : (i <= Len(log) /\ log'[i] = log[i]) \/ log'[i] = PreWarm
  <2>1. log \in Seq(OrderIds \cup {PreWarm})
    BY DEF TypeOK, StoreTypeOK
  <2> QED
    BY <2>1
<1>2. next \in 0..Len(log') /\ phase' \in [Servers -> {"up", "lingering", "draining", "down"}]
  BY <1>1 DEF TypeOK, StoreTypeOK
<1>3. StoreTypeOK'
  BY <1>1, <1>2 DEF TypeOK, StoreTypeOK, stockVars, keyVars, queueVars
<1>4. TypeOK'
  BY <1>3, TypeFrames DEF TypeOK
<1>5. Taken' = Taken
  BY DEF Taken, requestVars
<1>6. LogTraced'
  BY <1>1, <1>5 DEF Traced, LogTraced
<1>7. Traced'
  BY <1>5, <1>6
  DEF Traced, WarmedUp, TakenInWarm, WorkTraced, HostsTraced, OrdersAreReserved, OneRestorer,
      ReturnedForGood, requestVars, workerVars, expiryVars, stockVars
<1> QED
  BY <1>4, <1>7

-----------------------------------------------------------------------------
LEMMA StutterInd == Ind /\ UNCHANGED vars => Ind'
<1> SUFFICES ASSUME Ind, UNCHANGED vars PROVE Ind'
  OBVIOUS
<1>1. StoreTypeOK'
  BY DEF Ind, TypeOK, vars, StoreTypeOK, stockVars, keyVars, queueVars, topicVars
<1>2. TypeOK'
  BY <1>1, TypeFrames DEF Ind, TypeOK, vars
<1> QED
  BY <1>2, TracedFrame DEF Ind, vars, stockVars, topicVars

LEMMA NextInd == Ind /\ [Next]_vars => Ind'
<1> SUFFICES ASSUME Ind, [Next]_vars PROVE Ind'
  OBVIOUS
<1>1. CASE ReservationNext /\ RequestFrame
  BY <1>1, ReserveInd, RefuseInd, LeaveQueueInd, PublishInd, AnswerInd, WarmupInd, JoinQueueInd
  DEF ReservationNext
<1>2. CASE WorkerNext /\ WorkerFrame
  BY <1>2, AssignInd, ReadInd, CommitInd, PersistInd, ArmInd DEF WorkerNext
<1>3. CASE ExpiryNext /\ ExpiryFrame
  BY <1>3, TimerLapseInd, CancelInd, RestoreInd, HoldLapseInd DEF ExpiryNext
<1>4. CASE PaymentNext /\ PaymentFrame
  BY <1>4, ChargeInd, MarkPaidInd, ReadBackInd, ClearTimerInd, PublishPaidInd, CheckInInd
  DEF PaymentNext
<1>5. CASE \E s \in Servers : Shutdown(s) \/ Exit(s) \/ Crash(s) \/ Restart(s)
  BY <1>5, ShutdownInd, ExitInd, CrashInd, RestartInd
<1>6. CASE UNCHANGED vars
  BY <1>6, StutterInd
<1> QED
  BY <1>1, <1>2, <1>3, <1>4, <1>5, <1>6 DEF Next

LEMMA Inductive == Spec => []Ind
BY InitInd, NextInd, PTL DEF Spec

\* Every variable keeps its type for any number of instances, orders and
\* faults; in particular a step that works for an order finds its request, and
\* one that confirms a payment its call.
THEOREM Typing == Spec => []TypeOK
<1>1. Ind => TypeOK
  BY DEF Ind
<1> QED
  BY <1>1, Inductive, PTL

\* Work in hand, messages, rows and returned seats all go back to a request
\* that took seats, and an order's seats are returned by one expiry handler,
\* once, for good, however many instances hear of the same expiry.
THEOREM Provenance == Spec => []Traced
<1>1. Ind => Traced
  BY DEF Ind
<1> QED
  BY <1>1, Inductive, PTL

\* Every row in orders goes back to a run of the reservation script that
\* succeeded, for a number of seats other than 0: no redelivery, crash or dummy
\* message makes a row of its own.
THEOREM RowsAreReserved == Spec => []OrdersAreReserved
<1>1. Ind => OrdersAreReserved
  BY DEF Ind, Traced
<1> QED
  BY <1>1, Inductive, PTL
=============================================================================
