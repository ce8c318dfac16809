--------------------------- MODULE PipelineProofs ---------------------------
(***************************************************************************)
(* What the order pipeline promises, for any number of instances, orders,  *)
(* zones, warm-ups, confirmations, redeliveries and faults.  Of seats: it  *)
(* implements the seat ledger, and what is proved of the ledger then holds *)
(* of the pipeline.  Of one order: the life of its row, that what is       *)
(* announced as paid is paid, that a live timer never belongs to released  *)
(* seats, and that no seats are forgotten while nothing fails.             *)
(***************************************************************************)
EXTENDS TicketPulseProofs

-----------------------------------------------------------------------------
\* The ledger's view does not move while what it is read from does not.
LEMMA LedgerStutter ==
    ASSUME Taken' = Taken, Paid' = Paid, UNCHANGED <<warmups, supplied, stock, req, returned>>
    PROVE  UNCHANGED Ledger!ledgerVars
BY DEF Ledger!ledgerVars, Fate, Claim

LEMMA LedgerStart == Init => Ledger!LedgerInit
<1> SUFFICES ASSUME Init PROVE Ledger!LedgerInit
  OBVIOUS
<1>1. Taken = {} /\ Paid = {} /\ returned = {} /\ \A o \in OrderIds : req[o] = None
  BY DEF Init, StoreInit, ReservationInit, ExpiryInit, Taken, Paid
<1>2. /\ warmups = [z \in Zones |-> 0] /\ supplied = [z \in Zones |-> 0]
      /\ stock = [z \in Zones |-> 0]
  BY DEF Init, StoreInit
<1>3. \A o \in OrderIds : Fate(o) = "free" /\ Claim(o) = None
  BY <1>1 DEF Fate, Claim
<1> QED
  BY <1>1, <1>2, <1>3 DEF Ledger!LedgerInit

\* A successful script run is the ledger's Take.
LEMMA ReserveTakes ==
    ASSUME Ind, NEW o \in OrderIds, NEW s \in Servers, NEW z \in Zones,
           NEW q \in Quantities, NEW u \in Users, Reserve(o, s, z, q, u), RequestFrame
    PROVE  Ledger!Take(o, z, q)
<1>1. /\ o \notin Taken /\ Taken' = Taken \cup {o}
      /\ Paid' = Paid /\ returned' = returned /\ warmups' = warmups /\ supplied' = supplied
      /\ req' = [req EXCEPT ![o] = [zone |-> z, qty |-> q, user |-> u]]
  BY DEF Ind, TypeOK, ReservationTypeOK, Taken, Paid, Reserve, RequestFrame, RequestSteps,
         expiryVars
<1>2. o \notin Paid /\ o \notin returned
  BY <1>1 DEF Ind, TypeOK, ExpiryTypeOK, Traced, OrdersAreReserved, ReturnedForGood, Paid
<1>3. Fate(o) = "free" /\ Fate(o)' = "held"
  BY <1>1, <1>2 DEF Fate
<1>4. \A p \in OrderIds \ {o} : Fate(p)' = Fate(p)
  BY <1>1 DEF Fate
<1>5. Claim(o)' = <<z, q>>
  <2>1. req'[o] = [zone |-> z, qty |-> q, user |-> u] /\ req'[o] # None
    BY <1>1, RequestAssumption DEF Ind, TypeOK, ReservationTypeOK, Request
  <2> QED
    BY <2>1 DEF Claim
<1>6. \A p \in OrderIds \ {o} : Claim(p)' = Claim(p)
  BY <1>1 DEF Ind, TypeOK, ReservationTypeOK, Claim
<1>7. z \in warm /\ stock[z] >= q /\ stock' = [stock EXCEPT ![z] = @ - q]
  BY DEF Reserve, ReserveTicket
<1>10. z \in Ledger!OnSale
  BY <1>7 DEF Ind, Traced, WarmedUp, Ledger!OnSale
<1>8. [p \in OrderIds |-> Fate(p)]'
        = [[p \in OrderIds |-> Fate(p)] EXCEPT ![o] = "held"]
  BY <1>3, <1>4
<1>9. [p \in OrderIds |-> Claim(p)]' = [[p \in OrderIds |-> Claim(p)] EXCEPT ![o] = <<z, q>>]
  BY <1>5, <1>6
<1> QED
  BY <1>1, <1>3, <1>7, <1>8, <1>9, <1>10 DEF Ledger!Take

\* A warm-up, the first or a later one, is the ledger's Open.
LEMMA WarmupOpens ==
    ASSUME NEW z \in Zones, NEW n \in Stocks, Warmup(z, n), RequestFrame
    PROVE  Ledger!Open(z, n)
<1>1. /\ warmups' = [warmups EXCEPT ![z] = @ + 1]
      /\ supplied' = [supplied EXCEPT ![z] = IF n > 0 THEN @ + n ELSE @]
      /\ stock' = [stock EXCEPT ![z] = n]
      /\ req' = req /\ returned' = returned /\ Taken' = Taken /\ Paid' = Paid
  BY DEF Warmup, WarmupStock, RequestFrame, requestVars, expiryVars, Taken, Paid
<1>2. \A o \in OrderIds : Fate(o)' = Fate(o) /\ Claim(o)' = Claim(o)
  BY <1>1 DEF Fate, Claim
<1> QED
  BY <1>1, <1>2 DEF Ledger!Open

\* The UPDATE that finds the order PENDING sells its seats; any other leaves
\* the row as it is.
LEMMA MarkPaidSells ==
    ASSUME Ind, NEW c \in Calls, NEW o \in OrderIds, NEW s \in Servers, MarkPaid(c, o, s),
           PaymentFrame
    PROVE  Ledger!Sell(o) \/ UNCHANGED Ledger!ledgerVars
<1>1. /\ req' = req /\ returned' = returned /\ Taken' = Taken
      /\ warmups' = warmups /\ supplied' = supplied /\ stock' = stock
      /\ \A p \in OrderIds : Claim(p)' = Claim(p)
  BY DEF MarkPaid, PaymentFrame, requestVars, stockVars, expiryVars, Taken, Claim
<1>2. CASE status[o] = "PENDING" /\ status' = [status EXCEPT ![o] = "COMPLETED"]
  <2>1. o \in Taken /\ o \notin Paid /\ o \notin returned
    BY <1>2 DEF Ind, Traced, OrdersAreReserved, ReturnedForGood, Paid
  <2>2. Paid' = Paid \cup {o}
    BY <1>2 DEF Ind, TypeOK, StoreTypeOK, Paid
  <2>3. Fate(o) = "held" /\ Fate(o)' = "sold"
    BY <1>1, <2>1, <2>2 DEF Fate
  <2>4. \A p \in OrderIds \ {o} : Fate(p)' = Fate(p)
    BY <1>1, <2>2 DEF Fate
  <2>5. [p \in OrderIds |-> Fate(p)]'
          = [[p \in OrderIds |-> Fate(p)] EXCEPT ![o] = "sold"]
    BY <2>3, <2>4
  <2> QED
    BY <1>1, <2>3, <2>5 DEF Ledger!Sell
<1>3. CASE status' = status
  <2>1. Paid' = Paid
    BY <1>3 DEF Paid
  <2> QED
    BY <1>1, <2>1, LedgerStutter
<1>4. status' = status \/ (status[o] = "PENDING" /\ status' = [status EXCEPT ![o] = "COMPLETED"])
  BY DEF Ind, TypeOK, StoreTypeOK, MarkPaid, UpdateWhere
<1> QED
  BY <1>2, <1>3, <1>4

\* Returning an order's seats is the ledger's Release.
LEMMA RestoreReleases ==
    ASSUME Ind, NEW s \in Servers, NEW o \in OrderIds, RestoreStock(s, o), ExpiryFrame
    PROVE  Ledger!Release(o) \/ UNCHANGED Ledger!ledgerVars
<1>1. /\ req' = req /\ status' = status /\ Taken' = Taken /\ Paid' = Paid
      /\ warmups' = warmups /\ supplied' = supplied
      /\ \A p \in OrderIds : Claim(p)' = Claim(p)
  BY DEF RestoreStock, requestVars, Taken, Paid, Claim
<1>2. o \in Taken /\ o \notin Paid /\ o \notin returned
  BY DEF RestoreStock, Ind, Traced, OneRestorer, OrdersAreReserved, Paid
<1>3. CASE UNCHANGED <<stock, returned>>
  BY <1>1, <1>3, LedgerStutter
<1>4. CASE RestoreZoneStock(req[o].zone, req[o].qty) /\ returned' = returned \cup {o}
  <2>1. req[o] \in Request /\ req[o] # None /\ req[o].zone \in warm
    BY <1>2, RequestAssumption DEF Ind, TypeOK, ReservationTypeOK, Traced, TakenInWarm
  <2>2. Claim(o)[1] = req[o].zone /\ Claim(o)[2] = req[o].qty
    BY <2>1 DEF Claim
  <2>3. stock' = [stock EXCEPT ![req[o].zone] = @ + req[o].qty]
    BY <1>4, <2>1 DEF RestoreZoneStock
  <2>4. Fate(o) = "held" /\ Fate(o)' = "released"
    BY <1>1, <1>2, <1>4 DEF Fate
  <2>5. \A p \in OrderIds \ {o} : Fate(p)' = Fate(p)
    BY <1>1, <1>4 DEF Fate
  <2>6. [p \in OrderIds |-> Fate(p)]'
          = [[p \in OrderIds |-> Fate(p)] EXCEPT ![o] = "released"]
    BY <2>4, <2>5
  <2> QED
    BY <1>1, <2>2, <2>3, <2>4, <2>6 DEF Ledger!Release
<1> QED
  BY <1>3, <1>4 DEF RestoreStock

\* No other step shows in the ledger.
LEMMA RequestStutters ==
    ASSUME Ind, RequestFrame,
           \/ \E o \in OrderIds :
                \/ LeaveQueue(o) \/ Publish(o) \/ Answer(o)
                \/ \E s \in Servers, z \in Zones, q \in Quantities, u \in Users :
                      Refuse(o, s, z, q, u)
           \/ \E u \in Users : JoinQueue(u)
    PROVE  UNCHANGED Ledger!ledgerVars
<1>1. Taken' = Taken
  BY DEF Ind, TypeOK, ReservationTypeOK, RequestSteps, Taken, LeaveQueue, Publish, Answer,
         Refuse, JoinQueue, requestVars
<1>2. Paid' = Paid /\ UNCHANGED <<warmups, supplied, stock, req, returned>>
  BY DEF LeaveQueue, Publish, Answer, Refuse, JoinQueue, RequestFrame, Paid, stockVars,
         expiryVars, requestVars
<1> QED
  BY <1>1, <1>2, LedgerStutter

\* InsertOrder and CancelIfPending touch rows that are not paid, the gate scan
\* one that stays so.
LEMMA WorkerStutters ==
    ASSUME Ind, WorkerNext, WorkerFrame
    PROVE  UNCHANGED Ledger!ledgerVars
<1>1. UNCHANGED <<requestVars, stockVars, returned>>
  BY DEF WorkerNext, Commit, Assign, Rebalance, Read, Persist, Arm, WorkerFrame, expiryVars
<1>2. Paid' = Paid
  <2>1. CASE status' = status
    BY <2>1 DEF Paid
  <2>2. CASE \E s \in Servers : Persist(s) /\ InsertOrder(wmsg[s])
    BY <2>2 DEF Ind, TypeOK, StoreTypeOK, WorkerTypeOK, Persist, InsertOrder, Paid
  <2> QED
    BY <2>1, <2>2 DEF WorkerNext, Commit, Assign, Rebalance, Read, Persist, Arm
<1>3. Taken' = Taken
  BY <1>1 DEF requestVars, Taken
<1> QED
  BY <1>1, <1>2, <1>3, LedgerStutter DEF requestVars, stockVars

LEMMA ExpiryStutters ==
    ASSUME Ind, ExpiryFrame,
           \/ \E o \in OrderIds, S \in SUBSET Servers : OrderTimerLapses(o, S)
           \/ \E o \in OrderIds, s \in Servers : CancelIfPending(s, o)
           \/ \E k \in hold, S \in SUBSET Servers : HoldLapses(k, S)
    PROVE  UNCHANGED Ledger!ledgerVars
<1>1. UNCHANGED <<requestVars, stockVars, returned>>
  BY DEF OrderTimerLapses, CancelIfPending, HoldLapses, expiryVars
<1>2. Paid' = Paid
  <2>1. CASE status' = status
    BY <2>1 DEF Paid
  <2>2. CASE \E o \in OrderIds : UpdateWhere(o, "PENDING", "CANCELLED")
    BY <2>2 DEF Ind, TypeOK, StoreTypeOK, UpdateWhere, Paid
  <2> QED
    BY <2>1, <2>2 DEF OrderTimerLapses, CancelIfPending, HoldLapses
<1>3. Taken' = Taken
  BY <1>1 DEF requestVars, Taken
<1> QED
  BY <1>1, <1>2, <1>3, LedgerStutter DEF requestVars, stockVars

LEMMA PaymentStutters ==
    ASSUME Ind, PaymentFrame,
           \/ \E o \in OrderIds :
                CheckPayable(o) \/ IssueCharge(o) \/ VerifyAndCheckInTicket(o)
           \/ \E c \in Calls : ReadBack(c) \/ ClearTimer(c) \/ PublishPaid(c)
    PROVE  UNCHANGED Ledger!ledgerVars
<1>1. UNCHANGED <<requestVars, stockVars, returned>>
  BY DEF CheckPayable, IssueCharge, VerifyAndCheckInTicket, ReadBack, ClearTimer, PublishPaid,
         PaymentFrame, expiryVars
<1>2. Paid' = Paid
  <2>1. CASE status' = status
    BY <2>1 DEF Paid
  <2>2. CASE \E o \in OrderIds : UpdateWhere(o, "COMPLETED", "CHECKED_IN")
    BY <2>2 DEF Ind, TypeOK, StoreTypeOK, UpdateWhere, Paid
  <2> QED
    BY <2>1, <2>2
    DEF CheckPayable, IssueCharge, VerifyAndCheckInTicket, ReadBack, ClearTimer, PublishPaid
<1>3. Taken' = Taken
  BY <1>1 DEF requestVars, Taken
<1> QED
  BY <1>1, <1>2, <1>3, LedgerStutter DEF requestVars, stockVars

LEMMA InstanceStutters ==
    ASSUME Ind, NEW s \in Servers, Shutdown(s) \/ Exit(s) \/ Crash(s) \/ Restart(s)
    PROVE  UNCHANGED Ledger!ledgerVars
<1>1. UNCHANGED <<req, stockVars, returned, status>>
  BY DEF Shutdown, Exit, Crash, Restart, requestVars, expiryVars
<1>2. Taken' = Taken
  <2>1. CASE UNCHANGED requestVars
    BY <2>1 DEF requestVars, Taken
  <2>2. CASE Crash(s)
    BY <2>2, ServersAssumption
    DEF Crash, AbortRequests, Ind, Traced, HostsTraced, Taken
  <2> QED
    BY <2>1, <2>2 DEF Shutdown, Exit, Restart
<1> QED
  BY <1>1, <1>2, LedgerStutter DEF stockVars, Paid

LEMMA LedgerStep ==
    ASSUME Ind, [Next]_vars
    PROVE  [Ledger!LedgerNext]_(Ledger!ledgerVars)
<1>1. CASE ReservationNext /\ RequestFrame
  <2>1. ASSUME NEW o \in OrderIds, NEW s \in Servers, NEW z \in Zones, NEW q \in Quantities,
               NEW u \in Users, Reserve(o, s, z, q, u)
        PROVE  Ledger!LedgerNext
    BY <1>1, <2>1, ReserveTakes DEF Ledger!LedgerNext
  <2>2. ASSUME NEW z \in Zones, NEW n \in Stocks, Warmup(z, n)
        PROVE  Ledger!LedgerNext
    BY <1>1, <2>2, WarmupOpens DEF Ledger!LedgerNext
  <2> QED
    BY <1>1, <2>1, <2>2, RequestStutters DEF ReservationNext
<1>2. CASE WorkerNext /\ WorkerFrame
  BY <1>2, WorkerStutters
<1>3. CASE ExpiryNext /\ ExpiryFrame
  <2>1. ASSUME NEW o \in OrderIds, NEW s \in Servers, RestoreStock(s, o)
        PROVE  [Ledger!LedgerNext]_(Ledger!ledgerVars)
    BY <1>3, <2>1, RestoreReleases DEF Ledger!LedgerNext
  <2> QED
    BY <1>3, <2>1, ExpiryStutters DEF ExpiryNext
<1>4. CASE PaymentNext /\ PaymentFrame
  <2>1. ASSUME NEW c \in Calls, NEW o \in OrderIds, NEW s \in Servers, MarkPaid(c, o, s)
        PROVE  [Ledger!LedgerNext]_(Ledger!ledgerVars)
    BY <1>4, <2>1, MarkPaidSells DEF Ledger!LedgerNext
  <2> QED
    BY <1>4, <2>1, PaymentStutters DEF PaymentNext
<1>5. CASE \E s \in Servers : Shutdown(s) \/ Exit(s) \/ Crash(s) \/ Restart(s)
  BY <1>5, InstanceStutters
<1>6. CASE UNCHANGED vars
  BY <1>6, LedgerStutter
  DEF vars, Taken, Paid, stockVars, requestVars, expiryVars
<1> QED
  BY <1>1, <1>2, <1>3, <1>4, <1>5, <1>6 DEF Next

\* Every history of the pipeline, with any number of instances, orders,
\* payments, warm-ups, crashes, redeliveries and failed calls, is one of the
\* seat ledger.
THEOREM PipelineKeepsLedger == Spec => ImplementsLedger
<1>1. Init => Ledger!LedgerInit
  BY LedgerStart
<1>2. Ind /\ [Next]_vars => [Ledger!LedgerNext]_(Ledger!ledgerVars)
  BY LedgerStep
<1> QED
  BY <1>1, <1>2, Inductive, PTL DEF Spec, ImplementsLedger, Ledger!LedgerSpec

-----------------------------------------------------------------------------
\* What is proved of the ledger, said of the pipeline.
Books == INSTANCE SeatLedgerProofs WITH
    opened   <- warmups,
    supplied <- supplied,
    avail    <- stock,
    ledger   <- [o \in OrderIds |-> Fate(o)],
    claim    <- [o \in OrderIds |-> Claim(o)]

\* The same formulas under the name Ledger and under the name Books.
LEMMA BooksAreTheLedger ==
    /\ \A S : Books!Cardinality(S) = Cardinality(S)
    /\ \A S : Books!IsFiniteSet(S) <=> IsFiniteSet(S)
    /\ Ledger!LedgerInit <=> Books!LedgerInit
    /\ [Ledger!LedgerNext]_(Ledger!ledgerVars) <=> [Books!LedgerNext]_(Books!ledgerVars)
<1>1. \A S : Books!Cardinality(S) = Cardinality(S)
  BY DEF Books!Cardinality, Cardinality
<1>2. \A S : Books!IsFiniteSet(S) <=> IsFiniteSet(S)
  BY DEF Books!IsFiniteSet, IsFiniteSet
<1>3. Ledger!LedgerInit <=> Books!LedgerInit
  BY DEF Ledger!LedgerInit, Books!LedgerInit
<1>4. [Ledger!LedgerNext]_(Ledger!ledgerVars) <=> [Books!LedgerNext]_(Books!ledgerVars)
  BY DEF Ledger!LedgerNext, Ledger!ledgerVars, Ledger!OnSale, Ledger!Open, Ledger!Take, Ledger!Sell,
         Ledger!Release, Books!LedgerNext, Books!ledgerVars, Books!OnSale, Books!Open, Books!Take, Books!Sell,
         Books!Release
<1> QED
  BY <1>1, <1>2, <1>3, <1>4

LEMMA LedgerConstants == Books!LedgerAssumption
BY BooksAreTheLedger, StocksAssumption, QuantityAssumption, OrdersAssumption
DEF Books!LedgerAssumption

LEMMA PipelineBalanced == Spec => Books!Balanced
<1>1. Books!LedgerSpec => Books!Balanced
  BY LedgerConstants, Books!LedgerBalanced
<1>2. Ledger!LedgerInit => Books!LedgerInit
  BY BooksAreTheLedger
<1>3. [Ledger!LedgerNext]_(Ledger!ledgerVars) => [Books!LedgerNext]_(Books!ledgerVars)
  BY BooksAreTheLedger
<1> QED
  BY <1>1, <1>2, <1>3, PipelineKeepsLedger, PTL
  DEF ImplementsLedger, Ledger!LedgerSpec, Books!LedgerSpec

LEMMA PipelineAudited == Spec => []Books!Audited
<1>1. Books!LedgerSpec => []Books!Audited
  BY LedgerConstants, Books!LedgerAudited
<1>2. Ledger!LedgerInit => Books!LedgerInit
  BY BooksAreTheLedger
<1>3. [Ledger!LedgerNext]_(Ledger!ledgerVars) => [Books!LedgerNext]_(Books!ledgerVars)
  BY BooksAreTheLedger
<1> QED
  BY <1>1, <1>2, <1>3, PipelineKeepsLedger, PTL
  DEF ImplementsLedger, Ledger!LedgerSpec, Books!LedgerSpec

\* The ledger's tokens are the pipeline's.
LEMMA TokensAgree ==
    ASSUME Ind, NEW z \in Zones
    PROVE  /\ Books!SeatsTaken(z) = SeatsOut(z)
           /\ Books!SeatsOver(z) = SeatsOver(z)
           /\ Books!SeatsAdded(z) = SeatsAdded(z)
<1>1. /\ Books!Holders(z) = Standing(z)
      /\ Books!Takers(z) = {p \in Taken : req[p].zone = z}
  <2> SUFFICES ASSUME NEW p \in OrderIds
               PROVE  /\ (Fate(p) \in {"held", "sold"} /\ Claim(p)[1] = z)
                           <=> (p \in Taken \ returned /\ req[p].zone = z)
                      /\ (Fate(p) # "free" /\ Claim(p)[1] = z)
                           <=> (p \in Taken /\ req[p].zone = z)
    BY DEF Books!Holders, Books!Takers, Standing, Taken
  <2>1. /\ Fate(p) \in {"held", "sold"} <=> p \in Taken \ returned
        /\ Fate(p) # "free" <=> p \in Taken
    BY DEF Fate, Ind, Traced, OrdersAreReserved, ReturnedForGood, Paid
  <2>2. p \in Taken => Claim(p)[1] = req[p].zone
    BY RequestAssumption DEF Claim, Ind, TypeOK, ReservationTypeOK
  <2> QED
    BY <2>1, <2>2
<1>2. \A p \in Taken : /\ Books!Takes(p) = {p} \X (1..req[p].qty)
                       /\ Books!Adds(p) = {p} \X (1..-req[p].qty)
  BY RequestAssumption DEF Books!Takes, Books!Adds, Claim, Ind, TypeOK, ReservationTypeOK, Taken
<1> QED
  BY <1>1, <1>2
  DEF Books!SeatsTaken, Books!SeatsOver, Books!SeatsAdded, SeatsOut, SeatsOver, SeatsAdded, Standing

\* The ledger's sum is the pipeline's.
LEMMA SumsAgree ==
    ASSUME Ind, NEW z \in Zones
    PROVE  Books!Sum(z) = Balance(z)
BY TokensAgree, BooksAreTheLedger DEF Books!Sum, Balance

LEMMA SumsAgreeNext ==
    ASSUME NEW z \in Zones
    PROVE  Ind' => (Books!Sum(z) = Balance(z))'
<1>1. Ind => Books!Sum(z) = Balance(z)
  BY SumsAgree
<1> QED
  BY <1>1, PTL

\* Nothing a crash, a redelivery, a failed call or a late payment does creates
\* or destroys a seat: what is not in a zone's counter any more is out with an
\* order, and what a negative order has added to it is owed by that order.  Only
\* a warm-up changes the sum.
THEOREM SeatsAreConserved == Spec => SeatsConserved
<1>1. Ind /\ Ind' /\ [Books!BalancedStep]_(Books!ledgerVars) => [SeatsConservedStep]_vars
  <2> SUFFICES ASSUME Ind, Ind', [Books!BalancedStep]_(Books!ledgerVars),
                      NEW z \in Zones, warmups'[z] = warmups[z]
               PROVE  Balance(z)' = Balance(z)
    BY DEF SeatsConservedStep
  <2>1. Books!Sum(z)' = Books!Sum(z)
    <3>1. CASE Books!BalancedStep
      BY <3>1 DEF Books!BalancedStep
    <3>2. CASE UNCHANGED Books!ledgerVars
      BY <3>2, Books!SumStutters
    <3> QED
      BY <3>1, <3>2
  <2> QED
    BY <2>1, SumsAgree, SumsAgreeNext
<1> QED
  BY <1>1, Inductive, PipelineBalanced, PTL DEF Books!Balanced, SeatsConserved

\* The paid orders of a zone never hold more seats than its warm-ups have put on
\* sale and negative reservations have added.  For a zone warmed up once, where
\* nobody reserves less than nothing, that is README.md's zero overselling.
THEOREM NeverOversold == Spec => []NoOverselling
<1>1. Ind /\ Books!Audited => NoOverselling
  <2> SUFFICES ASSUME Ind, Books!Audited, NEW z \in Zones
               PROVE  Cardinality(SeatsSold(z)) <= supplied[z] + Cardinality(SeatsAdded(z))
    BY DEF NoOverselling
  <2>1. /\ Books!Countable(z)
        /\ Books!Cardinality(Books!SeatsTaken(z)) <= supplied[z] + Books!Cardinality(Books!SeatsAdded(z))
    BY DEF Books!Audited, Books!Ever
  <2>2. /\ IsFiniteSet(SeatsOut(z)) /\ IsFiniteSet(SeatsAdded(z))
        /\ Cardinality(SeatsOut(z)) <= supplied[z] + Cardinality(SeatsAdded(z))
    BY <2>1, TokensAgree, BooksAreTheLedger DEF Books!Countable
  <2>3. SeatsSold(z) \subseteq SeatsOut(z)
    BY DEF SeatsSold, SeatsOut, Standing, Paid, Ind, Traced, OrdersAreReserved, ReturnedForGood
  <2>4. /\ Cardinality(SeatsSold(z)) \in Nat /\ Cardinality(SeatsOut(z)) \in Nat
        /\ Cardinality(SeatsAdded(z)) \in Nat
        /\ Cardinality(SeatsSold(z)) <= Cardinality(SeatsOut(z))
    BY <2>2, <2>3, FS_Subset, FS_CardinalityType
  <2>5. supplied[z] \in Nat
    BY DEF Ind, TypeOK, StoreTypeOK
  <2> QED
    BY <2>2, <2>4, <2>5
<1> QED
  BY <1>1, Inductive, PipelineAudited, PTL

-----------------------------------------------------------------------------
\* Requests touch neither rows, timers nor the order.paid topic.
LEMMA RequestsSpareOrders ==
    ASSUME ReservationNext
    PROVE  UNCHANGED <<timer, status, paid, phase>>
<1>1. ASSUME NEW o \in OrderIds, NEW s \in Servers, NEW z \in Zones, NEW q \in Quantities,
             NEW u \in Users, Reserve(o, s, z, q, u) \/ Refuse(o, s, z, q, u)
      PROVE  UNCHANGED <<timer, status, paid, phase>>
  BY <1>1 DEF Reserve, Refuse, keyVars
<1>2. ASSUME NEW o \in OrderIds, LeaveQueue(o) \/ Publish(o) \/ Answer(o)
      PROVE  UNCHANGED <<timer, status, paid, phase>>
  BY <1>2 DEF LeaveQueue, Publish, Answer, keyVars
<1>3. ASSUME NEW z \in Zones, NEW n \in Stocks, Warmup(z, n)
      PROVE  UNCHANGED <<timer, status, paid, phase>>
  BY <1>3 DEF Warmup, keyVars
<1>4. ASSUME NEW u \in Users, JoinQueue(u)
      PROVE  UNCHANGED <<timer, status, paid, phase>>
  BY <1>4 DEF JoinQueue, keyVars
<1> QED
  BY <1>1, <1>2, <1>3, <1>4 DEF ReservationNext

-----------------------------------------------------------------------------
\* The life of a row.

\* A guarded UPDATE along one of the lifecycle's edges.
LEMMA UpdateMoves ==
    ASSUME TypeOK, NEW o \in OrderIds, NEW a, NEW b, <<a, b>> \in StatusMoves,
           UpdateWhere(o, a, b)
    PROVE  LifecycleStep
<1>1. \A p \in OrderIds : status'[p] # status[p] => p = o /\ status[p] = a /\ status'[p] = b
  BY DEF TypeOK, StoreTypeOK, UpdateWhere
<1> QED
  BY <1>1 DEF LifecycleStep

LEMMA StepMoves == TypeOK /\ [Next]_vars => LifecycleStep
<1> SUFFICES ASSUME TypeOK, [Next]_vars PROVE LifecycleStep
  OBVIOUS
<1>0. CASE status' = status
  BY <1>0 DEF LifecycleStep
<1>1. CASE ReservationNext /\ RequestFrame
  BY <1>0, <1>1, RequestsSpareOrders
<1>2. CASE WorkerNext /\ WorkerFrame
  <2>1. ASSUME NEW s \in Servers, Persist(s), InsertOrder(wmsg[s])
        PROVE  LifecycleStep
    BY <2>1
    DEF TypeOK, StoreTypeOK, WorkerTypeOK, Persist, InsertOrder, LifecycleStep, StatusMoves
  <2> QED
    BY <1>0, <1>2, <2>1 DEF WorkerNext, Commit, Assign, Rebalance, Read, Persist, Arm
<1>3. CASE ExpiryNext /\ ExpiryFrame
  <2>1. ASSUME NEW o \in OrderIds, UpdateWhere(o, "PENDING", "CANCELLED")
        PROVE  LifecycleStep
    BY <2>1, UpdateMoves DEF StatusMoves
  <2> QED
    BY <1>0, <1>3, <2>1
    DEF ExpiryNext, OrderTimerLapses, CancelIfPending, RestoreStock, HoldLapses
<1>4. CASE PaymentNext /\ PaymentFrame
  <2>1. ASSUME NEW o \in OrderIds, UpdateWhere(o, "PENDING", "COMPLETED")
        PROVE  LifecycleStep
    BY <2>1, UpdateMoves DEF StatusMoves
  <2>2. ASSUME NEW o \in OrderIds, UpdateWhere(o, "COMPLETED", "CHECKED_IN")
        PROVE  LifecycleStep
    BY <2>2, UpdateMoves DEF StatusMoves
  <2> QED
    BY <1>0, <1>4, <2>1, <2>2
    DEF PaymentNext, CheckPayable, IssueCharge, VerifyAndCheckInTicket, MarkPaid, ReadBack,
        ClearTimer, PublishPaid
<1>5. CASE \E s \in Servers : Shutdown(s) \/ Exit(s) \/ Crash(s) \/ Restart(s)
  BY <1>0, <1>5 DEF Shutdown, Exit, Crash, Restart
<1>6. CASE UNCHANGED vars
  BY <1>0, <1>6 DEF vars
<1> QED
  BY <1>1, <1>2, <1>3, <1>4, <1>5, <1>6 DEF Next

\* An order row moves only from PENDING to paid to checked in, or to
\* CANCELLED, whoever of webhook, expiry, gate and redelivery gets there first.
THEOREM RowsKeepLifecycle == Spec => Lifecycle
<1>1. TypeOK /\ [Next]_vars => [LifecycleStep]_vars
  BY StepMoves
<1> QED
  BY <1>1, Typing, PTL DEF Spec, Lifecycle

-----------------------------------------------------------------------------
\* What is announced as paid.

\* A confirmation that has read COMPLETED works for a paid order from then on.
ConfirmedIsPaid ==
    \A c \in Calls : cpc[c] \in {"clear", "publish"} => call[c].order \in Paid

Announced == ConfirmedIsPaid /\ AnnouncedOrdersArePaid

\* No row leaves the paid states.
LEMMA PaidGrows == TypeOK /\ [Next]_vars => Paid \subseteq Paid'
BY StepMoves DEF LifecycleStep, StatusMoves, Paid

LEMMA AnnouncedFrame ==
    ASSUME Announced, Paid \subseteq Paid', UNCHANGED <<paid, cpc, call>>
    PROVE  Announced'
BY DEF Announced, ConfirmedIsPaid, AnnouncedOrdersArePaid

LEMMA AnnouncedStep ==
    ASSUME TypeOK, Announced, [Next]_vars
    PROVE  Announced'
<1>0. Paid \subseteq Paid'
  BY PaidGrows
<1>1. CASE UNCHANGED <<paid, cpc, call>>
  BY <1>0, <1>1, AnnouncedFrame
<1>2. ASSUME NEW c \in Calls, NEW o \in OrderIds, NEW s \in Servers, MarkPaid(c, o, s)
      PROVE  Announced'
  <2>1. \A d \in Calls : cpc'[d] \in {"clear", "publish"} => cpc'[d] = cpc[d] /\ call'[d] = call[d]
    BY <1>2 DEF TypeOK, PaymentTypeOK, MarkPaid, EndCall
  <2> QED
    BY <1>0, <1>2, <2>1 DEF Announced, ConfirmedIsPaid, AnnouncedOrdersArePaid, MarkPaid
<1>3. ASSUME NEW c \in Calls, ReadBack(c)
      PROVE  Announced'
  <2>1. \A d \in Calls : cpc'[d] \in {"clear", "publish"} =>
           /\ call'[d] = call[d]
           /\ cpc'[d] = cpc[d] \/ status[call[d].order] = "COMPLETED"
    BY <1>3 DEF TypeOK, PaymentTypeOK, ReadBack, EndCall
  <2>2. \A d \in Calls : cpc'[d] \in {"clear", "publish"} => call[d] \in CallRecord
    BY <1>3 DEF TypeOK, PaymentTypeOK, ReadBack, EndCall
  <2>3. ConfirmedIsPaid'
    BY <1>0, <2>1, <2>2 DEF Announced, ConfirmedIsPaid, CallRecord, Paid
  <2> QED
    BY <1>0, <1>3, <2>3 DEF Announced, AnnouncedOrdersArePaid, ReadBack
<1>4. ASSUME NEW c \in Calls, ClearTimer(c)
      PROVE  Announced'
  BY <1>0, <1>4
  DEF TypeOK, PaymentTypeOK, Announced, ConfirmedIsPaid, AnnouncedOrdersArePaid, ClearTimer
<1>5. ASSUME NEW c \in Calls, PublishPaid(c)
      PROVE  Announced'
  <2>1. paid \in Seq(OrderIds) /\ Len(paid) \in Nat /\ call[c].order \in OrderIds \cap Paid
    BY <1>5
    DEF TypeOK, StoreTypeOK, PaymentTypeOK, CallRecord, PublishPaid, Announced, ConfirmedIsPaid
  <2>2. \A i \in 1..Len(paid') :
           (i \in 1..Len(paid) /\ paid'[i] = paid[i]) \/ paid'[i] = call[c].order
    <3>1. CASE paid' = paid
      BY <2>1, <3>1
    <3>2. CASE paid' = Append(paid, call[c].order)
      BY <2>1, <3>2
    <3>3. CASE paid' = paid \o <<call[c].order, call[c].order>>
      BY <2>1, <3>3
    <3> QED
      BY <1>5, <3>1, <3>2, <3>3 DEF PublishPaid
  <2>3. AnnouncedOrdersArePaid'
    BY <1>0, <2>1, <2>2 DEF Announced, AnnouncedOrdersArePaid
  <2>4. ConfirmedIsPaid'
    <3>1. \A d \in Calls : cpc'[d] \in {"clear", "publish"} =>
             cpc'[d] = cpc[d] /\ call'[d] = call[d]
      BY <1>5 DEF TypeOK, PaymentTypeOK, PublishPaid, EndCall
    <3> QED
      BY <1>0, <3>1 DEF Announced, ConfirmedIsPaid
  <2> QED
    BY <2>3, <2>4 DEF Announced
<1>6. ASSUME NEW s \in Servers, Crash(s)
      PROVE  Announced'
  <2>1. \A d \in Calls : cpc'[d] \in {"clear", "publish"} => cpc'[d] = cpc[d] /\ call'[d] = call[d]
    BY <1>6 DEF Crash, AbortCalls
  <2> QED
    BY <1>0, <1>6, <2>1 DEF Announced, ConfirmedIsPaid, AnnouncedOrdersArePaid, Crash
<1>7. CASE ReservationNext /\ RequestFrame
  BY <1>1, <1>7, RequestsSpareOrders DEF RequestFrame, paymentVars
<1>8. CASE WorkerNext /\ WorkerFrame
  BY <1>1, <1>8 DEF WorkerNext, Commit, Assign, Rebalance, Read, Persist, Arm, WorkerFrame,
                    paymentVars
<1>9. CASE ExpiryNext /\ ExpiryFrame
  BY <1>1, <1>9 DEF ExpiryNext, OrderTimerLapses, CancelIfPending, RestoreStock, HoldLapses,
                    ExpiryFrame, paymentVars
<1>10. CASE PaymentNext /\ PaymentFrame
  <2>1. ASSUME NEW o \in OrderIds,
               CheckPayable(o) \/ IssueCharge(o) \/ VerifyAndCheckInTicket(o)
        PROVE  Announced'
    BY <1>1, <2>1 DEF CheckPayable, IssueCharge, VerifyAndCheckInTicket, paymentVars
  <2> QED
    BY <1>2, <1>3, <1>4, <1>5, <1>10, <2>1 DEF PaymentNext
<1>11. ASSUME NEW s \in Servers, Shutdown(s) \/ Exit(s) \/ Restart(s)
       PROVE  Announced'
  BY <1>1, <1>11 DEF Shutdown, Exit, Restart, paymentVars
<1>12. CASE UNCHANGED vars
  BY <1>1, <1>12 DEF vars, paymentVars
<1> QED
  BY <1>6, <1>7, <1>8, <1>9, <1>10, <1>11, <1>12 DEF Next

\* An ORDER_PAID message names an order that is paid and stays paid, however
\* many confirmations overlap with each other, the expiry and a crash.
THEOREM AnnouncementsAreTrue == Spec => []AnnouncedOrdersArePaid
<1>1. Init => Announced
  BY DEF Init, StoreInit, PaymentInit, Announced, ConfirmedIsPaid, AnnouncedOrdersArePaid
<1>2. TypeOK /\ Announced /\ [Next]_vars => Announced'
  BY AnnouncedStep
<1>3. Announced => AnnouncedOrdersArePaid
  BY DEF Announced
<1> QED
  BY <1>1, <1>2, <1>3, Typing, PTL DEF Spec

-----------------------------------------------------------------------------
\* What is timed.

Live == {"PENDING", "COMPLETED", "CHECKED_IN"}

Arming(s, o) == wpc[s] = "arm" /\ wmsg[s] = o

\* An order is armed once in its life, by the one worker that inserted its
\* row: while its timer runs or is about to, nobody handles its expiry, and
\* before the row there is none of this.
TimedOnce ==
    \A o \in OrderIds :
        /\ o \in timer =>
              /\ status[o] \in Live
              /\ \A s \in Servers : ~Arming(s, o) /\ epc[s][o] = "idle"
        /\ \A s \in Servers : Arming(s, o) =>
              /\ status[o] \in Live
              /\ \A t \in Servers : (Arming(t, o) => t = s) /\ epc[t][o] = "idle"
        /\ status[o] = "none" => \A s \in Servers : epc[s][o] = "idle"

\* Nothing of this is lost when timers and workers only stop, and live orders
\* stay live.
LEMMA TimedFrame ==
    ASSUME TypeOK, TimedOnce, timer' \subseteq timer,
           \A o \in OrderIds : status[o] \in Live => status'[o] \in Live,
           \A o \in OrderIds : status'[o] = "none" => status[o] = "none",
           \A s \in Servers, o \in OrderIds :
              /\ (wpc'[s] = "arm" /\ wmsg'[s] = o) => Arming(s, o)
              /\ epc[s][o] = "idle" => epc'[s][o] = "idle"
    PROVE  TimedOnce'
BY DEF TimedOnce, Arming

LEMMA LiveStays ==
    ASSUME TypeOK, LifecycleStep,
           \A o \in OrderIds : status[o] = "PENDING" => status'[o] # "CANCELLED"
    PROVE  /\ \A o \in OrderIds : status[o] \in Live => status'[o] \in Live
           /\ \A o \in OrderIds : status'[o] = "none" => status[o] = "none"
BY DEF TypeOK, StoreTypeOK, LifecycleStep, StatusMoves, Live, Status

LEMMA PersistTimed ==
    ASSUME TypeOK, TimedOnce, NEW s \in Servers, Persist(s), WorkerFrame
    PROVE  TimedOnce'
<1>1. PICK o \in OrderIds : o = wmsg[s]
  BY DEF TypeOK, WorkerTypeOK, Persist
<1>2. UNCHANGED <<timer, epc>>
  BY DEF Persist, WorkerFrame, keyVars, expiryVars
<1>3. CASE status' = status /\ wpc' = [wpc EXCEPT ![s] = "idle"]
  <2>1. \A t \in Servers, p \in OrderIds : (wpc'[t] = "arm" /\ wmsg'[t] = p) => Arming(t, p)
    BY <1>3 DEF TypeOK, WorkerTypeOK, Persist, GoIdle, Arming
  <2> QED
    BY <1>2, <1>3, <2>1, TimedFrame
<1>4. CASE InsertOrder(o)
  <2>1. /\ status[o] = "none" /\ status' = [status EXCEPT ![o] = "PENDING"]
        /\ o \notin timer /\ \A t \in Servers : ~Arming(t, o) /\ epc[t][o] = "idle"
    BY <1>4 DEF InsertOrder, TimedOnce, Live
  <2>2. \A t \in Servers, p \in OrderIds :
           (wpc'[t] = "arm" /\ wmsg'[t] = p) => Arming(t, p) \/ (t = s /\ p = o)
    BY <1>1 DEF TypeOK, WorkerTypeOK, Persist, GoIdle, Arming
  <2>3. \A p \in OrderIds \ {o} : status'[p] = status[p]
    BY <2>1 DEF TypeOK, StoreTypeOK
  <2>4. status'[o] = "PENDING"
    BY <2>1 DEF TypeOK, StoreTypeOK
  <2> QED
    BY <1>2, <2>1, <2>2, <2>3, <2>4 DEF TimedOnce, Arming, Live
<1> QED
  BY <1>1, <1>3, <1>4 DEF Persist, GoIdle

LEMMA ArmTimed ==
    ASSUME TypeOK, TimedOnce, NEW s \in Servers, Arm(s), WorkerFrame
    PROVE  TimedOnce'
<1>1. PICK o \in OrderIds : o = wmsg[s]
  BY DEF TypeOK, WorkerTypeOK, Arm
<1>2. Arming(s, o)
  BY <1>1 DEF Arm, Arming
<1>3. UNCHANGED <<status, epc>> /\ timer' \in {timer, timer \cup {o}}
  BY <1>1 DEF Arm, SetOrderExpiry, WorkerFrame, expiryVars
<1>4. \A t \in Servers, p \in OrderIds :
         (wpc'[t] = "arm" /\ wmsg'[t] = p) => Arming(t, p) /\ t # s
  BY DEF TypeOK, WorkerTypeOK, Arm, GoIdle, Arming
<1>5. /\ status[o] \in Live
      /\ \A t \in Servers : (Arming(t, o) => t = s) /\ epc[t][o] = "idle"
  BY <1>2 DEF TimedOnce
<1> QED
  BY <1>3, <1>4, <1>5 DEF TimedOnce, Arming

LEMMA ExpiryTimed ==
    ASSUME TypeOK, TimedOnce, ExpiryNext, ExpiryFrame
    PROVE  TimedOnce'
<1>1. UNCHANGED <<wpc, wmsg>>
  BY DEF ExpiryFrame, workerVars
<1>2. ASSUME NEW o \in OrderIds, NEW S \in SUBSET Servers, OrderTimerLapses(o, S)
      PROVE  TimedOnce'
  <2>1. /\ status[o] \in Live /\ o \notin timer'
        /\ \A s \in Servers : ~Arming(s, o)
        /\ timer' = timer \ {o} /\ status' = status
    BY <1>2 DEF OrderTimerLapses, TimedOnce
  <2>2. \A s \in Servers, p \in OrderIds \ {o} : epc'[s][p] = epc[s][p]
    BY <1>2 DEF TypeOK, ExpiryTypeOK, OrderTimerLapses
  <2> QED
    BY <1>1, <2>1, <2>2 DEF TimedOnce, Arming, Live
<1>3. ASSUME NEW s \in Servers, NEW o \in OrderIds, CancelIfPending(s, o)
      PROVE  TimedOnce'
  <2>1. /\ timer' = timer /\ status[o] # "none"
        /\ o \notin timer /\ \A t \in Servers : ~Arming(t, o)
    BY <1>3 DEF CancelIfPending, keyVars, TimedOnce
  <2>2. \A t \in Servers, p \in OrderIds \ {o} : epc'[t][p] = epc[t][p]
    BY <1>3 DEF TypeOK, ExpiryTypeOK, CancelIfPending
  <2>3. status'[o] # "none" /\ \A p \in OrderIds \ {o} : status'[p] = status[p]
    BY <1>3, <2>1 DEF TypeOK, StoreTypeOK, CancelIfPending, UpdateWhere
  <2> QED
    BY <1>1, <2>1, <2>2, <2>3 DEF TimedOnce, Arming
<1>4. ASSUME NEW s \in Servers, NEW o \in OrderIds, RestoreStock(s, o)
      PROVE  TimedOnce'
  <2>1. \A t \in Servers, p \in OrderIds : epc[t][p] = "idle" => epc'[t][p] = "idle"
    BY <1>4 DEF TypeOK, ExpiryTypeOK, RestoreStock
  <2>2. UNCHANGED <<timer, status>>
    BY <1>4 DEF RestoreStock, keyVars
  <2> QED
    BY <1>1, <2>1, <2>2, TimedFrame DEF Arming
<1>5. ASSUME NEW k \in hold, NEW S \in SUBSET Servers, HoldLapses(k, S)
      PROVE  TimedOnce'
  BY <1>1, <1>5, TimedFrame DEF HoldLapses, expiryVars, Arming
<1> QED
  BY <1>2, <1>3, <1>4, <1>5 DEF ExpiryNext

LEMMA PaymentTimed ==
    ASSUME TypeOK, TimedOnce, PaymentNext, PaymentFrame, LifecycleStep
    PROVE  TimedOnce'
<1>1. UNCHANGED <<wpc, wmsg, epc>>
  BY DEF PaymentFrame, workerVars, expiryVars
<1>2. timer' \subseteq timer
  BY DEF PaymentNext, CheckPayable, IssueCharge, VerifyAndCheckInTicket, MarkPaid, ReadBack,
         ClearTimer, PublishPaid, ClearOrderExpiry, keyVars
<1>3. \A o \in OrderIds : status'[o] = "CANCELLED" => status[o] = "CANCELLED"
  <2>1. CASE status' = status
    BY <2>1
  <2>2. CASE \E o \in OrderIds : \/ UpdateWhere(o, "PENDING", "COMPLETED")
                                 \/ UpdateWhere(o, "COMPLETED", "CHECKED_IN")
    BY <2>2 DEF TypeOK, StoreTypeOK, UpdateWhere
  <2> QED
    BY <2>1, <2>2
    DEF PaymentNext, CheckPayable, IssueCharge, VerifyAndCheckInTicket, MarkPaid, ReadBack,
        ClearTimer, PublishPaid
<1>4. /\ \A o \in OrderIds : status[o] \in Live => status'[o] \in Live
      /\ \A o \in OrderIds : status'[o] = "none" => status[o] = "none"
  BY <1>3, LiveStays
<1> QED
  BY <1>1, <1>2, <1>4, TimedFrame DEF Arming

LEMMA TimedStep ==
    ASSUME TypeOK, TimedOnce, [Next]_vars
    PROVE  TimedOnce'
<1>1. CASE UNCHANGED <<timer, status, wpc, wmsg, epc>>
  BY <1>1 DEF TimedOnce, Arming
<1>2. CASE ReservationNext /\ RequestFrame
  BY <1>1, <1>2, RequestsSpareOrders DEF RequestFrame, workerVars, expiryVars
<1>3. CASE WorkerNext /\ WorkerFrame
  <2>1. ASSUME NEW s \in Servers, Read(s)
        PROVE  TimedOnce'
    <3>1. \A t \in Servers, p \in OrderIds : (wpc'[t] = "arm" /\ wmsg'[t] = p) => Arming(t, p)
      BY <2>1 DEF TypeOK, WorkerTypeOK, Read, workerVars, Arming
    <3>2. UNCHANGED <<timer, status, epc>>
      BY <1>3, <2>1 DEF Read, keyVars, WorkerFrame, expiryVars
    <3> QED
      BY <3>1, <3>2, TimedFrame
  <2>2. ASSUME Commit \/ \E s \in Servers : Assign(s) \/ Rebalance(s)
        PROVE  TimedOnce'
    BY <1>1, <1>3, <2>2
    DEF Commit, Assign, Rebalance, keyVars, workerVars, WorkerFrame, expiryVars
  <2> QED
    BY <1>3, <2>1, <2>2, PersistTimed, ArmTimed DEF WorkerNext
<1>4. CASE ExpiryNext /\ ExpiryFrame
  BY <1>4, ExpiryTimed
<1>5. CASE PaymentNext /\ PaymentFrame
  BY <1>5, PaymentTimed, StepMoves
<1>6. ASSUME NEW s \in Servers, Shutdown(s) \/ Crash(s)
      PROVE  TimedOnce'
  <2>1. /\ \A t \in Servers, p \in OrderIds :
              (wpc'[t] = "arm" /\ wmsg'[t] = p) => Arming(t, p)
        /\ \A t \in Servers, p \in OrderIds : epc[t][p] = "idle" => epc'[t][p] = "idle"
    BY <1>6 DEF TypeOK, WorkerTypeOK, ExpiryTypeOK, Shutdown, Crash, StopWorkers, GoIdle, Arming
  <2>2. UNCHANGED <<timer, status>>
    BY <1>6 DEF Shutdown, Crash, keyVars
  <2> QED
    BY <2>1, <2>2, TimedFrame
<1>7. ASSUME NEW s \in Servers, Exit(s) \/ Restart(s)
      PROVE  TimedOnce'
  BY <1>1, <1>7 DEF Exit, Restart, keyVars, workerVars, expiryVars
<1>8. CASE UNCHANGED vars
  BY <1>1, <1>8 DEF vars, keyVars, workerVars, expiryVars
<1> QED
  BY <1>2, <1>3, <1>4, <1>5, <1>6, <1>7, <1>8 DEF Next

\* A live timer belongs to an order that is not cancelled: however often Kafka
\* delivers its message again, no released order can be charged.
THEOREM ChargesAreForLiveOrders == Spec => []ChargeableOrderIsLive
<1>1. Init => TimedOnce
  BY DEF Init, StoreInit, WorkerInit, ExpiryInit, TimedOnce, Arming
<1>2. TypeOK /\ TimedOnce /\ [Next]_vars => TimedOnce'
  BY TimedStep
<1>3. TypeOK /\ TimedOnce => ChargeableOrderIsLive
  BY DEF TypeOK, StoreTypeOK, TimedOnce, ChargeableOrderIsLive, Live
<1> QED
  BY <1>1, <1>2, <1>3, Typing, PTL DEF Spec
-----------------------------------------------------------------------------
\* No unpaid order is forgotten, while nothing fails.

AllUp == \A s \in Servers : phase[s] = "up"

AllTimed == \A o \in OrderIds : status[o] = "PENDING" => Timed(o)

\* As long as no fault happens every instance stays up and every pending order is timed.
Tended == AllUp /\ AllTimed

LEMMA NoFaultSpent ==
    ASSUME TypeOK, faults' = faults
    PROVE  ~Fault
BY BoundsAssumption DEF TypeOK, StoreTypeOK, Fault

\* A step that creates no pending row and takes nobody's expiry away.
LEMMA TendedFrame ==
    ASSUME Tended, UNCHANGED phase,
           \A o \in OrderIds : status'[o] = "PENDING" =>
              status[o] = "PENDING" /\ (Timed(o) => Timed(o)')
    PROVE  Tended'
BY DEF Tended, AllUp, AllTimed, Timed, Arming

LEMMA WorkerTends ==
    ASSUME TypeOK, Tended, faults' = faults, WorkerNext, WorkerFrame
    PROVE  Tended'
<1>0. UNCHANGED <<epc, phase>>
  BY DEF WorkerFrame, expiryVars, WorkerNext, Commit, Assign, Rebalance, Read, Persist, Arm
<1>1. CASE UNCHANGED <<timer, status, wpc, wmsg>>
  BY <1>0, <1>1 DEF Tended, AllUp, AllTimed, Timed
<1>2. ASSUME NEW s \in Servers, Read(s)
      PROVE  Tended'
  <2>1. \A t \in Servers, o \in OrderIds : Arming(t, o) => Arming(t, o)'
    BY <1>2 DEF TypeOK, WorkerTypeOK, Read, workerVars, Arming
  <2>2. UNCHANGED <<timer, status>>
    BY <1>2 DEF Read, keyVars
  <2> QED
    BY <1>0, <2>1, <2>2, TendedFrame DEF Timed, Arming
<1>3. ASSUME NEW s \in Servers, Persist(s)
      PROVE  Tended'
  <2>1. PICK o \in OrderIds : o = wmsg[s]
    BY <1>3 DEF TypeOK, WorkerTypeOK, Persist
  <2>2. timer' = timer
    BY <1>3 DEF Persist, keyVars
  <2>3. \A t \in Servers, p \in OrderIds : Arming(t, p) => Arming(t, p)'
    BY <1>3 DEF TypeOK, WorkerTypeOK, Persist, GoIdle, Arming
  <2>4. \A p \in OrderIds : Timed(p) => Timed(p)'
    BY <1>0, <2>2, <2>3 DEF Timed, Arming
  <2>5. CASE status' = status
    BY <1>0, <2>4, <2>5, TendedFrame
  <2>6. CASE InsertOrder(o) /\ wpc' = [wpc EXCEPT ![s] = "arm"] /\ UNCHANGED wmsg
    <3>1. Timed(o)'
      BY <2>1, <2>6 DEF TypeOK, WorkerTypeOK, Timed, Arming
    <3>2. \A p \in OrderIds \ {o} : status'[p] = status[p]
      BY <2>6 DEF TypeOK, StoreTypeOK, InsertOrder
    <3> QED
      BY <1>0, <2>4, <3>1, <3>2 DEF Tended, AllUp, AllTimed, Timed, Arming
  <2> QED
    BY <1>3, <2>1, <2>5, <2>6, NoFaultSpent DEF Persist
<1>4. ASSUME NEW s \in Servers, Arm(s)
      PROVE  Tended'
  <2>1. timer' = timer \cup {wmsg[s]} /\ status' = status
    BY <1>4, NoFaultSpent DEF Arm, SetOrderExpiry
  <2>2. \A t \in Servers, p \in OrderIds : Arming(t, p) => Arming(t, p)' \/ p = wmsg[s]
    BY <1>4 DEF TypeOK, WorkerTypeOK, Arm, GoIdle, Arming
  <2>3. \A p \in OrderIds : Timed(p) => Timed(p)'
    BY <1>0, <2>1, <2>2 DEF Timed, Arming
  <2> QED
    BY <1>0, <2>1, <2>3, TendedFrame
<1>5. ASSUME Commit \/ \E s \in Servers : Assign(s) \/ Rebalance(s)
      PROVE  Tended'
  BY <1>1, <1>5 DEF Commit, Assign, Rebalance, keyVars, workerVars
<1> QED
  BY <1>2, <1>3, <1>4, <1>5 DEF WorkerNext

\* An expiry reaches every instance, so at least one; whoever handles it
\* leaves no pending row.
LEMMA ExpiryTends ==
    ASSUME TypeOK, Tended, faults' = faults, Servers # {}, ExpiryNext, ExpiryFrame
    PROVE  Tended'
<1>0. UNCHANGED <<wpc, wmsg, phase>>
  BY DEF ExpiryFrame, workerVars, ExpiryNext, OrderTimerLapses, CancelIfPending, RestoreStock,
         HoldLapses
<1>1. ASSUME NEW o \in OrderIds, NEW S \in SUBSET Servers, OrderTimerLapses(o, S)
      PROVE  Tended'
  <2>1. S = Servers
    BY <1>1, NoFaultSpent
    DEF OrderTimerLapses, Delivered, Listening, Working, Tended, AllUp
  <2>2. \A s \in Servers, p \in OrderIds :
           epc'[s][p] = IF p = o THEN "cancel" ELSE epc[s][p]
    BY <1>1, <2>1 DEF TypeOK, ExpiryTypeOK, OrderTimerLapses
  <2>3. timer' = timer \ {o} /\ status' = status
    BY <1>1 DEF OrderTimerLapses
  <2>4. \A p \in OrderIds : Timed(p) => Timed(p)'
    BY <1>0, <2>2, <2>3 DEF Timed, Arming
  <2> QED
    BY <1>0, <2>3, <2>4, TendedFrame
<1>2. ASSUME NEW s \in Servers, NEW o \in OrderIds, CancelIfPending(s, o)
      PROVE  Tended'
  <2>1. timer' = timer /\ UpdateWhere(o, "PENDING", "CANCELLED")
    BY <1>2, NoFaultSpent DEF CancelIfPending, keyVars
  <2>2. status'[o] # "PENDING" /\ \A p \in OrderIds \ {o} : status'[p] = status[p]
    BY <2>1 DEF TypeOK, StoreTypeOK, UpdateWhere
  <2>3. \A t \in Servers, p \in OrderIds \ {o} : epc'[t][p] = epc[t][p]
    BY <1>2 DEF TypeOK, ExpiryTypeOK, CancelIfPending
  <2>4. \A p \in OrderIds \ {o} : Timed(p) => Timed(p)'
    BY <1>0, <2>1, <2>3 DEF Timed, Arming
  <2> QED
    BY <1>0, <2>2, <2>4, TendedFrame
<1>3. ASSUME NEW s \in Servers, NEW o \in OrderIds, RestoreStock(s, o)
      PROVE  Tended'
  <2>1. \A t \in Servers, p \in OrderIds : epc[t][p] = "cancel" => epc'[t][p] = "cancel"
    BY <1>3 DEF TypeOK, ExpiryTypeOK, RestoreStock
  <2>2. UNCHANGED <<timer, status>>
    BY <1>3 DEF RestoreStock, keyVars
  <2> QED
    BY <1>0, <2>1, <2>2, TendedFrame DEF Timed, Arming
<1>4. ASSUME NEW k \in hold, NEW S \in SUBSET Servers, HoldLapses(k, S)
      PROVE  Tended'
  BY <1>0, <1>4, TendedFrame DEF HoldLapses, expiryVars, Timed, Arming
<1> QED
  BY <1>1, <1>2, <1>3, <1>4 DEF ExpiryNext

\* A confirmation clears the timer of an order that is paid already.
LEMMA PaymentTends ==
    ASSUME TypeOK, Announced, Tended, PaymentNext, PaymentFrame
    PROVE  Tended'
<1>0. UNCHANGED <<wpc, wmsg, epc, phase>>
  BY DEF PaymentFrame, workerVars, expiryVars, PaymentNext, CheckPayable, IssueCharge,
         VerifyAndCheckInTicket, MarkPaid, ReadBack, ClearTimer, PublishPaid
<1>1. ASSUME NEW c \in Calls, ClearTimer(c)
      PROVE  Tended'
  <2>1. call[c].order \in Paid /\ status' = status
    BY <1>1 DEF ClearTimer, Announced, ConfirmedIsPaid
  <2>2. \A o \in OrderIds : status[o] = "PENDING" /\ o \in timer => o \in timer'
    BY <1>1, <2>1 DEF ClearTimer, ClearOrderExpiry, Paid
  <2>3. \A o \in OrderIds : status[o] = "PENDING" /\ Timed(o) => Timed(o)'
    BY <1>0, <2>2 DEF Timed, Arming
  <2> QED
    BY <1>0, <2>1, <2>3, TendedFrame
<1>2. CASE ~\E c \in Calls : ClearTimer(c)
  <2>1. timer' = timer
    BY <1>2 DEF PaymentNext, CheckPayable, IssueCharge, VerifyAndCheckInTicket, MarkPaid,
                ReadBack, PublishPaid, keyVars
  <2>2. CASE status' = status
    BY <1>0, <2>1, <2>2, TendedFrame DEF Timed, Arming
  <2>3. CASE \E o \in OrderIds : \/ UpdateWhere(o, "PENDING", "COMPLETED")
                                 \/ UpdateWhere(o, "COMPLETED", "CHECKED_IN")
    <3>1. \A o \in OrderIds : status'[o] = "PENDING" => status[o] = "PENDING"
      BY <2>3 DEF TypeOK, StoreTypeOK, UpdateWhere
    <3> QED
      BY <1>0, <2>1, <3>1, TendedFrame DEF Timed, Arming
  <2> QED
    BY <1>2, <2>2, <2>3
    DEF PaymentNext, CheckPayable, IssueCharge, VerifyAndCheckInTicket, MarkPaid, ReadBack,
        PublishPaid
<1> QED
  BY <1>1, <1>2

LEMMA TendedStep ==
    ASSUME TypeOK, Announced, Tended, faults' = faults, Servers # {}, [Next]_vars
    PROVE  Tended'
<1>1. CASE UNCHANGED <<timer, status, wpc, wmsg, epc, phase>>
  BY <1>1 DEF Tended, AllUp, AllTimed, Timed
<1>2. CASE ReservationNext /\ RequestFrame
  BY <1>1, <1>2, RequestsSpareOrders DEF RequestFrame, workerVars, expiryVars
<1>3. CASE \E s \in Servers : Shutdown(s) \/ Exit(s) \/ Crash(s) \/ Restart(s)
  BY <1>3, NoFaultSpent DEF Shutdown, Exit, Crash, Restart, Tended, AllUp
<1>4. CASE UNCHANGED vars
  BY <1>1, <1>4 DEF vars, keyVars, workerVars, expiryVars
<1> QED
  BY <1>2, <1>3, <1>4, WorkerTends, ExpiryTends, PaymentTends DEF Next

\* Faults are spent and never come back.
LEMMA FaultsFall ==
    ASSUME TypeOK, [Next]_vars
    PROVE  faults' = faults \/ faults' < MaxFaults
<1>0. faults \in 0..MaxFaults /\ (NoFault \/ Fault => faults' = faults \/ faults' < MaxFaults)
  BY BoundsAssumption DEF TypeOK, StoreTypeOK, NoFault, Fault
<1>1. CASE ReservationNext
  <2>1. ASSUME NEW o \in OrderIds, NEW s \in Servers, NEW z \in Zones, NEW q \in Quantities,
               NEW u \in Users, Reserve(o, s, z, q, u) \/ Refuse(o, s, z, q, u)
        PROVE  faults' = faults \/ faults' < MaxFaults
    BY <1>0, <2>1 DEF Reserve, Refuse
  <2>2. ASSUME NEW o \in OrderIds, LeaveQueue(o) \/ Publish(o) \/ Answer(o)
        PROVE  faults' = faults \/ faults' < MaxFaults
    BY <1>0, <2>2 DEF LeaveQueue, Publish, Answer
  <2> QED
    BY <1>1, <2>1, <2>2 DEF ReservationNext, Warmup, JoinQueue
<1>2. CASE WorkerNext
  BY <1>0, <1>2 DEF WorkerNext, Commit, Assign, Rebalance, Read, Persist, Arm
<1>3. CASE ExpiryNext
  BY <1>0, <1>3
  DEF ExpiryNext, OrderTimerLapses, CancelIfPending, RestoreStock, HoldLapses, Delivered
<1>4. CASE PaymentNext
  BY <1>0, <1>4
  DEF PaymentNext, CheckPayable, IssueCharge, VerifyAndCheckInTicket, MarkPaid, ReadBack,
      ClearTimer, PublishPaid
<1>5. CASE \E s \in Servers : Shutdown(s) \/ Exit(s) \/ Crash(s) \/ Restart(s)
  BY <1>0, <1>5 DEF Shutdown, Exit, Crash, Restart
<1>6. CASE UNCHANGED vars
  BY <1>6 DEF vars
<1> QED
  BY <1>1, <1>2, <1>3, <1>4, <1>5, <1>6 DEF Next

TendedSoFar == faults = MaxFaults => Tended

LEMMA TendedSoFarStep ==
    ASSUME TypeOK, Announced, TendedSoFar, Servers # {}, [Next]_vars
    PROVE  TendedSoFar'
<1> SUFFICES ASSUME faults' = MaxFaults PROVE Tended'
  BY DEF TendedSoFar
<1>1. faults' = faults /\ Tended
  BY FaultsFall, BoundsAssumption DEF TendedSoFar
<1> QED
  BY <1>1, TendedStep

\* As long as no call has failed no unpaid order is forgotten: however often the
\* topic moves and its messages come again, its expiry runs or is being handled.
THEOREM PendingOrdersAreTimed ==
    ASSUME Servers # {}
    PROVE  Spec => []PendingIsTimed
<1>1. Init => Announced /\ TendedSoFar
  BY DEF Init, StoreInit, PaymentInit, Announced, ConfirmedIsPaid, AnnouncedOrdersArePaid,
         TendedSoFar, Tended, AllUp, AllTimed
<1>2. TypeOK /\ Announced /\ [Next]_vars => Announced'
  BY AnnouncedStep
<1>3. TypeOK /\ Announced /\ TendedSoFar /\ [Next]_vars => TendedSoFar'
  BY TendedSoFarStep
<1>4. TendedSoFar => PendingIsTimed
  BY DEF TendedSoFar, Tended, AllTimed, PendingIsTimed
<1> QED
  BY <1>1, <1>2, <1>3, <1>4, Typing, PTL DEF Spec

-----------------------------------------------------------------------------
\* No seats are forgotten.  Before its row exists an order is carried towards
\* it; once it is cancelled its seats are returned, or about to be.

Carried(o) ==
    \/ rpc[o] \in {"reserved", "dequeued"}
    \/ \E i \in (next + 1)..Len(log) : log[i] = o
    \/ \E s \in Servers : wpc[s] = "persist" /\ wmsg[s] = o

Returning(o) == o \in returned \/ \E s \in Servers : epc[s][o] = "restore"

Attended ==
    \A o \in Taken : req[o].qty # 0 =>
        /\ status[o] = "none" => Carried(o)
        /\ status[o] = "CANCELLED" => Returning(o)

\* A step that takes no seats, and drops no order that needs attention.
LEMMA AttendedFrame ==
    ASSUME Attended, Taken' = Taken, req' = req,
           ASSUME NEW o \in Taken, req[o].qty # 0
           PROVE  /\ status'[o] = "none" =>
                        status[o] = "none" /\ (Carried(o) => Carried(o)')
                  /\ status'[o] = "CANCELLED" /\ status[o] # "CANCELLED" => Returning(o)'
                  /\ Returning(o) => Returning(o)'
    PROVE  Attended'
BY DEF Attended

LEMMA RequestAttended ==
    ASSUME Ind, Attended, faults' = faults, ReservationNext, RequestFrame
    PROVE  Attended'
<1>0. /\ UNCHANGED <<next, status, wpc, wmsg, epc, returned>>
      /\ \A o \in OrderIds : Returning(o)' = Returning(o)
  <2>1. next' = next
    <3>1. ASSUME NEW o \in OrderIds, NEW s \in Servers, NEW z \in Zones, NEW q \in Quantities,
                 NEW u \in Users, Reserve(o, s, z, q, u) \/ Refuse(o, s, z, q, u)
          PROVE  next' = next
      BY <3>1 DEF Reserve, Refuse, topicVars
    <3>2. ASSUME NEW o \in OrderIds, LeaveQueue(o) \/ Publish(o) \/ Answer(o)
          PROVE  next' = next
      BY <3>2 DEF LeaveQueue, Publish, Answer, topicVars
    <3> QED
      BY <3>1, <3>2 DEF ReservationNext, Warmup, JoinQueue, topicVars
  <2> QED
    BY <2>1, RequestsSpareOrders DEF RequestFrame, workerVars, expiryVars, Returning
<1>1. log \in Seq(OrderIds \cup {PreWarm}) /\ Len(log) \in Nat /\ next \in Nat /\ next <= Len(log)
  BY DEF Ind, TypeOK, StoreTypeOK
<1>2. CASE Taken' = Taken /\ req' = req /\ UNCHANGED log /\
           \A p \in OrderIds : rpc[p] \in {"reserved", "dequeued"}
                                  => rpc'[p] \in {"reserved", "dequeued"}
  <2>1. \A p \in OrderIds : Carried(p) => Carried(p)'
    BY <1>0, <1>2 DEF Carried
  <2> QED
    BY <1>0, <1>2, <2>1, AttendedFrame DEF Taken
<1>3. ASSUME NEW o \in OrderIds, NEW s \in Servers, NEW z \in Zones, NEW q \in Quantities,
             NEW u \in Users, Reserve(o, s, z, q, u)
      PROVE  Attended'
  <2>1. /\ rpc' = [rpc EXCEPT ![o] = "reserved"]
        /\ req' = [req EXCEPT ![o] = [zone |-> z, qty |-> q, user |-> u]]
        /\ log' = log /\ rpc[o] = "new"
    BY <1>3, NoFaultSpent DEF Ind, Reserve, topicVars
  <2>2. /\ rpc'[o] = "reserved"
        /\ \A p \in OrderIds \ {o} : rpc'[p] = rpc[p] /\ req'[p] = req[p]
    BY <2>1 DEF Ind, TypeOK, ReservationTypeOK
  <2>3. \A p \in OrderIds \ {o} : Carried(p)' = Carried(p)
    BY <1>0, <2>1, <2>2 DEF Carried
  <2>4. Carried(o)' /\ status[o] # "CANCELLED"
    BY <2>1, <2>2 DEF Carried, Ind, Traced, OrdersAreReserved, Taken
  <2>5. \A p \in Taken' : p = o \/ p \in Taken
    BY <2>2 DEF Taken
  <2> QED
    BY <1>0, <2>2, <2>3, <2>4, <2>5 DEF Attended, Taken
<1>4. ASSUME NEW o \in OrderIds, Publish(o)
      PROVE  Attended'
  <2>1. log' = Append(log, o) /\ rpc' = [rpc EXCEPT ![o] = "published"] /\ req' = req
    BY <1>4, NoFaultSpent DEF Ind, Publish, PublishOrderCreated
  <2>2. /\ Len(log') = Len(log) + 1 /\ log'[Len(log) + 1] = o
        /\ \A i \in 1..Len(log) : log'[i] = log[i]
    BY <1>1, <2>1
  <2>3. Taken' = Taken /\ \A p \in OrderIds \ {o} : rpc'[p] = rpc[p]
    BY <1>4, <2>1 DEF Ind, TypeOK, ReservationTypeOK, Taken, Publish
  <2>4. Carried(o)'
    <3>1. Len(log) + 1 \in (next + 1)..Len(log')
      BY <1>1, <2>2
    <3> QED
      BY <1>0, <2>2, <3>1 DEF Carried
  <2>5. ASSUME NEW p \in OrderIds \ {o}, Carried(p) PROVE Carried(p)'
    <3>1. \A i \in (next + 1)..Len(log) : i \in (next + 1)..Len(log') /\ log'[i] = log[i]
      BY <1>1, <2>2
    <3> QED
      BY <1>0, <2>3, <2>5, <3>1 DEF Carried
  <2> QED
    BY <1>0, <2>1, <2>3, <2>4, <2>5, AttendedFrame DEF Taken
<1>5. ASSUME NEW o \in OrderIds, NEW s \in Servers, NEW z \in Zones, NEW q \in Quantities,
             NEW u \in Users, Refuse(o, s, z, q, u)
      PROVE  Attended'
  BY <1>2, <1>5 DEF Refuse, topicVars, Ind, TypeOK, ReservationTypeOK, Taken
<1>6. ASSUME NEW o \in OrderIds, LeaveQueue(o) \/ Answer(o)
      PROVE  Attended'
  BY <1>2, <1>6 DEF LeaveQueue, Answer, topicVars, Ind, TypeOK, ReservationTypeOK, Taken
<1>7. ASSUME \/ \E z \in Zones, n \in Stocks : Warmup(z, n)
             \/ \E u \in Users : JoinQueue(u)
      PROVE  Attended'
  BY <1>2, <1>7 DEF Warmup, JoinQueue, topicVars, requestVars, Taken
<1> QED
  BY <1>3, <1>4, <1>5, <1>6, <1>7 DEF ReservationNext

\* What lies ahead of a reader lies ahead of an earlier one.
LEMMA EarlierReader ==
    ASSUME NEW a \in Nat, NEW b \in Nat, NEW n \in Nat, b <= a
    PROVE  \A i \in (a + 1)..n : i \in (b + 1)..n
  OBVIOUS

LEMMA WorkerAttended ==
    ASSUME Ind, Attended, faults' = faults, WorkerNext, WorkerFrame
    PROVE  Attended'
<1>0. /\ UNCHANGED <<rpc, req, log, epc, returned>> /\ Taken' = Taken
      /\ \A o \in OrderIds : Returning(o)' = Returning(o)
  <2>1. UNCHANGED <<rpc, req, log>>
    BY DEF WorkerNext, Commit, Assign, Rebalance, Read, Persist, Arm, requestVars, topicVars
  <2> QED
    BY <2>1 DEF WorkerFrame, expiryVars, Returning, Taken
<1>1. /\ Len(log) \in Nat /\ next \in Nat /\ next <= Len(log)
      /\ committed \in Nat /\ committed <= next
  BY DEF Ind, TypeOK, StoreTypeOK
<1>2. CASE next' <= next /\ next' \in Nat /\ UNCHANGED <<status, wpc, wmsg>>
  <2>0. next' <= next /\ next' \in Nat
    BY <1>2
  <2>1. \A i \in (next + 1)..Len(log) : i \in (next' + 1)..Len(log)
    BY <1>1, <2>0, EarlierReader
  <2>2. \A o \in OrderIds : Carried(o) => Carried(o)'
    BY <1>0, <1>2, <2>1 DEF Carried
  <2> QED
    BY <1>0, <1>2, <2>2, AttendedFrame DEF Taken
<1>3. ASSUME NEW s \in Servers, Read(s)
      PROVE  Attended'
  <2>1. next' = next + 1 /\ status' = status /\ wpc[s] = "idle" /\ next + 1 \in 1..Len(log)
    BY <1>1, <1>3 DEF Read
  <2>2. \A i \in (next + 1)..Len(log) : i = next + 1 \/ i \in (next' + 1)..Len(log')
    BY <1>0, <1>1, <2>1
  <2>3. ASSUME NEW o \in OrderIds, req[o].qty # 0, log[next + 1] = o
        PROVE  wpc'[s] = "persist" /\ wmsg'[s] = o
    <3>1. ~Ignored(log[next + 1])
      BY <2>3, OrdersAssumption DEF Ignored
    <3> QED
      BY <1>3, <2>3, <3>1 DEF Read, Ind, TypeOK, WorkerTypeOK
  <2>4. \A t \in Servers : wpc[t] = "persist" => wpc'[t] = "persist" /\ wmsg'[t] = wmsg[t]
    BY <1>3, <2>1 DEF Read, workerVars, Ind, TypeOK, WorkerTypeOK
  <2>5. ASSUME NEW o \in OrderIds, req[o].qty # 0, Carried(o)
        PROVE  Carried(o)'
    BY <1>0, <2>2, <2>3, <2>4, <2>5 DEF Carried
  <2> QED
    BY <1>0, <2>1, <2>5, AttendedFrame DEF Taken
<1>4. ASSUME NEW s \in Servers, Persist(s)
      PROVE  Attended'
  <2>1. PICK o \in OrderIds : o = wmsg[s]
    BY <1>4 DEF Ind, TypeOK, WorkerTypeOK, Persist
  <2>2. /\ next' = next
        /\ \A t \in Servers \ {s} : wpc'[t] = wpc[t] /\ wmsg'[t] = wmsg[t]
    BY <1>4 DEF Persist, GoIdle, topicVars, Ind, TypeOK, WorkerTypeOK
  <2>3. \A p \in OrderIds \ {o} : Carried(p) => Carried(p)'
    BY <1>0, <2>1, <2>2 DEF Carried
  <2>4. status'[o] # "none" /\ \A p \in OrderIds \ {o} : status'[p] = status[p]
    BY <1>4, <2>1, NoFaultSpent DEF Persist, InsertOrder, Ind, TypeOK, StoreTypeOK
  <2>5. status'[o] = "CANCELLED" => status[o] = "CANCELLED"
    BY <1>4, <2>1 DEF Persist, InsertOrder, Ind, TypeOK, StoreTypeOK
  <2> QED
    BY <1>0, <2>3, <2>4, <2>5, AttendedFrame DEF Taken
<1>5. ASSUME NEW s \in Servers, Arm(s)
      PROVE  Attended'
  <2>1. next' = next /\ status' = status
    BY <1>5 DEF Arm, topicVars
  <2>2. \A t \in Servers : wpc[t] = "persist" => wpc'[t] = "persist" /\ wmsg'[t] = wmsg[t]
    BY <1>5 DEF Arm, GoIdle, Ind, TypeOK, WorkerTypeOK
  <2>3. \A o \in OrderIds : Carried(o) => Carried(o)'
    BY <1>0, <2>1, <2>2 DEF Carried
  <2> QED
    BY <1>0, <2>1, <2>3, AttendedFrame DEF Taken
<1>6. ASSUME Commit \/ \E s \in Servers : Assign(s) \/ Rebalance(s)
      PROVE  Attended'
  BY <1>1, <1>2, <1>6 DEF Commit, Assign, Rebalance, workerVars
<1> QED
  BY <1>3, <1>4, <1>5, <1>6 DEF WorkerNext

\* A timer lapses only while no handler has the order, so that a notification
\* replaces no restore; who cancels goes on to restore.
LEMMA ExpiryAttended ==
    ASSUME Ind, TimedOnce, Attended, faults' = faults, ExpiryNext, ExpiryFrame
    PROVE  Attended'
<1>0. /\ UNCHANGED <<rpc, req, log, next, wpc, wmsg>> /\ Taken' = Taken
      /\ \A o \in OrderIds : Carried(o)' = Carried(o)
  BY DEF ExpiryNext, OrderTimerLapses, CancelIfPending, RestoreStock, HoldLapses, ExpiryFrame,
         workerVars, topicVars, requestVars, Carried, Taken
<1>1. ASSUME NEW o \in OrderIds, NEW S \in SUBSET Servers, OrderTimerLapses(o, S)
      PROVE  Attended'
  <2>1. \A s \in Servers : epc[s][o] = "idle"
    BY <1>1 DEF OrderTimerLapses, TimedOnce
  <2>2. \A s \in Servers, p \in OrderIds : epc[s][p] = "restore" => epc'[s][p] = "restore"
    BY <1>1, <2>1 DEF OrderTimerLapses, Ind, TypeOK, ExpiryTypeOK
  <2>3. UNCHANGED <<returned, status>>
    BY <1>1 DEF OrderTimerLapses
  <2>4. \A p \in OrderIds : Returning(p) => Returning(p)'
    BY <2>2, <2>3 DEF Returning
  <2> QED
    BY <1>0, <2>3, <2>4, AttendedFrame DEF Taken
<1>2. ASSUME NEW s \in Servers, NEW o \in OrderIds, CancelIfPending(s, o)
      PROVE  Attended'
  <2>1. /\ UpdateWhere(o, "PENDING", "CANCELLED") /\ returned' = returned
        /\ epc[s][o] = "cancel"
        /\ epc' = [epc EXCEPT ![s][o] = IF status[o] = "PENDING" THEN "restore" ELSE "idle"]
    BY <1>2, NoFaultSpent DEF CancelIfPending, Ind
  <2>2. \A t \in Servers, p \in OrderIds : epc[t][p] = "restore" => epc'[t][p] = "restore"
    BY <2>1 DEF Ind, TypeOK, ExpiryTypeOK
  <2>3. \A p \in OrderIds : Returning(p) => Returning(p)'
    BY <2>1, <2>2 DEF Returning
  <2>4. \A p \in OrderIds : status'[p] # status[p] => p = o /\ status[o] = "PENDING"
    BY <2>1 DEF UpdateWhere, Ind, TypeOK, StoreTypeOK
  <2>5. status[o] = "PENDING" => epc'[s][o] = "restore"
    BY <2>1 DEF Ind, TypeOK, ExpiryTypeOK
  <2>6. \A p \in OrderIds : status'[p] = "none" => status[p] = "none"
    BY <2>1 DEF UpdateWhere, Ind, TypeOK, StoreTypeOK
  <2> QED
    BY <1>0, <2>3, <2>4, <2>5, <2>6, AttendedFrame DEF Taken, Returning
<1>3. ASSUME NEW s \in Servers, NEW o \in OrderIds, RestoreStock(s, o)
      PROVE  Attended'
  <2>1. /\ returned' = returned \cup {o} /\ status' = status
        /\ epc' = [epc EXCEPT ![s][o] = "idle"]
    BY <1>3, NoFaultSpent DEF RestoreStock, Ind
  <2>2. \A t \in Servers, p \in OrderIds \ {o} : epc'[t][p] = epc[t][p]
    BY <2>1 DEF Ind, TypeOK, ExpiryTypeOK
  <2>3. \A p \in OrderIds : Returning(p) => Returning(p)'
    BY <2>1, <2>2 DEF Returning
  <2> QED
    BY <1>0, <2>1, <2>3, AttendedFrame DEF Taken
<1>4. ASSUME NEW k \in hold, NEW S \in SUBSET Servers, HoldLapses(k, S)
      PROVE  Attended'
  <2>1. UNCHANGED <<returned, epc, status>>
    BY <1>4 DEF HoldLapses, expiryVars
  <2> QED
    BY <1>0, <2>1, AttendedFrame DEF Taken, Returning
<1> QED
  BY <1>1, <1>2, <1>3, <1>4 DEF ExpiryNext

LEMMA PaymentAttended ==
    ASSUME Ind, Attended, PaymentNext, PaymentFrame
    PROVE  Attended'
<1>0. /\ UNCHANGED <<rpc, req, log, next, wpc, wmsg, epc, returned>> /\ Taken' = Taken
      /\ \A o \in OrderIds : Carried(o)' = Carried(o) /\ Returning(o)' = Returning(o)
  BY DEF PaymentNext, CheckPayable, IssueCharge, VerifyAndCheckInTicket, MarkPaid, ReadBack,
         ClearTimer, PublishPaid, PaymentFrame, workerVars, expiryVars, topicVars, requestVars,
         Carried, Returning, Taken
<1>1. \A o \in OrderIds : status'[o] # status[o] => status'[o] \in {"COMPLETED", "CHECKED_IN"}
  <2>1. CASE status' = status
    BY <2>1
  <2>2. CASE \E o \in OrderIds : \/ UpdateWhere(o, "PENDING", "COMPLETED")
                                 \/ UpdateWhere(o, "COMPLETED", "CHECKED_IN")
    BY <2>2 DEF Ind, TypeOK, StoreTypeOK, UpdateWhere
  <2> QED
    BY <2>1, <2>2
    DEF PaymentNext, CheckPayable, IssueCharge, VerifyAndCheckInTicket, MarkPaid, ReadBack,
        ClearTimer, PublishPaid
<1> QED
  BY <1>0, <1>1, AttendedFrame DEF Taken

AttendedSoFar == faults = MaxFaults => Attended

LEMMA AttendedSoFarStep ==
    ASSUME Ind, TimedOnce, TendedSoFar, AttendedSoFar, [Next]_vars
    PROVE  AttendedSoFar'
<1> SUFFICES ASSUME faults' = MaxFaults PROVE Attended'
  BY DEF AttendedSoFar
<1>1. faults' = faults /\ Tended /\ Attended
  BY FaultsFall, BoundsAssumption DEF Ind, TendedSoFar, AttendedSoFar
<1>2. CASE \E s \in Servers : Shutdown(s) \/ Exit(s) \/ Crash(s) \/ Restart(s)
  BY <1>1, <1>2, NoFaultSpent DEF Ind, Shutdown, Exit, Crash, Restart, Tended, AllUp
<1>3. CASE UNCHANGED vars
  BY <1>1, <1>3
  DEF vars, topicVars, requestVars, workerVars, expiryVars, Attended, Carried, Returning, Taken
<1> QED
  BY <1>1, <1>2, <1>3, RequestAttended, WorkerAttended, ExpiryAttended, PaymentAttended DEF Next

\* As long as no call has failed, no reservation is forgotten with its seats:
\* one that is neither paid nor returned has a step coming that will see to it,
\* however often messages come again and expiries are heard of.
THEOREM SeatsAreSeenTo ==
    ASSUME Servers # {}
    PROVE  Spec => []NoSeatsForgotten
<1>1. Init => Announced /\ TimedOnce /\ TendedSoFar /\ AttendedSoFar
  BY DEF Init, StoreInit, ReservationInit, WorkerInit, ExpiryInit, PaymentInit, Announced,
         ConfirmedIsPaid, AnnouncedOrdersArePaid, TimedOnce, Arming, TendedSoFar, Tended, AllUp,
         AllTimed, AttendedSoFar, Attended, Taken
<1>2. Ind /\ Announced /\ [Next]_vars => Announced'
  BY AnnouncedStep DEF Ind
<1>3. Ind /\ TimedOnce /\ [Next]_vars => TimedOnce'
  BY TimedStep DEF Ind
<1>4. Ind /\ Announced /\ TendedSoFar /\ [Next]_vars => TendedSoFar'
  BY TendedSoFarStep DEF Ind
<1>5. Ind /\ TimedOnce /\ TendedSoFar /\ AttendedSoFar /\ [Next]_vars => AttendedSoFar'
  BY AttendedSoFarStep
<1>6. Ind /\ TendedSoFar /\ AttendedSoFar => NoSeatsForgotten
  <2> SUFFICES ASSUME Ind, Tended, Attended,
                      NEW o \in Taken \ (Paid \cup returned), req[o].qty # 0
               PROVE  SeenTo(o)
    BY DEF TendedSoFar, AttendedSoFar, NoSeatsForgotten
  <2>1. o \in OrderIds /\ status[o] \in {"none", "PENDING", "CANCELLED"}
    BY DEF Ind, TypeOK, StoreTypeOK, Status, Paid, Taken
  <2> QED
    BY <2>1 DEF Tended, AllTimed, Timed, Attended, Carried, Returning, SeenTo
<1> QED
  BY <1>1, <1>2, <1>3, <1>4, <1>5, <1>6, Inductive, PTL DEF Spec
=============================================================================
