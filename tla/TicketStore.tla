---------------------------- MODULE TicketStore ----------------------------
(***************************************************************************)
(* The state every instance of the API server shares, and the operations   *)
(* the repository layer offers on it: the keys in Redis, the orders table  *)
(* in PostgreSQL, the two Kafka topics, and which instances are running.   *)
(* Each operator below is one command or statement, which the store        *)
(* executes atomically; it says how its own variables change and nothing   *)
(* about the others.  The handlers and workers of the other modules call   *)
(* these operators from separate steps.                                    *)
(*                                                                         *)
(* One event is modelled: every key holds the event id, so events do not   *)
(* interact.                                                               *)
(***************************************************************************)
EXTENDS WaitingQueue, Sequences

CONSTANTS
    Servers,      \* instances of the API server
    OrderIds,     \* ids uuid.New() hands out to reservation requests
    Unverified,   \* users without the national id this event demands
    Zones,        \* seat zones of the event
    Stocks,       \* numbers a warm-up may SET: any integer a client sends
    Quantities,   \* numbers of seats requests ask for: any integer, no check is made
    None,         \* no server, no request
    PreWarm,      \* the dummy order.created message an instance sends at boot
    MaxFaults,    \* bound: crashes, shutdowns and failed calls
    MaxMoves,     \* bound: times Kafka moves the topic between live instances
    MaxWarmups,   \* bound: times a zone's stock key is (re)written
    MaxJoins,     \* bound: calls of /queue/join
    MaxOrphan     \* bound: how far from 0 the counter of handleExpiredHold gets

ASSUME StocksAssumption == Stocks \subseteq Int
ASSUME QuantityAssumption == Quantities \subseteq Int
ASSUME ServersAssumption == IsFiniteSet(Servers) /\ None \notin Servers
ASSUME OrdersAssumption == IsFiniteSet(OrderIds) /\ PreWarm \notin OrderIds
ASSUME UnverifiedAssumption == Unverified \subseteq Users
ASSUME BoundsAssumption ==
    /\ MaxFaults \in Nat /\ MaxMoves \in Nat /\ MaxWarmups \in Nat
    /\ MaxJoins \in Nat /\ MaxOrphan \in Nat

VARIABLES
    warm,       \* Redis: zones whose event:{e}:zone:{z}:stock key exists
    stock,      \* Redis: the value of that key
    timer,      \* Redis: orders with a live order:expire:{id} key
    hold,       \* Redis: live hold:{e}:{zone}:{qty}:{user} keys
    orphan,     \* Redis: the stock:{e}:{z} key, written by handleExpiredHold
    status,     \* PostgreSQL: orders.status by id ("none": no such row)
    log,        \* Kafka: order.created topic
    next,       \* Kafka: how much of log the current consumer has read
    committed,  \* Kafka: the group's committed offset
    owner,      \* Kafka: the instance the topic is assigned to
    paid,       \* Kafka: ticketpulse.order.paid topic
    phase,      \* each instance: "up", "lingering", "draining" or "down"
    faults,     \* faults still allowed
    moves,      \* rebalances still allowed
    warmups,    \* how often each zone was warmed up
    supplied    \* history: seats its warm-ups have put on sale, all together

stockVars == <<warm, stock, warmups, supplied>>
keyVars   == <<timer, hold, orphan>>
topicVars == <<log, next, committed, owner, moves>>

-----------------------------------------------------------------------------
(* Faults.  Every step that can fail takes NoFault or spends a Fault.      *)

NoFault == UNCHANGED faults
Fault   == faults > 0 /\ faults' = faults - 1

(* An instance serves requests until its process ends; its workers stop    *)
(* earlier, when shutdown cancels their context.  A lingering instance has *)
(* stopped working without closing its Kafka reader, whose heartbeats keep *)
(* it in the consumer group; a draining one has closed it.                 *)
Serving(s) == phase[s] # "down"
Working(s) == phase[s] = "up"
Member(s)  == phase[s] \in {"up", "lingering"}

-----------------------------------------------------------------------------
(* Redis: redis_repository.go                                              *)

HoldKey == Zones \X Quantities \X Users

WarmupStock(z, n) ==
    /\ warm' = warm \cup {z}
    /\ stock' = [stock EXCEPT ![z] = n]

\* Mutant of ReserveTicket: the script forgets to compare.
ReserveUnchecked(z, q) ==
    /\ z \in warm
    /\ stock' = [stock EXCEPT ![z] = @ - q]

\* The Lua script's successful branch; the script runs as one command.  For a
\* negative q it adds seats.
ReserveTicket(z, q) ==
    /\ z \in warm
    /\ stock[z] >= q
    /\ stock' = [stock EXCEPT ![z] = @ - q]

\* Its other two branches, -1 (no such key) and 0 (too few left), write nothing.
NotReservable(z, q) == z \notin warm \/ stock[z] < q

\* Mutant of RestoreZoneStock: INCR instead of INCRBY quantity.
RestoreOneSeat(z, q) ==
    /\ stock' = [stock EXCEPT ![z] = @ + 1]
    /\ warm' = warm \cup {z}

\* INCRBY creates a missing key with the increment as its value.
RestoreZoneStock(z, q) ==
    /\ stock' = [stock EXCEPT ![z] = IF z \in warm THEN @ + q ELSE q]
    /\ warm' = warm \cup {z}

SetOrderExpiry(o)   == timer' = timer \cup {o}
ClearOrderExpiry(o) == timer' = timer \ {o}

-----------------------------------------------------------------------------
(* PostgreSQL: order_repository.go and the INSERT of order_worker.go.      *)
(* Each statement is guarded by the status in its WHERE clause.            *)

Status == {"none", "PENDING", "COMPLETED", "CHECKED_IN", "CANCELLED"}

\* Mutant of InsertOrder: ON CONFLICT DO UPDATE SET status = 'PENDING'.
UpsertOrder(o) == status' = [status EXCEPT ![o] = "PENDING"]

InsertOrder(o) ==
    /\ status[o] = "none"
    /\ status' = [status EXCEPT ![o] = "PENDING"]

\* Mutant of UpdateWhere: WHERE id = $1 alone.
UpdateById(o, from, to) ==
    status' = [status EXCEPT ![o] = IF @ = "none" THEN @ ELSE to]

UpdateWhere(o, from, to) ==
    status' = [status EXCEPT ![o] = IF @ = from THEN to ELSE @]

Paid == {o \in OrderIds : status[o] \in {"COMPLETED", "CHECKED_IN"}}

-----------------------------------------------------------------------------
(* Kafka: the order.created topic.                                         *)

PublishOrderCreated(m) == log' = Append(log, m)

-----------------------------------------------------------------------------
StoreInit ==
    /\ warm = {}
    /\ stock = [z \in Zones |-> 0]
    /\ timer = {}
    /\ hold = {}
    /\ orphan = [z \in Zones |-> 0]
    /\ score = [u \in Users |-> 0]
    /\ status = [o \in OrderIds |-> "none"]
    /\ log = <<>>
    /\ next = 0
    /\ committed = 0
    /\ owner = None
    /\ paid = <<>>
    /\ phase = [s \in Servers |-> "up"]
    /\ faults = MaxFaults
    /\ moves = MaxMoves
    /\ warmups = [z \in Zones |-> 0]
    /\ supplied = [z \in Zones |-> 0]
    /\ now = 0

StoreTypeOK ==
    /\ warm \subseteq Zones
    /\ stock \in [Zones -> Int]
    /\ timer \subseteq OrderIds
    /\ hold \subseteq HoldKey
    /\ orphan \in [Zones -> Int]
    /\ score \in [Users -> Nat]
    /\ status \in [OrderIds -> Status]
    /\ log \in Seq(OrderIds \cup {PreWarm})
    /\ next \in 0..Len(log)
    /\ committed \in 0..next
    /\ owner \in Servers \cup {None}
    /\ paid \in Seq(OrderIds)
    /\ phase \in [Servers -> {"up", "lingering", "draining", "down"}]
    /\ faults \in 0..MaxFaults
    /\ moves \in 0..MaxMoves
    /\ warmups \in [Zones -> 0..MaxWarmups]
    /\ supplied \in [Zones -> Nat]
    /\ now \in 0..MaxJoins
=============================================================================
