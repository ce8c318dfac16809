----------------------------- MODULE EventAdmin -----------------------------
(***************************************************************************)
(* The administration of an event: CreateEvent, UpdateZones and            *)
(* UpdateEventStatus.  Each is a transaction or statement in PostgreSQL,   *)
(* a read of what it left, and then one write to Redis after the other:    *)
(* the stock counter of every zone, or the mirror of the status.  Requests *)
(* of several admins overlap; meanwhile seats are sold, here one by one,   *)
(* and /tickets/warmup sets the same counters to any number.  One event is *)
(* modelled; zones stand for their names, which are unique in an event.    *)
(***************************************************************************)
EXTENDS Integers

CONSTANTS
    Zones,
    Sizes,        \* total_capacity values requests may give
    Stocks,       \* numbers /tickets/warmup may be called with
    Statuses,     \* lifecycle statuses of an event
    Admins,       \* requests of the admin API
    None,
    MaxFaults     \* bound: calls of PostgreSQL or Redis that fail

ASSUME SizesAssumption == Sizes \subseteq Nat \ {0} /\ None \notin Int
ASSUME StocksAssumption == Stocks \subseteq Int
ASSUME ZonesAssumption == "mirror" \notin Zones
ASSUME StatusesAssumption == None \notin Statuses
ASSUME EventBoundsAssumption == MaxFaults \in Nat

VARIABLES
    event,        \* PostgreSQL: events.status, None while there is no row
    capacity,     \* PostgreSQL: seat_zones.total_capacity, 0: no such zone
    stock,        \* Redis: event:{e}:zone:{z}:stock, None: no such key
    mirror,       \* Redis: event:{e}:status, None: no such key
    base,         \* history: what the stock key was last set to
    foreign,      \* history: zones whose key /tickets/warmup has set last
    outrun,       \* history: requests at work that another commit has overtaken
    late,         \* history: keys behind the table by an overlap, or never written
    apc, plan,    \* where an admin request is and what it asked for
    snap,         \* the zones it read back, with their capacities
    todo,         \* those it has still to warm up
    faults        \* failures still allowed

redisVars == <<stock, mirror, base, foreign, late>>
adminVars == <<apc, plan, snap, todo>>
eventVars == <<event, capacity, redisVars, adminVars, outrun, faults>>

NoFault == UNCHANGED faults
Fault   == faults > 0 /\ faults' = faults - 1

\* Mutant of ZoneList: the capacity of a zone is not validated.
UncheckedZoneList == {caps \in [Zones -> Sizes \cup {-1, 0}] : \E z \in Zones : caps[z] # 0}

ZoneList == {caps \in [Zones -> Sizes \cup {0}] : \E z \in Zones : caps[z] # 0}
Named(caps) == {z \in Zones : caps[z] # 0}
Plans    == [op : {"create", "zones"}, named : SUBSET Zones, status : {None}]
                \cup [op : {"status"}, named : {{}}, status : Statuses]

Rows == {z \in Zones : capacity[z] # 0}

EventInit ==
    /\ event = None
    /\ capacity = [z \in Zones |-> 0]
    /\ stock = [z \in Zones |-> None]
    /\ mirror = None
    /\ base = [z \in Zones |-> 0]
    /\ foreign = {}
    /\ outrun = {}
    /\ late = {}
    /\ apc = [a \in Admins |-> "new"]
    /\ plan = [a \in Admins |-> None]
    /\ snap = [a \in Admins |-> [z \in Zones |-> 0]]
    /\ todo = [a \in Admins |-> {}]
    /\ faults = MaxFaults

-----------------------------------------------------------------------------
GoOn(a, pc) == apc' = [apc EXCEPT ![a] = pc] /\ UNCHANGED plan

Finish(a, pc) ==
    /\ apc' = [apc EXCEPT ![a] = pc]
    /\ plan' = [plan EXCEPT ![a] = None]

\* A transaction that fails is rolled back, or its commit took effect and only
\* the reply was lost; the handler answers 500 and writes nothing to Redis.
Transact(a, p, effect, nothing) ==
    /\ apc[a] = "new"
    /\ \/ /\ effect
          /\ NoFault
          /\ apc' = [apc EXCEPT ![a] = "committed"]
          /\ plan' = [plan EXCEPT ![a] = p]
       \/ (effect \/ nothing) /\ Fault /\ Finish(a, "failed")
    /\ UNCHANGED <<stock, mirror, base, foreign, snap, todo>>

\* CreateEventWithZones; the event id is fresh, so there is one creation.  It
\* does not mirror the status.
CreateEvent(a, caps, s) ==
    /\ event = None
    /\ Transact(a, [op |-> "create", named |-> Named(caps), status |-> None],
                event' = s /\ capacity' = caps /\ late' = late \cup {"mirror"},
                UNCHANGED <<event, capacity, late>>)
    /\ UNCHANGED outrun

\* UpdateEventZones: an upsert per zone.  Row locks held to the commit order
\* overlapping transactions, so each takes effect as a whole.
UpdateZones(a, caps) ==
    /\ event # None
    /\ UNCHANGED <<event, late>>
    /\ Transact(a, [op |-> "zones", named |-> Named(caps), status |-> None],
                /\ capacity' = [z \in Zones |-> IF caps[z] = 0 THEN capacity[z] ELSE caps[z]]
                /\ outrun' = outrun \cup {b \in Admins : apc[b] = "warming"},
                UNCHANGED <<capacity, outrun>>)

\* Both then read all zones of the event, those not in the request included.
ReadZones(a) ==
    /\ apc[a] = "committed"
    /\ plan[a].op \in {"create", "zones"}
    /\ \/ /\ NoFault
          /\ snap' = [snap EXCEPT ![a] = capacity]
          /\ todo' = [todo EXCEPT ![a] = Rows]
          /\ GoOn(a, "warming")
       \/ Fault /\ Finish(a, "failed") /\ UNCHANGED <<snap, todo>>
    /\ UNCHANGED <<event, capacity, redisVars, outrun>>

\* Mutant of WarmupStock: SETNX, so that a zone on sale is left alone.
WarmupIfCold(a, z) ==
    IF stock[z] = None
    THEN /\ stock' = [stock EXCEPT ![z] = snap[a][z]]
         /\ base' = [base EXCEPT ![z] = snap[a][z]]
         /\ foreign' = foreign \ {z}
         /\ late' = IF a \in outrun /\ snap[a][z] # capacity[z] THEN late \cup {z} ELSE late \ {z}
    ELSE UNCHANGED <<stock, base, foreign, late>>

\* The key is late only if a request sets it that was overtaken meanwhile.
WarmupStock(a, z) ==
    /\ stock' = [stock EXCEPT ![z] = snap[a][z]]
    /\ base' = [base EXCEPT ![z] = snap[a][z]]
    /\ foreign' = foreign \ {z}
    /\ late' = IF a \in outrun /\ snap[a][z] # capacity[z] THEN late \cup {z} ELSE late \ {z}

\* Mutant of WarmZone: a failed SET is logged and the loop goes on.
WarmZoneOrSkip(a, z) ==
    /\ apc[a] = "warming"
    /\ z \in todo[a]
    /\ todo' = [todo EXCEPT ![a] = @ \ {z}]
    /\ \/ NoFault /\ WarmupStock(a, z)
       \/ Fault /\ UNCHANGED <<stock, base, foreign, late>>
    /\ IF todo[a] = {z} THEN Finish(a, "ok") ELSE GoOn(a, "warming")
    /\ outrun' = IF apc'[a] = "warming" THEN outrun ELSE outrun \ {a}
    /\ UNCHANGED <<event, capacity, mirror, snap>>

\* One round of the loop over the zones; the first failure ends the request.
WarmZone(a, z) ==
    /\ apc[a] = "warming"
    /\ z \in todo[a]
    /\ \/ /\ NoFault
          /\ WarmupStock(a, z)
          /\ todo' = [todo EXCEPT ![a] = @ \ {z}]
          /\ IF todo[a] = {z} THEN Finish(a, "ok") ELSE GoOn(a, "warming")
          /\ UNCHANGED snap
       \/ /\ Fault
          /\ WarmupStock(a, z) \/ UNCHANGED <<stock, base, foreign, late>>
          /\ todo' = [todo EXCEPT ![a] = {}]
          /\ snap' = [snap EXCEPT ![a] = [y \in Zones |-> 0]]
          /\ Finish(a, "failed")
    /\ outrun' = IF apc'[a] = "warming" THEN outrun ELSE outrun \ {a}
    /\ UNCHANGED <<event, capacity, mirror>>

-----------------------------------------------------------------------------
UpdateEventStatus(a, s) ==
    /\ event # None
    /\ UNCHANGED <<capacity, late>>
    /\ Transact(a, [op |-> "status", named |-> {}, status |-> s],
                /\ event' = s
                /\ outrun' = outrun \cup {b \in Admins : apc[b] = "committed" /\ plan[b].op = "status"},
                UNCHANGED <<event, outrun>>)

\* Mutant of SetEventStatus: only the start of the sale is mirrored.
MirrorLiveOnly(a) ==
    /\ mirror' = IF plan[a].status = "LIVE" THEN "LIVE" ELSE mirror
    /\ late' = IF a \in outrun /\ plan[a].status # event THEN late \cup {"mirror"} ELSE late \ {"mirror"}

SetEventStatus(a) ==
    /\ mirror' = plan[a].status
    /\ late' = IF a \in outrun /\ plan[a].status # event THEN late \cup {"mirror"} ELSE late \ {"mirror"}

\* The event is read back, which may fail, and its status mirrored.
MirrorStatus(a) ==
    /\ apc[a] = "committed"
    /\ plan[a].op = "status"
    /\ \/ NoFault /\ SetEventStatus(a) /\ Finish(a, "ok")
       \/ /\ Fault
          /\ SetEventStatus(a) \/ UNCHANGED <<mirror, late>>
          /\ Finish(a, "failed")
    /\ outrun' = outrun \ {a}
    /\ UNCHANGED <<event, capacity, stock, base, foreign, snap, todo>>

-----------------------------------------------------------------------------
\* A reservation of one seat, as the script of the sale does it.
Reserve(z) ==
    /\ stock[z] # None
    /\ stock[z] > 0
    /\ stock' = [stock EXCEPT ![z] = @ - 1]
    /\ UNCHANGED <<event, capacity, mirror, base, foreign, late, adminVars, outrun, faults>>

\* POST /tickets/warmup: neither the number nor the zone is looked up, but a
\* zone has no id to call it by before its row is there.
SetStock(z, n) ==
    /\ z \in Rows
    /\ stock' = [stock EXCEPT ![z] = n]
    /\ base' = [base EXCEPT ![z] = n]
    /\ foreign' = foreign \cup {z}
    /\ late' = late \ {z}
    /\ UNCHANGED <<event, capacity, mirror, adminVars, outrun, faults>>

EventNext ==
    \/ \E a \in Admins :
          \/ \E caps \in ZoneList :
                UpdateZones(a, caps) \/ \E s \in Statuses : CreateEvent(a, caps, s)
          \/ \E s \in Statuses : UpdateEventStatus(a, s)
          \/ ReadZones(a) \/ MirrorStatus(a)
          \/ \E z \in Zones : WarmZone(a, z)
    \/ \E z \in Zones : Reserve(z) \/ \E n \in Stocks : SetStock(z, n)

EventSpec == EventInit /\ [][EventNext]_eventVars

-----------------------------------------------------------------------------
EventTypeOK ==
    /\ event \in Statuses \cup {None}
    /\ capacity \in [Zones -> Nat]
    /\ stock \in [Zones -> Int \cup {None}]
    /\ mirror \in Statuses \cup {None}
    /\ base \in [Zones -> Int]
    /\ foreign \subseteq Zones
    /\ outrun \subseteq Admins
    /\ late \subseteq Zones \cup {"mirror"}
    /\ apc \in [Admins -> {"new", "committed", "warming", "ok", "failed"}]
    /\ \A a \in Admins :
          IF apc[a] \in {"committed", "warming"} THEN plan[a] \in Plans ELSE plan[a] = None
    /\ snap \in [Admins -> [Zones -> Nat]]
    /\ todo \in [Admins -> SUBSET Zones]
    /\ faults \in 0..MaxFaults

\* Whether the request of a is going to set the stock of zone z, if no call fails.
WillWarm(a, z) ==
    \/ z \in todo[a] /\ apc[a] = "warming"
    \/ apc[a] = "committed" /\ plan[a].op \in {"create", "zones"}

\* Every zone is sold from a counter that was last set to the capacity in the
\* table, unless a request is about to set it, /tickets/warmup has set it, a
\* request set it after another commit had overtaken it, or a call failed.
StockFollowsTable ==
    \A z \in Rows :
        \/ base[z] = capacity[z]
        \/ z \in foreign \cup late
        \/ \E a \in Admins : WillWarm(a, z)
        \/ faults < MaxFaults

\* A request answered with success left every zone of the event on sale, those
\* included that an earlier request failed to warm up.
SuccessMeansOnSale ==
    \A a \in Admins : apc[a] = "ok" =>
        \A z \in Zones : snap[a][z] # 0 => stock[z] # None

\* The mirror of the status is up to date once the status has been moved, with
\* the same exceptions.
StatusMirrored ==
    \/ mirror = event
    \/ "mirror" \in late
    \/ \E a \in Admins : apc[a] = "committed" /\ plan[a].op = "status"
    \/ faults < MaxFaults

\* event_handler.go:236-237: "Existing zones not in the request body are left
\* untouched": the stock of a zone on sale rises only if a request that is being
\* served names the zone, or by a call of /tickets/warmup.
UntouchedStep ==
    \A z \in Zones :
        stock[z] # None /\ stock'[z] # None /\ stock'[z] > stock[z] /\ z \notin foreign' =>
            \E a \in Admins : apc[a] = "warming" /\ z \in plan[a].named
=============================================================================
