----------------------------- MODULE EventProofs -----------------------------
(***************************************************************************)
(* What Redis says of an event follows the table, for any number of zones  *)
(* and of overlapping admin requests, while no call has failed and but for *)
(* the zones /tickets/warmup has set: by Fresh, what a request has read is *)
(* good until another commit overtakes it.  That a successful request      *)
(* leaves every zone on sale holds with failures too, by Warmed: a request *)
(* has put on sale what it has taken off its list.                         *)
(***************************************************************************)
EXTENDS EventAdmin, TLAPS

Typed ==
    /\ event \in Statuses \cup {None}
    /\ mirror \in Statuses \cup {None}
    /\ capacity \in [Zones -> Nat]
    /\ stock \in [Zones -> Int \cup {None}]
    /\ base \in [Zones -> Int]
    /\ foreign \subseteq Zones
    /\ outrun \subseteq Admins
    /\ late \subseteq Zones \cup {"mirror"}
    /\ apc \in [Admins -> {"new", "committed", "warming", "ok", "failed"}]
    /\ plan \in [Admins -> Plans \cup {None}]
    /\ \A a \in Admins :
          IF apc[a] \in {"committed", "warming"} THEN plan[a] \in Plans ELSE plan[a] = None
    /\ snap \in [Admins -> [Zones -> Nat]]
    /\ todo \in [Admins -> SUBSET Zones]
    /\ faults \in 0..MaxFaults

\* A request has read nothing before it warms, and has put on sale what it has
\* read and no longer owes.
Warmed ==
    \A a \in Admins :
        /\ apc[a] \in {"new", "committed"} => \A z \in Zones : snap[a][z] = 0
        /\ apc[a] \in {"warming", "ok"} =>
              \A z \in Zones : snap[a][z] # 0 /\ (apc[a] = "ok" \/ z \notin todo[a]) => stock[z] # None

\* What a request has read, or is about to mirror, is what the table says, until
\* another commit overtakes it; nobody is at work before there is an event.
Fresh ==
    /\ \A a \in Admins \ outrun :
          /\ apc[a] = "warming" => \A z \in todo[a] : snap[a][z] = capacity[z]
          /\ apc[a] = "committed" /\ plan[a].op = "status" => event = plan[a].status
    /\ event = None => \A a \in Admins : apc[a] \notin {"committed", "warming"}

EventInv == Typed /\ Warmed /\ StockFollowsTable /\ StatusMirrored

LEMMA FaultTyped ==
    ASSUME Typed, NoFault \/ Fault
    PROVE  faults' \in 0..MaxFaults /\ (faults < MaxFaults => faults' < MaxFaults)
           /\ (Fault => faults' < MaxFaults)
BY EventBoundsAssumption DEF Typed, NoFault, Fault

LEMMA SizesTyped ==
    ASSUME NEW caps \in ZoneList
    PROVE  caps \in [Zones -> Nat]
<1>1. caps \in [Zones -> Sizes \cup {0}]
  BY Zenon DEF ZoneList
<1>2. Sizes \cup {0} \subseteq Nat
  BY SizesAssumption
<1> QED
  BY <1>1, <1>2

-----------------------------------------------------------------------------
(* The transactions: a request that commits, or fails, warms nothing yet.  *)

LEMMA CreateSound ==
    ASSUME EventInv, NEW a \in Admins, NEW caps \in ZoneList, NEW s \in Statuses,
           CreateEvent(a, caps, s)
    PROVE  EventInv'
<1> DEFINE p == [op |-> "create", named |-> Named(caps), status |-> None]
<1>1. /\ apc[a] = "new" /\ event = None
      /\ UNCHANGED <<stock, mirror, base, foreign, snap, todo, outrun>>
      /\ faults' \in 0..MaxFaults /\ (faults < MaxFaults => faults' < MaxFaults)
      /\ p \in Plans /\ p.op = "create" /\ caps \in [Zones -> Nat]
  BY FaultTyped, SizesTyped DEF CreateEvent, Transact, EventInv, Plans, Named
<1>2. CASE /\ event' = s /\ capacity' = caps /\ late' = late \cup {"mirror"}
           /\ apc' = [apc EXCEPT ![a] = "committed"]
           /\ plan' = [plan EXCEPT ![a] = p]
  <2> HIDE DEF p
  <2>1. Typed'
    BY <1>1, <1>2 DEF EventInv, Typed
  <2>2. Warmed'
    BY <1>1, <1>2 DEF EventInv, Typed, Warmed
  <2>3. apc'[a] = "committed" /\ plan'[a].op = "create"
    BY <1>1, <1>2 DEF EventInv, Typed
  <2>4. StockFollowsTable' /\ StatusMirrored'
    BY <1>2, <2>3 DEF StockFollowsTable, StatusMirrored, WillWarm
  <2> QED
    BY <2>1, <2>2, <2>4 DEF EventInv
<1>3. CASE /\ \/ event' = s /\ capacity' = caps /\ late' = late \cup {"mirror"}
              \/ UNCHANGED <<event, capacity, late>>
           /\ Fault
           /\ apc' = [apc EXCEPT ![a] = "failed"]
           /\ plan' = [plan EXCEPT ![a] = None]
  <2>1. faults' < MaxFaults
    BY <1>3, FaultTyped DEF EventInv
  <2>2. Typed'
    BY <1>1, <1>3 DEF EventInv, Typed
  <2>3. Warmed'
    BY <1>1, <1>3 DEF EventInv, Typed, Warmed
  <2> QED
    BY <2>1, <2>2, <2>3 DEF EventInv, StockFollowsTable, StatusMirrored
<1> QED
  BY <1>2, <1>3 DEF CreateEvent, Transact, Finish

LEMMA ZonesSound ==
    ASSUME EventInv, NEW a \in Admins, NEW caps \in ZoneList, UpdateZones(a, caps)
    PROVE  EventInv'
<1> DEFINE p == [op |-> "zones", named |-> Named(caps), status |-> None]
           new == [z \in Zones |-> IF caps[z] = 0 THEN capacity[z] ELSE caps[z]]
<1>1. /\ apc[a] = "new"
      /\ UNCHANGED <<event, late, stock, mirror, base, foreign, snap, todo>>
      /\ outrun' \subseteq outrun \cup Admins
      /\ faults' \in 0..MaxFaults /\ (faults < MaxFaults => faults' < MaxFaults)
  BY FaultTyped DEF UpdateZones, Transact, EventInv
<1>2. p \in Plans /\ p.op = "zones" /\ caps \in [Zones -> Nat]
  BY SizesTyped DEF Plans, Named
<1>3. new \in [Zones -> Nat]
  BY <1>2 DEF EventInv, Typed
<1>4. CASE /\ capacity' = new
           /\ apc' = [apc EXCEPT ![a] = "committed"]
           /\ plan' = [plan EXCEPT ![a] = p]
  <2> HIDE DEF p, new
  <2>1. Typed'
    BY <1>1, <1>2, <1>3, <1>4 DEF EventInv, Typed
  <2>2. Warmed'
    BY <1>1, <1>4 DEF EventInv, Typed, Warmed
  <2>3. apc'[a] = "committed" /\ plan'[a].op = "zones"
    BY <1>1, <1>2, <1>4 DEF EventInv, Typed
  <2>4. StockFollowsTable'
    BY <2>3 DEF StockFollowsTable, WillWarm
  <2>5. StatusMirrored'
    <3>1. \A b \in Admins : apc[b] = "committed" => b # a /\ apc'[b] = apc[b] /\ plan'[b] = plan[b]
      BY <1>1, <1>4 DEF EventInv, Typed
    <3> QED
      BY <1>1, <3>1 DEF EventInv, StatusMirrored
  <2> QED
    BY <2>1, <2>2, <2>4, <2>5 DEF EventInv
<1>5. CASE /\ capacity' = new \/ UNCHANGED capacity
           /\ Fault
           /\ apc' = [apc EXCEPT ![a] = "failed"]
           /\ plan' = [plan EXCEPT ![a] = None]
  <2> HIDE DEF new
  <2>1. faults' < MaxFaults
    BY <1>5, FaultTyped DEF EventInv
  <2>2. Typed'
    BY <1>1, <1>3, <1>5 DEF EventInv, Typed
  <2>3. Warmed'
    BY <1>1, <1>5 DEF EventInv, Typed, Warmed
  <2> QED
    BY <2>1, <2>2, <2>3 DEF EventInv, StockFollowsTable, StatusMirrored
<1> QED
  BY <1>4, <1>5 DEF UpdateZones, Transact, Finish

LEMMA StatusSound ==
    ASSUME EventInv, NEW a \in Admins, NEW s \in Statuses, UpdateEventStatus(a, s)
    PROVE  EventInv'
<1> DEFINE p == [op |-> "status", named |-> {}, status |-> s]
<1>1. /\ apc[a] = "new"
      /\ UNCHANGED <<capacity, late, stock, mirror, base, foreign, snap, todo>>
      /\ outrun' \subseteq outrun \cup Admins
      /\ faults' \in 0..MaxFaults /\ (faults < MaxFaults => faults' < MaxFaults)
      /\ p \in Plans /\ p.op = "status"
  BY FaultTyped DEF UpdateEventStatus, Transact, EventInv, Plans
<1>2. CASE /\ event' = s
           /\ apc' = [apc EXCEPT ![a] = "committed"]
           /\ plan' = [plan EXCEPT ![a] = p]
  <2> HIDE DEF p
  <2>1. Typed'
    BY <1>1, <1>2 DEF EventInv, Typed
  <2>2. Warmed'
    BY <1>1, <1>2 DEF EventInv, Typed, Warmed
  <2>3. apc'[a] = "committed" /\ plan'[a].op = "status"
    BY <1>1, <1>2 DEF EventInv, Typed
  <2>4. StatusMirrored'
    BY <2>3 DEF StatusMirrored
  <2>5. StockFollowsTable'
    <3>1. \A b \in Admins : apc[b] # "new" => b # a /\ apc'[b] = apc[b] /\ plan'[b] = plan[b]
      BY <1>1, <1>2 DEF EventInv, Typed
    <3>2. \A b \in Admins, z \in Zones : WillWarm(b, z) => WillWarm(b, z)'
      BY <1>1, <3>1 DEF WillWarm
    <3>3. Rows' = Rows
      BY <1>1 DEF Rows
    <3> QED
      BY <1>1, <3>2, <3>3 DEF EventInv, StockFollowsTable, Rows
  <2> QED
    BY <2>1, <2>2, <2>4, <2>5 DEF EventInv
<1>3. CASE /\ event' = s \/ UNCHANGED event
           /\ Fault
           /\ apc' = [apc EXCEPT ![a] = "failed"]
           /\ plan' = [plan EXCEPT ![a] = None]
  <2>1. faults' < MaxFaults
    BY <1>3, FaultTyped DEF EventInv
  <2>2. Typed'
    BY <1>1, <1>3 DEF EventInv, Typed
  <2>3. Warmed'
    BY <1>1, <1>3 DEF EventInv, Typed, Warmed
  <2> QED
    BY <2>1, <2>2, <2>3 DEF EventInv, StockFollowsTable, StatusMirrored
<1> QED
  BY <1>2, <1>3 DEF UpdateEventStatus, Transact, Finish

-----------------------------------------------------------------------------
(* What follows the transaction.                                           *)

LEMMA ReadSound ==
    ASSUME EventInv, NEW a \in Admins, ReadZones(a)
    PROVE  EventInv'
<1>1. /\ apc[a] = "committed" /\ plan[a].op \in {"create", "zones"} /\ plan[a] \in Plans
      /\ UNCHANGED <<event, capacity, stock, mirror, base, foreign, late, outrun>>
      /\ faults' \in 0..MaxFaults /\ (faults < MaxFaults => faults' < MaxFaults)
  BY FaultTyped DEF ReadZones, EventInv, Typed, redisVars
<1>2. CASE /\ snap' = [snap EXCEPT ![a] = capacity]
           /\ todo' = [todo EXCEPT ![a] = Rows]
           /\ apc' = [apc EXCEPT ![a] = "warming"]
           /\ plan' = plan
           /\ NoFault
  <2>1. Typed'
    BY <1>1, <1>2 DEF EventInv, Typed, Rows
  <2>2. Warmed'
    BY <1>1, <1>2 DEF EventInv, Typed, Warmed, Rows
  <2>3. \A z \in Rows : WillWarm(a, z)'
    BY <1>1, <1>2 DEF EventInv, Typed, WillWarm
  <2>4. StockFollowsTable'
    BY <1>1, <2>3 DEF StockFollowsTable, Rows
  <2>5. StatusMirrored'
    <3>1. \A b \in Admins : apc[b] = "committed" /\ plan[b].op = "status" =>
              apc'[b] = "committed" /\ plan'[b].op = "status"
      BY <1>1, <1>2 DEF EventInv, Typed
    <3> QED
      BY <1>1, <3>1 DEF EventInv, StatusMirrored
  <2> QED
    BY <2>1, <2>2, <2>4, <2>5 DEF EventInv
<1>3. CASE Fault /\ Finish(a, "failed") /\ UNCHANGED <<snap, todo>>
  <2>1. faults' < MaxFaults
    BY <1>3, FaultTyped DEF EventInv
  <2>2. Typed'
    BY <1>1, <1>3 DEF EventInv, Typed, Finish
  <2>3. Warmed'
    BY <1>1, <1>3 DEF EventInv, Typed, Warmed, Finish
  <2> QED
    BY <2>1, <2>2, <2>3 DEF EventInv, StockFollowsTable, StatusMirrored
<1> QED
  BY <1>2, <1>3 DEF ReadZones, GoOn

LEMMA WarmSound ==
    ASSUME EventInv, Fresh, NEW a \in Admins, NEW z \in Zones, WarmZone(a, z)
    PROVE  EventInv'
<1>1. /\ apc[a] = "warming" /\ z \in todo[a] /\ snap[a][z] \in Nat /\ snap[a][z] # None
      /\ plan[a] \in Plans
      /\ UNCHANGED <<event, capacity, mirror>> /\ outrun' \subseteq outrun
      /\ faults' \in 0..MaxFaults /\ (faults < MaxFaults => faults' < MaxFaults)
  BY FaultTyped, SizesAssumption DEF WarmZone, EventInv, Typed
<1>2. /\ stock' \in [Zones -> Int \cup {None}] /\ base' \in [Zones -> Int]
      /\ late' \subseteq Zones \cup {"mirror"} /\ foreign' \subseteq Zones
      /\ \A y \in Zones : stock[y] # None => stock'[y] # None
      /\ "mirror" \in late => "mirror" \in late'
      /\ \A y \in Zones \ {z} :
            base'[y] = base[y] /\ (y \in foreign \cup late => y \in foreign' \cup late')
  <2>1. CASE WarmupStock(a, z)
    <3>1. /\ stock' = [stock EXCEPT ![z] = snap[a][z]]
          /\ base' = [base EXCEPT ![z] = snap[a][z]]
          /\ foreign' = foreign \ {z} /\ late' \in {late \cup {z}, late \ {z}}
      BY <2>1 DEF WarmupStock
    <3>2. snap[a][z] \in Int
      BY <1>1
    <3>3. stock' \in [Zones -> Int \cup {None}] /\ base' \in [Zones -> Int]
      BY <3>1, <3>2 DEF EventInv, Typed
    <3>4. /\ \A y \in Zones : stock[y] # None => stock'[y] # None
          /\ \A y \in Zones \ {z} : base'[y] = base[y]
      BY <1>1, <3>1 DEF EventInv, Typed
    <3> QED
      BY <3>1, <3>3, <3>4, ZonesAssumption DEF EventInv, Typed
  <2>2. CASE UNCHANGED <<stock, base, foreign, late>>
    BY <2>2 DEF EventInv, Typed
  <2> QED
    BY <2>1, <2>2 DEF WarmZone
<1>3. CASE /\ NoFault
           /\ WarmupStock(a, z)
           /\ todo' = [todo EXCEPT ![a] = todo[a] \ {z}]
           /\ IF todo[a] = {z} THEN Finish(a, "ok") ELSE GoOn(a, "warming")
           /\ UNCHANGED snap
  <2>1. Typed'
    BY <1>1, <1>2, <1>3 DEF EventInv, Typed, Finish, GoOn
  <2>2. stock'[z] # None /\ (base'[z] = capacity[z] \/ z \in late')
    BY <1>1, <1>3 DEF WarmupStock, EventInv, Typed, Fresh
  <2>3. Warmed'
    <3>1. ASSUME NEW b \in Admins, b # a
          PROVE  /\ apc'[b] \in {"new", "committed"} => \A y \in Zones : snap'[b][y] = 0
                 /\ apc'[b] \in {"warming", "ok"} => \A y \in Zones :
                       snap'[b][y] # 0 /\ (apc'[b] = "ok" \/ y \notin todo'[b]) => stock'[y] # None
      <4>1. apc'[b] = apc[b] /\ snap'[b] = snap[b] /\ todo'[b] = todo[b]
        BY <1>3, <3>1 DEF EventInv, Typed, Finish, GoOn
      <4> QED
        BY <1>2, <4>1 DEF EventInv, Warmed
    <3>2. apc'[a] \in {"warming", "ok"} /\ snap'[a] = snap[a]
      BY <1>3 DEF EventInv, Typed, Finish, GoOn
    <3>3. ASSUME NEW y \in Zones, snap[a][y] # 0, apc'[a] = "ok" \/ y \notin todo'[a]
          PROVE  stock'[y] # None
      <4>1. y = z \/ y \notin todo[a]
        BY <1>1, <1>3, <3>3 DEF EventInv, Typed, Finish, GoOn
      <4> QED
        BY <1>1, <1>2, <2>2, <3>3, <4>1 DEF EventInv, Warmed
    <3> QED
      BY <3>1, <3>2, <3>3 DEF Warmed
  <2>4. StockFollowsTable'
    <3>1. ASSUME NEW b \in Admins, NEW y \in Zones \ {z}, WillWarm(b, y)
          PROVE  WillWarm(b, y)'
      BY <1>1, <1>3, <3>1 DEF WillWarm, EventInv, Typed, Finish, GoOn
    <3> QED
      BY <1>1, <1>2, <2>2, <3>1 DEF EventInv, StockFollowsTable, Rows
  <2>5. StatusMirrored'
    <3>1. \A b \in Admins : apc[b] = "committed" => apc'[b] = apc[b] /\ plan'[b] = plan[b]
      BY <1>1, <1>3 DEF EventInv, Typed, Finish, GoOn
    <3> QED
      BY <1>1, <1>2, <3>1 DEF EventInv, StatusMirrored
  <2> QED
    BY <2>1, <2>3, <2>4, <2>5 DEF EventInv
<1>4. CASE /\ Fault /\ Finish(a, "failed")
           /\ todo' = [todo EXCEPT ![a] = {}]
           /\ snap' = [snap EXCEPT ![a] = [y \in Zones |-> 0]]
  <2>1. faults' < MaxFaults
    BY <1>4, FaultTyped DEF EventInv
  <2>2. Typed'
    BY <1>1, <1>2, <1>4 DEF EventInv, Typed, Finish
  <2>3. Warmed'
    BY <1>1, <1>2, <1>4 DEF EventInv, Typed, Warmed, Finish
  <2> QED
    BY <2>1, <2>2, <2>3 DEF EventInv, StockFollowsTable, StatusMirrored
<1> QED
  BY <1>3, <1>4 DEF WarmZone

LEMMA MirrorSound ==
    ASSUME EventInv, Fresh, NEW a \in Admins, MirrorStatus(a)
    PROVE  EventInv'
<1>1. /\ apc[a] = "committed" /\ plan[a].op = "status" /\ plan[a] \in Plans
      /\ UNCHANGED <<event, capacity, stock, base, foreign, snap, todo>>
      /\ outrun' \subseteq outrun
      /\ faults' \in 0..MaxFaults /\ (faults < MaxFaults => faults' < MaxFaults)
  BY FaultTyped DEF MirrorStatus, EventInv, Typed
<1>2. plan[a].status \in Statuses
  BY <1>1 DEF Plans
<1>3. /\ mirror' \in Statuses \cup {None} /\ late' \subseteq Zones \cup {"mirror"}
      /\ \A z \in Zones : z \in late => z \in late'
  BY <1>2, ZonesAssumption DEF MirrorStatus, SetEventStatus, EventInv, Typed
<1>4. CASE NoFault /\ SetEventStatus(a) /\ Finish(a, "ok")
  <2>1. Typed'
    BY <1>1, <1>3, <1>4 DEF EventInv, Typed, Finish
  <2>2. Warmed'
    BY <1>1, <1>4 DEF EventInv, Typed, Warmed, Finish
  <2>3. StatusMirrored'
    BY <1>1, <1>4 DEF SetEventStatus, StatusMirrored, Fresh
  <2>4. StockFollowsTable'
    <3>1. ASSUME NEW b \in Admins, NEW z \in Zones, WillWarm(b, z)
          PROVE  WillWarm(b, z)'
      BY <1>1, <1>4, <3>1 DEF WillWarm, EventInv, Typed, Finish
    <3> QED
      BY <1>1, <1>3, <3>1 DEF EventInv, StockFollowsTable, Rows
  <2> QED
    BY <2>1, <2>2, <2>3, <2>4 DEF EventInv
<1>5. CASE Fault /\ Finish(a, "failed")
  <2>1. faults' < MaxFaults
    BY <1>5, FaultTyped DEF EventInv
  <2>2. Typed'
    BY <1>1, <1>3, <1>5 DEF EventInv, Typed, Finish
  <2>3. Warmed'
    BY <1>1, <1>5 DEF EventInv, Typed, Warmed, Finish
  <2> QED
    BY <2>1, <2>2, <2>3 DEF EventInv, StockFollowsTable, StatusMirrored
<1> QED
  BY <1>4, <1>5 DEF MirrorStatus

LEMMA ReserveSound ==
    ASSUME EventInv, NEW z \in Zones, Reserve(z)
    PROVE  EventInv'
<1>1. /\ stock' \in [Zones -> Int \cup {None}]
      /\ \A y \in Zones : stock[y] # None => stock'[y] # None
      /\ UNCHANGED <<event, capacity, mirror, base, foreign, late, adminVars, outrun, faults>>
  <2>1. stock[z] - 1 \in Int /\ stock[z] - 1 # None
    BY SizesAssumption DEF Reserve, EventInv, Typed
  <2>2. stock' = [stock EXCEPT ![z] = stock[z] - 1]
    BY DEF Reserve
  <2> QED
    BY <2>1, <2>2 DEF Reserve, EventInv, Typed
<1>2. Typed' /\ Warmed'
  BY <1>1 DEF EventInv, Typed, Warmed, adminVars
<1>3. StockFollowsTable' /\ StatusMirrored'
  BY <1>1 DEF EventInv, StockFollowsTable, StatusMirrored, Rows, WillWarm, adminVars
<1> QED
  BY <1>2, <1>3 DEF EventInv

LEMMA SetSound ==
    ASSUME EventInv, NEW z \in Zones, NEW n \in Stocks, SetStock(z, n)
    PROVE  EventInv'
<1>1. n \in Int /\ n # None /\ z # "mirror"
  BY SizesAssumption, StocksAssumption, ZonesAssumption
<1>2. /\ stock' = [stock EXCEPT ![z] = n] /\ base' = [base EXCEPT ![z] = n]
      /\ foreign' = foreign \cup {z} /\ late' = late \ {z}
      /\ UNCHANGED <<event, capacity, mirror, adminVars, outrun, faults>>
  BY DEF SetStock
<1>3. Typed' /\ Warmed'
  BY <1>1, <1>2 DEF EventInv, Typed, Warmed, adminVars
<1>4. StockFollowsTable'
  <2>1. \A y \in Zones \ {z} :
            base'[y] = base[y] /\ (y \in foreign \cup late => y \in foreign' \cup late')
    BY <1>2 DEF EventInv, Typed
  <2>2. z \in foreign'
    BY <1>2
  <2> QED
    BY <1>2, <2>1, <2>2 DEF EventInv, StockFollowsTable, Rows, WillWarm, adminVars
<1>5. StatusMirrored'
  BY <1>1, <1>2 DEF EventInv, StatusMirrored, adminVars
<1> QED
  BY <1>3, <1>4, <1>5 DEF EventInv

-----------------------------------------------------------------------------
LEMMA FreshStep ==
    ASSUME Typed, Fresh, [EventNext]_eventVars
    PROVE  Fresh'
<1>0. CASE UNCHANGED eventVars
  BY <1>0 DEF eventVars, redisVars, adminVars, Fresh
<1>1. ASSUME NEW a \in Admins, NEW caps \in ZoneList, NEW s \in Statuses, CreateEvent(a, caps, s)
      PROVE  Fresh'
  <2> DEFINE p == [op |-> "create", named |-> Named(caps), status |-> None]
  <2>1. /\ event = None /\ event' \in {event, s} /\ s # None
        /\ \/ event' = s /\ apc' = [apc EXCEPT ![a] = "committed"] /\ plan' = [plan EXCEPT ![a] = p]
           \/ apc' = [apc EXCEPT ![a] = "failed"]
        /\ p.op = "create"
    BY <1>1, StatusesAssumption DEF CreateEvent, Transact, Finish
  <2> HIDE DEF p
  <2>2. /\ \A b \in Admins \ {a} : apc'[b] \notin {"committed", "warming"}
        /\ \/ event' = s /\ apc'[a] = "committed" /\ plan'[a] = p
           \/ apc'[a] = "failed"
    BY <2>1 DEF Fresh, Typed
  <2> QED
    BY <2>1, <2>2 DEF Fresh
<1>2. ASSUME NEW a \in Admins, NEW caps \in ZoneList, UpdateZones(a, caps)
      PROVE  Fresh'
  <2> DEFINE p == [op |-> "zones", named |-> Named(caps), status |-> None]
  <2>1. /\ event # None /\ event' = event /\ snap' = snap /\ todo' = todo
        /\ \/ apc' = [apc EXCEPT ![a] = "committed"] /\ plan' = [plan EXCEPT ![a] = p]
           \/ apc' = [apc EXCEPT ![a] = "failed"] /\ plan' = [plan EXCEPT ![a] = None]
        /\ \/ outrun' = outrun \cup {b \in Admins : apc[b] = "warming"}
           \/ outrun' = outrun /\ capacity' = capacity
        /\ p.op = "zones"
    BY <1>2 DEF UpdateZones, Transact, Finish
  <2> HIDE DEF p
  <2>2. /\ \A b \in Admins \ {a} : apc'[b] = apc[b] /\ plan'[b] = plan[b]
        /\ (apc'[a] = "committed" /\ plan'[a] = p) \/ apc'[a] = "failed"
    BY <2>1 DEF Typed
  <2> QED
    BY <2>1, <2>2 DEF Fresh
<1>3. ASSUME NEW a \in Admins, NEW s \in Statuses, UpdateEventStatus(a, s)
      PROVE  Fresh'
  <2> DEFINE p == [op |-> "status", named |-> {}, status |-> s]
  <2>1. /\ event # None /\ s # None /\ snap' = snap /\ todo' = todo /\ capacity' = capacity
        /\ \/ /\ apc' = [apc EXCEPT ![a] = "committed"] /\ plan' = [plan EXCEPT ![a] = p]
              /\ event' = s
           \/ apc' = [apc EXCEPT ![a] = "failed"] /\ plan' = [plan EXCEPT ![a] = None]
        /\ \/ /\ outrun' = outrun \cup {b \in Admins : apc[b] = "committed" /\ plan[b].op = "status"}
              /\ event' = s
           \/ outrun' = outrun /\ event' = event
        /\ apc[a] = "new" /\ p.status = s
    BY <1>3, StatusesAssumption DEF UpdateEventStatus, Transact, Finish
  <2> HIDE DEF p
  <2>2. /\ \A b \in Admins \ {a} : apc'[b] = apc[b] /\ plan'[b] = plan[b]
        /\ (apc'[a] = "committed" /\ plan'[a] = p /\ event' = s) \/ apc'[a] = "failed"
    BY <2>1 DEF Typed
  <2> QED
    BY <2>1, <2>2 DEF Fresh
<1>4. ASSUME NEW a \in Admins, ReadZones(a)
      PROVE  Fresh'
  <2>1. /\ event' = event /\ capacity' = capacity /\ outrun' = outrun
        /\ apc[a] = "committed" /\ plan[a].op \in {"create", "zones"}
        /\ \/ /\ snap' = [snap EXCEPT ![a] = capacity] /\ todo' = [todo EXCEPT ![a] = Rows]
              /\ apc' = [apc EXCEPT ![a] = "warming"] /\ plan' = plan
           \/ /\ snap' = snap /\ todo' = todo
              /\ apc' = [apc EXCEPT ![a] = "failed"] /\ plan' = [plan EXCEPT ![a] = None]
    BY <1>4 DEF ReadZones, redisVars, GoOn, Finish
  <2>2. /\ \A b \in Admins \ {a} :
              apc'[b] = apc[b] /\ plan'[b] = plan[b] /\ snap'[b] = snap[b] /\ todo'[b] = todo[b]
        /\ (apc'[a] = "warming" /\ snap'[a] = capacity) \/ apc'[a] = "failed"
    BY <2>1 DEF Typed
  <2> QED
    BY <2>1, <2>2 DEF Fresh
<1>5. ASSUME NEW a \in Admins, NEW z \in Zones, WarmZone(a, z)
      PROVE  Fresh'
  <2>1. /\ event' = event /\ capacity' = capacity /\ apc[a] = "warming"
        /\ outrun' = IF apc'[a] = "warming" THEN outrun ELSE outrun \ {a}
        /\ \/ /\ snap' = snap /\ todo' = [todo EXCEPT ![a] = todo[a] \ {z}]
              /\ \/ apc' = [apc EXCEPT ![a] = "ok"] /\ plan' = [plan EXCEPT ![a] = None]
                 \/ apc' = [apc EXCEPT ![a] = "warming"] /\ plan' = plan
           \/ /\ todo' = [todo EXCEPT ![a] = {}]
              /\ snap' = [snap EXCEPT ![a] = [y \in Zones |-> 0]]
              /\ apc' = [apc EXCEPT ![a] = "failed"] /\ plan' = [plan EXCEPT ![a] = None]
    BY <1>5 DEF WarmZone, GoOn, Finish
  <2>2. /\ \A b \in Admins \ {a} :
              apc'[b] = apc[b] /\ plan'[b] = plan[b] /\ snap'[b] = snap[b] /\ todo'[b] = todo[b]
        /\ \/ apc'[a] = "warming" /\ snap'[a] = snap[a] /\ todo'[a] \subseteq todo[a]
           \/ apc'[a] \in {"ok", "failed"}
    BY <2>1 DEF Typed
  <2> QED
    BY <2>1, <2>2 DEF Fresh
<1>6. ASSUME NEW a \in Admins, MirrorStatus(a)
      PROVE  Fresh'
  <2>1. /\ event' = event /\ capacity' = capacity /\ snap' = snap /\ todo' = todo
        /\ apc[a] = "committed" /\ outrun' = outrun \ {a}
        /\ apc' \in {[apc EXCEPT ![a] = "ok"], [apc EXCEPT ![a] = "failed"]}
        /\ plan' = [plan EXCEPT ![a] = None]
    BY <1>6 DEF MirrorStatus, Finish
  <2>2. /\ \A b \in Admins \ {a} : apc'[b] = apc[b] /\ plan'[b] = plan[b]
        /\ apc'[a] \in {"ok", "failed"}
    BY <2>1 DEF Typed
  <2> QED
    BY <2>1, <2>2 DEF Fresh
<1>7. ASSUME NEW z \in Zones, Reserve(z) \/ \E n \in Stocks : SetStock(z, n)
      PROVE  Fresh'
  BY <1>7 DEF Reserve, SetStock, adminVars, Fresh
<1> QED
  BY <1>0, <1>1, <1>2, <1>3, <1>4, <1>5, <1>6, <1>7 DEF EventNext

LEMMA EventStart == EventInit => EventInv /\ Fresh
<1> SUFFICES ASSUME EventInit PROVE EventInv /\ Fresh
  OBVIOUS
<1>1. Typed
  BY EventBoundsAssumption DEF EventInit, Typed
<1>2. Warmed /\ Fresh /\ StockFollowsTable /\ StatusMirrored
  BY DEF EventInit, Warmed, Fresh, StockFollowsTable, StatusMirrored, Rows
<1> QED
  BY <1>1, <1>2 DEF EventInv

LEMMA EventStep ==
    ASSUME EventInv, Fresh, [EventNext]_eventVars
    PROVE  EventInv'
<1>1. CASE UNCHANGED eventVars
  BY <1>1 DEF eventVars, redisVars, adminVars, EventInv, Typed, Warmed, StockFollowsTable,
       StatusMirrored, Rows, WillWarm
<1>2. ASSUME NEW a \in Admins, NEW caps \in ZoneList,
             UpdateZones(a, caps) \/ \E s \in Statuses : CreateEvent(a, caps, s)
      PROVE  EventInv'
  BY <1>2, ZonesSound, CreateSound
<1>3. ASSUME NEW a \in Admins,
             \/ \E s \in Statuses : UpdateEventStatus(a, s)
             \/ ReadZones(a) \/ MirrorStatus(a)
             \/ \E z \in Zones : WarmZone(a, z)
      PROVE  EventInv'
  BY <1>3, StatusSound, ReadSound, MirrorSound, WarmSound
<1> QED
  BY <1>1, <1>2, <1>3, ReserveSound, SetSound DEF EventNext

LEMMA EventInductive == EventSpec => []EventInv /\ []Fresh
<1>1. EventInv => Typed
  BY DEF EventInv
<1> QED
  BY <1>1, EventStart, EventStep, FreshStep, PTL DEF EventSpec

\* Every variable keeps its type; no zone has less than no capacity, whatever
\* its counter is set to.
THEOREM EventTyping == EventSpec => []EventTypeOK
<1>1. EventInv => EventTypeOK
  BY DEF EventInv, Typed, EventTypeOK
<1> QED
  BY <1>1, EventInductive, PTL

\* The stock of every zone was last set to the capacity in the table, but for
\* zones /tickets/warmup has set, requests that were overtaken, failures and
\* requests still at work.
THEOREM StockFollows == EventSpec => []StockFollowsTable
<1>1. EventInv => StockFollowsTable
  BY DEF EventInv
<1> QED
  BY <1>1, EventInductive, PTL

\* Success means that every zone the request read is on sale, whatever failed
\* or overlapped before and since.
THEOREM SuccessIsOnSale == EventSpec => []SuccessMeansOnSale
<1>1. EventInv => SuccessMeansOnSale
  BY DEF EventInv, Warmed, SuccessMeansOnSale
<1> QED
  BY <1>1, EventInductive, PTL

\* The mirror follows the status, with the same exceptions as the stock.
THEOREM StatusFollows == EventSpec => []StatusMirrored
<1>1. EventInv => StatusMirrored
  BY DEF EventInv
<1> QED
  BY <1>1, EventInductive, PTL

-----------------------------------------------------------------------------
(* Admins who take turns.  Without overlaps and failures no request is     *)
(* overtaken, so nothing is late; the mirror is missing only until the     *)
(* status is first moved.                                                  *)

Busy(a) == apc[a] \in {"committed", "warming"}

OneAdminAtATime == \A a, b \in Admins : Busy(a) /\ Busy(b) => a = b

WillMirror(a) == apc[a] = "committed" /\ plan[a].op = "status"

InTurn ==
    /\ outrun = {}
    /\ late \subseteq {"mirror"}
    /\ event = None => mirror = None
    /\ mirror \in {event, None} \/ \E a \in Admins : WillMirror(a)

\* A transaction of a, which nobody overlaps.
LEMMA TransactionInTurn ==
    ASSUME Typed, OneAdminAtATime', NEW a \in Admins, NEW p,
           apc[a] = "new", apc' = [apc EXCEPT ![a] = "committed"],
           plan' = [plan EXCEPT ![a] = p]
    PROVE  /\ apc'[a] = "committed" /\ plan'[a] = p
           /\ \A b \in Admins \ {a} :
                 ~Busy(b) /\ apc'[b] \notin {"committed", "warming"}
<1>1. apc'[a] = "committed" /\ plan'[a] = p
  BY DEF Typed
<1>2. ASSUME NEW b \in Admins, b # a
      PROVE  ~Busy(b) /\ apc'[b] \notin {"committed", "warming"}
  <2>1. apc'[b] = apc[b]
    BY <1>2 DEF Typed
  <2> QED
    BY <1>1, <1>2, <2>1 DEF OneAdminAtATime, Busy
<1> QED
  BY <1>1, <1>2

LEMMA InTurnStep ==
    ASSUME Typed, Typed', Fresh, OneAdminAtATime', InTurn, EventNext,
           faults = MaxFaults, faults' = MaxFaults
    PROVE  InTurn'
<1>0. ~Fault
  BY EventBoundsAssumption DEF Fault
<1>1. ASSUME NEW a \in Admins, NEW caps \in ZoneList, NEW s \in Statuses, CreateEvent(a, caps, s)
      PROVE  InTurn'
  <2>1. /\ event = None /\ event' = s /\ late' = late \cup {"mirror"} /\ mirror' = mirror
        /\ outrun' = outrun
    BY <1>0, <1>1 DEF CreateEvent, Transact
  <2>2. mirror' = None /\ event' # None
    BY <2>1, StatusesAssumption DEF InTurn
  <2> QED
    BY <2>1, <2>2 DEF InTurn
<1>2. ASSUME NEW a \in Admins, NEW caps \in ZoneList, UpdateZones(a, caps)
      PROVE  InTurn'
  <2> DEFINE p == [op |-> "zones", named |-> Named(caps), status |-> None]
  <2>1. /\ event # None /\ event' = event /\ late' = late /\ mirror' = mirror
        /\ apc[a] = "new" /\ apc' = [apc EXCEPT ![a] = "committed"]
        /\ plan' = [plan EXCEPT ![a] = p]
        /\ outrun' = outrun \cup {b \in Admins : apc[b] = "warming"}
    BY <1>0, <1>2 DEF UpdateZones, Transact
  <2> HIDE DEF p
  <2>2. \A b \in Admins : apc[b] # "warming" /\ ~WillMirror(b)
    BY <2>1, TransactionInTurn DEF Busy, WillMirror
  <2> QED
    BY <2>1, <2>2 DEF InTurn
<1>3. ASSUME NEW a \in Admins, NEW s \in Statuses, UpdateEventStatus(a, s)
      PROVE  InTurn'
  <2> DEFINE p == [op |-> "status", named |-> {}, status |-> s]
  <2>1. /\ event # None /\ event' = s /\ late' = late
        /\ apc[a] = "new" /\ apc' = [apc EXCEPT ![a] = "committed"]
        /\ plan' = [plan EXCEPT ![a] = p] /\ p.op = "status"
        /\ outrun' = outrun \cup {b \in Admins : apc[b] = "committed" /\ plan[b].op = "status"}
    BY <1>0, <1>3 DEF UpdateEventStatus, Transact
  <2> HIDE DEF p
  <2>2. /\ apc'[a] = "committed" /\ plan'[a] = p
        /\ \A b \in Admins : apc[b] # "committed"
    BY <2>1, TransactionInTurn DEF Busy
  <2>3. WillMirror(a)' /\ event' # None
    BY <2>1, <2>2, StatusesAssumption DEF WillMirror
  <2> QED
    BY <2>1, <2>2, <2>3 DEF InTurn
<1>4. ASSUME NEW a \in Admins, ReadZones(a)
      PROVE  InTurn'
  <2>1. /\ event' = event /\ mirror' = mirror /\ late' = late /\ outrun' = outrun
        /\ plan' = plan /\ plan[a].op \in {"create", "zones"}
        /\ apc' = [apc EXCEPT ![a] = "warming"]
    BY <1>0, <1>4 DEF ReadZones, redisVars, GoOn
  <2>2. \A b \in Admins : WillMirror(b)' = WillMirror(b)
    BY <2>1 DEF WillMirror, Typed
  <2> QED
    BY <2>1, <2>2 DEF InTurn
<1>5. ASSUME NEW a \in Admins, NEW z \in Zones, WarmZone(a, z)
      PROVE  InTurn'
  <2>1. /\ event' = event /\ mirror' = mirror /\ outrun' \subseteq outrun
        /\ late' = IF a \in outrun /\ snap[a][z] # capacity[z] THEN late \cup {z} ELSE late \ {z}
        /\ apc[a] = "warming"
    BY <1>0, <1>5 DEF WarmZone, WarmupStock
  <2>2. late' \subseteq {"mirror"}
    BY <2>1 DEF InTurn
  <2>3. /\ apc'[a] \in {"warming", "ok"}
        /\ \A b \in Admins \ {a} : apc'[b] = apc[b] /\ plan'[b] = plan[b]
    BY <1>0, <1>5 DEF WarmZone, GoOn, Finish, Typed
  <2>4. \A b \in Admins : WillMirror(b)' = WillMirror(b)
    BY <2>1, <2>3 DEF WillMirror
  <2> QED
    BY <2>1, <2>2, <2>4 DEF InTurn
<1>6. ASSUME NEW a \in Admins, MirrorStatus(a)
      PROVE  InTurn'
  <2>1. /\ WillMirror(a) /\ mirror' = plan[a].status /\ event' = event
        /\ outrun' \subseteq outrun /\ late' \subseteq late \cup {"mirror"}
    BY <1>0, <1>6 DEF MirrorStatus, SetEventStatus, WillMirror
  <2>2. mirror' = event' /\ event # None
    BY <2>1 DEF InTurn, Fresh, WillMirror
  <2> QED
    BY <2>1, <2>2 DEF InTurn
<1>7. ASSUME NEW z \in Zones, Reserve(z) \/ \E n \in Stocks : SetStock(z, n)
      PROVE  InTurn'
  BY <1>7 DEF Reserve, SetStock, adminVars, InTurn, WillMirror
<1> QED
  BY <1>1, <1>2, <1>3, <1>4, <1>5, <1>6, <1>7 DEF EventNext

\* Admins who take turns keep Redis exact until a call fails: the stock of every
\* zone was last set to its capacity, unless a request is about to set it or
\* /tickets/warmup has set it, and the mirror is the status, or not there yet,
\* unless a request is about to write it.
THEOREM TurnsKeepRedisExact ==
    EventSpec /\ []OneAdminAtATime =>
        [](faults = MaxFaults =>
              /\ \A z \in Rows \ foreign :
                    base[z] = capacity[z] \/ \E a \in Admins : WillWarm(a, z)
              /\ mirror \in {event, None} \/ \E a \in Admins : WillMirror(a))
<1> DEFINE InTurnSoFar == faults = MaxFaults => InTurn
<1>1. EventInit => InTurnSoFar
  BY DEF EventInit, InTurn, WillMirror
<1>2. Typed /\ Typed' /\ Fresh /\ OneAdminAtATime' /\ InTurnSoFar /\ [EventNext]_eventVars => InTurnSoFar'
  <2> SUFFICES ASSUME Typed, Typed', Fresh, OneAdminAtATime', InTurnSoFar, [EventNext]_eventVars,
                      faults' = MaxFaults
               PROVE  InTurn'
    OBVIOUS
  <2>1. CASE UNCHANGED eventVars
    BY <2>1 DEF eventVars, redisVars, adminVars, InTurn, WillMirror
  <2>2. CASE EventNext
    <3>1. faults = MaxFaults
      <4>1. NoFault \/ Fault
        BY <2>2 DEF EventNext, UpdateZones, CreateEvent, UpdateEventStatus, Transact, ReadZones,
                    MirrorStatus, WarmZone, Reserve, SetStock, NoFault
      <4> QED
        BY <4>1, EventBoundsAssumption DEF NoFault, Fault, Typed
    <3> QED
      BY <2>2, <3>1, InTurnStep
  <2> QED
    BY <2>1, <2>2
<1>3. EventInv /\ InTurnSoFar =>
         (faults = MaxFaults =>
              /\ \A z \in Rows \ foreign :
                    base[z] = capacity[z] \/ \E a \in Admins : WillWarm(a, z)
              /\ mirror \in {event, None} \/ \E a \in Admins : WillMirror(a))
  BY ZonesAssumption, EventBoundsAssumption DEF EventInv, StockFollowsTable, InTurn, Rows
<1>4. EventInv => Typed
  BY DEF EventInv
<1> QED
  BY <1>1, <1>2, <1>3, <1>4, EventInductive, PTL DEF EventSpec
=============================================================================
