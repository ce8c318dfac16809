----------------------------- MODULE RoomProofs -----------------------------
(***************************************************************************)
(* The waiting room is first come, first served, for any number of users   *)
(* and joins and however far the instances' clocks are apart: the further, *)
(* the longer one client must have been there before another asks.  Past   *)
(* says what the order rests on: no stamp is further ahead than Drift, so  *)
(* whoever was told of its place more than Drift ago has a score behind    *)
(* every stamp taken from then on.  InOrder carries TurnsInOrder over the  *)
(* two steps of a stream that finds itself at the head.                    *)
(***************************************************************************)
EXTENDS WaitingRoom, FiniteSetTheorems, TLAPS

Past ==
    /\ \A u \in Users : score[u] <= now + Drift
    /\ \A u \in Users : told[u] > 0 => score[u] <= told[u] + Drift
    /\ \A j \in Joins : join[j] # None =>
          /\ join[j].stamp <= now + Drift
          /\ \A v \in join[j].after : v # join[j].user /\ score[v] < join[j].stamp
    /\ \A u \in Queued : \A v \in ahead[u] : score[v] < score[u]

InOrder ==
    \A u \in Users \ misled :
        u \in turn \/ stream[u] = "head" => ahead[u] \cap Queued = {}

RoomInv == RoomTypeOK /\ Past /\ InOrder

\* The operators' definitions, for a state and the next one.
USE DEF RoomTypeOK, Queued, JoinRecord

LEMMA RoomStart == RoomInit => RoomInv
BY DriftAssumption DEF RoomInit, RoomInv, Past, InOrder

LEMMA ClockTyped ==
    ASSUME NEW n \in Nat \ {0}, NEW d \in Nat, NEW t \in n..(n + d)
    PROVE  t \in Nat \ {0} /\ n <= t /\ t <= n + d
OBVIOUS

LEMMA StampKeeps ==
    ASSUME RoomInv, NEW j \in Joins, NEW u \in Users, TakeStamp(j, u)
    PROVE  RoomInv'
<1> USE DEF RoomInv
<1>1. PICK t \in now'..(now' + Drift) :
          join' = [join EXCEPT ![j] =
              [user |-> u, stamp |-> t,
               after |-> {v \in Users \ {u} : told[v] > 0 /\ told[v] + Drift < now'}]]
  BY DEF TakeStamp
<1> DEFINE rec == [user |-> u, stamp |-> t,
                   after |-> {v \in Users \ {u} : told[v] > 0 /\ told[v] + Drift < now'}]
<1>2. /\ now' \in Nat \ {0} /\ now <= now'
      /\ jpc' = [jpc EXCEPT ![j] = "stamped"]
      /\ UNCHANGED <<score, stream, turn, told, ahead, misled>>
  BY DriftAssumption DEF TakeStamp
<1>3. t \in Nat \ {0} /\ now' <= t /\ t <= now' + Drift
  BY <1>2, ClockTyped, DriftAssumption
<1>4. rec \in JoinRecord /\ rec.user = u /\ rec.stamp = t
      /\ \A v \in rec.after : v \in Users /\ v # u /\ told[v] > 0 /\ told[v] + Drift < now'
  BY <1>3
<1>5. join' = [join EXCEPT ![j] = rec]
  BY <1>1
<1> HIDE DEF rec
<1>6. join'[j] = rec /\ \A k \in Joins : k # j => join'[k] = join[k]
  BY <1>5
<1>7. RoomTypeOK'
  BY <1>2, <1>4, <1>5, <1>6, JoinAssumption
<1>8. \A v \in rec.after : score[v] < rec.stamp
  <2> TAKE v \in rec.after
  <2>1. score[v] <= told[v] + Drift /\ told[v] + Drift < now' /\ now' <= t
    BY <1>3, <1>4 DEF Past
  <2> QED
    BY <1>2, <1>3, <1>4, <2>1, DriftAssumption
<1>9. \A k \in Joins : join'[k] # None =>
          /\ join'[k].stamp <= now' + Drift
          /\ \A v \in join'[k].after : v # join'[k].user /\ score'[v] < join'[k].stamp
  <2> TAKE k \in Joins
  <2>1. CASE k = j
    BY <1>2, <1>3, <1>4, <1>6, <1>8, <2>1
  <2>2. CASE k # j
    <3>1. join[k] # None => join[k].stamp \in Nat
      OBVIOUS
    <3> QED
      BY <1>2, <1>6, <2>2, <3>1, DriftAssumption DEF Past
  <2> QED
    BY <2>1, <2>2
<1>10. Past'
  <2>1. \A w \in Users : score'[w] <= now' + Drift
    BY <1>2, DriftAssumption DEF Past
  <2> QED
    BY <1>2, <1>9, <2>1 DEF Past
<1> QED
  BY <1>2, <1>7, <1>10 DEF InOrder

LEMMA AddKeeps ==
    ASSUME RoomInv, NEW j \in Joins, AddToQueue(j)
    PROVE  RoomInv'
<1>1. PICK u \in Users : u = join[j].user
  BY DEF RoomInv, AddToQueue
<1>2. join[j] \in JoinRecord /\ join[j].stamp \in Nat \ {0} /\ join[j].stamp <= now + Drift
  BY DEF RoomInv, AddToQueue, Past
<1>3. /\ jpc' = [jpc EXCEPT ![j] = "added"] /\ jpc[j] = "stamped"
      /\ score' = [score EXCEPT ![u] = join[j].stamp]
      /\ turn' = turn \ {u}
      /\ told' = [told EXCEPT ![u] = 0]
      /\ join' = [k \in Joins |-> IF join[k] = None THEN None
                                  ELSE [join[k] EXCEPT !.after = @ \ {u}]]
      /\ ahead' = [v \in Users |-> IF v = u THEN join[j].after ELSE ahead[v] \ {u}]
      /\ misled' = IF stream[u] = "head" THEN misled \cup {u} ELSE misled \ {u}
      /\ UNCHANGED <<now, stream>>
  BY <1>1 DEF AddToQueue, EnqueueUser
<1>4. \A k \in Joins : join[k] # None =>
          /\ join'[k] \in JoinRecord
          /\ join'[k].user = join[k].user
          /\ join'[k].stamp = join[k].stamp
          /\ join'[k].after = join[k].after \ {u}
  BY <1>3 DEF RoomInv
<1>5. \A k \in Joins : join'[k] = None <=> join[k] = None
  BY <1>3, <1>4, JoinAssumption
<1>6. RoomTypeOK'
  <2>1. score' \in [Users -> Nat] /\ turn' \subseteq Users /\ ahead' \in [Users -> SUBSET Users]
        /\ told' \in [Users -> Nat] /\ misled' \subseteq Users
        /\ \A w \in Users : told'[w] > 0 => w \in Queued'
    BY <1>2, <1>3 DEF RoomInv
  <2>2. join' \in [Joins -> JoinRecord \cup {None}]
    BY <1>3, <1>4
  <2> QED
    BY <1>3, <1>5, <2>1, <2>2 DEF RoomInv
<1>7. Past'
  <2>1. \A w \in Users : score'[w] <= now' + Drift
    BY <1>2, <1>3 DEF RoomInv, Past
  <2>2. \A w \in Users : told'[w] > 0 => score'[w] <= told'[w] + Drift
    BY <1>3 DEF RoomInv, Past
  <2>3. \A k \in Joins : join'[k] # None =>
            /\ join'[k].stamp <= now' + Drift
            /\ \A v \in join'[k].after : v # join'[k].user /\ score'[v] < join'[k].stamp
    <3> SUFFICES ASSUME NEW k \in Joins, join'[k] # None
                 PROVE  /\ join'[k].stamp <= now' + Drift
                        /\ \A v \in join'[k].after :
                              v # join'[k].user /\ score'[v] < join'[k].stamp
      OBVIOUS
    <3>1. /\ join[k] # None /\ join'[k].user = join[k].user /\ join'[k].stamp = join[k].stamp
          /\ join'[k].after = join[k].after \ {u} /\ join[k].after \subseteq Users
      BY <1>4, <1>5 DEF RoomInv
    <3>2. /\ join[k].stamp <= now + Drift
          /\ \A v \in join[k].after : v # join[k].user /\ score[v] < join[k].stamp
      BY <3>1 DEF RoomInv, Past
    <3>3. \A v \in Users \ {u} : score'[v] = score[v]
      BY <1>3 DEF RoomInv
    <3> QED
      BY <1>3, <3>1, <3>2, <3>3
  <2>4. \A w \in Queued' : \A v \in ahead'[w] : score'[v] < score'[w]
    <3> TAKE w \in Queued'
    <3>1. CASE w = u
      BY <1>1, <1>2, <1>3, <3>1, JoinAssumption DEF RoomInv, Past
    <3>2. CASE w # u
      BY <1>3, <3>2 DEF RoomInv, Past
    <3> QED
      BY <3>1, <3>2
  <2> QED
    BY <2>1, <2>2, <2>3, <2>4 DEF Past
<1>8. InOrder'
  <2> SUFFICES ASSUME NEW w \in Users, w \notin misled', w \in turn' \/ stream'[w] = "head"
               PROVE  ahead'[w] \cap Queued' = {}
    BY DEF InOrder
  <2>1. w # u
    BY <1>3
  <2>2. w \notin misled /\ ahead'[w] = ahead[w] \ {u} /\ (w \in turn \/ stream[w] = "head")
    BY <1>3, <2>1
  <2>3. Queued' \subseteq Queued \cup {u}
    BY <1>3 DEF RoomInv
  <2> QED
    BY <2>2, <2>3 DEF RoomInv, InOrder
<1> QED
  BY <1>6, <1>7, <1>8 DEF RoomInv

LEMMA AnswerKeeps ==
    ASSUME RoomInv, NEW j \in Joins, AnswerJoin(j) \/ FailJoin(j)
    PROVE  RoomInv'
<1> USE DEF RoomInv
<1>1. PICK u \in Users : u = join[j].user
  BY DEF AnswerJoin, FailJoin
<1>2. /\ jpc' = [jpc EXCEPT ![j] = "done"]
      /\ join' = [join EXCEPT ![j] = None]
      /\ told' \in {told, [told EXCEPT ![u] = IF u \in Queued THEN now ELSE 0]}
      /\ UNCHANGED <<score, now, stream, turn, ahead, misled>>
  BY <1>1 DEF AnswerJoin, FailJoin
<1>3. told' \in [Users -> Nat] /\ \A w \in Users : told'[w] > 0 => w \in Queued'
  BY <1>2
<1>4. \A w \in Users : told'[w] > 0 => score'[w] <= told'[w] + Drift
  BY <1>2 DEF Past
<1>5. RoomTypeOK'
  BY <1>2, <1>3, JoinAssumption
<1>6. Past'
  BY <1>2, <1>4, JoinAssumption DEF Past
<1> QED
  BY <1>2, <1>5, <1>6 DEF InOrder

LEMMA PollKeeps ==
    ASSUME RoomInv, NEW u \in Users, PollRank(u)
    PROVE  RoomInv'
<1>1. u \in Queued /\ InFront(u) = {}
  <2>1. u \in Queued /\ 1 + Cardinality(InFront(u)) = 1
    BY DEF PollRank, GetQueuePosition
  <2>2. IsFiniteSet(InFront(u))
    BY UsersAssumption, FS_Subset DEF InFront
  <2>3. Cardinality(InFront(u)) = 0
    BY <2>1, <2>2, FS_CardinalityType
  <2> QED
    BY <2>1, <2>2, <2>3, FS_EmptySet
<1>2. ahead[u] \cap Queued = {}
  BY <1>1 DEF RoomInv, Past, InFront
<1>3. RoomTypeOK' /\ Past'
  BY <1>1 DEF RoomInv, PollRank, Past
<1>4. InOrder'
  BY <1>2 DEF RoomInv, PollRank, InOrder
<1> QED
  BY <1>3, <1>4 DEF RoomInv

LEMMA StreamKeeps ==
    ASSUME RoomInv, NEW u \in Users, OpenStream(u) \/ CloseStream(u) \/ TellTurn(u)
    PROVE  RoomInv'
<1>1. /\ stream' \in [Users -> {"closed", "open", "head"}] /\ turn' \subseteq Users
      /\ \A w \in Users : w \in turn' \/ stream'[w] = "head" => w \in turn \/ stream[w] = "head"
      /\ UNCHANGED <<score, now, jpc, join, told, ahead, misled>>
  BY DEF RoomInv, OpenStream, CloseStream, TellTurn
<1> QED
  BY <1>1 DEF RoomInv, Past, InOrder

LEMMA LeaveKeeps ==
    ASSUME RoomInv, NEW u \in Users, Leave(u)
    PROVE  RoomInv'
<1> USE DEF RoomInv, Leave, DequeueUser
<1>1. RoomTypeOK'
  OBVIOUS
<1>2. Queued' = Queued \ {u}
  OBVIOUS
<1>3. Past'
  <2>1. \A w \in Users : score'[w] <= score[w] /\ score[w] \in Nat /\ score'[w] \in Nat
    OBVIOUS
  <2>2. \A k \in Joins : join[k] # None => join[k].after \subseteq Users /\ join[k].stamp \in Nat
    OBVIOUS
  <2>3. \A w \in Queued' : score'[w] = score[w] /\ ahead'[w] = ahead[w]
    BY <1>2
  <2>4. \A w \in Users : told'[w] > 0 => told'[w] = told[w] /\ told[w] \in Nat
    OBVIOUS
  <2> QED
    BY <1>2, <2>1, <2>2, <2>3, <2>4, DriftAssumption DEF Past
<1>4. InOrder'
  BY <1>2 DEF InOrder
<1> QED
  BY <1>1, <1>3, <1>4

LEMMA RoomStep == ASSUME RoomInv, [RoomNext]_roomVars PROVE RoomInv'
<1>1. CASE UNCHANGED roomVars
  BY <1>1 DEF RoomInv, Past, InOrder, roomVars
<1> QED
  BY <1>1, StampKeeps, AddKeeps, AnswerKeeps, PollKeeps, StreamKeeps, LeaveKeeps DEF RoomNext

LEMMA RoomInductive == RoomSpec => []RoomInv
BY RoomStart, RoomStep, PTL DEF RoomSpec

LEMMA OrderedByJoining == ASSUME RoomInv PROVE FairFIFO
<1> SUFFICES ASSUME NEW u \in Queued, NEW v \in ahead[u] \cap Queued
             PROVE  GetQueuePosition(v) < GetQueuePosition(u)
  BY DEF FairFIFO
<1>1. score[v] < score[u] /\ v \in Users
  BY DEF RoomInv, Past
<1>2. \A w \in Users : score[w] \in Nat
  BY DEF RoomInv
<1>3. InFront(v) \subseteq InFront(u) /\ v \in InFront(u) /\ v \notin InFront(v)
  BY <1>1, <1>2, UsersAssumption DEF InFront
<1>4. IsFiniteSet(InFront(u))
  BY UsersAssumption, FS_Subset DEF InFront
<1>5. /\ Cardinality(InFront(v)) \in Nat /\ Cardinality(InFront(u)) \in Nat
      /\ Cardinality(InFront(v)) < Cardinality(InFront(u))
  <2>1. IsFiniteSet(InFront(v))
    BY <1>3, <1>4, FS_Subset
  <2>2. Cardinality(InFront(v)) <= Cardinality(InFront(u))
        /\ Cardinality(InFront(v)) # Cardinality(InFront(u))
    BY <1>3, <1>4, FS_Subset
  <2> QED
    BY <1>4, <2>1, <2>2, FS_CardinalityType
<1> QED
  BY <1>5 DEF GetQueuePosition

\* Scores, stamps and times keep their types; only somebody in the queue has
\* been told of a place.
THEOREM RoomTyping == RoomSpec => []RoomTypeOK
<1>1. RoomInv => RoomTypeOK
  BY DEF RoomInv
<1> QED
  BY <1>1, RoomInductive, PTL

\* README's "Fair FIFO Queue", as far as the clocks go: whoever was told of its
\* place more than Drift before another user asked stands in front of that user.
THEOREM FirstComeFirstServed == RoomSpec => []FairFIFO
BY RoomInductive, OrderedByJoining, PTL

\* The stream's "It's your turn!" overtakes nobody who was told of its place
\* more than Drift before that client asked.
THEOREM NobodyIsPassedOver == RoomSpec => []TurnsInOrder
<1>1. RoomInv => TurnsInOrder
  BY DEF RoomInv, InOrder, TurnsInOrder
<1> QED
  BY <1>1, RoomInductive, PTL
=============================================================================
