---------------------------- MODULE WaitingRoom ----------------------------
(***************************************************************************)
(* /queue/join and /queue/stream.  EnqueueUser stamps a join with the      *)
(* clock of the instance it runs on and adds it to the sorted set in a     *)
(* second step, so joins overtake each other in between.  The instances'   *)
(* clocks are wall clocks: they differ, and may be set back, by up to      *)
(* Drift.  A stream polls the user's rank and, in a later step, tells the  *)
(* client "It's your turn!".  Nothing but a successful reservation takes a *)
(* user out of the queue.                                                  *)
(***************************************************************************)
EXTENDS WaitingQueue

CONSTANTS
    Joins,      \* calls of /queue/join, numbered as they start; a user may send several
    Drift,      \* how far the clock of an instance may be ahead of another's
    Horizon,    \* bound: the last time a join is made
    None,       \* no join
    Before      \* pairs of user ids in the lexical order ZRANK breaks ties by

ASSUME DriftAssumption == Drift \in Nat /\ Horizon \in Nat
ASSUME JoinsAssumption == Joins \subseteq Nat
ASSUME UsersAssumption == IsFiniteSet(Users) /\ \A u \in Users : <<u, u>> \notin Before

VARIABLES
    jpc,        \* where a join is
    join,       \* its user, its stamp and (history) who was there before it
    stream,     \* a user's event stream: "closed", "open", or "head": has read position 1
    turn,       \* users told it is their turn, who have not acted on it yet
    told,       \* history: when a user was told of its place, 0: not yet
    ahead,      \* history: ahead[u]: who had been told of joining before u asked
    misled      \* history: users who joined again after their stream read position 1

roomVars == <<score, now, jpc, join, stream, turn, told, ahead, misled>>

JoinRecord == [user : Users, stamp : Nat \ {0}, after : SUBSET Users]

ASSUME JoinAssumption == None \notin JoinRecord

RoomInit ==
    /\ score = [u \in Users |-> 0]
    /\ now = 1
    /\ jpc = [j \in Joins |-> "new"]
    /\ join = [j \in Joins |-> None]
    /\ stream = [u \in Users |-> "closed"]
    /\ turn = {}
    /\ told = [u \in Users |-> 0]
    /\ ahead = [u \in Users |-> {}]
    /\ misled = {}

RoomTypeOK ==
    /\ score \in [Users -> Nat]
    /\ now \in Nat \ {0}
    /\ jpc \in [Joins -> {"new", "stamped", "added", "done"}]
    /\ join \in [Joins -> JoinRecord \cup {None}]
    /\ \A j \in Joins : jpc[j] \in {"stamped", "added"} <=> join[j] # None
    /\ stream \in [Users -> {"closed", "open", "head"}]
    /\ turn \subseteq Users
    /\ told \in [Users -> Nat]
    /\ \A u \in Users : told[u] > 0 => u \in Queued
    /\ ahead \in [Users -> SUBSET Users]
    /\ misled \subseteq Users

-----------------------------------------------------------------------------
\* Redis orders members by score, equal scores by the members' bytes.
InFront(u) ==
    {v \in Queued : score[v] < score[u] \/ (score[v] = score[u] /\ <<v, u>> \in Before)}

\* Mutant of GetQueuePosition: ZREVRANK, the latest join first.
PositionFromTheEnd(u) ==
    IF u \in Queued THEN Cardinality(Queued) - Cardinality(InFront(u)) ELSE -1

\* ZRANK + 1, or -1 when the user is not in the set.
GetQueuePosition(u) ==
    IF u \in Queued THEN 1 + Cardinality(InFront(u)) ELSE -1

-----------------------------------------------------------------------------
(* EnqueueUser reads the clock of its instance.  Scores are nanoseconds in *)
(* a float64, whose steps are 256 wide: stamps may be equal.  Whoever was  *)
(* told of its place more than Drift ago has been there before this join.  *)
TakeStamp(j, u) ==
    /\ jpc[j] = "new"
    /\ \A k \in Joins : k < j => jpc[k] # "new"
    /\ jpc' = [jpc EXCEPT ![j] = "stamped"]
    /\ now' \in now..Horizon
    /\ \E t \in now'..(now' + Drift) :
          join' = [join EXCEPT ![j] =
              [user |-> u, stamp |-> t,
               after |-> {v \in Users \ {u} : told[v] > 0 /\ told[v] + Drift < now'}]]
    /\ UNCHANGED <<score, stream, turn, told, ahead, misled>>

\* Mutant of AddToQueue: coarse scores, as of time.Now().Unix().
AddInSeconds(j) ==
    LET u == join[j].user IN
    /\ jpc[j] = "stamped"
    /\ jpc' = [jpc EXCEPT ![j] = "added"]
    /\ EnqueueUser(u, 1 + join[j].stamp \div 4)
    /\ turn' = turn \ {u}
    /\ told' = [told EXCEPT ![u] = 0]
    /\ join' = [k \in Joins |-> IF join[k] = None THEN None
                                ELSE [join[k] EXCEPT !.after = @ \ {u}]]
    /\ ahead' = [v \in Users |-> IF v = u THEN join[j].after ELSE ahead[v] \ {u}]
    /\ misled' = IF stream[u] = "head" THEN misled \cup {u} ELSE misled \ {u}
    /\ UNCHANGED <<now, stream>>

(* Its ZADD.  A user who was in the queue moves to the new score: joining  *)
(* again gives up the old place, and a turn that was not used.             *)
AddToQueue(j) ==
    LET u == join[j].user IN
    /\ jpc[j] = "stamped"
    /\ jpc' = [jpc EXCEPT ![j] = "added"]
    /\ EnqueueUser(u, join[j].stamp)
    /\ turn' = turn \ {u}
    /\ told' = [told EXCEPT ![u] = 0]
    /\ join' = [k \in Joins |-> IF join[k] = None THEN None
                                ELSE [join[k] EXCEPT !.after = @ \ {u}]]
    /\ ahead' = [v \in Users |-> IF v = u THEN join[j].after ELSE ahead[v] \ {u}]
    /\ misled' = IF stream[u] = "head" THEN misled \cup {u} ELSE misled \ {u}
    /\ UNCHANGED <<now, stream>>

\* Mutant of AnswerJoin: the error of ZADD is ignored.
AnswerAnyway(j) ==
    LET u == join[j].user IN
    /\ jpc[j] \in {"stamped", "added"}
    /\ jpc' = [jpc EXCEPT ![j] = "done"]
    /\ join' = [join EXCEPT ![j] = None]
    /\ told' = [told EXCEPT ![u] = now]
    /\ UNCHANGED <<score, now, stream, turn, ahead, misled>>

(* ZRANK and the answer with the queue number.                             *)
AnswerJoin(j) ==
    LET u == join[j].user IN
    /\ jpc[j] = "added"
    /\ jpc' = [jpc EXCEPT ![j] = "done"]
    /\ join' = [join EXCEPT ![j] = None]
    /\ told' = [told EXCEPT ![u] = IF u \in Queued THEN now ELSE 0]
    /\ UNCHANGED <<score, now, stream, turn, ahead, misled>>

(* ZADD, which may have taken effect, or ZRANK fails: the answer is 500.   *)
FailJoin(j) ==
    /\ jpc[j] \in {"stamped", "added"}
    /\ jpc' = [jpc EXCEPT ![j] = "done"]
    /\ join' = [join EXCEPT ![j] = None]
    /\ UNCHANGED <<score, now, stream, turn, told, ahead, misled>>

-----------------------------------------------------------------------------
(* The stream.  A poll that fails, or finds another position, tells the    *)
(* client no more than that.                                               *)
OpenStream(u) ==
    /\ stream[u] = "closed"
    /\ stream' = [stream EXCEPT ![u] = "open"]
    /\ UNCHANGED <<score, now, jpc, join, turn, told, ahead, misled>>

CloseStream(u) ==
    /\ stream[u] \in {"open", "head"}
    /\ stream' = [stream EXCEPT ![u] = "closed"]
    /\ UNCHANGED <<score, now, jpc, join, turn, told, ahead, misled>>

\* Mutant of PollRank: takes ZRANK's 0 for the head, as if 1 were not added.
PollForZero(u) ==
    /\ stream[u] = "open"
    /\ GetQueuePosition(u) = 0
    /\ stream' = [stream EXCEPT ![u] = "head"]
    /\ misled' = misled \ {u}
    /\ UNCHANGED <<score, now, jpc, join, turn, told, ahead>>

PollRank(u) ==
    /\ stream[u] = "open"
    /\ GetQueuePosition(u) = 1
    /\ stream' = [stream EXCEPT ![u] = "head"]
    /\ misled' = misled \ {u}
    /\ UNCHANGED <<score, now, jpc, join, turn, told, ahead>>

(* The position is written and flushed first, then "It's your turn!".      *)
TellTurn(u) ==
    /\ stream[u] = "head"
    /\ stream' = [stream EXCEPT ![u] = "closed"]
    /\ turn' = turn \cup {u}
    /\ UNCHANGED <<score, now, jpc, join, told, ahead, misled>>

(* A successful reservation; Reserve does not ask for the user's position. *)
Leave(u) ==
    /\ u \in Queued \cup turn
    /\ DequeueUser(u)
    /\ turn' = turn \ {u}
    /\ told' = [told EXCEPT ![u] = 0]
    /\ ahead' = [ahead EXCEPT ![u] = {}]
    /\ misled' = misled \ {u}
    /\ UNCHANGED <<now, jpc, join, stream>>

RoomNext ==
    \/ \E j \in Joins :
          \/ \E u \in Users : TakeStamp(j, u)
          \/ AddToQueue(j)
          \/ AnswerJoin(j)
          \/ FailJoin(j)
    \/ \E u \in Users :
          OpenStream(u) \/ CloseStream(u) \/ PollRank(u) \/ TellTurn(u) \/ Leave(u)

RoomSpec == RoomInit /\ [][RoomNext]_roomVars

(* An open stream polls every two seconds, whatever becomes of the joins.  *)
RoomFairness == \A u \in Users : WF_roomVars(PollRank(u) \/ TellTurn(u))

FairRoomSpec == RoomSpec /\ RoomFairness

-----------------------------------------------------------------------------
\* README's "Fair FIFO Queue": whoever had been told of its place more than
\* Drift before u even asked, and did not join again, is in front of u.
FairFIFO ==
    \A u \in Queued : \A v \in ahead[u] \cap Queued :
        GetQueuePosition(v) < GetQueuePosition(u)

\* No stream tells a client it is its turn while somebody who joined before it
\* is still waiting, and nobody gets in front of them later; but for a client
\* that joins again between the poll and the message, which loses its place.
TurnsInOrder == \A u \in turn \ misled : ahead[u] \cap Queued = {}

\* If from some time on every client that waits keeps a stream open, and every
\* client uses its turn, then no client waits for ever.
Waits(u) == u \in Queued \ turn
EveryoneGetsATurn ==
    (\A v \in Users : []<>(v \notin turn) /\ <>[](Waits(v) => stream[v] # "closed"))
        => \A u \in Users : []<>~Waits(u)
=============================================================================
