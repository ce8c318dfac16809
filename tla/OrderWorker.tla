---------------------------- MODULE OrderWorker ----------------------------
(***************************************************************************)
(* The order.created consumer: OrderWorker.Start, one loop per instance,   *)
(* all in one consumer group.  ReadMessage queues the offset for a commit  *)
(* that happens up to a second later, on its own, so the commit may come   *)
(* before the message is processed or not at all; after a crash or a       *)
(* rebalance the next consumer starts at the committed offset.             *)
(***************************************************************************)
EXTENDS Reservation

VARIABLES
    wpc,    \* where an instance's loop is
    wmsg    \* the message it is working on

workerVars == <<wpc, wmsg>>

WorkerInit ==
    /\ wpc = [s \in Servers |-> "idle"]
    /\ wmsg = [s \in Servers |-> None]

WorkerTypeOK ==
    /\ wpc \in [Servers -> {"idle", "persist", "arm"}]
    /\ wmsg \in [Servers -> OrderIds \cup {None}]
    /\ \A s \in Servers : wpc[s] # "idle" => wmsg[s] \in OrderIds

\* Mutant of Ignored: the check is gone.
IgnoredNever(m) == FALSE

\* Mutant of Ignored: recognises the dummy by its id only.
IgnoredDummyOnly(m) == m = PreWarm

\* "Ignore dummy pre-warm events": also drops a reservation of 0 seats.
Ignored(m) == m = PreWarm \/ req[m].qty = 0

GoIdle(s) ==
    /\ wpc' = [wpc EXCEPT ![s] = "idle"]
    /\ wmsg' = [wmsg EXCEPT ![s] = None]

-----------------------------------------------------------------------------
\* Mutant of Assign: a group without an offset starts at the end of the topic.
AssignAtEnd(s) ==
    /\ Member(s)
    /\ owner = None
    /\ owner' = s
    /\ next' = IF committed = 0 THEN Len(log) ELSE committed
    /\ UNCHANGED <<workerVars, requestVars, log, committed, moves, stockVars, keyVars, queueVars, status, paid, phase, faults>>

(* The coordinator gives the topic to a member of the group when it has no *)
(* consumer, and may move it (a session timed out, a member joined) while  *)
(* the old consumer is still busy with a message.  Members count that have *)
(* stopped reading but not left the group.                                 *)
Assign(s) ==
    /\ Member(s)
    /\ owner = None
    /\ owner' = s
    /\ next' = committed
    /\ UNCHANGED <<workerVars, requestVars, log, committed, moves, stockVars, keyVars, queueVars, status, paid, phase, faults>>

Rebalance(s) ==
    /\ Member(s)
    /\ owner \notin {None, s}
    /\ moves > 0
    /\ moves' = moves - 1
    /\ owner' = s
    /\ next' = committed
    /\ UNCHANGED <<workerVars, requestVars, log, committed, stockVars, keyVars, queueVars, status, paid, phase, faults>>

Read(s) ==
    /\ Working(s)
    /\ owner = s
    /\ wpc[s] = "idle"
    /\ next < Len(log)
    /\ next' = next + 1
    /\ LET m == log[next + 1] IN
       IF Ignored(m)
       THEN UNCHANGED workerVars
       ELSE /\ wpc' = [wpc EXCEPT ![s] = "persist"]
            /\ wmsg' = [wmsg EXCEPT ![s] = m]
    /\ UNCHANGED <<requestVars, log, committed, owner, moves, stockVars, keyVars, queueVars, status, paid, phase, faults>>

(* The reader's commit loop, every CommitInterval.                         *)
Commit ==
    /\ owner # None
    /\ committed # next
    /\ committed' = next
    /\ UNCHANGED <<workerVars, requestVars, log, next, owner, moves, stockVars, keyVars, queueVars, status, paid, phase, faults>>

\* Mutant of Persist: takes a duplicate for success and goes on to arm.
PersistAcceptingDuplicates(s) ==
    /\ wpc[s] = "persist"
    /\ InsertOrder(wmsg[s]) \/ (status[wmsg[s]] # "none" /\ UNCHANGED status)
    /\ wpc' = [wpc EXCEPT ![s] = "arm"]
    /\ NoFault
    /\ UNCHANGED <<wmsg, requestVars, stockVars, keyVars, queueVars, topicVars, paid, phase>>

\* Mutant of Persist: tries a failed INSERT again instead of going on.
PersistOrRetry(s) ==
    /\ wpc[s] = "persist"
    /\ InsertOrder(wmsg[s])
    /\ wpc' = [wpc EXCEPT ![s] = "arm"]
    /\ NoFault
    /\ UNCHANGED <<wmsg, requestVars, stockVars, keyVars, queueVars, topicVars, paid, phase>>

(* The INSERT.  On any error (a duplicate id, the database, a reply lost   *)
(* after the row was written) the loop goes on to the next message.        *)
Persist(s) ==
    /\ wpc[s] = "persist"
    /\ \/ /\ InsertOrder(wmsg[s])
          /\ \/ NoFault /\ wpc' = [wpc EXCEPT ![s] = "arm"] /\ UNCHANGED wmsg
             \/ Fault /\ GoIdle(s)
       \/ /\ \/ status[wmsg[s]] # "none" /\ NoFault
             \/ status[wmsg[s]] = "none" /\ Fault
          /\ GoIdle(s)
          /\ UNCHANGED status
    /\ UNCHANGED <<requestVars, stockVars, keyVars, queueVars, topicVars, paid, phase>>

\* Mutant of Arm: leaves the timer to the topic's new consumer.
ArmIfOwner(s) ==
    /\ wpc[s] = "arm"
    /\ NoFault
    /\ IF owner = s THEN SetOrderExpiry(wmsg[s]) ELSE UNCHANGED timer
    /\ GoIdle(s)
    /\ UNCHANGED <<requestVars, hold, orphan, stockVars, queueVars, status, topicVars, paid, phase>>

(* SetOrderExpiry; a failure is only logged.                               *)
Arm(s) ==
    /\ wpc[s] = "arm"
    /\ \/ NoFault /\ SetOrderExpiry(wmsg[s])
       \/ Fault /\ UNCHANGED timer
    /\ GoIdle(s)
    /\ UNCHANGED <<requestVars, hold, orphan, stockVars, queueVars, status, topicVars, paid, phase>>

WorkerNext ==
    \/ Commit
    \/ \E s \in Servers : Assign(s) \/ Rebalance(s) \/ Read(s) \/ Persist(s) \/ Arm(s)
=============================================================================
