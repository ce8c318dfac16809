---------------------------- MODULE WaitingQueue ----------------------------
(***************************************************************************)
(* The waiting room's sorted set in Redis, one per event: each user's      *)
(* score is the time its join was stamped with.                            *)
(***************************************************************************)
EXTENDS Integers, FiniteSets

CONSTANT Users      \* authenticated user ids

VARIABLES
    score,      \* event:{e}:queue ZSET, score of a user (0: not a member)
    now         \* the clock the scores are read from

queueVars == <<score, now>>

\* ZADD overwrites the score of a member that is already there.
EnqueueUser(u, t) == score' = [score EXCEPT ![u] = t]

DequeueUser(u) == score' = [score EXCEPT ![u] = 0]

Queued == {u \in Users : score[u] > 0}
=============================================================================
