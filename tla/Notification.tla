---------------------------- MODULE Notification ----------------------------
(***************************************************************************)
(* The e-ticket mails.  Confirmations of payments and the resend endpoint  *)
(* announce orders on the topic order.paid; the notification workers of    *)
(* all instances, one consumer group, look the orders up and send mails.   *)
(* The group has no committed offset at first, and whoever gets the topic  *)
(* without one starts at its end.  Here payment is one step (Payment has   *)
(* its detail), and requests for other people's orders, which are refused  *)
(* before anything happens, are left out.                                  *)
(***************************************************************************)
EXTENDS Naturals, Sequences, FiniteSets

CONSTANTS
    Orders,
    Confirmations,   \* ConfirmPayment: webhooks and simulator calls
    Resends,         \* requests to POST /orders/:id/resend-email
    Workers,         \* instances of the server
    PreWarm,         \* the dummy message published at boot
    None,
    MaxFaults        \* bound: calls that fail, instances that stop, and moves
                     \* of the topic away from a consumer that lives

ASSUME DummyAssumption == PreWarm \notin Orders /\ None \notin Orders
ASSUME NobodyAssumption == None \notin Workers
ASSUME WorkersAssumption == IsFiniteSet(Workers)
ASSUME CallersAssumption == Confirmations \cap Resends = {}
ASSUME MailBoundsAssumption == MaxFaults \in Nat

Calls == Confirmations \cup Resends

VARIABLES
    status,      \* PostgreSQL: the status of an order
    cooling,     \* Redis: the orders whose resend_email:{id} exists
    lapses,      \* history: how often an order's key ran out
    paid,        \* Kafka: the topic order.paid
    rpc,         \* where a call is
    asks,        \* the order it is for
    slot,        \* history: the lapses before a resend was let through
    offset,      \* the group's committed offset, None before the first commit
    next,        \* messages behind the reader of the topic's consumer
    owner,       \* the instance the topic is assigned to
    dirty,       \* whether the consumer read what it has not committed
    first,       \* history: where reading began, for want of an offset
    wpc, wmsg,   \* where a worker's loop is, and with which message
    mailed,      \* the messages that made a mail
    faults,      \* failures and moves still allowed
    failed       \* history: whether a call failed or an instance stopped

callVars  == <<status, cooling, lapses, rpc, asks, slot>>
groupVars == <<offset, next, owner, dirty, first>>
loopVars  == <<wpc, wmsg, mailed>>
mailVars  == <<callVars, paid, groupVars, loopVars, faults, failed>>

NoFault == UNCHANGED <<faults, failed>>
Fault   == faults > 0 /\ faults' = faults - 1 /\ failed' = TRUE

\* All instances have booted, and nothing was announced before.
MailInit ==
    /\ status = [o \in Orders |-> "PENDING"]
    /\ cooling = {}
    /\ lapses = [o \in Orders |-> 0]
    /\ paid = [i \in 1..Cardinality(Workers) |-> PreWarm]
    /\ rpc = [c \in Calls |-> "new"]
    /\ asks = [c \in Calls |-> None]
    /\ slot = [r \in Resends |-> 0]
    /\ offset = None
    /\ next = 0
    /\ owner = None
    /\ dirty = FALSE
    /\ first = 0
    /\ wpc = [w \in Workers |-> "idle"]
    /\ wmsg = [w \in Workers |-> 0]
    /\ mailed = {}
    /\ faults = MaxFaults
    /\ failed = FALSE

-----------------------------------------------------------------------------
(* The announcing side.                                                    *)

GoOn(c, pc) == rpc' = [rpc EXCEPT ![c] = pc]

\* A confirmation: the order becomes COMPLETED, or another call's doing is found.
ConfirmPayment(c, o) ==
    /\ rpc[c] = "new"
    /\ status[o] \in {"PENDING", "COMPLETED"}
    /\ status' = [status EXCEPT ![o] = "COMPLETED"]
    /\ asks' = [asks EXCEPT ![c] = o]
    /\ GoOn(c, "publish")
    /\ UNCHANGED <<cooling, lapses, slot, paid, groupVars, loopVars, faults, failed>>

CheckIn(o) ==
    /\ status[o] = "COMPLETED"
    /\ status' = [status EXCEPT ![o] = "CHECKED_IN"]
    /\ UNCHANGED <<cooling, lapses, rpc, asks, slot, paid, groupVars, loopVars, faults, failed>>

\* ResendEmail: the order is looked up ...
ResendEmail(r, o) ==
    /\ rpc[r] = "new"
    /\ asks' = [asks EXCEPT ![r] = o]
    /\ \/ NoFault /\ GoOn(r, IF status[o] = "COMPLETED" THEN "limit" ELSE "refused")
       \/ Fault /\ GoOn(r, "failed")
    /\ UNCHANGED <<status, cooling, lapses, slot, paid, groupVars, loopVars>>

\* Mutant of TryAcquireRateLimit: EXISTS in the place of SETNX.
LookAtRateLimit(r) ==
    /\ rpc[r] = "limit"
    /\ NoFault
    /\ IF asks[r] \in cooling
       THEN GoOn(r, "refused") /\ UNCHANGED slot
       ELSE GoOn(r, "check") /\ slot' = [slot EXCEPT ![r] = lapses[asks[r]]]
    /\ UNCHANGED <<status, cooling, lapses, asks, paid, groupVars, loopVars>>

\* ... SETNX lets one request through; its error is a 500 ...
TryAcquireRateLimit(r) ==
    /\ rpc[r] = "limit"
    /\ \/ /\ asks[r] \notin cooling /\ NoFault
          /\ cooling' = cooling \cup {asks[r]}
          /\ slot' = [slot EXCEPT ![r] = lapses[asks[r]]]
          /\ GoOn(r, "check")
       \/ /\ asks[r] \in cooling /\ NoFault
          /\ GoOn(r, "refused")
          /\ UNCHANGED <<cooling, slot>>
       \/ /\ Fault
          /\ cooling' \in {cooling, cooling \cup {asks[r]}}
          /\ GoOn(r, "failed")
          /\ UNCHANGED slot
    /\ UNCHANGED <<status, lapses, asks, paid, groupVars, loopVars>>

\* ... and ResendNotification looks it up again, the minute already spent.
ResendNotification(r) ==
    /\ rpc[r] = "check"
    /\ \/ NoFault /\ GoOn(r, IF status[asks[r]] = "COMPLETED" THEN "publish" ELSE "failed")
       \/ Fault /\ GoOn(r, "failed")
    /\ UNCHANGED <<status, cooling, lapses, asks, slot, paid, groupVars, loopVars>>

RateLimitLapses(o) ==
    /\ o \in cooling
    /\ cooling' = cooling \ {o}
    /\ lapses' = [lapses EXCEPT ![o] = @ + 1]
    /\ UNCHANGED <<status, rpc, asks, slot, paid, groupVars, loopVars, faults, failed>>

Message(o, known) == [order |-> o, email |-> known]

\* publishOrderPaid: without the user's row the message has no address; an
\* error of the writer is logged, the message lost or written twice.
PublishOrderPaid(c) ==
    /\ rpc[c] = "publish"
    /\ \/ NoFault /\ paid' = Append(paid, Message(asks[c], TRUE))
       \/ Fault /\ paid' = Append(paid, Message(asks[c], FALSE))
       \/ Fault /\ UNCHANGED paid
       \/ Fault /\ LET m == Message(asks[c], TRUE) IN paid' = paid \o <<m, m>>
    /\ GoOn(c, "ok")
    /\ UNCHANGED <<status, cooling, lapses, asks, slot, groupVars, loopVars>>

-----------------------------------------------------------------------------
(* The mailing side.                                                       *)

Up(w) == wpc[w] # "down"

GoIdle(w) ==
    /\ wpc' = [wpc EXCEPT ![w] = "idle"]
    /\ wmsg' = [wmsg EXCEPT ![w] = 0]

\* Boot pre-warms the topic, then starts the worker.
Boot(w) ==
    /\ wpc[w] = "down"
    /\ paid' = Append(paid, PreWarm)
    /\ GoIdle(w)
    /\ UNCHANGED <<callVars, groupVars, mailed, faults, failed>>

\* An instance stops, on SIGTERM or by a crash, and leaves the group.
Stop(w) ==
    /\ Up(w)
    /\ Fault
    /\ wpc' = [wpc EXCEPT ![w] = "down"]
    /\ wmsg' = [wmsg EXCEPT ![w] = 0]
    /\ owner' = IF owner = w THEN None ELSE owner
    /\ UNCHANGED <<callVars, paid, offset, next, dirty, first, mailed>>

\* Mutant of StartOffset: every assignment starts at the end.
AlwaysLast == Len(paid)

\* Mutant of StartOffset: takes the offset for the last message that was read.
PastOffset == IF offset = None THEN Len(paid) ELSE offset + 1

\* StartOffset: kafka.LastOffset, for a group without an offset.
StartOffset == IF offset = None THEN Len(paid) ELSE offset

GiveTopic(w) ==
    /\ owner' = w
    /\ next' = StartOffset
    /\ dirty' = FALSE
    /\ first' = IF offset = None THEN StartOffset ELSE first
    /\ UNCHANGED <<callVars, paid, offset, loopVars>>

Assign(w) ==
    /\ Up(w)
    /\ owner = None
    /\ GiveTopic(w)
    /\ NoFault

\* The topic moves while its consumer may be busy with a message.
Rebalance(w) ==
    /\ Up(w)
    /\ owner \notin {None, w}
    /\ faults > 0
    /\ faults' = faults - 1
    /\ UNCHANGED failed
    /\ GiveTopic(w)

\* ReadMessage; dummies are skipped.
Read(w) ==
    /\ owner = w
    /\ wpc[w] = "idle"
    /\ next < Len(paid)
    /\ next' = next + 1
    /\ dirty' = TRUE
    /\ IF paid[next + 1] = PreWarm
       THEN UNCHANGED <<wpc, wmsg>>
       ELSE /\ wpc' = [wpc EXCEPT ![w] = "look"]
            /\ wmsg' = [wmsg EXCEPT ![w] = next + 1]
    /\ UNCHANGED <<callVars, paid, offset, owner, first, mailed, faults, failed>>

\* The reader's commit loop, every CommitInterval.
Commit ==
    /\ owner # None
    /\ dirty
    /\ offset' = next
    /\ dirty' = FALSE
    /\ UNCHANGED <<callVars, paid, next, owner, first, loopVars, faults, failed>>

\* Mutant of LookUp: leaves the message to the topic's new consumer.
LookUpIfOwner(w) ==
    /\ wpc[w] = "look"
    /\ NoFault
    /\ IF owner = w THEN wpc' = [wpc EXCEPT ![w] = "send"] /\ UNCHANGED wmsg ELSE GoIdle(w)
    /\ UNCHANGED <<callVars, paid, groupVars, mailed>>

\* handleEvent: without the order, or without an address in the message and
\* in the user's row, the message is given up.
LookUp(w) ==
    /\ wpc[w] = "look"
    /\ \/ /\ NoFault \/ (Fault /\ paid[wmsg[w]].email)
          /\ wpc' = [wpc EXCEPT ![w] = "send"]
          /\ UNCHANGED wmsg
       \/ Fault /\ GoIdle(w)
    /\ UNCHANGED <<callVars, paid, groupVars, mailed>>

\* SendETicketEmail; an error, before or after the mail left, is only logged.
Send(w) ==
    /\ wpc[w] = "send"
    /\ \/ mailed' = mailed \cup {wmsg[w]} /\ (NoFault \/ Fault)
       \/ UNCHANGED mailed /\ Fault
    /\ GoIdle(w)
    /\ UNCHANGED <<callVars, paid, groupVars>>

-----------------------------------------------------------------------------
MailNext ==
    \/ \E o \in Orders :
          \/ \E c \in Confirmations : ConfirmPayment(c, o)
          \/ \E r \in Resends : ResendEmail(r, o)
          \/ CheckIn(o)
          \/ RateLimitLapses(o)
    \/ \E r \in Resends : TryAcquireRateLimit(r) \/ ResendNotification(r)
    \/ \E c \in Calls : PublishOrderPaid(c)
    \/ \E w \in Workers :
          \/ Boot(w) \/ Stop(w) \/ Assign(w) \/ Rebalance(w)
          \/ Read(w) \/ LookUp(w) \/ Send(w)
    \/ Commit

MailSpec == MailInit /\ [][MailNext]_mailVars

\* The loops of running workers and the group's coordinator go on by themselves.
FairMailSpec ==
    /\ MailSpec
    /\ \A w \in Workers : WF_mailVars(Assign(w) \/ Read(w) \/ LookUp(w) \/ Send(w))

-----------------------------------------------------------------------------
MailTypeOK ==
    /\ status \in [Orders -> {"PENDING", "COMPLETED", "CHECKED_IN"}]
    /\ cooling \subseteq Orders
    /\ lapses \in [Orders -> Nat]
    /\ paid \in Seq([order : Orders, email : BOOLEAN] \cup {PreWarm})
    /\ rpc \in [Calls -> {"new", "limit", "check", "publish", "ok", "refused", "failed"}]
    /\ asks \in [Calls -> Orders \cup {None}]
    /\ \A c \in Calls : rpc[c] # "new" => asks[c] \in Orders
    /\ slot \in [Resends -> Nat]
    /\ offset \in 0..Len(paid) \cup {None}
    /\ next \in 0..Len(paid)
    /\ owner \in Workers \cup {None}
    /\ dirty \in BOOLEAN
    /\ first \in 0..Len(paid)
    /\ wpc \in [Workers -> {"down", "idle", "look", "send"}]
    /\ wmsg \in [Workers -> 0..Len(paid)]
    /\ mailed \subseteq 1..Len(paid)
    /\ faults \in 0..MaxFaults
    /\ failed \in BOOLEAN

\* Two resends of one order are never let through in the same minute: before
\* the second its rate limit has run out since the first, on whichever
\* instances the requests are handled.
LetThrough(r) == rpc[r] \in {"check", "publish", "ok"}
ResendsPaced ==
    \A r, q \in Resends :
        (r # q /\ LetThrough(r) /\ LetThrough(q) /\ asks[r] = asks[q]) => slot[r] # slot[q]

\* No announcement the group has put behind it is forgotten: it made a mail or
\* a worker has it in hand, unless some call failed.  (Offsets are committed
\* by a timer, before or after the message is handled, and topics move.)
CommittedIsHandled ==
    (offset # None /\ ~failed) =>
        \A i \in (first + 1)..offset :
            paid[i] = PreWarm \/ i \in mailed \/ \E w \in Workers : wmsg[w] = i

\* Once the group has an offset, every announcement after it eventually makes
\* a mail, however often the topic moves, unless some call fails.
AwaitsMail(i) ==
    /\ offset # None /\ i > offset
    /\ i \in 1..Len(paid) /\ paid[i] # PreWarm
AnnouncedIsMailed ==
    \A i \in 1..(Cardinality(Workers) + Cardinality(Calls)) : AwaitsMail(i) ~> (i \in mailed \/ failed)
=============================================================================
