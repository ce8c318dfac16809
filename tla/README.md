# A formal model of the TicketPulse backend

TicketPulse sells seats for events. Several instances of one Go server share
Redis (stock counters, timers, the waiting room), PostgreSQL (the orders table)
and Kafka (two topics). Every promise the system makes, above all "no seat is
sold twice", has to survive the interleaving of HTTP handlers, a Kafka consumer
group, an expiry listener on every instance and a payment gateway, with calls
that fail half-way and processes that die. The modules here model that system in
TLA+, check it with TLC on small instances, and prove its central properties for
all instances with TLAPS. Paths below are relative to the repository's root
(`internal/...`, `cmd/...`).

## 1. Inventory

| Part | Code | State | Operations | Interacts with |
|---|---|---|---|---|
| Shared stores | `internal/repository/redis_repository.go`, `order_repository.go`, `lua/reserve_ticket.lua`, `pkg/messaging/kafka.go`, `internal/event/producer.go` | Redis keys, `orders`, two topics | one command or statement each | everybody |
| Ticket reservation | `internal/handler/ticket_handler.go` | a request in progress | check, script, dequeue, publish, hold | stores, order worker (topic) |
| Waiting room | `internal/handler/queue_handler.go` | a ZSET per event, open streams | join, stream, leave by reservation | reservation |
| Order worker | `internal/worker/order_worker.go` | consumer offset, message in work | read, INSERT, arm timer | Kafka, orders, timers |
| Expiration worker | `internal/worker/expiration_worker.go` | handlers in flight | cancel, restore stock; expired holds | Redis Pub/Sub, orders, stock |
| Payment | `internal/service/payment_service.go`, `internal/handler/payment_handler.go` | confirmations in flight | charge, mark paid, read back, clear timer, announce | orders, timers, `order.paid` |
| Gate | `order_repository.go` (`VerifyAndCheckInTicket`) | none | check in | orders |
| Server lifecycle | `cmd/api/main.go` | instances up, stopping or down | boot, shutdown, exit | all of the above |
| E-ticket notification | `internal/worker/notification_worker.go`, `email_sender.go`, `internal/handler/order_handler.go` | consumer offset, resend cooldown | consume, look up, mail; resend | `order.paid`, orders |
| Event administration | `internal/handler/event_handler.go`, `internal/repository/event_repository.go` | events, zones, status mirror | create, update zones, update status; `/tickets/warmup` writes the same counters | stock, PostgreSQL |
| News | `internal/service/news_service.go` and its handler and repository | articles, cached front page, cached articles | list, get, create, update, delete | Redis, PostgreSQL |
| Authentication | `internal/service/auth_service.go` and its handler, `internal/repository/user_repository.go` | users, one-time codes, resend cooldown | register, verify, resend, log in, change password | Redis, PostgreSQL, SMTP |
| User administration | `internal/handler/user_handler.go` | role and suspension of a user | update | PostgreSQL |
| Statistics, signatures, configuration, e-mail text, load test | remaining files | none of their own | reads, hashing, formatting | |

What makes each part correct, and what makes it hard:

* **Seats** (reservation, workers, payment together). Seats out of the stock
  belong to exactly one order and go back at most once. Hard because the stock
  is in Redis, the orders are in PostgreSQL, nothing is transactional across the
  two, every instance handles the same expiry, and neither the quantity of a
  request nor the number of a warm-up is checked.
* **Orders.** A row moves PENDING -> COMPLETED -> CHECKED_IN or PENDING ->
  CANCELLED. An unpaid order must not be forgotten: its timer in Redis is the
  only thing that ever cancels it. Hard because messages are delivered again, the
  offset may be committed before the work is done, and the timer is armed by a
  call of its own.
* **Payment.** A charge is for seats that are still held; ORDER_PAID is announced
  for paid orders only, and for all of them. Hard because a confirmation is four
  calls to three stores, several confirmations of one order overlap, and the
  gate and the expiry act in between.
* **Waiting room.** First come, first served, and the queue moves. Hard because a
  join takes its time stamp before it is added, on the wall clock of its instance,
  and a stream reads the position before it announces the turn.
* **Lifecycle.** The topic is always consumed by somebody. Hard because of
  crashes, shutdowns that cancel work in flight and may leave the reader open, and
  rebalances.
* **Notification.** What is announced is mailed; a client cannot have the mail
  sent more than once a minute. Hard because offsets are committed by a timer,
  a group without an offset starts at the end of the topic, and the cooldown is
  shared by all instances.
* **Events.** What Redis sells is what the table says. Hard because a request
  commits once and then writes Redis key by key, overlapping with other requests.
* **News.** The cache shows what the table holds. Hard because readers fill it
  with what they read before, and writers find the old slug by an earlier read.
* **Accounts.** Verification is final, a token follows it, a code is not used up
  in vain. Hard because every request looks first and writes later.

The complete list of hazards, each at its line, is in `PROJECT.json`.

## 2. Modules

```
WaitingQueue            the ZSET of the waiting room
  WaitingRoom           joins and streams              -> MCWaitingRoom
  TicketStore           Redis, orders, topics, instances
    Reservation         POST /tickets/reserve, warm-up, join
      OrderWorker       the order.created consumer group
      ExpirationWorker  expired keys
      Payment           charges, confirmations, the gate
        TicketPulse     the composition, with crashes and restarts
                                                       -> TicketPulseClaims -> MCTicketPulse
SeatLedger              what the pipeline promises about seats
Notification            order.paid, mails, resends     -> MCNotification
EventAdmin              events, zones, the mirror      -> MCEventAdmin
News                    articles and their cache       -> MCNews
Accounts                one address and its account    -> MCAccounts

TicketPulseProofs       types and provenance of the pipeline
  PipelineProofs        its seats, its orders
SeatLedgerProofs, RoomProofs, MailProofs, EventProofs, NewsProofs, AccountProofs
```

**TicketStore** has the shared state and one operator per Redis command, SQL
statement and publish; each is atomic, as the stores execute it. `warm` and
`stock` are the `event:{e}:zone:{z}:stock` keys, `timer` the live
`order:expire:{id}` keys, `hold` the `hold:...` keys, `orphan` the
`stock:{e}:{z}` counter that only expired holds write, `status` the column
`orders.status` ("none": no row), `log`/`next`/`committed`/`owner` the
`order.created` topic with its consumer group, `paid` the
`ticketpulse.order.paid` topic, `phase` the instances.

**Reservation, OrderWorker, ExpirationWorker, Payment** have the handlers. Each
has a program counter per request (`rpc`), instance (`wpc`), instance and order
(`epc`) or confirmation (`cpc`), and one action per call to a store, so the steps
of all of them interleave. A call is taken with `NoFault`, or spends a `Fault`
and then either had no effect or had its effect with the reply lost; what the
handler does then (log and go on, log and stop, answer 500) is the code's.
`Publish` may also write its message twice, which kafka-go's writer does when an
acknowledgement is lost.

**TicketPulse** composes them and adds the life of an instance. `Crash` stops
every handler and worker of an instance where it is. `Shutdown` cancels the
workers' context but lets requests finish; `Exit` waits for them, which may take
for ever (`app.Shutdown()` has no timeout, and open event streams are requests).
An order worker that is busy when its context is cancelled closes its reader on
the next round of its loop (phase `draining`); one that is blocked in
`ReadMessage`, the usual case, returns without closing it (`order_worker.go:68-71`;
phase `lingering`), and the library goes on sending heartbeats: the instance stays
in the group, keeps the topic, and may even be given it, until its process ends.

**SeatLedger** is the abstract specification: an order takes available seats, then
it is sold or released, and that is final. A zone may be opened again, which sets
what is available to any number, whatever is out; and an order may take a negative
number of seats, which adds them. `supplied` sums up what the openings have put on
sale. `TicketPulse!Fate` and `Claim` map the state of the pipeline to it.

**WaitingRoom** splits a join into reading the clock (`TakeStamp`), ZADD
(`AddToQueue`) and the answer (`AnswerJoin`), any of which may fail (`FailJoin`:
500, with or without the ZADD having taken effect). A stream reads the position
(`PollRank`) and announces the turn in a later step (`TellTurn`). The stamp of a
join is anything from the true time `now` to `Drift` beyond it: the wall clocks of
the instances differ, and may be set back, within that bound. History: `told[u]`,
when `u` was told of its place; `ahead[u]`, those who had been told more than
`Drift` before `u` asked, whom `u` has to let go first; `turn`, who has been told
"It's your turn!" and has not acted yet; `misled`, who joined again between the
poll and that message, so that the turn is not its own any more. In `Reservation`
the same queue appears with atomic joins: there it only matters that a reservation
removes its user.

**Notification** has the two producers of `order.paid` and its consumer group. A
resend is four calls: the lookup (`ResendEmail`), SETNX
(`TryAcquireRateLimit`), the second lookup (`ResendNotification`), the publish.
A worker reads, looks the order and the user up (`LookUp`) and mails (`Send`);
`Commit` is the reader's timer. `StartOffset` is where an assignment begins: the
committed offset, or the end of the topic if there is none. History: `first`,
where reading began for want of an offset, `slot[r]`, how often the order's
cooldown had run out when `r` was let through, and `failed`.

**EventAdmin** has the admin requests on one event: a transaction
(`CreateEvent`, `UpdateZones`, `UpdateEventStatus`), the read of all zones
(`ReadZones`), and one Redis write per step (`WarmZone`, `MirrorStatus`), while
`Reserve` sells and `SetStock`, which is `POST /tickets/warmup`
(`cmd/api/main.go:188-202`), SETs the same stock keys to any number. History:
`base`, what a stock key was last SET to; `foreign`, the zones whose key
`/tickets/warmup` set last; `outrun`, the requests that another commit has
overtaken while they were at work; `late`, the keys such a request has set to
something the table no longer says.

**News** has readers, who look in the cache (`Miss`), query (`Fetch`) and fill it
(`Store`), and admins, who look (`Load`, `PlanCreate`, `PlanUpdate`), write
(`Write`), read back (`ReadBack`) and delete keys one by one (`Invalidate`). An
`edition` counts the edits of an article. History: `excused`, the keys whose
staleness an overlap accounts for.

**Accounts** has the calls of the authentication API and `AdminUpdateUser` on one
address, a step per call of PostgreSQL, Redis or the mail server. A request keeps
the password it brought, or the code it drew, in `arg`. History: `newest`, the
code stored last, and `lapsed`, the codes whose five minutes ran out.

### Abstractions

* One event: every key contains the event id. Zones are independent keys too.
* One partition for `order.created`; a message is the order id, its fields are
  those of the request (`req`).
* The checks before the script that fail for reasons outside (a malformed body,
  PostgreSQL unreachable) leave no trace and are the same as no request.
* The ten minutes of a timer are not counted: a live key may lapse at any moment,
  so payments and expiries race in every order.
* The initial state is every instance booted and no message sent; the pre-warm
  message, ignored by every consumer, appears with `Restart`.
* `committed` moves to the position of the current consumer at any time: kafka-go
  commits on a timer, unrelated to the handler's progress. A consumer that lost
  the topic commits nothing more; the broker would reject its generation.
* Quantities of requests and numbers of warm-ups are any integers
  (`Quantities`, `Stocks` \subseteq Int), as in the code, which checks neither.
  Counters are unbounded: that DECRBY and INCRBY fail, and that the INSERT rejects
  a quantity beyond the column's type, is an overflow of 2^63 or 2^31. The second
  is a failed INSERT, and counts as a fault; the first is not modelled.
* `orders.expires_at`, prices and names are not modelled: nothing decides on them.
* The modules from Notification on stand beside the pipeline and share no
  variable with it. Notification takes a payment as one step, since Payment has
  its detail; EventAdmin sells seats one by one, and leaves out their return and
  larger or negative quantities, which the properties of its passing run do not
  depend on (`base` is what a key was last SET to, and no sale writes it); in
  Notification SIGTERM and a crash are both `Stop`, which leaves the group.
* Codes are numbered as they are drawn, as if no two were equal; passwords are
  known by their hashes. The address is one: accounts do not interact.
* A cached value is a set of articles, and so is an answer; order on the page,
  category and texts are not modelled. Filtered and searched lists bypass the
  cache.
* `CHECK_DEADLOCK FALSE` throughout: with a bounded number of orders, faults,
  warm-ups and joins every run comes to rest.

## 3. What is checked

### Runs that pass

| Run | Instance | Shows |
|---|---|---|
| `orders` | 2 instances, 1 order of 2 or -2 seats, 1 webhook, topic moved once, any one fault, crash or shutdown, fair | `PendingIsTimed`, `NoSeatsForgotten`, `Lifecycle`, `SeatsSettle`, `TopicDrained` |
| `seats` | 1 instance, 2 orders of 4 or -2 seats, a webhook for each, two warm-ups with 2 or -1, no fault | `NoOverselling`, `SeatsConserved` |
| `payments` | 2 instances, 1 request for -1, 0, 2 or 3 of 2 seats by a verified or an unverified user, a join, a hold, webhook and simulator, any one fault, crash or shutdown | `TypeOK`, `Traced`, `OrdersAreReserved`, `SeatsConserved`, `ChargeableOrderIsLive`, `AnnouncedOrdersArePaid`, `ImplementsLedger` |
| `room` | 2 users, 3 joins, clocks up to 1 apart, 3 instants, fair | `RoomTypeOK`, `FairFIFO`, `TurnsInOrder`, `EveryoneGetsATurn` |
| `mail` | 1 order, 1 confirmation, 2 resends, 2 workers, one fault, stop or rebalance, fair | `MailTypeOK`, `ResendsPaced`, `CommittedIsHandled`, `AnnouncedIsMailed` |
| `events` | 2 zones of 1 or 2 seats, 2 statuses, 3 admin requests, `/tickets/warmup` with -1, one fault | `EventTypeOK`, `StockFollowsTable`, `SuccessMeansOnSale`, `StatusMirrored` |
| `news` | 2 slugs, page sizes 1 and 2, 2 admin requests, 1 reader that repeats, one fault, fair | `NewsTypeOK`, `SlugsUnique`, `StaleOnlyByOverlap`, `SlugCacheConverges` |
| `accounts` | 4 requests of any kind, 2 passwords, 2 roles, one fault | `AccountTypeOK`, `TokensAreForVerified`, `CodeStaysGood`, `AdminChangeHolds`, `VerifiedStays` |

The bounds of the pipeline. Two instances are the least that handle one expiry
twice or take the topic from each other, and the handlers of a third would repeat
the second's. What happens to one order, with everything that can fail, is in
`orders` and `payments`; that two orders share a counter is in `seats`, where one
instance will do. There an order of 4 seats finds a zone of 2 sold out unless an
order of -2 has added to it; the second warm-up may come while seats are out, and
may set -1. One fault at any step covers each error path
of the code, and each crash; two faults are left to the proofs. `MaxMoves` bounds
the rebalances, `MaxWarmups` the writes of a stock key, `MaxJoins` the joins in the
pipeline, `MaxOrphan` the counter of expired holds, from above and below. Instances,
orders and webhooks are interchangeable and are reduced by symmetry in the runs
without liveness. Two users and three joins are the least that have one user join,
see the other join behind it and join again while the other's stream is open. Joins
are numbered in the order they start, which loses nothing, and `Horizon` bounds the
time they start at: with a drift of 1, three instants are the least in which one
user is told and another asks more than the drift later. That `FairFIFO` and
`TurnsInOrder` hold for any number of users and any drift is proved.

The bounds of the rest. In `mail` a confirmation and two resends are three
announcements of one order, and the two resends compete for one cooldown;
`MaxFaults` bounds failures, stops and rebalances together. In `events` two
requests overlap and a third finds what they left; with two zones a request can
fail between two warm-ups; a counter set to -1 differs from every capacity. In
`news` two admins can rename an article past each other, or find the same slug free, while the reader holds what it read before
either; two page sizes make the front page depend on who asks. In `accounts` four
requests are two registrations and two verifications, or a registration that
overlaps a verification while a code is drawn again. There is one fault in each;
the invariants of all four are proved for any number.

Each property's mutants, which break the code in one place, are listed in
`PROJECT.json` and found by TLC under the same bounds: none is too small for its
case to happen.

In `orders` one call may fail. `PendingIsTimed`, `NoSeatsForgotten` and
`SeatsSettle` speak of the histories where none has (`faults = MaxFaults`): with a
failure, orders and seats can be lost, as `v_lockstep` and the next section show.
`TopicDrained` holds with failures and crashes, but has as its premise that no
instance lingers in the group for ever: its process ends at last, or a rebalance
takes the topic away. The code does not ensure that.
`StaleOnlyByOverlap`, `StockFollowsTable` and `StatusMirrored` name failures among
their exceptions, because the code then answers 500 and leaves Redis as it is;
`StockFollowsTable` also excepts the zones that `/tickets/warmup` has set last, and
the keys that a request sets after another commit has overtaken it. In all other
cases an outdated counter would be found. `SlugCacheConverges`,
`SuccessMeansOnSale` and `AdminChangeHolds` hold with failures too.

`SeatsConserved` says of each step that is not a warm-up that the stock of a zone
plus what orders have out of it stays the same, an order of -2 seats counting as -2.
A seat that an order has out after its handler died is still out: the property is
about seats made or destroyed, and those lost for ever are the business of
`NoSeatsForgotten` and `SeatsSettle`. `NoOverselling` bounds the seats of paid orders
by what the warm-ups have put on sale and what negative orders have added.

### Fairness

`TicketPulse!Fairness` is weak fairness of what runs by itself: a handler that
has started goes on, Redis expires keys, the coordinator gives the topic to a
member, a consumer reads what is there. Nobody has to buy, pay, scan or reboot, and
an instance that was told to stop need not exit.
An expiry or a step of a handler is one conjunct per order and instance, since
goroutines do not wait for one another. `WaitingRoom!RoomFairness` is weak fairness
of the streams, which poll every two seconds; nothing is asked of joins.
`EveryoneGetsATurn` in
addition names, as its premise, what the clients have to do: keep a stream open
while they wait and use the turn they are given. The code does not make them: a
client that goes away at the head of the queue, or finds its zone sold out, stays
there and blocks everybody behind it.

`FairMailSpec` is weak fairness of each worker's loop, including being given the
topic. Nobody has to confirm, resend or reboot, and the commit timer need not
fire. `NewsFairness` has a started request go on and Redis drop what has expired;
no reader and no admin has to come. `EventAdmin` and `Accounts` have no liveness
property: nothing in them runs by itself but the TTLs.

### Where the code departs from its documentation

Each run below checks what a comment or the README says and finds it violated.

| Run | Claim | What happens |
|---|---|---|
| `v_untouched` | `event_handler.go:236-237` zones not in the request are left untouched | UpdateZones reads back every zone of the event and SETs each stock key to its capacity: the seats sold in a zone the request does not name are on sale again. |
| `v_lockstep` | `order_worker.go:17` row and timer in lockstep | INSERT, then SetOrderExpiry fails (or the instance dies): a PENDING order nobody will cancel. |
| `v_oversold` | `README.md:10` zero overselling through atomic allocation in the Lua script | The quantity of a request is not checked (`ticket_handler.go:92`): one of -2 passes the script's comparison and adds two seats to the stock of a zone warmed up once; the next order takes and pays for more seats than the zone has. |
| `v_frontpage` | `news_service.go:33-34` both caches are invalidated rather than left to expire | A reader queries, an admin writes and deletes `news:latest`, the reader stores what it had: stale for good, since the key has no TTL. |

Other divergences were read off the code and have no run:

* What does hold of `README.md:10` is `NoOverselling` (proved, section 4): a zone
  warmed up once, where no request is for a negative number of seats, sells at most
  what it was warmed up with. Besides negative quantities (`v_oversold`), a second
  warm-up of a zone on sale, by `UpdateZones` or by `POST /tickets/warmup`
  (`main.go:198`), puts sold seats back on sale.
* `ticket_handler.go:130` answers "Order is being processed" even when the publish
  failed (`ticket_handler.go:119` only logs it): no row ever appears, and the seats
  stay out. Likewise a script whose reply was lost has taken seats for a request
  that was answered 500.
* A worker that was told to stop is meant to close its reader
  (`order_worker.go:60-65`); one blocked in `ReadMessage` returns before it
  (`order_worker.go:69-71`). While an event stream keeps `app.Shutdown()` from
  returning, the group leaves the topic with a member that does not read it.
* `event/producer.go:13` announces whenever an order becomes paid. If the gate
  checks the ticket between the UPDATE and the read-back, the status is not
  COMPLETED any more and nothing is announced.
* `expiration_worker.go:64` cancels and restores; if the read after the cancelling
  UPDATE fails, or the restore does, the order is cancelled and its seats are gone.
* The diagram in `README.md:59` inserts orders as COMPLETED, the code
  (`order_worker.go:107`) as PENDING.
* `redis_repository.go:23` says the timer of a paid order never fires. It may lapse
  between MarkPaid's UPDATE and the DEL; harmless, the handler finds the order paid.
* `expiration_worker.go:104` says expired holds return to the inventory. Another
  key is incremented, and luckily so: with the right key every order's seats would
  return a second time (the mutant of `HoldLapses` in run `payments`).
* `event/producer.go:13` ties one announcement to one transition, but a second
  confirmation finds COMPLETED and announces again.
* `README.md:17` promises a fair FIFO queue. A score is the wall clock of the
  instance that serves the join, so a later join may be placed in front if it comes
  within the difference of the clocks; a join stamped first may be added second, in
  front of the client just told to proceed; and a client that joins again after its
  stream has read position 1 is still told that it is its turn. `FairFIFO` and
  `TurnsInOrder` say what does hold.
* The same line promises access control; Reserve does not look at the queue.
* `notification_worker.go:47-48` and `main.go:122-124` would have a new group skip
  old messages only. With no offset committed, a rebalance starts at the end of
  the topic again, behind announcements not yet handled. `AnnouncedIsMailed`
  therefore speaks of a group that has an offset.
* A ticket checked in between the two lookups of a resend makes it a 500, with the
  minute's cooldown spent.
* The front page is cached under one key for every `limit`: a reader may be given
  as many articles as the reader before asked for. (`Answers` has every limit for
  this reason.) `news_handler.go:70` says that its `normalizePagination` mirrors the
  clamping of the repository; it reports a limit above 50, which the repository
  (`news_repository.go:85`) does not apply.
* `auth_service.go:98-99` refreshes the password of an unverified account. If the
  account is verified between lookup and UPDATE, its password is replaced too.
* The cooldown of a resent code is looked up first and set last
  (`auth_service.go:162-181`), so overlapping requests all get a code.
* `is_suspended` is written by an admin and read by nothing that decides; the role
  in a token outlives a change of the role.
* `UpdateEventZones` has no path to ErrEventNotFound: an unknown event violates the
  foreign key and is answered 500.
* `CreateEvent` does not mirror the status, and nothing reads the mirror that
  `event_handler.go:296-298` keeps for others.

## 4. What is proved

Every theorem holds for all values of the constants that satisfy the named
`ASSUME`s (finite sets of instances, orders and users, integer quantities and
numbers of warm-ups, positive capacities in the table, which the handler checks,
model values that differ from what they stand beside), so for any number of
instances, orders, zones, requests, faults and rebalances, and any drift of clocks.

* `TicketPulseProofs`. The inductive invariant `Ind == TypeOK /\ Traced`. Types
  alone are not inductive: that RestoreStock adds an integer to the stock of a zone
  needs the restoring handler's order to have a request, which needs rows,
  messages and work in hand to be traced back to requests; that is `Traced`. One
  lemma per action, then `Typing`, `Provenance`, `RowsAreReserved`: a row is of a
  reservation the script has made, and not of 0 seats, because `Ignored` drops those.
* `SeatLedgerProofs`. The ledger is typed (`LedgerTyping`), conserves seats but for
  openings (`LedgerBalanced`), and never has more seats held or sold than it was
  given (`LedgerCovered`). Seats out are a set of tokens `<<order, i>>`, and those a
  negative order adds another, so conservation is about disjoint unions of finite
  sets and no sum has to be defined. `LedgerCovered` is not inductive: `Audited`
  adds that what is available and what is held are together within what was given.
  Taking moves seats from the one to the other, releasing moves them back, and an
  opening, which sets what is available whatever is held, keeps it by the bound on
  what is held alone. That the numbers are integers (`LedgerAssumption`)
  is a hypothesis, because the module is instantiated; the pipeline's own
  assumptions discharge it.
* `PipelineProofs`, on seats. The pipeline implements the ledger
  (`PipelineKeepsLedger`): each step of each handler is a Take, Sell, Release, Open
  or nothing. `OneRestorer`, in `Traced`, is what makes a restore a Release: of all
  the handlers of one expiry only the one whose UPDATE hit the row may restore,
  once. The ledger's theorems, carried back through the mapping, give
  `SeatsAreConserved` and, with the paid orders among the holders, `NeverOversold`.
  More cannot be had: a second warm-up sets the stock to its number, whatever is out
  (`v_untouched` shows it in EventAdmin), and a negative order adds seats
  (`v_oversold`).

  On orders: `RowsKeepLifecycle`, by the WHERE clauses alone;
  `AnnouncementsAreTrue`, by an invariant on confirmations in flight (one past
  its read-back is for a paid order, and paid is for ever);
  `ChargesAreForLiveOrders`, by the invariant that an order being armed, or with
  a live timer, is not being cancelled.

  Two theorems speak of the histories in which no call has failed yet
  (`faults = MaxFaults`) and some instance exists. `PendingOrdersAreTimed`: then
  every instance hears of every expiry, and only a confirmation of a paid order
  clears a timer. `SeatsAreSeenTo` follows the seats of an order through the whole
  pipeline (`NoSeatsForgotten`), by three parts: whoever took seats is still to
  publish, or its message is ahead of the consumer, or in a worker's hands, or has
  its row (`Carried`); a pending row has its expiry (`TendedSoFar`); a cancelled one
  has its restore in hand or behind it. A rebalance only moves the consumer back, so
  nothing that was ahead of it is lost. After a failure both are false: `v_lockstep`
  shows it of the first.
* `RoomProofs`. `FirstComeFirstServed`, `NobodyIsPassedOver` and `RoomTyping`, with
  no assumption on the clocks but that `Drift` bounds their difference, by the
  invariants `Past` and `InOrder`: no stamp is further ahead of the time than
  `Drift`, so the score of whoever was told of its place more than `Drift` ago is
  behind every stamp taken from now on. A user at the head has none of `ahead` in
  the queue, and stays so until it joins again, which is what `misled` records.
* `MailProofs`. `ResendsKeepDistance`, by `Paced`: whoever was let through for an
  order has a slot that is not ahead of the lapses of its cooldown, and behind
  them once the key is gone; so the next SETNX that succeeds takes a later slot.
  `NothingCommittedIsForgotten`, by `Handled`, which speaks of all that was read,
  committed or not: a commit, or a new consumer, may come between any two steps.
* `EventProofs`. `StockFollows`, `StatusFollows` and `SuccessIsOnSale`. The first two
  need `Fresh`: what a request has read back, or is about to mirror, is what the
  table says unless another commit has overtaken it (`outrun`). The third needs
  `Warmed`: a request has put on sale what it has read and no longer owes, and no
  step takes a key away. `TurnsKeepRedisExact` shows that the exception `late` stands
  for overlaps and nothing else: if at most one admin request is at work at a time
  and no call has failed, no request is overtaken (`InTurn`), so no zone is ever late,
  and the mirror is the status or was never written; zones whose key
  `/tickets/warmup` has set are excepted there too.
* `NewsProofs`. `NewsTypeCorrect` and `SlugsStayUnique` by `NewsSound`, in which ids are
  bounded by `created` and a job fits the place its request is at.
  `StalenessIsAccountedFor` needs to know whose a stale key is to delete (`Due`),
  sharper than `WillDelete` in the property: an update owes the slug it replaced;
  the front page and the row's present slug are the last writer's as long as the
  row is there, and the remover's afterwards. An INSERT makes no slug key stale,
  because nothing is cached of a slug without an article. `TurnsAreSafe`: if at most
  one admin request is at work at a time, no write excuses a key, since what it
  loaded is still what the table says (`UpToDate`); what becomes excused is a value
  that a reader stored late.
* `AccountProofs`. `Fits` says what the row must look like for a request to be where
  it is (one that is to delete the code has a verified row, one that updates has a
  row). With it `OnlyVerifiedHoldTokens`, `NewestCodeWorks` and the action
  property `VerificationIsFinal`. `AdminSuccessIsWhole` by `HalvesHold`: between the
  two statements the first half is as asked, and no other kind of request
  touches the two fields.

Checked by TLC only: the liveness properties (`SeatsSettle`, `TopicDrained`,
`EveryoneGetsATurn`, `AnnouncedIsMailed`, `SlugCacheConverges`), which are out of
reach of the proof system. Every invariant and every action property of the
passing runs is a theorem. The ledger has no run of its own: its theorems
are proved, and `ImplementsLedger` runs it behind the pipeline.

## 5. Plan

1. Done: the order pipeline, its ledger, the waiting room, their theorems.
2. Done: `Notification`, `EventAdmin`, `News`, `Accounts` with their runs and theorems.
3. Next: how far safety survives a failure. `PendingOrdersAreTimed` and
   `SeatsAreSeenTo` hold until the first one; afterwards each failed call should
   account for the one order it concerns.
4. The page arithmetic of listings as operators against a reference definition.
5. The retries of the Redis client, as an external component between the handlers
   and `TicketStore`.

## 6. What is not modelled

Statistics and listings are read-only, as are the public event pages; that a
page's total is counted by a second query is left out with them. View counters of
news are increments nobody decides on. `UpdateProfile` writes columns no model has. Ticket signatures, webhook signatures,
tokens and password hashes are cryptography, taken to work; how long a token lives
is not modelled. Mail text, QR codes, configuration, routing and logging carry no
state. Retries inside the Redis client, which may repeat a script whose reply was
lost, are not modelled, nor is the overflow of a 64-bit counter. The tables
`tickets` and `order_items` of the schema are used by no code. The load test
drives the server from outside.

## 7. Running

`tlc -config <run>.cfg <module>` with the module named for the run in
`PROJECT.json` (`MCTicketPulse`, `MCWaitingRoom`, `MCNotification`, `MCEventAdmin`,
`MCNews` or `MCAccounts`), and `tlapm <module>` for each `*Proofs` module.
