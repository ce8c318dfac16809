------------------------- MODULE TicketPulseClaims -------------------------
(***************************************************************************)
(* What the documentation or an answer to the client promises and the code *)
(* does not guarantee: a run finds each claim violated.                    *)
(***************************************************************************)
EXTENDS TicketPulse

\* order_worker.go:16-17 says of orders.expires_at and the order:expire:{id} TTL:
\* "the two must stay in lockstep": every unpaid order is timed.
RowsInLockstep == \A o \in OrderIds : status[o] = "PENDING" => Timed(o)

\* README.md:10 promises zero overselling "through atomic inventory allocation
\* using Redis Lua Scripts": the paid orders of a zone warmed up once hold no more
\* seats than it was warmed up with.
ZeroOverselling ==
    \A z \in Zones : warmups[z] <= 1 => Cardinality(SeatsSold(z)) <= supplied[z]
=============================================================================
