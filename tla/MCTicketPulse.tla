--------------------------- MODULE MCTicketPulse ---------------------------
EXTENDS TicketPulseClaims, TLC

\* Two seats in a zone: one order can empty it, two orders compete for it.
TwoSeats == {2}

\* The second warm-up may find seats out, and may set less than nothing.
AnyStock == {-1, 2}

\* Quantities of requests.  A negative one adds seats, which another order takes.
TwoOrAdd    == {-2, 2}
FourOrAdd   == {-2, 4}
AllSorts    == {-1, 0, 2, 3}

Interchangeable ==
    Permutations(Servers) \cup Permutations(OrderIds) \cup Permutations(Webhooks)
=============================================================================
