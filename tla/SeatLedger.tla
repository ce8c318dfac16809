----------------------------- MODULE SeatLedger -----------------------------
(***************************************************************************)
(* What the order pipeline promises about seats, with no servers, stores   *)
(* or messages: a zone is opened with a number of seats; an order takes    *)
(* seats that are available, all at once; then it is sold, or the seats go *)
(* back on sale, or neither, but never both and never twice.  An order may *)
(* take a negative number: it adds seats, and takes them away again if it  *)
(* is released.  Opening a zone again sets what is available to a new      *)
(* number, whatever is out.                                                *)
(***************************************************************************)
EXTENDS Integers, FiniteSets

CONSTANTS
    OrderIds,
    Zones,
    Stocks,         \* seats a zone may be opened with
    Quantities,     \* seats an order may take
    None

\* What the theorems about the ledger need of its constants; the pipeline's own
\* assumptions imply it.
LedgerAssumption ==
    /\ IsFiniteSet(OrderIds)
    /\ Stocks \subseteq Int
    /\ Quantities \subseteq Int

VARIABLES
    opened,     \* how often a zone was opened
    supplied,   \* seats it was opened with, all together
    avail,      \* seats of a zone anyone may take
    ledger,     \* what became of an order
    claim       \* the seats it took: <<zone, quantity>>

ledgerVars == <<opened, supplied, avail, ledger, claim>>

OnSale == {z \in Zones : opened[z] > 0}

Standing == {"free", "held", "sold", "released"}

LedgerTypeOK ==
    /\ opened \in [Zones -> Nat]
    /\ supplied \in [Zones -> Nat]
    /\ avail \in [Zones -> Int]
    /\ ledger \in [OrderIds -> Standing]
    /\ claim \in [OrderIds -> (Zones \X Quantities) \cup {None}]
    /\ \A o \in OrderIds : ledger[o] # "free" => claim[o] \in OnSale \X Quantities

LedgerInit ==
    /\ opened = [z \in Zones |-> 0]
    /\ supplied = [z \in Zones |-> 0]
    /\ avail = [z \in Zones |-> 0]
    /\ ledger = [o \in OrderIds |-> "free"]
    /\ claim = [o \in OrderIds |-> None]

Open(z, n) ==
    /\ opened' = [opened EXCEPT ![z] = @ + 1]
    /\ supplied' = [supplied EXCEPT ![z] = IF n > 0 THEN @ + n ELSE @]
    /\ avail' = [avail EXCEPT ![z] = n]
    /\ UNCHANGED <<ledger, claim>>

Take(o, z, q) ==
    /\ ledger[o] = "free"
    /\ z \in OnSale
    /\ avail[z] >= q
    /\ avail' = [avail EXCEPT ![z] = @ - q]
    /\ ledger' = [ledger EXCEPT ![o] = "held"]
    /\ claim' = [claim EXCEPT ![o] = <<z, q>>]
    /\ UNCHANGED <<opened, supplied>>

Sell(o) ==
    /\ ledger[o] = "held"
    /\ ledger' = [ledger EXCEPT ![o] = "sold"]
    /\ UNCHANGED <<opened, supplied, avail, claim>>

Release(o) ==
    /\ ledger[o] = "held"
    /\ ledger' = [ledger EXCEPT ![o] = "released"]
    /\ avail' = [avail EXCEPT ![claim[o][1]] = @ + claim[o][2]]
    /\ UNCHANGED <<opened, supplied, claim>>

LedgerNext ==
    \/ \E z \in Zones, n \in Stocks : Open(z, n)
    \/ \E o \in OrderIds, z \in Zones, q \in Quantities : Take(o, z, q)
    \/ \E o \in OrderIds : Sell(o) \/ Release(o)

LedgerSpec == LedgerInit /\ [][LedgerNext]_ledgerVars

-----------------------------------------------------------------------------
\* One token per seat an order takes, and one per seat it adds.
Takes(o) == {o} \X (1..claim[o][2])
Adds(o)  == {o} \X (1..-claim[o][2])

\* The orders of a zone that stand, and all it ever had.
Holders(z) == {o \in OrderIds : ledger[o] \in {"held", "sold"} /\ claim[o][1] = z}
Takers(z)  == {o \in OrderIds : ledger[o] # "free" /\ claim[o][1] = z}

SeatsTaken(z) == UNION {Takes(o) : o \in Holders(z)}
SeatsOver(z)  == UNION {Adds(o) : o \in Holders(z)}
SeatsAdded(z) == UNION {Adds(o) : o \in Takers(z)}

\* Only opening a zone changes the sum of what is available in it and what its
\* orders have out.
Sum(z) == avail[z] + Cardinality(SeatsTaken(z)) - Cardinality(SeatsOver(z))
BalancedStep == \A z \in Zones : opened'[z] = opened[z] => Sum(z)' = Sum(z)
Balanced == [][BalancedStep]_ledgerVars

\* No more seats are held or sold than the zone was opened with, each opening
\* counted in full, and negative orders have added.
Covered ==
    \A z \in Zones :
        Cardinality(SeatsTaken(z)) <= supplied[z] + Cardinality(SeatsAdded(z))
=============================================================================
