-------------------------- MODULE SeatLedgerProofs --------------------------
(***************************************************************************)
(* The ledger keeps its books, for every set of orders and zones and all   *)
(* integers that openings and orders may name, negative ones included.     *)
(***************************************************************************)
EXTENDS SeatLedger, FiniteSetTheorems, TLAPS

\* How many tokens an order for q seats has: none unless q is positive.
Pos(q) == IF q > 0 THEN q ELSE 0

LEMMA TokenCount ==
    ASSUME NEW o, NEW q \in Int
    PROVE  IsFiniteSet({o} \X (1..q)) /\ Cardinality({o} \X (1..q)) = Pos(q)
<1>1. CASE q > 0
  <2>1. IsFiniteSet(1..q) /\ Cardinality(1..q) = q
    BY <1>1, FS_Interval
  <2>2. IsFiniteSet({o}) /\ Cardinality({o}) = 1
    BY FS_Singleton
  <2>3. Cardinality({o}) * Cardinality(1..q) = q
    BY <2>1, <2>2
  <2> QED
    BY <1>1, <2>1, <2>2, <2>3, FS_Product DEF Pos
<1>2. CASE ~(q > 0)
  <2>1. 1..q = {}
    BY <1>2
  <2>2. {o} \X (1..q) = {}
    BY <2>1
  <2> QED
    BY <1>2, <2>2, FS_EmptySet DEF Pos
<1> QED
  BY <1>1, <1>2

\* Adding tokens that are not there, and removing tokens that are.
LEMMA DisjointUnion ==
    ASSUME NEW S, IsFiniteSet(S), NEW T, IsFiniteSet(T), S \cap T = {}
    PROVE  /\ IsFiniteSet(S \cup T)
           /\ Cardinality(S \cup T) = Cardinality(S) + Cardinality(T)
<1>1. Cardinality(S) \in Nat /\ Cardinality(T) \in Nat
  BY FS_CardinalityType
<1>2. /\ IsFiniteSet(S \cup T)
      /\ Cardinality(S \cup T) = Cardinality(S) + Cardinality(T) - Cardinality(S \cap T)
  BY FS_Union
<1>3. Cardinality(S \cap T) = 0
  BY FS_EmptySet
<1> QED
  BY <1>1, <1>2, <1>3

LEMMA SubsetRemoved ==
    ASSUME NEW S, IsFiniteSet(S), NEW T, T \subseteq S
    PROVE  /\ IsFiniteSet(S \ T)
           /\ Cardinality(S \ T) = Cardinality(S) - Cardinality(T)
<1>1. IsFiniteSet(T) /\ IsFiniteSet(S \ T)
  BY FS_Subset
<1>2. Cardinality(T) \in Nat /\ Cardinality(S \ T) \in Nat
  BY <1>1, FS_CardinalityType
<1>3. Cardinality((S \ T) \cup T) = Cardinality(S \ T) + Cardinality(T)
  <2>1. (S \ T) \cap T = {}
    OBVIOUS
  <2> QED
    BY <1>1, <2>1, DisjointUnion
<1>4. (S \ T) \cup T = S
  OBVIOUS
<1>5. Cardinality(S) = Cardinality(S \ T) + Cardinality(T)
  BY <1>3, <1>4, Zenon
<1> QED
  BY <1>1, <1>2, <1>5

\* The type invariant: in particular, an order that is not free claims seats
\* of a zone that was opened.
THEOREM LedgerTyping ==
    ASSUME LedgerAssumption
    PROVE  LedgerSpec => []LedgerTypeOK
<1>1. LedgerInit => LedgerTypeOK
  BY DEF LedgerInit, LedgerTypeOK, Standing
<1>2. LedgerTypeOK /\ [LedgerNext]_ledgerVars => LedgerTypeOK'
  <2> SUFFICES ASSUME LedgerTypeOK, [LedgerNext]_ledgerVars
               PROVE  LedgerTypeOK'
    OBVIOUS
  <2> USE DEF LedgerAssumption, LedgerTypeOK, OnSale, Standing
  <2>1. ASSUME NEW z \in Zones, NEW n \in Stocks, Open(z, n) PROVE LedgerTypeOK'
    BY <2>1 DEF Open
  <2>2. ASSUME NEW o \in OrderIds, NEW z \in Zones, NEW q \in Quantities, Take(o, z, q)
        PROVE  LedgerTypeOK'
    BY <2>2 DEF Take
  <2>3. ASSUME NEW o \in OrderIds, Sell(o) PROVE LedgerTypeOK'
    BY <2>3 DEF Sell
  <2>4. ASSUME NEW o \in OrderIds, Release(o) PROVE LedgerTypeOK'
    <3>1. claim[o][1] \in Zones /\ claim[o][2] \in Int
      BY <2>4 DEF Release
    <3>2. avail' \in [Zones -> Int]
      BY <2>4, <3>1 DEF Release
    <3> QED
      BY <2>4, <3>2 DEF Release
  <2>5. CASE UNCHANGED ledgerVars
    BY <2>5 DEF ledgerVars
  <2> QED
    BY <2>1, <2>2, <2>3, <2>4, <2>5 DEF LedgerNext
<1> QED
  BY <1>1, <1>2, PTL DEF LedgerSpec

-----------------------------------------------------------------------------
\* The tokens of the orders in H, where c says how many each has.
Tokens(H, c) == UNION {{o} \X (1..c[o]) : o \in H}

LEMMA TokensAdded ==
    ASSUME NEW H, NEW c, NEW d, NEW o, o \notin H, \A p \in H : d[p] = c[p],
           d[o] \in Int, IsFiniteSet(Tokens(H, c))
    PROVE  /\ IsFiniteSet(Tokens(H \cup {o}, d))
           /\ Cardinality(Tokens(H \cup {o}, d)) = Cardinality(Tokens(H, c)) + Pos(d[o])
<1> DEFINE T == {o} \X (1..d[o])
<1>1. Tokens(H \cup {o}, d) = Tokens(H, c) \cup T
  BY DEF Tokens
<1>2. Tokens(H, c) \cap T = {}
  BY DEF Tokens
<1>3. IsFiniteSet(T) /\ Cardinality(T) = Pos(d[o])
  BY TokenCount
<1> HIDE DEF T
<1> QED
  BY <1>1, <1>2, <1>3, DisjointUnion

LEMMA TokensRemoved ==
    ASSUME NEW H, NEW c, NEW o \in H, c[o] \in Int, IsFiniteSet(Tokens(H, c))
    PROVE  /\ IsFiniteSet(Tokens(H \ {o}, c))
           /\ Cardinality(Tokens(H \ {o}, c)) = Cardinality(Tokens(H, c)) - Pos(c[o])
<1> DEFINE T == {o} \X (1..c[o])
<1>1. Tokens(H \ {o}, c) = Tokens(H, c) \ T
  BY DEF Tokens
<1>2. T \subseteq Tokens(H, c)
  BY DEF Tokens
<1>3. IsFiniteSet(T) /\ Cardinality(T) = Pos(c[o])
  BY TokenCount
<1> HIDE DEF T
<1> QED
  BY <1>1, <1>2, <1>3, SubsetRemoved

\* What the orders take and what they add.
Wants == [o \in OrderIds |-> claim[o][2]]
Gives == [o \in OrderIds |-> -claim[o][2]]

LEMMA SeatsAreTokens ==
    ASSUME NEW z \in Zones
    PROVE  /\ SeatsTaken(z) = Tokens(Holders(z), Wants)
           /\ SeatsOver(z) = Tokens(Holders(z), Gives)
           /\ SeatsAdded(z) = Tokens(Takers(z), Gives)
BY DEF SeatsTaken, SeatsOver, SeatsAdded, Takes, Adds, Tokens, Holders, Takers, Wants, Gives

LEMMA SeatsAreTokensNext ==
    ASSUME NEW z \in Zones
    PROVE  /\ SeatsTaken(z)' = Tokens(Holders(z)', Wants')
           /\ SeatsOver(z)' = Tokens(Holders(z)', Gives')
           /\ SeatsAdded(z)' = Tokens(Takers(z)', Gives')
BY DEF SeatsTaken, SeatsOver, SeatsAdded, Takes, Adds, Tokens, Holders, Takers, Wants, Gives

-----------------------------------------------------------------------------
\* The inductive invariant behind Covered.  What is available may be negative
\* (a zone reopened with less than nothing), so that Covered does not follow
\* from the bound on the sum, and what is available may exceed the last opening,
\* so that the bound does not follow from Covered.
Countable(z) ==
    IsFiniteSet(SeatsTaken(z)) /\ IsFiniteSet(SeatsOver(z)) /\ IsFiniteSet(SeatsAdded(z))

Ever(z) == supplied[z] + Cardinality(SeatsAdded(z))

Audited ==
    \A z \in Zones :
        /\ Countable(z)
        /\ Cardinality(SeatsTaken(z)) <= Ever(z)
        /\ avail[z] + Cardinality(SeatsTaken(z)) <= Ever(z)

LEMMA Counts ==
    ASSUME NEW z \in Zones, Countable(z)
    PROVE  /\ Cardinality(SeatsTaken(z)) \in Nat
           /\ Cardinality(SeatsOver(z)) \in Nat
           /\ Cardinality(SeatsAdded(z)) \in Nat
BY FS_CardinalityType DEF Countable

\* A quantity is what it takes less what it adds.
LEMMA PosSplit ==
    ASSUME NEW q \in Int
    PROVE  Pos(q) \in Nat /\ Pos(-q) \in Nat /\ Pos(q) - Pos(-q) = q
BY DEF Pos

LEMMA OpenSums ==
    ASSUME NEW t \in Nat, NEW a \in Nat, NEW s \in Nat, NEW n \in Int, t <= s + a
    PROVE  LET w == IF n > 0 THEN s + n ELSE s
           IN  t <= w + a /\ n + t <= w + a
OBVIOUS

\* What has to be shown of a zone in a step.
Kept(z) ==
    /\ Countable(z)'
    /\ Cardinality(SeatsTaken(z))' <= Ever(z)'
    /\ avail'[z] + Cardinality(SeatsTaken(z))' <= Ever(z)'
    /\ opened'[z] = opened[z] => Sum(z)' = Sum(z)

LEMMA Untouched ==
    ASSUME Audited, NEW z \in Zones, opened'[z] = opened[z], supplied'[z] = supplied[z],
           avail'[z] = avail[z], SeatsTaken(z)' = SeatsTaken(z), SeatsOver(z)' = SeatsOver(z),
           SeatsAdded(z)' = SeatsAdded(z)
    PROVE  Kept(z)
BY DEF Audited, Countable, Ever, Kept, Sum

\* Opening a zone: no more of its seats are out than it ever had.
LEMMA OpenKeeps ==
    ASSUME LedgerAssumption, LedgerTypeOK, Audited, NEW z \in Zones, NEW n \in Stocks,
           Open(z, n), NEW y \in Zones
    PROVE  Kept(y)
<1>1. /\ SeatsTaken(y)' = SeatsTaken(y)
      /\ SeatsOver(y)' = SeatsOver(y)
      /\ SeatsAdded(y)' = SeatsAdded(y)
  BY DEF Open, SeatsTaken, SeatsOver, SeatsAdded, Holders, Takers, Takes, Adds
<1>2. CASE y # z
  <2>1. opened'[y] = opened[y] /\ supplied'[y] = supplied[y] /\ avail'[y] = avail[y]
    BY <1>2 DEF LedgerTypeOK, Open
  <2> QED
    BY <1>1, <2>1, Untouched
<1>3. CASE y = z
  <2>1. /\ opened'[y] # opened[y]
        /\ avail'[y] = n
        /\ supplied'[y] = IF n > 0 THEN supplied[y] + n ELSE supplied[y]
    BY <1>3 DEF LedgerTypeOK, Open
  <2>2. /\ supplied[y] \in Nat /\ n \in Int /\ Countable(y)
        /\ Cardinality(SeatsTaken(y)) <= supplied[y] + Cardinality(SeatsAdded(y))
    BY DEF LedgerAssumption, LedgerTypeOK, Audited, Ever
  <2>3. Cardinality(SeatsTaken(y)) \in Nat /\ Cardinality(SeatsAdded(y)) \in Nat
    BY <2>2, Counts
  <2>4. /\ Cardinality(SeatsTaken(y)) <= supplied'[y] + Cardinality(SeatsAdded(y))
        /\ n + Cardinality(SeatsTaken(y)) <= supplied'[y] + Cardinality(SeatsAdded(y))
    BY <2>1, <2>2, <2>3, OpenSums
  <2> QED
    BY <1>1, <2>1, <2>2, <2>4 DEF Kept, Ever, Countable
<1> QED
  BY <1>2, <1>3

\* Taking seats adds the order's tokens to its zone and to no other.
LEMMA TakeKeeps ==
    ASSUME LedgerAssumption, LedgerTypeOK, Audited, NEW o \in OrderIds, NEW z \in Zones,
           NEW q \in Quantities, Take(o, z, q), NEW y \in Zones
    PROVE  Kept(y)
<1>1. q \in Int /\ ledger[o] = "free" /\ avail[z] >= q
  BY DEF LedgerAssumption, Take
<1>2. /\ \A p \in OrderIds : ledger'[p] = IF p = o THEN "held" ELSE ledger[p]
      /\ \A p \in OrderIds : claim'[p] = IF p = o THEN <<z, q>> ELSE claim[p]
      /\ \A x \in Zones : avail'[x] = IF x = z THEN avail[x] - q ELSE avail[x]
      /\ opened' = opened /\ supplied' = supplied
  BY DEF LedgerTypeOK, Take
<1>3. o \notin Holders(y) /\ o \notin Takers(y) /\ o \notin Holders(z) /\ o \notin Takers(z)
  BY <1>1 DEF Holders, Takers
<1>4. /\ Holders(y)' = IF y = z THEN Holders(y) \cup {o} ELSE Holders(y)
      /\ Takers(y)' = IF y = z THEN Takers(y) \cup {o} ELSE Takers(y)
  BY <1>1, <1>2 DEF Holders, Takers
<1>5. CASE y # z
  <2>1. /\ SeatsTaken(y)' = SeatsTaken(y)
        /\ SeatsOver(y)' = SeatsOver(y)
        /\ SeatsAdded(y)' = SeatsAdded(y)
    <3>1. /\ \A p \in Holders(y) : Takes(p)' = Takes(p) /\ Adds(p)' = Adds(p)
          /\ \A p \in Takers(y) : Adds(p)' = Adds(p)
      BY <1>2, <1>3 DEF Takes, Adds, Holders, Takers
    <3> QED
      BY <1>4, <1>5, <3>1 DEF SeatsTaken, SeatsOver, SeatsAdded
  <2> QED
    BY <1>2, <1>5, <2>1, Untouched
<1>6. CASE y = z
  <2>1. /\ Wants'[o] = q /\ Gives'[o] = -q
        /\ \A p \in OrderIds \ {o} : Wants'[p] = Wants[p] /\ Gives'[p] = Gives[p]
    BY <1>2 DEF Wants, Gives
  <2>2. Countable(y)
    BY DEF Audited
  <2>3. Holders(y) \subseteq OrderIds \ {o} /\ Takers(y) \subseteq OrderIds \ {o}
    BY <1>3 DEF Holders, Takers
  <2>4. IsFiniteSet(SeatsTaken(y)') /\ Cardinality(SeatsTaken(y)') = Cardinality(SeatsTaken(y)) + Pos(q)
    <3>1. IsFiniteSet(Tokens(Holders(y), Wants))
      BY <2>2, SeatsAreTokens DEF Countable
    <3>2. SeatsTaken(y)' = Tokens(Holders(y) \cup {o}, Wants')
      BY <1>4, <1>6, SeatsAreTokensNext
    <3>3. o \notin Holders(y) /\ Wants'[o] \in Int /\ \A p \in Holders(y) : Wants'[p] = Wants[p]
      BY <1>1, <1>3, <2>1, <2>3
    <3>4. /\ IsFiniteSet(Tokens(Holders(y) \cup {o}, Wants'))
          /\ Cardinality(Tokens(Holders(y) \cup {o}, Wants'))
               = Cardinality(Tokens(Holders(y), Wants)) + Pos(Wants'[o])
      BY <3>1, <3>3, TokensAdded
    <3> QED
      BY <2>1, <3>2, <3>4, SeatsAreTokens
  <2>5. IsFiniteSet(SeatsOver(y)') /\ Cardinality(SeatsOver(y)') = Cardinality(SeatsOver(y)) + Pos(-q)
    <3>1. IsFiniteSet(Tokens(Holders(y), Gives)) /\ -q \in Int
      BY <1>1, <2>2, SeatsAreTokens DEF Countable
    <3>2. SeatsOver(y)' = Tokens(Holders(y) \cup {o}, Gives')
      BY <1>4, <1>6, SeatsAreTokensNext
    <3> QED
      BY <1>3, <2>1, <2>3, <3>1, <3>2, TokensAdded, SeatsAreTokens
  <2>6. IsFiniteSet(SeatsAdded(y)') /\ Cardinality(SeatsAdded(y)') = Cardinality(SeatsAdded(y)) + Pos(-q)
    <3>1. IsFiniteSet(Tokens(Takers(y), Gives)) /\ -q \in Int
      BY <1>1, <2>2, SeatsAreTokens DEF Countable
    <3>2. SeatsAdded(y)' = Tokens(Takers(y) \cup {o}, Gives')
      BY <1>4, <1>6, SeatsAreTokensNext
    <3> QED
      BY <1>3, <2>1, <2>3, <3>1, <3>2, TokensAdded, SeatsAreTokens
  <2>7. /\ avail[y] \in Int /\ avail[y] >= q /\ avail'[y] = avail[y] - q
        /\ supplied[y] \in Nat
    BY <1>1, <1>2, <1>6 DEF LedgerTypeOK
  <2>8. /\ Cardinality(SeatsTaken(y)) <= supplied[y] + Cardinality(SeatsAdded(y))
        /\ avail[y] + Cardinality(SeatsTaken(y)) <= supplied[y] + Cardinality(SeatsAdded(y))
    BY DEF Audited, Ever
  <2>9. /\ Cardinality(SeatsTaken(y)) \in Nat /\ Cardinality(SeatsOver(y)) \in Nat
        /\ Cardinality(SeatsAdded(y)) \in Nat
    BY <2>2, Counts
  <2>10. /\ avail'[y] + Cardinality(SeatsTaken(y)') - Cardinality(SeatsOver(y)')
               = avail[y] + Cardinality(SeatsTaken(y)) - Cardinality(SeatsOver(y))
         /\ Cardinality(SeatsTaken(y)') <= supplied[y] + Cardinality(SeatsAdded(y)')
         /\ avail'[y] + Cardinality(SeatsTaken(y)') <= supplied[y] + Cardinality(SeatsAdded(y)')
    <3>0. PICK p \in Nat, m \in Nat : p = Pos(q) /\ m = Pos(-q) /\ q = p - m
      BY <1>1, PosSplit
    <3>1. PICK t \in Nat, v \in Nat, a \in Nat, s \in Nat, f \in Int :
            /\ t = Cardinality(SeatsTaken(y))
            /\ v = Cardinality(SeatsOver(y))
            /\ a = Cardinality(SeatsAdded(y))
            /\ s = supplied[y]
            /\ f = avail[y]
      BY <2>7, <2>9
    <3>2. t <= s + a /\ f + t <= s + a
      BY <2>8, <3>1
    <3>3. f >= p - m
      BY <2>7, <3>0, <3>1
    <3>4. /\ (f - (p - m)) + (t + p) - (v + m) = f + t - v
          /\ t + p <= s + (a + m)
          /\ (f - (p - m)) + (t + p) <= s + (a + m)
      BY <3>2, <3>3
    <3> QED
      BY <2>4, <2>5, <2>6, <2>7, <3>0, <3>1, <3>4
  <2> QED
    BY <1>2, <2>4, <2>5, <2>6, <2>10 DEF Kept, Countable, Ever, Sum
<1> QED
  BY <1>5, <1>6

\* Releasing removes exactly the order's tokens, all of which were there.
LEMMA ReleaseKeeps ==
    ASSUME LedgerAssumption, LedgerTypeOK, Audited, NEW o \in OrderIds, Release(o),
           NEW y \in Zones
    PROVE  Kept(y)
<1>1. PICK z \in Zones, q \in Int : claim[o][1] = z /\ claim[o][2] = q
  BY DEF LedgerAssumption, LedgerTypeOK, Release, OnSale
<1>2. /\ \A p \in OrderIds : ledger'[p] = IF p = o THEN "released" ELSE ledger[p]
      /\ \A x \in Zones : avail'[x] = IF x = z THEN avail[x] + q ELSE avail[x]
      /\ opened' = opened /\ supplied' = supplied /\ claim' = claim /\ ledger[o] = "held"
  BY <1>1 DEF LedgerTypeOK, Release
<1>3. o \in Holders(y) <=> y = z
  BY <1>1, <1>2 DEF Holders
<1>4. Holders(y)' = Holders(y) \ {o} /\ Takers(y)' = Takers(y)
  BY <1>2 DEF Holders, Takers
<1>5. /\ Wants' = Wants /\ Gives' = Gives
      /\ Wants[o] = q /\ Gives[o] = -q
      /\ SeatsAdded(y)' = SeatsAdded(y)
  BY <1>1, <1>2, <1>4 DEF Wants, Gives, SeatsAdded, Adds
<1>6. CASE y # z
  <2>1. Holders(y)' = Holders(y)
    BY <1>3, <1>4, <1>6
  <2>2. SeatsTaken(y)' = SeatsTaken(y) /\ SeatsOver(y)' = SeatsOver(y)
    BY <1>5, <2>1, SeatsAreTokens, SeatsAreTokensNext
  <2> QED
    BY <1>2, <1>5, <1>6, <2>2, Untouched
<1>7. CASE y = z
  <2>1. Countable(y) /\ o \in Holders(y)
    BY <1>3, <1>7 DEF Audited
  <2>2. IsFiniteSet(SeatsTaken(y)') /\ Cardinality(SeatsTaken(y)') = Cardinality(SeatsTaken(y)) - Pos(q)
    <3>1. IsFiniteSet(Tokens(Holders(y), Wants))
      BY <2>1, SeatsAreTokens DEF Countable
    <3>2. SeatsTaken(y)' = Tokens(Holders(y) \ {o}, Wants)
      BY <1>4, <1>5, SeatsAreTokensNext
    <3>3. /\ IsFiniteSet(Tokens(Holders(y) \ {o}, Wants))
          /\ Cardinality(Tokens(Holders(y) \ {o}, Wants))
               = Cardinality(Tokens(Holders(y), Wants)) - Pos(q)
      BY <1>5, <2>1, <3>1, TokensRemoved
    <3> QED
      BY <3>2, <3>3, SeatsAreTokens
  <2>3. IsFiniteSet(SeatsOver(y)') /\ Cardinality(SeatsOver(y)') = Cardinality(SeatsOver(y)) - Pos(-q)
    <3>1. IsFiniteSet(Tokens(Holders(y), Gives)) /\ -q \in Int
      BY <2>1, SeatsAreTokens DEF Countable
    <3>2. SeatsOver(y)' = Tokens(Holders(y) \ {o}, Gives)
      BY <1>4, <1>5, SeatsAreTokensNext
    <3>3. /\ IsFiniteSet(Tokens(Holders(y) \ {o}, Gives))
          /\ Cardinality(Tokens(Holders(y) \ {o}, Gives))
               = Cardinality(Tokens(Holders(y), Gives)) - Pos(-q)
      <4>1. o \in Holders(y) /\ Gives[o] = -q /\ Gives[o] \in Int
        BY <1>5, <2>1, <3>1
      <4>2. /\ IsFiniteSet(Tokens(Holders(y) \ {o}, Gives))
            /\ Cardinality(Tokens(Holders(y) \ {o}, Gives))
                 = Cardinality(Tokens(Holders(y), Gives)) - Pos(Gives[o])
        BY <3>1, <4>1, TokensRemoved
      <4> QED
        BY <4>1, <4>2
    <3> QED
      BY <3>2, <3>3, SeatsAreTokens
  <2>4. avail[y] \in Int /\ avail'[y] = avail[y] + q /\ supplied[y] \in Nat
    BY <1>2, <1>7 DEF LedgerTypeOK
  <2>5. /\ Cardinality(SeatsTaken(y)) <= supplied[y] + Cardinality(SeatsAdded(y))
        /\ avail[y] + Cardinality(SeatsTaken(y)) <= supplied[y] + Cardinality(SeatsAdded(y))
    BY DEF Audited, Ever
  <2>6. /\ Cardinality(SeatsTaken(y)) \in Nat /\ Cardinality(SeatsOver(y)) \in Nat
        /\ Cardinality(SeatsAdded(y)) \in Nat
    BY <2>1, Counts
  <2>7. /\ avail'[y] + Cardinality(SeatsTaken(y)') - Cardinality(SeatsOver(y)')
              = avail[y] + Cardinality(SeatsTaken(y)) - Cardinality(SeatsOver(y))
        /\ Cardinality(SeatsTaken(y)') <= supplied[y] + Cardinality(SeatsAdded(y))
        /\ avail'[y] + Cardinality(SeatsTaken(y)') <= supplied[y] + Cardinality(SeatsAdded(y))
    <3>0. PICK p \in Nat, m \in Nat : p = Pos(q) /\ m = Pos(-q) /\ q = p - m
      BY <1>1, PosSplit
    <3>1. PICK t \in Nat, v \in Nat, a \in Nat, s \in Nat, f \in Int :
            /\ t = Cardinality(SeatsTaken(y))
            /\ v = Cardinality(SeatsOver(y))
            /\ a = Cardinality(SeatsAdded(y))
            /\ s = supplied[y]
            /\ f = avail[y]
      BY <2>4, <2>6
    <3>2. t <= s + a /\ f + t <= s + a
      BY <2>5, <3>1
    <3>3. /\ (f + (p - m)) + (t - p) - (v - m) = f + t - v
          /\ t - p <= s + a
          /\ (f + (p - m)) + (t - p) <= s + a
      BY <3>2
    <3> QED
      BY <2>2, <2>3, <2>4, <3>0, <3>1, <3>3
  <2> QED
    BY <1>2, <1>5, <2>1, <2>2, <2>3, <2>7 DEF Kept, Countable, Ever, Sum
<1> QED
  BY <1>6, <1>7

LEMMA StepKeeps ==
    ASSUME LedgerAssumption, LedgerTypeOK, Audited, [LedgerNext]_ledgerVars, NEW y \in Zones
    PROVE  Kept(y)
<1>1. ASSUME NEW o \in OrderIds, Sell(o) PROVE Kept(y)
  <2>1. Holders(y)' = Holders(y) /\ Takers(y)' = Takers(y)
    BY <1>1 DEF LedgerTypeOK, Sell, Holders, Takers
  <2>2. /\ SeatsTaken(y)' = SeatsTaken(y)
        /\ SeatsOver(y)' = SeatsOver(y)
        /\ SeatsAdded(y)' = SeatsAdded(y)
    BY <1>1, <2>1 DEF Sell, SeatsTaken, SeatsOver, SeatsAdded, Takes, Adds
  <2> QED
    BY <1>1, <2>2, Untouched DEF Sell
<1>2. CASE UNCHANGED ledgerVars
  <2>1. /\ SeatsTaken(y)' = SeatsTaken(y)
        /\ SeatsOver(y)' = SeatsOver(y)
        /\ SeatsAdded(y)' = SeatsAdded(y)
    BY <1>2 DEF ledgerVars, SeatsTaken, SeatsOver, SeatsAdded, Holders, Takers, Takes, Adds
  <2> QED
    BY <1>2, <2>1, Untouched DEF ledgerVars
<1> QED
  BY <1>1, <1>2, OpenKeeps, TakeKeeps, ReleaseKeeps DEF LedgerNext

LEMMA SumStutters ==
    ASSUME UNCHANGED ledgerVars, NEW z \in Zones
    PROVE  Sum(z)' = Sum(z)
BY DEF ledgerVars, Sum, SeatsTaken, SeatsOver, Holders, Takes, Adds

LEMMA LedgerAudited ==
    ASSUME LedgerAssumption
    PROVE  LedgerSpec => []Audited
<1>1. LedgerInit => Audited
  <2> SUFFICES ASSUME LedgerInit, NEW z \in Zones
               PROVE  /\ Countable(z)
                      /\ Cardinality(SeatsTaken(z)) <= Ever(z)
                      /\ avail[z] + Cardinality(SeatsTaken(z)) <= Ever(z)
    BY DEF Audited
  <2>1. SeatsTaken(z) = {} /\ SeatsOver(z) = {} /\ SeatsAdded(z) = {}
    BY DEF LedgerInit, SeatsTaken, SeatsOver, SeatsAdded, Holders, Takers
  <2>2. avail[z] = 0 /\ supplied[z] = 0
    BY DEF LedgerInit
  <2> QED
    BY <2>1, <2>2, FS_EmptySet DEF Countable, Ever
<1>2. LedgerTypeOK /\ Audited /\ [LedgerNext]_ledgerVars => Audited'
  <2> SUFFICES ASSUME LedgerTypeOK, Audited, [LedgerNext]_ledgerVars
               PROVE  Audited'
    OBVIOUS
  <2>1. \A y \in Zones : Kept(y)
    BY StepKeeps
  <2> QED
    BY <2>1 DEF Kept, Audited
<1> QED
  BY <1>1, <1>2, LedgerTyping, PTL DEF LedgerSpec

\* Takes, sales and releases, of positive and negative numbers of seats, leave
\* the sum of what is available in a zone and what its orders have out as it
\* was: only an opening changes it.
THEOREM LedgerBalanced ==
    ASSUME LedgerAssumption
    PROVE  LedgerSpec => Balanced
<1>1. LedgerTypeOK /\ Audited /\ [LedgerNext]_ledgerVars => [BalancedStep]_ledgerVars
  BY StepKeeps DEF Kept, BalancedStep
<1> QED
  BY <1>1, LedgerAudited, LedgerTyping, PTL DEF LedgerSpec, Balanced

\* However often a zone is opened, and with whatever numbers, no more of its
\* seats are held or sold than its openings have supplied and negative orders
\* added.
THEOREM LedgerCovered ==
    ASSUME LedgerAssumption
    PROVE  LedgerSpec => []Covered
<1>1. Audited => Covered
  BY DEF Audited, Covered, Ever
<1> QED
  BY <1>1, LedgerAudited, PTL
=============================================================================
