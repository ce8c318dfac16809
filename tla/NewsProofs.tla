----------------------------- MODULE NewsProofs -----------------------------
(***************************************************************************)
(* What the news cache promises, for any number of admins and readers and  *)
(* any set of slugs: the types, that no two articles share a slug, and     *)
(* that a stale key is always somebody's doing.  Every action moves one    *)
(* request; what a key is stale about moves with it, from an admin that    *)
(* has still to delete it, to another, or into excused.                    *)
(***************************************************************************)
EXTENDS News, TLAPS

Pages == {x \in Article : x.published}

TableSound ==
    /\ table \subseteq Article
    /\ created \in Nat
    /\ \A x \in table : x.id \in 1..created
    /\ SlugsUnique

\* Nothing is cached of a slug without an article.
CacheSound ==
    /\ cache \in [Keys -> (SUBSET Pages) \cup {None}]
    /\ \A s \in Slugs : cache[s] = None \/ cache[s] # {}
    /\ excused \subseteq Keys

ReadersSound ==
    /\ rpc \in [Readers -> {"idle", "missed", "fetched"}]
    /\ want \in [Readers -> Keys \cup {None}]
    /\ got \in [Readers -> SUBSET Pages]
    /\ \A r \in Readers :
          /\ rpc[r] # "idle" => want[r] \in Keys
          /\ rpc[r] = "fetched" => want[r] = Latest \/ got[r] # {}

\* What an admin request at pc may be about, n rows created so far.
JobFits(pc, j, n) ==
    IF pc \in {"new", "done"} THEN j = None
    ELSE /\ j \in Jobs
         /\ j.op = "create" => j.slug \in Slugs /\ j.published \in BOOLEAN
         /\ j.op # "create" => j.prev \in Slugs /\ j.id \in 1..n
         /\ pc = "loaded" => j.op = "update"
         /\ pc = "planned" /\ j.op = "create" => j.id = 0
         /\ pc = "written" => j.op # "delete" /\ j.id \in 1..n

AdminsSound ==
    /\ apc \in [Admins -> {"new", "loaded", "planned", "written", "owing", "done"}]
    /\ job \in [Admins -> Jobs \cup {None}]
    /\ owes \in [Admins -> Seq(Keys)]
    /\ \A a \in Admins : /\ JobFits(apc[a], job[a], created)
                         /\ apc[a] = "owing" <=> owes[a] # <<>>

NewsSound == TableSound /\ CacheSound /\ ReadersSound /\ AdminsSound /\ faults \in 0..MaxFaults

\* Sharper than WillDelete: an update owes the slug it replaced; once its row
\* is gone, the front page and the row's slug are the remover's to delete.
Due(a, k) ==
    \/ \E i \in 1..Len(owes[a]) : owes[a][i] = k
    \/ /\ apc[a] = "written"
       /\ \/ job[a].op = "update" /\ k = job[a].prev
          \/ \E x \in Row(job[a].id) : k = Latest \/ (job[a].op = "update" /\ k = x.slug)

Accounted(k) == Fresh(k) \/ k \in excused \/ \E a \in Admins : Due(a, k)

StaleAccounted == faults = MaxFaults => \A k \in Keys : Accounted(k)

-----------------------------------------------------------------------------
(* Lemmas: values, and one admin request that moves.                       *)

LEMMA AnswersArePages ==
    ASSUME TableSound, NEW k \in Keys
    PROVE  Answers(k) \subseteq SUBSET Pages
<1>1. Public \subseteq Pages
  BY DEF Public, Pages, TableSound
<1>2. CASE k = Latest
  BY <1>1, <1>2 DEF Answers, Newest
<1>3. CASE k # Latest
  BY <1>1, <1>3 DEF Answers
<1> QED
  BY <1>2, <1>3

LEMMA OthersFitStill ==
    ASSUME NEW pc, NEW j, NEW m \in Nat, NEW n \in Nat, m <= n, JobFits(pc, j, m)
    PROVE  JobFits(pc, j, n)
<1>1. \A i \in 1..m : i \in 1..n
  OBVIOUS
<1> QED
  BY <1>1 DEF JobFits

AdminMoves(a, pc, j, keys) ==
    /\ apc' = [apc EXCEPT ![a] = pc]
    /\ job' = [job EXCEPT ![a] = j]
    /\ owes' = [owes EXCEPT ![a] = keys]

LEMMA MovedAdminSound ==
    ASSUME AdminsSound, created \in Nat, created' \in Nat, created <= created',
           NEW a \in Admins, NEW pc, NEW j, NEW keys, AdminMoves(a, pc, j, keys),
           pc \in {"new", "loaded", "planned", "written", "owing", "done"},
           j \in Jobs \cup {None}, keys \in Seq(Keys),
           JobFits(pc, j, created'), pc = "owing" <=> keys # <<>>
    PROVE  AdminsSound'
<1>1. /\ apc' \in [Admins -> {"new", "loaded", "planned", "written", "owing", "done"}]
      /\ job' \in [Admins -> Jobs \cup {None}]
      /\ owes' \in [Admins -> Seq(Keys)]
  BY DEF AdminMoves, AdminsSound
<1>2. ASSUME NEW b \in Admins
      PROVE  JobFits(apc'[b], job'[b], created') /\ (apc'[b] = "owing" <=> owes'[b] # <<>>)
  <2>1. CASE b = a
    BY <2>1 DEF AdminMoves, AdminsSound
  <2>2. CASE b # a
    <3>1. apc'[b] = apc[b] /\ job'[b] = job[b] /\ owes'[b] = owes[b]
      BY <2>2 DEF AdminMoves, AdminsSound
    <3> QED
      BY <3>1, OthersFitStill DEF AdminsSound
  <2> QED
    BY <2>1, <2>2
<1> QED
  BY <1>1, <1>2 DEF AdminsSound

LEMMA AdminFits ==
    ASSUME AdminsSound, NEW a \in Admins
    PROVE  /\ JobFits(apc[a], job[a], created)
           /\ apc[a] # "owing" => owes[a] = <<>>
           /\ owes = [owes EXCEPT ![a] = owes[a]]
           /\ <<>> \in Seq(Keys)
BY DEF AdminsSound

LEMMA EndedAdminSound ==
    ASSUME AdminsSound, created \in Nat, created' \in Nat, created <= created',
           NEW a \in Admins, EndRequest(a)
    PROVE  AdminsSound'
<1>1. AdminMoves(a, "done", None, <<>>)
  BY DEF EndRequest, AdminMoves
<1>2. JobFits("done", None, created')
  BY DEF JobFits
<1> QED
  BY <1>1, <1>2, MovedAdminSound, AdminFits

LEMMA OwingAdminSound ==
    ASSUME AdminsSound, created \in Nat, created' \in Nat, created <= created',
           NEW a \in Admins, NEW keys \in Seq(Keys), keys # <<>>, Owe(a, keys),
           apc[a] \notin {"new", "done", "loaded"}
    PROVE  AdminsSound'
<1>1. AdminMoves(a, "owing", job[a], keys)
  BY DEF Owe, AdminMoves, AdminsSound
<1>2. job[a] \in Jobs /\ JobFits("owing", job[a], created')
  <2>1. job[a] \in Jobs /\ JobFits("owing", job[a], created)
    BY AdminFits DEF JobFits
  <2> QED
    BY <2>1, OthersFitStill
<1> QED
  BY <1>1, <1>2, MovedAdminSound

LEMMA GoneOnAdminSound ==
    ASSUME AdminsSound, created \in Nat, created' \in Nat, created <= created',
           NEW a \in Admins, NEW pc \in {"loaded", "planned", "written"}, NEW j \in Jobs,
           GoOn(a, pc, j), apc[a] # "owing", JobFits(pc, j, created')
    PROVE  AdminsSound'
<1>1. AdminMoves(a, pc, j, <<>>)
  BY AdminFits DEF GoOn, AdminMoves
<1> QED
  BY <1>1, MovedAdminSound, AdminFits

-----------------------------------------------------------------------------
(* NewsSound is inductive: the readers and the TTL, then the admins.       *)

LEMMA FaultsStay ==
    ASSUME faults \in 0..MaxFaults, NoFault \/ Fault
    PROVE  /\ faults' \in 0..MaxFaults
           /\ faults' = MaxFaults => faults = MaxFaults /\ NoFault
BY NewsBoundsAssumption DEF NoFault, Fault

LEMMA AdminsApart ==
    ASSUME TableSound, AdminsSound, UNCHANGED <<tableVars, adminVars>>
    PROVE  TableSound' /\ AdminsSound'
BY DEF TableSound, AdminsSound, SlugsUnique, tableVars, adminVars

LEMMA ReadersApart ==
    ASSUME CacheSound, ReadersSound, UNCHANGED <<cache, readerVars>>, excused' \subseteq Keys
    PROVE  CacheSound' /\ ReadersSound'
BY DEF CacheSound, ReadersSound, readerVars

LEMMA MissSound ==
    ASSUME NewsSound, NEW r \in Readers, NEW k \in Keys, Miss(r, k)
    PROVE  NewsSound'
<1>1. NoFault \/ Fault
  BY DEF Miss
<1>2. CacheSound'
  BY DEF Miss, NewsSound, CacheSound
<1>3. ReadersSound'
  BY DEF Miss, NewsSound, ReadersSound
<1> QED
  BY <1>1, <1>2, <1>3, FaultsStay, AdminsApart DEF Miss, NewsSound

LEMMA FetchSound ==
    ASSUME NewsSound, NEW r \in Readers, Fetch(r)
    PROVE  NewsSound'
<1>1. NoFault \/ Fault
  BY DEF Fetch
<1>2. CacheSound'
  BY DEF Fetch, NewsSound, CacheSound
<1>3. want[r] \in Keys
  BY DEF Fetch, NewsSound, ReadersSound
<1>4. ReadersSound'
  <2>1. ASSUME NEW value \in Answers(want[r]), want[r] = Latest \/ value # {},
               rpc' = [rpc EXCEPT ![r] = "fetched"], got' = [got EXCEPT ![r] = value],
               want' = want
        PROVE  ReadersSound'
    <3>1. value \in SUBSET Pages
      BY <1>3, AnswersArePages DEF NewsSound
    <3> QED
      BY <1>3, <2>1, <3>1 DEF NewsSound, ReadersSound
  <2>2. CASE /\ rpc' = [rpc EXCEPT ![r] = "idle"]
             /\ want' = [want EXCEPT ![r] = None]
             /\ got' = got
    BY <2>2 DEF NewsSound, ReadersSound
  <2> QED
    BY <2>1, <2>2 DEF Fetch
<1> QED
  BY <1>1, <1>2, <1>4, FaultsStay, AdminsApart DEF Fetch, NewsSound

LEMMA StoreSound ==
    ASSUME NewsSound, NEW r \in Readers, Store(r)
    PROVE  NewsSound'
<1>1. NoFault \/ Fault
  BY DEF Store
<1>2. /\ want[r] \in Keys /\ got[r] \in SUBSET Pages
      /\ want[r] = Latest \/ got[r] # {}
  BY DEF Store, NewsSound, ReadersSound
<1>3. CacheSound'
  <2>1. CASE cache' = cache /\ excused' = excused
    BY <2>1 DEF NewsSound, CacheSound
  <2>2. CASE /\ cache' = [cache EXCEPT ![want[r]] = got[r]]
             /\ excused' \in {excused \ {want[r]}, excused \cup {want[r]}}
    <3>1. cache' \in [Keys -> (SUBSET Pages) \cup {None}] /\ excused' \subseteq Keys
      BY <1>2, <2>2 DEF NewsSound, CacheSound
    <3>2. ASSUME NEW s \in Slugs PROVE cache'[s] = None \/ cache'[s] # {}
      BY <1>2, <2>2, KeysAssumption DEF NewsSound, CacheSound, Keys
    <3> QED
      BY <3>1, <3>2 DEF CacheSound
  <2> QED
    BY <2>1, <2>2 DEF Store
<1>4. ReadersSound'
  BY DEF Store, NewsSound, ReadersSound
<1> QED
  BY <1>1, <1>3, <1>4, FaultsStay, AdminsApart DEF Store, NewsSound

LEMMA LapsesSound ==
    ASSUME NewsSound, NEW k \in Keys, Lapses(k)
    PROVE  NewsSound'
<1>1. CacheSound'
  BY DEF Lapses, NewsSound, CacheSound, Keys
<1>2. ReadersSound'
  BY DEF Lapses, NewsSound, ReadersSound, readerVars
<1> QED
  BY <1>1, <1>2, AdminsApart DEF Lapses, NewsSound

LEMMA QueueOfKeys ==
    ASSUME NEW q \in Seq(Keys), q # <<>>
    PROVE  /\ Head(q) \in Keys /\ Tail(q) \in Seq(Keys)
           /\ Len(q) > 1 => Tail(q) # <<>>
           /\ Len(q) = 1 \/ Len(q) > 1
           /\ \A i \in 1..Len(q) : q[i] = Head(q)
                                   \/ (Len(q) > 1 /\ \E j \in 1..Len(Tail(q)) : Tail(q)[j] = q[i])
<1>1. Len(q) \in Nat /\ Len(q) >= 1
  OBVIOUS
<1>2. Head(q) = q[1] /\ Head(q) \in Keys /\ Tail(q) \in Seq(Keys) /\ Len(Tail(q)) = Len(q) - 1
  BY <1>1
<1>3. ASSUME NEW i \in 1..Len(q), i # 1
      PROVE  Len(q) > 1 /\ i - 1 \in 1..Len(Tail(q)) /\ Tail(q)[i - 1] = q[i]
  BY <1>1, <1>2, <1>3
<1>4. ASSUME Len(q) > 1, Tail(q) = <<>> PROVE FALSE
  <2>1. Len(<<>>) = 0
    OBVIOUS
  <2>2. Len(Tail(q)) = 0
    BY <1>4, <2>1, Zenon
  <2>3. Len(Tail(q)) = Len(q) - 1
    BY <1>2
  <2> QED
    BY <1>1, <1>4, <2>2, <2>3
<1>5. Len(q) = 1 \/ Len(q) > 1
  BY <1>1
<1> QED
  BY <1>2, <1>3, <1>4, <1>5

LEMMA InvalidateSound ==
    ASSUME NewsSound, NEW a \in Admins, Invalidate(a)
    PROVE  NewsSound'
<1>1. NoFault \/ Fault
  BY DEF Invalidate
<1>2. owes[a] \in Seq(Keys) /\ owes[a] # <<>>
  BY DEF Invalidate, NewsSound, AdminsSound
<1>3. Head(owes[a]) \in Keys /\ Tail(owes[a]) \in Seq(Keys)
      /\ (Len(owes[a]) > 1 => Tail(owes[a]) # <<>>)
  BY <1>2, QueueOfKeys
<1>4. TableSound' /\ created' \in Nat /\ created \in Nat /\ created <= created'
  BY DEF Invalidate, NewsSound, TableSound, SlugsUnique, tableVars
<1>5. AdminsSound'
  <2>1. CASE Len(owes[a]) > 1 /\ Owe(a, Tail(owes[a]))
    <3>1. apc[a] \notin {"new", "done", "loaded"} /\ AdminsSound
      BY DEF Invalidate, NewsSound
    <3> QED
      BY <1>3, <1>4, <2>1, <3>1, OwingAdminSound
  <2>2. CASE EndRequest(a)
    BY <1>4, <2>2, EndedAdminSound DEF NewsSound
  <2> QED
    BY <2>1, <2>2 DEF Invalidate
<1>6. CacheSound'
  <2>1. cache' = cache \/ cache' = [cache EXCEPT ![Head(owes[a])] = None]
    BY DEF Invalidate
  <2>2. excused' \subseteq excused
    BY DEF Invalidate
  <2> QED
    BY <1>3, <2>1, <2>2 DEF NewsSound, CacheSound, Keys
<1>7. ReadersSound'
  BY DEF Invalidate, NewsSound, ReadersSound, readerVars
<1> QED
  BY <1>1, <1>4, <1>5, <1>6, <1>7, FaultsStay DEF NewsSound

LEMMA PlansSound ==
    ASSUME NewsSound, NEW a \in Admins,
           \/ \E s \in Slugs, p \in Flags : PlanCreate(a, s, p)
           \/ \E x \in table, op \in {"update", "delete"} : Load(a, x, op)
           \/ \E s \in Slugs \cup {None}, p \in Flags : PlanUpdate(a, s, p)
    PROVE  NewsSound'
<1>1. NoFault /\ Quiet /\ apc[a] # "owing"
  BY DEF PlanCreate, Load, PlanUpdate
<1>2. TableSound' /\ created \in Nat /\ created' = created /\ created <= created'
  BY <1>1 DEF Quiet, NewsSound, TableSound, SlugsUnique, tableVars
<1>3. CacheSound' /\ ReadersSound'
  BY <1>1, ReadersApart DEF Quiet, NewsSound, CacheSound
<1>4. AdminsSound'
  <2>1. ASSUME NEW s \in Slugs, NEW p \in Flags, PlanCreate(a, s, p)
        PROVE  AdminsSound'
    <3> DEFINE j == [op |-> "create", id |-> 0, prev |-> None, slug |-> s, published |-> p # FALSE]
    <3>1. j.published \in BOOLEAN
      BY Zenon
    <3>2. /\ j.op = "create" /\ j.id = 0 /\ j.prev = None /\ j.slug = s
          /\ j \in Jobs
      <4>1. j.published \in BOOLEAN \cup {None} /\ 0 \in Nat
        BY <3>1
      <4>2. (p # FALSE) \in BOOLEAN \cup {None}
        BY Zenon
      <4> QED
        BY <4>1, <4>2, Zenon DEF Jobs
    <3> HIDE DEF j
    <3>3. GoOn(a, "planned", j)
      BY <2>1, Zenon DEF PlanCreate, j
    <3>4. JobFits("planned", j, created')
      BY <3>1, <3>2 DEF JobFits
    <3> QED
      BY <1>1, <1>2, <3>2, <3>3, <3>4, GoneOnAdminSound DEF NewsSound
  <2>2. ASSUME NEW x \in table, NEW op \in {"update", "delete"}, Load(a, x, op)
        PROVE  AdminsSound'
    <3> DEFINE pc == IF op = "delete" THEN "planned" ELSE "loaded"
               j == [op |-> op, id |-> x.id, prev |-> x.slug, slug |-> None, published |-> None]
    <3>1. x \in Article /\ x.id \in 1..created
      BY DEF NewsSound, TableSound
    <3>2. j \in Jobs /\ JobFits(pc, j, created')
      BY <1>2, <3>1 DEF Article, Jobs, JobFits
    <3>3. GoOn(a, pc, j)
      BY <2>2 DEF Load
    <3> QED
      BY <1>1, <1>2, <3>2, <3>3, GoneOnAdminSound DEF NewsSound
  <2>3. ASSUME NEW s \in Slugs \cup {None}, NEW p \in Flags, PlanUpdate(a, s, p)
        PROVE  AdminsSound'
    <3> DEFINE j == [job[a] EXCEPT !.slug = s, !.published = p]
    <3>1. JobFits("loaded", job[a], created)
      BY <2>3, AdminFits DEF PlanUpdate, NewsSound
    <3>2. p \in BOOLEAN \cup {None}
      BY FlagsAssumption
    <3>3. j \in Jobs /\ j.op = "update" /\ j.prev = job[a].prev /\ j.id = job[a].id
      BY <3>1, <3>2 DEF JobFits, Jobs
    <3>4. JobFits("planned", j, created')
      BY <1>2, <3>1, <3>3 DEF JobFits
    <3>5. GoOn(a, "planned", j)
      BY <2>3 DEF PlanUpdate
    <3> QED
      BY <1>1, <1>2, <3>3, <3>4, <3>5, GoneOnAdminSound DEF NewsSound
  <2> QED
    BY <2>1, <2>2, <2>3
<1> QED
  BY <1>1, <1>2, <1>3, <1>4, FaultsStay DEF NewsSound

\* The statement of a planned request, told by what it is about.
LEMMA PlannedJob ==
    ASSUME AdminsSound, NEW a \in Admins, apc[a] = "planned"
    PROVE  /\ job[a] \in Jobs /\ job[a].op \in {"create", "update", "delete"}
           /\ job[a].op = "create" =>
                 job[a].slug \in Slugs /\ job[a].published \in BOOLEAN /\ job[a].id = 0
           /\ job[a].op # "create" => job[a].prev \in Slugs /\ job[a].id \in 1..created
           /\ job[a].slug \in Slugs \cup {None} /\ job[a].published \in BOOLEAN \cup {None}
BY AdminFits DEF JobFits, Jobs

LEMMA PatchedArticle ==
    ASSUME NEW x \in Article, NEW j \in Jobs
    PROVE  Patched(x, j) \in Article /\ Patched(x, j).id = x.id
<1>1. /\ (IF j.slug = None THEN x.slug ELSE j.slug) \in Slugs
      /\ x.edition + 1 \in Nat
  BY DEF Article, Jobs
<1>2. (IF j.published = None THEN x.published ELSE j.published) \in BOOLEAN
  BY Zenon DEF Article, Jobs
<1> QED
  BY <1>1, <1>2 DEF Patched, Article

LEMMA InsertedArticle ==
    ASSUME TableSound, AdminsSound, NEW a \in Admins, apc[a] = "planned", job[a].op = "create"
    PROVE  /\ Inserted(a) \in Article /\ Inserted(a).id = created + 1
           /\ Inserted(a).slug = job[a].slug
<1>1. job[a].slug \in Slugs /\ job[a].published \in BOOLEAN
  BY PlannedJob
<1>2. created + 1 \in Nat /\ 0 \in Nat
  BY DEF TableSound
<1> QED
  BY <1>1, <1>2, Zenon DEF Inserted, Article

LEMMA StatementKeepsTable ==
    ASSUME TableSound, AdminsSound, NEW a \in Admins, apc[a] = "planned", Statement(a)
    PROVE  TableSound' /\ created' \in Nat /\ created <= created'
<1>1. CASE Insert(a)
  <2> DEFINE y == Inserted(a)
  <2>1. y \in Article /\ y.id = created + 1 /\ y.slug = job[a].slug
    BY <1>1, InsertedArticle DEF Insert
  <2> HIDE DEF y
  <2>2. table' = table \cup {y} /\ created' = created + 1 /\ created \in Nat
    BY <1>1 DEF Insert, TableSound, y
  <2>3. \A x \in table : x.id # y.id /\ x.slug # y.slug
    BY <1>1, <2>1 DEF Insert, Insertable, TableSound
  <2>4. \A x \in table' : x.id \in 1..created'
    BY <2>1, <2>2 DEF TableSound
  <2>5. SlugsUnique'
    BY <2>2, <2>3 DEF SlugsUnique, TableSound
  <2> QED
    BY <2>1, <2>2, <2>4, <2>5 DEF TableSound
<1>2. ASSUME NEW x \in Row(job[a].id), Rewrite(a, x)
      PROVE  TableSound' /\ created' = created
  <2> DEFINE y == Patched(x, job[a])
  <2>1. x \in table /\ y \in Article /\ y.id = x.id
    BY PlannedJob, PatchedArticle DEF Row, TableSound
  <2> HIDE DEF y
  <2>2. table' = (table \ {x}) \cup {y} /\ created' = created
    BY <1>2 DEF Rewrite, y
  <2>3. \A z \in table \ {x} : z.id # y.id /\ z.slug # y.slug
    BY <1>2, <2>1 DEF Rewrite, Insertable, TableSound, SlugsUnique, y
  <2>4. SlugsUnique'
    BY <2>2, <2>3 DEF SlugsUnique, TableSound
  <2> QED
    BY <2>1, <2>2, <2>4 DEF TableSound
<1>3. ASSUME NEW x \in Row(job[a].id), Remove(a, x)
      PROVE  TableSound' /\ created' = created
  BY <1>3 DEF Remove, TableSound, SlugsUnique
<1>4. created \in Nat
  BY DEF TableSound
<1>5. CASE TableSound' /\ created' = created
  BY <1>4, <1>5
<1>6. CASE Insert(a)
  BY <1>1, <1>4, <1>6 DEF Insert
<1> QED
  BY <1>2, <1>3, <1>5, <1>6 DEF Statement

LEMMA WriteSound ==
    ASSUME NewsSound, NEW a \in Admins, Write(a)
    PROVE  NewsSound'
<1>1. NoFault \/ Fault
  BY DEF Write
<1>2. AdminsSound /\ TableSound /\ apc[a] = "planned" /\ created \in Nat
  BY DEF Write, NewsSound, TableSound
<1>3. TableSound' /\ created' \in Nat /\ created <= created'
  <2>1. CASE Statement(a)
    BY <1>2, <2>1, StatementKeepsTable
  <2>2. CASE UNCHANGED <<tableVars, excused>>
    BY <1>2, <2>2 DEF TableSound, SlugsUnique, tableVars
  <2> QED
    BY <2>1, <2>2 DEF Write
<1>4. AdminsSound'
  <2>1. CASE EndRequest(a)
    BY <1>2, <1>3, <2>1, EndedAdminSound
  <2>2. CASE job[a].op = "delete" /\ Owe(a, <<Latest, job[a].prev>>)
    <3>1. Latest \in Keys /\ job[a].prev \in Keys
      BY <1>2, <2>2, PlannedJob DEF Keys
    <3>2. <<Latest, job[a].prev>> \in Seq(Keys) /\ <<Latest, job[a].prev>> # <<>>
      BY <3>1
    <3> QED
      BY <1>2, <1>3, <2>2, <3>2, OwingAdminSound
  <2>3. CASE /\ job[a].op # "delete" /\ Statement(a)
             /\ GoOn(a, "written", [job[a] EXCEPT !.id = IF @ = 0 THEN created' ELSE @])
    <3> DEFINE j == [job[a] EXCEPT !.id = IF @ = 0 THEN created' ELSE @]
    <3>1. created' # 0 /\ (job[a].id = 0 => created' \in 1..created')
      <4>1. CASE job[a].op = "create"
        <5>1. created' = created + 1
          BY <2>3, <4>1 DEF Statement, Insert, Rewrite, Remove
        <5> QED
          BY <1>2, <5>1
      <4>2. CASE job[a].op # "create"
        <5>1. job[a].id \in 1..created
          BY <1>2, <4>2, PlannedJob
        <5> QED
          BY <1>2, <1>3, <5>1
      <4> QED
        BY <4>1, <4>2
    <3>2. job[a].id \in Nat
      BY <1>2, PlannedJob DEF Jobs
    <3>3. /\ j \in Jobs /\ j.op = job[a].op /\ j.prev = job[a].prev
          /\ j.slug = job[a].slug /\ j.published = job[a].published
          /\ j.id = IF job[a].id = 0 THEN created' ELSE job[a].id
      <4>1. (IF job[a].id = 0 THEN created' ELSE job[a].id) \in Nat
        BY <1>3, <3>2
      <4> QED
        BY <1>2, <4>1, PlannedJob DEF Jobs
    <3> HIDE DEF j
    <3>4. j.id \in 1..created'
      BY <1>2, <1>3, <2>3, <3>1, <3>2, <3>3, PlannedJob
    <3>5. JobFits("written", j, created')
      <4>1. j.op = "create" => j.slug \in Slugs /\ j.published \in BOOLEAN
        BY <1>2, <3>3, PlannedJob, Zenon
      <4>2. j.op # "create" => j.prev \in Slugs
        BY <1>2, <3>3, PlannedJob
      <4> QED
        BY <2>3, <3>3, <3>4, <4>1, <4>2 DEF JobFits
    <3>6. GoOn(a, "written", j) /\ apc[a] # "owing"
      BY <1>2, <2>3 DEF j
    <3> QED
      BY <1>2, <1>3, <3>3, <3>5, <3>6, GoneOnAdminSound
  <2> QED
    BY <2>1, <2>2, <2>3 DEF Write
<1>5. excused' \subseteq Keys
  <2>1. excused \subseteq Keys /\ \A x \in table : x.slug \in Keys
    BY DEF NewsSound, CacheSound, TableSound, Article, Keys
  <2>2. \A x \in Row(job[a].id) : x \in table
    BY DEF Row
  <2>3. CASE Statement(a)
    <3>1. CASE Insert(a)
      BY <2>1, <3>1 DEF Insert
    <3>2. ASSUME NEW x \in Row(job[a].id), Rewrite(a, x) \/ Remove(a, x)
          PROVE  excused' \subseteq Keys
      BY <2>1, <2>2, <3>2 DEF Rewrite, Remove
    <3> QED
      BY <2>3, <3>1, <3>2 DEF Statement
  <2> QED
    BY <2>1, <2>3 DEF Write
<1>6. CacheSound' /\ ReadersSound'
  BY <1>5, ReadersApart DEF Write, NewsSound
<1> QED
  BY <1>1, <1>3, <1>4, <1>6, FaultsStay DEF NewsSound

\* What ReadBack finds to delete: the front page, and for an update the slug
\* it replaced and the one the row has now.
LEMMA KeysToDelete ==
    ASSUME NEW j, NEW slug \in Slugs, j.op # "create" => j.prev \in Slugs
    PROVE  /\ ToDelete(j, slug) \in Seq(Keys) /\ ToDelete(j, slug) # <<>>
           /\ \A k \in {Latest} \cup (IF j.op = "create" THEN {} ELSE {j.prev, slug}) :
                 \E i \in 1..Len(ToDelete(j, slug)) : ToDelete(j, slug)[i] = k
<1>1. Latest \in Keys /\ slug \in Keys /\ (j.op # "create" => j.prev \in Keys)
  BY DEF Keys
<1>2. CASE j.op = "create"
  <2>1. ToDelete(j, slug) = <<Latest>>
    BY <1>2 DEF ToDelete
  <2> QED
    BY <1>1, <1>2, <2>1
<1>3. CASE j.op # "create" /\ slug = j.prev
  <2>1. ToDelete(j, slug) = <<Latest, slug>>
    BY <1>3 DEF ToDelete
  <2> QED
    BY <1>1, <1>3, <2>1
<1>4. CASE j.op # "create" /\ slug # j.prev
  <2>1. ToDelete(j, slug) = <<Latest, j.prev, slug>>
    BY <1>4 DEF ToDelete
  <2> QED
    BY <1>1, <1>4, <2>1
<1> QED
  BY <1>2, <1>3, <1>4

LEMMA WrittenJob ==
    ASSUME AdminsSound, NEW a \in Admins, apc[a] = "written"
    PROVE  /\ job[a] \in Jobs /\ job[a].op \in {"create", "update"}
           /\ job[a].op # "create" => job[a].prev \in Slugs
           /\ job[a].id \in 1..created
BY AdminFits DEF JobFits, Jobs

LEMMA ReadBackSound ==
    ASSUME NewsSound, NEW a \in Admins, ReadBack(a)
    PROVE  NewsSound'
<1>1. NoFault \/ Fault
  BY DEF ReadBack
<1>2. AdminsSound /\ apc[a] = "written"
  BY DEF ReadBack, NewsSound
<1>3. TableSound' /\ created' \in Nat /\ created \in Nat /\ created <= created'
  BY DEF ReadBack, NewsSound, TableSound, SlugsUnique, tableVars
<1>4. AdminsSound'
  <2>1. ASSUME NEW x \in Row(job[a].id), Owe(a, ToDelete(job[a], x.slug))
        PROVE  AdminsSound'
    <3>1. x.slug \in Slugs
      BY DEF Row, NewsSound, TableSound, Article
    <3>2. ToDelete(job[a], x.slug) \in Seq(Keys) /\ ToDelete(job[a], x.slug) # <<>>
      BY <1>2, <3>1, WrittenJob, KeysToDelete
    <3> QED
      BY <1>2, <1>3, <2>1, <3>2, OwingAdminSound
  <2>2. CASE EndRequest(a)
    BY <1>2, <1>3, <2>2, EndedAdminSound
  <2> QED
    BY <2>1, <2>2 DEF ReadBack
<1>5. excused' \subseteq Keys
  <2>1. {job[a].prev, job[a].slug} \ {None} \subseteq Keys
    BY <1>2, WrittenJob DEF Jobs, Keys
  <2> QED
    BY <2>1 DEF ReadBack, NewsSound, CacheSound
<1>6. CacheSound' /\ ReadersSound'
  BY <1>5, ReadersApart DEF ReadBack, NewsSound
<1> QED
  BY <1>1, <1>3, <1>4, <1>6, FaultsStay DEF NewsSound

LEMMA NewsInitSound == NewsInit => NewsSound
<1> SUFFICES ASSUME NewsInit PROVE NewsSound
  OBVIOUS
<1>1. TableSound
  <2>1. PICK s \in Slugs : table = {[id |-> 1, slug |-> s, published |-> TRUE, edition |-> 0]}
    BY DEF NewsInit
  <2>2. [id |-> 1, slug |-> s, published |-> TRUE, edition |-> 0] \in Article
    BY DEF Article
  <2>3. \A x \in table : x.id = 1
    BY <2>1
  <2>4. \A x, y \in table : x = y
    BY <2>1
  <2>5. table \subseteq Article
    BY <2>1, <2>2
  <2> QED
    BY <2>3, <2>4, <2>5 DEF NewsInit, TableSound, SlugsUnique
<1>2. CacheSound
  BY DEF NewsInit, CacheSound, Keys
<1>3. ReadersSound
  BY DEF NewsInit, ReadersSound
<1>4. AdminsSound
  BY DEF NewsInit, AdminsSound, JobFits
<1> QED
  BY <1>1, <1>2, <1>3, <1>4, NewsBoundsAssumption DEF NewsInit, NewsSound

LEMMA NewsStepSound == NewsSound /\ [NewsNext]_newsVars => NewsSound'
<1> SUFFICES ASSUME NewsSound, [NewsNext]_newsVars PROVE NewsSound'
  OBVIOUS
<1>1. CASE UNCHANGED newsVars
  BY <1>1 DEF newsVars, tableVars, adminVars, readerVars, NewsSound, TableSound, SlugsUnique,
              CacheSound, ReadersSound, AdminsSound
<1>2. CASE NewsNext
  BY <1>2, MissSound, FetchSound, StoreSound, LapsesSound, PlansSound, WriteSound,
     ReadBackSound, InvalidateSound DEF NewsNext
<1> QED
  BY <1>1, <1>2

THEOREM NewsInvariant == NewsSpec => []NewsSound
BY NewsInitSound, NewsStepSound, PTL DEF NewsSpec

\* The variables keep their types, and only published articles are cached.
THEOREM NewsTypeCorrect == NewsSpec => []NewsTypeOK
<1>1. NewsSound => NewsTypeOK
  BY DEF NewsSound, TableSound, CacheSound, ReadersSound, AdminsSound, JobFits, NewsTypeOK, Pages
<1> QED
  BY <1>1, NewsInvariant, PTL

\* For any number of overlapping requests and of failures, no two articles
\* share a slug: the check before the write is stale, UNIQUE(slug) is not.
THEOREM SlugsStayUnique == NewsSpec => []SlugsUnique
<1>1. NewsSound => SlugsUnique
  BY DEF NewsSound, TableSound
<1> QED
  BY <1>1, NewsInvariant, PTL

-----------------------------------------------------------------------------
(* Staleness is accounted for.  A step that leaves the table alone: what   *)
(* was due is still due, or has become excused, or its key is fresh.       *)

LEMMA SameAnswers ==
    ASSUME NEW k, table' = table
    PROVE  Answers(k)' = Answers(k)
BY DEF Answers, Newest, Public

LEMMA SameDue ==
    ASSUME NEW b, NEW k, table' = table,
           apc'[b] = apc[b], job'[b] = job[b], owes'[b] = owes[b]
    PROVE  Due(b, k)' = Due(b, k)
BY DEF Due, Row

LEMMA StillAccounted ==
    ASSUME NEW k \in Keys, Accounted(k), table' = table,
           cache'[k] = cache[k] \/ cache'[k] = None,
           k \in excused => k \in excused' \/ Fresh(k)',
           \A b \in Admins : Due(b, k) => Due(b, k)' \/ k \in excused' \/ Fresh(k)'
    PROVE  Accounted(k)'
<1>1. Fresh(k) => Fresh(k)'
  BY SameAnswers DEF Fresh
<1> QED
  BY <1>1 DEF Accounted

LEMMA ReadersStale ==
    ASSUME NewsSound, StaleAccounted, NEW r \in Readers,
           Fetch(r) \/ Store(r) \/ \E k \in Keys : Miss(r, k)
    PROVE  StaleAccounted'
<1> SUFFICES ASSUME faults' = MaxFaults, NEW k \in Keys
             PROVE  Accounted(k)'
  BY DEF StaleAccounted
<1>1. NoFault /\ Accounted(k)
  BY FaultsStay DEF StaleAccounted, NewsSound, Fetch, Store, Miss
<1>2. /\ table' = table /\ apc' = apc /\ job' = job /\ owes' = owes
  BY DEF Fetch, Store, Miss, tableVars, adminVars
<1>3. \A b \in Admins : Due(b, k) => Due(b, k)'
  BY <1>2, SameDue
<1>4. CASE cache' = cache /\ excused' = excused
  BY <1>1, <1>2, <1>3, <1>4, StillAccounted
<1>5. CASE Store(r) /\ ~(cache' = cache /\ excused' = excused)
  <2>1. /\ cache' = [cache EXCEPT ![want[r]] = got[r]]
        /\ excused' = IF got[r] \in Answers(want[r])
                      THEN excused \ {want[r]} ELSE excused \cup {want[r]}
    BY <1>1, <1>5, NewsBoundsAssumption DEF Store, NoFault, Fault, NewsSound
  <2>2. CASE k = want[r] /\ got[r] \in Answers(want[r])
    <3>1. cache'[k] = got[r]
      BY <2>1, <2>2 DEF NewsSound, CacheSound
    <3> QED
      BY <1>2, <2>2, <3>1, SameAnswers DEF Accounted, Fresh
  <2>3. CASE k = want[r] /\ got[r] \notin Answers(want[r])
    BY <2>1, <2>3 DEF Accounted
  <2>4. CASE k # want[r]
    <3>1. cache'[k] = cache[k] /\ (k \in excused => k \in excused')
      BY <2>1, <2>4 DEF NewsSound, CacheSound
    <3> QED
      BY <1>1, <1>2, <1>3, <3>1, StillAccounted
  <2> QED
    BY <2>2, <2>3, <2>4
<1> QED
  BY <1>4, <1>5 DEF Fetch, Miss

LEMMA LapsesStale ==
    ASSUME NewsSound, StaleAccounted, NEW l \in Keys, Lapses(l)
    PROVE  StaleAccounted'
<1> SUFFICES ASSUME faults' = MaxFaults, NEW k \in Keys
             PROVE  Accounted(k)'
  BY DEF StaleAccounted
<1>1. Accounted(k) /\ table' = table /\ apc' = apc /\ job' = job /\ owes' = owes
  BY DEF StaleAccounted, Lapses, tableVars, adminVars
<1>2. \A b \in Admins : Due(b, k) => Due(b, k)'
  BY <1>1, SameDue
<1>3. CASE k = l
  BY <1>3 DEF Lapses, Accounted, Fresh, NewsSound, CacheSound
<1>4. CASE k # l
  <2>1. cache'[k] = cache[k] /\ (k \in excused => k \in excused')
    BY <1>4 DEF Lapses, NewsSound, CacheSound
  <2> QED
    BY <1>1, <1>2, <2>1, StillAccounted
<1> QED
  BY <1>3, <1>4

\* A request that owes nothing and has not written has nothing due.
LEMMA NothingDue ==
    ASSUME AdminsSound, NEW a \in Admins, apc[a] \notin {"written", "owing"}, NEW k
    PROVE  ~Due(a, k)
BY AdminFits DEF Due

LEMMA PlansStale ==
    ASSUME NewsSound, StaleAccounted, NEW a \in Admins,
           \/ \E s \in Slugs, p \in Flags : PlanCreate(a, s, p)
           \/ \E x \in table, op \in {"update", "delete"} : Load(a, x, op)
           \/ \E s \in Slugs \cup {None}, p \in Flags : PlanUpdate(a, s, p)
    PROVE  StaleAccounted'
<1> SUFFICES ASSUME faults' = MaxFaults, NEW k \in Keys
             PROVE  Accounted(k)'
  BY DEF StaleAccounted
<1>1. NoFault /\ Quiet /\ apc[a] \in {"new", "loaded"}
  BY DEF PlanCreate, Load, PlanUpdate
<1>2. PICK pc, j : GoOn(a, pc, j)
  BY DEF PlanCreate, Load, PlanUpdate
<1>3. Accounted(k) /\ table' = table /\ cache' = cache /\ excused' = excused
  BY <1>1 DEF StaleAccounted, Quiet, tableVars, NoFault
<1>4. ~Due(a, k)
  BY <1>1, NothingDue DEF NewsSound
<1>5. ASSUME NEW b \in Admins, Due(b, k) PROVE Due(b, k)'
  <2>1. b # a
    BY <1>4, <1>5
  <2>2. apc'[b] = apc[b] /\ job'[b] = job[b] /\ owes'[b] = owes[b]
    BY <1>2, <2>1 DEF GoOn, NewsSound, AdminsSound
  <2> QED
    BY <1>3, <1>5, <2>2, SameDue
<1> QED
  BY <1>3, <1>5, StillAccounted

LEMMA InvalidateStale ==
    ASSUME NewsSound, StaleAccounted, NEW a \in Admins, Invalidate(a)
    PROVE  StaleAccounted'
<1> SUFFICES ASSUME faults' = MaxFaults, NEW k \in Keys
             PROVE  Accounted(k)'
  BY DEF StaleAccounted
<1> DEFINE h == Head(owes[a])
<1>1. NoFault /\ Accounted(k)
  BY FaultsStay DEF StaleAccounted, NewsSound, Invalidate
<1>2. table' = table /\ cache' = [cache EXCEPT ![h] = None] /\ excused' = excused \ {h}
  BY <1>1, NewsBoundsAssumption DEF Invalidate, tableVars, NoFault, Fault, NewsSound
<1>3. owes[a] \in Seq(Keys) /\ owes[a] # <<>> /\ apc[a] = "owing"
  BY DEF Invalidate, NewsSound, AdminsSound
<1>4. CASE k = h
  BY <1>2, <1>4 DEF Accounted, Fresh, NewsSound, CacheSound
<1>5. CASE k # h
  <2>1. cache'[k] = cache[k] /\ (k \in excused => k \in excused')
    BY <1>2, <1>5 DEF NewsSound, CacheSound
  <2>2. Due(a, k) => Due(a, k)'
    <3>1. SUFFICES ASSUME Due(a, k) PROVE Due(a, k)'
      OBVIOUS
    <3>2. Len(owes[a]) > 1 /\ \E j \in 1..Len(Tail(owes[a])) : Tail(owes[a])[j] = k
      BY <1>3, <1>5, <3>1, QueueOfKeys DEF Due
    <3>3. owes'[a] = Tail(owes[a])
      BY <3>2 DEF Invalidate, Owe, NewsSound, AdminsSound
    <3> QED
      BY <3>2, <3>3 DEF Due
  <2>3. ASSUME NEW b \in Admins, b # a, Due(b, k) PROVE Due(b, k)'
    <3>1. apc'[b] = apc[b] /\ job'[b] = job[b] /\ owes'[b] = owes[b]
      BY <2>3 DEF Invalidate, Owe, EndRequest, NewsSound, AdminsSound
    <3> QED
      BY <1>2, <2>3, <3>1, SameDue
  <2> QED
    BY <1>1, <1>2, <2>1, <2>2, <2>3, StillAccounted
<1> QED
  BY <1>4, <1>5

LEMMA ReadBackStale ==
    ASSUME NewsSound, StaleAccounted, NEW a \in Admins, ReadBack(a)
    PROVE  StaleAccounted'
<1> SUFFICES ASSUME faults' = MaxFaults, NEW k \in Keys
             PROVE  Accounted(k)'
  BY DEF StaleAccounted
<1>1. NoFault /\ Accounted(k)
  BY FaultsStay DEF StaleAccounted, NewsSound, ReadBack
<1>2. /\ table' = table /\ cache' = cache /\ excused \subseteq excused'
      /\ AdminsSound /\ apc[a] = "written" /\ owes[a] = <<>>
  BY AdminFits DEF ReadBack, tableVars, NewsSound
<1>3. ASSUME NEW b \in Admins, b # a, Due(b, k) PROVE Due(b, k)'
  <2>1. apc'[b] = apc[b] /\ job'[b] = job[b] /\ owes'[b] = owes[b]
    BY <1>3 DEF ReadBack, Owe, EndRequest, NewsSound, AdminsSound
  <2> QED
    BY <1>2, <1>3, <2>1, SameDue
<1>4. Due(a, k) => \/ job[a].op = "update" /\ k = job[a].prev
                   \/ \E x \in Row(job[a].id) : k = Latest \/ (job[a].op = "update" /\ k = x.slug)
  <2>1. \A i \in 1..Len(owes[a]) : FALSE
    BY <1>2
  <2> QED
    BY <2>1 DEF Due
<1>5. Due(a, k) => Due(a, k)' \/ k \in excused'
  <2>1. ASSUME NEW x \in Row(job[a].id), Owe(a, ToDelete(job[a], x.slug)), Due(a, k)
        PROVE  Due(a, k)'
    <3>1. x.slug \in Slugs /\ \A y \in Row(job[a].id) : y = x
      BY DEF Row, NewsSound, TableSound, SlugsUnique, Article
    <3>2. k \in {Latest} \cup (IF job[a].op = "create" THEN {} ELSE {job[a].prev, x.slug})
      BY <1>4, <2>1, <3>1
    <3>3. \E i \in 1..Len(ToDelete(job[a], x.slug)) : ToDelete(job[a], x.slug)[i] = k
      <4>1. job[a].op # "create" => job[a].prev \in Slugs
        BY <1>2, WrittenJob
      <4> QED
        BY <3>1, <3>2, <4>1, KeysToDelete
    <3>4. owes'[a] = ToDelete(job[a], x.slug)
      BY <2>1 DEF Owe, NewsSound, AdminsSound
    <3> QED
      BY <3>3, <3>4 DEF Due
  <2>2. CASE /\ Row(job[a].id) = {}
             /\ excused' = excused \cup ({job[a].prev, job[a].slug} \ {None})
    <3>1. Due(a, k) => k = job[a].prev
      BY <1>4, <2>2
    <3>2. k # None
      BY KeysAssumption DEF Keys
    <3> QED
      BY <2>2, <3>1, <3>2
  <2> QED
    BY <1>1, <2>1, <2>2, NewsBoundsAssumption DEF ReadBack, NoFault, Fault, NewsSound
<1> QED
  BY <1>1, <1>2, <1>3, <1>5, StillAccounted

-----------------------------------------------------------------------------
(* The write of a: keys whose answers it changes are a's to delete from    *)
(* now on, or excused; what is due for other keys stays so.                *)

LEMMA NotTouched ==
    ASSUME NEW k \in Keys, Accounted(k), cache' = cache, excused \subseteq excused',
           Answers(k)' = Answers(k), \A b \in Admins : Due(b, k) => Due(b, k)'
    PROVE  Accounted(k)'
BY DEF Accounted, Fresh

LEMMA InsertStale ==
    ASSUME NewsSound, NEW a \in Admins, apc[a] = "planned", Insert(a),
           GoOn(a, "written", [job[a] EXCEPT !.id = IF @ = 0 THEN created' ELSE @]),
           cache' = cache, NEW k \in Keys, Accounted(k)
    PROVE  Accounted(k)'
<1> DEFINE y == Inserted(a)
<1>1. y.id = created + 1 /\ y.slug = job[a].slug
  BY InsertedArticle DEF Insert, NewsSound
<1> HIDE DEF y
<1>2. /\ table' = table \cup {y} /\ created' = created + 1 /\ excused' = excused
      /\ created \in Nat
  BY DEF Insert, y, NewsSound, TableSound
<1>3. job[a].op = "create" /\ job[a].id = 0 /\ job[a] \in Jobs
  BY PlannedJob DEF Insert, NewsSound
<1>4. CASE k = Latest
  <2>1. apc'[a] = "written" /\ job'[a].id = created'
    BY <1>3 DEF GoOn, NewsSound, AdminsSound, Jobs
  <2>2. y \in Row(job[a].id)'
    BY <1>1, <1>2, <2>1 DEF Row
  <2>3. Due(a, k)'
    BY <1>4, <2>1, <2>2 DEF Due
  <2> QED
    BY <2>3 DEF Accounted
<1>5. CASE k # Latest
  <2>1. ASSUME NEW b \in Admins, Due(b, k) PROVE Due(b, k)'
    <3>1. b # a
      BY <2>1, NothingDue DEF NewsSound
    <3>2. apc'[b] = apc[b] /\ job'[b] = job[b] /\ owes'[b] = owes[b]
      BY <3>1 DEF GoOn, NewsSound, AdminsSound
    <3>3. \A x \in Row(job[b].id) : x \in Row(job[b].id)'
      BY <1>2, <3>2 DEF Row
    <3> QED
      BY <2>1, <3>2, <3>3 DEF Due
  <2>2. CASE k # y.slug
    <3>1. Answers(k)' = Answers(k)
      BY <1>2, <1>5, <2>2 DEF Answers, Public
    <3> QED
      BY <1>2, <2>1, <3>1, NotTouched
  <2>3. CASE k = y.slug /\ Fresh(k)
    <3>1. \A x \in table : x.slug # k
      BY <1>1, <2>3 DEF Insert, Insertable
    <3>2. Answers(k) = {{}}
      BY <1>5, <3>1 DEF Answers, Public
    <3>3. cache[k] = None
      BY <1>5, <2>3, <3>2 DEF Fresh, NewsSound, CacheSound, Keys
    <3> QED
      BY <3>3 DEF Accounted, Fresh
  <2>4. CASE ~Fresh(k)
    BY <1>2, <2>1, <2>4 DEF Accounted
  <2> QED
    BY <2>2, <2>3, <2>4
<1> QED
  BY <1>4, <1>5

LEMMA RewriteStale ==
    ASSUME NewsSound, NEW a \in Admins, apc[a] = "planned",
           NEW x \in Row(job[a].id), Rewrite(a, x),
           GoOn(a, "written", [job[a] EXCEPT !.id = IF @ = 0 THEN created' ELSE @]),
           cache' = cache, NEW k \in Keys, Accounted(k)
    PROVE  Accounted(k)'
<1> DEFINE y == Patched(x, job[a])
<1>1. /\ job[a].op = "update" /\ job[a].prev \in Slugs /\ job[a].id \in 1..created
      /\ job[a] \in Jobs
  BY PlannedJob DEF Rewrite, NewsSound
<1>2. x \in table /\ x.id = job[a].id /\ y.id = x.id
  BY <1>1, PatchedArticle DEF Row, NewsSound, TableSound
<1> HIDE DEF y
<1>3. /\ table' = (table \ {x}) \cup {y}
      /\ excused' = excused \cup ({x.slug} \ {job[a].prev, y.slug})
  BY DEF Rewrite, y
<1>4. /\ apc'[a] = "written" /\ job'[a].id = job[a].id
      /\ job'[a].op = "update" /\ job'[a].prev = job[a].prev
  <2>1. job[a].id # 0
    BY <1>1
  <2> QED
    BY <1>1, <2>1 DEF GoOn, NewsSound, AdminsSound, Jobs
<1>5. y \in Row(job[a].id)'
  BY <1>2, <1>3, <1>4 DEF Row
<1>6. CASE k \in {Latest, x.slug, y.slug}
  <2>1. k \in {Latest, job[a].prev, y.slug} => Due(a, k)'
    BY <1>4, <1>5 DEF Due
  <2>2. k \in {Latest, job[a].prev, y.slug} \/ k \in excused'
    BY <1>3, <1>6
  <2> QED
    BY <2>1, <2>2 DEF Accounted
<1>7. CASE k \notin {Latest, x.slug, y.slug}
  <2>1. Answers(k)' = Answers(k)
    BY <1>2, <1>3, <1>7 DEF Answers, Public
  <2>2. ASSUME NEW b \in Admins, Due(b, k) PROVE Due(b, k)'
    <3>1. b # a
      BY <2>2, NothingDue DEF NewsSound
    <3>2. apc'[b] = apc[b] /\ job'[b] = job[b] /\ owes'[b] = owes[b]
      BY <3>1 DEF GoOn, NewsSound, AdminsSound
    <3>3. \A z \in Row(job[b].id) \ {x} : z \in Row(job[b].id)'
      BY <1>3, <3>2 DEF Row
    <3> QED
      BY <1>7, <2>2, <3>2, <3>3 DEF Due
  <2> QED
    BY <1>3, <2>1, <2>2, NotTouched
<1> QED
  BY <1>6, <1>7

LEMMA RemoveStale ==
    ASSUME NewsSound, NEW a \in Admins, apc[a] = "planned",
           NEW x \in Row(job[a].id), Remove(a, x), Owe(a, <<Latest, job[a].prev>>),
           cache' = cache, NEW k \in Keys, Accounted(k)
    PROVE  Accounted(k)'
<1>1. x \in table /\ table' = table \ {x} /\ excused' = excused \cup ({x.slug} \ {job[a].prev})
  BY DEF Remove, Row
<1>2. owes'[a] = <<Latest, job[a].prev>>
  BY DEF Owe, NewsSound, AdminsSound
<1>3. CASE k \in {Latest, x.slug}
  <2>1. k = Latest => owes'[a][1] = k
    BY <1>2
  <2>2. k = job[a].prev => owes'[a][2] = k
    BY <1>2
  <2>3. 1 \in 1..Len(owes'[a]) /\ 2 \in 1..Len(owes'[a])
    BY <1>2
  <2>4. k \in {Latest, job[a].prev} => Due(a, k)'
    BY <2>1, <2>2, <2>3 DEF Due
  <2> QED
    BY <1>1, <1>3, <2>4 DEF Accounted
<1>4. CASE k \notin {Latest, x.slug}
  <2>1. Answers(k)' = Answers(k)
    BY <1>1, <1>4 DEF Answers, Public
  <2>2. ASSUME NEW b \in Admins, Due(b, k) PROVE Due(b, k)'
    <3>1. b # a
      BY <2>2, NothingDue DEF NewsSound
    <3>2. apc'[b] = apc[b] /\ job'[b] = job[b] /\ owes'[b] = owes[b]
      BY <3>1 DEF Owe, NewsSound, AdminsSound
    <3>3. \A z \in Row(job[b].id) \ {x} : z \in Row(job[b].id)'
      BY <1>1, <3>2 DEF Row
    <3> QED
      BY <1>4, <2>2, <3>2, <3>3 DEF Due
  <2> QED
    BY <1>1, <2>1, <2>2, NotTouched
<1> QED
  BY <1>3, <1>4

\* A write without effect: the table is as before and nothing was due of a.
LEMMA NoWriteStale ==
    ASSUME NewsSound, NEW a \in Admins, apc[a] = "planned", EndRequest(a),
           UNCHANGED <<tableVars, excused, cache>>, NEW k \in Keys, Accounted(k)
    PROVE  Accounted(k)'
<1>1. table' = table
  BY DEF tableVars
<1>2. ASSUME NEW b \in Admins, Due(b, k) PROVE Due(b, k)'
  <2>1. b # a
    BY <1>2, NothingDue DEF NewsSound
  <2>2. apc'[b] = apc[b] /\ job'[b] = job[b] /\ owes'[b] = owes[b]
    BY <2>1 DEF EndRequest, NewsSound, AdminsSound
  <2> QED
    BY <1>1, <1>2, <2>2, SameDue
<1> QED
  BY <1>1, <1>2, StillAccounted

LEMMA WriteStale ==
    ASSUME NewsSound, StaleAccounted, NEW a \in Admins, Write(a)
    PROVE  StaleAccounted'
<1> SUFFICES ASSUME faults' = MaxFaults, NEW k \in Keys
             PROVE  Accounted(k)'
  BY DEF StaleAccounted
<1>1. NoFault /\ Accounted(k)
  BY FaultsStay DEF StaleAccounted, NewsSound, Write
<1>2. apc[a] = "planned" /\ cache' = cache /\ ~Fault
  BY <1>1, NewsBoundsAssumption DEF Write, NoFault, Fault, NewsSound
<1>3. CASE EndRequest(a) /\ UNCHANGED <<tableVars, excused>>
  BY <1>1, <1>2, <1>3, NoWriteStale
<1>4. CASE /\ Statement(a)
           /\ IF job[a].op = "delete"
              THEN Owe(a, <<Latest, job[a].prev>>)
              ELSE GoOn(a, "written", [job[a] EXCEPT !.id = IF @ = 0 THEN created' ELSE @])
  <2>1. CASE Insert(a)
    <3>1. job[a].op # "delete"
      BY <2>1 DEF Insert
    <3> QED
      BY <1>1, <1>2, <1>4, <2>1, <3>1, InsertStale
  <2>2. ASSUME NEW x \in Row(job[a].id), Rewrite(a, x)
        PROVE  Accounted(k)'
    <3>1. job[a].op # "delete"
      BY <2>2 DEF Rewrite
    <3> QED
      BY <1>1, <1>2, <1>4, <2>2, <3>1, RewriteStale
  <2>3. ASSUME NEW x \in Row(job[a].id), Remove(a, x)
        PROVE  Accounted(k)'
    <3>1. job[a].op = "delete"
      BY <2>3 DEF Remove
    <3> QED
      BY <1>1, <1>2, <1>4, <2>3, <3>1, RemoveStale
  <2> QED
    BY <1>4, <2>1, <2>2, <2>3 DEF Statement
<1> QED
  BY <1>2, <1>3, <1>4 DEF Write

LEMMA StaleStep == NewsSound /\ StaleAccounted /\ [NewsNext]_newsVars => StaleAccounted'
<1> SUFFICES ASSUME NewsSound, StaleAccounted, [NewsNext]_newsVars PROVE StaleAccounted'
  OBVIOUS
<1>1. CASE UNCHANGED newsVars
  <2>1. /\ table' = table /\ cache' = cache /\ excused' = excused /\ faults' = faults
        /\ apc' = apc /\ job' = job /\ owes' = owes
    BY <1>1 DEF newsVars, tableVars, adminVars
  <2>2. ASSUME NEW k \in Keys, Accounted(k) PROVE Accounted(k)'
    BY <2>1, <2>2, SameDue, StillAccounted
  <2> QED
    BY <2>1, <2>2 DEF StaleAccounted
<1>2. CASE NewsNext
  BY <1>2, ReadersStale, LapsesStale, PlansStale, WriteStale, ReadBackStale, InvalidateStale
     DEF NewsNext
<1> QED
  BY <1>1, <1>2

\* For any set of slugs and page sizes and any number of overlapping readers
\* and admins: until a call fails, a key of the cache that shows something else
\* than the table is one an admin request is still going to delete, or one that
\* an overlap accounts for.
THEOREM StalenessIsAccountedFor == NewsSpec => []StaleOnlyByOverlap
<1>1. NewsInit => StaleAccounted
  BY DEF NewsInit, StaleAccounted, Accounted, Fresh, Keys
<1>2. NewsSound /\ StaleAccounted => StaleOnlyByOverlap
  <2> SUFFICES ASSUME NewsSound, StaleAccounted, faults = MaxFaults, NEW k \in Keys, Accounted(k)
               PROVE  Fresh(k) \/ k \in excused \/ \E a \in Admins : WillDelete(a, k)
    BY NewsBoundsAssumption DEF StaleAccounted, StaleOnlyByOverlap, NewsSound
  <2>1. ASSUME NEW a \in Admins, Due(a, k) PROVE WillDelete(a, k)
    BY <2>1 DEF Due, WillDelete
  <2> QED
    BY <2>1 DEF Accounted
<1> QED
  BY <1>1, <1>2, StaleStep, NewsInvariant, PTL DEF NewsSpec

-----------------------------------------------------------------------------
(* One admin at a time.  What a request loaded, or wrote, is then still    *)
(* what the table says, so the handler deletes every key its write made    *)
(* stale, and only a reader can account for a stale one.                   *)

Busy(a) == apc[a] \notin {"new", "done"}

OneAdminAtATime == \A a, b \in Admins : Busy(a) /\ Busy(b) => a = b

UpToDateFor(a) ==
    /\ apc[a] \in {"loaded", "planned"} /\ job[a].op # "create" =>
          \E x \in Row(job[a].id) : x.slug = job[a].prev
    /\ apc[a] = "written" => Row(job[a].id) # {}

UpToDate == \A a \in Admins : UpToDateFor(a)

\* The key of an excused staleness is new only when a reader stores.
OnlyReadersOverlap ==
    [][excused' \subseteq excused \/ \E r \in Readers : Store(r)]_newsVars

LEMMA OthersUpToDate ==
    ASSUME UpToDate, OneAdminAtATime, NEW a \in Admins, Busy(a) \/ table' = table,
           \A b \in Admins \ {a} : apc'[b] = apc[b] /\ job'[b] = job[b],
           UpToDateFor(a)'
    PROVE  UpToDate'
<1>1. ASSUME NEW b \in Admins, b # a PROVE UpToDateFor(b)'
  <2>1. apc'[b] = apc[b] /\ job'[b] = job[b]
    BY <1>1
  <2>2. CASE table' = table
    BY <2>1, <2>2 DEF UpToDate, UpToDateFor, Row
  <2>3. CASE Busy(a)
    <3>1. apc[b] \in {"new", "done"}
      BY <1>1, <2>3 DEF OneAdminAtATime, Busy
    <3> QED
      BY <2>1, <3>1 DEF UpToDateFor
  <2> QED
    BY <2>2, <2>3
<1> QED
  BY <1>1 DEF UpToDate

LEMMA MovesOn ==
    ASSUME AdminsSound, NEW a \in Admins, EndRequest(a) \/ \E keys : Owe(a, keys)
    PROVE  apc'[a] \in {"owing", "done"}
BY DEF Owe, EndRequest, AdminsSound

LEMMA AdminUpToDate ==
    ASSUME NewsSound, UpToDate, NEW a \in Admins,
           \/ \E s \in Slugs, p \in Flags : PlanCreate(a, s, p)
           \/ \E x \in table, op \in {"update", "delete"} : Load(a, x, op)
           \/ \E s \in Slugs \cup {None}, p \in Flags : PlanUpdate(a, s, p)
           \/ Write(a) \/ ReadBack(a) \/ Invalidate(a)
    PROVE  /\ UpToDateFor(a)'
           /\ Busy(a) \/ table' = table
           /\ \A b \in Admins \ {a} : apc'[b] = apc[b] /\ job'[b] = job[b]
<1>1. AdminsSound
  BY DEF NewsSound
<1>2. ASSUME NEW s \in Slugs, NEW p \in Flags, PlanCreate(a, s, p)
      PROVE  UpToDateFor(a)'
  <2>1. apc'[a] = "planned" /\ job'[a].op = "create"
    BY <1>1, <1>2 DEF PlanCreate, GoOn, AdminsSound
  <2> QED
    BY <2>1 DEF UpToDateFor
<1>3. ASSUME NEW x \in table, NEW op \in {"update", "delete"}, Load(a, x, op)
      PROVE  UpToDateFor(a)'
  <2>1. /\ apc'[a] \in {"planned", "loaded"} /\ job'[a].id = x.id /\ job'[a].prev = x.slug
        /\ table' = table
    BY <1>1, <1>3 DEF Load, GoOn, Quiet, tableVars, AdminsSound
  <2> QED
    BY <2>1 DEF UpToDateFor, Row
<1>4. ASSUME NEW s \in Slugs \cup {None}, NEW p \in Flags, PlanUpdate(a, s, p)
      PROVE  UpToDateFor(a)'
  <2>1. apc[a] = "loaded" /\ job[a] \in Jobs /\ job[a].op = "update" /\ table' = table
    BY <1>1, <1>4, AdminFits DEF PlanUpdate, JobFits, Quiet, tableVars
  <2>2. apc'[a] = "planned" /\ job'[a].id = job[a].id /\ job'[a].prev = job[a].prev
    BY <1>1, <1>4, <2>1 DEF PlanUpdate, GoOn, AdminsSound, Jobs
  <2> QED
    BY <2>1, <2>2 DEF UpToDate, UpToDateFor, Row
<1>5. ASSUME Write(a) PROVE UpToDateFor(a)'
  <2>1. CASE apc'[a] \in {"owing", "done"}
    BY <2>1 DEF UpToDateFor
  <2>2. CASE /\ Statement(a) /\ job[a].op # "delete"
             /\ GoOn(a, "written", [job[a] EXCEPT !.id = IF @ = 0 THEN created' ELSE @])
    <3>1. apc'[a] = "written" /\ job[a] \in Jobs /\ apc[a] = "planned"
      BY <1>1, <1>5, <2>2, PlannedJob DEF GoOn, Write, AdminsSound
    <3>2. job'[a].id = IF job[a].id = 0 THEN created' ELSE job[a].id
      BY <1>1, <2>2, <3>1 DEF GoOn, AdminsSound, Jobs
    <3>3. CASE Insert(a)
      <4>1. job'[a].id = created + 1 /\ Inserted(a).id = created + 1 /\ Inserted(a) \in table'
        <5>1. job[a].op = "create" /\ job[a].id = 0
          BY <1>1, <3>1, <3>3, PlannedJob DEF Insert
        <5>2. created' = created + 1 /\ Inserted(a) \in table'
          BY <3>3 DEF Insert
        <5> QED
          BY <1>1, <3>1, <3>2, <5>1, <5>2, InsertedArticle DEF NewsSound
      <4> QED
        BY <3>1, <4>1 DEF UpToDateFor, Row
    <3>4. ASSUME NEW x \in Row(job[a].id), Rewrite(a, x)
          PROVE  UpToDateFor(a)'
      <4>1. x \in Article /\ x.id = job[a].id
        BY DEF Row, NewsSound, TableSound
      <4>2. Patched(x, job[a]).id = job[a].id /\ Patched(x, job[a]) \in table'
        BY <3>1, <3>4, <4>1, PatchedArticle DEF Rewrite
      <4>3. job[a].id \in 1..created
        BY <1>1, <3>1, <3>4, PlannedJob DEF Rewrite
      <4>4. job'[a].id = job[a].id
        BY <3>2, <4>3 DEF NewsSound, TableSound
      <4> QED
        BY <3>1, <4>2, <4>4 DEF UpToDateFor, Row
    <3> QED
      BY <2>2, <3>3, <3>4 DEF Statement, Remove
  <2> QED
    BY <1>1, <1>5, <2>1, <2>2, MovesOn DEF Write
<1>6. ASSUME ReadBack(a) \/ Invalidate(a) PROVE UpToDateFor(a)'
  <2>1. apc'[a] \in {"owing", "done"}
    BY <1>1, <1>6, MovesOn DEF ReadBack, Invalidate
  <2> QED
    BY <2>1 DEF UpToDateFor
<1>7. Busy(a) \/ table' = table
  BY DEF PlanCreate, Load, PlanUpdate, Write, ReadBack, Invalidate, Busy, Quiet, tableVars
<1>8. \A b \in Admins \ {a} : apc'[b] = apc[b] /\ job'[b] = job[b]
  BY <1>1 DEF PlanCreate, Load, PlanUpdate, Write, ReadBack, Invalidate, GoOn, Owe, EndRequest,
              AdminsSound
<1> QED
  BY <1>2, <1>3, <1>4, <1>5, <1>6, <1>7, <1>8

LEMMA UpToDateStep ==
    NewsSound /\ UpToDate /\ OneAdminAtATime /\ [NewsNext]_newsVars => UpToDate'
<1> SUFFICES ASSUME NewsSound, UpToDate, OneAdminAtATime, [NewsNext]_newsVars PROVE UpToDate'
  OBVIOUS
<1>1. CASE \/ UNCHANGED newsVars
           \/ \E r \in Readers : Fetch(r) \/ Store(r) \/ \E k \in Keys : Miss(r, k)
           \/ \E k \in Keys : Lapses(k)
  <2>1. table' = table /\ apc' = apc /\ job' = job
    BY <1>1 DEF Fetch, Store, Miss, Lapses, newsVars, tableVars, adminVars
  <2> QED
    BY <2>1 DEF UpToDate, UpToDateFor, Row
<1>2. ASSUME NEW a \in Admins,
             \/ \E s \in Slugs, p \in Flags : PlanCreate(a, s, p)
             \/ \E x \in table, op \in {"update", "delete"} : Load(a, x, op)
             \/ \E s \in Slugs \cup {None}, p \in Flags : PlanUpdate(a, s, p)
             \/ Write(a) \/ ReadBack(a) \/ Invalidate(a)
      PROVE  UpToDate'
  BY <1>2, AdminUpToDate, OthersUpToDate
<1> QED
  BY <1>1, <1>2 DEF NewsNext

LEMMA AloneExcusesNothing ==
    ASSUME NewsSound, UpToDate, NEW a \in Admins, Write(a) \/ ReadBack(a)
    PROVE  excused' \subseteq excused
<1>1. CASE Write(a)
  <2>1. CASE Insert(a) \/ excused' = excused
    BY <2>1 DEF Insert
  <2>2. ASSUME NEW x \in Row(job[a].id), Rewrite(a, x) \/ Remove(a, x)
        PROVE  excused' \subseteq excused
    <3>1. \E z \in Row(job[a].id) : z.slug = job[a].prev
      BY <1>1, <2>2 DEF Write, Rewrite, Remove, UpToDate, UpToDateFor
    <3>2. \A z \in Row(job[a].id) : z = x
      BY DEF Row, NewsSound, TableSound, SlugsUnique
    <3>3. x.slug = job[a].prev
      BY <3>1, <3>2
    <3> QED
      BY <2>2, <3>3 DEF Rewrite, Remove
  <2> QED
    BY <1>1, <2>1, <2>2 DEF Write, Statement
<1>2. CASE ReadBack(a)
  BY <1>2 DEF ReadBack, UpToDate, UpToDateFor
<1> QED
  BY <1>1, <1>2

\* Admins who take turns never account for a stale key, whatever they edit and
\* however the readers overlap them: what becomes excused then is a value that
\* a reader stored after it went out of date.
THEOREM TurnsAreSafe == NewsSpec /\ []OneAdminAtATime => OnlyReadersOverlap
<1>1. NewsInit => UpToDate
  BY DEF NewsInit, UpToDate, UpToDateFor
<1>2. NewsSound /\ UpToDate /\ [NewsNext]_newsVars =>
         [excused' \subseteq excused \/ \E r \in Readers : Store(r)]_newsVars
  <2> SUFFICES ASSUME NewsSound, UpToDate, NewsNext
               PROVE  excused' \subseteq excused \/ \E r \in Readers : Store(r)
    OBVIOUS
  <2>1. ASSUME NEW a \in Admins, Write(a) \/ ReadBack(a) PROVE excused' \subseteq excused
    BY <2>1, AloneExcusesNothing
  <2>2. ASSUME NEW a \in Admins, Invalidate(a) PROVE excused' \subseteq excused
    BY <2>2 DEF Invalidate
  <2>3. ASSUME NEW a \in Admins,
               \/ \E s \in Slugs, p \in Flags : PlanCreate(a, s, p)
               \/ \E x \in table, op \in {"update", "delete"} : Load(a, x, op)
               \/ \E s \in Slugs \cup {None}, p \in Flags : PlanUpdate(a, s, p)
        PROVE  excused' \subseteq excused
    BY <2>3 DEF PlanCreate, Load, PlanUpdate, Quiet
  <2>4. ASSUME NEW r \in Readers, Fetch(r) \/ \E k \in Keys : Miss(r, k)
        PROVE  excused' \subseteq excused
    BY <2>4 DEF Fetch, Miss
  <2>5. ASSUME NEW k \in Keys, Lapses(k) PROVE excused' \subseteq excused
    BY <2>5 DEF Lapses
  <2> QED
    BY <2>1, <2>2, <2>3, <2>4, <2>5 DEF NewsNext
<1> QED
  BY <1>1, <1>2, UpToDateStep, NewsInvariant, PTL DEF NewsSpec, OnlyReadersOverlap
=============================================================================
