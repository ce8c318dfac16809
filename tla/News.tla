-------------------------------- MODULE News --------------------------------
(***************************************************************************)
(* News articles in PostgreSQL with a read-through cache in Redis: the     *)
(* front page under news:latest, which never expires, and one entry per    *)
(* slug, which lives 30 minutes.  Readers fill the cache, admins delete    *)
(* from it after they wrote; every call of either is a step of its own.    *)
(* A cache value, like an answer, is a set of articles.                    *)
(***************************************************************************)
EXTENDS Naturals, Sequences, FiniteSets

CONSTANTS
    Slugs,
    Latest,       \* the key news:latest
    Limits,       \* page sizes readers of the front page ask for
    Flags,        \* what requests say of is_published; None: nothing
    Admins,       \* requests that create, change or delete an article
    Readers,      \* public requests, each repeated for ever
    None,
    MaxFaults     \* bound: calls of PostgreSQL or Redis that fail

ASSUME KeysAssumption == Latest \notin Slugs /\ None \notin Slugs \cup {Latest}
ASSUME LimitsAssumption == Limits \subseteq Nat \ {0}
ASSUME FlagsAssumption == Flags \subseteq BOOLEAN \cup {None} /\ None \notin BOOLEAN
ASSUME NewsBoundsAssumption == MaxFaults \in Nat

VARIABLES
    table,        \* news_articles: a set of rows
    created,      \* rows inserted so far; ids count them, newest last
    cache,        \* Redis: the value under each key, None if there is none
    excused,      \* history: keys whose staleness an overlap accounts for
    apc, job,     \* where an admin request is and what it is to do
    owes,         \* keys it has still to delete from the cache, in order
    rpc, want,    \* where a reader is and the key it missed
    got,          \* what it read from the table
    faults        \* failures still allowed

tableVars  == <<table, created>>
adminVars  == <<apc, job, owes>>
readerVars == <<rpc, want, got>>
newsVars   == <<tableVars, cache, excused, adminVars, readerVars, faults>>

Keys    == Slugs \cup {Latest}
Article == [id : Nat, slug : Slugs, published : BOOLEAN, edition : Nat]
Jobs    == [op : {"create", "update", "delete"}, id : Nat, prev : Slugs \cup {None},
            slug : Slugs \cup {None}, published : BOOLEAN \cup {None}]

NoFault == UNCHANGED faults
Fault   == faults > 0 /\ faults' = faults - 1

\* Mutant of Public: the queries forget is_published = TRUE.
WithDrafts == table

Public    == {x \in table : x.published}
SlugsUsed == {x.slug : x \in table}
Row(i)    == {x \in table : x.id = i}

\* A slug of the admin's choice must be free; a generated one is probed with
\* growing suffixes until it is.
FreeSlug(s) == s \notin SlugsUsed

-----------------------------------------------------------------------------
(* Queries.  The front page is ORDER BY published_at DESC LIMIT limit.     *)

Newest(limit) ==
    {x \in Public : Cardinality({y \in Public : y.id > x.id}) < limit}

Answers(k) ==
    IF k = Latest THEN {Newest(l) : l \in Limits}
                  ELSE {{x \in Public : x.slug = k}}

Fresh(k) == cache[k] = None \/ cache[k] \in Answers(k)

-----------------------------------------------------------------------------
NewsInit ==
    /\ \E s \in Slugs :
          table = {[id |-> 1, slug |-> s, published |-> TRUE, edition |-> 0]}
    /\ created = 1
    /\ cache = [k \in Keys |-> None]
    /\ excused = {}
    /\ apc = [a \in Admins |-> "new"]
    /\ job = [a \in Admins |-> None]
    /\ owes = [a \in Admins |-> <<>>]
    /\ rpc = [r \in Readers |-> "idle"]
    /\ want = [r \in Readers |-> None]
    /\ got = [r \in Readers |-> {}]
    /\ faults = MaxFaults

-----------------------------------------------------------------------------
(* Readers: NewsService.List with the default query, and GetBySlug.  A GET *)
(* that fails counts as a miss.                                            *)

Miss(r, k) ==
    /\ rpc[r] = "idle"
    /\ IF cache[k] = None THEN NoFault ELSE Fault
    /\ rpc' = [rpc EXCEPT ![r] = "missed"]
    /\ want' = [want EXCEPT ![r] = k]
    /\ UNCHANGED <<tableVars, cache, excused, adminVars, got>>

\* The SELECT; an error, or no article under the slug, ends the request.
Fetch(r) ==
    /\ rpc[r] = "missed"
    /\ \/ \E value \in Answers(want[r]) :
             /\ NoFault
             /\ want[r] = Latest \/ value # {}
             /\ rpc' = [rpc EXCEPT ![r] = "fetched"]
             /\ got' = [got EXCEPT ![r] = value]
             /\ UNCHANGED want
       \/ /\ \/ Fault
             \/ NoFault /\ want[r] # Latest /\ {} \in Answers(want[r])
          /\ rpc' = [rpc EXCEPT ![r] = "idle"]
          /\ want' = [want EXCEPT ![r] = None]
          /\ UNCHANGED got
    /\ UNCHANGED <<tableVars, cache, excused, adminVars>>

\* A stale value is stored if the table was written after Fetch read it.
Store(r) ==
    /\ rpc[r] = "fetched"
    /\ \/ /\ NoFault
          /\ cache' = [cache EXCEPT ![want[r]] = got[r]]
          /\ excused' = IF got[r] \in Answers(want[r])
                        THEN excused \ {want[r]} ELSE excused \cup {want[r]}
       \/ Fault /\ UNCHANGED <<cache, excused>>
    /\ rpc' = [rpc EXCEPT ![r] = "idle"]
    /\ want' = [want EXCEPT ![r] = None]
    /\ got' = [got EXCEPT ![r] = {}]
    /\ UNCHANGED <<tableVars, adminVars>>

\* Mutant of Lapses: a slug entry is SET without a TTL, like the front page.
NeverLapses(k) == FALSE /\ UNCHANGED newsVars

\* The TTL of a slug entry runs out.
Lapses(k) ==
    /\ k # Latest
    /\ cache[k] # None
    /\ cache' = [cache EXCEPT ![k] = None]
    /\ excused' = excused \ {k}
    /\ UNCHANGED <<tableVars, adminVars, readerVars, faults>>

-----------------------------------------------------------------------------
(* Admins.  A request refused before its write leaves no trace but that it *)
(* is over.  Each call may fail, a write with or without its effect; then  *)
(* the handler answers 500 and does not go on to the cache.                *)

EndRequest(a) ==
    /\ apc' = [apc EXCEPT ![a] = "done"]
    /\ job' = [job EXCEPT ![a] = None]
    /\ owes' = [owes EXCEPT ![a] = <<>>]

GoOn(a, pc, j) ==
    /\ apc' = [apc EXCEPT ![a] = pc]
    /\ job' = [job EXCEPT ![a] = j]
    /\ UNCHANGED owes

Quiet == UNCHANGED <<tableVars, cache, excused, readerVars>>

\* CreateNews: the slug was free when it was looked up.  An article is
\* published unless the request says it is not.
PlanCreate(a, s, p) ==
    /\ apc[a] = "new"
    /\ FreeSlug(s)
    /\ NoFault
    /\ GoOn(a, "planned", [op |-> "create", id |-> 0, prev |-> None, slug |-> s, published |-> p # FALSE])
    /\ Quiet

\* UpdateNews and DeleteNews begin with GetByID; prev is existing.Slug.
Load(a, x, op) ==
    /\ apc[a] = "new"
    /\ NoFault
    /\ GoOn(a, IF op = "delete" THEN "planned" ELSE "loaded",
            [op |-> op, id |-> x.id, prev |-> x.slug, slug |-> None, published |-> None])
    /\ Quiet

\* The patch: a new slug is checked, what is not given stays as it is.
PlanUpdate(a, s, p) ==
    /\ apc[a] = "loaded"
    /\ s = None \/ FreeSlug(s)
    /\ NoFault
    /\ GoOn(a, "planned", [job[a] EXCEPT !.slug = s, !.published = p])
    /\ Quiet

\* Mutant of Insertable: the column slug is not UNIQUE.
InsertableAlways(s, others) == TRUE

\* UNIQUE(slug) of the table.
Insertable(s, others) == s \notin {y.slug : y \in others}

Patched(x, j) ==
    [x EXCEPT !.slug = IF j.slug = None THEN @ ELSE j.slug,
              !.published = IF j.published = None THEN @ ELSE j.published,
              !.edition = @ + 1]

Inserted(a) == [id |-> created + 1, slug |-> job[a].slug,
                published |-> job[a].published, edition |-> 0]

\* INSERT, UPDATE or DELETE; editing with a slug read too early is an overlap.
Insert(a) ==
    /\ job[a].op = "create"
    /\ Insertable(job[a].slug, table)
    /\ table' = table \cup {Inserted(a)}
    /\ created' = created + 1
    /\ UNCHANGED excused

Rewrite(a, x) ==
    LET y == Patched(x, job[a]) IN
    /\ job[a].op = "update"
    /\ Insertable(y.slug, table \ {x})
    /\ table' = (table \ {x}) \cup {y}
    /\ excused' = excused \cup ({x.slug} \ {job[a].prev, y.slug})
    /\ UNCHANGED created

Remove(a, x) ==
    /\ job[a].op = "delete"
    /\ table' = table \ {x}
    /\ excused' = excused \cup ({x.slug} \ {job[a].prev})
    /\ UNCHANGED created

Statement(a) == Insert(a) \/ \E x \in Row(job[a].id) : Rewrite(a, x) \/ Remove(a, x)

\* A slug taken meanwhile violates the constraint; a row deleted meanwhile is
\* not found.
Refused(a) ==
    IF job[a].op = "create"
    THEN ~Insertable(job[a].slug, table)
    ELSE \A x \in Row(job[a].id) :
            job[a].op = "update" /\ ~Insertable(Patched(x, job[a]).slug, table \ {x})

Owe(a, keys) ==
    /\ apc' = [apc EXCEPT ![a] = "owing"]
    /\ owes' = [owes EXCEPT ![a] = keys]
    /\ UNCHANGED job

Write(a) ==
    /\ apc[a] = "planned"
    /\ \/ /\ Statement(a)
          /\ \/ /\ NoFault
                /\ IF job[a].op = "delete"
                   THEN Owe(a, <<Latest, job[a].prev>>)
                   ELSE GoOn(a, "written", [job[a] EXCEPT !.id = IF @ = 0 THEN created' ELSE @])
             \/ Fault /\ EndRequest(a)
       \/ /\ IF Refused(a) THEN NoFault ELSE Fault
          /\ EndRequest(a)
          /\ UNCHANGED <<tableVars, excused>>
    /\ UNCHANGED <<cache, readerVars>>

\* Mutant of ToDelete: only the slug the article has now.
ToDeleteNow(j, slug) == IF j.op = "create" THEN <<Latest>> ELSE <<Latest, slug>>

ToDelete(j, slug) ==
    IF j.op = "create" THEN <<Latest>>
    ELSE IF slug = j.prev THEN <<Latest, slug>> ELSE <<Latest, j.prev, slug>>

\* Create and Update read the row back.  If that fails, or the row was deleted
\* in between, the request ends with an error and the cache is left alone.
ReadBack(a) ==
    /\ apc[a] = "written"
    /\ \/ \E x \in Row(job[a].id) :
             NoFault /\ Owe(a, ToDelete(job[a], x.slug)) /\ UNCHANGED excused
       \/ /\ Row(job[a].id) = {}
          /\ NoFault
          /\ EndRequest(a)
          /\ excused' = excused \cup ({job[a].prev, job[a].slug} \ {None})
       \/ Fault /\ EndRequest(a) /\ UNCHANGED excused
    /\ UNCHANGED <<tableVars, cache, readerVars>>

\* invalidateList and invalidateSlug; an error is ignored.
Invalidate(a) ==
    /\ apc[a] = "owing"
    /\ \/ /\ NoFault
          /\ cache' = [cache EXCEPT ![Head(owes[a])] = None]
          /\ excused' = excused \ {Head(owes[a])}
       \/ Fault /\ UNCHANGED <<cache, excused>>
    /\ IF Len(owes[a]) > 1 THEN Owe(a, Tail(owes[a])) ELSE EndRequest(a)
    /\ UNCHANGED <<tableVars, readerVars>>

-----------------------------------------------------------------------------
NewsNext ==
    \/ \E r \in Readers : Fetch(r) \/ Store(r) \/ \E k \in Keys : Miss(r, k)
    \/ \E k \in Keys : Lapses(k)
    \/ \E a \in Admins :
          \/ \E s \in Slugs, p \in Flags : PlanCreate(a, s, p)
          \/ \E x \in table, op \in {"update", "delete"} : Load(a, x, op)
          \/ \E s \in Slugs \cup {None}, p \in Flags : PlanUpdate(a, s, p)
          \/ Write(a) \/ ReadBack(a) \/ Invalidate(a)

NewsSpec == NewsInit /\ [][NewsNext]_newsVars

\* A request that has started goes on, and Redis drops what has expired.  No
\* reader and no admin has to come.
NewsFairness ==
    /\ \A r \in Readers : WF_newsVars(Fetch(r) \/ Store(r))
    /\ \A a \in Admins : WF_newsVars(Write(a) \/ ReadBack(a) \/ Invalidate(a))
    /\ \A k \in Slugs : WF_newsVars(Lapses(k))

FairNewsSpec == NewsSpec /\ NewsFairness

-----------------------------------------------------------------------------
NewsTypeOK ==
    /\ table \subseteq Article
    /\ created \in Nat
    /\ \A k \in Keys : cache[k] = None \/ cache[k] \subseteq {x \in Article : x.published}
    /\ excused \subseteq Keys
    /\ apc \in [Admins -> {"new", "loaded", "planned", "written", "owing", "done"}]
    /\ \A a \in Admins : IF apc[a] \in {"new", "done"} THEN job[a] = None ELSE job[a] \in Jobs
    /\ owes \in [Admins -> Seq(Keys)]
    /\ \A a \in Admins : apc[a] = "owing" <=> owes[a] # <<>>
    /\ rpc \in [Readers -> {"idle", "missed", "fetched"}]
    /\ want \in [Readers -> Keys \cup {None}]
    /\ faults \in 0..MaxFaults

\* Two requests that both found a slug free, or one that renames an article to
\* it, never leave two articles under one slug, and ids stay unique.
SlugsUnique ==
    \A x, y \in table : x.id = y.id \/ x.slug = y.slug => x = y

\* Whether the request of a is going to delete key k, if nothing fails.
WillDelete(a, k) ==
    \/ \E i \in 1..Len(owes[a]) : owes[a][i] = k
    \/ /\ apc[a] = "written"
       /\ \/ k \in {Latest, job[a].prev, job[a].slug}
          \/ \E x \in Row(job[a].id) : k = x.slug

\* The cache shows something else than the table only until the admin who wrote
\* has deleted it, or because requests overlapped (a reader stored what it had
\* read before the write, or an admin wrote over another's edit), or because a
\* call failed.  So one admin at a time, with no reader in between, is safe.
StaleOnlyByOverlap ==
    \A k \in Keys :
        Fresh(k) \/ k \in excused \/ (\E a \in Admins : WillDelete(a, k)) \/ faults < MaxFaults

\* Once the admins are done, every slug entry is right and stays right, whatever
\* overlapped or failed before: the 30 minutes of its TTL repair it.
SlugCacheConverges == <>[](\A s \in Slugs : Fresh(s))

\* news_service.go:33-34: both caches "are invalidated on any admin mutation
\* rather than left to expire"; so once the admins are done, the front page is
\* right and stays right.
FrontPageConverges == <>[]Fresh(Latest)
=============================================================================
