----------------------------- MODULE MailProofs -----------------------------
(***************************************************************************)
(* The mails, for any number of orders, calls, workers and failures.  The  *)
(* pace of resends rests on Paced: whoever was let through for an order    *)
(* has a slot that is not ahead of the lapses of the order's key, and      *)
(* behind them once the key is gone.  What is committed rests on Handled:  *)
(* it speaks of all that was read, committed or not, because a commit, and *)
(* a new consumer, may come between any two steps of a worker.             *)
(***************************************************************************)
EXTENDS Notification, FiniteSetTheorems, TLAPS

CallsTyped ==
    /\ status \in [Orders -> {"PENDING", "COMPLETED", "CHECKED_IN"}]
    /\ cooling \subseteq Orders
    /\ lapses \in [Orders -> Nat]
    /\ rpc \in [Calls -> {"new", "limit", "check", "publish", "ok", "refused", "failed"}]
    /\ asks \in [Calls -> Orders \cup {None}]
    /\ \A c \in Calls : rpc[c] # "new" => asks[c] \in Orders
    /\ slot \in [Resends -> Nat]

Messages == [order : Orders, email : BOOLEAN] \cup {PreWarm}

GroupTyped ==
    /\ paid \in Seq(Messages)
    /\ offset \in 0..Len(paid) \cup {None}
    /\ next \in 0..Len(paid)
    /\ owner \in Workers \cup {None}
    /\ first \in 0..Len(paid)
    /\ wpc \in [Workers -> {"down", "idle", "look", "send"}]
    /\ wmsg \in [Workers -> 0..Len(paid)]
    /\ \A w \in Workers : wmsg[w] = 0 <=> wpc[w] \in {"down", "idle"}
    /\ mailed \subseteq 1..Len(paid)

Flags == dirty \in BOOLEAN /\ faults \in 0..MaxFaults /\ failed \in BOOLEAN

Paced ==
    /\ \A r \in Resends : LetThrough(r) =>
          /\ slot[r] <= lapses[asks[r]]
          /\ asks[r] \notin cooling => slot[r] < lapses[asks[r]]
    /\ ResendsPaced

Done(i) == paid[i] = PreWarm \/ i \in mailed \/ \E w \in Workers : wmsg[w] = i

Handled ==
    ~failed => \A i \in 1..Len(paid) :
        (first < i /\ (i <= next \/ (offset # None /\ i <= offset))) => Done(i)

MailInv == CallsTyped /\ GroupTyped /\ Flags /\ Paced /\ Handled

-----------------------------------------------------------------------------
(* What grows, and what a failure leaves.                                  *)

Failing == NoFault \/ Fault

LEMMA FlagsKept ==
    ASSUME Flags, Failing, dirty' \in BOOLEAN
    PROVE  Flags' /\ (failed => failed')
<1>1. faults' \in 0..MaxFaults
  BY MailBoundsAssumption DEF Flags, Failing, NoFault, Fault
<1>2. failed' \in BOOLEAN /\ (failed => failed')
  BY Zenon DEF Flags, Failing, NoFault, Fault
<1> QED
  BY <1>1, <1>2 DEF Flags

LEMMA AppendTyped ==
    ASSUME NEW s \in Seq(Messages), NEW m \in Messages
    PROVE  /\ Append(s, m) \in Seq(Messages) /\ Len(Append(s, m)) >= Len(s)
           /\ \A i \in 1..Len(s) : Append(s, m)[i] = s[i]
OBVIOUS

LEMMA TwiceTyped ==
    ASSUME NEW s \in Seq(Messages), NEW m \in Messages
    PROVE  /\ s \o <<m, m>> \in Seq(Messages) /\ Len(s \o <<m, m>>) >= Len(s)
           /\ \A i \in 1..Len(s) : (s \o <<m, m>>)[i] = s[i]
OBVIOUS

\* The topic only grows, so what was handled is handled.
TopicGrows ==
    /\ paid' \in Seq(Messages) /\ Len(paid') >= Len(paid)
    /\ \A i \in 1..Len(paid) : paid'[i] = paid[i]

LEMMA GrowthHandled ==
    ASSUME GroupTyped, Handled, TopicGrows, failed => failed',
           UNCHANGED <<offset, next, owner, first, wpc, wmsg, mailed>>
    PROVE  GroupTyped' /\ Handled'
<1>1. Len(paid) \in Nat /\ Len(paid') \in Nat
  BY DEF GroupTyped, TopicGrows
<1>2. GroupTyped'
  BY <1>1 DEF GroupTyped, TopicGrows
<1>3. ASSUME ~failed', NEW i \in 1..Len(paid'),
             first < i, i <= next \/ (offset # None /\ i <= offset)
      PROVE  Done(i)'
  <2>1. i \in 1..Len(paid)
    BY <1>1, <1>3 DEF GroupTyped
  <2>2. Done(i)
    BY <1>3, <2>1 DEF Handled
  <2> QED
    BY <2>1, <2>2 DEF Done, TopicGrows
<1> QED
  BY <1>2, <1>3 DEF Handled

LEMMA CallSide ==
    ASSUME MailInv, CallsTyped', Paced', TopicGrows, Failing,
           UNCHANGED <<groupVars, loopVars>>
    PROVE  MailInv'
<1>1. Flags' /\ (failed => failed')
  BY FlagsKept DEF MailInv, Flags, groupVars
<1>2. GroupTyped' /\ Handled'
  BY <1>1, GrowthHandled DEF MailInv, groupVars, loopVars
<1> QED
  BY <1>1, <1>2 DEF MailInv

LEMMA TopicStays ==
    ASSUME MailInv, UNCHANGED paid
    PROVE  TopicGrows
BY DEF MailInv, GroupTyped, TopicGrows

LEMMA PaceKept ==
    ASSUME CallsTyped, Paced, UNCHANGED <<cooling, lapses, slot>>,
           \A r \in Resends : LetThrough(r)' => LetThrough(r) /\ asks'[r] = asks[r]
    PROVE  Paced'
BY DEF Paced, ResendsPaced

-----------------------------------------------------------------------------
(* The announcing side.                                                    *)

LEMMA ConfirmSound ==
    ASSUME MailInv, NEW c \in Confirmations, NEW o \in Orders, ConfirmPayment(c, o)
    PROVE  MailInv'
<1>1. c \in Calls /\ c \notin Resends
  BY CallersAssumption DEF Calls
<1>2. /\ status' = [status EXCEPT ![o] = "COMPLETED"]
      /\ asks' = [asks EXCEPT ![c] = o] /\ rpc' = [rpc EXCEPT ![c] = "publish"]
      /\ UNCHANGED <<cooling, lapses, slot, paid, groupVars, loopVars, faults, failed>>
  BY DEF ConfirmPayment, GoOn
<1>3. CallsTyped'
  BY <1>1, <1>2 DEF MailInv, CallsTyped
<1>4. Paced'
  BY <1>1, <1>2, PaceKept DEF MailInv, CallsTyped, LetThrough
<1> QED
  BY <1>2, <1>3, <1>4, TopicStays, CallSide DEF Failing, NoFault

LEMMA CheckInSound ==
    ASSUME MailInv, NEW o \in Orders, CheckIn(o)
    PROVE  MailInv'
<1>1. CallsTyped'
  BY DEF MailInv, CallsTyped, CheckIn
<1>2. Paced'
  BY PaceKept DEF MailInv, CheckIn, LetThrough
<1> QED
  BY <1>1, <1>2, TopicStays, CallSide DEF CheckIn, Failing, NoFault

\* A request that has not been let through moves, and is still not.
LEMMA ResendSound ==
    ASSUME MailInv, NEW r \in Resends, NEW o \in Orders, ResendEmail(r, o)
    PROVE  MailInv'
<1>1. r \in Calls /\ rpc[r] = "new"
  BY DEF ResendEmail, Calls
<1>2. /\ asks' = [asks EXCEPT ![r] = o]
      /\ \E pc \in {"limit", "refused", "failed"} : rpc' = [rpc EXCEPT ![r] = pc]
      /\ UNCHANGED <<status, cooling, lapses, slot, paid, groupVars, loopVars>>
      /\ Failing
  BY DEF ResendEmail, GoOn, Failing
<1>3. CallsTyped'
  BY <1>1, <1>2 DEF MailInv, CallsTyped
<1>4. Paced'
  BY <1>1, <1>2, PaceKept DEF MailInv, CallsTyped, LetThrough
<1> QED
  BY <1>2, <1>3, <1>4, TopicStays, CallSide

\* SETNX: the key was not there, so whoever was let through before has a slot
\* behind the lapses, and this request's slot is theirs.
LEMMA AcquireSound ==
    ASSUME MailInv, NEW r \in Resends, TryAcquireRateLimit(r)
    PROVE  MailInv'
<1>1. /\ r \in Calls /\ rpc[r] = "limit" /\ asks[r] \in Orders
      /\ lapses[asks[r]] \in Nat
      /\ UNCHANGED <<status, lapses, asks, paid, groupVars, loopVars>>
      /\ Failing
  BY DEF TryAcquireRateLimit, Calls, MailInv, CallsTyped, Failing
<1>2. CASE /\ asks[r] \notin cooling
           /\ cooling' = cooling \cup {asks[r]}
           /\ slot' = [slot EXCEPT ![r] = lapses[asks[r]]]
           /\ rpc' = [rpc EXCEPT ![r] = "check"]
  <2>1. CallsTyped'
    BY <1>1, <1>2 DEF MailInv, CallsTyped
  <2>2. slot'[r] = lapses[asks[r]] /\ asks'[r] = asks[r]
    BY <1>1, <1>2 DEF MailInv, CallsTyped
  <2>3. ASSUME NEW q \in Resends, q # r, LetThrough(q)'
        PROVE  /\ LetThrough(q) /\ slot'[q] = slot[q] /\ asks'[q] = asks[q]
               /\ slot[q] <= lapses[asks[q]]
               /\ asks[q] = asks[r] => slot'[q] < lapses[asks[q]]
               /\ asks[q] \notin cooling' => slot'[q] < lapses[asks[q]]
    <3>1. rpc'[q] = rpc[q] /\ slot'[q] = slot[q]
      BY <1>2, <2>3 DEF MailInv, CallsTyped, Calls
    <3>2. LetThrough(q)
      BY <2>3, <3>1 DEF LetThrough
    <3> QED
      BY <1>1, <1>2, <3>1, <3>2 DEF MailInv, Paced
  <2>4. Paced'
    <3>1. \A q \in Resends : LetThrough(q)' =>
              /\ slot'[q] <= lapses'[asks'[q]]
              /\ asks'[q] \notin cooling' => slot'[q] < lapses'[asks'[q]]
      BY <1>1, <1>2, <2>2, <2>3
    <3>2. ASSUME NEW p \in Resends, NEW q \in Resends, p # q,
                 LetThrough(p)', LetThrough(q)', asks'[p] = asks'[q]
          PROVE  slot'[p] # slot'[q]
      <4>1. CASE p = r
        BY <1>1, <2>2, <2>3, <3>2, <4>1 DEF MailInv, CallsTyped
      <4>2. CASE q = r
        BY <1>1, <2>2, <2>3, <3>2, <4>2 DEF MailInv, CallsTyped
      <4>3. CASE p # r /\ q # r
        BY <2>3, <3>2, <4>3 DEF MailInv, Paced, ResendsPaced
      <4> QED
        BY <4>1, <4>2, <4>3
    <3> QED
      BY <3>1, <3>2 DEF Paced, ResendsPaced
  <2> QED
    BY <1>1, <2>1, <2>4, TopicStays, CallSide
<1>3. CASE /\ cooling' \in {cooling, cooling \cup {asks[r]}}
           /\ slot' = slot
           /\ \E pc \in {"refused", "failed"} : rpc' = [rpc EXCEPT ![r] = pc]
  <2>1. CallsTyped'
    BY <1>1, <1>3 DEF MailInv, CallsTyped
  <2>2. \A q \in Resends : LetThrough(q)' => LetThrough(q)
    BY <1>1, <1>3 DEF MailInv, CallsTyped, LetThrough, Calls
  <2>3. Paced'
    BY <1>1, <1>3, <2>2 DEF MailInv, Paced, ResendsPaced
  <2> QED
    BY <1>1, <2>1, <2>3, TopicStays, CallSide
<1> QED
  BY <1>2, <1>3 DEF TryAcquireRateLimit, GoOn

LEMMA RecheckSound ==
    ASSUME MailInv, NEW r \in Resends, ResendNotification(r)
    PROVE  MailInv'
<1>1. /\ r \in Calls /\ rpc[r] = "check"
      /\ \E pc \in {"publish", "failed"} : rpc' = [rpc EXCEPT ![r] = pc]
      /\ UNCHANGED <<status, cooling, lapses, asks, slot, paid, groupVars, loopVars>>
      /\ Failing
  BY DEF ResendNotification, GoOn, Failing, Calls
<1>2. CallsTyped'
  BY <1>1 DEF MailInv, CallsTyped
<1>3. Paced'
  BY <1>1, PaceKept DEF MailInv, CallsTyped, LetThrough, Calls
<1> QED
  BY <1>1, <1>2, <1>3, TopicStays, CallSide

LEMMA LapseSound ==
    ASSUME MailInv, NEW o \in Orders, RateLimitLapses(o)
    PROVE  MailInv'
<1>1. /\ cooling' = cooling \ {o}
      /\ lapses' = [lapses EXCEPT ![o] = lapses[o] + 1]
      /\ UNCHANGED <<status, rpc, asks, slot, paid, groupVars, loopVars, faults, failed>>
  BY DEF RateLimitLapses
<1>2. CallsTyped'
  BY <1>1 DEF MailInv, CallsTyped
<1>3. Paced'
  <2>1. ASSUME NEW r \in Resends, LetThrough(r)'
        PROVE  /\ slot'[r] <= lapses'[asks'[r]]
               /\ asks'[r] \notin cooling' => slot'[r] < lapses'[asks'[r]]
    <3>1. LetThrough(r) /\ r \in Calls
      BY <1>1, <2>1 DEF LetThrough, Calls
    <3>2. asks[r] \in Orders /\ lapses[asks[r]] \in Nat /\ slot[r] \in Nat
      BY <3>1 DEF LetThrough, MailInv, CallsTyped
    <3> QED
      BY <1>1, <3>1, <3>2 DEF MailInv, Paced, CallsTyped
  <2>2. ResendsPaced'
    BY <1>1 DEF MailInv, Paced, ResendsPaced, LetThrough
  <2> QED
    BY <2>1, <2>2 DEF Paced
<1> QED
  BY <1>1, <1>2, <1>3, TopicStays, CallSide DEF Failing, NoFault

LEMMA PublishSound ==
    ASSUME MailInv, NEW c \in Calls, PublishOrderPaid(c)
    PROVE  MailInv'
<1>1. /\ rpc[c] = "publish" /\ rpc' = [rpc EXCEPT ![c] = "ok"] /\ asks[c] \in Orders
      /\ UNCHANGED <<status, cooling, lapses, asks, slot, groupVars, loopVars>>
      /\ Failing
  BY DEF PublishOrderPaid, GoOn, Failing, MailInv, CallsTyped
<1>2. CallsTyped'
  BY <1>1 DEF MailInv, CallsTyped
<1>3. Paced'
  BY <1>1, PaceKept DEF MailInv, CallsTyped, LetThrough, Calls
<1>4. TopicGrows
  <2>1. Message(asks[c], TRUE) \in Messages /\ Message(asks[c], FALSE) \in Messages
    BY <1>1, Zenon DEF Message, Messages
  <2>2. paid \in Seq(Messages)
    BY DEF MailInv, GroupTyped
  <2>3. CASE UNCHANGED paid
    BY <2>3, TopicStays
  <2>4. ASSUME NEW m \in Messages, paid' = Append(paid, m)
        PROVE  TopicGrows
    BY <2>2, <2>4, AppendTyped DEF TopicGrows
  <2>5. ASSUME NEW m \in Messages, paid' = paid \o <<m, m>>
        PROVE  TopicGrows
    BY <2>2, <2>5, TwiceTyped DEF TopicGrows
  <2> QED
    BY <2>1, <2>3, <2>4, <2>5 DEF PublishOrderPaid
<1> QED
  BY <1>1, <1>2, <1>3, <1>4, CallSide

-----------------------------------------------------------------------------
(* The mailing side.  The calls are left alone.                            *)

LEMMA GroupSide ==
    ASSUME MailInv, GroupTyped', Handled', Flags', UNCHANGED callVars
    PROVE  MailInv'
<1>1. CallsTyped'
  BY DEF MailInv, CallsTyped, callVars
<1>2. Paced'
  BY DEF MailInv, Paced, ResendsPaced, LetThrough, callVars
<1> QED
  BY <1>1, <1>2 DEF MailInv

\* A worker puts its message down when there is none, or it is not to be had.
LEMMA PutDown ==
    ASSUME GroupTyped, NEW w \in Workers, NEW pc \in {"down", "idle"},
           wpc' = [wpc EXCEPT ![w] = pc], wmsg' = [wmsg EXCEPT ![w] = 0]
    PROVE  /\ wpc' \in [Workers -> {"down", "idle", "look", "send"}]
           /\ wmsg' \in [Workers -> 0..Len(paid)]
           /\ \A v \in Workers : wmsg'[v] = 0 <=> wpc'[v] \in {"down", "idle"}
           /\ \A v \in Workers \ {w} : wmsg'[v] = wmsg[v]
BY DEF GroupTyped

LEMMA BootSound ==
    ASSUME MailInv, NEW w \in Workers, Boot(w)
    PROVE  MailInv'
<1>1. /\ wpc[w] = "down" /\ wmsg[w] = 0 /\ wmsg' = wmsg
      /\ wpc' = [wpc EXCEPT ![w] = "idle"]
      /\ UNCHANGED <<callVars, groupVars, mailed, faults, failed>>
  BY DEF Boot, GoIdle, MailInv, GroupTyped
<1>2. TopicGrows
  <2>1. PreWarm \in Messages /\ paid \in Seq(Messages)
    BY DEF Messages, MailInv, GroupTyped
  <2> QED
    BY <2>1, AppendTyped DEF Boot, TopicGrows
<1>3. GroupTyped'
  BY <1>1, <1>2 DEF MailInv, GroupTyped, TopicGrows, groupVars
<1>4. Handled'
  <2>1. ASSUME ~failed', NEW i \in 1..Len(paid'),
               first < i, i <= next \/ (offset # None /\ i <= offset)
        PROVE  Done(i)'
    <3>1. i \in 1..Len(paid)
      BY <1>2, <2>1 DEF MailInv, GroupTyped, TopicGrows
    <3>2. Done(i)
      BY <1>1, <2>1, <3>1 DEF MailInv, Handled
    <3> QED
      BY <1>1, <1>2, <3>1, <3>2 DEF Done, TopicGrows
  <2> QED
    BY <1>1, <2>1 DEF Handled, groupVars
<1>5. Flags'
  BY <1>1 DEF MailInv, Flags, groupVars
<1> QED
  BY <1>1, <1>3, <1>4, <1>5, GroupSide

LEMMA StopSound ==
    ASSUME MailInv, NEW w \in Workers, Stop(w)
    PROVE  MailInv'
<1>1. /\ wpc' = [wpc EXCEPT ![w] = "down"] /\ wmsg' = [wmsg EXCEPT ![w] = 0]
      /\ owner' \in {owner, None}
      /\ Fault
      /\ UNCHANGED <<callVars, paid, offset, next, dirty, first, mailed>>
  BY DEF Stop
<1>2. GroupTyped'
  BY <1>1, PutDown DEF MailInv, GroupTyped
<1>3. Handled'
  BY <1>1 DEF Handled, Fault
<1>4. Flags'
  BY <1>1, FlagsKept DEF MailInv, Flags, Failing
<1> QED
  BY <1>1, <1>2, <1>3, <1>4, GroupSide

\* A consumer goes on where the group has committed; without an offset nothing
\* before the end of the topic is owed to anybody.
LEMMA GiveSound ==
    ASSUME MailInv, NEW w \in Workers, GiveTopic(w), failed' = failed,
           faults' \in 0..MaxFaults
    PROVE  MailInv'
<1>1. /\ owner' = w /\ dirty' = FALSE
      /\ UNCHANGED <<callVars, paid, offset, wpc, wmsg, mailed>>
  BY DEF GiveTopic, loopVars
<1>2. CASE offset = None
  <2>1. next' = Len(paid) /\ first' = Len(paid) /\ Len(paid) \in Nat
    BY <1>2 DEF GiveTopic, StartOffset, MailInv, GroupTyped
  <2>2. GroupTyped'
    BY <1>1, <2>1 DEF MailInv, GroupTyped
  <2>3. Handled'
    BY <1>1, <1>2, <2>1 DEF Handled
  <2> QED
    BY <1>1, <2>2, <2>3, GroupSide DEF MailInv, Flags
<1>3. CASE offset # None
  <2>1. next' = offset /\ first' = first
    BY <1>3 DEF GiveTopic, StartOffset
  <2>2. GroupTyped'
    BY <1>1, <1>3, <2>1 DEF MailInv, GroupTyped
  <2>3. Handled'
    BY <1>1, <1>3, <2>1 DEF MailInv, Handled, Done
  <2> QED
    BY <1>1, <2>2, <2>3, GroupSide DEF MailInv, Flags
<1> QED
  BY <1>2, <1>3

LEMMA ReadSound ==
    ASSUME MailInv, NEW w \in Workers, Read(w)
    PROVE  MailInv'
<1>1. /\ wpc[w] = "idle" /\ wmsg[w] = 0 /\ next < Len(paid) /\ next' = next + 1 /\ dirty' = TRUE
      /\ next' \in 1..Len(paid) /\ Len(paid) \in Nat /\ next \in Nat
      /\ UNCHANGED <<callVars, paid, offset, owner, first, mailed, faults, failed>>
  BY DEF Read, MailInv, GroupTyped
<1>2. GroupTyped'
  <2>1. CASE paid[next + 1] = PreWarm
    BY <1>1, <2>1 DEF Read, MailInv, GroupTyped
  <2>2. CASE paid[next + 1] # PreWarm
    <3>1. wpc' = [wpc EXCEPT ![w] = "look"] /\ wmsg' = [wmsg EXCEPT ![w] = next + 1]
      BY <2>2 DEF Read
    <3>2. /\ wpc' \in [Workers -> {"down", "idle", "look", "send"}]
          /\ wmsg' \in [Workers -> 0..Len(paid)]
          /\ \A v \in Workers : wmsg'[v] = 0 <=> wpc'[v] \in {"down", "idle"}
      BY <1>1, <3>1 DEF MailInv, GroupTyped
    <3> QED
      BY <1>1, <3>2 DEF MailInv, GroupTyped
  <2> QED
    BY <2>1, <2>2
<1>3. ASSUME NEW i \in 1..Len(paid), i = next + 1
      PROVE  Done(i)'
  BY <1>1, <1>3 DEF Read, Done, MailInv, GroupTyped
<1>4. ASSUME NEW i \in 1..Len(paid), Done(i)
      PROVE  Done(i)'
  <2>1. \A v \in Workers : wmsg[v] # 0 => wmsg'[v] = wmsg[v]
    BY <1>1 DEF Read, MailInv, GroupTyped
  <2> QED
    BY <1>1, <1>4, <2>1 DEF Done
<1>5. Handled'
  <2>1. ASSUME ~failed', NEW i \in 1..Len(paid'),
               first' < i, i <= next' \/ (offset' # None /\ i <= offset')
        PROVE  Done(i)'
    <3>1. i = next + 1 \/ i <= next \/ (offset # None /\ i <= offset)
      BY <1>1, <2>1
    <3>2. i \in 1..Len(paid) /\ first < i
      BY <1>1, <2>1
    <3> QED
      BY <1>1, <3>2, <1>3, <1>4, <2>1, <3>1 DEF MailInv, Handled
  <2> QED
    BY <2>1 DEF Handled
<1>6. Flags'
  BY <1>1 DEF MailInv, Flags
<1> QED
  BY <1>1, <1>2, <1>5, <1>6, GroupSide

LEMMA CommitSound ==
    ASSUME MailInv, Commit
    PROVE  MailInv'
<1>1. offset' = next /\ UNCHANGED <<callVars, paid, next, owner, first, wpc, wmsg, mailed, faults, failed>>
  BY DEF Commit, loopVars
<1>2. GroupTyped'
  BY <1>1 DEF MailInv, GroupTyped
<1>3. Handled'
  BY <1>1 DEF MailInv, Handled, Done
<1>4. Flags'
  BY <1>1 DEF Commit, MailInv, Flags
<1> QED
  BY <1>1, <1>2, <1>3, <1>4, GroupSide

LEMMA LookUpSound ==
    ASSUME MailInv, NEW w \in Workers, LookUp(w)
    PROVE  MailInv'
<1>1. wpc[w] = "look" /\ Failing /\ UNCHANGED <<callVars, paid, groupVars, mailed>>
  BY DEF LookUp, Failing
<1>2. Flags' /\ (failed => failed')
  BY <1>1, FlagsKept DEF MailInv, Flags, groupVars
<1>3. CASE wpc' = [wpc EXCEPT ![w] = "send"] /\ wmsg' = wmsg
  <2>1. GroupTyped'
    BY <1>1, <1>3 DEF MailInv, GroupTyped, groupVars
  <2>2. Handled'
    BY <1>1, <1>2, <1>3 DEF MailInv, Handled, Done, groupVars
  <2> QED
    BY <1>1, <1>2, <2>1, <2>2, GroupSide
<1>4. CASE Fault /\ GoIdle(w)
  <2>1. GroupTyped'
    BY <1>1, <1>4, PutDown DEF GoIdle, MailInv, GroupTyped, groupVars
  <2>2. Handled'
    BY <1>4 DEF Fault, Handled
  <2> QED
    BY <1>1, <1>2, <2>1, <2>2, GroupSide
<1> QED
  BY <1>3, <1>4 DEF LookUp

LEMMA SendSound ==
    ASSUME MailInv, NEW w \in Workers, Send(w)
    PROVE  MailInv'
<1>1. /\ wpc[w] = "send" /\ GoIdle(w) /\ UNCHANGED <<callVars, paid, groupVars>>
      /\ Failing
      /\ mailed' = mailed \cup {wmsg[w]} \/ (mailed' = mailed /\ Fault)
  BY DEF Send, Failing
<1>2. Flags' /\ (failed => failed')
  BY <1>1, FlagsKept DEF MailInv, Flags, groupVars
<1>3. wmsg[w] \in 1..Len(paid)
  BY <1>1 DEF MailInv, GroupTyped
<1>4. GroupTyped'
  <2>1. mailed' \subseteq 1..Len(paid)
    BY <1>1, <1>3 DEF MailInv, GroupTyped
  <2> QED
    BY <1>1, <2>1, PutDown DEF GoIdle, MailInv, GroupTyped, groupVars
<1>5. Handled'
  <2>1. CASE Fault
    BY <2>1 DEF Fault, Handled
  <2>2. CASE mailed' = mailed \cup {wmsg[w]}
    <3>1. \A i \in 1..Len(paid) : Done(i) => Done(i)'
      BY <1>1, <2>2, PutDown DEF Done, GoIdle, MailInv
    <3> QED
      BY <1>1, <1>2, <3>1 DEF MailInv, Handled, groupVars
  <2> QED
    BY <1>1, <2>1, <2>2
<1> QED
  BY <1>1, <1>2, <1>4, <1>5, GroupSide

-----------------------------------------------------------------------------
LEMMA MailStart == MailInit => MailInv
<1> SUFFICES ASSUME MailInit PROVE MailInv
  OBVIOUS
<1>1. CallsTyped /\ Paced
  BY DEF MailInit, CallsTyped, Paced, ResendsPaced, LetThrough, Calls
<1>2. Cardinality(Workers) \in Nat /\ Len(paid) = Cardinality(Workers) /\ paid \in Seq(Messages)
  BY WorkersAssumption, FS_CardinalityType DEF MailInit, Messages
<1>3. GroupTyped /\ Handled
  BY <1>2 DEF MailInit, GroupTyped, Handled
<1>4. Flags
  <2>1. dirty \in BOOLEAN /\ failed \in BOOLEAN
    BY Zenon DEF MailInit
  <2> QED
    BY <2>1, MailBoundsAssumption DEF MailInit, Flags
<1> QED
  BY <1>1, <1>3, <1>4 DEF MailInv

LEMMA MailStep ==
    ASSUME MailInv, [MailNext]_mailVars
    PROVE  MailInv'
<1>1. CASE UNCHANGED mailVars
  BY <1>1 DEF mailVars, callVars, groupVars, loopVars, MailInv, CallsTyped, GroupTyped, Flags,
       Paced, ResendsPaced, LetThrough, Handled, Done
<1>2. ASSUME NEW o \in Orders,
             \/ \E c \in Confirmations : ConfirmPayment(c, o)
             \/ \E r \in Resends : ResendEmail(r, o)
             \/ CheckIn(o)
             \/ RateLimitLapses(o)
      PROVE  MailInv'
  BY <1>2, ConfirmSound, ResendSound, CheckInSound, LapseSound
<1>3. ASSUME NEW r \in Resends, TryAcquireRateLimit(r) \/ ResendNotification(r)
      PROVE  MailInv'
  BY <1>3, AcquireSound, RecheckSound
<1>4. ASSUME NEW w \in Workers, Assign(w) \/ Rebalance(w)
      PROVE  MailInv'
  <2>1. GiveTopic(w) /\ failed' = failed
    BY <1>4 DEF Assign, Rebalance, NoFault
  <2>2. faults' \in 0..MaxFaults
    BY <1>4, MailBoundsAssumption DEF Assign, Rebalance, NoFault, MailInv, Flags
  <2> QED
    BY <2>1, <2>2, GiveSound
<1>5. ASSUME NEW w \in Workers, Boot(w) \/ Stop(w) \/ Read(w) \/ LookUp(w) \/ Send(w)
      PROVE  MailInv'
  BY <1>5, BootSound, StopSound, ReadSound, LookUpSound, SendSound
<1> QED
  BY <1>1, <1>2, <1>3, <1>4, <1>5, PublishSound, CommitSound DEF MailNext

LEMMA MailInductive == MailSpec => []MailInv
BY MailStart, MailStep, PTL DEF MailSpec

\* Every variable keeps its type, so no reader is ever past the end of the topic.
THEOREM MailTyping == MailSpec => []MailTypeOK
<1>1. MailInv => MailTypeOK
  BY DEF MailInv, CallsTyped, GroupTyped, Flags, MailTypeOK, Messages
<1> QED
  BY <1>1, MailInductive, PTL

\* Resends of one order keep their distance, however many requests overlap.
THEOREM ResendsKeepDistance == MailSpec => []ResendsPaced
<1>1. MailInv => ResendsPaced
  BY DEF MailInv, Paced
<1> QED
  BY <1>1, MailInductive, PTL

\* While no call fails, nothing the group has committed is forgotten, however
\* often the topic moves.
THEOREM NothingCommittedIsForgotten == MailSpec => []CommittedIsHandled
<1>1. ASSUME MailInv PROVE CommittedIsHandled
  <2>1. ASSUME offset # None, ~failed, NEW i \in (first + 1)..offset
        PROVE  Done(i)
    <3>1. i \in 1..Len(paid) /\ first < i /\ i <= offset
      BY <1>1, <2>1 DEF MailInv, GroupTyped
    <3> QED
      BY <1>1, <2>1, <3>1 DEF MailInv, Handled
  <2> QED
    BY <2>1 DEF CommittedIsHandled, Done
<1> QED
  BY <1>1, MailInductive, PTL
=============================================================================
