---------------------------- MODULE AuditProofs ----------------------------
(***************************************************************************)
(* Proofs about AuditChain, for any number of workers, events and days.    *)
(***************************************************************************)
EXTENDS AuditChain, WellFoundedInduction, TLAPS

USE ChainAssumption

-----------------------------------------------------------------------------
(* The newest of a set of events.                                          *)

LEMMA LeastElement ==
  ASSUME NEW T, T \subseteq Nat, T # {}
  PROVE  \E x \in T : \A y \in T : x <= y
<1>1. PICK x \in T : \A y \in T : ~ (<<y, x>> \in OpToRel(<, Nat))
  <2> DEFINE R == OpToRel(<, Nat)
  <2>1. IsWellFoundedOn(R, Nat)
    BY NatLessThanWellFounded
  <2> HIDE DEF R
  <2>2. \E x \in T : \A y \in T : ~ (<<y, x>> \in R)
    BY <2>1, WFMin
  <2> QED
    BY <2>2 DEF R
<1>2. \A y \in T : x <= y
  <2> SUFFICES ASSUME NEW y \in T, y < x PROVE FALSE
    OBVIOUS
  <2>1. <<y, x>> \in {ss \in Nat \X Nat : ss[1] < ss[2]}
    OBVIOUS
  <2>2. <<y, x>> \in OpToRel(<, Nat)
    BY <2>1, Zenon DEF OpToRel
  <2> QED
    BY <1>1, <2>2
<1> QED
  BY <1>2

LEMMA GreatestElement ==
  ASSUME NEW n \in Nat, NEW T, T \subseteq 0..n, T # {}
  PROVE  \E x \in T : \A y \in T : y <= x
<1> DEFINE U == {n - t : t \in T}
<1>1. U \subseteq Nat /\ U # {}
  <2>1. \A t \in T : n - t \in Nat
    OBVIOUS
  <2>2. PICK t \in T : TRUE
    OBVIOUS
  <2> QED
    BY <2>1, <2>2
<1>2. PICK u \in U : \A v \in U : u <= v
  BY <1>1, LeastElement
<1>3. PICK x \in T : u = n - x
  OBVIOUS
<1>4. \A y \in T : y <= x
  <2> TAKE y \in T
  <2>1. n - y \in U
    OBVIOUS
  <2> QED
    BY <1>2, <1>3, <2>1
<1> QED
  BY <1>4

\* ORDER BY id DESC LIMIT 1 finds the event with the greatest id, if any.
LEMMA NewestIsLast ==
  ASSUME NEW es, es \subseteq Event
  PROVE  /\ Newest(es) \in 0..MaxEvents
         /\ es = {} => Newest(es) = 0
         /\ es # {} => \E e \in es : e.id = Newest(es)
         /\ \A e \in es : e.id <= Newest(es)
<1>1. CASE es = {}
  BY <1>1 DEF Newest
<1>2. CASE es # {}
  <2>1. IdsOf(es) \subseteq 0..MaxEvents /\ IdsOf(es) # {}
    BY <1>2 DEF IdsOf, Event
  <2>2. \E i \in IdsOf(es) : \A j \in IdsOf(es) : j <= i
    BY <2>1, GreatestElement
  <2>3. /\ Newest(es) \in IdsOf(es)
        /\ \A j \in IdsOf(es) : j <= Newest(es)
    BY <1>2, <2>2 DEF Newest
  <2> QED
    BY <1>2, <2>1, <2>3 DEF IdsOf
<1> QED
  BY <1>1, <1>2

-----------------------------------------------------------------------------
(* The types.                                                              *)

LEMMA Typing == TypeOK /\ [Next]_vars => TypeOK'
<1> SUFFICES ASSUME TypeOK, [Next]_vars PROVE TypeOK'
  OBVIOUS
<1> USE DEF TypeOK
<1>1. ASSUME NEW w \in Workers, Select(w) PROVE TypeOK'
  <2>1. Visible(w) \subseteq Event
    BY DEF Visible
  <2> QED
    BY <1>1, <2>1, NewestIsLast DEF Select
<1>2. ASSUME NEW w \in Workers, Grant(w) PROVE TypeOK'
  BY <1>2 DEF Grant
<1>3. ASSUME NEW w \in Workers, Insert(w) PROVE TypeOK'
  <2>1. [id |-> lastId + 1, prev |-> head[w], day |-> today, by |-> w] \in Event
    BY <1>3 DEF Insert, Event
  <2> QED
    BY <1>3, <2>1 DEF Insert
<1>4. ASSUME NEW w \in Workers, Commit(w) PROVE TypeOK'
  <2>1. {[e EXCEPT !.by = Nobody] : e \in Mine(w)} \subseteq Event
    BY DEF Mine, Event
  <2> QED
    BY <1>4, <2>1 DEF Commit, End
<1>5. ASSUME NEW w \in Workers, Rollback(w) PROVE TypeOK'
  BY <1>5 DEF Rollback, End
<1>6. CASE Midnight
  BY <1>6 DEF Midnight
<1>7. ASSUME NEW d \in 1..MaxDay, Anchor(d) PROVE TypeOK'
  <2>1. On(d) \subseteq Event /\ Before(d) \subseteq Event
    BY DEF On, Before
  <2>2. HeadOf(d) \in 0..MaxEvents
    BY <2>1, NewestIsLast DEF HeadOf
  <2> QED
    BY <1>7, <2>2 DEF Anchor
<1>8. CASE UNCHANGED vars
  BY <1>8 DEF vars
<1> QED
  BY <1>1, <1>2, <1>3, <1>4, <1>5, <1>6, <1>7, <1>8 DEF Next, Worker

LEMMA TypeCorrect == Spec => []TypeOK
<1>1. Init => TypeOK
  BY DEF Init, TypeOK
<1> QED
  BY <1>1, Typing, PTL DEF Spec

-----------------------------------------------------------------------------
(* Any interleaving: no hash of an event that was undone.                  *)

\* An id is given once.
Numbered == \A e \in events : e.id <= lastId

\* What a worker has found it will still find when it inserts.
HeadStays ==
  \A w \in Workers :
    pc[w] # "idle" => head[w] = 0 \/ \E e \in Visible(w) : e.id = head[w]

\* The predecessor is committed or of the same transaction.
PrevStays ==
  \A e \in events :
    e.prev = 0 \/ \E p \in events : /\ p.id = e.prev /\ p.id < e.id
                                    /\ p.by \in {Nobody, e.by}

Linked == Numbered /\ HeadStays /\ PrevStays

LEMMA LinkedStep == TypeOK /\ Linked /\ [Next]_vars => Linked'
<1> SUFFICES ASSUME TypeOK, Linked, [Next]_vars PROVE Linked'
  OBVIOUS
<1> USE DEF Linked, Numbered, HeadStays, PrevStays
<1>1. ASSUME NEW w \in Workers, Select(w) PROVE Linked'
  <2>1. Visible(w) \subseteq Event /\ \A v \in Workers : Visible(v)' = Visible(v)
    BY <1>1 DEF Visible, Select, TypeOK
  <2>2. head'[w] = 0 \/ \E e \in Visible(w) : e.id = head'[w]
    BY <1>1, <2>1, NewestIsLast DEF Select, TypeOK
  <2> QED
    BY <1>1, <2>1, <2>2 DEF Select, TypeOK
<1>2. ASSUME NEW w \in Workers, Grant(w) PROVE Linked'
  BY <1>2 DEF Grant, TypeOK, Visible
<1>3. ASSUME NEW w \in Workers, Insert(w) PROVE Linked'
  <2> DEFINE new == [id |-> lastId + 1, prev |-> head[w], day |-> today, by |-> w]
  <2>1. events' = events \cup {new} /\ lastId' = lastId + 1 /\ lastId \in Nat
    BY <1>3 DEF Insert, TypeOK
  <2>2. Numbered'
    BY <2>1 DEF TypeOK, Event
  <2>3. HeadStays'
    <3>1. \A v \in Workers : Visible(v) \subseteq Visible(v)'
      BY <2>1 DEF Visible
    <3>2. \A v \in Workers : pc'[v] # "idle" => pc[v] # "idle" /\ head'[v] = head[v]
      BY <1>3 DEF Insert, TypeOK
    <3> QED
      BY <3>1, <3>2
  <2>4. new.prev = 0 \/ \E p \in events : /\ p.id = new.prev /\ p.id < new.id
                                         /\ p.by \in {Nobody, new.by}
    <3>1. head[w] = 0 \/ \E e \in Visible(w) : e.id = head[w]
      BY <1>3 DEF Insert
    <3> QED
      BY <2>1, <3>1 DEF Visible, TypeOK, Event
  <2>5. PrevStays'
    BY <2>1, <2>4
  <2> QED
    BY <2>2, <2>3, <2>5
<1>4. ASSUME NEW w \in Workers, Commit(w) PROVE Linked'
  <2> DEFINE done(e) == IF e.by = w THEN [e EXCEPT !.by = Nobody] ELSE e
  <2>1. \A e \in events : /\ done(e) \in Event /\ done(e) \in events'
                          /\ done(e).id = e.id /\ done(e).prev = e.prev
                          /\ done(e).by = IF e.by = w THEN Nobody ELSE e.by
    BY <1>4 DEF Commit, Mine, TypeOK, Event
  <2>2. \A f \in events' : \E e \in events : f = done(e)
    BY <1>4 DEF Commit, Mine
  <2> HIDE DEF done
  <2>3. Numbered'
    BY <1>4, <2>1, <2>2 DEF Commit, End
  <2>4. HeadStays'
    <3> SUFFICES ASSUME NEW v \in Workers, pc'[v] # "idle", head'[v] # 0
                 PROVE  \E e \in Visible(v)' : e.id = head'[v]
      OBVIOUS
    <3>1. v # w /\ pc[v] # "idle" /\ head'[v] = head[v]
      BY <1>4 DEF Commit, End, TypeOK
    <3>2. PICK e \in Visible(v) : e.id = head[v]
      BY <3>1
    <3>3. done(e) \in Visible(v)' /\ done(e).id = head'[v]
      BY <2>1, <3>1, <3>2 DEF Visible
    <3> QED
      BY <3>3
  <2>5. PrevStays'
    <3> SUFFICES ASSUME NEW f \in events', f.prev # 0
                 PROVE  \E p \in events' : /\ p.id = f.prev /\ p.id < f.id
                                           /\ p.by \in {Nobody, f.by}
      OBVIOUS
    <3>1. PICK e \in events : f = done(e)
      BY <2>2
    <3>2. PICK p \in events : /\ p.id = e.prev /\ p.id < e.id
                              /\ p.by \in {Nobody, e.by}
      BY <2>1, <3>1
    <3>3. /\ done(p) \in events' /\ done(p).id = f.prev /\ done(p).id < f.id
          /\ done(p).by \in {Nobody, f.by}
      BY <2>1, <3>1, <3>2
    <3> QED
      BY <3>3
  <2> QED
    BY <2>3, <2>4, <2>5
<1>5. ASSUME NEW w \in Workers, Rollback(w) PROVE Linked'
  <2>1. \A e \in events : e.by # w => e \in events'
    BY <1>5 DEF Rollback, Mine
  <2>2. \A e \in events' : e \in events /\ e.by # w
    BY <1>5 DEF Rollback, Mine
  <2>3. Numbered'
    BY <1>5, <2>2 DEF Rollback, End
  <2>4. HeadStays'
    <3>1. \A v \in Workers : pc'[v] # "idle" =>
            v # w /\ pc[v] # "idle" /\ head'[v] = head[v]
      BY <1>5 DEF Rollback, End, TypeOK
    <3>2. \A v \in Workers \ {w} : Visible(v) \subseteq Visible(v)'
      BY <2>1 DEF Visible
    <3> QED
      BY <3>1, <3>2
  <2>5. PrevStays'
    BY <2>1, <2>2
  <2> QED
    BY <2>3, <2>4, <2>5
<1>6. ASSUME UNCHANGED <<events, lastId, pc, head>> PROVE Linked'
  BY <1>6 DEF Visible
<1> QED
  BY <1>1, <1>2, <1>3, <1>4, <1>5, <1>6 DEF Next, Worker, Midnight, Anchor, vars

LEMMA LinkedHolds == Spec => [](TypeOK /\ Linked)
<1>1. Init => Linked
  BY DEF Init, Linked, Numbered, HeadStays, PrevStays
<1> QED
  BY <1>1, TypeCorrect, LinkedStep, PTL DEF Spec

\* Under any interleaving and any rollbacks, a committed event is hashed onto
\* an earlier committed one or onto the genesis hash.
THEOREM PredecessorHolds == Spec => []PredecessorIsCommitted
<1>1. Linked => PredecessorIsCommitted
  BY DEF Linked, PrevStays, PredecessorIsCommitted, Committed
<1> QED
  BY <1>1, LinkedHolds, PTL

-----------------------------------------------------------------------------
(* One transaction at a time: one chain, and every anchor on it.           *)

OneWorker == \A v, w \in Workers : v = w

\* Nothing lies between an event and its predecessor, and what a worker has
\* found is still the last event when it inserts.
Chained ==
  /\ \A e, f \in events : /\ e.prev < e.id
                          /\ ~(e.prev < f.id /\ f.id < e.id)
                          /\ e.id = f.id => e = f
  /\ \A w \in Workers : pc[w] # "idle" => \A e \in events : e.id <= head[w]

\* Later events are of later days.
DaysOrdered ==
  /\ \A e \in events : e.day <= today
  /\ \A e, f \in events : e.id < f.id => e.day <= f.day

\* An anchor is the last event up to its day, and all of these are committed.
AnchorIsLast ==
  \A a \in anchors :
    /\ a.day < today
    /\ \A e \in events : e.day <= a.day => e.by = Nobody /\ e.id <= a.head
    /\ a.head = 0 \/ \E e \in events : e.id = a.head /\ e.day <= a.day

Serial == Chained /\ DaysOrdered /\ AnchorIsLast

LEMMA AllVisible ==
  ASSUME OneWorker, TypeOK, NEW w \in Workers
  PROVE  Visible(w) = events
BY DEF OneWorker, TypeOK, Visible, Event

\* What is anchored for a day is the newest of the events up to it.
LEMMA HeadIsLast ==
  ASSUME TypeOK, DaysOrdered, NEW d \in 1..MaxDay
  PROVE  /\ HeadOf(d) \in 0..MaxEvents
         /\ \A e \in On(d) \cup Before(d) : e.id <= HeadOf(d)
         /\ HeadOf(d) = 0 \/ \E e \in On(d) \cup Before(d) : e.id = HeadOf(d)
<1>1. On(d) \subseteq Event /\ Before(d) \subseteq Event
  BY DEF On, Before, TypeOK
<1>2. CASE On(d) = {}
  BY <1>1, <1>2, NewestIsLast DEF HeadOf
<1>3. CASE On(d) # {}
  <2>1. HeadOf(d) = Newest(On(d))
    BY <1>3 DEF HeadOf
  <2>2. PICK h \in On(d) : h.id = HeadOf(d)
    BY <1>1, <1>3, <2>1, NewestIsLast
  <2>3. \A e \in Before(d) : e.id <= h.id
    BY <2>2 DEF On, Before, TypeOK, Event, DaysOrdered
  <2> QED
    BY <1>1, <2>1, <2>2, <2>3, NewestIsLast
<1> QED
  BY <1>2, <1>3

LEMMA SerialStep ==
  OneWorker /\ TypeOK /\ Linked /\ Serial /\ [Next]_vars => Serial'
<1> SUFFICES ASSUME OneWorker, TypeOK, Linked, Serial, [Next]_vars PROVE Serial'
  OBVIOUS
<1> USE DEF Serial, Chained, DaysOrdered, AnchorIsLast
<1>1. ASSUME NEW w \in Workers, Select(w) PROVE Serial'
  <2>1. \A e \in events : e.id <= head'[w]
    BY <1>1, AllVisible, NewestIsLast DEF Select, TypeOK
  <2> QED
    BY <1>1, <2>1 DEF Select, TypeOK, OneWorker
<1>2. ASSUME NEW w \in Workers, Grant(w) PROVE Serial'
  BY <1>2 DEF Grant, TypeOK
<1>3. ASSUME NEW w \in Workers, Insert(w) PROVE Serial'
  <2> DEFINE new == [id |-> lastId + 1, prev |-> head[w], day |-> today, by |-> w]
  <2>1. /\ events' = events \cup {new} /\ lastId \in Nat /\ new.id = lastId + 1
        /\ new.prev = head[w] /\ new.day = today /\ new.by = w
    BY <1>3 DEF Insert, TypeOK
  <2>2. \A e \in events : /\ e.id \in Nat /\ e.id < new.id /\ e.id <= new.prev
                          /\ e.prev \in Nat /\ e.day \in Nat
    BY <1>3, <2>1 DEF Insert, TypeOK, Event, Linked, Numbered
  <2>3. new.prev < new.id /\ new.prev \in Nat /\ new.id \in Nat
    BY <1>3, <2>1, <2>2 DEF Insert, TypeOK, Linked, HeadStays, Visible
  <2> HIDE DEF new
  <2>4. pc'[w] = "idle" /\ \A v \in Workers : v = w
    BY <1>3 DEF Insert, TypeOK, OneWorker
  <2>5. Chained'
    BY <2>1, <2>2, <2>3, <2>4
  <2>6. today' = today /\ today \in Nat /\ anchors' = anchors
    BY <1>3 DEF Insert, TypeOK
  <2>7. DaysOrdered'
    BY <2>1, <2>2, <2>3, <2>6
  <2>8. AnchorIsLast'
    BY <2>1, <2>6 DEF TypeOK
  <2> QED
    BY <2>5, <2>7, <2>8
<1>4. ASSUME NEW w \in Workers, Commit(w) PROVE Serial'
  <2> DEFINE done(e) == IF e.by = w THEN [e EXCEPT !.by = Nobody] ELSE e
  <2>1. \A e \in events : /\ done(e) \in events'
                          /\ done(e).id = e.id /\ done(e).prev = e.prev
                          /\ done(e).day = e.day
                          /\ e.by = Nobody => done(e) = e
    BY <1>4, ChainAssumption DEF Commit, Mine, TypeOK, Event
  <2>2. \A f \in events' : \E e \in events : f = done(e)
    BY <1>4 DEF Commit, Mine
  <2> HIDE DEF done
  <2>3. /\ today' = today /\ anchors' = anchors
        /\ \A v \in Workers : pc'[v] = "idle"
    BY <1>4 DEF Commit, End, TypeOK, OneWorker
  <2>4. Chained'
    BY <2>1, <2>2, <2>3
  <2>5. DaysOrdered'
    BY <2>1, <2>2, <2>3
  <2>6. AnchorIsLast'
    BY <2>1, <2>2, <2>3
  <2> QED
    BY <2>4, <2>5, <2>6
<1>5. ASSUME NEW w \in Workers, Rollback(w) PROVE Serial'
  <2>1. /\ events' \subseteq events /\ today' = today /\ anchors' = anchors
        /\ \A e \in events : e.by = Nobody => e \in events'
        /\ \A v \in Workers : pc'[v] = "idle"
    BY <1>5, ChainAssumption DEF Rollback, End, Mine, TypeOK, OneWorker
  <2> QED
    BY <2>1
<1>6. CASE Midnight
  BY <1>6 DEF Midnight, TypeOK, Event
<1>7. ASSUME NEW d \in 1..MaxDay, Anchor(d) PROVE Serial'
  <2> DEFINE a == [day |-> d, head |-> HeadOf(d)]
  <2>1. \A e \in events : e.day <= d <=> e \in On(d) \cup Before(d)
    BY <1>7 DEF Anchor, Settled, On, Before, TypeOK, Event
  <2>2. On(d) \subseteq Event /\ Before(d) \subseteq Event
    BY DEF On, Before, TypeOK
  <2>3. /\ \A e \in On(d) \cup Before(d) : e.id <= HeadOf(d)
        /\ HeadOf(d) = 0 \/ \E e \in On(d) \cup Before(d) : e.id = HeadOf(d)
    BY HeadIsLast
  <2>4. /\ a.day < today
        /\ \A e \in events : e.day <= a.day => e.by = Nobody /\ e.id <= a.head
        /\ a.head = 0 \/ \E e \in events : e.id = a.head /\ e.day <= a.day
    BY <1>7, <2>1, <2>3 DEF Anchor, Settled, On, Before
  <2>5. /\ \A b \in anchors' : b \in anchors \/ b = a
        /\ UNCHANGED <<events, today, pc, head>>
    BY <1>7 DEF Anchor
  <2> HIDE DEF a
  <2> QED
    BY <2>4, <2>5
<1>8. CASE UNCHANGED vars
  BY <1>8 DEF vars
<1> QED
  BY <1>1, <1>2, <1>3, <1>4, <1>5, <1>6, <1>7, <1>8 DEF Next, Worker

LEMMA SerialHolds == ASSUME OneWorker PROVE Spec => [](TypeOK /\ Linked /\ Serial)
<1>1. Init => Serial
  BY DEF Init, Serial, Chained, DaysOrdered, AnchorIsLast
<1>2. TypeOK /\ Linked /\ Serial /\ [Next]_vars => Serial'
  BY SerialStep
<1> QED
  BY <1>1, <1>2, LinkedHolds, PTL DEF Spec

\* One transaction at a time, whatever is rolled back: the hashes of the
\* trail form one chain.
THEOREM ChainHolds == ASSUME OneWorker PROVE Spec => []ChainIsLinear
<1>1. TypeOK /\ Serial => ChainIsLinear
  BY DEF TypeOK, Event, Serial, Chained, ChainIsLinear, Committed
<1> QED
  BY <1>1, SerialHolds, PTL

\* One transaction at a time: the first event after an anchored day, empty or
\* not, is hashed onto the anchor.
THEOREM AnchorHolds == ASSUME OneWorker PROVE Spec => []AnchorIsOnChain
<1>1. TypeOK /\ Linked /\ Serial => AnchorIsOnChain
  <2> SUFFICES ASSUME TypeOK, Linked, Serial,
                      NEW a \in anchors, NEW e \in events, e.day > a.day,
                      \A f \in events : f.day > a.day => e.id <= f.id
               PROVE  e.prev = a.head
    BY DEF AnchorIsOnChain
  <2> USE DEF TypeOK, Event
  <2>1. e.prev = 0 \/ e.prev <= a.head
    <3>1. CASE e.prev # 0
      <4>1. PICK p \in events : p.id = e.prev /\ p.id < e.id
        BY <3>1 DEF Linked, PrevStays
      <4>2. p.day <= a.day
        BY <4>1
      <4> QED
        BY <4>1, <4>2 DEF Serial, AnchorIsLast
    <3> QED
      BY <3>1
  <2>2. CASE a.head = 0
    BY <2>1, <2>2
  <2>3. CASE a.head # 0
    <3>1. PICK h \in events : h.id = a.head /\ h.day <= a.day
      BY <2>3 DEF Serial, AnchorIsLast
    <3>2. h.id < e.id
      BY <3>1 DEF Serial, DaysOrdered, Chained
    <3>3. e.prev >= a.head
      BY <3>1, <3>2 DEF Serial, Chained
    <3> QED
      BY <2>1, <2>3, <3>3
  <2> QED
    BY <2>2, <2>3
<1> QED
  BY <1>1, SerialHolds, PTL

-----------------------------------------------------------------------------
(* One transaction at a time: the trail is a ledger.                       *)

LEMMA LastIs ==
  ASSUME NEW es, NEW i \in Nat, \A e \in es : e.id \in Nat /\ e.id <= i,
         \E e \in es : e.id = i
  PROVE  Book!Last(es) = i
<1> DEFINE ids == {e.id : e \in es}
<1>1. i \in ids /\ \A e \in es : e.id <= i
  OBVIOUS
<1>2. ASSUME NEW j \in ids, \A e \in es : e.id <= j PROVE j = i
  BY <1>2
<1>3. es # {}
  OBVIOUS
<1> HIDE DEF ids
<1>4. (CHOOSE j \in ids : \A e \in es : e.id <= j) = i
  BY <1>1, <1>2
<1> QED
  BY <1>3, <1>4 DEF Book!Last, ids

LEMMA LastOfNone == ASSUME NEW es, es = {} PROVE Book!Last(es) = 0
BY DEF Book!Last

\* What an event shows of itself.
Shown(e) == [id |-> e.id, prev |-> e.prev, day |-> e.day]

LEMMA EntriesAreShown == Entries = {Shown(e) : e \in Committed}
BY DEF Entries, Shown

\* What a transaction has recorded is newer than all that is committed.
OpenIsLater ==
  \A e, f \in events : e.by = Nobody /\ f.by # Nobody => e.id < f.id

LedgerInv == TypeOK /\ Linked /\ Serial /\ OpenIsLater

\* One transaction at a time, a commit leaves none open.
LEMMA CommitIsAll ==
  ASSUME OneWorker, TypeOK, NEW w \in Workers, Commit(w)
  PROVE  /\ \A e \in events' : e.by = Nobody /\ \E f \in events : Shown(e) = Shown(f)
         /\ \A f \in events : \E e \in events' : Shown(e) = Shown(f)
<1>1. ASSUME NEW e \in Mine(w)
      PROVE  /\ [e EXCEPT !.by = Nobody].by = Nobody
             /\ Shown([e EXCEPT !.by = Nobody]) = Shown(e)
  BY <1>1 DEF Mine, TypeOK, Event, Shown
<1>2. \A e \in events : e \in Mine(w) \/ e.by = Nobody
  BY DEF OneWorker, TypeOK, Event, Mine
<1>3. events' = (events \ Mine(w)) \cup {[e EXCEPT !.by = Nobody] : e \in Mine(w)}
  BY DEF Commit
<1>4. Mine(w) \subseteq events
  BY DEF Mine
<1> QED
  BY <1>1, <1>2, <1>3, <1>4

LEMMA OpenStep ==
  OneWorker /\ TypeOK /\ Linked /\ OpenIsLater /\ [Next]_vars => OpenIsLater'
<1> SUFFICES ASSUME OneWorker, TypeOK, Linked, OpenIsLater, [Next]_vars
             PROVE  OpenIsLater'
  OBVIOUS
<1>1. ASSUME NEW w \in Workers, Insert(w) PROVE OpenIsLater'
  <2>1. PICK new : /\ new = [id |-> lastId + 1, prev |-> head[w], day |-> today, by |-> w]
                   /\ events' = events \cup {new}
    BY <1>1 DEF Insert
  <2>2. new.id = lastId + 1 /\ new.by # Nobody
    BY <2>1, ChainAssumption
  <2>3. \A e \in events : e.id < new.id
    BY <2>2 DEF TypeOK, Event, Linked, Numbered
  <2> QED
    BY <2>1, <2>2, <2>3 DEF OpenIsLater
<1>2. ASSUME NEW w \in Workers, Commit(w) PROVE OpenIsLater'
  BY <1>2, CommitIsAll DEF OpenIsLater
<1>3. ASSUME NEW w \in Workers, Rollback(w) PROVE OpenIsLater'
  BY <1>3 DEF Rollback, OpenIsLater
<1>4. ASSUME UNCHANGED events PROVE OpenIsLater'
  BY <1>4 DEF OpenIsLater
<1> QED
  BY <1>1, <1>2, <1>3, <1>4 DEF Next, Worker, Select, Grant, Midnight, Anchor, vars

\* An event that is committed now, at the end of the ledger.
LEMMA CommittedIsAppended ==
  ASSUME OneWorker, LedgerInv, NEW w \in Workers, Commit(w),
         NEW x \in Entries', x \notin Entries
  PROVE  Book!IsAppended(x)
<1> USE DEF LedgerInv
<1>1. /\ Entries' = {Shown(e) : e \in events'}
      /\ Entries = {Shown(e) : e \in Committed}
  BY CommitIsAll, EntriesAreShown DEF Committed, Entries, Shown
<1>2. Entries' = {Shown(e) : e \in events}
  BY <1>1, CommitIsAll
<1>3. PICK e \in events : x = Shown(e)
  BY <1>2
<1>4. e.by # Nobody
  BY <1>1, <1>3 DEF Committed
<1>e. /\ \A f \in events : f.id \in Nat \ {0} /\ f.prev \in Nat /\ f.day \in Nat
      /\ \A f \in events : Shown(f).id = f.id /\ Shown(f).prev = f.prev
                           /\ Shown(f).day = f.day
  BY DEF TypeOK, Event, Shown
<1>5. \A f \in Entries : f.id < x.id
  BY <1>1, <1>3, <1>4, <1>e DEF OpenIsLater, Committed
<1>6. \A f \in Entries' : f.id = x.id => f = x
  BY <1>2, <1>3, <1>e DEF Serial, Chained
<1>7. x.prev = Book!Last({f \in Entries' : f.id < x.id})
  <2> DEFINE es == {f \in Entries' : f.id < x.id}
  <2>1. \A f \in es : f.id \in Nat /\ f.id <= x.prev /\ f.id # 0
    BY <1>2, <1>3, <1>e DEF Serial, Chained
  <2>2. CASE e.prev = 0
    <3>1. es = {}
      BY <1>3, <1>e, <2>1, <2>2
    <3> HIDE DEF es
    <3>2. Book!Last(es) = 0
      BY <3>1, LastOfNone
    <3> QED
      BY <1>3, <1>e, <2>2, <3>2 DEF es
  <2>3. CASE e.prev # 0
    <3>1. PICK p \in events : p.id = e.prev /\ p.id < e.id
      BY <2>3 DEF Linked, PrevStays
    <3>2. Shown(p) \in es /\ Shown(p).id = x.prev
      BY <1>2, <1>3, <1>e, <3>1
    <3>3. x.prev \in Nat
      BY <1>3, <1>e
    <3> HIDE DEF es
    <3>4. Book!Last(es) = x.prev
      BY <2>1, <3>2, <3>3, LastIs
    <3> QED
      BY <3>4 DEF es
  <2> QED
    BY <2>2, <2>3
<1>8. \A a \in anchors : a.day < x.day
  <2> SUFFICES ASSUME NEW a \in anchors PROVE a.day < e.day
    BY <1>3, <1>e
  <2>1. a.day \in Nat /\ e.day \in Nat
    BY <1>e DEF TypeOK
  <2> QED
    BY <1>4, <2>1 DEF Serial, AnchorIsLast
<1> QED
  BY <1>5, <1>6, <1>7, <1>8 DEF Book!IsAppended

LEMMA LedgerStep ==
  OneWorker /\ LedgerInv /\ [Next]_vars => [Book!Next]_(Book!vars)
<1> SUFFICES ASSUME OneWorker, LedgerInv, [Next]_vars
             PROVE  Book!Next \/ UNCHANGED Book!vars
  OBVIOUS
<1> USE DEF LedgerInv
<1>1. ASSUME Committed' = Committed, UNCHANGED anchors PROVE UNCHANGED Book!vars
  BY <1>1 DEF Entries, Book!vars
<1>2. ASSUME NEW w \in Workers, Select(w) \/ Grant(w) PROVE UNCHANGED Book!vars
  BY <1>1, <1>2 DEF Select, Grant, Committed
<1>3. ASSUME NEW w \in Workers, Insert(w) PROVE UNCHANGED Book!vars
  <2>1. PICK new : /\ new = [id |-> lastId + 1, prev |-> head[w], day |-> today, by |-> w]
                   /\ events' = events \cup {new}
    BY <1>3 DEF Insert
  <2>2. new.by # Nobody
    BY <2>1, ChainAssumption
  <2> QED
    BY <1>1, <1>3, <2>1, <2>2 DEF Insert, Committed
<1>4. ASSUME NEW w \in Workers, Commit(w) PROVE Book!Append
  <2>1. Entries \subseteq Entries'
    <3>1. Entries' = {Shown(e) : e \in events'}
      BY <1>4, CommitIsAll, EntriesAreShown DEF Committed, Entries, Shown
    <3>2. Entries' = {Shown(e) : e \in events}
      BY <1>4, <3>1, CommitIsAll
    <3> QED
      BY <3>2, EntriesAreShown DEF Committed
  <2>2. \A x \in Entries' \ Entries : Book!IsAppended(x)
    BY <1>4, CommittedIsAppended
  <2>3. UNCHANGED anchors
    BY <1>4 DEF Commit, End
  <2> QED
    BY <2>1, <2>2, <2>3 DEF Book!Append
<1>5. ASSUME NEW w \in Workers, Rollback(w) PROVE UNCHANGED Book!vars
  <2>1. Committed' = Committed
    BY <1>5, ChainAssumption DEF Rollback, Committed, Mine
  <2> QED
    BY <1>1, <1>5, <2>1 DEF Rollback, End
<1>6. CASE Midnight
  BY <1>1, <1>6 DEF Midnight, Committed
<1>7. ASSUME NEW d \in 1..MaxDay, Anchor(d) PROVE Book!Anchor(d)
  <2> DEFINE es == {x \in Entries : x.day <= d}
  <2>1. /\ \A e \in events : e.id \in Nat \ {0} /\ e.day \in Nat
        /\ \A e \in events : Shown(e).id = e.id /\ Shown(e).day = e.day
    BY DEF TypeOK, Event, Shown
  <2>2. \A x : x \in es <=> \E e \in On(d) \cup Before(d) : x = Shown(e)
    BY <2>1, EntriesAreShown DEF On, Before, Committed
  <2>3. On(d) \cup Before(d) \subseteq events
    BY DEF On, Before
  <2>4. /\ HeadOf(d) \in Nat
        /\ \A x \in es : x.id \in Nat \ {0} /\ x.id <= HeadOf(d)
        /\ HeadOf(d) = 0 \/ \E x \in es : x.id = HeadOf(d)
    BY <2>1, <2>2, <2>3, HeadIsLast DEF Serial
  <2> HIDE DEF es
  <2>5. HeadOf(d) = Book!Last(es)
    <3>1. CASE HeadOf(d) = 0
      <4>1. es = {}
        BY <2>4, <3>1
      <4> QED
        BY <3>1, <4>1, LastOfNone
    <3>2. CASE HeadOf(d) # 0
      BY <2>4, <3>2, LastIs
    <3> QED
      BY <3>1, <3>2
  <2>6. Committed' = Committed
    BY <1>7 DEF Anchor, Committed
  <2> QED
    BY <1>7, <2>5, <2>6 DEF Anchor, Book!Anchor, Entries, es
<1>8. CASE UNCHANGED vars
  BY <1>1, <1>8 DEF vars, Committed
<1> QED
  BY <1>2, <1>3, <1>4, <1>5, <1>6, <1>7, <1>8 DEF Next, Worker, Book!Next

\* One transaction at a time, for any number of events, days and rollbacks: the
\* trail is a ledger, which grows at its end, link by link, and whose anchored
\* days are closed.
THEOREM ImplementsLedger == ASSUME OneWorker PROVE Spec => LedgerSpec
<1>1. Init => OpenIsLater /\ Book!Init
  BY DEF Init, OpenIsLater, Book!Init, Entries, Committed
<1>2. Spec => [](TypeOK /\ Linked /\ Serial)
  BY SerialHolds
<1>3. OneWorker /\ TypeOK /\ Linked /\ OpenIsLater /\ [Next]_vars => OpenIsLater'
  BY OpenStep
<1>4. OneWorker /\ LedgerInv /\ [Next]_vars => [Book!Next]_(Book!vars)
  BY LedgerStep
<1> QED
  BY <1>1, <1>2, <1>3, <1>4, PTL DEF Spec, LedgerInv, LedgerSpec, Book!Spec

=============================================================================
