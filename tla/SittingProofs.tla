--------------------------- MODULE SittingProofs ---------------------------
(***************************************************************************)
(* Proofs about Sitting, for every value of its constants.                 *)
(*                                                                         *)
(* The first part holds however requests interleave, the second only when  *)
(* no two of them are in flight at the same time.                          *)
(***************************************************************************)
EXTENDS Sitting, TLAPS, FiniteSetTheorems

-----------------------------------------------------------------------------
(* Types.                                                                  *)

\* The values a sitting, its papers and a request start from have their types.
LEMMA InitialTypes ==
  NoRow \in Row /\ NoPapers \in Papers /\ Idle \in Request
<1>1. NoRow \in Row
  BY SittingAssumption DEF NoRow, Row, Config
<1>2. NoPapers \in Papers
  BY DEF NoPapers, Papers
<1>3. Idle \in Request
  BY <1>1 DEF Idle, Request
<1> QED
  BY <1>1, <1>2, <1>3

\* A snapshot of a row and its papers is one, and both kinds of event that
\* carry it, like the Chair's that carries centres, are events.
LEMMA EventTypes ==
  ASSUME NEW r \in Row, NEW ps \in Papers
  PROVE  /\ [kind |-> "auto_lock", snapshot |-> SnapshotOf(r, ps)] \in Event
         /\ [kind |-> "resolution_amend", snapshot |-> SnapshotOf(r, ps)]
              \in Event
         /\ \A c \in Centres : [kind |-> "chair_amend", centres |-> c] \in Event
<1>1. SnapshotOf(r, ps) \in Snapshot
  BY DEF SnapshotOf, Snapshot, Row
<1> QED
  BY <1>1 DEF Event

\* Recording an event keeps the log a sequence of events.
LEMMA Recording ==
  ASSUME events \in Seq(Event), NEW e \in Event, Record(e)
  PROVE  /\ events' \in Seq(Event)
         /\ Len(events') = Len(events) + 1
         /\ events'[Len(events')] = e
         /\ \A i \in 1..Len(events) : events'[i] = events[i]
BY DEF Record

\* The empty log is one.
LEMMA NoEvents == <<>> \in Seq(Event) /\ Len(<<>>) = 0
OBVIOUS

\* Every step keeps the types.
LEMMA Typing == TypeOK /\ [Next]_vars => TypeOK'
<1> SUFFICES ASSUME TypeOK, [Next]_vars PROVE TypeOK'
  OBVIOUS
<1> USE DEF TypeOK
<1>1. ASSUME NEW cfg \in Config, NEW c \in Centres, Create(cfg, c)
      PROVE  TypeOK'
  <2>1. row' \in Row
    BY <1>1, InitialTypes DEF Create, Row, Unlocked
  <2> QED
    BY <1>1, <2>1 DEF Create
<1>2. ASSUME NEW r \in Requests, Fetch(r) \/ Check(r) \/ Release(r)
      PROVE  TypeOK'
  <2>1. req' \in [Requests -> Request]
    BY <1>2, InitialTypes DEF Fetch, Check, Release, Request
  <2> QED
    BY <1>2, <2>1 DEF Fetch, Check, Release
<1>3. ASSUME NEW r \in Requests, NEW s \in Subjects, FetchPaper(r, s)
      PROVE  TypeOK'
  <2>1. req' \in [Requests -> Request]
    BY <1>3 DEF FetchPaper, Request
  <2> QED
    BY <1>3, <2>1 DEF FetchPaper
<1>4. ASSUME NEW r \in Requests, Done(r)
      PROVE  req' \in [Requests -> Request]
  BY <1>4, InitialTypes DEF Done
<1>5. ASSUME NEW r \in Requests, Configure(r) \/ Approve(r)
      PROVE  TypeOK'
  <2>1. row' \in Row
    BY <1>5 DEF Configure, Approve, Row, Unlocked
  <2> QED
    BY <1>4, <1>5, <2>1 DEF Configure, Approve
<1>6. ASSUME NEW r \in Requests, Lock(r)
      PROVE  TypeOK'
  <2>1. row' \in Row
    BY <1>6 DEF Lock, Row, Locked
  <2>2. req[r].copy \in Row
    BY DEF Request
  <2>3. events' \in Seq(Event)
    <3>1. Record([kind |-> "auto_lock",
                  snapshot |-> SnapshotOf(req[r].copy, papers)])
      BY <1>6 DEF Lock
    <3> QED
      BY <2>2, <3>1, EventTypes, Recording
  <2> QED
    BY <1>4, <1>6, <2>1, <2>3 DEF Lock
<1>7. ASSUME NEW r \in Requests, Activate(r) \/ Close(r)
      PROVE  TypeOK'
  <2>1. row' \in Row
    BY <1>7 DEF Activate, Close, Advance, Row, Locked
  <2> QED
    BY <1>4, <1>7, <2>1 DEF Activate, Close, Advance
<1>8. ASSUME NEW r \in Requests, RemovePaper(r)
      PROVE  TypeOK'
  <2>1. row' \in Row
    BY <1>8 DEF RemovePaper, DropToDraft, Row, Unlocked
  <2>2. papers' \in Papers
    BY <1>8 DEF RemovePaper, Papers
  <2>3. req' \in [Requests -> Request]
    BY <1>8, InitialTypes DEF RemovePaper, Request
  <2> QED
    BY <1>8, <2>1, <2>2, <2>3 DEF RemovePaper
<1>9. ASSUME NEW r \in Requests, Delete(r)
      PROVE  TypeOK'
  <2>1. req' \in [Requests -> Request]
    BY <1>9, InitialTypes DEF Delete, Request
  <2> QED
    BY <1>9, <2>1, InitialTypes, NoEvents DEF Delete
<1>10. ASSUME NEW r \in Requests, NEW s \in Subjects, NEW p \in Paper,
              UpsertPaper(r, s, p)
       PROVE  TypeOK'
  <2>1. row' \in Row
    BY <1>10 DEF UpsertPaper, DropToDraft, Row, Unlocked
  <2>2. papers' \in Papers
    BY <1>10 DEF UpsertPaper, Papers
  <2> QED
    BY <1>4, <1>10, <2>1, <2>2 DEF UpsertPaper
<1>11. ASSUME NEW r \in Requests, NEW c \in Centres, AmendNonCritical(r, c)
       PROVE  TypeOK'
  <2>1. req[r].copy \in Row
    BY DEF Request
  <2>2. row' \in Row
    BY <1>11, <2>1 DEF AmendNonCritical, Row
  <2>3. events' \in Seq(Event)
    <3>1. Record([kind |-> "chair_amend", centres |-> c])
      BY <1>11 DEF AmendNonCritical
    <3> QED
      BY <2>1, <3>1, EventTypes, Recording
  <2> QED
    BY <1>4, <1>11, <2>2, <2>3 DEF AmendNonCritical
<1>12. ASSUME NEW r \in Requests, NEW cfg \in Config, NEW c \in Centres,
              UpdateDraft(r, cfg, c)
       PROVE  TypeOK'
  <2>1. req[r].copy \in Row
    BY DEF Request
  <2>2. row' \in Row
    BY <1>12, <2>1 DEF UpdateDraft, Row, Unlocked
  <2> QED
    BY <1>4, <1>12, <2>2 DEF UpdateDraft
<1>13. ASSUME NEW r \in Requests, NEW cfg \in Config, NEW c \in Centres,
              AmendCritical(r, cfg, c)
       PROVE  TypeOK'
  <2>1. req[r].copy \in Row
    BY DEF Request
  <2>2. row' \in Row
    BY <1>13, <2>1 DEF AmendCritical, Row
  <2>3. events' \in Seq(Event)
    <3>1. Record([kind |-> "resolution_amend",
                  snapshot |-> SnapshotOf(row', papers)])
      BY <1>13 DEF AmendCritical
    <3> QED
      BY <2>2, <3>1, EventTypes, Recording
  <2> QED
    BY <1>4, <1>13, <2>2, <2>3 DEF AmendCritical
<1>14. CASE UNCHANGED vars
  BY <1>14 DEF vars
<1> QED
  BY <1>1, <1>2, <1>3, <1>5, <1>6, <1>7, <1>8, <1>9, <1>10, <1>11, <1>12,
     <1>13, <1>14 DEF Next, Step

\* Every variable keeps its type, whatever the constants.
THEOREM TypeCorrect == Spec => []TypeOK
<1>1. Init => TypeOK
  BY InitialTypes, NoEvents DEF Init, TypeOK
<1> QED
  BY <1>1, Typing, PTL DEF Spec

-----------------------------------------------------------------------------
(* However requests interleave: the capacity.                              *)

\* Storing a paper adds at most its own subject to the present ones.
LEMMA StoringOne ==
  ASSUME papers \in Papers, NEW s \in Subjects, NEW p
  PROVE  LET ps == [papers EXCEPT ![s] = p] IN
         /\ IsFiniteSet(Present(ps))
         /\ papers[s] # NoPaper =>
              Cardinality(Present(ps)) <= Cardinality(Present(papers))
         /\ Cardinality(Present(ps)) <= Cardinality(Present(papers)) + 1
<1> DEFINE ps == [papers EXCEPT ![s] = p]
<1>1. IsFiniteSet(Present(papers)) /\ IsFiniteSet(Present(ps))
  <2>1. Present(papers) \subseteq Subjects /\ Present(ps) \subseteq Subjects
    BY DEF Present
  <2> QED
    BY <2>1, SittingAssumption, FS_Subset
<1>2. Present(ps) \subseteq Present(papers) \cup {s}
  BY DEF Present, Papers
<1>3. papers[s] # NoPaper => s \in Present(papers)
  BY DEF Present
<1>4. /\ IsFiniteSet(Present(papers) \cup {s})
      /\ Cardinality(Present(papers) \cup {s}) =
           IF s \in Present(papers) THEN Cardinality(Present(papers))
           ELSE Cardinality(Present(papers)) + 1
  BY <1>1, FS_AddElement
<1>5. Cardinality(Present(ps)) <= Cardinality(Present(papers) \cup {s})
  BY <1>2, <1>4, FS_Subset
<1>6. Cardinality(Present(papers)) \in Nat /\ Cardinality(Present(ps)) \in Nat
  BY <1>1, FS_CardinalityType
<1> HIDE DEF ps
<1>7. /\ IsFiniteSet(Present(ps))
      /\ papers[s] # NoPaper =>
           Cardinality(Present(ps)) <= Cardinality(Present(papers))
      /\ Cardinality(Present(ps)) <= Cardinality(Present(papers)) + 1
  BY <1>1, <1>3, <1>4, <1>5, <1>6
<1> QED
  BY <1>7 DEF ps

\* The capacity is kept by every step: a paper is stored for a new subject
\* only when it is counted in, and every other step stores none.
LEMMA CapacityStep ==
  TypeOK /\ PaperCapacity /\ [Next]_vars => PaperCapacity'
<1> SUFFICES ASSUME TypeOK, PaperCapacity, [Next]_vars PROVE PaperCapacity'
  OBVIOUS
<1> DEFINE Shrinks == Present(papers') \subseteq Present(papers)
<1>1. ASSUME Shrinks PROVE PaperCapacity'
  <2>1. IsFiniteSet(Present(papers))
    BY SittingAssumption, FS_Subset DEF Present
  <2>2. /\ IsFiniteSet(Present(papers'))
        /\ Cardinality(Present(papers')) <= Cardinality(Present(papers))
    BY <1>1, <2>1, FS_Subset
  <2>3. /\ Cardinality(Present(papers)) \in Nat
        /\ Cardinality(Present(papers')) \in Nat
    BY <2>1, <2>2, FS_CardinalityType
  <2> QED
    BY <2>2, <2>3, SittingAssumption DEF PaperCapacity
<1>2. ASSUME NEW r \in Requests, NEW s \in Subjects, NEW p \in Paper,
             UpsertPaper(r, s, p)
      PROVE  PaperCapacity'
  <2>1. papers \in Papers
    BY DEF TypeOK
  <2>2. /\ papers' = [papers EXCEPT ![s] = p]
        /\ papers[s] = NoPaper => Cardinality(Present(papers)) < Required
    BY <1>2 DEF UpsertPaper, HasRoom
  <2>3. /\ IsFiniteSet(Present(papers'))
        /\ papers[s] # NoPaper =>
             Cardinality(Present(papers')) <= Cardinality(Present(papers))
        /\ Cardinality(Present(papers')) <= Cardinality(Present(papers)) + 1
    BY <2>1, <2>2, StoringOne
  <2>4. /\ Cardinality(Present(papers)) \in Nat
        /\ Cardinality(Present(papers')) \in Nat
    BY <2>3, SittingAssumption, FS_Subset, FS_CardinalityType DEF Present
  <2> QED
    BY <2>2, <2>3, <2>4, SittingAssumption DEF PaperCapacity
<1>3. ASSUME NEW r \in Requests, RemovePaper(r) PROVE Shrinks
  BY <1>3 DEF RemovePaper, Present, TypeOK, Papers
<1>4. ASSUME NEW r \in Requests, Delete(r) PROVE Shrinks
  BY <1>4 DEF Delete, Present, NoPapers
<1>5. ASSUME papers' = papers PROVE Shrinks
  BY <1>5
<1>6. CASE UNCHANGED vars
  BY <1>1, <1>5, <1>6 DEF vars
<1>7. CASE \E cfg \in Config, c \in Centres : Create(cfg, c)
  BY <1>1, <1>5, <1>7 DEF Create
<1>8. ASSUME NEW r \in Requests, Step(r) PROVE PaperCapacity'
  <2> HIDE DEF Shrinks
  <2>1. CASE \/ Fetch(r) \/ Check(r) \/ Release(r)
             \/ Configure(r) \/ Approve(r) \/ Lock(r)
             \/ Activate(r) \/ Close(r)
    BY <1>1, <1>5, <2>1 DEF Fetch, Check, Release, Configure, Approve, Lock,
                            Activate, Close, Advance
  <2>2. CASE \E s \in Subjects : FetchPaper(r, s)
    BY <1>1, <1>5, <2>2 DEF FetchPaper
  <2>3. CASE \E c \in Centres : AmendNonCritical(r, c)
    BY <1>1, <1>5, <2>3 DEF AmendNonCritical
  <2>4. CASE \E cfg \in Config, c \in Centres :
               UpdateDraft(r, cfg, c) \/ AmendCritical(r, cfg, c)
    BY <1>1, <1>5, <2>4 DEF UpdateDraft, AmendCritical
  <2> QED
    BY <1>1, <1>2, <1>3, <1>4, <1>8, <2>1, <2>2, <2>3, <2>4 DEF Step
<1> QED
  BY <1>6, <1>7, <1>8 DEF Next

\* However many requests interleave, add_or_update_paper never stores more
\* papers than REQUIRED_SUBJECT_PAPER_COUNT.
THEOREM CapacityHolds == Spec => []PaperCapacity
<1>1. Init => PaperCapacity
  <2>1. Present(NoPapers) = {}
    BY DEF Present, NoPapers
  <2>2. Cardinality(Present(NoPapers)) = 0
    BY <2>1, FS_EmptySet
  <2> QED
    BY <2>2, SittingAssumption DEF Init, PaperCapacity
<1> QED
  BY <1>1, CapacityStep, TypeCorrect, PTL DEF Spec

-----------------------------------------------------------------------------
(* However requests interleave: what a lock records.                       *)

\* What a request found ready is valid as far as its own copy goes: the copy
\* does not change while the request goes on, unlike the row.
CheckedIsValid ==
  \A r \in Requests : Holds(r, "checked") =>
    LET cfg == req[r].copy.cfg IN cfg.flaws = {} /\ InBand(cfg.mark, cfg)

\* Every step of a request keeps what the checked requests rely on.
LEMMA CheckedStep ==
  TypeOK /\ CheckedIsValid /\ [Next]_vars => CheckedIsValid'
<1> SUFFICES ASSUME TypeOK, CheckedIsValid, [Next]_vars,
                    NEW r \in Requests, Holds(r, "checked")'
             PROVE  LET cfg == req'[r].copy.cfg IN
                    cfg.flaws = {} /\ InBand(cfg.mark, cfg)
  BY DEF CheckedIsValid, Holds
<1>1. req'[r].stage = "checked"
  BY DEF Holds
<1> DEFINE Old == req[r].stage = "checked" /\ req'[r].copy = req[r].copy
<1>2. ASSUME Old PROVE LET cfg == req'[r].copy.cfg IN
                       cfg.flaws = {} /\ InBand(cfg.mark, cfg)
  BY <1>2 DEF CheckedIsValid, Holds
<1>3. ASSUME NEW q \in Requests, Done(q) PROVE Old
  BY <1>1, <1>3 DEF Done, Idle, TypeOK, Request
<1>4. ASSUME NEW q \in Requests, Step(q)
      PROVE  \/ Old
             \/ q = r /\ Check(r)
  <2>1. CASE Check(q)
    BY <1>1, <2>1 DEF Check, TypeOK, Request
  <2>2. CASE Fetch(q) \/ \E s \in Subjects : FetchPaper(q, s)
    BY <1>1, <2>2 DEF Fetch, FetchPaper, TypeOK, Request
  <2>3. CASE Release(q)
    BY <1>3, <2>3 DEF Release, Done
  <2>4. CASE \/ Configure(q) \/ Approve(q) \/ Lock(q)
             \/ Activate(q) \/ Close(q)
    BY <1>3, <2>4 DEF Configure, Approve, Lock, Activate, Close, Advance
  <2>5. CASE RemovePaper(q)
    BY <1>1, <2>5 DEF RemovePaper, Idle, TypeOK, Request
  <2>6. CASE Delete(q)
    BY <1>1, <2>6 DEF Delete, Idle, TypeOK, Request
  <2>7. CASE \E s \in Subjects, p \in Paper : UpsertPaper(q, s, p)
    BY <1>3, <2>7 DEF UpsertPaper
  <2>8. CASE \E c \in Centres : AmendNonCritical(q, c)
    BY <1>3, <2>8 DEF AmendNonCritical
  <2>9. CASE \E cfg \in Config, c \in Centres :
               UpdateDraft(q, cfg, c) \/ AmendCritical(q, cfg, c)
    BY <1>3, <2>9 DEF UpdateDraft, AmendCritical
  <2> QED
    BY <1>4, <2>1, <2>2, <2>3, <2>4, <2>5, <2>6, <2>7, <2>8, <2>9 DEF Step
<1>5. CASE Check(r)
  <2>1. req'[r].copy = req[r].copy
    BY <1>5 DEF Check, TypeOK, Request
  <2> QED
    BY <1>5, <2>1 DEF Check, Ready
<1>6. CASE UNCHANGED req
  BY <1>1, <1>2, <1>6
<1> QED
  BY <1>2, <1>4, <1>5, <1>6 DEF Next, Create, vars

\* A step that records a lock records the copy a request has checked.
LEMMA LockedStep ==
  TypeOK /\ CheckedIsValid /\ LocksWereApproved /\ [Next]_vars
    => LocksWereApproved'
<1> SUFFICES ASSUME TypeOK, CheckedIsValid, LocksWereApproved, [Next]_vars
             PROVE  LocksWereApproved'
  OBVIOUS
<1> DEFINE Valid(e) ==
      e.kind = "auto_lock" =>
        LET s == e.snapshot IN
        s.approved /\ s.cfg.flaws = {} /\ InBand(s.cfg.mark, s.cfg)
<1>1. ASSUME NEW e \in Event, Record(e), Valid(e) PROVE LocksWereApproved'
  <2>1. /\ Len(events') = Len(events) + 1 /\ Len(events) \in Nat
        /\ events'[Len(events')] = e
        /\ \A i \in 1..Len(events) : events'[i] = events[i]
    BY <1>1, Recording DEF TypeOK
  <2>2. \A i \in 1..Len(events) : Valid(events[i])
    BY DEF LocksWereApproved
  <2> HIDE DEF Valid
  <2>3. \A i \in 1..Len(events') : Valid(events'[i])
    BY <1>1, <2>1, <2>2
  <2> QED
    BY <2>3 DEF Valid, LocksWereApproved
<1>2. ASSUME UNCHANGED events PROVE LocksWereApproved'
  BY <1>2 DEF LocksWereApproved
<1>3. ASSUME NEW r \in Requests, Lock(r) PROVE LocksWereApproved'
  <2> DEFINE e == [kind |-> "auto_lock",
                   snapshot |-> SnapshotOf(req[r].copy, papers)]
  <2>1. req[r].copy \in Row /\ papers \in Papers
    BY DEF TypeOK, Request
  <2>2. e \in Event
    BY <2>1, EventTypes
  <2>3. Record(e)
    BY <1>3 DEF Lock
  <2>4. Valid(e)
    BY <1>3 DEF Lock, CheckedIsValid, SnapshotOf
  <2> QED
    BY <1>1, <2>2, <2>3, <2>4
<1>4. ASSUME NEW r \in Requests, NEW c \in Centres, AmendNonCritical(r, c)
      PROVE  LocksWereApproved'
  <2> DEFINE e == [kind |-> "chair_amend", centres |-> c]
  <2>1. Record(e) /\ e.kind # "auto_lock"
    BY <1>4 DEF AmendNonCritical
  <2>2. e \in Event
    BY InitialTypes, EventTypes
  <2> QED
    BY <1>1, <2>1, <2>2
<1>5. ASSUME NEW r \in Requests, NEW cfg \in Config, NEW c \in Centres,
             AmendCritical(r, cfg, c)
      PROVE  LocksWereApproved'
  <2> DEFINE new == [req[r].copy EXCEPT !.cfg = cfg, !.centres = c]
             e   == [kind |-> "resolution_amend",
                     snapshot |-> SnapshotOf(new, papers)]
  <2>1. Record(e) /\ e.kind # "auto_lock"
    BY <1>5 DEF AmendCritical
  <2>2. e \in Event
    <3>1. new \in Row /\ papers \in Papers
      BY DEF TypeOK, Request, Row
    <3> QED
      BY <3>1, EventTypes
  <2> QED
    BY <1>1, <2>1, <2>2
<1>6. ASSUME NEW r \in Requests, Delete(r) PROVE LocksWereApproved'
  BY <1>6 DEF Delete, LocksWereApproved
<1>7. ASSUME NEW r \in Requests, Step(r) PROVE LocksWereApproved'
  <2>1. CASE \/ Fetch(r) \/ Check(r) \/ Release(r) \/ Configure(r)
             \/ Approve(r) \/ Activate(r) \/ Close(r) \/ RemovePaper(r)
    BY <1>2, <2>1 DEF Fetch, Check, Release, Configure, Approve, Activate,
                      Close, Advance, RemovePaper
  <2>2. CASE \E s \in Subjects : FetchPaper(r, s)
    BY <1>2, <2>2 DEF FetchPaper
  <2>3. CASE \E s \in Subjects, p \in Paper : UpsertPaper(r, s, p)
    BY <1>2, <2>3 DEF UpsertPaper
  <2>4. CASE \E cfg \in Config, c \in Centres : UpdateDraft(r, cfg, c)
    BY <1>2, <2>4 DEF UpdateDraft
  <2> QED
    BY <1>3, <1>4, <1>5, <1>6, <1>7, <2>1, <2>2, <2>3, <2>4 DEF Step
<1> QED
  BY <1>2, <1>7 DEF Next, Create, vars

\* However requests interleave, every auto_lock event carries a configuration
\* that was approved and valid in the copy lock_sitting decided on.
THEOREM LocksHold == Spec => []LocksWereApproved
<1>1. Init => CheckedIsValid /\ LocksWereApproved
  BY DEF Init, Idle, Holds, CheckedIsValid, LocksWereApproved
<1> QED
  BY <1>1, CheckedStep, LockedStep, TypeCorrect, PTL DEF Spec

-----------------------------------------------------------------------------
(* One request at a time.                                                  *)

OneAtATime == \A r, q \in Requests : r = q

\* The object a request holds is the row as it is.
CopyIsFresh ==
  \A r \in Requests : ~Holds(r, "idle") => Exists /\ req[r].copy = row

\* What a request found ready is ready still.
CheckIsFresh ==
  \A r \in Requests : Holds(r, "checked") =>
    Ready(row.cfg, papers) /\ row.status \in Unlocked

\* Nothing is recorded of a sitting before its lock, and what does not exist
\* left no trace.
UnlockedIsBlank ==
  /\ row.status \notin Locked => events = <<>>
  /\ ~Exists => row = NoRow /\ papers = NoPapers

\* The newest snapshot has the critical fields and the papers as they are.
NewestIsCurrent ==
  row.status \in Locked =>
    \E n \in Nat : /\ IsNewest(n)
                   /\ events[n].snapshot.cfg = row.cfg
                   /\ events[n].snapshot.papers = papers

\* The inductive invariant: the properties of the serial runs, and what the
\* copies and the log have to say for them to be kept.
SerialInv ==
  /\ TypeOK
  /\ CopyIsFresh /\ CheckIsFresh
  /\ UnlockedIsBlank /\ NewestIsCurrent
  /\ ConfiguredIsReady /\ LockedOnce

\* A request that ends leaves no copy behind.
LEMMA NobodyElse ==
  ASSUME OneAtATime, TypeOK, NEW r \in Requests, req'[r] = Idle
  PROVE  CopyIsFresh' /\ CheckIsFresh'
<1>1. \A q \in Requests : req'[q].stage = "idle"
  BY DEF OneAtATime, Idle
<1> QED
  BY <1>1 DEF CopyIsFresh, CheckIsFresh, Holds

\* A recorded snapshot is the newest one.
LEMMA BearingIsNewest ==
  ASSUME events \in Seq(Event), NEW e \in Event, Record(e), Bearing(e)
  PROVE  \E n \in Nat : IsNewest(n)' /\ events'[n] = e
<1> DEFINE n == Len(events')
<1>1. /\ n = Len(events) + 1 /\ Len(events) \in Nat
      /\ events'[n] = e
  BY Recording
<1>2. n \in BearingEvents' /\ \A j \in BearingEvents' : j <= n
  BY <1>1 DEF BearingEvents, Bearing
<1>3. PICK m : m = n
  OBVIOUS
<1>4. IsNewest(m)'
  BY <1>2, <1>3 DEF IsNewest
<1> QED
  BY <1>1, <1>3, <1>4

\* An event without a snapshot leaves the newest snapshot what it was.
LEMMA OtherKeepsNewest ==
  ASSUME events \in Seq(Event), NEW e \in Event, Record(e), ~Bearing(e),
         NEW n, IsNewest(n)
  PROVE  IsNewest(n)' /\ events'[n] = events[n]
<1>1. /\ Len(events') = Len(events) + 1 /\ Len(events) \in Nat
      /\ events'[Len(events')] = e
      /\ \A i \in 1..Len(events) : events'[i] = events[i]
  BY Recording
<1>2. BearingEvents' = BearingEvents
  BY <1>1 DEF BearingEvents, Bearing
<1> QED
  BY <1>1, <1>2 DEF IsNewest, BearingEvents

\* There is one newest snapshot, and it is what get_sitting_snapshot returns.
NewestIsRead ==
  \A n : IsNewest(n) /\ row.status \in Locked =>
           GetSnapshot = events[n].snapshot

LEMMA ReadsNewest == NewestIsRead
<1> SUFFICES ASSUME NEW n, IsNewest(n), row.status \in Locked
             PROVE  GetSnapshot = events[n].snapshot
  BY DEF NewestIsRead
<1>1. \A m : IsNewest(m) => m = n
  BY DEF IsNewest, BearingEvents
<1>2. (CHOOSE i \in BearingEvents : IsNewest(i)) = n
  BY <1>1 DEF IsNewest
<1> QED
  BY <1>2 DEF GetSnapshot, IsNewest

\* A step of a request that keeps the row, the papers and the log.
LEMMA RowUntouched ==
  ASSUME SerialInv, UNCHANGED <<row, papers, events>>
  PROVE  /\ UnlockedIsBlank' /\ NewestIsCurrent'
         /\ ConfiguredIsReady' /\ LockedOnce'
<1>1. UnlockedIsBlank' /\ ConfiguredIsReady' /\ LockedOnce'
  BY DEF SerialInv, UnlockedIsBlank, Exists, ConfiguredIsReady, LockedOnce
<1>2. \A n : IsNewest(n)' <=> IsNewest(n)
  BY DEF IsNewest, BearingEvents
<1>3. NewestIsCurrent'
  BY <1>2 DEF SerialInv, NewestIsCurrent
<1> QED
  BY <1>1, <1>3

\* A step that leaves a sitting unlocked: it has to be ready if configured.
LEMMA StaysUnlocked ==
  ASSUME row'.status \in Unlocked, events' = <<>>,
         row'.status = "draft" \/ Ready(row'.cfg, papers')
  PROVE  /\ UnlockedIsBlank' /\ NewestIsCurrent'
         /\ ConfiguredIsReady' /\ LockedOnce'
BY DEF UnlockedIsBlank, NewestIsCurrent, ConfiguredIsReady, LockedOnce,
       Unlocked, Locked, Exists

\* A step from locked to locked that keeps the log and the critical fields.
LEMMA StaysLockedUnrecorded ==
  ASSUME SerialInv, row.status \in Locked, row'.status \in Locked,
         row'.cfg = row.cfg, row'.approved = row.approved,
         row'.lockedAt = row.lockedAt, UNCHANGED <<papers, events>>
  PROVE  /\ UnlockedIsBlank' /\ NewestIsCurrent'
         /\ ConfiguredIsReady' /\ LockedOnce'
<1>1. \A n : IsNewest(n)' <=> IsNewest(n)
  BY DEF IsNewest, BearingEvents
<1>2. NewestIsCurrent'
  BY <1>1 DEF SerialInv, NewestIsCurrent
<1> QED
  BY <1>2 DEF SerialInv, LockedOnce, UnlockedIsBlank, ConfiguredIsReady,
              Locked, Exists

\* An amendment: one more event, which is not a lock, and if it carries no
\* snapshot the critical fields stay.
LEMMA StaysLockedRecorded ==
  ASSUME SerialInv, row.status \in Locked, row'.status = row.status,
         row'.approved = row.approved, row'.lockedAt = row.lockedAt,
         papers' = papers, NEW e \in Event, Record(e), e.kind # "auto_lock",
         \/ Bearing(e) /\ e.snapshot.cfg = row'.cfg
                       /\ e.snapshot.papers = papers
         \/ ~Bearing(e) /\ row'.cfg = row.cfg
  PROVE  /\ UnlockedIsBlank' /\ NewestIsCurrent'
         /\ ConfiguredIsReady' /\ LockedOnce'
<1>1. events \in Seq(Event)
  BY DEF SerialInv, TypeOK
<1>2. LockedOnce'
  <2>1. /\ Len(events') = Len(events) + 1 /\ Len(events) \in Nat
        /\ events'[Len(events')] = e
        /\ \A i \in 1..Len(events) : events'[i] = events[i]
    BY <1>1, Recording
  <2> QED
    BY <2>1 DEF SerialInv, LockedOnce
<1>3. NewestIsCurrent'
  <2>1. CASE Bearing(e)
    <3>1. PICK n \in Nat : IsNewest(n)' /\ events'[n] = e
      BY <1>1, <2>1, BearingIsNewest
    <3> QED
      BY <2>1, <3>1 DEF NewestIsCurrent
  <2>2. CASE ~Bearing(e)
    <3>1. PICK n \in Nat : /\ IsNewest(n)
                           /\ events[n].snapshot.cfg = row.cfg
                           /\ events[n].snapshot.papers = papers
      BY DEF SerialInv, NewestIsCurrent
    <3>2. IsNewest(n)' /\ events'[n] = events[n]
      BY <1>1, <2>2, <3>1, OtherKeepsNewest
    <3> QED
      BY <2>2, <3>1, <3>2 DEF NewestIsCurrent
  <2> QED
    BY <2>1, <2>2
<1> QED
  BY <1>2, <1>3 DEF UnlockedIsBlank, ConfiguredIsReady, Locked, Exists

\* Every step of a request keeps the invariant, if no other is in flight.
LEMMA SerialStep ==
  ASSUME OneAtATime
  PROVE  SerialInv /\ [Next]_vars => SerialInv'
<1> SUFFICES ASSUME SerialInv, [Next]_vars PROVE SerialInv'
  OBVIOUS
<1> DEFINE RowInv == /\ UnlockedIsBlank /\ NewestIsCurrent
                     /\ ConfiguredIsReady /\ LockedOnce
<1>t. TypeOK /\ TypeOK'
  BY Typing DEF SerialInv
<1>1. CASE UNCHANGED vars
  <2>1. CopyIsFresh' /\ CheckIsFresh'
    BY <1>1 DEF vars, SerialInv, CopyIsFresh, CheckIsFresh, Holds, Exists
  <2> QED
    BY <1>1, <1>t, <2>1, RowUntouched DEF vars, SerialInv
<1>2. ASSUME NEW cfg \in Config, NEW c \in Centres, Create(cfg, c)
      PROVE  SerialInv'
  <2>1. row'.status = "draft" /\ events' = <<>>
    BY <1>2 DEF Create, SerialInv, UnlockedIsBlank, Exists, Locked, NoRow
  <2>2. RowInv'
    BY <2>1, StaysUnlocked DEF Unlocked
  <2>3. \A r \in Requests : req'[r].stage = "idle"
    BY <1>2 DEF Create, SerialInv, CopyIsFresh, Exists, Holds
  <2> QED
    BY <1>t, <2>2, <2>3 DEF SerialInv, CopyIsFresh, CheckIsFresh, Holds
<1>3. ASSUME NEW r \in Requests, Step(r)
      PROVE  SerialInv'
  <2>0. \A q \in Requests : q = r
    BY DEF OneAtATime
  <2>1. ASSUME UNCHANGED <<row, papers, events>>, CopyIsFresh', CheckIsFresh'
        PROVE  SerialInv'
    BY <1>t, <2>1, RowUntouched DEF SerialInv
  <2>2. ASSUME req'[r] = Idle, RowInv' PROVE SerialInv'
    BY <1>t, <2>2, NobodyElse DEF SerialInv
  <2>3. ASSUME Done(r) PROVE req'[r] = Idle
    BY <1>t, <2>3 DEF Done, TypeOK
  <2>4. ASSUME ~Holds(r, "idle") PROVE req[r].copy = row /\ Exists
    BY <2>4 DEF SerialInv, CopyIsFresh
  <2>5. ASSUME row.status \in Unlocked PROVE events = <<>>
    BY <2>5 DEF SerialInv, UnlockedIsBlank, Unlocked, Locked
  <2>6. ASSUME ~Holds(r, "idle"), row.status \in Unlocked, Exists',
               row'.status = "draft", events' = <<>>, req'[r] = Idle
        PROVE  SerialInv'
    BY <2>2, <2>6, StaysUnlocked DEF Unlocked
  <2>7. CASE Fetch(r) \/ \E s \in Subjects : FetchPaper(r, s)
    <3>1. Exists
      BY <2>7 DEF Fetch, FetchPaper, SerialInv, UnlockedIsBlank, NoPapers
    <3>2. req'[r].copy = row /\ req'[r].stage # "checked"
      BY <1>t, <2>7 DEF Fetch, FetchPaper, TypeOK, Request
    <3>3. UNCHANGED <<row, papers, events>>
      BY <2>7 DEF Fetch, FetchPaper
    <3>4. CopyIsFresh' /\ CheckIsFresh'
      BY <2>0, <3>1, <3>2, <3>3 DEF CopyIsFresh, CheckIsFresh, Exists, Holds
    <3> QED
      BY <2>1, <3>3, <3>4
  <2>8. CASE Check(r)
    <3>1. req[r].copy = row /\ Exists
      BY <2>4, <2>8 DEF Check, Holds
    <3>2. req'[r].copy = row /\ UNCHANGED <<row, papers, events>>
      BY <1>t, <2>8, <3>1 DEF Check, TypeOK, Request
    <3>3. CopyIsFresh' /\ CheckIsFresh'
      BY <2>0, <2>8, <3>1, <3>2
         DEF Check, CopyIsFresh, CheckIsFresh, Exists, Holds
    <3> QED
      BY <2>1, <3>2, <3>3
  <2>9. CASE Release(r)
    BY <1>t, <2>2, <2>9, RowUntouched DEF Release, TypeOK
  <2>10. CASE Configure(r)
    <3>1. Ready(row.cfg, papers) /\ row.status \in Unlocked
      BY <2>10 DEF Configure, SerialInv, CheckIsFresh
    <3>2. /\ row'.status \in Unlocked /\ row'.cfg = row.cfg
          /\ papers' = papers /\ events' = <<>>
      BY <1>t, <2>5, <2>10, <3>1 DEF Configure, TypeOK, Row, Unlocked
    <3>3. RowInv'
      BY <3>1, <3>2, StaysUnlocked
    <3> QED
      BY <2>2, <2>3, <2>10, <3>3 DEF Configure
  <2>11. CASE Approve(r)
    <3>1. row.status = "configured"
      BY <2>4, <2>11 DEF Approve, Holds
    <3>2. /\ row'.status = "configured" /\ row'.cfg = row.cfg
          /\ papers' = papers /\ events' = <<>>
      BY <1>t, <2>5, <2>11, <3>1 DEF Approve, TypeOK, Row, Unlocked
    <3>3. RowInv'
      BY <3>1, <3>2, StaysUnlocked
         DEF SerialInv, ConfiguredIsReady, Unlocked
    <3> QED
      BY <2>2, <2>3, <2>11, <3>3 DEF Approve
  <2>12. CASE Lock(r)
    <3> DEFINE e == [kind |-> "auto_lock",
                     snapshot |-> SnapshotOf(req[r].copy, papers)]
    <3>1. /\ req[r].copy = row /\ row.status = "configured" /\ row.approved
          /\ events = <<>>
      BY <2>4, <2>5, <2>12 DEF Lock, Holds, Unlocked
    <3>2. /\ row'.status = "locked" /\ row'.cfg = row.cfg
          /\ row'.approved /\ row'.lockedAt /\ papers' = papers
      BY <1>t, <2>12, <3>1 DEF Lock, TypeOK, Row
    <3>3. /\ e \in Event /\ Record(e) /\ Bearing(e)
          /\ e.snapshot.cfg = row.cfg /\ e.snapshot.papers = papers
      BY <1>t, <2>12, <3>1, EventTypes DEF Lock, TypeOK, Bearing, SnapshotOf
    <3>4. events' = Append(events, e)
      BY <3>3 DEF Record
    <3>5. NewestIsCurrent'
      <4>1. PICK n \in Nat : IsNewest(n)' /\ events'[n] = e
        BY <1>t, <3>3, BearingIsNewest DEF TypeOK
      <4> QED
        BY <3>2, <3>3, <4>1 DEF NewestIsCurrent
    <3>6. LockedOnce'
      BY <3>1, <3>2, <3>4 DEF LockedOnce
    <3>7. UnlockedIsBlank' /\ ConfiguredIsReady'
      BY <3>2 DEF UnlockedIsBlank, ConfiguredIsReady, Locked, Exists
    <3> QED
      BY <2>2, <2>3, <2>12, <3>5, <3>6, <3>7 DEF Lock
  <2>13. CASE Activate(r) \/ Close(r)
    <3>1. /\ row.status \in Locked /\ row'.status \in Locked
          /\ row'.cfg = row.cfg /\ row'.approved = row.approved
          /\ row'.lockedAt = row.lockedAt /\ UNCHANGED <<papers, events>>
      BY <1>t, <2>4, <2>13
         DEF Activate, Close, Advance, Holds, TypeOK, Row, Locked
    <3> QED
      BY <2>2, <2>3, <2>13, <3>1, StaysLockedUnrecorded
         DEF Activate, Close, Advance
  <2>14. CASE RemovePaper(r)
    <3>1. req[r].copy = row /\ Exists /\ row.status \in Unlocked
      BY <2>4, <2>14 DEF RemovePaper, Holds
    <3>2. row'.status = "draft" /\ events' = <<>>
      BY <1>t, <2>5, <2>14, <3>1
         DEF RemovePaper, DropToDraft, Unlocked, TypeOK, Row
    <3>3. req'[r] = Idle
      BY <2>14 DEF RemovePaper
    <3> QED
      BY <2>6, <2>14, <3>1, <3>2, <3>3 DEF RemovePaper, Holds, Exists
  <2>15. CASE Delete(r)
    <3>1. /\ row' = NoRow /\ papers' = NoPapers /\ events' = <<>>
          /\ req'[r] = Idle
      BY <2>15 DEF Delete
    <3> QED
      BY <2>2, <3>1 DEF NoRow, UnlockedIsBlank, NewestIsCurrent,
                        ConfiguredIsReady, LockedOnce, Locked
  <2>16. ASSUME NEW s \in Subjects, NEW p \in Paper, UpsertPaper(r, s, p)
         PROVE  SerialInv'
    <3>1. req[r].copy = row /\ Exists /\ row.status \in Unlocked
      BY <2>4, <2>16 DEF UpsertPaper, Holds
    <3>2. row'.status = "draft" /\ events' = <<>>
      BY <1>t, <2>5, <2>16, <3>1
         DEF UpsertPaper, DropToDraft, Unlocked, TypeOK, Row
    <3> QED
      BY <2>3, <2>6, <2>16, <3>1, <3>2 DEF UpsertPaper, Holds, Exists
  <2>17. ASSUME NEW cfg \in Config, NEW c \in Centres, UpdateDraft(r, cfg, c)
         PROVE  SerialInv'
    <3>1. req[r].copy = row /\ Exists /\ row.status \in Unlocked
      BY <2>4, <2>17 DEF UpdateDraft, Holds
    <3>2. row'.status = "draft" /\ events' = <<>>
      BY <1>t, <2>5, <2>17, <3>1 DEF UpdateDraft, TypeOK, Row
    <3> QED
      BY <2>3, <2>6, <2>17, <3>1, <3>2 DEF UpdateDraft, Holds, Exists
  <2>18. ASSUME NEW c \in Centres, AmendNonCritical(r, c)
         PROVE  SerialInv'
    <3> DEFINE e == [kind |-> "chair_amend", centres |-> c]
    <3>1. req[r].copy = row /\ row.status \in Locked
      BY <2>4, <2>18 DEF AmendNonCritical, Holds
    <3>2. /\ row'.status = row.status /\ row'.approved = row.approved
          /\ row'.lockedAt = row.lockedAt /\ row'.cfg = row.cfg
          /\ papers' = papers
      BY <1>t, <2>18, <3>1 DEF AmendNonCritical, TypeOK, Row
    <3>3. Record(e)
      BY <2>18 DEF AmendNonCritical
    <3>4. e \in Event /\ e.kind # "auto_lock" /\ ~Bearing(e)
      BY InitialTypes, EventTypes DEF Bearing
    <3>5. RowInv'
      BY <3>1, <3>2, <3>3, <3>4, StaysLockedRecorded
    <3> QED
      BY <2>2, <2>3, <2>18, <3>5 DEF AmendNonCritical
  <2>19. ASSUME NEW cfg \in Config, NEW c \in Centres, AmendCritical(r, cfg, c)
         PROVE  SerialInv'
    <3> DEFINE e == [kind |-> "resolution_amend",
                     snapshot |-> SnapshotOf(row', papers)]
    <3>1. req[r].copy = row /\ row.status \in Locked
      BY <2>4, <2>19 DEF AmendCritical, Holds
    <3>2. /\ row'.status = row.status /\ row'.approved = row.approved
          /\ row'.lockedAt = row.lockedAt /\ papers' = papers
      BY <1>t, <2>19, <3>1 DEF AmendCritical, TypeOK, Row
    <3>3. Record(e)
      BY <2>19 DEF AmendCritical
    <3>4. /\ e \in Event /\ e.kind # "auto_lock" /\ Bearing(e)
          /\ e.snapshot.cfg = row'.cfg /\ e.snapshot.papers = papers
      <4>1. row' \in Row /\ papers \in Papers
        BY <1>t DEF TypeOK
      <4> QED
        BY <4>1, EventTypes DEF Bearing, SnapshotOf
    <3>5. RowInv'
      BY <3>1, <3>2, <3>3, <3>4, StaysLockedRecorded
    <3> QED
      BY <2>2, <2>3, <2>19, <3>5 DEF AmendCritical
  <2> HIDE DEF RowInv
  <2> QED
    BY <1>3, <2>7, <2>8, <2>9, <2>10, <2>11, <2>12, <2>13, <2>14, <2>15, <2>16,
       <2>17, <2>18, <2>19 DEF Step
<1> QED
  BY <1>1, <1>2, <1>3 DEF Next

\* The invariant holds of an empty database.
LEMMA SerialInit == Init => SerialInv
<1> SUFFICES ASSUME Init PROVE SerialInv
  OBVIOUS
<1>1. TypeOK
  BY InitialTypes, NoEvents DEF Init, TypeOK
<1>2. row.status = "absent" /\ \A r \in Requests : Holds(r, "idle")
  BY DEF Init, NoRow, Idle, Holds
<1>3. CopyIsFresh /\ CheckIsFresh
  BY <1>2 DEF CopyIsFresh, CheckIsFresh, Holds
<1> QED
  BY <1>1, <1>2, <1>3 DEF Init, SerialInv, UnlockedIsBlank, NewestIsCurrent,
                          ConfiguredIsReady, LockedOnce, Locked

LEMMA SerialHolds ==
  ASSUME OneAtATime PROVE Spec => []SerialInv
BY SerialInit, SerialStep, PTL DEF Spec

\* One request at a time: configured means ready (services.py,
\* _validate_sitting_complete).
THEOREM StatusIsEarned ==
  ASSUME OneAtATime PROVE Spec => []ConfiguredIsReady
<1>1. SerialInv => ConfiguredIsReady
  BY DEF SerialInv
<1> QED
  BY <1>1, SerialHolds, PTL

\* One request at a time: a locked sitting was approved, and locked once
\* (services.py, lock_sitting).
THEOREM LockHappensOnce ==
  ASSUME OneAtATime PROVE Spec => []LockedOnce
<1>1. SerialInv => LockedOnce
  BY DEF SerialInv
<1> QED
  BY <1>1, SerialHolds, PTL

LEMMA SerialSnapshot == SerialInv => SnapshotIsCurrent
<1> SUFFICES ASSUME SerialInv PROVE SnapshotIsCurrent
  OBVIOUS
<1>1. CASE row.status \in Locked
  <2>1. PICK n \in Nat : /\ IsNewest(n)
                         /\ events[n].snapshot.cfg = row.cfg
                         /\ events[n].snapshot.papers = papers
    BY <1>1 DEF SerialInv, NewestIsCurrent
  <2>2. GetSnapshot = events[n].snapshot
    BY <1>1, <2>1, ReadsNewest DEF NewestIsRead
  <2> QED
    BY <2>1, <2>2 DEF SnapshotIsCurrent
<1>2. CASE row.status \notin Locked
  BY <1>2 DEF SnapshotIsCurrent, GetSnapshot, SnapshotOf
<1> QED
  BY <1>1, <1>2

\* One request at a time: get_sitting_snapshot hands out the critical fields
\* and the papers as they are stored, before and after the lock.
THEOREM SnapshotHolds ==
  ASSUME OneAtATime PROVE Spec => []SnapshotIsCurrent
BY SerialSnapshot, SerialHolds, PTL

\* What one step may do to a locked sitting.
Frozen ==
  row.status \in Locked =>
    /\ row'.status \in Locked
    /\ papers' = papers
    /\ row'.cfg # row.cfg =>
         /\ Len(events') = Len(events) + 1
         /\ events'[Len(events')].kind = "resolution_amend"
    /\ row'.centres # row.centres => Len(events') = Len(events) + 1

LEMMA FrozenStep == SerialInv /\ [Next]_vars => Frozen
<1> SUFFICES ASSUME SerialInv, [Next]_vars, row.status \in Locked
             PROVE  Frozen
  BY DEF Frozen
<1>t. TypeOK
  BY DEF SerialInv
<1>1. CASE UNCHANGED vars
  BY <1>1 DEF vars, Frozen
<1>2. ASSUME NEW cfg \in Config, NEW c \in Centres, Create(cfg, c)
      PROVE  FALSE
  BY <1>2 DEF Create, Exists, Locked
<1>3. ASSUME NEW r \in Requests, Step(r)
      PROVE  Frozen
  <2>1. ASSUME ~Holds(r, "idle") PROVE req[r].copy = row
    BY <2>1 DEF SerialInv, CopyIsFresh
  <2>2. ASSUME req[r].copy.status \in Unlocked, ~Holds(r, "idle") PROVE FALSE
    BY <2>1, <2>2 DEF Unlocked, Locked
  <2>3. ASSUME Holds(r, "checked") PROVE FALSE
    BY <2>3 DEF SerialInv, CheckIsFresh, Unlocked, Locked
  <2>4. CASE \/ Fetch(r) \/ Check(r) \/ Release(r)
             \/ \E s \in Subjects : FetchPaper(r, s)
    BY <2>4 DEF Fetch, Check, Release, FetchPaper, Frozen
  <2>5. CASE Configure(r) \/ Lock(r)
    BY <2>3, <2>5 DEF Configure, Lock
  <2>6. CASE \/ RemovePaper(r) \/ Delete(r)
             \/ \E s \in Subjects, p \in Paper : UpsertPaper(r, s, p)
             \/ \E cfg \in Config, c \in Centres : UpdateDraft(r, cfg, c)
    BY <2>2, <2>6 DEF RemovePaper, Delete, UpsertPaper, UpdateDraft, Holds
  <2>7. CASE Approve(r)
    BY <2>2, <2>7 DEF Approve, Holds, Unlocked
  <2>8. CASE Activate(r) \/ Close(r)
    BY <1>t, <2>8 DEF Activate, Close, Advance, Frozen, Locked, TypeOK, Row
  <2>9. ASSUME NEW c \in Centres, AmendNonCritical(r, c) PROVE Frozen
    <3>1. req[r].copy = row
      BY <2>1, <2>9 DEF AmendNonCritical, Holds
    <3>2. row'.status = row.status /\ row'.cfg = row.cfg
      BY <1>t, <2>9, <3>1 DEF AmendNonCritical, TypeOK, Row
    <3>3. Record([kind |-> "chair_amend", centres |-> c]) /\ papers' = papers
      BY <2>9 DEF AmendNonCritical
    <3>4. Len(events') = Len(events) + 1
      BY <1>t, <3>3, InitialTypes, EventTypes, Recording DEF TypeOK
    <3> QED
      BY <3>2, <3>3, <3>4 DEF Frozen
  <2>10. ASSUME NEW cfg \in Config, NEW c \in Centres, AmendCritical(r, cfg, c)
         PROVE  Frozen
    <3> DEFINE e == [kind |-> "resolution_amend",
                     snapshot |-> SnapshotOf(row', papers)]
    <3>1. req[r].copy = row
      BY <2>1, <2>10 DEF AmendCritical, Holds
    <3>2. row' \in Row /\ row'.status = row.status
      BY <1>t, <2>10, <3>1 DEF AmendCritical, TypeOK, Row
    <3>3. Record(e) /\ papers' = papers
      BY <2>10 DEF AmendCritical
    <3>4. Len(events') = Len(events) + 1 /\ events'[Len(events')] = e
      BY <1>t, <3>2, <3>3, EventTypes, Recording DEF TypeOK
    <3> QED
      BY <3>2, <3>3, <3>4 DEF Frozen
  <2> QED
    BY <1>3, <2>4, <2>5, <2>6, <2>7, <2>8, <2>9, <2>10 DEF Step
<1> QED
  BY <1>1, <1>2, <1>3 DEF Next

\* One request at a time: after the lock the critical fields change with a
\* resolution_amend event only, the centres with some event, the papers never.
THEOREM FrozenHolds ==
  ASSUME OneAtATime PROVE Spec => LockedIsFrozen
<1>1. SerialInv /\ [Next]_vars => [Frozen]_vars
  BY FrozenStep
<1>2. LockedIsFrozen <=> [][Frozen]_vars
  BY PTL DEF LockedIsFrozen, Frozen
<1> QED
  BY <1>1, <1>2, SerialHolds, PTL DEF Spec

-----------------------------------------------------------------------------
(* One request at a time: Sitting implements SittingLifecycle.             *)

\* Before the lock, and after a lock or a resolution, consumers see the
\* content as it is; a step that keeps the newest snapshot keeps the view.
View == ContentOf(GetSnapshot, GetSnapshot.papers)
Content == ContentOf(row, papers)

LEMMA ReadsNewestNext == NewestIsRead'
BY ReadsNewest, PTL

LEMMA UnlockedView == row.status \notin Locked => View = Content
BY DEF View, Content, GetSnapshot, SnapshotOf, ContentOf

LEMMA UnlockedViewNext == row'.status \notin Locked => View' = Content'
BY DEF View, Content, GetSnapshot, SnapshotOf, ContentOf

LEMMA ContentType == TypeOK => Content \in [cfg : Config, papers : Papers,
                                            centres : Centres]
BY DEF TypeOK, Content, ContentOf, Row

\* A recorded snapshot of a locked sitting is what consumers see next.
LEMMA RecordedView ==
  ASSUME events \in Seq(Event), NEW e \in Event, Record(e), Bearing(e),
         row'.status \in Locked
  PROVE  View' = ContentOf(e.snapshot, e.snapshot.papers)
<1>1. PICK n \in Nat : IsNewest(n)' /\ events'[n] = e
  BY BearingIsNewest
<1>2. GetSnapshot' = e.snapshot
  BY <1>1, ReadsNewestNext DEF NewestIsRead
<1> QED
  BY <1>2 DEF View

\* Every step of a request is one of the lifecycle, or stutters there.
LEMMA LifecycleStep ==
  ASSUME OneAtATime
  PROVE  SerialInv /\ [Next]_vars => [Lifecycle!Next]_(Lifecycle!vars)
<1> SUFFICES ASSUME SerialInv, [Next]_vars
             PROVE  Lifecycle!Next \/ UNCHANGED Lifecycle!vars
  OBVIOUS
<1> DEFINE Stutter == UNCHANGED <<row.status, row.approved, Content, View>>
<1> USE DEF Lifecycle!Unlocked, Lifecycle!Locked, Unlocked, Locked
<1>t. TypeOK /\ TypeOK' /\ SerialInv'
  BY SerialStep DEF SerialInv
<1>c. /\ Content \in [cfg : Config, papers : Papers, centres : Centres]
      /\ Content' \in [cfg : Config, papers : Papers, centres : Centres]
  BY <1>t, ContentType DEF TypeOK, Content, ContentOf, Row
<1>v. /\ ContentOf(row, papers) = Content /\ ContentOf(row', papers') = Content'
      /\ ContentOf(GetSnapshot, GetSnapshot.papers) = View
      /\ ContentOf(GetSnapshot', GetSnapshot'.papers) = View'
  BY DEF Content, View
<1>s. ASSUME Stutter PROVE UNCHANGED Lifecycle!vars
  BY <1>s, <1>v DEF Lifecycle!vars
<1>d. ASSUME row.status \in {"absent"} \cup Unlocked, row'.status = "draft",
             row'.approved = row.approved
      PROVE  Lifecycle!Draft
  BY <1>d, <1>c, <1>v, UnlockedViewNext DEF Lifecycle!Draft
<1>1. CASE UNCHANGED vars
  BY <1>1, <1>s DEF vars, Content, View, GetSnapshot, SnapshotOf,
                    BearingEvents, IsNewest
<1>2. ASSUME NEW cfg \in Config, NEW c \in Centres, Create(cfg, c)
      PROVE  Lifecycle!Draft
  <2>1. row = NoRow
    BY <1>2 DEF Create, SerialInv, UnlockedIsBlank
  <2>2. row'.status = "draft" /\ row'.approved = row.approved
    BY <1>2, <2>1 DEF Create, NoRow
  <2> QED
    BY <1>d, <2>1, <2>2 DEF NoRow
<1>3. ASSUME NEW r \in Requests, Step(r)
      PROVE  Lifecycle!Next \/ UNCHANGED Lifecycle!vars
  <2>1. ASSUME ~Holds(r, "idle") PROVE req[r].copy = row
    BY <2>1 DEF SerialInv, CopyIsFresh
  <2>2. ASSUME Holds(r, "checked")
        PROVE  /\ req[r].copy = row /\ row.status \in Unlocked
               /\ Content \in {k \in [cfg : Config, papers : Papers,
                                      centres : Centres] :
                                 Ready(k.cfg, k.papers)}
    BY <1>c, <2>1, <2>2 DEF SerialInv, CheckIsFresh, Holds, Content, ContentOf
  <2>3. CASE \/ Fetch(r) \/ Check(r) \/ Release(r)
             \/ \E s \in Subjects : FetchPaper(r, s)
    <3>1. UNCHANGED <<row, papers, events>>
      BY <2>3 DEF Fetch, Check, Release, FetchPaper
    <3> QED
      BY <3>1, <1>s DEF Content, View, GetSnapshot, SnapshotOf,
                        BearingEvents, IsNewest
  <2>4. CASE Configure(r)
    <3>1. /\ row.status \in Unlocked /\ row'.status = "configured"
          /\ row'.approved = row.approved /\ Content' = Content
      BY <1>t, <2>2, <2>4 DEF Configure, TypeOK, Row, Content, ContentOf
    <3>2. View' = View
      BY <3>1, UnlockedView, UnlockedViewNext
    <3> QED
      BY <1>v, <2>2, <2>4, <3>1, <3>2
         DEF Configure, Lifecycle!Configure, Lifecycle!Next
  <2>5. CASE Approve(r)
    <3>1. /\ row.status = "configured" /\ row'.status = row.status
          /\ row'.approved = TRUE /\ Content' = Content
      BY <1>t, <2>1, <2>5 DEF Approve, Holds, TypeOK, Row, Content, ContentOf
    <3>2. View' = View
      BY <3>1, UnlockedView, UnlockedViewNext
    <3> QED
      BY <1>v, <3>1, <3>2 DEF Lifecycle!Approve, Lifecycle!Next
  <2>6. CASE Delete(r)
    <3>1. row.status \in Unlocked /\ row' = NoRow /\ papers' = NoPapers
      BY <2>1, <2>6 DEF Delete, Holds
    <3>2. /\ row'.status = "absent" /\ row'.approved = FALSE
          /\ Content' = ContentOf(NoRow, NoPapers) /\ View' = Content'
      BY <3>1, UnlockedViewNext DEF Content, NoRow
    <3> QED
      BY <1>v, <3>1, <3>2 DEF Lifecycle!Discard, Lifecycle!Next
  <2>7. CASE Lock(r)
    <3> DEFINE e == [kind |-> "auto_lock",
                     snapshot |-> SnapshotOf(row, papers)]
    <3>1. /\ req[r].copy = row /\ row.status = "configured" /\ row.approved
      BY <2>2, <2>7 DEF Lock
    <3>2. /\ row'.status = "locked" /\ row'.approved = row.approved
          /\ Content' = Content
      BY <1>t, <2>7 DEF Lock, TypeOK, Row, Content, ContentOf
    <3>3. Record(e) /\ e \in Event /\ Bearing(e)
      BY <1>t, <2>7, <3>1, EventTypes DEF Lock, TypeOK, Bearing
    <3>4. View' = View
      <4>1. View' = ContentOf(e.snapshot, e.snapshot.papers)
        BY <1>t, <3>2, <3>3, RecordedView DEF TypeOK
      <4> QED
        BY <3>1, <4>1, UnlockedView DEF Content, ContentOf, SnapshotOf
    <3>5. row.approved = TRUE
      BY <1>t, <3>1 DEF TypeOK, Row
    <3> QED
      BY <1>v, <2>2, <2>7, <3>1, <3>2, <3>4
         DEF Lock, Lifecycle!Lock, Lifecycle!Next
  <2>8. CASE Activate(r) \/ Close(r)
    <3>1. /\ <<row.status, row'.status>>
               \in {<<"locked", "active">>, <<"active", "closed">>}
          /\ row'.approved = row.approved /\ Content' = Content
          /\ UNCHANGED <<papers, events>>
      BY <1>t, <2>1, <2>8
         DEF Activate, Close, Advance, Holds, TypeOK, Row, Content, ContentOf
    <3>2. View' = View
      <4>1. BearingEvents # {}
        BY <3>1 DEF SerialInv, NewestIsCurrent, IsNewest
      <4> QED
        BY <3>1, <4>1 DEF View, GetSnapshot, BearingEvents, IsNewest
    <3> QED
      BY <1>v, <3>1, <3>2 DEF Lifecycle!Advance, Lifecycle!Next
  <2>9. CASE RemovePaper(r)
    <3>1. /\ row.status \in Unlocked /\ row'.status = "draft"
          /\ row'.approved = row.approved
      BY <1>t, <2>1, <2>9 DEF RemovePaper, DropToDraft, Holds, TypeOK, Row
    <3> QED
      BY <1>d, <3>1 DEF Lifecycle!Next
  <2>10. ASSUME NEW s \in Subjects, NEW p \in Paper, UpsertPaper(r, s, p)
         PROVE  Lifecycle!Draft
    <3>1. /\ row.status \in Unlocked /\ row'.status = "draft"
          /\ row'.approved = row.approved
      BY <1>t, <2>1, <2>10 DEF UpsertPaper, DropToDraft, Holds, TypeOK, Row
    <3> QED
      BY <1>d, <3>1
  <2>11. ASSUME NEW cfg \in Config, NEW c \in Centres, UpdateDraft(r, cfg, c)
         PROVE  Lifecycle!Draft
    <3>1. /\ row.status \in Unlocked /\ row'.status = "draft"
          /\ row'.approved = row.approved
      BY <1>t, <2>1, <2>11 DEF UpdateDraft, Holds, TypeOK, Row
    <3> QED
      BY <1>d, <3>1
  <2>12. ASSUME NEW c \in Centres, AmendNonCritical(r, c)
         PROVE  Lifecycle!AmendVenue
    <3> DEFINE e == [kind |-> "chair_amend", centres |-> c]
    <3>1. req[r].copy = row /\ row.status \in Locked
      BY <2>1, <2>12 DEF AmendNonCritical, Holds
    <3>2. /\ row'.status = row.status /\ row'.approved = row.approved
          /\ Content'.cfg = Content.cfg /\ Content'.papers = Content.papers
      BY <1>t, <2>12, <3>1
         DEF AmendNonCritical, TypeOK, Row, Content, ContentOf
    <3>3. Record(e) /\ e \in Event /\ ~Bearing(e) /\ events \in Seq(Event)
      BY <1>t, <2>12, InitialTypes, EventTypes
         DEF AmendNonCritical, Bearing, TypeOK
    <3>4. View' = View
      <4>1. PICK n \in Nat : IsNewest(n)
        BY <3>1 DEF SerialInv, NewestIsCurrent
      <4>2. IsNewest(n)' /\ events'[n] = events[n]
        BY <3>3, <4>1, OtherKeepsNewest
      <4>3. GetSnapshot = events[n].snapshot
        BY <3>1, <4>1, ReadsNewest DEF NewestIsRead
      <4>4. GetSnapshot' = events'[n].snapshot
        BY <3>1, <3>2, <4>2, ReadsNewestNext DEF NewestIsRead
      <4> QED
        BY <4>2, <4>3, <4>4 DEF View
    <3> QED
      BY <1>c, <1>v, <3>1, <3>2, <3>4 DEF Lifecycle!AmendVenue
  <2>13. ASSUME NEW cfg \in Config, NEW c \in Centres, AmendCritical(r, cfg, c)
         PROVE  Lifecycle!AmendByResolution
    <3> DEFINE e == [kind |-> "resolution_amend",
                     snapshot |-> SnapshotOf(row', papers)]
    <3>1. req[r].copy = row /\ row.status \in Locked
      BY <2>1, <2>13 DEF AmendCritical, Holds
    <3>2. /\ row'.status = row.status /\ row'.approved = row.approved
          /\ papers' = papers /\ Content'.papers = Content.papers
      BY <1>t, <2>13, <3>1
         DEF AmendCritical, TypeOK, Row, Content, ContentOf
    <3>3. Record(e) /\ e \in Event /\ Bearing(e) /\ events \in Seq(Event)
      BY <1>t, <2>13, EventTypes DEF AmendCritical, Bearing, TypeOK
    <3>4. View' = Content'
      <4>1. View' = ContentOf(e.snapshot, e.snapshot.papers)
        BY <3>1, <3>2, <3>3, RecordedView
      <4> QED
        BY <3>2, <4>1 DEF Content, ContentOf, SnapshotOf
    <3> QED
      BY <1>c, <1>v, <3>1, <3>2, <3>4 DEF Lifecycle!AmendByResolution
  <2> QED
    BY <1>3, <2>3, <2>4, <2>5, <2>6, <2>7, <2>8, <2>9, <2>10, <2>11, <2>12,
       <2>13 DEF Step, Lifecycle!Next
<1> QED
  BY <1>1, <1>2, <1>3 DEF Next, Lifecycle!Next

\* One request at a time, every operation of apps/sitting is one atomic
\* operation of the lifecycle the other phases rely on.
THEOREM ImplementsLifecycle ==
  ASSUME OneAtATime PROVE Spec => LifecycleSpec
<1>1. Init => Lifecycle!Init
  <2> SUFFICES ASSUME Init PROVE Lifecycle!Init
    OBVIOUS
  <2>1. row = NoRow /\ papers = NoPapers /\ row.status \notin Locked
    BY DEF Init, NoRow, Locked
  <2> QED
    BY <2>1, UnlockedView DEF Lifecycle!Init, View, Content, NoRow
<1>2. Init => SerialInv
  BY SerialInit
<1>3. SerialInv /\ [Next]_vars => SerialInv'
  BY SerialStep
<1>4. SerialInv /\ [Next]_vars => [Lifecycle!Next]_(Lifecycle!vars)
  BY LifecycleStep
<1> QED
  BY <1>1, <1>2, <1>3, <1>4, PTL DEF Spec, LifecycleSpec, Lifecycle!Spec

=============================================================================
