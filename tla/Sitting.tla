------------------------------ MODULE Sitting ------------------------------
(***************************************************************************)
(* apps/sitting: the life of one examination sitting, from the draft to    *)
(* the lock thirty days before the examination and the amendments after it.*)
(*                                                                         *)
(* Every endpoint of apps/sitting/views.py first reads the sitting with a  *)
(* plain SELECT (_get_sitting, _get_paper) and then hands that object to a *)
(* service, which decides on the OBJECT and writes the ROW.  Nothing locks *)
(* the row in between, so the model splits a request in the same way:      *)
(*                                                                         *)
(*    Fetch / FetchPaper    the SELECT of the view: the request now holds  *)
(*                          a copy of the row, stale as soon as anybody    *)
(*                          else commits                                   *)
(*    Check                 the readiness check of configure and lock,     *)
(*                          against the copy and the papers of that moment *)
(*    the operations        one transaction each, guarded by the copy      *)
(*    Release               the request fails or is refused: rolled back   *)
(*                                                                         *)
(* What a request is going to do is left open until it does it, which has  *)
(* the same behaviours and fewer states than choosing it at the start.     *)
(* The T-30 monitor (apps/sitting/tasks.py) holds rows it listed and locks *)
(* them one by one: it is one more request.                                *)
(***************************************************************************)
EXTENDS Integers, FiniteSets, Sequences

CONSTANTS
  Requests,     \* requests (and monitor runs) that may be in flight at once
  Subjects,     \* subject codes a paper can be added for
  Required,     \* REQUIRED_SUBJECT_PAPER_COUNT, five in the code
  Marks,        \* pass marks, and upper limits of the NBEC policy band
  DefaultMark,  \* the pass mark of a paper created without one
  Flaws,        \* the flaws of a configuration besides its pass marks
  Centres,      \* values of the only field the Chair alone may amend
  MaxEvents,    \* bound on the lock events of a sitting
  NoPaper,      \* the subject has no paper
  NoSubject     \* the request holds no paper

ASSUME SittingAssumption ==
  /\ Marks \subseteq Int
  /\ DefaultMark \in Marks
  /\ Required \in Nat
  /\ MaxEvents \in Nat
  /\ Centres # {}
  /\ IsFiniteSet(Subjects)
  /\ Flaws \subseteq {"compensation", "dates"}
  /\ NoPaper \notin [mark : Marks, blueprint : BOOLEAN]
  /\ NoSubject \notin Subjects

VARIABLES
  row,     \* the sitting_sitting row
  papers,  \* its sitting_subjectpaper rows, by subject code
  events,  \* its sitting_sittinglockevent rows, oldest first
  req      \* per request: how far it is and the objects it read

vars == <<row, papers, events, req>>

-----------------------------------------------------------------------------
(* Rows.                                                                   *)

Unlocked == {"draft", "configured"}
Locked   == {"locked", "active", "closed"}

\* The critical fields.  The policy band is represented by its upper limit.
Config == [mark : Marks, top : Marks, flaws : SUBSET Flaws]

Paper == [mark : Marks, blueprint : BOOLEAN]

Row == [status : {"absent"} \cup Unlocked \cup Locked, cfg : Config,
        centres : Centres, approved : BOOLEAN, lockedAt : BOOLEAN]

Papers == [Subjects -> Paper \cup {NoPaper}]

\* What _build_live_snapshot copies, without what is derived from the status.
Snapshot == [cfg : Config, centres : Centres, approved : BOOLEAN,
             papers : Papers]

\* _SNAPSHOT_KINDS carry a whole snapshot, a chair_amend what it changed.
Event == [kind : {"auto_lock", "resolution_amend"}, snapshot : Snapshot]
           \cup [kind : {"chair_amend"}, centres : Centres]

Request == [stage : {"idle", "sitting", "paper", "checked"}, copy : Row,
            subject : Subjects \cup {NoSubject}]

NoPapers == [s \in Subjects |-> NoPaper]
Present(ps) == {s \in Subjects : ps[s] # NoPaper}

InBand(mark, cfg) == mark <= cfg.top

\* _validate_sitting_complete, on the object the request holds and the
\* papers stored now.  Section marks are checked on every save of a paper.
Ready(cfg, ps) ==
  /\ Cardinality(Present(ps)) = Required
  /\ InBand(cfg.mark, cfg)
  /\ \A s \in Present(ps) : InBand(ps[s].mark, cfg) /\ ps[s].blueprint
  /\ cfg.flaws = {}

\* Mutant: the snapshot leaves out the approval.
SnapshotNoApproval(r, ps) == [cfg |-> r.cfg, centres |-> r.centres,
                              papers |-> ps]
SnapshotOf(r, ps) == [cfg |-> r.cfg, centres |-> r.centres,
                      approved |-> r.approved, papers |-> ps]

-----------------------------------------------------------------------------
(* Requests.                                                               *)

\* No sitting is stored under the reference.
NoRow == [status |-> "absent",
          cfg |-> [mark |-> DefaultMark, top |-> DefaultMark, flaws |-> {}],
          centres |-> CHOOSE c \in Centres : TRUE,
          approved |-> FALSE, lockedAt |-> FALSE]

Exists == row.status # "absent"

Idle == [stage |-> "idle", copy |-> NoRow, subject |-> NoSubject]

Init ==
  /\ row = NoRow
  /\ papers = NoPapers
  /\ events = <<>>
  /\ req = [r \in Requests |-> Idle]

\* POST /sittings/.  A second sitting of the same reference violates the
\* primary key, and the serializer refuses an end date before the start.
Create(cfg, centres) ==
  /\ ~Exists
  /\ "dates" \notin cfg.flaws
  /\ row' = [NoRow EXCEPT !.status = "draft", !.cfg = cfg, !.centres = centres]
  /\ UNCHANGED <<papers, events, req>>

\* _get_sitting of a view, or the candidate list of the T-30 monitor.
Fetch(r) ==
  /\ req[r].stage = "idle"
  /\ Exists
  /\ req' = [req EXCEPT ![r] = [stage |-> "sitting", copy |-> row,
                                subject |-> NoSubject]]
  /\ UNCHANGED <<row, papers, events>>

\* _get_paper: the paper and, joined, its sitting.
FetchPaper(r, s) ==
  /\ req[r].stage = "idle"
  /\ papers[s] # NoPaper
  /\ req' = [req EXCEPT ![r] = [stage |-> "paper", copy |-> row,
                                subject |-> s]]
  /\ UNCHANGED <<row, papers, events>>

\* The queries of _validate_sitting_complete, inside the transaction of
\* configure_sitting and lock_sitting but before it writes anything.
Check(r) ==
  /\ req[r].stage = "sitting"
  /\ req[r].copy.status \in Unlocked
  /\ Ready(req[r].copy.cfg, papers)
  /\ req' = [req EXCEPT ![r].stage = "checked"]
  /\ UNCHANGED <<row, papers, events>>

\* The request ends without a commit: a guard of the service refused it, the
\* worker died, or the lock found the sitting locked and returned it as it is.
Release(r) ==
  /\ req[r].stage # "idle"
  /\ req' = [req EXCEPT ![r] = Idle]
  /\ UNCHANGED <<row, papers, events>>

\* The request commits and ends.
Done(r) == req' = [req EXCEPT ![r] = Idle]

Holds(r, stage) == req[r].stage = stage

-----------------------------------------------------------------------------
(* Before the lock.                                                        *)

\* The checks update_sitting_draft and amend_critical_with_resolution run on
\* the fields they are about to write: the band when a pass mark is given,
\* and the compensation rule.
Acceptable(old, cfg) ==
  /\ cfg.mark = old.mark \/ InBand(cfg.mark, cfg)
  /\ "compensation" \notin cfg.flaws

\* A draft edit of a CONFIGURED copy drops it back to DRAFT.  save() writes
\* EVERY column of the copy, and inserts the row if it is gone.
UpdateDraft(r, cfg, centres) ==
  LET copy == req[r].copy IN
  /\ Holds(r, "sitting")
  /\ copy.status \in Unlocked
  /\ Acceptable(copy.cfg, cfg)
  /\ row' = [copy EXCEPT !.status = "draft", !.cfg = cfg, !.centres = centres]
  /\ Done(r)
  /\ UNCHANGED <<papers, events>>

\* Mutant: an edit leaves the status alone.
KeepStatus(copy) == row' = row

\* sitting.save(update_fields=["status"]) of a paper edit whose copy was
\* CONFIGURED; with a DRAFT copy nothing is saved.
DropToDraft(copy) ==
  row' = IF copy.status = "configured" THEN [row EXCEPT !.status = "draft"]
                                       ELSE row

\* Mutant: off by one.
HasRoomForOneMore(ps) == Cardinality(Present(ps)) <= Required

\* The capacity check for a subject that has no paper yet.
HasRoom(ps) == Cardinality(Present(ps)) < Required

\* add_or_update_paper: the row lock it takes is held while papers are
\* counted and stored, but the object read under it is thrown away.
UpsertPaper(r, s, paper) ==
  LET copy == req[r].copy
      stored == papers[s]
  IN
  /\ Holds(r, "sitting")
  /\ copy.status \in Unlocked
  /\ \/ InBand(paper.mark, copy.cfg)
     \/ paper.mark = IF stored = NoPaper THEN DefaultMark ELSE stored.mark
  /\ stored = NoPaper => HasRoom(papers)
  /\ Exists
  /\ papers' = [papers EXCEPT ![s] = paper]
  /\ DropToDraft(copy)
  /\ Done(r)
  /\ UNCHANGED events

\* remove_paper deletes by primary key: if the paper is gone, nothing is
\* deleted and the rest happens.  Every other request that holds the paper
\* now holds one that no longer exists.
RemovePaper(r) ==
  LET copy == req[r].copy
      s == req[r].subject
  IN
  /\ Holds(r, "paper")
  /\ copy.status \in Unlocked
  /\ copy.status = "configured" => Exists
  /\ papers' = [t \in Subjects |-> IF t = s THEN NoPaper ELSE papers[t]]
  /\ DropToDraft(copy)
  /\ req' = [q \in Requests |->
               IF q = r THEN Idle
               ELSE IF req[q].subject = s
                    THEN [req[q] EXCEPT !.subject = NoSubject]
                    ELSE req[q]]
  /\ UNCHANGED events

\* configure_sitting.
Configure(r) ==
  /\ Holds(r, "checked")
  /\ Exists
  /\ row' = [row EXCEPT !.status = "configured"]
  /\ Done(r)
  /\ UNCHANGED <<papers, events>>

\* approve_sitting.
Approve(r) ==
  /\ Holds(r, "sitting")
  /\ req[r].copy.status = "configured"
  /\ Exists
  /\ row' = [row EXCEPT !.approved = TRUE]
  /\ Done(r)
  /\ UNCHANGED <<papers, events>>

\* The DELETE endpoint; papers and lock events go with the row (CASCADE).
Delete(r) ==
  /\ Holds(r, "sitting")
  /\ req[r].copy.status \in Unlocked
  /\ Exists
  /\ row' = NoRow
  /\ papers' = NoPapers
  /\ events' = <<>>
  /\ req' = [q \in Requests |->
               IF q = r THEN Idle ELSE [req[q] EXCEPT !.subject = NoSubject]]

-----------------------------------------------------------------------------
(* The lock and after.                                                     *)

\* Mutant: the amendment is not logged.
RecordNothing(event) == events' = events
Record(event) ==
  /\ Len(events) < MaxEvents
  /\ events' = Append(events, event)

\* Mutant: the approval is not required.
LockUnapproved(r) ==
  /\ Holds(r, "checked")
  /\ req[r].copy.status = "configured"
  /\ Exists
  /\ row' = [row EXCEPT !.status = "locked", !.lockedAt = TRUE]
  /\ Record([kind |-> "auto_lock",
             snapshot |-> SnapshotOf(req[r].copy, papers)])
  /\ Done(r)
  /\ UNCHANGED papers

\* lock_sitting writes the status and the time, and snapshots the copy with
\* the papers of this moment.
Lock(r) ==
  /\ Holds(r, "checked")
  /\ req[r].copy.status = "configured"
  /\ req[r].copy.approved
  /\ Exists
  /\ row' = [row EXCEPT !.status = "locked", !.lockedAt = TRUE]
  /\ Record([kind |-> "auto_lock",
             snapshot |-> SnapshotOf(req[r].copy, papers)])
  /\ Done(r)
  /\ UNCHANGED papers

\* Mutant: the status is not looked at.
AdvanceFromAny(r, from, to) ==
  /\ Holds(r, "sitting")
  /\ Exists
  /\ row' = [row EXCEPT !.status = to]
  /\ Done(r)
  /\ UNCHANGED <<papers, events>>

\* activate_sitting and close_sitting.
Advance(r, from, to) ==
  /\ Holds(r, "sitting")
  /\ req[r].copy.status = from
  /\ Exists
  /\ row' = [row EXCEPT !.status = to]
  /\ Done(r)
  /\ UNCHANGED <<papers, events>>

Activate(r) == Advance(r, "locked", "active")
Close(r)    == Advance(r, "active", "closed")

\* amend_non_critical, the Chair's: a full save of the copy.
AmendNonCritical(r, centres) ==
  LET new == [req[r].copy EXCEPT !.centres = centres] IN
  /\ Holds(r, "sitting")
  /\ req[r].copy.status \in Locked
  /\ row' = new
  /\ Record([kind |-> "chair_amend", centres |-> centres])
  /\ Done(r)
  /\ UNCHANGED papers

\* amend_critical_with_resolution: a full save of the copy, and a new
\* snapshot.  A date arrives as a string, which the snapshot cannot format:
\* such an amendment is rolled back, so the dates stay as they are.
AmendCritical(r, cfg, centres) ==
  LET new == [req[r].copy EXCEPT !.cfg = cfg, !.centres = centres] IN
  /\ Holds(r, "sitting")
  /\ req[r].copy.status \in Locked
  /\ Acceptable(req[r].copy.cfg, cfg)
  /\ "dates" \in cfg.flaws <=> "dates" \in req[r].copy.cfg.flaws
  /\ row' = new
  /\ Record([kind |-> "resolution_amend", snapshot |-> SnapshotOf(new, papers)])
  /\ Done(r)
  /\ UNCHANGED papers

-----------------------------------------------------------------------------
Step(r) ==
  \/ Fetch(r) \/ Check(r) \/ Release(r)
  \/ Configure(r) \/ Approve(r) \/ Lock(r) \/ Activate(r) \/ Close(r)
  \/ RemovePaper(r) \/ Delete(r)
  \/ \E s \in Subjects : FetchPaper(r, s)
  \/ \E s \in Subjects, p \in Paper : UpsertPaper(r, s, p)
  \/ \E c \in Centres : AmendNonCritical(r, c)
  \/ \E cfg \in Config, c \in Centres :
       UpdateDraft(r, cfg, c) \/ AmendCritical(r, cfg, c)

Next ==
  \/ \E cfg \in Config, c \in Centres : Create(cfg, c)
  \/ \E r \in Requests : Step(r)

Spec == Init /\ [][Next]_vars

-----------------------------------------------------------------------------
(* What downstream consumers read.                                         *)

\* Mutant: a resolution does not supersede the lock.
BearingLocksOnly(event) == event.kind = "auto_lock"
Bearing(event) == event.kind \in {"auto_lock", "resolution_amend"}

BearingEvents == {i \in 1..Len(events) : Bearing(events[i])}

IsNewest(i) == i \in BearingEvents /\ \A j \in BearingEvents : j <= i

\* get_sitting_snapshot: the live sitting before the lock, after it the newest
\* snapshot, and the live sitting again should there be none.
GetSnapshot ==
  IF row.status \in Locked /\ BearingEvents # {}
  THEN events[CHOOSE i \in BearingEvents : IsNewest(i)].snapshot
  ELSE SnapshotOf(row, papers)

-----------------------------------------------------------------------------
(* Properties.                                                             *)

\* Every variable has its type.
TypeOK ==
  /\ row \in Row
  /\ papers \in Papers
  /\ events \in Seq(Event)
  /\ req \in [Requests -> Request]

\* However requests interleave, a sitting never has more papers than section
\* 71 allows: add_or_update_paper counts under the row lock.
PaperCapacity == Cardinality(Present(papers)) <= Required

\* However requests interleave, no lock is recorded of a configuration that
\* was not approved or not valid when the request read it.
LocksWereApproved ==
  \A i \in 1..Len(events) :
    events[i].kind = "auto_lock" =>
      LET s == events[i].snapshot IN
      s.approved /\ s.cfg.flaws = {} /\ InBand(s.cfg.mark, s.cfg)

\* One request at a time: a sitting that counts as CONFIGURED is ready, since
\* every edit that could make it unready also dropped it back to DRAFT.
ConfiguredIsReady == row.status = "configured" => Ready(row.cfg, papers)

\* One request at a time: a locked sitting was approved, and was locked
\* exactly once, by its first event.
LockedOnce ==
  row.status \in Locked =>
    /\ row.approved /\ row.lockedAt
    /\ Len(events) > 0
    /\ \A i \in 1..Len(events) : events[i].kind = "auto_lock" <=> i = 1

\* One request at a time: the snapshot downstream consumers read has the
\* critical configuration and the papers that are stored, before the lock and
\* after it, whatever resolutions and Chair amendments came in between.
SnapshotIsCurrent ==
  GetSnapshot.cfg = row.cfg /\ GetSnapshot.papers = papers

\* One request at a time: after the lock nothing changes without a record, the
\* critical fields only with a resolution_amend event, the papers never.
LockedIsFrozen ==
  [][row.status \in Locked =>
       /\ row'.status \in Locked
       /\ papers' = papers
       /\ row'.cfg # row.cfg =>
            /\ Len(events') = Len(events) + 1
            /\ events'[Len(events')].kind = "resolution_amend"
       /\ row'.centres # row.centres => Len(events') = Len(events) + 1]_vars

\* "Re-running lock on an already-locked sitting is a no-op": no second lock
\* event is recorded while the sitting is locked.
LockIsIdempotent ==
  [][row.status \in Locked /\ Len(events') > Len(events) =>
       events'[Len(events')].kind # "auto_lock"]_events

-----------------------------------------------------------------------------
(* One request at a time, the sitting implements the lifecycle the rest of *)
(* the system relies on.                                                   *)

ContentOf(r, ps) == [cfg |-> r.cfg, papers |-> ps, centres |-> r.centres]

Lifecycle == INSTANCE SittingLifecycle WITH
  Contents <- [cfg : Config, papers : Papers, centres : Centres],
  Complete <- {c \in [cfg : Config, papers : Papers, centres : Centres] :
                 Ready(c.cfg, c.papers)},
  Blank    <- ContentOf(NoRow, NoPapers),
  status   <- row.status,
  approved <- row.approved,
  content  <- ContentOf(row, papers),
  view     <- ContentOf(GetSnapshot, GetSnapshot.papers)

\* Every step of a request is a step of SittingLifecycle or changes nothing
\* there.
LifecycleSpec == Lifecycle!Spec

=============================================================================
