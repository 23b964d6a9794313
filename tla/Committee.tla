----------------------------- MODULE Committee -----------------------------
(***************************************************************************)
(* apps/committee: the members of the NBEC and their tenure, conflicts of  *)
(* interest, meetings with their agendas, minutes and action items; and    *)
(* the exports of the vault (apps/itembank), which take two of the active  *)
(* members.                                                                *)
(*                                                                         *)
(* A view reads the row of a request's URL, and the service then decides   *)
(* on that object and writes: some columns of it, or all of them.  Each    *)
(* service is a transaction, but only the cosignature of an export locks   *)
(* the row.  A request is therefore two steps, the view's read and the     *)
(* service, and what others write in between is not seen.                  *)
(*                                                                         *)
(* Time passes in days.  The monitors run once a day, and read all they    *)
(* are going to write before they write the first row.                     *)
(***************************************************************************)
EXTENDS Integers, FiniteSets

CONSTANTS
  Members,      \* identities that may be registered as members
  Conflicts,    \* declarations of conflicts of interest
  Meetings,     \* meetings
  Actions,      \* action items: no code creates one
  Exports,      \* requests to export from the vault
  Workers,      \* requests under way at a time
  Tenures,      \* the last days a tenure is set to
  Window,       \* the days an export request is valid
  Quorum,       \* Meeting.quorum_required
  MaxDay,       \* bound: days
  MaxAgendas,   \* bound: agendas of a meeting
  MaxAddenda,   \* bound: addenda to minutes
  Nobody        \* no member

ASSUME CommitteeAssumption ==
  /\ IsFiniteSet(Members) /\ Nobody \notin Members
  /\ Tenures \subseteq Nat
  /\ Window \in Nat /\ Quorum \in Nat /\ MaxDay \in Nat
  /\ MaxAgendas \in Nat /\ MaxAddenda \in Nat

VARIABLES
  member,     \* committee_nbecmember
  conflict,   \* committee_conflictdeclaration
  meeting,    \* committee_meeting
  agendas,    \* per meeting: the versions of its agenda
  minutes,    \* per meeting: its committee_minutes row
  addenda,    \* per meeting: how many addenda its minutes have
  action,     \* committee_actionitem
  export,     \* vault_export_request
  held,       \* per worker: the request, and the row as it was read
  due,        \* the members the tenure monitor has listed
  today       \* the day

registerVars == <<member, conflict>>
meetingVars  == <<meeting, agendas, minutes, addenda, action>>
vars == <<registerVars, meetingVars, export, held, due, today>>

-----------------------------------------------------------------------------
(* Rows.                                                                   *)

Roles == {"chair", "member"}

NBECMember == [status : {"none", "draft", "active", "expired", "renewed"},
               active : BOOLEAN, role : Roles, tenure : Nat]

ConflictDeclaration == [status : {"none", "pending", "approved", "dismissed"},
                        reviewed : BOOLEAN]

Statuses == {"none", "draft", "agenda_issued", "scheduled", "convened", "adjourned", "minuted"}

Meeting == [status : Statuses,
            attendees : SUBSET Members, convened : BOOLEAN, adjourned : BOOLEAN]

Minutes == {"none", "draft", "signed"}

ActionItem == [meeting : Meetings, status : {"open", "overdue"}, linked : BOOLEAN,
               due : Nat, escalated : BOOLEAN, day : Nat]

VaultExportRequest == [status : {"none", "Pending", "Executed", "Expired"},
                       requester : Members \cup {Nobody},
                       cosigner : Members \cup {Nobody}, expires : Nat]

\* What a worker holds: the operation, the row's key, and the row as read.
Request ==
  [op : {"none"}]
    \cup [op : {"amend", "activate"}, id : Members, copy : NBECMember]
    \cup [op : {"review"}, id : Conflicts, copy : ConflictDeclaration]
    \cup [op : {"agenda", "attendance", "convene", "adjourn"}, id : Meetings, copy : Meeting]
    \cup [op : {"numbered"}, id : Meetings, copy : Meeting, version : Nat]
    \cup [op : {"sign", "addendum"}, id : Meetings,
          copy : [status : Statuses, approved : BOOLEAN]]
    \cup [op : {"cosign"}, id : Exports, copy : VaultExportRequest]

Unread == [op |-> "none"]

Init ==
  /\ member = [m \in Members |-> [status |-> "none", active |-> FALSE,
                                  role |-> "member", tenure |-> 0]]
  /\ conflict = [c \in Conflicts |-> [status |-> "none", reviewed |-> FALSE]]
  /\ meeting = [g \in Meetings |-> [status |-> "none", attendees |-> {},
                                    convened |-> FALSE, adjourned |-> FALSE]]
  /\ agendas = [g \in Meetings |-> {}]
  /\ minutes = [g \in Meetings |-> "none"]
  /\ addenda = [g \in Meetings |-> 0]
  /\ action \in [Actions -> {[meeting |-> g, status |-> "open", linked |-> FALSE,
                              due |-> 0, escalated |-> FALSE, day |-> 0] : g \in Meetings}]
  /\ export = [e \in Exports |-> [status |-> "none", requester |-> Nobody,
                                  cosigner |-> Nobody, expires |-> 0]]
  /\ held = [w \in Workers |-> Unread]
  /\ due = {}
  /\ today = 0

-----------------------------------------------------------------------------
(* Requests.                                                               *)

\* The view has read the row.
Fetch(w, op, id, copy) ==
  /\ held[w].op = "none"
  /\ copy.status # "none"
  /\ held' = [held EXCEPT ![w] = [op |-> op, id |-> id, copy |-> copy]]

\* The service answers.
Answer(w, op) ==
  /\ held[w].op = op
  /\ held' = [held EXCEPT ![w] = Unread]

\* A check that fails, a constraint that is violated, a worker that dies: the
\* transaction leaves nothing.
Abandon(w) ==
  /\ held[w].op # "none"
  /\ held' = [held EXCEPT ![w] = Unread]
  /\ UNCHANGED <<registerVars, meetingVars, export, due, today>>

-----------------------------------------------------------------------------
(* Members.                                                                *)

\* The constraint unique_active_chair.
OneActiveChair(rows) ==
  \A m, n \in Members :
    rows[m].status = "active" /\ rows[n].status = "active"
      /\ rows[m].role = "chair" /\ rows[n].role = "chair" => m = n

SaveMember(m, row) ==
  LET rows == [member EXCEPT ![m] = row] IN
  /\ OneActiveChair(rows)
  /\ member' = rows
  /\ UNCHANGED <<conflict, meetingVars, export, due, today>>

CreateMember(m, role, tenure) ==
  /\ member[m].status = "none"
  /\ SaveMember(m, [status |-> "draft", active |-> FALSE, role |-> role, tenure |-> tenure])

\* POST members/
MemberListCreate(m, role, tenure) == CreateMember(m, role, tenure) /\ UNCHANGED held

\* PATCH members/{id}/
MemberDetail(w, m) ==
  Fetch(w, "amend", m, member[m])
    /\ UNCHANGED <<registerVars, meetingVars, export, due, today>>

\* POST members/{id}/activate/
MemberActivate(w, m) ==
  Fetch(w, "activate", m, member[m])
    /\ UNCHANGED <<registerVars, meetingVars, export, due, today>>

\* member.save(): every column, the status of the copy among them.
AmendMember(w, role, tenure) ==
  /\ Answer(w, "amend")
  /\ SaveMember(held[w].id, [held[w].copy EXCEPT !.role = role, !.tenure = tenure])

\* NBECMember.activate: status and is_active.
Activated(m) == [member[m] EXCEPT !.status = "active", !.active = TRUE]

ActivateMember(w) ==
  /\ Answer(w, "activate")
  /\ held[w].copy.status \in {"draft", "renewed"}
  /\ SaveMember(held[w].id, Activated(held[w].id))

\* Mutant: is_active is forgotten.
StatusOnly(m) == [member[m] EXCEPT !.status = "expired"]

\* NBECMember.expire.
Expired(m) == [member[m] EXCEPT !.status = "expired", !.active = FALSE]

PastTenure(m) == today > member[m].tenure

\* monitor_tenure_expiry: the query, and then row by row, whatever has become
\* of the row.
ListDue ==
  /\ due = {}
  /\ due' = {m \in Members : member[m].status = "active" /\ PastTenure(m)}
  /\ due' # {}
  /\ UNCHANGED <<registerVars, meetingVars, export, held, today>>

ExpireDue(m) ==
  /\ m \in due
  /\ due' = due \ {m}
  /\ member' = [member EXCEPT ![m] = Expired(m)]
  /\ UNCHANGED <<conflict, meetingVars, export, held, today>>

MonitorTenureExpiry == ListDue \/ \E m \in Members : ExpireDue(m)

MemberSteps ==
  \/ \E m \in Members :
       \/ \E role \in Roles, tenure \in Tenures : MemberListCreate(m, role, tenure)
       \/ \E w \in Workers : MemberDetail(w, m) \/ MemberActivate(w, m)
  \/ \E w \in Workers :
       \/ \E role \in Roles, tenure \in Tenures : AmendMember(w, role, tenure)
       \/ ActivateMember(w)
  \/ MonitorTenureExpiry

-----------------------------------------------------------------------------
(* Conflicts of interest.                                                  *)

DeclareCoi(c) ==
  /\ conflict[c].status = "none"
  /\ conflict' = [conflict EXCEPT ![c].status = "pending"]
  /\ UNCHANGED <<member, meetingVars, export, due, today>>

\* POST coi/
COICreate(c) == DeclareCoi(c) /\ UNCHANGED held

\* POST coi/{id}/review/
COIReview(w, c) ==
  Fetch(w, "review", c, conflict[c])
    /\ UNCHANGED <<registerVars, meetingVars, export, due, today>>

ReviewCoi(w, verdict) ==
  /\ Answer(w, "review")
  /\ held[w].copy.status = "pending"
  /\ conflict' = [conflict EXCEPT ![held[w].id] = [status |-> verdict, reviewed |-> TRUE]]
  /\ UNCHANGED <<member, meetingVars, export, due, today>>

ConflictSteps ==
  \/ \E c \in Conflicts : COICreate(c) \/ \E w \in Workers : COIReview(w, c)
  \/ \E w \in Workers, verdict \in {"approved", "dismissed"} : ReviewCoi(w, verdict)

-----------------------------------------------------------------------------
(* Meetings.                                                               *)

ScheduleMeeting(g) ==
  /\ meeting[g].status = "none"
  /\ meeting' = [meeting EXCEPT ![g].status = "draft"]
  /\ UNCHANGED <<registerVars, agendas, minutes, addenda, action, export, due, today>>

\* POST meetings/
MeetingCreate(g) == ScheduleMeeting(g) /\ UNCHANGED held

ReadMeeting(w, op, g) ==
  Fetch(w, op, g, meeting[g])
    /\ UNCHANGED <<registerVars, meetingVars, export, due, today>>

\* POST meetings/{id}/agenda/, attendance/, convene/ and adjourn/
MeetingAgenda(w, g)     == ReadMeeting(w, "agenda", g)
MeetingAttendance(w, g) == ReadMeeting(w, "attendance", g)
MeetingConvene(w, g)    == ReadMeeting(w, "convene", g)
MeetingAdjourn(w, g)    == ReadMeeting(w, "adjourn", g)

\* publish_agenda looks for the last version,
LastVersion(w) ==
  /\ held[w].op = "agenda"
  /\ LET vs == agendas[held[w].id] IN
     held' = [held EXCEPT ![w] =
       [op |-> "numbered", id |-> @.id, copy |-> @.copy,
        version |-> IF vs = {} THEN 1 ELSE 1 + CHOOSE v \in vs : \A u \in vs : u <= v]]
  /\ UNCHANGED <<registerVars, meetingVars, export, due, today>>

\* and inserts the next, if it is still free (unique_together).  A meeting that was a draft is so no longer.
PublishAgenda(w) ==
  LET g == held[w].id IN
  /\ Answer(w, "numbered")
  /\ held[w].version <= MaxAgendas
  /\ held[w].version \notin agendas[g]
  /\ agendas' = [agendas EXCEPT ![g] = @ \cup {held[w].version}]
  /\ meeting' = IF held[w].copy.status = "draft"
                  THEN [meeting EXCEPT ![g].status = "agenda_issued"] ELSE meeting
  /\ UNCHANGED <<registerVars, minutes, addenda, action, export, due, today>>

RecordAttendance(w, attendees) ==
  /\ Answer(w, "attendance")
  /\ meeting' = [meeting EXCEPT ![held[w].id].attendees = attendees]
  /\ UNCHANGED <<registerVars, agendas, minutes, addenda, action, export, due, today>>

\* quorum_met, of the object.
QuorumMet(row) == Cardinality(row.attendees) >= Quorum

ConveneMeeting(w) ==
  /\ Answer(w, "convene")
  /\ held[w].copy.status \in {"draft", "agenda_issued", "scheduled"}
  /\ QuorumMet(held[w].copy)
  /\ meeting' = [meeting EXCEPT ![held[w].id].status = "convened",
                                ![held[w].id].convened = TRUE]
  /\ UNCHANGED <<registerVars, agendas, minutes, addenda, action, export, due, today>>

\* Mutant: minutes for whatever meeting has none.
AdjournAny(w) ==
  LET g == held[w].id IN
  /\ Answer(w, "adjourn")
  /\ minutes[g] = "none"
  /\ minutes' = [minutes EXCEPT ![g] = "draft"]
  /\ meeting' = [meeting EXCEPT ![g].status = "adjourned", ![g].adjourned = TRUE]
  /\ UNCHANGED <<registerVars, agendas, addenda, action, export, due, today>>

\* A meeting has at most one minutes row: with a second, all is rolled back.
AdjournMeeting(w) ==
  LET g == held[w].id IN
  /\ Answer(w, "adjourn")
  /\ held[w].copy.status = "convened"
  /\ minutes[g] = "none"
  /\ minutes' = [minutes EXCEPT ![g] = "draft"]
  /\ meeting' = [meeting EXCEPT ![g].status = "adjourned", ![g].adjourned = TRUE]
  /\ UNCHANGED <<registerVars, agendas, addenda, action, export, due, today>>

\* POST minutes/{id}/sign/ and addendum/: the minutes with their meeting.
ReadMinutes(w, op, g) ==
  /\ minutes[g] # "none"
  /\ Fetch(w, op, g, [status |-> meeting[g].status, approved |-> minutes[g] = "signed"])
  /\ UNCHANGED <<registerVars, meetingVars, export, due, today>>

MinutesSign(w, g)      == ReadMinutes(w, "sign", g)
MinutesAddendum(w, g)  == ReadMinutes(w, "addendum", g)

SignMinutes(w) ==
  LET g == held[w].id IN
  /\ Answer(w, "sign")
  /\ ~held[w].copy.approved
  /\ minutes' = [minutes EXCEPT ![g] = "signed"]
  /\ meeting' = IF held[w].copy.status = "adjourned"
                  THEN [meeting EXCEPT ![g].status = "minuted"] ELSE meeting
  /\ action' = [a \in Actions |-> IF action[a].meeting = g
                                    THEN [action[a] EXCEPT !.linked = TRUE] ELSE action[a]]
  /\ UNCHANGED <<registerVars, agendas, addenda, export, due, today>>

IssueAddendum(w) ==
  /\ Answer(w, "addendum")
  /\ held[w].copy.approved
  /\ addenda[held[w].id] < MaxAddenda
  /\ addenda' = [addenda EXCEPT ![held[w].id] = @ + 1]
  /\ UNCHANGED <<registerVars, meeting, agendas, minutes, action, export, due, today>>

\* escalate_overdue_actions: overdue, and not escalated in the last 24 hours.
Overdue(a) ==
  /\ action[a].due < today
  /\ action[a].status = "overdue" => ~action[a].escalated \/ action[a].day < today

EscalateOverdueActions ==
  /\ \E a \in Actions : Overdue(a)
  /\ action' = [a \in Actions |->
       IF Overdue(a) THEN [action[a] EXCEPT !.status = "overdue", !.escalated = TRUE,
                                            !.day = today]
                     ELSE action[a]]
  /\ UNCHANGED <<registerVars, meeting, agendas, minutes, addenda, export, held, due, today>>

MeetingSteps ==
  \/ \E g \in Meetings :
       \/ MeetingCreate(g)
       \/ \E w \in Workers :
            \/ MeetingAgenda(w, g) \/ MeetingAttendance(w, g)
            \/ MeetingConvene(w, g) \/ MeetingAdjourn(w, g)
            \/ MinutesSign(w, g) \/ MinutesAddendum(w, g)
  \/ \E w \in Workers :
       \/ LastVersion(w) \/ PublishAgenda(w) \/ ConveneMeeting(w)
       \/ AdjournMeeting(w) \/ SignMinutes(w) \/ IssueAddendum(w)
       \/ \E attendees \in SUBSET Members : RecordAttendance(w, attendees)

-----------------------------------------------------------------------------
(* Exports of the vault.                                                   *)

\* POST vault/export-requests/
InitiateExport(e, m) ==
  /\ export[e].status = "none"
  /\ export' = [export EXCEPT ![e] = [status |-> "Pending", requester |-> m,
                                      cosigner |-> Nobody, expires |-> today + Window]]
  /\ UNCHANGED <<registerVars, meetingVars, held, due, today>>

\* Mutant: the row is read without its lock.
AnyTime(e) == TRUE

\* select_for_update: a cosignature under way keeps others waiting.
RowIsFree(e) == \A w \in Workers : held[w].op = "cosign" => held[w].id # e

\* POST vault/{id}/cosign/
CosignExport(w, e) ==
  /\ RowIsFree(e)
  /\ Fetch(w, "cosign", e, export[e])
  /\ UNCHANGED <<registerVars, meetingVars, export, due, today>>

\* _assert_active_vault_officer: no officers are designated in the settings.
ActiveVaultOfficer(m) == member[m].active

ExecuteVaultCosign(w, m) ==
  LET req == held[w].copy IN
  /\ Answer(w, "cosign")
  /\ req.status = "Pending"
  /\ today <= req.expires
  /\ ActiveVaultOfficer(req.requester) /\ ActiveVaultOfficer(m)
  /\ req.requester # m
  /\ export' = [export EXCEPT ![held[w].id] =
                  [req EXCEPT !.status = "Executed", !.cosigner = m]]
  /\ UNCHANGED <<registerVars, meetingVars, due, today>>

ExportSteps ==
  \/ \E e \in Exports, m \in Members : InitiateExport(e, m)
  \/ \E w \in Workers :
       \/ \E e \in Exports : CosignExport(w, e)
       \/ \E m \in Members : ExecuteVaultCosign(w, m)

-----------------------------------------------------------------------------
NextDay ==
  /\ today < MaxDay
  /\ today' = today + 1
  /\ UNCHANGED <<registerVars, meetingVars, export, held, due>>

AbandonSteps == \E w \in Workers : Abandon(w)

Next ==
  \/ MemberSteps \/ ConflictSteps \/ MeetingSteps \/ ExportSteps
  \/ EscalateOverdueActions \/ AbandonSteps \/ NextDay

Spec == Init /\ [][Next]_vars

\* Celery Beat starts the monitor every day, and its worker finishes it.
Fairness == WF_vars(MonitorTenureExpiry)

FairSpec == Spec /\ Fairness

-----------------------------------------------------------------------------
(* Properties.                                                             *)

TypeOK ==
  /\ member \in [Members -> NBECMember]
  /\ conflict \in [Conflicts -> ConflictDeclaration]
  /\ meeting \in [Meetings -> Meeting]
  /\ agendas \in [Meetings -> SUBSET (1..MaxAgendas)]
  /\ minutes \in [Meetings -> Minutes]
  /\ addenda \in [Meetings -> 0..MaxAddenda]
  /\ action \in [Actions -> ActionItem]
  /\ export \in [Exports -> VaultExportRequest]
  /\ held \in [Workers -> Request]
  /\ due \in SUBSET Members
  /\ today \in 0..MaxDay

\* The vault asks for is_active, the monitor and the constraint for the status:
\* the columns agree whoever saves a row last, and there is one chair.
MembersAgree ==
  /\ \A m \in Members : member[m].active <=> member[m].status = "active"
  /\ OneActiveChair(member)

\* A declaration that has been reviewed never waits for a review again.
ConflictsAgree ==
  \A c \in Conflicts : conflict[c].reviewed <=> conflict[c].status \in {"approved", "dismissed"}

\* Agendas are numbered without a gap.
AgendasNumbered == \A g \in Meetings : \A v \in agendas[g] : 1..v \subseteq agendas[g]

\* What a meeting's status and its other rows say of its course.
MeetingAgrees(g) ==
  /\ meeting[g].status = "convened" => meeting[g].convened
  /\ meeting[g].status \in {"adjourned", "minuted"} => minutes[g] # "none"
  /\ meeting[g].status = "minuted" => minutes[g] = "signed"
  /\ minutes[g] # "none" <=> meeting[g].adjourned
  /\ meeting[g].adjourned => meeting[g].convened
  /\ addenda[g] > 0 => minutes[g] = "signed"
  /\ meeting[g].status = "none" => agendas[g] = {}
  /\ \A a \in Actions : action[a].linked /\ action[a].meeting = g => minutes[g] = "signed"

MeetingsAgree == \A g \in Meetings : MeetingAgrees(g)

\* The rows of the committee agree with each other, although requests decide on
\* objects that others have changed meanwhile.  (The status of a meeting need
\* not move forward: an agenda published from a draft read before the meeting
\* was convened takes it back to agenda_issued.)
RecordsAgree == MembersAgree /\ ConflictsAgree /\ AgendasNumbered /\ MeetingsAgree

\* An export is executed once, within its window, by a second officer who like
\* the first is an active member at that moment, and then stays as it is.
ExportHasTwoOfficers ==
  [][\A e \in Exports :
       LET req == export[e] IN
       /\ req.status = "Executed" => export'[e] = req
       /\ export'[e].status = "Executed" /\ req.status # "Executed" =>
            /\ {req.requester, export'[e].cosigner} \subseteq
                 {m \in Members : member[m].status = "active"}
            /\ req.requester # export'[e].cosigner
            /\ today <= req.expires]_vars

\* Nobody remains an active member past the end of the tenure: an amendment of a
\* row read before may bring an expired member back, but not for good.
TenureEnds ==
  \A m \in Members :
    member[m].active /\ PastTenure(m) ~> ~member[m].active \/ ~PastTenure(m)
=============================================================================
