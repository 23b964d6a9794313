-------------------------- MODULE CommitteeProofs ---------------------------
(***************************************************************************)
(* Proofs about Committee: its rows are well-typed and agree with each     *)
(* other, and an export of the vault has two officers, for any number of   *)
(* members, meetings, exports and requests at a time.                      *)
(*                                                                         *)
(* A service decides on the object its view has read.  What the invariant  *)
(* adds to the properties is therefore what is still true of the rows when *)
(* the object was such and such: whatever a request relies on either stays *)
(* true of a row once it is, or is guarded by the row's lock.              *)
(***************************************************************************)
EXTENDS Committee, TLAPS

-----------------------------------------------------------------------------
(* The invariant.                                                          *)

\* Stronger than AgendasNumbered, and without a greatest element to look for.
Numbered == \A g \in Meetings : \E k \in 0..MaxAgendas : agendas[g] = 1..k

\* Who asked for an export is a member.
Requested == \A e \in Exports : export[e].status # "none" => export[e].requester \in Members

\* All that is known of the object of request w.
MemberCopy(w) ==
  held[w].op = "amend" => (held[w].copy.active <=> held[w].copy.status = "active")

MeetingCopy(w) ==
  /\ held[w].op \in {"agenda", "attendance", "convene", "adjourn", "numbered"} =>
       meeting[held[w].id].status # "none"
  /\ held[w].op = "numbered" =>
       held[w].version \in Nat \ {0} /\ 1..(held[w].version - 1) \subseteq agendas[held[w].id]
  /\ held[w].op = "adjourn" /\ held[w].copy.status = "convened" =>
       meeting[held[w].id].convened
  /\ held[w].op = "sign" => minutes[held[w].id] # "none"
  /\ held[w].op = "addendum" /\ held[w].copy.approved => minutes[held[w].id] = "signed"

ExportCopy(w) ==
  held[w].op = "cosign" =>
    /\ held[w].copy = export[held[w].id] /\ held[w].copy.status # "none"
    /\ \A v \in Workers \ {w} : held[v].op = "cosign" => held[v].id # held[w].id

Inv ==
  /\ TypeOK
  /\ MembersAgree /\ ConflictsAgree /\ Numbered /\ MeetingsAgree /\ Requested
  /\ \A w \in Workers : MemberCopy(w) /\ MeetingCopy(w) /\ ExportCopy(w)

USE CommitteeAssumption

-----------------------------------------------------------------------------
(* What a request holds.                                                   *)

LEMMA RequestTypes ==
  ASSUME NEW r \in Request
  PROVE  /\ r.op \in {"none", "amend", "activate", "review", "agenda", "attendance", "convene",
                      "adjourn", "numbered", "sign", "addendum", "cosign"}
         /\ r.op \in {"amend", "activate"} => r.id \in Members /\ r.copy \in NBECMember
         /\ r.op = "review" => r.id \in Conflicts
         /\ r.op \in {"agenda", "attendance", "convene", "adjourn", "numbered"} =>
              r.id \in Meetings /\ r.copy \in Meeting
         /\ r.op = "numbered" => r.version \in Nat
         /\ r.op \in {"sign", "addendum"} =>
              r.id \in Meetings /\ r.copy.status \in Statuses /\ r.copy.approved \in BOOLEAN
         /\ r.op = "cosign" => r.id \in Exports /\ r.copy \in VaultExportRequest
<1>1. CASE r \in [op : {"none"}]
  BY <1>1
<1>2. CASE r \in [op : {"amend", "activate"}, id : Members, copy : NBECMember]
  BY <1>2
<1>3. CASE r \in [op : {"review"}, id : Conflicts, copy : ConflictDeclaration]
  BY <1>3
<1>4. CASE r \in [op : {"agenda", "attendance", "convene", "adjourn"}, id : Meetings, copy : Meeting]
  BY <1>4
<1>5. CASE r \in [op : {"numbered"}, id : Meetings, copy : Meeting, version : Nat]
  BY <1>5
<1>6. CASE r \in [op : {"sign", "addendum"}, id : Meetings,
                  copy : [status : Statuses, approved : BOOLEAN]]
  BY <1>6
<1>7. CASE r \in [op : {"cosign"}, id : Exports, copy : VaultExportRequest]
  BY <1>7
<1> QED
  BY <1>1, <1>2, <1>3, <1>4, <1>5, <1>6, <1>7 DEF Request

\* The rows that requests rely on change in one direction only, and a locked
\* export does not change.
Persists ==
  /\ \A g \in Meetings :
       /\ meeting[g].status # "none" => meeting'[g].status # "none"
       /\ meeting[g].convened => meeting'[g].convened
       /\ minutes[g] # "none" => minutes'[g] # "none"
       /\ minutes[g] = "signed" => minutes'[g] = "signed"
       /\ agendas[g] \subseteq agendas'[g]
  /\ \A w \in Workers :
       held'[w].op = "cosign" => export'[held[w].id] = export[held[w].id]

KeptOrDone == \A w \in Workers : held'[w] = held[w] \/ held'[w] = Unread

Copies(w) == MemberCopy(w) /\ MeetingCopy(w) /\ ExportCopy(w)

LEMMA UnreadIsRequest == Unread \in Request /\ Unread.op = "none"
BY DEF Unread, Request

\* A step that reads nothing.
LEMMA CopiesKeep ==
  ASSUME Inv, KeptOrDone, Persists
  PROVE  \A w \in Workers : Copies(w)'
<1> SUFFICES ASSUME NEW w \in Workers PROVE Copies(w)'
  OBVIOUS
<1>1. held[w] \in Request /\ Copies(w)
  BY DEF Inv, TypeOK, Copies
<1>2. CASE held'[w] = Unread
  BY <1>2, UnreadIsRequest DEF Copies, MemberCopy, MeetingCopy, ExportCopy
<1>3. CASE held'[w] = held[w] /\ held[w].op # "none"
  <2>1. MemberCopy(w)'
    BY <1>1, <1>3 DEF Copies, MemberCopy
  <2>2. MeetingCopy(w)'
    <3>1. held[w].op \in {"agenda", "attendance", "convene", "adjourn", "numbered", "sign", "addendum"} =>
            held[w].id \in Meetings
      BY <1>1, RequestTypes
    <3> QED
      BY <1>1, <1>3, <3>1 DEF Copies, MeetingCopy, Persists
  <2>3. ExportCopy(w)'
    BY <1>1, <1>3, UnreadIsRequest DEF Copies, ExportCopy, Persists, KeptOrDone
  <2> QED
    BY <2>1, <2>2, <2>3 DEF Copies
<1>4. CASE held'[w] = held[w] /\ held[w].op = "none"
  BY <1>4 DEF Copies, MemberCopy, MeetingCopy, ExportCopy
<1> QED
  BY <1>2, <1>3, <1>4 DEF KeptOrDone

\* A step of one worker that reads, and changes nothing else.
LEMMA ReadKeeps ==
  ASSUME Inv, NEW w \in Workers, NEW r \in Request, held' = [held EXCEPT ![w] = r],
         UNCHANGED <<registerVars, meetingVars, export, due, today>>,
         MemberCopy(w)', MeetingCopy(w)', ExportCopy(w)'
  PROVE  Inv'
<1>1. held' \in [Workers -> Request] /\ held'[w] = r /\ \A v \in Workers \ {w} : held'[v] = held[v]
  BY DEF Inv, TypeOK
<1>2. TypeOK'
  BY <1>1 DEF Inv, TypeOK, registerVars, meetingVars
<1>3. /\ MembersAgree' /\ ConflictsAgree' /\ Numbered' /\ MeetingsAgree' /\ Requested'
  BY DEF Inv, registerVars, meetingVars, MembersAgree, OneActiveChair, ConflictsAgree, Numbered,
         MeetingsAgree, MeetingAgrees, Requested
<1>4. ASSUME NEW v \in Workers, v # w PROVE MemberCopy(v)' /\ MeetingCopy(v)' /\ ExportCopy(v)'
  <2>1. MemberCopy(v) /\ MeetingCopy(v) /\ ExportCopy(v) /\ held'[v] = held[v]
    BY <1>1, <1>4 DEF Inv
  <2>2. MemberCopy(v)' /\ MeetingCopy(v)'
    BY <2>1 DEF MemberCopy, MeetingCopy, meetingVars
  <2>3. ExportCopy(v)'
    BY <1>1, <1>4, <2>1 DEF ExportCopy
  <2> QED
    BY <2>2, <2>3
<1> QED
  BY <1>2, <1>3, <1>4 DEF Inv

-----------------------------------------------------------------------------
(* What the views read.                                                    *)

LEMMA MemberReadKeeps ==
  ASSUME Inv, NEW w \in Workers, NEW m \in Members, MemberDetail(w, m) \/ MemberActivate(w, m)
  PROVE  Inv'
<1> PICK op \in {"amend", "activate"} : Fetch(w, op, m, member[m])
           /\ UNCHANGED <<registerVars, meetingVars, export, due, today>>
  BY DEF MemberDetail, MemberActivate
<1> DEFINE r == [op |-> op, id |-> m, copy |-> member[m]]
<1>1. r \in Request
  BY DEF Inv, TypeOK, Request
<1>2. held' = [held EXCEPT ![w] = r] /\ held'[w] = r
  BY DEF Fetch, Inv, TypeOK
<1>3. MemberCopy(w)' /\ MeetingCopy(w)' /\ ExportCopy(w)'
  BY <1>2 DEF Inv, MembersAgree, MemberCopy, MeetingCopy, ExportCopy
<1> QED
  BY <1>1, <1>2, <1>3, ReadKeeps

LEMMA ReviewReadKeeps ==
  ASSUME Inv, NEW w \in Workers, NEW c \in Conflicts, COIReview(w, c)
  PROVE  Inv'
<1> DEFINE r == [op |-> "review", id |-> c, copy |-> conflict[c]]
<1>1. r \in Request
  BY DEF Inv, TypeOK, Request
<1>2. held' = [held EXCEPT ![w] = r] /\ held'[w] = r
  BY DEF COIReview, Fetch, Inv, TypeOK
<1>3. MemberCopy(w)' /\ MeetingCopy(w)' /\ ExportCopy(w)'
  BY <1>2 DEF MemberCopy, MeetingCopy, ExportCopy
<1> QED
  BY <1>1, <1>2, <1>3, ReadKeeps DEF COIReview

\* A convened meeting has the flag, and it is what adjourn relies on.
LEMMA MeetingReadKeeps ==
  ASSUME Inv, NEW w \in Workers, NEW g \in Meetings,
         \/ MeetingAgenda(w, g) \/ MeetingAttendance(w, g)
         \/ MeetingConvene(w, g) \/ MeetingAdjourn(w, g)
  PROVE  Inv'
<1> PICK op \in {"agenda", "attendance", "convene", "adjourn"} : ReadMeeting(w, op, g)
  BY DEF MeetingAgenda, MeetingAttendance, MeetingConvene, MeetingAdjourn
<1> DEFINE r == [op |-> op, id |-> g, copy |-> meeting[g]]
<1>1. r \in Request
  BY DEF Inv, TypeOK, Request
<1>2. held' = [held EXCEPT ![w] = r] /\ held'[w] = r /\ meeting[g].status # "none"
      /\ UNCHANGED <<registerVars, meetingVars, export, due, today>>
  BY DEF ReadMeeting, Fetch, Inv, TypeOK
<1>3. meeting[g].status = "convened" => meeting[g].convened
  BY DEF Inv, MeetingsAgree, MeetingAgrees
<1>4. MemberCopy(w)' /\ MeetingCopy(w)' /\ ExportCopy(w)'
  BY <1>2, <1>3 DEF MemberCopy, MeetingCopy, ExportCopy, meetingVars
<1> QED
  BY <1>1, <1>2, <1>4, ReadKeeps

LEMMA MinutesReadKeeps ==
  ASSUME Inv, NEW w \in Workers, NEW g \in Meetings, MinutesSign(w, g) \/ MinutesAddendum(w, g)
  PROVE  Inv'
<1> PICK op \in {"sign", "addendum"} : ReadMinutes(w, op, g)
  BY DEF MinutesSign, MinutesAddendum
<1> DEFINE r == [op |-> op, id |-> g,
                 copy |-> [status |-> meeting[g].status, approved |-> minutes[g] = "signed"]]
<1>1. r \in Request
  <2>1. meeting[g].status \in Statuses
    BY DEF Inv, TypeOK, Meeting
  <2> QED
    BY <2>1 DEF Request
<1>2. held' = [held EXCEPT ![w] = r] /\ held'[w] = r /\ minutes[g] # "none"
      /\ UNCHANGED <<registerVars, meetingVars, export, due, today>>
  BY DEF ReadMinutes, Fetch, Inv, TypeOK
<1> HIDE DEF r
<1>3. r.op \in {"sign", "addendum"} /\ r.id = g /\ r.copy.approved = (minutes[g] = "signed")
  BY DEF r
<1>4. MemberCopy(w)' /\ ExportCopy(w)'
  BY <1>2, <1>3 DEF MemberCopy, ExportCopy
<1>5. MeetingCopy(w)'
  <2>1. minutes' = minutes /\ held'[w].id = g /\ held'[w].op \in {"sign", "addendum"}
    BY <1>2, <1>3 DEF meetingVars
  <2>2. held'[w].copy.approved => minutes'[g] = "signed"
    BY <1>2, <1>3, <2>1
  <2> QED
    BY <1>2, <2>1, <2>2 DEF MeetingCopy
<1> QED
  BY <1>1, <1>2, <1>4, <1>5, ReadKeeps

\* The lock: nobody else holds the export.
LEMMA ExportReadKeeps ==
  ASSUME Inv, NEW w \in Workers, NEW e \in Exports, CosignExport(w, e)
  PROVE  Inv'
<1> DEFINE r == [op |-> "cosign", id |-> e, copy |-> export[e]]
<1>1. r \in Request
  BY DEF Inv, TypeOK, Request
<1>2. held' = [held EXCEPT ![w] = r] /\ held'[w] = r /\ \A v \in Workers \ {w} : held'[v] = held[v]
  BY DEF CosignExport, Fetch, Inv, TypeOK
<1>3. UNCHANGED <<registerVars, meetingVars, export, due, today>>
      /\ (\A v \in Workers : held[v].op = "cosign" => held[v].id # e) /\ export[e].status # "none"
  BY DEF CosignExport, RowIsFree, Fetch
<1>4. MemberCopy(w)' /\ MeetingCopy(w)' /\ ExportCopy(w)'
  BY <1>2, <1>3 DEF MemberCopy, MeetingCopy, ExportCopy
<1> QED
  BY <1>1, <1>2, <1>3, <1>4, ReadKeeps

\* The last version of k agendas is k, and the next k + 1.
LEMMA VersionReadKeeps ==
  ASSUME Inv, NEW w \in Workers, LastVersion(w)
  PROVE  Inv'
<1> DEFINE g  == held[w].id
           vs == agendas[g]
           n  == IF vs = {} THEN 1 ELSE 1 + CHOOSE v \in vs : \A u \in vs : u <= v
           r  == [op |-> "numbered", id |-> g, copy |-> held[w].copy, version |-> n]
<1>1. /\ held[w] \in Request /\ held[w].op = "agenda" /\ held[w].id \in Meetings
      /\ held[w].copy \in Meeting /\ meeting[held[w].id].status # "none"
  <2>1. held[w] \in Request /\ held[w].op = "agenda" /\ MeetingCopy(w)
    BY DEF LastVersion, Inv, TypeOK
  <2> QED
    BY <2>1, RequestTypes DEF MeetingCopy
<1>2. PICK k \in 0..MaxAgendas : vs = 1..k
  BY <1>1 DEF Inv, Numbered
<1>3. n = k + 1
  <2>1. CASE k = 0
    BY <1>2, <2>1
  <2>2. CASE k # 0
    <3> HIDE DEF vs
    <3>1. k \in vs /\ \A u \in vs : u <= k
      BY <1>2, <2>2
    <3>2. \A v \in vs : (\A u \in vs : u <= v) => v = k
      BY <1>2, <3>1
    <3>3. \E v \in vs : \A u \in vs : u <= v
      BY <3>1
    <3> DEFINE last == CHOOSE v \in vs : \A u \in vs : u <= v
    <3>4. last \in vs /\ \A u \in vs : u <= last
      BY <3>3
    <3>5. vs # {} /\ n = 1 + last
      BY <3>1
    <3> HIDE DEF last, n
    <3> QED
      BY <3>2, <3>4, <3>5
  <2> QED
    BY <2>1, <2>2
<1>4. held' = [held EXCEPT ![w] = r] /\ held'[w] = r
  BY DEF LastVersion, Inv, TypeOK
<1>5. r \in Request /\ n \in Nat \ {0}
  BY <1>1, <1>2, <1>3 DEF Request
<1>6. MeetingCopy(w)'
  <2> HIDE DEF n
  <2>1. 1..(n - 1) \subseteq agendas[g]
    BY <1>2, <1>3
  <2>2. UNCHANGED meetingVars
    BY DEF LastVersion
  <2> QED
    BY <1>1, <1>4, <1>5, <2>1, <2>2 DEF MeetingCopy, meetingVars
<1> HIDE DEF r
<1>7. r.op = "numbered"
  BY DEF r
<1>8. MemberCopy(w)' /\ ExportCopy(w)'
  BY <1>4, <1>7 DEF MemberCopy, ExportCopy
<1> QED
  BY <1>4, <1>5, <1>6, <1>8, ReadKeeps DEF LastVersion

-----------------------------------------------------------------------------
(* What the services write.                                                *)

\* A request that is answered.
LEMMA Answered ==
  ASSUME Inv, NEW w \in Workers, NEW op, Answer(w, op)
  PROVE  /\ held[w] \in Request /\ held[w].op = op /\ Copies(w)
         /\ KeptOrDone /\ held' \in [Workers -> Request]
BY UnreadIsRequest DEF Answer, Inv, TypeOK, Copies, KeptOrDone

LEMMA SamePersist ==
  ASSUME Inv, KeptOrDone, UNCHANGED <<meetingVars, export>>
  PROVE  Persists
BY DEF Persists, meetingVars

\* A member's row is saved.
LEMMA MemberSaveKeeps ==
  ASSUME Inv, KeptOrDone, held' \in [Workers -> Request],
         NEW m \in Members, NEW row \in NBECMember, row.active <=> row.status = "active",
         member' = [member EXCEPT ![m] = row], OneActiveChair(member'),
         due' \subseteq Members, UNCHANGED <<conflict, meetingVars, export, today>>
  PROVE  Inv'
<1>1. TypeOK'
  BY DEF Inv, TypeOK, meetingVars
<1>2. MembersAgree'
  BY DEF Inv, TypeOK, MembersAgree, OneActiveChair
<1>3. ConflictsAgree' /\ Numbered' /\ MeetingsAgree' /\ Requested'
  BY DEF Inv, meetingVars, ConflictsAgree, Numbered, MeetingsAgree, MeetingAgrees, Requested
<1>4. \A w \in Workers : Copies(w)'
  BY CopiesKeep, SamePersist
<1> QED
  BY <1>1, <1>2, <1>3, <1>4 DEF Inv, Copies

\* A meeting, its agendas, its minutes or its action items are: the rows of
\* meeting g become these, and keep what requests rely on.
Saves(g, row, versions, status, count) ==
  /\ meeting' = [meeting EXCEPT ![g] = row]
  /\ agendas' = [agendas EXCEPT ![g] = versions]
  /\ minutes' = [minutes EXCEPT ![g] = status]
  /\ addenda' = [addenda EXCEPT ![g] = count]
  /\ action' \in [Actions -> ActionItem]
  /\ \A i \in Actions : /\ action'[i].meeting = action[i].meeting
                        /\ action'[i].linked /\ ~action[i].linked => action[i].meeting = g
  /\ UNCHANGED <<registerVars, export, due, today>>
  /\ row \in Meeting /\ status \in Minutes /\ count \in 0..MaxAddenda
  /\ \E k \in 0..MaxAgendas : versions = 1..k
  /\ meeting[g].status # "none" => row.status # "none"
  /\ meeting[g].convened => row.convened
  /\ minutes[g] # "none" => status # "none"
  /\ minutes[g] = "signed" => status = "signed"
  /\ agendas[g] \subseteq versions

LEMMA MeetingSaveKeeps ==
  ASSUME Inv, KeptOrDone, held' \in [Workers -> Request],
         NEW g \in Meetings, NEW row, NEW versions, NEW status, NEW count,
         Saves(g, row, versions, status, count), MeetingAgrees(g)'
  PROVE  Inv'
<1> USE DEF Saves
<1>0. versions \in SUBSET (1..MaxAgendas)
  OBVIOUS
<1>1. TypeOK'
  BY <1>0 DEF Inv, TypeOK, registerVars
<1>2. /\ meeting'[g] = row /\ agendas'[g] = versions /\ minutes'[g] = status /\ addenda'[g] = count
      /\ \A h \in Meetings \ {g} : /\ meeting'[h] = meeting[h] /\ agendas'[h] = agendas[h]
                                   /\ minutes'[h] = minutes[h] /\ addenda'[h] = addenda[h]
  BY DEF Inv, TypeOK
<1>3. MembersAgree' /\ ConflictsAgree' /\ Requested'
  BY DEF Inv, registerVars, MembersAgree, OneActiveChair, ConflictsAgree, Requested
<1>4. Numbered'
  BY <1>2 DEF Inv, Numbered
<1>5. ASSUME NEW h \in Meetings, h # g PROVE MeetingAgrees(h)'
  <2>1. MeetingAgrees(h)
    BY DEF Inv, MeetingsAgree
  <2>2. \A i \in Actions : action'[i].linked /\ action'[i].meeting = h =>
                             action[i].linked /\ action[i].meeting = h
    BY <1>1, <1>5 DEF Inv, TypeOK, ActionItem
  <2> QED
    BY <1>2, <1>5, <2>1, <2>2 DEF MeetingAgrees
<1>6. Persists
  BY <1>2 DEF Persists
<1>7. \A w \in Workers : Copies(w)'
  BY <1>6, CopiesKeep
<1> QED
  BY <1>1, <1>3, <1>4, <1>5, <1>7 DEF Inv, Copies, MeetingsAgree

-----------------------------------------------------------------------------
(* The services.                                                           *)

LEMMA MemberStepsKeep ==
  ASSUME Inv, MemberSteps
  PROVE  Inv'
<1>1. ASSUME NEW m \in Members, NEW role \in Roles, NEW tenure \in Tenures,
             MemberListCreate(m, role, tenure)
      PROVE  Inv'
  <2> DEFINE row == [status |-> "draft", active |-> FALSE, role |-> role, tenure |-> tenure]
  <2>1. row \in NBECMember /\ (row.active <=> row.status = "active")
    BY DEF NBECMember
  <2>2. member' = [member EXCEPT ![m] = row] /\ OneActiveChair(member')
        /\ UNCHANGED <<conflict, meetingVars, export, due, today, held>>
    BY <1>1 DEF MemberListCreate, CreateMember, SaveMember
  <2>3. KeptOrDone /\ held' \in [Workers -> Request] /\ due' \subseteq Members
    BY <2>2 DEF KeptOrDone, Inv, TypeOK
  <2> QED
    BY <2>1, <2>2, <2>3, MemberSaveKeeps
<1>2. ASSUME NEW w \in Workers, NEW role \in Roles, NEW tenure \in Tenures,
             AmendMember(w, role, tenure)
      PROVE  Inv'
  <2> DEFINE row == [held[w].copy EXCEPT !.role = role, !.tenure = tenure]
  <2>1. /\ held[w].id \in Members /\ held[w].copy \in NBECMember
        /\ held[w].copy.active <=> held[w].copy.status = "active"
        /\ KeptOrDone /\ held' \in [Workers -> Request]
    <3>1. held[w] \in Request /\ held[w].op = "amend" /\ Copies(w)
          /\ KeptOrDone /\ held' \in [Workers -> Request]
      BY <1>2, Answered DEF AmendMember
    <3> QED
      BY <3>1, RequestTypes DEF Copies, MemberCopy
  <2>2. row \in NBECMember /\ (row.active <=> row.status = "active")
    BY <2>1 DEF NBECMember
  <2>3. member' = [member EXCEPT ![held[w].id] = row] /\ OneActiveChair(member')
        /\ UNCHANGED <<conflict, meetingVars, export, due, today>>
    BY <1>2 DEF AmendMember, SaveMember
  <2>4. due' \subseteq Members
    BY <2>3 DEF Inv, TypeOK
  <2> HIDE DEF row
  <2> QED
    BY <2>1, <2>2, <2>3, <2>4, MemberSaveKeeps
<1>3. ASSUME NEW w \in Workers, ActivateMember(w)
      PROVE  Inv'
  <2> DEFINE row == Activated(held[w].id)
  <2>1. held[w].id \in Members /\ KeptOrDone /\ held' \in [Workers -> Request]
    <3>1. held[w] \in Request /\ held[w].op = "activate"
          /\ KeptOrDone /\ held' \in [Workers -> Request]
      BY <1>3, Answered DEF ActivateMember
    <3> QED
      BY <3>1, RequestTypes
  <2>2. row \in NBECMember /\ (row.active <=> row.status = "active")
    <3>1. member[held[w].id] \in NBECMember
      BY <2>1 DEF Inv, TypeOK
    <3> QED
      BY <3>1 DEF Activated, NBECMember
  <2>3. member' = [member EXCEPT ![held[w].id] = row] /\ OneActiveChair(member')
        /\ UNCHANGED <<conflict, meetingVars, export, due, today>>
    BY <1>3 DEF ActivateMember, SaveMember
  <2>4. due' \subseteq Members
    BY <2>3 DEF Inv, TypeOK
  <2> HIDE DEF row
  <2> QED
    BY <2>1, <2>2, <2>3, <2>4, MemberSaveKeeps
<1>4. ASSUME ListDue PROVE Inv'
  <2>1. due' \subseteq Members /\ UNCHANGED <<registerVars, meetingVars, export, held, today>>
    BY <1>4 DEF ListDue
  <2>2. KeptOrDone /\ held' \in [Workers -> Request]
    BY <2>1 DEF KeptOrDone, Inv, TypeOK
  <2>3. \A w \in Workers : Copies(w)'
    BY <2>1, <2>2, CopiesKeep, SamePersist
  <2> QED
    BY <2>1, <2>3 DEF Inv, Copies, TypeOK, registerVars, meetingVars, MembersAgree, OneActiveChair,
                      ConflictsAgree, Numbered, MeetingsAgree, MeetingAgrees, Requested
<1>5. ASSUME NEW m \in Members, ExpireDue(m) PROVE Inv'
  <2> DEFINE row == Expired(m)
  <2>1. row \in NBECMember /\ (row.active <=> row.status = "active") /\ row.status # "active"
    BY DEF Expired, NBECMember, Inv, TypeOK
  <2>2. member' = [member EXCEPT ![m] = row] /\ due' \subseteq Members
        /\ UNCHANGED <<conflict, meetingVars, export, held, today>>
    BY <1>5 DEF ExpireDue, Inv, TypeOK
  <2>3. KeptOrDone /\ held' \in [Workers -> Request]
    BY <2>2 DEF KeptOrDone, Inv, TypeOK
  <2> HIDE DEF row
  <2>4. OneActiveChair(member')
    BY <2>1, <2>2 DEF Inv, TypeOK, MembersAgree, OneActiveChair
  <2> QED
    BY <2>1, <2>2, <2>3, <2>4, MemberSaveKeeps
<1> QED
  BY <1>1, <1>2, <1>3, <1>4, <1>5, MemberReadKeeps DEF MemberSteps, MonitorTenureExpiry

LEMMA ConflictStepsKeep ==
  ASSUME Inv, ConflictSteps
  PROVE  Inv'
<1>1. ASSUME NEW c \in Conflicts, NEW row \in ConflictDeclaration,
             row.reviewed <=> row.status \in {"approved", "dismissed"},
             conflict' = [conflict EXCEPT ![c] = row],
             KeptOrDone, held' \in [Workers -> Request],
             UNCHANGED <<member, meetingVars, export, due, today>>
      PROVE  Inv'
  <2>1. TypeOK'
    BY <1>1 DEF Inv, TypeOK, meetingVars
  <2>2. ConflictsAgree'
    BY <1>1 DEF Inv, TypeOK, ConflictsAgree
  <2>3. MembersAgree' /\ Numbered' /\ MeetingsAgree' /\ Requested'
    BY <1>1 DEF Inv, meetingVars, MembersAgree, OneActiveChair, Numbered, MeetingsAgree,
                MeetingAgrees, Requested
  <2>4. \A w \in Workers : Copies(w)'
    BY <1>1, CopiesKeep, SamePersist
  <2> QED
    BY <2>1, <2>2, <2>3, <2>4 DEF Inv, Copies
<1>2. ASSUME NEW c \in Conflicts, COICreate(c) PROVE Inv'
  <2> DEFINE row == [conflict[c] EXCEPT !.status = "pending"]
  <2>1. row \in ConflictDeclaration /\ (row.reviewed <=> row.status \in {"approved", "dismissed"})
    BY <1>2 DEF COICreate, DeclareCoi, Inv, TypeOK, ConflictsAgree, ConflictDeclaration
  <2>2. conflict' = [conflict EXCEPT ![c] = row]
        /\ UNCHANGED <<member, meetingVars, export, due, today, held>>
    BY <1>2 DEF COICreate, DeclareCoi, Inv, TypeOK
  <2>3. KeptOrDone /\ held' \in [Workers -> Request]
    BY <2>2 DEF KeptOrDone, Inv, TypeOK
  <2> HIDE DEF row
  <2> QED
    BY <1>1, <2>1, <2>2, <2>3
<1>3. ASSUME NEW w \in Workers, NEW verdict \in {"approved", "dismissed"}, ReviewCoi(w, verdict)
      PROVE  Inv'
  <2> DEFINE row == [status |-> verdict, reviewed |-> TRUE]
  <2>1. held[w].id \in Conflicts /\ KeptOrDone /\ held' \in [Workers -> Request]
    <3>1. held[w] \in Request /\ held[w].op = "review"
          /\ KeptOrDone /\ held' \in [Workers -> Request]
      BY <1>3, Answered DEF ReviewCoi
    <3> QED
      BY <3>1, RequestTypes
  <2>2. row \in ConflictDeclaration /\ row.reviewed /\ row.status \in {"approved", "dismissed"}
    BY DEF ConflictDeclaration
  <2>3. conflict' = [conflict EXCEPT ![held[w].id] = row]
        /\ UNCHANGED <<member, meetingVars, export, due, today>>
    BY <1>3 DEF ReviewCoi
  <2> HIDE DEF row
  <2> QED
    BY <1>1, <2>1, <2>2, <2>3
<1> QED
  BY <1>2, <1>3, ReviewReadKeeps DEF ConflictSteps

\* What is known of a meeting, and that a row a step leaves alone is as written.
RowsOf(g) ==
  /\ meeting[g] \in Meeting /\ meeting = [meeting EXCEPT ![g] = meeting[g]]
  /\ agendas = [agendas EXCEPT ![g] = agendas[g]]
  /\ minutes[g] \in Minutes /\ minutes = [minutes EXCEPT ![g] = minutes[g]]
  /\ addenda[g] \in 0..MaxAddenda /\ addenda = [addenda EXCEPT ![g] = addenda[g]]
  /\ action \in [Actions -> ActionItem]
  /\ \E k \in 0..MaxAgendas : agendas[g] = 1..k

LEMMA MeetingRows ==
  ASSUME Inv, NEW g \in Meetings
  PROVE  RowsOf(g) /\ MeetingAgrees(g)
BY DEF Inv, TypeOK, MeetingsAgree, Numbered, RowsOf

LEMMA MeetingStepsKeep ==
  ASSUME Inv, MeetingSteps
  PROVE  Inv'
<1>1. ASSUME NEW g \in Meetings, MeetingCreate(g) PROVE Inv'
  <2> DEFINE row == [meeting[g] EXCEPT !.status = "draft"]
  <2>a. RowsOf(g) /\ MeetingAgrees(g)
    BY MeetingRows
  <2>1. row \in Meeting /\ row.status = "draft" /\ row.convened = meeting[g].convened
        /\ row.adjourned = meeting[g].adjourned
    BY <2>a DEF RowsOf, Meeting, Statuses
  <2>2. meeting' = [meeting EXCEPT ![g] = row] /\ meeting'[g] = row /\ meeting[g].status = "none"
        /\ UNCHANGED <<registerVars, agendas, minutes, addenda, action, export, due, today, held>>
    BY <1>1 DEF MeetingCreate, ScheduleMeeting, Inv, TypeOK
  <2>3. KeptOrDone /\ held' \in [Workers -> Request]
    BY <2>2 DEF KeptOrDone, Inv, TypeOK
  <2> HIDE DEF row
  <2>4. MeetingAgrees(g)'
    BY <2>1, <2>2, <2>a DEF MeetingAgrees
  <2>c. Saves(g, row, agendas[g], minutes[g], addenda[g])
    BY <2>a, <2>1, <2>2, <2>3, <2>4 DEF RowsOf, Saves
  <2> QED
    BY <2>1, <2>2, <2>3, <2>4, <2>c, MeetingSaveKeeps
<1>2. ASSUME NEW w \in Workers, PublishAgenda(w) PROVE Inv'
  <2>1. held[w] \in Request /\ held[w].op = "numbered" /\ Copies(w)
        /\ KeptOrDone /\ held' \in [Workers -> Request]
    BY <1>2, Answered DEF PublishAgenda
  <2>b. PICK g \in Meetings : g = held[w].id
    BY <2>1, RequestTypes
  <2> DEFINE row == IF held[w].copy.status = "draft" THEN [meeting[g] EXCEPT !.status = "agenda_issued"]
                    ELSE meeting[g]
             a   == agendas[g] \cup {held[w].version}
  <2>2. g = held[w].id /\ meeting[g].status # "none" /\ held[w].version \in Nat \ {0}
        /\ 1..(held[w].version - 1) \subseteq agendas[g]
    BY <2>b, <2>1, RequestTypes DEF Copies, MeetingCopy
  <2>a. RowsOf(g) /\ MeetingAgrees(g)
    BY <2>2, MeetingRows
  <2>3. row \in Meeting /\ row.convened = meeting[g].convened /\ row.adjourned = meeting[g].adjourned
        /\ row.status \in {meeting[g].status, "agenda_issued"}
    BY <2>2, <2>a DEF RowsOf, Meeting, Statuses
  <2>4. meeting' = [meeting EXCEPT ![g] = row]
    BY <1>2, <2>2, <2>a DEF RowsOf, PublishAgenda
  <2>5. agendas' = [agendas EXCEPT ![g] = a] /\ held[w].version \notin agendas[g]
        /\ held[w].version <= MaxAgendas
        /\ UNCHANGED <<registerVars, minutes, addenda, action, export, due, today>>
    BY <1>2, <2>2 DEF PublishAgenda
  <2>6. PICK k \in 0..MaxAgendas : agendas[g] = 1..k
    BY <2>a DEF RowsOf
  <2>7. held[w].version = k + 1 /\ k + 1 \in 0..MaxAgendas
    <3> DEFINE v == held[w].version
    <3>1. v \in Nat \ {0} /\ v \notin 1..k /\ 1..(v - 1) \subseteq 1..k /\ v <= MaxAgendas
      BY <2>2, <2>5, <2>6
    <3>2. v = 1 \/ v - 1 \in 1..(v - 1)
      BY <3>1
    <3> HIDE DEF v
    <3>3. v = k + 1 /\ k + 1 \in 0..MaxAgendas
      BY <2>6, <3>1, <3>2
    <3> QED
      BY <3>3 DEF v
  <2>8. a = 1..(k + 1) /\ agendas[g] \subseteq a /\ a \in SUBSET (1..MaxAgendas)
    BY <2>6, <2>7
  <2> HIDE DEF row, a
  <2>9. meeting'[g] = row /\ agendas'[g] = a
    BY <2>2, <2>4, <2>5 DEF Inv, TypeOK
  <2>10. MeetingAgrees(g)'
    BY <2>2, <2>3, <2>5, <2>9, <2>a DEF MeetingAgrees
  <2>c. Saves(g, row, a, minutes[g], addenda[g])
    BY <2>a, <2>1, <2>2, <2>3, <2>4, <2>5, <2>7, <2>8, <2>10 DEF RowsOf, Saves
  <2> QED
    BY <2>1, <2>2, <2>3, <2>4, <2>5, <2>7, <2>8, <2>10, <2>c, MeetingSaveKeeps
<1>3. ASSUME NEW w \in Workers, NEW attendees \in SUBSET Members, RecordAttendance(w, attendees)
      PROVE  Inv'
  <2>1. held[w] \in Request /\ held[w].op = "attendance" /\ Copies(w)
        /\ KeptOrDone /\ held' \in [Workers -> Request]
    BY <1>3, Answered DEF RecordAttendance
  <2>2. PICK g \in Meetings : g = held[w].id
    BY <2>1, RequestTypes
  <2> DEFINE row == [meeting[g] EXCEPT !.attendees = attendees]
  <2>a. RowsOf(g) /\ MeetingAgrees(g)
    BY <2>2, MeetingRows
  <2>3. row \in Meeting /\ row.convened = meeting[g].convened /\ row.adjourned = meeting[g].adjourned
        /\ row.status = meeting[g].status
    BY <2>2, <2>a DEF RowsOf, Meeting
  <2>4. meeting' = [meeting EXCEPT ![g] = row] /\ meeting'[g] = row
        /\ UNCHANGED <<registerVars, agendas, minutes, addenda, action, export, due, today>>
    BY <1>3, <2>2 DEF RecordAttendance, Inv, TypeOK
  <2> HIDE DEF row
  <2>5. MeetingAgrees(g)'
    BY <2>2, <2>3, <2>4, <2>a DEF MeetingAgrees
  <2>c. Saves(g, row, agendas[g], minutes[g], addenda[g])
    BY <2>a, <2>1, <2>2, <2>3, <2>4, <2>5 DEF RowsOf, Saves
  <2> QED
    BY <2>1, <2>2, <2>3, <2>4, <2>5, <2>c, MeetingSaveKeeps
<1>4. ASSUME NEW w \in Workers, ConveneMeeting(w) PROVE Inv'
  <2>1. held[w] \in Request /\ held[w].op = "convene" /\ Copies(w)
        /\ KeptOrDone /\ held' \in [Workers -> Request]
    BY <1>4, Answered DEF ConveneMeeting
  <2>2. PICK g \in Meetings : g = held[w].id
    BY <2>1, RequestTypes
  <2> DEFINE row == [meeting[g] EXCEPT !.status = "convened", !.convened = TRUE]
  <2>a. RowsOf(g) /\ MeetingAgrees(g)
    BY <2>2, MeetingRows
  <2>3. row \in Meeting /\ row.convened /\ row.adjourned = meeting[g].adjourned
        /\ row.status = "convened"
    BY <2>2, <2>a DEF RowsOf, Meeting, Statuses
  <2>4. meeting' = [meeting EXCEPT ![g] = row] /\ meeting'[g] = row
        /\ UNCHANGED <<registerVars, agendas, minutes, addenda, action, export, due, today>>
    BY <1>4, <2>2 DEF ConveneMeeting, Inv, TypeOK
  <2> HIDE DEF row
  <2>5. MeetingAgrees(g)'
    BY <2>2, <2>3, <2>4, <2>a DEF MeetingAgrees
  <2>c. Saves(g, row, agendas[g], minutes[g], addenda[g])
    BY <2>a, <2>1, <2>2, <2>3, <2>4, <2>5 DEF RowsOf, Saves
  <2> QED
    BY <2>1, <2>2, <2>3, <2>4, <2>5, <2>c, MeetingSaveKeeps
<1>5. ASSUME NEW w \in Workers, AdjournMeeting(w) PROVE Inv'
  <2>1. held[w] \in Request /\ held[w].op = "adjourn" /\ Copies(w)
        /\ KeptOrDone /\ held' \in [Workers -> Request]
    BY <1>5, Answered DEF AdjournMeeting
  <2>b. PICK g \in Meetings : g = held[w].id
    BY <2>1, RequestTypes
  <2> DEFINE row == [meeting[g] EXCEPT !.status = "adjourned", !.adjourned = TRUE]
  <2>2. g = held[w].id /\ meeting[g].convened /\ minutes[g] = "none"
    BY <2>b, <1>5, <2>1, RequestTypes DEF AdjournMeeting, Copies, MeetingCopy
  <2>a. RowsOf(g) /\ MeetingAgrees(g)
    BY <2>2, MeetingRows
  <2>3. row \in Meeting /\ row.convened = meeting[g].convened /\ row.adjourned
        /\ row.status = "adjourned" /\ "draft" \in Minutes
    BY <2>2, <2>a DEF RowsOf, Meeting, Statuses, Minutes
  <2>4. meeting' = [meeting EXCEPT ![g] = row] /\ meeting'[g] = row
        /\ minutes' = [minutes EXCEPT ![g] = "draft"] /\ minutes'[g] = "draft"
        /\ UNCHANGED <<registerVars, agendas, addenda, action, export, due, today>>
    BY <1>5, <2>2 DEF AdjournMeeting, Inv, TypeOK
  <2> HIDE DEF row
  <2>5. MeetingAgrees(g)'
    BY <2>2, <2>3, <2>4, <2>a DEF MeetingAgrees
  <2>c. Saves(g, row, agendas[g], "draft", addenda[g])
    BY <2>a, <2>1, <2>2, <2>3, <2>4, <2>5 DEF RowsOf, Saves
  <2> QED
    BY <2>1, <2>2, <2>3, <2>4, <2>5, <2>c, MeetingSaveKeeps
<1>6. ASSUME NEW w \in Workers, SignMinutes(w) PROVE Inv'
  <2>1. held[w] \in Request /\ held[w].op = "sign" /\ Copies(w)
        /\ KeptOrDone /\ held' \in [Workers -> Request]
    BY <1>6, Answered DEF SignMinutes
  <2>b. PICK g \in Meetings : g = held[w].id
    BY <2>1, RequestTypes
  <2> DEFINE row == IF held[w].copy.status = "adjourned" THEN [meeting[g] EXCEPT !.status = "minuted"]
                    ELSE meeting[g]
  <2>2. g = held[w].id /\ minutes[g] # "none"
    BY <2>b, <2>1, RequestTypes DEF Copies, MeetingCopy
  <2>a. RowsOf(g) /\ MeetingAgrees(g)
    BY <2>2, MeetingRows
  <2>3. row \in Meeting /\ row.convened = meeting[g].convened /\ row.adjourned = meeting[g].adjourned
        /\ row.status \in {meeting[g].status, "minuted"} /\ "signed" \in Minutes
    BY <2>2, <2>a DEF RowsOf, Meeting, Statuses, Minutes
  <2>4. meeting' = [meeting EXCEPT ![g] = row] /\ meeting'[g] = row
    <3>1. meeting' = IF held[w].copy.status = "adjourned"
                     THEN [meeting EXCEPT ![g].status = "minuted"] ELSE meeting
      BY <1>6, <2>2 DEF SignMinutes
    <3> QED
      BY <2>2, <3>1 DEF Inv, TypeOK
  <2>5. minutes' = [minutes EXCEPT ![g] = "signed"] /\ minutes'[g] = "signed"
        /\ UNCHANGED <<registerVars, agendas, addenda, export, due, today>>
    BY <1>6, <2>2 DEF SignMinutes, Inv, TypeOK
  <2>6. action' = [i \in Actions |-> IF action[i].meeting = g
                                     THEN [action[i] EXCEPT !.linked = TRUE] ELSE action[i]]
    BY <1>6, <2>2 DEF SignMinutes
  <2>7. /\ action' \in [Actions -> ActionItem]
        /\ \A i \in Actions : /\ action'[i].meeting = action[i].meeting
                              /\ action'[i].linked /\ ~action[i].linked => action[i].meeting = g
    <3>1. ASSUME NEW i \in Actions
          PROVE  /\ action'[i] \in ActionItem /\ action'[i].meeting = action[i].meeting
                 /\ action'[i].linked /\ ~action[i].linked => action[i].meeting = g
      <4>1. action[i] \in ActionItem
        BY <2>a DEF RowsOf
      <4> QED
        BY <2>6, <4>1 DEF ActionItem
    <3> QED
      BY <2>6, <3>1
  <2> HIDE DEF row
  <2>8. MeetingAgrees(g)'
    BY <2>2, <2>3, <2>4, <2>5, <2>7, <2>a DEF MeetingAgrees
  <2>c. Saves(g, row, agendas[g], "signed", addenda[g])
    BY <2>a, <2>1, <2>2, <2>3, <2>4, <2>5, <2>7, <2>8 DEF RowsOf, Saves
  <2> QED
    BY <2>1, <2>2, <2>3, <2>4, <2>5, <2>7, <2>8, <2>c, MeetingSaveKeeps
<1>7. ASSUME NEW w \in Workers, IssueAddendum(w) PROVE Inv'
  <2>1. held[w] \in Request /\ held[w].op = "addendum" /\ Copies(w)
        /\ KeptOrDone /\ held' \in [Workers -> Request]
    BY <1>7, Answered DEF IssueAddendum
  <2>b. PICK g \in Meetings : g = held[w].id
    BY <2>1, RequestTypes
  <2>2. g = held[w].id /\ minutes[g] = "signed"
    BY <2>b, <1>7, <2>1, RequestTypes DEF IssueAddendum, Copies, MeetingCopy
  <2>a. RowsOf(g) /\ MeetingAgrees(g)
    BY <2>2, MeetingRows
  <2>3. addenda' = [addenda EXCEPT ![g] = addenda[g] + 1] /\ addenda[g] < MaxAddenda
        /\ UNCHANGED <<registerVars, meeting, agendas, minutes, action, export, due, today>>
    BY <1>7, <2>2 DEF IssueAddendum
  <2>4. addenda[g] + 1 \in 0..MaxAddenda
    BY <2>2, <2>3, <2>a DEF RowsOf
  <2>5. MeetingAgrees(g)'
    BY <2>2, <2>3, <2>a DEF MeetingAgrees
  <2>c. Saves(g, meeting[g], agendas[g], minutes[g], addenda[g] + 1)
    BY <2>a, <2>1, <2>2, <2>3, <2>4, <2>5 DEF RowsOf, Saves
  <2> QED
    BY <2>1, <2>2, <2>3, <2>4, <2>5, <2>c, MeetingSaveKeeps
<1> QED
  BY <1>1, <1>2, <1>3, <1>4, <1>5, <1>6, <1>7, MeetingReadKeeps, MinutesReadKeeps, VersionReadKeeps
  DEF MeetingSteps

\* An export's row is written by the request that has it locked.
LEMMA ExportStepsKeep ==
  ASSUME Inv, ExportSteps
  PROVE  Inv'
<1>1. ASSUME NEW e \in Exports, NEW row \in VaultExportRequest, export' = [export EXCEPT ![e] = row],
             row.status # "none" => row.requester \in Members,
             \A w \in Workers : held'[w].op = "cosign" => held[w].id # e,
             KeptOrDone, held' \in [Workers -> Request],
             UNCHANGED <<registerVars, meetingVars, due, today>>
      PROVE  Inv'
  <2>1. TypeOK'
    BY <1>1 DEF Inv, TypeOK, registerVars, meetingVars
  <2>2. MembersAgree' /\ ConflictsAgree' /\ Numbered' /\ MeetingsAgree'
    BY <1>1 DEF Inv, registerVars, meetingVars, MembersAgree, OneActiveChair, ConflictsAgree,
                Numbered, MeetingsAgree, MeetingAgrees
  <2>3. Requested'
    BY <1>1 DEF Inv, TypeOK, Requested
  <2>4. Persists
    <3>1. ASSUME NEW w \in Workers, held'[w].op = "cosign"
          PROVE  export'[held[w].id] = export[held[w].id]
      BY <1>1, <3>1 DEF Inv, TypeOK
    <3> QED
      BY <1>1, <3>1 DEF Persists, meetingVars
  <2>5. \A w \in Workers : Copies(w)'
    BY <1>1, <2>4, CopiesKeep
  <2> QED
    BY <2>1, <2>2, <2>3, <2>5 DEF Inv, Copies
<1>2. ASSUME NEW e \in Exports, NEW m \in Members, InitiateExport(e, m) PROVE Inv'
  <2> DEFINE row == [status |-> "Pending", requester |-> m, cosigner |-> Nobody,
                     expires |-> today + Window]
  <2>1. row \in VaultExportRequest /\ row.requester \in Members
    BY DEF VaultExportRequest, Inv, TypeOK
  <2>2. export' = [export EXCEPT ![e] = row] /\ export[e].status = "none"
        /\ UNCHANGED <<registerVars, meetingVars, held, due, today>>
    BY <1>2 DEF InitiateExport
  <2>3. KeptOrDone /\ held' \in [Workers -> Request]
    BY <2>2 DEF KeptOrDone, Inv, TypeOK
  <2>4. ASSUME NEW w \in Workers, held'[w].op = "cosign" PROVE held[w].id # e
    BY <2>2, <2>4 DEF Inv, ExportCopy
  <2> HIDE DEF row
  <2> QED
    BY <1>1, <2>1, <2>2, <2>3, <2>4
<1>3. ASSUME NEW w \in Workers, NEW m \in Members, ExecuteVaultCosign(w, m) PROVE Inv'
  <2> DEFINE row == [held[w].copy EXCEPT !.status = "Executed", !.cosigner = m]
  <2>1. held[w] \in Request /\ held[w].op = "cosign" /\ Copies(w)
        /\ KeptOrDone /\ held' \in [Workers -> Request]
    BY <1>3, Answered DEF ExecuteVaultCosign
  <2>2. held[w].id \in Exports /\ held[w].copy \in VaultExportRequest
        /\ held[w].copy = export[held[w].id] /\ held[w].copy.status = "Pending"
    BY <1>3, <2>1, RequestTypes DEF ExecuteVaultCosign, Copies, ExportCopy
  <2>3. row \in VaultExportRequest /\ row.requester \in Members
    BY <2>2 DEF VaultExportRequest, Inv, Requested
  <2>4. export' = [export EXCEPT ![held[w].id] = row] /\ held' = [held EXCEPT ![w] = Unread]
        /\ UNCHANGED <<registerVars, meetingVars, due, today>>
    BY <1>3 DEF ExecuteVaultCosign, Answer
  <2>5. ASSUME NEW v \in Workers, held'[v].op = "cosign" PROVE held[v].id # held[w].id
    <3>1. v # w /\ held'[v] = held[v]
      BY <2>4, <2>5, UnreadIsRequest DEF Inv, TypeOK
    <3> QED
      BY <2>1, <2>5, <3>1 DEF Copies, ExportCopy
  <2> HIDE DEF row
  <2> QED
    BY <1>1, <2>1, <2>2, <2>3, <2>4, <2>5
<1> QED
  BY <1>2, <1>3, ExportReadKeeps DEF ExportSteps

\* The monitor of action items, a request that fails, and the night.
LEMMA OtherStepsKeep ==
  ASSUME Inv, EscalateOverdueActions \/ AbandonSteps \/ NextDay \/ UNCHANGED vars
  PROVE  Inv'
<1>1. /\ KeptOrDone /\ held' \in [Workers -> Request]
      /\ UNCHANGED <<registerVars, meeting, agendas, minutes, addenda, export, due>>
  BY UnreadIsRequest
  DEF EscalateOverdueActions, AbandonSteps, Abandon, NextDay, KeptOrDone, Inv, TypeOK, vars, meetingVars
<1>2. today' \in 0..MaxDay
  <2>1. today \in 0..MaxDay /\ MaxDay \in Nat
    BY DEF Inv, TypeOK
  <2>2. today' = today \/ (today < MaxDay /\ today' = today + 1)
    BY DEF EscalateOverdueActions, AbandonSteps, Abandon, NextDay, vars
  <2> QED
    BY <2>1, <2>2
<1>3. /\ action' \in [Actions -> ActionItem]
      /\ \A i \in Actions : action'[i].meeting = action[i].meeting /\ action'[i].linked = action[i].linked
  <2>1. CASE EscalateOverdueActions
    <3>1. ASSUME NEW i \in Actions
          PROVE  /\ action'[i] \in ActionItem
                 /\ action'[i].meeting = action[i].meeting /\ action'[i].linked = action[i].linked
      <4>1. action[i] \in ActionItem /\ today \in Nat
        BY DEF Inv, TypeOK
      <4> QED
        BY <2>1, <4>1 DEF EscalateOverdueActions, ActionItem
    <3> QED
      BY <2>1, <3>1 DEF EscalateOverdueActions
  <2>2. CASE AbandonSteps \/ NextDay \/ UNCHANGED vars
    BY <2>2 DEF AbandonSteps, Abandon, NextDay, vars, meetingVars, Inv, TypeOK
  <2> QED
    BY <2>1, <2>2
<1>4. TypeOK'
  BY <1>1, <1>2, <1>3 DEF Inv, TypeOK, registerVars
<1>5. MembersAgree' /\ ConflictsAgree' /\ Numbered' /\ Requested'
  BY <1>1 DEF Inv, registerVars, MembersAgree, OneActiveChair, ConflictsAgree, Numbered, Requested
<1>6. MeetingsAgree'
  BY <1>1, <1>3 DEF Inv, MeetingsAgree, MeetingAgrees
<1>7. Persists
  BY <1>1 DEF Persists
<1>8. \A w \in Workers : Copies(w)'
  BY <1>1, <1>7, CopiesKeep
<1> QED
  BY <1>4, <1>5, <1>6, <1>8 DEF Inv, Copies

-----------------------------------------------------------------------------
(* The theorems.                                                           *)

LEMMA InvHolds == Spec => []Inv
<1>1. Init => Inv
  <2> SUFFICES ASSUME Init PROVE Inv
    OBVIOUS
  <2>1. TypeOK
    <3>1. member \in [Members -> NBECMember] /\ conflict \in [Conflicts -> ConflictDeclaration]
      BY DEF Init, NBECMember, Roles, ConflictDeclaration
    <3>2. /\ meeting \in [Meetings -> Meeting] /\ minutes \in [Meetings -> Minutes]
          /\ agendas \in [Meetings -> SUBSET (1..MaxAgendas)]
          /\ addenda \in [Meetings -> 0..MaxAddenda] /\ today \in 0..MaxDay
      BY DEF Init, Meeting, Statuses, Minutes
    <3>3. action \in [Actions -> ActionItem]
      <4> DEFINE rows == {[meeting |-> g, status |-> "open", linked |-> FALSE,
                           due |-> 0, escalated |-> FALSE, day |-> 0] : g \in Meetings}
      <4>1. rows \subseteq ActionItem
        <5>1. ASSUME NEW g \in Meetings
              PROVE  [meeting |-> g, status |-> "open", linked |-> FALSE, due |-> 0,
                      escalated |-> FALSE, day |-> 0] \in ActionItem
          BY DEF ActionItem
        <5> QED
          BY <5>1
      <4>2. action \in [Actions -> rows]
        BY DEF Init
      <4> HIDE DEF rows
      <4> QED
        BY <4>1, <4>2
    <3>4. export \in [Exports -> VaultExportRequest]
      BY DEF Init, VaultExportRequest
    <3>5. held \in [Workers -> Request] /\ due \in SUBSET Members
      BY UnreadIsRequest DEF Init
    <3> QED
      BY <3>1, <3>2, <3>3, <3>4, <3>5 DEF TypeOK
  <2>2. MembersAgree /\ ConflictsAgree /\ Requested
    BY DEF Init, MembersAgree, OneActiveChair, ConflictsAgree, Requested
  <2>3. MeetingsAgree
    BY DEF Init, MeetingsAgree, MeetingAgrees
  <2>4. Numbered
    <3>1. 0 \in 0..MaxAgendas /\ 1..0 = {}
      OBVIOUS
    <3> QED
      BY <3>1 DEF Init, Numbered
  <2>5. ASSUME NEW w \in Workers PROVE MemberCopy(w) /\ MeetingCopy(w) /\ ExportCopy(w)
    <3>1. held[w].op = "none"
      BY UnreadIsRequest DEF Init
    <3> QED
      BY <3>1 DEF MemberCopy, MeetingCopy, ExportCopy
  <2> QED
    BY <2>1, <2>2, <2>3, <2>4, <2>5 DEF Inv
<1>2. Inv /\ [Next]_vars => Inv'
  BY MemberStepsKeep, ConflictStepsKeep, MeetingStepsKeep, ExportStepsKeep, OtherStepsKeep DEF Next
<1> QED
  BY <1>1, <1>2, PTL DEF Spec

\* Whatever is read before and written after others have written, each table
\* keeps its columns within their types.
THEOREM TypeCorrect == Spec => []TypeOK
<1>1. Inv => TypeOK
  BY DEF Inv
<1> QED
  BY <1>1, InvHolds, PTL

\* RecordsAgree: the rows of the committee agree with each other, for any number
\* of members, meetings, declarations and requests that act on stale objects.
THEOREM RecordsHold == Spec => []RecordsAgree
<1>1. Numbered => AgendasNumbered
  <2> SUFFICES ASSUME Numbered, NEW g \in Meetings, NEW v \in agendas[g] PROVE 1..v \subseteq agendas[g]
    BY DEF AgendasNumbered
  <2> PICK k \in 0..MaxAgendas : agendas[g] = 1..k
    BY DEF Numbered
  <2> QED
    OBVIOUS
<1>2. Inv => RecordsAgree
  BY <1>1 DEF Inv, RecordsAgree
<1> QED
  BY <1>2, InvHolds, PTL

\* ExportHasTwoOfficers, for any number of members, exports and cosignatures at
\* the same time: only a cosignature executes an export, and the row it decides
\* on is the row it has locked.
THEOREM TwoOfficersHold == Spec => ExportHasTwoOfficers
<1> DEFINE Step(e) ==
      /\ export[e].status = "Executed" => export'[e] = export[e]
      /\ export'[e].status = "Executed" /\ export[e].status # "Executed" =>
           /\ {export[e].requester, export'[e].cosigner} \subseteq
                {m \in Members : member[m].status = "active"}
           /\ export[e].requester # export'[e].cosigner
           /\ today <= export[e].expires
<1>1. Inv /\ [Next]_vars => [\A e \in Exports : Step(e)]_vars
  <2> SUFFICES ASSUME Inv, [Next]_vars, NEW e \in Exports PROVE Step(e)
    OBVIOUS
  <2>1. CASE export' = export
    BY <2>1
  <2>2. ASSUME NEW d \in Exports, NEW m \in Members, InitiateExport(d, m) PROVE Step(e)
    <3>1. export' = [export EXCEPT ![d] = [status |-> "Pending", requester |-> m,
                                          cosigner |-> Nobody, expires |-> today + Window]]
          /\ export[d].status = "none"
      BY <2>2 DEF InitiateExport
    <3> QED
      BY <3>1 DEF Inv, TypeOK
  <2>3. ASSUME NEW w \in Workers, NEW m \in Members, ExecuteVaultCosign(w, m) PROVE Step(e)
    <3>1. held[w] \in Request /\ held[w].op = "cosign" /\ Copies(w)
      BY <2>3, Answered DEF ExecuteVaultCosign
    <3>2. held[w].id \in Exports /\ held[w].copy = export[held[w].id]
          /\ export[held[w].id] \in VaultExportRequest
      BY <3>1, RequestTypes DEF Copies, ExportCopy
    <3>3. /\ export' = [export EXCEPT ![held[w].id] =
                          [export[held[w].id] EXCEPT !.status = "Executed", !.cosigner = m]]
          /\ export[held[w].id].status = "Pending" /\ today <= export[held[w].id].expires
          /\ member[export[held[w].id].requester].active /\ member[m].active
          /\ export[held[w].id].requester # m
      BY <2>3, <3>2 DEF ExecuteVaultCosign, ActiveVaultOfficer
    <3>4. export[held[w].id].requester \in Members
      BY <3>2, <3>3 DEF Inv, Requested
    <3>5. {export[held[w].id].requester, m} \subseteq {n \in Members : member[n].status = "active"}
      BY <3>3, <3>4 DEF Inv, MembersAgree
    <3>6. CASE e # held[w].id
      BY <3>3, <3>6 DEF Inv, TypeOK
    <3>7. CASE e = held[w].id
      <4>1. export'[e].cosigner = m /\ export[e].status = "Pending"
        BY <3>2, <3>3, <3>7 DEF Inv, TypeOK, VaultExportRequest
      <4> QED
        BY <3>3, <3>5, <3>7, <4>1
    <3> QED
      BY <3>6, <3>7
  <2>4. ASSUME Next PROVE \/ export' = export
                          \/ \E d \in Exports, m \in Members : InitiateExport(d, m)
                          \/ \E w \in Workers, m \in Members : ExecuteVaultCosign(w, m)
    <3>1. CASE MemberSteps
      BY <3>1 DEF MemberSteps, MemberListCreate, CreateMember, MemberDetail, MemberActivate,
                  AmendMember, ActivateMember, SaveMember, MonitorTenureExpiry, ListDue, ExpireDue
    <3>2. CASE ConflictSteps
      BY <3>2 DEF ConflictSteps, COICreate, DeclareCoi, COIReview, ReviewCoi
    <3>3. CASE MeetingSteps
      BY <3>3 DEF MeetingSteps, MeetingCreate, ScheduleMeeting, MeetingAgenda, MeetingAttendance,
                  MeetingConvene, MeetingAdjourn, ReadMeeting, MinutesSign, MinutesAddendum,
                  ReadMinutes, LastVersion, PublishAgenda, ConveneMeeting, AdjournMeeting,
                  SignMinutes, IssueAddendum, RecordAttendance
    <3>4. CASE ExportSteps
      BY <3>4 DEF ExportSteps, CosignExport
    <3>5. CASE EscalateOverdueActions \/ AbandonSteps \/ NextDay
      BY <3>5 DEF EscalateOverdueActions, AbandonSteps, Abandon, NextDay
    <3> QED
      BY <2>4, <3>1, <3>2, <3>3, <3>4, <3>5 DEF Next
  <2> QED
    BY <2>1, <2>2, <2>3, <2>4 DEF vars
<1> QED
  BY <1>1, InvHolds, PTL DEF Spec, ExportHasTwoOfficers
=============================================================================
