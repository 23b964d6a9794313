---------------------------- MODULE RolesProofs ----------------------------
(***************************************************************************)
(* Proofs about Roles, for any set of roles, rules and approvals.          *)
(***************************************************************************)
EXTENDS Roles, FiniteSetTheorems, SequenceTheorems, TLAPS

USE RolesAssumption

-----------------------------------------------------------------------------
(* Types.  They depend on who has an account: a profile, a token and a     *)
(* request about the user only exist after the account in IAM.             *)

Accounts ==
  /\ profile => iam # None
  /\ ~profile => held = {} /\ approvals = <<>> /\ granted = {}
  /\ \A q \in Requests :
       /\ req[q].op \in {"assign", "revoke", "approve", "reject"} => profile
       /\ req[q].op = "sync" => iam # None
       /\ req[q].op \in {"approve", "reject"} => req[q].approval \in DOMAIN approvals
  /\ \A d \in Devices : token[d] # None => iam # None

Typed == TypeOK /\ Accounts

LEMMA NoneIsNoSet == None \notin SUBSET Roles /\ ({} \subseteq Roles)
BY DEF None

LEMMA NoApproval == 0 \in 0..MaxApprovals
OBVIOUS

LEMMA IdleType == Idle \in Request
BY NoApproval DEF Idle, Request

LEMMA EndTypes ==
  ASSUME req \in [Requests -> Request], NEW q \in Requests, NEW rs, End(q, rs)
  PROVE  /\ req' \in [Requests -> Request]
         /\ req'[q] = Idle
         /\ \A p \in Requests : p # q =>
              /\ req'[p] = [req[p] EXCEPT !.rows = @ \ rs]
              /\ req'[p].op = req[p].op /\ req'[p].approval = req[p].approval
<1>1. \A p \in Requests : [req[p] EXCEPT !.rows = @ \ rs] \in Request
  BY DEF Request
<1> QED
  BY <1>1, IdleType DEF End, Request

LEMMA BeginTypes ==
  ASSUME req \in [Requests -> Request], NEW q \in Requests, NEW w \in Request,
         Begin(q, w)
  PROVE  /\ req' \in [Requests -> Request]
         /\ req'[q] = w
         /\ \A p \in Requests : p # q => req'[p] = req[p]
BY DEF Begin

LEMMA LogTypes ==
  ASSUME last \in [Roles -> Changes], NEW rs, NEW c \in Changes, Log(rs, c)
  PROVE  /\ last' \in [Roles -> Changes]
         /\ \A r \in Roles : last'[r] = IF r \in rs THEN c ELSE last[r]
BY DEF Log

LEMMA OrderedApprovals ==
  ASSUME NEW rs \in SUBSET Privileged, NEW s \in Orders(rs),
         approvals' = [i \in DOMAIN s |-> Pending(s[i])]
  PROVE  /\ approvals' \in Seq(Approval) /\ Len(approvals') <= MaxApprovals
         /\ \A a \in DOMAIN approvals' : approvals'[a].status = "pending"
<1>1. PICK n \in 0..MaxApprovals : s \in [1..n -> rs]
  BY DEF Orders
<1>2. \A i \in 1..n : Pending(s[i]) \in Approval /\ Pending(s[i]).status = "pending"
  BY <1>1 DEF Pending, Approval
<1>3. approvals' \in [1..n -> Approval]
  BY <1>1, <1>2
<1>4. approvals' \in Seq(Approval) /\ Len(approvals') = n
  BY <1>3, <1>1, SeqDef, LenProperties
<1> QED
  BY <1>1, <1>2, <1>4

LEMMA DecideTypes ==
  ASSUME approvals \in Seq(Approval), NEW a \in DOMAIN approvals,
         NEW st \in {"pending", "approved", "rejected", "expired"}, Decide(a, st)
  PROVE  /\ approvals' \in Seq(Approval) /\ Len(approvals') = Len(approvals)
         /\ DOMAIN approvals' = DOMAIN approvals
         /\ approvals'[a].status = st
         /\ \A b \in DOMAIN approvals : b # a => approvals'[b] = approvals[b]
         /\ \A b \in DOMAIN approvals : approvals'[b].role = approvals[b].role
<1>0. approvals[a] \in Approval
  BY ElementOfSeq, LenProperties
<1>1. [approvals[a] EXCEPT !.status = st] \in Approval
  BY <1>0 DEF Approval
<1>2. approvals' = [approvals EXCEPT ![a] = [approvals[a] EXCEPT !.status = st]]
  BY DEF Decide
<1>3. approvals' \in Seq(Approval) /\ Len(approvals') = Len(approvals)
  BY <1>1, <1>2, ExceptSeq, LenProperties
<1>4. [approvals[a] EXCEPT !.status = st].status = st
      /\ [approvals[a] EXCEPT !.status = st].role = approvals[a].role
  BY <1>0 DEF Approval
<1> QED
  BY <1>2, <1>3, <1>4

LEMMA InitTyped == Init => Typed
<1> SUFFICES ASSUME Init PROVE Typed
  OBVIOUS
<1>1. req \in [Requests -> Request] /\ \A q \in Requests : req[q] = Idle
  BY IdleType DEF Init
<1>2. approvals \in Seq(Approval) /\ Len(approvals) = 0
  BY DEF Init
<1>3. TypeOK
  <2>1. last \in [Roles -> Changes]
    BY DEF Init, Changes
  <2>2. iam \in (SUBSET Roles) \cup {None} /\ token \in [Devices -> (SUBSET Roles) \cup {None}]
    BY DEF Init
  <2>3. 0 <= MaxApprovals
    OBVIOUS
  <2> QED
    BY <1>1, <1>2, <2>1, <2>2, <2>3 DEF Init, TypeOK
<1>4. Accounts
  BY <1>1 DEF Init, Accounts, Idle
<1> QED
  BY <1>3, <1>4 DEF Typed

\* What a step keeps, whatever else it does.
Forward ==
  /\ profile => profile'
  /\ profile' => iam' # None
  /\ iam # None => iam' # None
  /\ DOMAIN approvals \subseteq DOMAIN approvals'
  /\ ~profile' => held' = {} /\ approvals' = <<>> /\ granted' = {}
  /\ \A d \in Devices : token'[d] = token[d] \/ iam # None

Fits(w) ==
  /\ w.op \in {"assign", "revoke", "approve", "reject"} => profile
  /\ w.op = "sync" => iam # None
  /\ w.op \in {"approve", "reject"} => w.approval \in DOMAIN approvals

LEMMA AccountsUnchanged ==
  ASSUME Accounts, Forward, UNCHANGED req
  PROVE  Accounts'
BY DEF Accounts, Forward

LEMMA AccountsAfterEnd ==
  ASSUME Typed, Forward, NEW q \in Requests, NEW rs, End(q, rs)
  PROVE  Accounts'
<1>0. req \in [Requests -> Request]
  BY DEF Typed, TypeOK
<1>1. req'[q].op = "idle"
  BY <1>0, EndTypes DEF Idle
<1>2. \A p \in Requests : p # q => req'[p].op = req[p].op
                                  /\ req'[p].approval = req[p].approval
  BY <1>0 DEF End, Request
<1> QED
  BY <1>1, <1>2 DEF Typed, Accounts, Forward

LEMMA AccountsAfterBegin ==
  ASSUME Typed, NEW q \in Requests, NEW w \in Request, Begin(q, w), Fits(w),
         UNCHANGED <<profile, held, approvals, granted, iam, token>>
  PROVE  Accounts'
<1>1. req'[q] = w /\ \A p \in Requests : p # q => req'[p] = req[p]
  BY BeginTypes DEF Typed, TypeOK
<1> QED
  BY <1>1 DEF Typed, Accounts, Fits

-----------------------------------------------------------------------------
(* Every action keeps the types.                                           *)

LEMMA CreateTyped ==
  ASSUME Typed, NEW q \in Requests, NEW rs \in SUBSET Roles, Create(q, rs)
  PROVE  Typed'
<1>1. approvals' \in Seq(Approval) /\ Len(approvals') <= MaxApprovals
  BY OrderedApprovals DEF Create
<1>2. last' \in [Roles -> Changes]
  BY LogTypes DEF Create, Typed, TypeOK, Changes
<1>3. TypeOK'
  BY <1>1, <1>2 DEF Create, Typed, TypeOK
<1>4. iam' # None
  BY NoneIsNoSet DEF Create
<1>5. Forward
  BY <1>4, <1>1 DEF Create, Forward, Typed, Accounts
<1> QED
  BY <1>3, <1>5, AccountsUnchanged DEF Create, Typed

LEMMA ProvisionTyped ==
  ASSUME Typed, NEW q \in Requests, NEW rs \in SUBSET Roles,
         CreateUndone(q, rs) \/ Import(q, rs)
  PROVE  Typed'
<1>1. iam' = rs /\ iam' # None
  BY NoneIsNoSet DEF CreateUndone, Import
<1>2. CASE CreateUndone(q, rs)
  <2>1. TypeOK'
    BY <1>1, <1>2 DEF CreateUndone, Typed, TypeOK
  <2>2. Forward
    BY <1>1, <1>2 DEF CreateUndone, Forward, Typed, Accounts
  <2> QED
    BY <1>2, <2>1, <2>2, AccountsUnchanged DEF CreateUndone, Typed
<1>3. CASE Import(q, rs)
  <2>1. last' \in [Roles -> Changes]
    BY <1>3, LogTypes DEF Import, Typed, TypeOK, Changes
  <2>2. TypeOK'
    BY <1>1, <1>3, <2>1 DEF Import, Typed, TypeOK
  <2>3. Forward
    BY <1>1, <1>3 DEF Import, Forward, Typed, Accounts
  <2> QED
    BY <1>3, <2>2, <2>3, AccountsUnchanged DEF Import, Typed
<1> QED
  BY <1>2, <1>3

LEMMA CheckTyped ==
  ASSUME Typed, NEW q \in Requests, NEW r \in Roles,
         CheckAssign(q, r) \/ CheckRevoke(q, r)
  PROVE  Typed'
<1>1. PICK w \in Request : Begin(q, w) /\ w.op \in {"assign", "revoke"}
  <2>1. CASE CheckAssign(q, r)
    <3> DEFINE v == [Idle EXCEPT !.op = "assign", !.add = {r}]
    <3>1. v \in Request /\ v.op = "assign"
      BY NoApproval DEF Request, Idle
    <3>2. Begin(q, v)
      BY <2>1 DEF CheckAssign
    <3> QED
      BY <3>1, <3>2
  <2>2. CASE CheckRevoke(q, r)
    <3> DEFINE v == [Idle EXCEPT !.op = "revoke", !.drop = {r}, !.rows = {r}]
    <3>1. v \in Request /\ v.op = "revoke"
      BY NoApproval DEF Request, Idle
    <3>2. Begin(q, v)
      BY <2>2 DEF CheckRevoke
    <3> QED
      BY <3>1, <3>2
  <2> QED
    BY <2>1, <2>2
<1>2. profile
  BY DEF CheckAssign, CheckRevoke, Typed, Accounts
<1>3. UNCHANGED <<profile, held, last, approvals, granted, rules, iam, token>>
  BY DEF CheckAssign, CheckRevoke
<1>4. TypeOK'
  BY <1>1, <1>3, BeginTypes DEF Typed, TypeOK
<1>5. Accounts'
  BY <1>1, <1>2, <1>3, AccountsAfterBegin DEF Fits
<1> QED
  BY <1>4, <1>5 DEF Typed

LEMMA ReviewTyped ==
  ASSUME Typed, NEW q \in Requests, NEW a \in DOMAIN approvals,
         NEW op \in {"approve", "reject"}, Review(q, a, op)
  PROVE  Typed'
<1> DEFINE w == [Idle EXCEPT !.op = op, !.approval = a]
<1>1. a \in 0..MaxApprovals
  BY LenProperties DEF Typed, TypeOK
<1>2. w \in Request /\ w.op = op /\ w.approval = a
  BY <1>1 DEF Request, Idle
<1>3. profile
  BY LenProperties DEF Typed, TypeOK, Accounts
<1>4. Begin(q, w)
      /\ UNCHANGED <<profile, held, last, approvals, granted, rules, iam, token>>
  BY DEF Review
<1>5. TypeOK'
  BY <1>2, <1>4, BeginTypes DEF Typed, TypeOK
<1> HIDE DEF w
<1>6. Accounts'
  BY <1>2, <1>3, <1>4, AccountsAfterBegin DEF Fits
<1> QED
  BY <1>5, <1>6 DEF Typed

LEMMA BeginSyncTyped ==
  ASSUME Typed, NEW q \in Requests, NEW d \in Devices, BeginSync(q, d)
  PROVE  Typed'
<1> DEFINE drop == Missing(token[d])
<1>1. PICK new \in Additions(held \ drop, token[d]) :
        Begin(q, [Idle EXCEPT !.op = "sync", !.add = new,
                              !.drop = drop, !.rows = drop])
  BY DEF BeginSync
<1>2. token[d] \in SUBSET Roles /\ iam # None
  BY DEF BeginSync, Typed, TypeOK, Accounts
<1>3. new \subseteq Roles /\ drop \subseteq Roles
  BY <1>1, <1>2 DEF Additions, Missing, Typed, TypeOK
<1> HIDE DEF drop
<1> DEFINE w == [Idle EXCEPT !.op = "sync", !.add = new, !.drop = drop, !.rows = drop]
<1>4. w \in Request /\ w.op = "sync"
  BY <1>3, NoApproval DEF Request, Idle
<1>5. Begin(q, w)
      /\ UNCHANGED <<profile, held, last, approvals, granted, rules, iam, token>>
  BY <1>1 DEF BeginSync
<1> HIDE DEF w
<1>6. TypeOK'
  BY <1>4, <1>5, BeginTypes DEF Typed, TypeOK
<1>7. Accounts'
  BY <1>2, <1>4, <1>5, AccountsAfterBegin DEF Fits
<1> QED
  BY <1>6, <1>7 DEF Typed

LEMMA RequestApprovalTyped ==
  ASSUME Typed, NEW q \in Requests, RequestApproval(q)
  PROVE  Typed'
<1>1. PICK r \in Privileged : approvals' = Append(approvals, Pending(r))
  BY DEF RequestApproval
<1>2. Pending(r) \in Approval
  BY DEF Pending, Approval
<1>3. /\ approvals' \in Seq(Approval) /\ Len(approvals') = Len(approvals) + 1
      /\ DOMAIN approvals \subseteq DOMAIN approvals'
  BY <1>1, <1>2, AppendProperties, LenProperties DEF Typed, TypeOK
<1>4. Len(approvals') <= MaxApprovals
  BY <1>3, LenProperties DEF RequestApproval, Typed, TypeOK
<1>5. End(q, {}) /\ req' \in [Requests -> Request]
  BY EndTypes DEF RequestApproval, Typed, TypeOK
<1>6. TypeOK'
  BY <1>3, <1>4, <1>5 DEF RequestApproval, Typed, TypeOK
<1>7. profile
  BY DEF RequestApproval, Typed, Accounts
<1>8. Forward
  BY <1>3, <1>7 DEF RequestApproval, Forward, Typed, Accounts
<1> QED
  BY <1>5, <1>6, <1>8, AccountsAfterEnd DEF Typed

LEMMA AccountRoles ==
  ASSUME Typed, profile
  PROVE  iam \in SUBSET Roles /\ \A rs \in SUBSET Roles : rs # None
BY NoneIsNoSet DEF Typed, TypeOK, Accounts

LEMMA AssignTyped ==
  ASSUME Typed, NEW q \in Requests, Assign(q)
  PROVE  Typed'
<1>1. req[q].add \in SUBSET Roles /\ profile
  BY DEF Assign, Typed, TypeOK, Accounts, Request
<1>2. iam' \in SUBSET Roles /\ iam' # None
  <2>1. iam \in SUBSET Roles
    BY <1>1, AccountRoles
  <2>2. iam' \in SUBSET Roles
    BY <1>1, <2>1 DEF Assign, TellIam
  <2> QED
    BY <1>1, <2>2, AccountRoles
<1>3. last' \in [Roles -> Changes]
  BY LogTypes DEF Assign, Typed, TypeOK, Changes
<1>4. End(q, {}) /\ req' \in [Requests -> Request]
  BY EndTypes DEF Assign, Typed, TypeOK
<1>5. TypeOK'
  BY <1>1, <1>2, <1>3, <1>4 DEF Assign, Insert, Typed, TypeOK
<1>6. Forward
  BY <1>1, <1>2 DEF Assign, Forward, Typed, Accounts
<1> QED
  BY <1>4, <1>5, <1>6, AccountsAfterEnd DEF Typed

LEMMA RevokeTyped ==
  ASSUME Typed, NEW q \in Requests, NEW r \in Roles, Revoke(q, r)
  PROVE  Typed'
<1>1. profile
  BY DEF Revoke, Typed, Accounts
<1>2. iam' \in SUBSET Roles /\ iam' # None
  <2>1. iam \in SUBSET Roles
    BY <1>1, AccountRoles
  <2>2. iam' \in SUBSET Roles
    BY <1>1, <2>1 DEF Revoke, TellIam
  <2> QED
    BY <1>1, <2>2, AccountRoles
<1>3. last' \in [Roles -> Changes]
  BY LogTypes DEF Revoke, Typed, TypeOK, Changes
<1>4. End(q, {r}) /\ req' \in [Requests -> Request]
  BY EndTypes DEF Revoke, Typed, TypeOK
<1>5. TypeOK'
  BY <1>2, <1>3, <1>4 DEF Revoke, Typed, TypeOK
<1>6. Forward
  BY <1>1, <1>2 DEF Revoke, Forward, Typed, Accounts
<1> QED
  BY <1>4, <1>5, <1>6, AccountsAfterEnd DEF Typed

LEMMA BulkRevokeTyped ==
  ASSUME Typed, NEW q \in Requests, BulkRevoke(q)
  PROVE  Typed'
<1>1. profile
  BY DEF BulkRevoke, Typed, Accounts
<1>2. iam' \in SUBSET Roles /\ iam' # None
  <2>1. iam \in SUBSET Roles
    BY <1>1, AccountRoles
  <2>2. iam' \in SUBSET Roles
    BY <1>1, <2>1 DEF BulkRevoke
  <2> QED
    BY <1>1, <2>2, AccountRoles
<1>3. last' \in [Roles -> Changes]
  BY LogTypes DEF BulkRevoke, Typed, TypeOK, Changes
<1>4. End(q, req[q].rows) /\ req' \in [Requests -> Request]
  BY EndTypes DEF BulkRevoke, Typed, TypeOK
<1>5. TypeOK'
  BY <1>2, <1>3, <1>4 DEF BulkRevoke, Typed, TypeOK
<1>6. Forward
  BY <1>1, <1>2 DEF BulkRevoke, Forward, Typed, Accounts
<1> QED
  BY <1>4, <1>5, <1>6, AccountsAfterEnd DEF Typed

LEMMA RevokeUndoneTyped ==
  ASSUME Typed, NEW q \in Requests, NEW r \in Roles, RevokeUndone(q, r)
  PROVE  Typed'
<1>1. profile
  BY DEF RevokeUndone, Typed, Accounts
<1>2. iam' \in SUBSET Roles /\ iam' # None
  <2>1. iam \in SUBSET Roles
    BY <1>1, AccountRoles
  <2>2. iam' \in SUBSET Roles
    BY <2>1 DEF RevokeUndone
  <2> QED
    BY <1>1, <2>2, AccountRoles
<1>3. UNCHANGED <<profile, held, last, approvals, granted, rules, token, req>>
  BY DEF RevokeUndone
<1>4. TypeOK'
  BY <1>2, <1>3 DEF Typed, TypeOK
<1>5. Forward
  BY <1>1, <1>2, <1>3 DEF Forward, Typed, Accounts
<1> QED
  BY <1>3, <1>4, <1>5, AccountsUnchanged DEF Typed

LEMMA UndoneTyped ==
  ASSUME Typed, NEW q \in Requests, Undone(q)
  PROVE  Typed'
<1>1. profile /\ Grants(q) \in SUBSET Roles
  <2>1. req[q].add \in SUBSET Roles /\ profile
    BY DEF Undone, Typed, TypeOK, Accounts, Request
  <2>2. CASE req[q].op = "approve"
    <3>1. req[q].approval \in DOMAIN approvals
      BY <2>2 DEF Typed, Accounts
    <3>2. approvals[req[q].approval] \in Approval
      BY <3>1, ElementOfSeq, LenProperties DEF Typed, TypeOK
    <3>3. approvals[req[q].approval].role \in Roles
      BY <3>2 DEF Approval
    <3> QED
      BY <2>1, <2>2, <3>3 DEF Grants
  <2>3. CASE req[q].op # "approve"
    BY <2>1, <2>3 DEF Grants
  <2> QED
    BY <2>2, <2>3
<1>2. iam' \in SUBSET Roles /\ iam' # None
  <2>1. iam \in SUBSET Roles
    BY <1>1, AccountRoles
  <2>2. iam' \in SUBSET Roles
    BY <1>1, <2>1 DEF Undone
  <2> QED
    BY <1>1, <2>2, AccountRoles
<1>3. End(q, {}) /\ req' \in [Requests -> Request]
  BY EndTypes DEF Undone, Typed, TypeOK
<1>4. TypeOK'
  BY <1>2, <1>3 DEF Undone, Typed, TypeOK
<1>5. Forward
  BY <1>1, <1>2 DEF Undone, Forward, Typed, Accounts
<1> QED
  BY <1>3, <1>4, <1>5, AccountsAfterEnd DEF Typed

LEMMA RulesTyped ==
  ASSUME Typed, NEW q \in Requests, NEW p \in Pairs, AddRule(q, p) \/ DropRule(q, p)
  PROVE  Typed'
<1>1. /\ rules' \subseteq Pairs
      /\ UNCHANGED <<profile, held, last, approvals, granted, iam, token, req>>
  BY DEF AddRule, DropRule, Typed, TypeOK
<1> QED
  BY <1>1 DEF Typed, TypeOK, Accounts

LEMMA ApproveTyped ==
  ASSUME Typed, NEW q \in Requests, Approve(q)
  PROVE  Typed'
<1> DEFINE a == req[q].approval
           r == approvals[a].role
<1>1. a \in DOMAIN approvals /\ profile
  BY DEF Approve, Typed, Accounts
<1>2. a \in 1..MaxApprovals /\ approvals[a] \in Approval
  BY <1>1, LenProperties, ElementOfSeq DEF Typed, TypeOK
<1>3. r \in Roles
  BY <1>2 DEF Approval
<1>4. Insert({r}) /\ Log({r}, "assign") /\ Decide(a, "approved")
      /\ granted' = granted \cup {a} /\ TellIam(iam \cup {r}) /\ End(q, {})
      /\ UNCHANGED <<profile, rules, token>>
  BY DEF Approve
<1>5. approvals \in Seq(Approval)
  BY DEF Typed, TypeOK
<1> HIDE DEF a, r
<1>6. /\ approvals' \in Seq(Approval) /\ Len(approvals') = Len(approvals)
      /\ DOMAIN approvals' = DOMAIN approvals
  BY <1>1, <1>4, <1>5, DecideTypes
<1>7. last' \in [Roles -> Changes]
  BY <1>4, LogTypes DEF Typed, TypeOK, Changes
<1>8. iam' \in SUBSET Roles /\ iam' # None
  <2>1. iam \in SUBSET Roles
    BY <1>1, AccountRoles
  <2>2. iam' \in SUBSET Roles
    BY <1>3, <1>4, <2>1 DEF TellIam
  <2> QED
    BY <1>1, <2>2, AccountRoles
<1>9. req' \in [Requests -> Request]
  BY <1>4, EndTypes DEF Typed, TypeOK
<1>10. TypeOK'
  BY <1>2, <1>3, <1>4, <1>6, <1>7, <1>8, <1>9 DEF Insert, Typed, TypeOK
<1>11. Forward
  BY <1>1, <1>4, <1>6, <1>8 DEF Forward, Typed, Accounts
<1> QED
  BY <1>4, <1>10, <1>11, AccountsAfterEnd DEF Typed

LEMMA RejectTyped ==
  ASSUME Typed, NEW q \in Requests, Reject(q)
  PROVE  Typed'
<1>1. req[q].approval \in DOMAIN approvals /\ profile
  BY DEF Reject, Typed, Accounts
<1>2. Decide(req[q].approval, "rejected") /\ End(q, {})
      /\ UNCHANGED <<profile, held, last, granted, rules, iam, token>>
  BY DEF Reject
<1>3. approvals \in Seq(Approval)
  BY DEF Typed, TypeOK
<1>4. /\ approvals' \in Seq(Approval) /\ Len(approvals') = Len(approvals)
      /\ DOMAIN approvals' = DOMAIN approvals
  BY <1>1, <1>2, <1>3, DecideTypes
<1>5. req' \in [Requests -> Request]
  BY <1>2, EndTypes DEF Typed, TypeOK
<1>6. TypeOK'
  BY <1>2, <1>4, <1>5 DEF Typed, TypeOK
<1>7. Forward
  BY <1>1, <1>2, <1>4 DEF Forward, Typed, Accounts
<1> QED
  BY <1>2, <1>6, <1>7, AccountsAfterEnd DEF Typed

LEMMA TimeTyped ==
  ASSUME Typed, NEW a \in DOMAIN approvals, Overdue(a) \/ Expire(a)
  PROVE  Typed'
<1>1. approvals \in Seq(Approval) /\ approvals[a] \in Approval
  BY LenProperties, ElementOfSeq DEF Typed, TypeOK
<1>2. UNCHANGED <<profile, held, last, granted, rules, iam, token, req>>
  BY DEF Overdue, Expire
<1>3. /\ approvals' \in Seq(Approval) /\ Len(approvals') = Len(approvals)
      /\ DOMAIN approvals' = DOMAIN approvals
  <2>1. CASE Overdue(a)
    <3>1. [approvals[a] EXCEPT !.due = TRUE] \in Approval
      BY <1>1 DEF Approval
    <3>2. approvals' = [approvals EXCEPT ![a] = [approvals[a] EXCEPT !.due = TRUE]]
      BY <2>1 DEF Overdue
    <3> QED
      BY <1>1, <3>1, <3>2, ExceptSeq, LenProperties
  <2>2. CASE Expire(a)
    BY <1>1, <2>2, DecideTypes DEF Expire
  <2> QED
    BY <2>1, <2>2
<1>4. TypeOK'
  BY <1>2, <1>3 DEF Typed, TypeOK
<1>5. profile
  BY LenProperties DEF Typed, TypeOK, Accounts
<1>6. Forward
  BY <1>2, <1>3, <1>5 DEF Forward, Typed, Accounts
<1> QED
  BY <1>2, <1>4, <1>6, AccountsUnchanged DEF Typed

LEMMA IamTyped ==
  ASSUME Typed, \/ \E rs \in IamSets : IamEdit(rs)
                \/ \E d \in Devices : Refresh(d)
  PROVE  Typed'
<1>1. CASE \E rs \in IamSets : IamEdit(rs)
  <2>1. PICK rs \in IamSets : IamEdit(rs)
    BY <1>1
  <2>2. iam' \in SUBSET Roles /\ iam' # None
    BY <2>1, NoneIsNoSet DEF IamEdit
  <2>3. UNCHANGED <<profile, held, last, approvals, granted, rules, token, req>>
    BY <2>1 DEF IamEdit
  <2>4. TypeOK'
    BY <2>2, <2>3 DEF Typed, TypeOK
  <2>5. Forward
    BY <2>2, <2>3 DEF Forward, Typed, Accounts
  <2> QED
    BY <2>3, <2>4, <2>5, AccountsUnchanged DEF Typed
<1>2. CASE \E d \in Devices : Refresh(d)
  <2>1. PICK d \in Devices : Refresh(d)
    BY <1>2
  <2>2. TypeOK'
    BY <2>1 DEF Refresh, Typed, TypeOK
  <2>3. Accounts'
    BY <2>1 DEF Refresh, Typed, TypeOK, Accounts
  <2> QED
    BY <2>2, <2>3 DEF Typed
<1> QED
  BY <1>1, <1>2

LEMMA EndSyncTyped ==
  ASSUME Typed, NEW q \in Requests, EndSync(q)
  PROVE  Typed'
<1>1. /\ req[q].add \in SUBSET Roles /\ iam # None
      /\ End(q, req[q].rows) /\ profile'
      /\ UNCHANGED <<approvals, granted, rules, iam, token>>
  BY DEF EndSync, Typed, TypeOK, Accounts, Request
<1>2. last' \in [Roles -> Changes]
  BY DEF EndSync, LogSync, Typed, TypeOK, Changes
<1>3. req' \in [Requests -> Request]
  BY <1>1, EndTypes DEF Typed, TypeOK
<1>4. TypeOK'
  BY <1>1, <1>2, <1>3 DEF EndSync, Typed, TypeOK
<1>5. Forward
  BY <1>1 DEF Forward, Typed, Accounts
<1> QED
  BY <1>1, <1>4, <1>5, AccountsAfterEnd DEF Typed

LEMMA ReleaseTyped ==
  ASSUME Typed, NEW q \in Requests, Release(q)
  PROVE  Typed'
<1>1. /\ End(q, {})
      /\ UNCHANGED <<profile, held, last, approvals, granted, rules, iam, token>>
  BY DEF Release
<1>2. req' \in [Requests -> Request]
  BY <1>1, EndTypes DEF Typed, TypeOK
<1>3. TypeOK'
  BY <1>1, <1>2 DEF Typed, TypeOK
<1>4. Forward
  BY <1>1 DEF Forward, Typed, Accounts
<1> QED
  BY <1>1, <1>3, <1>4, AccountsAfterEnd DEF Typed

LEMMA NextTyped == Typed /\ [Next]_vars => Typed'
<1> SUFFICES ASSUME Typed, [Next]_vars PROVE Typed'
  OBVIOUS
<1>1. ASSUME NEW q \in Requests, Start(q) PROVE Typed'
  BY <1>1, CreateTyped, ProvisionTyped, CheckTyped, RevokeTyped, RevokeUndoneTyped, RulesTyped,
     ReviewTyped, BeginSyncTyped DEF Start
<1>2. ASSUME NEW q \in Requests, Finish(q) PROVE Typed'
  BY <1>2, RequestApprovalTyped, AssignTyped, BulkRevokeTyped, UndoneTyped,
     ApproveTyped, RejectTyped, EndSyncTyped, ReleaseTyped DEF Finish
<1>3. CASE UNCHANGED vars
  BY <1>3 DEF vars, Typed, TypeOK, Accounts
<1> QED
  BY <1>1, <1>2, <1>3, TimeTyped, IamTyped DEF Next

\* Type correctness: the state of a user's roles, of the approval requests and
\* of the requests in flight stays within its types, with any number of
\* requests at once.
THEOREM TypeCorrect == Spec => []TypeOK
<1>1. Typed => TypeOK
  BY DEF Typed
<1> QED
  BY <1>1, InitTyped, NextTyped, PTL DEF Spec

-----------------------------------------------------------------------------
(* One request at a time: the log and the decisions.                       *)

OneAtATime == \A p, q \in Requests : p = q

\* What a request has read is still so when it writes, because nobody else
\* writes: the rows it revokes are there, the approval is not yet granted.
ReadIsFresh ==
  \A q \in Requests :
    /\ req[q].op \in {"revoke", "sync"} => req[q].rows = req[q].drop /\ req[q].drop \subseteq held
    /\ req[q].op \in {"approve", "reject"} => approvals[req[q].approval].status # "approved"

GrantedExist == granted \subseteq DOMAIN approvals

SerialInv == Typed /\ HeldIsLogged /\ DecisionStands /\ GrantedExist /\ ReadIsFresh

LEMMA AllIdle ==
  ASSUME OneAtATime, Typed, NEW q \in Requests, NEW rs, End(q, rs)
  PROVE  ReadIsFresh'
<1>1. req'[q].op = "idle" /\ \A p \in Requests : p = q
  BY EndTypes DEF OneAtATime, Typed, TypeOK, Idle
<1> QED
  BY <1>1 DEF ReadIsFresh

LEMMA StillFresh ==
  ASSUME ReadIsFresh, UNCHANGED <<held, req>>,
         \A a \in DOMAIN approvals : approvals'[a].status = "approved" => approvals[a].status = "approved",
         Accounts
  PROVE  ReadIsFresh'
BY DEF ReadIsFresh, Accounts

LEMMA FreshAtStart ==
  ASSUME OneAtATime, Typed', SerialInv, NEW q \in Requests, Start(q)
  PROVE  ReadIsFresh'
<1> USE DEF SerialInv
<1>1. req \in [Requests -> Request] /\ \A p \in Requests : p = q
  BY DEF OneAtATime, Typed, TypeOK
<1>2. ASSUME Free(q), UNCHANGED req PROVE ReadIsFresh'
  BY <1>1, <1>2 DEF Free, ReadIsFresh
<1>3. ASSUME NEW r \in Roles, CheckAssign(q, r) PROVE ReadIsFresh'
  BY <1>1, <1>3 DEF CheckAssign, Begin, Idle, ReadIsFresh
<1>4. ASSUME NEW r \in Roles, Revoke(q, r) PROVE ReadIsFresh'
  BY <1>4, AllIdle DEF Revoke
<1>5. ASSUME NEW r \in Roles, CheckRevoke(q, r) PROVE ReadIsFresh'
  BY <1>1, <1>5 DEF CheckRevoke, Begin, Idle, ReadIsFresh
<1>6. ASSUME NEW a \in DOMAIN approvals, NEW op \in {"approve", "reject"}, Review(q, a, op)
      PROVE  ReadIsFresh'
  BY <1>1, <1>6 DEF Review, Reviewable, Begin, Idle, ReadIsFresh
<1>7. ASSUME NEW d \in Devices, BeginSync(q, d) PROVE ReadIsFresh'
  <2>1. PICK new : Begin(q, [Idle EXCEPT !.op = "sync", !.add = new,
                                        !.drop = Missing(token[d]),
                                        !.rows = Missing(token[d])])
    BY <1>7 DEF BeginSync
  <2>2. /\ req'[q].op = "sync" /\ req'[q].rows = Missing(token[d])
        /\ req'[q].drop = Missing(token[d])
    BY <1>1, <2>1 DEF Begin, Idle
  <2> QED
    BY <1>1, <1>7, <2>2 DEF BeginSync, Missing, ReadIsFresh
<1>8. ASSUME NEW rs \in SUBSET Roles, Create(q, rs) \/ CreateUndone(q, rs) \/ Import(q, rs)
      PROVE  ReadIsFresh'
  BY <1>2, <1>8 DEF Create, CreateUndone, Import
<1>9. ASSUME NEW p \in Pairs, AddRule(q, p) \/ DropRule(q, p) PROVE ReadIsFresh'
  BY <1>2, <1>9 DEF AddRule, DropRule
<1>10. ASSUME NEW r \in Roles, RevokeUndone(q, r) PROVE ReadIsFresh'
  BY <1>2, <1>10 DEF RevokeUndone
<1> QED
  BY <1>3, <1>4, <1>5, <1>6, <1>7, <1>8, <1>9, <1>10 DEF Start

LEMMA FreshAtFinish ==
  ASSUME OneAtATime, Typed, NEW q \in Requests, Finish(q)
  PROVE  ReadIsFresh'
<1>1. PICK rs : End(q, rs)
  BY DEF Finish, RequestApproval, Assign, BulkRevoke, Undone, Approve, Reject,
         EndSync, Release
<1> QED
  BY <1>1, AllIdle

LEMMA LoggedAtStart ==
  ASSUME SerialInv, NEW q \in Requests, Start(q)
  PROVE  HeldIsLogged'
<1> USE DEF SerialInv
<1>1. ASSUME UNCHANGED <<held, last>> PROVE HeldIsLogged'
  BY <1>1 DEF HeldIsLogged
<1>2. ASSUME ~profile, NEW rs \in SUBSET Roles, held' = rs, Log(rs, "assign")
      PROVE  HeldIsLogged'
  BY <1>2 DEF HeldIsLogged, Log, Typed, Accounts
<1>3. ASSUME NEW rs \in SUBSET Roles, Create(q, rs) PROVE HeldIsLogged'
  <2>1. rs \ Privileged \in SUBSET Roles
    OBVIOUS
  <2> QED
    BY <1>2, <1>3, <2>1 DEF Create
<1>4. ASSUME NEW rs \in SUBSET Roles, Import(q, rs) PROVE HeldIsLogged'
  BY <1>2, <1>4 DEF Import
<1>5. ASSUME NEW r \in Roles, Revoke(q, r) PROVE HeldIsLogged'
  BY <1>5 DEF Revoke, Log, HeldIsLogged
<1> QED
  BY <1>1, <1>3, <1>4, <1>5 DEF Start, CreateUndone, CheckAssign, CheckRevoke,
     AddRule, DropRule, Review, BeginSync, RevokeUndone

LEMMA LoggedAtFinish ==
  ASSUME SerialInv, NEW q \in Requests, Finish(q)
  PROVE  HeldIsLogged'
<1> USE DEF SerialInv
<1>1. ASSUME UNCHANGED <<held, last>> PROVE HeldIsLogged'
  BY <1>1 DEF HeldIsLogged
<1>2. CASE Assign(q)
  BY <1>2 DEF Assign, Insert, Log, HeldIsLogged
<1>3. CASE BulkRevoke(q)
  BY <1>3 DEF BulkRevoke, ReadIsFresh, Log, HeldIsLogged
<1>4. CASE Approve(q)
  BY <1>4 DEF Approve, Insert, Log, HeldIsLogged
<1>5. CASE EndSync(q)
  <2>1. /\ req[q].rows = req[q].drop /\ req[q].drop \subseteq held
        /\ req[q].add \cap held = {}
    BY <1>5 DEF EndSync, ReadIsFresh
  <2>2. \A r \in Roles : last'[r] = CASE r \in req[q].add  -> "sync_assign"
                                     [] r \in req[q].drop -> "sync_revoke"
                                     [] OTHER             -> last[r]
    BY <1>5 DEF EndSync, LogSync
  <2>3. held' = (held \ req[q].rows) \cup req[q].add
    BY <1>5 DEF EndSync
  <2> QED
    BY <2>1, <2>2, <2>3 DEF HeldIsLogged
<1> QED
  BY <1>1, <1>2, <1>3, <1>4, <1>5 DEF Finish, RequestApproval, Undone, Reject, Release

Decided == DecisionStands /\ GrantedExist

LEMMA DecidedAtStart ==
  ASSUME SerialInv, NEW q \in Requests, Start(q)
  PROVE  Decided'
<1> USE DEF SerialInv, Decided
<1>1. ASSUME UNCHANGED <<approvals, granted>> PROVE Decided'
  BY <1>1 DEF DecisionStands, GrantedExist
<1>2. ASSUME NEW rs \in SUBSET Roles, Create(q, rs) PROVE Decided'
  <2>1. PICK s \in Orders(rs \cap Privileged) : approvals' = [i \in DOMAIN s |-> Pending(s[i])]
    BY <1>2 DEF Create
  <2>2. rs \cap Privileged \in SUBSET Privileged
    OBVIOUS
  <2>3. \A a \in DOMAIN approvals' : approvals'[a].status = "pending"
    BY <2>1, <2>2, OrderedApprovals
  <2>4. granted' = {}
    BY <1>2 DEF Create, Typed, Accounts
  <2> QED
    BY <2>3, <2>4 DEF DecisionStands, GrantedExist
<1> QED
  BY <1>1, <1>2 DEF Start, CreateUndone, Import, CheckAssign, Revoke, CheckRevoke,
     AddRule, DropRule, Review, BeginSync, RevokeUndone

LEMMA DecidedAtFinish ==
  ASSUME SerialInv, NEW q \in Requests, Finish(q)
  PROVE  Decided'
<1> USE DEF SerialInv, Decided
<1>0. approvals \in Seq(Approval)
  BY DEF Typed, TypeOK
<1>1. ASSUME UNCHANGED <<approvals, granted>> PROVE Decided'
  BY <1>1 DEF DecisionStands, GrantedExist
<1>2. CASE RequestApproval(q)
  <2>1. PICK r \in Privileged : approvals' = Append(approvals, Pending(r))
    BY <1>2 DEF RequestApproval
  <2>2. Pending(r) \in Approval /\ Pending(r).status = "pending"
    BY DEF Pending, Approval
  <2>3. /\ DOMAIN approvals' = DOMAIN approvals \cup {Len(approvals) + 1}
        /\ \A a \in DOMAIN approvals : approvals'[a] = approvals[a]
        /\ approvals'[Len(approvals) + 1].status = "pending"
        /\ Len(approvals) + 1 \notin DOMAIN approvals
    BY <1>0, <2>1, <2>2, AppendProperties, LenProperties
  <2>4. granted' = granted
    BY <1>2 DEF RequestApproval
  <2> QED
    BY <2>3, <2>4 DEF DecisionStands, GrantedExist
<1>3. CASE Approve(q)
  <2> DEFINE a == req[q].approval
  <2>1. a \in DOMAIN approvals
    BY <1>3 DEF Approve, Typed, Accounts
  <2>2. Decide(a, "approved") /\ granted' = granted \cup {a}
    BY <1>3 DEF Approve
  <2> HIDE DEF a
  <2>3. /\ DOMAIN approvals' = DOMAIN approvals
        /\ approvals'[a].status = "approved"
        /\ \A b \in DOMAIN approvals : b # a => approvals'[b] = approvals[b]
    BY <1>0, <2>1, <2>2, DecideTypes
  <2> QED
    BY <2>1, <2>2, <2>3 DEF DecisionStands, GrantedExist
<1>4. CASE Reject(q)
  <2> DEFINE a == req[q].approval
  <2>1. a \in DOMAIN approvals /\ approvals[a].status # "approved"
    BY <1>4 DEF Reject, Typed, Accounts, ReadIsFresh
  <2>2. Decide(a, "rejected") /\ granted' = granted
    BY <1>4 DEF Reject
  <2> HIDE DEF a
  <2>3. /\ DOMAIN approvals' = DOMAIN approvals
        /\ approvals'[a].status = "rejected"
        /\ \A b \in DOMAIN approvals : b # a => approvals'[b] = approvals[b]
    BY <1>0, <2>1, <2>2, DecideTypes
  <2> QED
    BY <2>1, <2>2, <2>3 DEF DecisionStands, GrantedExist
<1> QED
  BY <1>1, <1>2, <1>3, <1>4 DEF Finish, Assign, BulkRevoke, Undone, EndSync, Release

\* The hours that pass change no decision.
LEMMA TimePasses ==
  ASSUME SerialInv, NEW a \in DOMAIN approvals, Overdue(a) \/ Expire(a)
  PROVE  /\ DOMAIN approvals' = DOMAIN approvals
         /\ \A b \in DOMAIN approvals :
              approvals'[b].status = "approved" <=> approvals[b].status = "approved"
         /\ UNCHANGED <<held, last, granted, req>>
<1>1. approvals \in Seq(Approval) /\ approvals[a] \in Approval
  BY LenProperties, ElementOfSeq DEF SerialInv, Typed, TypeOK
<1>2. CASE Overdue(a)
  <2>1. [approvals[a] EXCEPT !.due = TRUE].status = approvals[a].status
    BY <1>1 DEF Approval
  <2>2. approvals' = [approvals EXCEPT ![a] = [approvals[a] EXCEPT !.due = TRUE]]
    BY <1>2 DEF Overdue
  <2> QED
    BY <1>2, <2>1, <2>2 DEF Overdue
<1>3. CASE Expire(a)
  <2>1. approvals[a].status # "approved" /\ Decide(a, "expired")
    BY <1>3 DEF Expire
  <2>2. /\ DOMAIN approvals' = DOMAIN approvals
        /\ approvals'[a].status = "expired"
        /\ \A b \in DOMAIN approvals : b # a => approvals'[b] = approvals[b]
    BY <1>1, <2>1, DecideTypes
  <2> QED
    BY <1>3, <2>1, <2>2 DEF Expire
<1> QED
  BY <1>2, <1>3

LEMMA SerialStep ==
  ASSUME OneAtATime, SerialInv, [Next]_vars
  PROVE  SerialInv'
<1>1. Typed'
  BY NextTyped DEF SerialInv
<1>2. ASSUME NEW q \in Requests, Start(q) PROVE SerialInv'
  BY <1>1, <1>2, FreshAtStart, LoggedAtStart, DecidedAtStart DEF SerialInv, Decided
<1>3. ASSUME NEW q \in Requests, Finish(q) PROVE SerialInv'
  BY <1>1, <1>3, FreshAtFinish, LoggedAtFinish, DecidedAtFinish DEF SerialInv, Decided
<1>4. ASSUME NEW a \in DOMAIN approvals, Overdue(a) \/ Expire(a) PROVE SerialInv'
  <2>1. ReadIsFresh'
    BY <1>4, TimePasses, StillFresh DEF SerialInv, Typed
  <2> QED
    BY <1>1, <1>4, <2>1, TimePasses
       DEF SerialInv, HeldIsLogged, DecisionStands, GrantedExist
<1>5. ASSUME UNCHANGED <<held, last, approvals, granted, req>> PROVE SerialInv'
  BY <1>1, <1>5 DEF SerialInv, HeldIsLogged, DecisionStands, GrantedExist, ReadIsFresh
<1> QED
  BY <1>2, <1>3, <1>4, <1>5 DEF Next, IamEdit, Refresh, vars

LEMMA SerialHolds == ASSUME OneAtATime PROVE Spec => []SerialInv
<1>1. Init => HeldIsLogged /\ DecisionStands /\ GrantedExist /\ ReadIsFresh
  BY DEF Init, HeldIsLogged, DecisionStands, GrantedExist, ReadIsFresh, Idle
<1>2. Init => SerialInv
  BY <1>1, InitTyped DEF SerialInv
<1>3. SerialInv /\ [Next]_vars => SerialInv'
  BY SerialStep
<1> QED
  BY <1>2, <1>3, PTL DEF Spec

\* One request at a time: the RoleChangeEvents tell which roles are held.
THEOREM LogHolds == ASSUME OneAtATime PROVE Spec => []HeldIsLogged
<1>1. SerialInv => HeldIsLogged
  BY DEF SerialInv
<1> QED
  BY <1>1, SerialHolds, PTL

\* One request at a time: an approval request has created a UserRole exactly if
\* it is recorded as approved.
THEOREM DecisionsHold == ASSUME OneAtATime PROVE Spec => []DecisionStands
<1>1. SerialInv => DecisionStands
  BY DEF SerialInv
<1> QED
  BY <1>1, SerialHolds, PTL

-----------------------------------------------------------------------------
(* One request at a time: the mutual exclusions, as far as they hold: rules *)
(* do not concern privileged roles, and imported rows respect the rules.    *)

RulesAreOrdinary == \A p \in Pairs : p \cap Privileged = {}

FilesAreCompatible == \A f \in Files, p \in Pairs : ~(p \subseteq f)

\* A check still holds when the request writes.
CheckIsFresh ==
  \A q \in Requests :
    /\ req[q].op = "assign" => req[q].drop = {}
    /\ req[q].op \in {"assign", "sync"} =>
         \A r \in req[q].add : ~Conflict(r, (held \ req[q].drop) \cup req[q].add)

LEMMA NoSelfRule == ASSUME Typed, NEW r PROVE {r} \notin rules
<1>1. Cardinality({r}) = 1
  BY FS_Singleton
<1> QED
  BY <1>1 DEF Typed, TypeOK

LEMMA CheckStep ==
  ASSUME OneAtATime, SerialInv, CheckIsFresh, [Next]_vars
  PROVE  CheckIsFresh'
<1>0. /\ Typed /\ req \in [Requests -> Request]
      /\ \A p, q \in Requests : p = q
  BY DEF OneAtATime, SerialInv, Typed, TypeOK
<1>1. ASSUME UNCHANGED <<held, rules, req>> PROVE CheckIsFresh'
  BY <1>1 DEF CheckIsFresh, Conflict
<1>2. ASSUME NEW q \in Requests, NEW rs, End(q, rs) PROVE CheckIsFresh'
  <2>1. req'[q].op = "idle"
    BY <1>0, <1>2, EndTypes DEF Idle
  <2> QED
    BY <1>0, <2>1 DEF CheckIsFresh
<1>3. ASSUME NEW q \in Requests, Start(q) PROVE CheckIsFresh'
  <2>1. ASSUME Free(q), UNCHANGED req PROVE CheckIsFresh'
    BY <1>0, <2>1 DEF Free, CheckIsFresh
  <2>2. ASSUME NEW r \in Roles, CheckAssign(q, r) PROVE CheckIsFresh'
    <3>1. req'[q].op = "assign" /\ req'[q].add = {r} /\ req'[q].drop = {}
      BY <1>0, <2>2 DEF CheckAssign, Begin, Idle
    <3>2. held' = held /\ rules' = rules /\ ~Conflict(r, held) /\ {r} \notin rules
      BY <1>0, <2>2, NoSelfRule DEF CheckAssign
    <3>3. ~\E h \in (held \ {}) \cup {r} : {r, h} \in rules
      <4>1. {r, r} = {r}
        OBVIOUS
      <4> QED
        BY <3>2, <4>1 DEF Conflict
    <3> QED
      BY <1>0, <3>1, <3>2, <3>3 DEF CheckIsFresh, Conflict
  <2>3. ASSUME NEW r \in Roles, Revoke(q, r) PROVE CheckIsFresh'
    BY <1>2, <2>3 DEF Revoke
  <2>4. ASSUME NEW r \in Roles, CheckRevoke(q, r) PROVE CheckIsFresh'
    <3>1. req'[q].op = "revoke"
      BY <1>0, <2>4 DEF CheckRevoke, Begin, Idle
    <3> QED
      BY <1>0, <3>1 DEF CheckIsFresh
  <2>5. ASSUME NEW a \in DOMAIN approvals, NEW op \in {"approve", "reject"}, Review(q, a, op)
        PROVE  CheckIsFresh'
    <3>1. req'[q].op = op
      BY <1>0, <2>5 DEF Review, Begin, Idle
    <3> QED
      BY <1>0, <3>1 DEF CheckIsFresh
  <2>6. ASSUME NEW d \in Devices, BeginSync(q, d) PROVE CheckIsFresh'
    <3> DEFINE drop == Missing(token[d])
    <3>1. PICK new \in Additions(held \ drop, token[d]) :
            Begin(q, [Idle EXCEPT !.op = "sync", !.add = new, !.drop = drop, !.rows = drop])
      BY <2>6 DEF BeginSync
    <3>2. held' = held /\ rules' = rules
      BY <2>6 DEF BeginSync
    <3> HIDE DEF drop
    <3>3. req'[q].op = "sync" /\ req'[q].add = new /\ req'[q].drop = drop
      BY <1>0, <3>1 DEF Begin, Idle
    <3>4. \A r \in new : ~Conflict(r, (held \ drop) \cup new)
      BY <3>1 DEF Additions
    <3> QED
      BY <1>0, <3>2, <3>3, <3>4 DEF CheckIsFresh, Conflict
  <2> QED
    BY <1>3, <2>1, <2>2, <2>3, <2>4, <2>5, <2>6
       DEF Start, Create, CreateUndone, Import, RevokeUndone, AddRule, DropRule
<1>4. ASSUME NEW q \in Requests, Finish(q) PROVE CheckIsFresh'
  <2>1. PICK rs : End(q, rs)
    BY <1>4 DEF Finish, RequestApproval, Assign, BulkRevoke, Undone, Approve,
       Reject, EndSync, Release
  <2> QED
    BY <1>2, <2>1
<1> QED
  BY <1>1, <1>3, <1>4 DEF Next, Overdue, Expire, IamEdit, Refresh, vars

\* What one step may make active.
Admitted == \A r \in held' \ held : ~\E h \in held' : {r, h} \in rules

LEMMA AdmittedStep ==
  ASSUME RulesAreOrdinary, FilesAreCompatible, SerialInv, CheckIsFresh, [Next]_vars
  PROVE  Admitted
<1>0. Typed /\ rules \subseteq Pairs /\ req \in [Requests -> Request]
  BY DEF SerialInv, Typed, TypeOK
<1>1. ASSUME held' \subseteq held PROVE Admitted
  BY <1>1 DEF Admitted
<1>2. ASSUME NEW q \in Requests, NEW rs \in SUBSET Roles, Create(q, rs) PROVE Admitted
  BY <1>2 DEF Create, Conflict, Admitted
<1>3. ASSUME NEW q \in Requests, NEW rs \in Files, Import(q, rs) PROVE Admitted
  <2>1. held' = rs
    BY <1>3 DEF Import
  <2>2. ASSUME NEW r \in rs, NEW h \in rs PROVE {r, h} \notin rules
    <3>1. {r, h} \subseteq rs
      OBVIOUS
    <3>2. {r, h} \notin Pairs
      BY <3>1 DEF FilesAreCompatible
    <3> QED
      BY <1>0, <3>2
  <2> QED
    BY <2>1, <2>2 DEF Admitted
<1>4. ASSUME NEW q \in Requests, Assign(q) PROVE Admitted
  <2>1. req[q].drop = {} /\ held' = held \cup req[q].add
        /\ \A r \in req[q].add : ~Conflict(r, (held \ {}) \cup req[q].add)
    BY <1>4 DEF Assign, Insert, CheckIsFresh
  <2> QED
    BY <2>1 DEF Conflict, Admitted
<1>5. ASSUME NEW q \in Requests, Approve(q) PROVE Admitted
  <2> DEFINE r == approvals[req[q].approval].role
  <2>1. req[q].approval \in DOMAIN approvals /\ held' = held \cup {r}
    BY <1>0, <1>5 DEF Approve, Insert, Typed, Accounts
  <2>2. r \in Privileged
    <3>1. approvals[req[q].approval] \in Approval
      BY <1>0, <2>1, ElementOfSeq, LenProperties DEF Typed, TypeOK
    <3> QED
      BY <3>1 DEF Approval
  <2> HIDE DEF r
  <2>3. \A h : {r, h} \notin rules
    BY <1>0, <2>2 DEF RulesAreOrdinary
  <2> QED
    BY <2>1, <2>3 DEF Admitted
<1>6. ASSUME NEW q \in Requests, EndSync(q) PROVE Admitted
  <2>1. /\ req[q].rows = req[q].drop
        /\ held' = (held \ req[q].rows) \cup req[q].add
        /\ \A r \in req[q].add : ~Conflict(r, (held \ req[q].drop) \cup req[q].add)
    BY <1>6 DEF EndSync, SerialInv, ReadIsFresh, CheckIsFresh
  <2> QED
    BY <2>1 DEF Conflict, Admitted
<1>7. ASSUME NEW q \in Requests, Start(q) PROVE Admitted
  BY <1>1, <1>2, <1>3, <1>7 DEF Start, CreateUndone, CheckAssign, Revoke,
     CheckRevoke, AddRule, DropRule, Review, BeginSync, RevokeUndone
<1>8. ASSUME NEW q \in Requests, Finish(q) PROVE Admitted
  BY <1>1, <1>4, <1>5, <1>6, <1>8 DEF Finish, RequestApproval, BulkRevoke, Undone,
     Reject, Release
<1> QED
  BY <1>1, <1>7, <1>8 DEF Next, Overdue, Expire, IamEdit, Refresh, vars

\* One request at a time, no rule about a privileged role, and imports that
\* respect the rules: a role becomes active only if no rule excludes one that is
\* active with it.
THEOREM RulesHold ==
  ASSUME OneAtATime, RulesAreOrdinary, FilesAreCompatible
  PROVE  Spec => GrantRespectsRules
<1>1. Init => CheckIsFresh
  BY DEF Init, CheckIsFresh, Idle
<1>2. SerialInv /\ CheckIsFresh /\ [Next]_vars => CheckIsFresh'
  BY CheckStep
<1>3. SerialInv /\ CheckIsFresh /\ [Next]_vars => [Admitted]_vars
  BY AdmittedStep
<1>4. GrantRespectsRules <=> [][Admitted]_vars
  BY PTL DEF GrantRespectsRules, Admitted
<1> QED
  BY <1>1, <1>2, <1>3, <1>4, SerialHolds, PTL DEF Spec

=============================================================================
