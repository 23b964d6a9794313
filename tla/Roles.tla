------------------------------- MODULE Roles -------------------------------
(***************************************************************************)
(* apps/users and shared/auth.py: which roles one user holds.              *)
(*                                                                         *)
(* Three places know: the users_userrole rows of NBES, the client roles of *)
(* the account in IAM (Keycloak), and the access tokens IAM has issued.    *)
(* Administrators change the first and tell the second (assign_role,       *)
(* revoke_role, the bulk operations, the two-administrator approval);      *)
(* every request the user makes brings the first in line with the token it *)
(* carries (KeycloakJWTAuthentication._mirror_profile), however old.       *)
(*                                                                         *)
(* A request that first looks and then writes is split there: the checks   *)
(* run before the transaction, and no row lock ties them to it.            *)
(***************************************************************************)
EXTENDS Integers, FiniteSets, Sequences

CONSTANTS
  Roles,        \* the active roles of the registry
  Privileged,   \* HIGH_PRIVILEGE_ROLES
  Pairs,        \* pairs of roles a mutual-exclusion rule may be made of
  Files,        \* the sets of roles a row of an import may list
  IamSets,      \* the sets of roles IAM's own administration may give
  Devices,      \* clients of the user, each with one access token
  Requests,     \* requests that may be in flight at once
  MaxApprovals, \* bound on the approval requests made for the user
  Nobody        \* not a role: {Nobody} stands for an account there is not

ASSUME RolesAssumption ==
  /\ Privileged \subseteq Roles
  /\ Pairs \subseteq SUBSET Roles
  /\ \A p \in Pairs : Cardinality(p) = 2
  /\ Files \subseteq SUBSET Roles
  /\ IamSets \subseteq SUBSET Roles
  /\ MaxApprovals \in Nat
  /\ Nobody \notin Roles

VARIABLES
  profile,    \* the users_userprofile row exists
  held,       \* the roles with a users_userrole row that is not revoked
  last,       \* per role: its last users_rolechangeevent
  approvals,  \* users_roleassignmentapproval, in the order of creation
  granted,    \* history: the approvals that created a UserRole
  rules,      \* users_rolemutualexclusion
  iam,        \* the client roles of the account in IAM
  token,      \* per device: the roles of its access token
  req         \* per request: what it has looked at

vars == <<profile, held, last, approvals, granted, rules, iam, token, req>>

-----------------------------------------------------------------------------
(* Rows and requests.                                                      *)

\* The kinds of RoleChangeEvent, told apart by who made the change.
Changes == {"none", "assign", "revoke", "sync_assign", "sync_revoke"}

Approval == [role : Privileged, due : BOOLEAN,
             status : {"pending", "approved", "rejected", "expired"}]

Pending(r) == [role |-> r, due |-> FALSE, status |-> "pending"]

\* rows are the rows a request has read and is going to revoke, those of drop
\* that nobody else has revoked since.
Request == [op : {"idle", "assign", "revoke", "approve", "reject", "sync"},
            add : SUBSET Roles, drop : SUBSET Roles, rows : SUBSET Roles,
            approval : 0..MaxApprovals]

Idle == [op |-> "idle", add |-> {}, drop |-> {}, rows |-> {}, approval |-> 0]

\* No account in IAM, no token.
None == {Nobody}

Free(q) == req[q].op = "idle"

Begin(q, work) == req' = [req EXCEPT ![q] = work]

\* q ends, and rs are the roles it has revoked: their rows are gone for the
\* other requests.
End(q, rs) ==
  req' = [p \in Requests |->
            IF p = q THEN Idle ELSE [req[p] EXCEPT !.rows = @ \ rs]]

Init ==
  /\ profile = FALSE
  /\ held = {}
  /\ last = [r \in Roles |-> "none"]
  /\ approvals = <<>>
  /\ granted = {}
  /\ rules = {}
  /\ iam = None
  /\ token = [d \in Devices |-> None]
  /\ req = [q \in Requests |-> Idle]

\* RoleMutualExclusion.check_conflict.
Conflict(r, hs) == \E h \in hs : {r, h} \in rules

Log(rs, change) == last' = [r \in Roles |-> IF r \in rs THEN change ELSE last[r]]

-----------------------------------------------------------------------------
(* New users.                                                              *)

\* The orders in which the members of a set can be listed.
Orders(rs) ==
  {s \in UNION {[1..n -> rs] : n \in 0..MaxApprovals} :
     /\ \A r \in rs : \E i \in DOMAIN s : s[i] = r
     /\ \A i, j \in DOMAIN s : s[i] = s[j] => i = j}

\* create_user: IAM gets all the roles, NBES those that need no approval.  A
\* privileged role meets the rules only if the excluded one comes before it.
Create(q, rs) ==
  LET direct == rs \ Privileged IN
  /\ Free(q) /\ ~profile /\ iam = None
  /\ \A r \in direct : ~Conflict(r, direct)
  /\ profile' = TRUE
  /\ iam' = rs
  /\ held' = direct
  /\ Log(direct, "assign")
  /\ \E s \in Orders(rs \cap Privileged) :
       approvals' = [i \in DOMAIN s |-> Pending(s[i])]
  /\ UNCHANGED <<granted, rules, token, req>>

\* The transaction fails, because a rule refuses one of the roles or for another
\* reason: everything is rolled back but the account in IAM.
CreateUndone(q, rs) ==
  /\ Free(q) /\ ~profile /\ iam = None
  /\ iam' = rs
  /\ UNCHANGED <<profile, held, last, approvals, granted, rules, token, req>>

\* A row of BulkUserImportView: no rules and no approvals.
Import(q, rs) ==
  /\ Free(q) /\ ~profile /\ iam = None
  /\ profile' = TRUE
  /\ iam' = rs
  /\ held' = rs
  /\ Log(rs, "assign")
  /\ UNCHANGED <<approvals, granted, rules, token, req>>

-----------------------------------------------------------------------------
(* Administrators.                                                         *)

\* The checks of assign_role and of BulkRoleAssignView.
CheckAssign(q, r) ==
  /\ Free(q) /\ profile
  /\ ~Conflict(r, held)
  /\ r \notin held
  /\ Begin(q, [Idle EXCEPT !.op = "assign", !.add = {r}])
  /\ UNCHANGED <<profile, held, last, approvals, granted, rules, iam, token>>

\* assign_role queues a privileged role for a second administrator.
RequestApproval(q) ==
  /\ req[q].op = "assign"
  /\ Len(approvals) < MaxApprovals
  /\ \E r \in req[q].add \cap Privileged : approvals' = Append(approvals, Pending(r))
  /\ End(q, {})
  /\ UNCHANGED <<profile, held, last, granted, rules, iam, token>>

\* unique_active_user_role.
Insert(rs) ==
  /\ rs \cap held = {}
  /\ held' = held \cup rs

\* The call to IAM may fail: assign_role and the approval go on without it.
TellIam(new) == iam' \in {iam, new}

\* The transaction of assign_role or of a bulk assignment.
Assign(q) ==
  /\ req[q].op = "assign"
  /\ req[q].add \cap Privileged = {}
  /\ Insert(req[q].add)
  /\ Log(req[q].add, "assign")
  /\ TellIam(iam \cup req[q].add)
  /\ End(q, {})
  /\ UNCHANGED <<profile, approvals, granted, rules, token>>

\* revoke_role: the row lock makes looking and writing one step.
Revoke(q, r) ==
  /\ Free(q) /\ r \in held
  /\ held' = held \ {r}
  /\ Log({r}, "revoke")
  /\ TellIam(iam \ {r})
  /\ End(q, {r})
  /\ UNCHANGED <<profile, approvals, granted, rules, token>>

\* IAM was told, and then the transaction fails.
RevokeUndone(q, r) ==
  /\ Free(q) /\ r \in held
  /\ iam' = iam \ {r}
  /\ UNCHANGED <<profile, held, last, approvals, granted, rules, token, req>>

\* A bulk revocation reads the row without a lock, ...
CheckRevoke(q, r) ==
  /\ Free(q) /\ r \in held
  /\ Begin(q, [Idle EXCEPT !.op = "revoke", !.drop = {r}, !.rows = {r}])
  /\ UNCHANGED <<profile, held, last, approvals, granted, rules, iam, token>>

\* ... and skips the user if IAM fails.
BulkRevoke(q) ==
  /\ req[q].op = "revoke"
  /\ held' = held \ req[q].rows
  /\ Log(req[q].drop, "revoke")
  /\ iam' = iam \ req[q].drop
  /\ End(q, req[q].rows)
  /\ UNCHANGED <<profile, approvals, granted, rules, token>>

\* What a request tells IAM of a user.
Grants(q) ==
  IF req[q].op = "approve" THEN {approvals[req[q].approval].role}
  ELSE req[q].add \ Privileged

\* IAM was told, and then the transaction fails: another user of the bulk
\* operation raises, or the worker dies.
Undone(q) ==
  /\ req[q].op \in {"assign", "revoke", "approve"}
  /\ iam' = (iam \cup Grants(q)) \ req[q].drop
  /\ End(q, {})
  /\ UNCHANGED <<profile, held, last, approvals, granted, rules, token>>

\* POST and DELETE of the exclusions: the roles people hold are not looked at.
AddRule(q, p) ==
  /\ Free(q)
  /\ p \notin rules
  /\ rules' = rules \cup {p}
  /\ UNCHANGED <<profile, held, last, approvals, granted, iam, token, req>>

DropRule(q, p) ==
  /\ Free(q)
  /\ p \in rules
  /\ rules' = rules \ {p}
  /\ UNCHANGED <<profile, held, last, approvals, granted, iam, token, req>>

-----------------------------------------------------------------------------
(* The second administrator.                                               *)

\* Mutant: the status is not looked at.
ReviewableAlways(a, op) == op = "approve" => ~approvals[a].due

\* The checks of do_approve and do_reject, on the record the view has read.
\* That the reviewer is not the requester is left to the choice of reviewers.
Reviewable(a, op) ==
  /\ approvals[a].status = "pending"
  /\ op = "approve" => ~approvals[a].due

Review(q, a, op) ==
  /\ Free(q)
  /\ Reviewable(a, op)
  /\ Begin(q, [Idle EXCEPT !.op = op, !.approval = a])
  /\ UNCHANGED <<profile, held, last, approvals, granted, rules, iam, token>>

Decide(a, status) == approvals' = [approvals EXCEPT ![a].status = status]

\* do_approve: the role is granted without another look at the rules.
Approve(q) ==
  LET a == req[q].approval
      r == approvals[a].role
  IN
  /\ req[q].op = "approve"
  /\ Insert({r})
  /\ Log({r}, "assign")
  /\ Decide(a, "approved")
  /\ granted' = granted \cup {a}
  /\ TellIam(iam \cup {r})
  /\ End(q, {})
  /\ UNCHANGED <<profile, rules, token>>

Reject(q) ==
  /\ req[q].op = "reject"
  /\ Decide(req[q].approval, "rejected")
  /\ End(q, {})
  /\ UNCHANGED <<profile, held, last, granted, rules, iam, token>>

\* Forty-eight hours have passed.
Overdue(a) ==
  /\ approvals[a].status = "pending" /\ ~approvals[a].due
  /\ approvals' = [approvals EXCEPT ![a].due = TRUE]
  /\ UNCHANGED <<profile, held, last, granted, rules, iam, token, req>>

\* expire_pending_role_approvals, every hour.
Expire(a) ==
  /\ approvals[a].status = "pending" /\ approvals[a].due
  /\ Decide(a, "expired")
  /\ UNCHANGED <<profile, held, last, granted, rules, iam, token, req>>

-----------------------------------------------------------------------------
(* The user.                                                               *)

\* IAM's own administration makes the account or changes its roles.
IamEdit(rs) ==
  /\ rs # iam
  /\ iam' = rs
  /\ UNCHANGED <<profile, held, last, approvals, granted, rules, token, req>>

\* A login, or the refresh of a token that has expired.
Refresh(d) ==
  /\ iam # None
  /\ token' = [token EXCEPT ![d] = iam]
  /\ UNCHANGED <<profile, held, last, approvals, granted, rules, iam, req>>

\* Mutant: the roles of the token are not checked.
AdditionsUnchecked(kept, roles) == {roles \ kept}

\* What the sync adds: it goes through the roles of the token in their order
\* and leaves out those that conflict with what is held by then.
Additions(kept, roles) ==
  {new \in SUBSET (roles \ kept) :
     \A r \in roles \ kept : r \in new <=> ~Conflict(r, kept \cup new)}

\* Mutant: roles are only added.
NotInToken(roles) == {}

\* The active roles that are not in the token.
Missing(roles) == held \ roles

\* _mirror_profile reads.  The profile row is locked, which keeps other syncs
\* of the user out, and nobody else.
BeginSync(q, d) ==
  LET drop == Missing(token[d]) IN
  /\ Free(q)
  /\ token[d] # None
  /\ \A p \in Requests : req[p].op # "sync"
  /\ \E new \in Additions(held \ drop, token[d]) :
       Begin(q, [Idle EXCEPT !.op = "sync", !.add = new,
                             !.drop = drop, !.rows = drop])
  /\ UNCHANGED <<profile, held, last, approvals, granted, rules, iam, token>>

\* Mutant: only the new roles are logged.
LogAdditions(drop, add) ==
  last' = [r \in Roles |-> IF r \in add THEN "sync_assign" ELSE last[r]]
LogSync(drop, add) ==
  last' = [r \in Roles |-> CASE r \in add  -> "sync_assign"
                             [] r \in drop -> "sync_revoke"
                             [] OTHER      -> last[r]]

\* _mirror_profile writes: the profile, if there is none, and the roles.
EndSync(q) ==
  LET work == req[q] IN
  /\ work.op = "sync"
  /\ work.add \cap held = {}
  /\ profile' = TRUE
  /\ held' = (held \ work.rows) \cup work.add
  /\ LogSync(work.drop, work.add)
  /\ End(q, work.rows)
  /\ UNCHANGED <<approvals, granted, rules, iam, token>>

-----------------------------------------------------------------------------
\* The request fails: refused, a constraint is violated, or the worker dies.
Release(q) ==
  /\ ~Free(q)
  /\ End(q, {})
  /\ UNCHANGED <<profile, held, last, approvals, granted, rules, iam, token>>

Finish(q) ==
  \/ RequestApproval(q) \/ Assign(q) \/ BulkRevoke(q) \/ Undone(q)
  \/ Approve(q) \/ Reject(q) \/ EndSync(q) \/ Release(q)

Start(q) ==
  \/ \E rs \in SUBSET Roles : Create(q, rs) \/ CreateUndone(q, rs)
  \/ \E rs \in Files : Import(q, rs)
  \/ \E r \in Roles : CheckAssign(q, r) \/ Revoke(q, r) \/ RevokeUndone(q, r) \/ CheckRevoke(q, r)
  \/ \E p \in Pairs : AddRule(q, p) \/ DropRule(q, p)
  \/ \E a \in DOMAIN approvals, op \in {"approve", "reject"} : Review(q, a, op)
  \/ \E d \in Devices : BeginSync(q, d)

Next ==
  \/ \E q \in Requests : Start(q) \/ Finish(q)
  \/ \E a \in DOMAIN approvals : Overdue(a) \/ Expire(a)
  \/ \E rs \in IamSets : IamEdit(rs)
  \/ \E d \in Devices : Refresh(d)

Spec == Init /\ [][Next]_vars

\* A request ends, and its writes are not rolled back for ever; tokens last
\* hours, and the user goes on making requests.
FairSpec ==
  /\ Spec
  /\ \A q \in Requests : WF_vars(Finish(q)) /\ SF_vars(EndSync(q))
  /\ \A d \in Devices : WF_vars(Refresh(d))
                        /\ WF_vars(\E q \in Requests : BeginSync(q, d))

-----------------------------------------------------------------------------
(* Properties.                                                             *)

TypeOK ==
  /\ profile \in BOOLEAN
  /\ held \subseteq Roles
  /\ last \in [Roles -> Changes]
  /\ approvals \in Seq(Approval) /\ Len(approvals) <= MaxApprovals
  /\ granted \subseteq 1..MaxApprovals
  /\ rules \subseteq Pairs
  /\ iam \in (SUBSET Roles) \cup {None}
  /\ token \in [Devices -> (SUBSET Roles) \cup {None}]
  /\ req \in [Requests -> Request]

\* One request at a time: the RoleChangeEvents tell which roles are held.
HeldIsLogged ==
  \A r \in Roles : r \in held <=> last[r] \in {"assign", "sync_assign"}

\* One request at a time: an approval request has created a UserRole exactly
\* if it is recorded as approved, whatever expires meanwhile ("Cannot reject a
\* {status} request").
DecisionStands ==
  \A a \in DOMAIN approvals : a \in granted <=> approvals[a].status = "approved"

\* One request at a time, no rule about a privileged role, and imports that
\* respect the rules: a role becomes active only if no rule excludes one that
\* is active with it.
GrantRespectsRules ==
  [][\A r \in held' \ held : ~\E h \in held' : {r, h} \in rules]_vars

\* Nothing but the user's own requests.
UserStep ==
  \E q \in Requests :
    EndSync(q) \/ Release(q) \/ \E d \in Devices : BeginSync(q, d)

\* NBES holds what IAM has, but for roles that a rule keeps out.
InLineWithIam ==
  /\ held \subseteq iam
  /\ \A r \in iam \ held : Conflict(r, held)

\* When administrators have come to rest, NBES comes in line with IAM for good,
\* whatever calls to IAM failed and whatever tokens were stale.
Converges ==
  <>[][UserStep]_<<profile, held, rules, iam, req>>
    => <>[](iam # None => InLineWithIam)

=============================================================================
