------------------------------- MODULE Access -------------------------------
(***************************************************************************)
(* shared/rbac: what a request may do is looked up in two tables, the roles*)
(* a user holds and the permissions a role grants, each behind a cache     *)
(* whose entries live for CACHE_TTL.  Whoever changes a table deletes the  *)
(* entry: after the commit when a role's permissions are set or a custom   *)
(* role is edited, but within the transaction when roles are assigned or   *)
(* revoked.                                                                *)
(*                                                                         *)
(* A lookup that misses reads the table and then sets the entry, and a     *)
(* change may be committed in between.                                     *)
(***************************************************************************)
EXTENDS Integers, FiniteSets

CONSTANTS
  Subs,        \* users
  RoleNames,   \* roles
  Codenames,   \* permissions
  Custom,      \* the roles that are not seeded
  Readers,     \* lookups under way at a time
  TTL,         \* CACHE_TTL
  Slow,        \* the time a lookup takes at most
  MaxTime,     \* bound: time
  MaxEdits     \* bound: changes

ASSUME AccessAssumption ==
  /\ TTL \in Nat \ {0} /\ Slow \in Nat /\ MaxTime \in Nat /\ MaxEdits \in Nat
  /\ Custom \subseteq RoleNames /\ Subs \cap RoleNames = {}

VARIABLES
  table,     \* users_userrole, per user, and users_rolepermission, per role
  is_active, \* users_role.is_active
  cache,     \* per user and role: the entry, and when it was set
  edit,      \* the change whose transaction is open or whose entry is not deleted
  reader,    \* per lookup: what it has read, and when it began
  changed,   \* per user and role: what the table held before, and until when
  now,       \* the time
  edits      \* how many changes there were

accessVars == <<table, is_active, cache, edit, reader, changed, now, edits>>

Keys == Subs \cup RoleNames

-----------------------------------------------------------------------------
Values(k) == IF k \in Subs THEN SUBSET RoleNames ELSE SUBSET Codenames

NoEntry == [set |-> FALSE]

Entry(value) == [set |-> TRUE, value |-> value, at |-> now]

Miss == [at |-> -1]

NoEdit == [pc |-> "none"]

AccessInit ==
  /\ table \in {f \in [Keys -> UNION {Values(k) : k \in Keys}] : \A k \in Keys : f[k] = {}}
  /\ is_active = [r \in RoleNames |-> TRUE]
  /\ cache = [k \in Keys |-> NoEntry]
  /\ edit = NoEdit
  /\ reader = [t \in Readers |-> Miss]
  /\ changed = [k \in Keys |-> -1]
  /\ now = 0
  /\ edits = 0

-----------------------------------------------------------------------------
(* Changes.                                                                *)

Begin(kind, k, value) ==
  /\ edit = NoEdit /\ edits < MaxEdits
  /\ value # table[k]
  /\ edit' = [pc |-> "open", kind |-> kind, key |-> k, value |-> value]
  /\ edits' = edits + 1
  /\ UNCHANGED <<table, is_active, cache, reader, changed, now>>

\* invalidate_user and invalidate_role.
Invalidate(ks) == cache' = [k \in Keys |-> IF k \in ks THEN NoEntry ELSE cache[k]]

\* assign_role and revoke_role: the rows, not yet committed,
SetUserRoles(sub, roles) == Begin("roles", sub, roles)

\* then both caches,
InvalidateWithin ==
  /\ edit.pc = "open" /\ edit.kind = "roles"
  /\ Invalidate({edit.key} \cup (table[edit.key] \ edit.value)
                          \cup (edit.value \ table[edit.key]))
  /\ edit' = [edit EXCEPT !.pc = "commit"]
  /\ UNCHANGED <<table, is_active, reader, changed, now, edits>>

\* PUT rbac/roles/{id}/permissions/
PutRolePermissions(role, codenames) == Begin("grants", role, codenames)

Commit ==
  /\ edit.pc = "commit" \/ (edit.pc = "open" /\ edit.kind = "grants")
  /\ table' = [table EXCEPT ![edit.key] = edit.value]
  /\ changed' = [changed EXCEPT ![edit.key] = now]
  /\ edit' = IF edit.kind = "grants" THEN [edit EXCEPT !.pc = "delete"] ELSE NoEdit
  /\ UNCHANGED <<is_active, cache, reader, now, edits>>

InvalidateAfter ==
  /\ edit.pc = "delete"
  /\ Invalidate({edit.key})
  /\ edit' = NoEdit
  /\ UNCHANGED <<table, is_active, reader, changed, now, edits>>

\* The worker dies: what is not committed is gone, and nothing more is deleted.
DieEditing ==
  /\ edit # NoEdit
  /\ edit' = NoEdit
  /\ UNCHANGED <<table, is_active, cache, reader, changed, now, edits>>

\* PATCH and DELETE rbac/roles/{id}/: one column, and the entry.
SetActive(role, active) ==
  /\ role \in Custom
  /\ is_active[role] # active /\ edits < MaxEdits
  /\ is_active' = [is_active EXCEPT ![role] = active]
  /\ Invalidate({role})
  /\ edits' = edits + 1
  /\ UNCHANGED <<table, edit, reader, changed, now>>

PatchRole(role)  == \E active \in BOOLEAN : SetActive(role, active)
DeleteRole(role) == SetActive(role, FALSE)

\* The last day of an assignment is over: nobody deletes an entry.
Lapse(sub, role) ==
  /\ edit = NoEdit /\ edits < MaxEdits
  /\ role \in table[sub]
  /\ table' = [table EXCEPT ![sub] = @ \ {role}]
  /\ changed' = [changed EXCEPT ![sub] = now]
  /\ edits' = edits + 1
  /\ UNCHANGED <<is_active, cache, edit, reader, now>>

-----------------------------------------------------------------------------
(* Lookups.                                                                *)

\* Mutant: entries are set without a timeout.
FreshForever(k) == cache[k].set

\* cache.get: an entry is gone when its time is up.
Hit(k) == cache[k].set /\ now < cache[k].at + TTL

\* _user_db_roles and _permissions_for_role: a miss, and the query; a role that
\* is not active grants nothing.
Granted(k) == IF k \in RoleNames /\ ~is_active[k] THEN {} ELSE table[k]

ReadTable(t, k) ==
  /\ reader[t] = Miss
  /\ ~Hit(k)
  /\ reader' = [reader EXCEPT ![t] = [at |-> now, key |-> k, value |-> Granted(k)]]
  /\ UNCHANGED <<table, is_active, cache, edit, changed, now, edits>>

SetEntry(t) ==
  /\ reader[t] # Miss
  /\ cache' = [cache EXCEPT ![reader[t].key] = Entry(reader[t].value)]
  /\ reader' = [reader EXCEPT ![t] = Miss]
  /\ UNCHANGED <<table, is_active, edit, changed, now, edits>>

\* What a lookup that finds both entries answers; roles are looked up in the
\* registry each time.
PermissionsFor(sub) ==
  UNION {cache[r].value : r \in {q \in cache[sub].value : is_active[q] /\ Hit(q)}}

HasPermission(sub, codename) == Hit(sub) /\ codename \in PermissionsFor(sub)

\* No lookup takes longer than Slow.
Wait ==
  /\ now < MaxTime
  /\ \A t \in Readers : reader[t] # Miss => now < reader[t].at + Slow
  /\ now' = now + 1
  /\ UNCHANGED <<table, is_active, cache, edit, reader, changed, edits>>

-----------------------------------------------------------------------------
AccessNext ==
  \/ \E sub \in Subs, roles \in SUBSET RoleNames : SetUserRoles(sub, roles)
  \/ \E sub \in Subs, role \in RoleNames : Lapse(sub, role)
  \/ \E role \in RoleNames :
       \/ \E codenames \in SUBSET Codenames : PutRolePermissions(role, codenames)
       \/ PatchRole(role) \/ DeleteRole(role)
  \/ InvalidateWithin \/ Commit \/ InvalidateAfter \/ DieEditing
  \/ \E t \in Readers : SetEntry(t) \/ \E k \in Keys : ReadTable(t, k)
  \/ Wait

AccessSpec == AccessInit /\ [][AccessNext]_accessVars

-----------------------------------------------------------------------------
(* Properties.                                                             *)

\* A user is granted by the cache what the tables do not grant only for so long
\* after the last change to one of them: the life of an entry, and the time a
\* lookup takes between its query and its entry.  (Without the second the
\* "within 60 s" of shared/rbac does not hold.)
RevocationTakesEffect ==
  \A sub \in Subs, codename \in Codenames :
    HasPermission(sub, codename) /\ ~(\E r \in table[sub] : is_active[r] /\ codename \in table[r]) =>
      \E k \in {sub} \cup cache[sub].value : now - changed[k] < TTL + Slow
=============================================================================
