# NBES backend: a TLA+ verification project

The National Bar Examination System (NBES) is a Django/PostgreSQL application
with Celery workers and a Redis cache. It configures examination sittings, runs
the examination board's committee work, keeps an item bank, and tells other
systems what happened through an event bus (System 17). The project models the
parts where several requests, workers and systems meet, model-checks them with
TLC, and proves the central properties with TLAPS.

Paths are those of the repository. `PROJECT.json` holds the machine-readable
index: components, runs, mutants, the map from definitions to source lines,
findings, hazards and theorems.

## 1. The system

Three facts about the environment shape every model.

* The database is PostgreSQL at its default isolation, READ COMMITTED, without
  `ATOMIC_REQUESTS`. A view reads an object in one statement, and a service
  decides on that object and writes the row in a later one. Nothing ties the two
  together unless the code takes a row lock (`select_for_update`) or a unique index
  decides.
* Requests run in several worker processes; Celery tasks run in others. Any of
  them can die between two statements. An open transaction is then rolled back,
  and calls to other systems are not.
* Calls to other systems (Keycloak, System 17) are made in the middle of
  transactions and may fail, or succeed without the caller learning it.

### Inventory

| Component | State | Operations | Hard behaviour | What makes it correct |
|---|---|---|---|---|
| Sittings (`apps/sitting`: services, views, models) | the sitting, its papers, its lock events | draft edits, papers, configure, approve, lock, activate, close, two kinds of amendment, delete, snapshot | every service decides on an object read earlier; the papers alone are counted under a row lock | locked means approved and ready; consumers read the current snapshot; nothing changes after the lock without a record; never more papers than section 71 allows |
| T-30 monitor, reminders (`sitting/tasks.py`) | the reminder log | lock what is due, remind | replays, overlapping runs, races with the Chair | a sitting is reminded once per offset and day |
| Blueprints, variants (`sitting/services.py`, `variants.py`) | versions, numbered variants | publish, generate | numbers taken without a lock, batches that fail in the middle | numbers are consecutive |
| Users and roles (`apps/users`, `shared/auth.py`) | profiles, roles, change events, approvals, exclusion rules; Keycloak's account; tokens | provision, import, assign, revoke, bulk, approve, reject, expire, sync on every request | three places disagree; stale tokens; two reviewers | the log tells who holds what; decisions are final; exclusions hold; the places converge |
| Role lookup (`shared/rbac.py`) | two caches of 60 s | lookup, invalidate | invalidation before the commit, read-then-set | what was revoked is granted for a bounded time only |
| Token keys (`shared/auth.py`) | the cached keys of the realm | look up, fetch, drop, look again | rotation while requests fetch | a new key is found, a withdrawn one is dropped in time |
| Idempotency keys (`shared/middleware.py`) | cached answers, reservations | look up, reserve, handle, store, free | retries, slow handlers, worker deaths | a retry is replayed; one handler at a time; no key is blocked for good |
| Edge limits, denial counters (`middleware.py`, `permissions.py`) | counters and blocks in the cache | count, throttle, block | counters compared for equality, set and incremented side by side | the threshold is never stepped over |
| Audit trail (`apps/audit`) | events, daily anchors | record, anchor | concurrent records, roll-backs, empty days | one hash chain, continuous over the anchors |
| Outbox (`shared/events.py`, `audit/tasks.py`, `shared/integrations`) | outbox rows | publish, poll, relay, mark | overlapping runs, lost answers, deaths, refused rows, shared keys | every row is delivered, at most once |
| Item bank (`apps/itembank`) | items, versions, transitions, votes, comments, assets | drafts, versions, reviews, votes, bulk re-tag | a bulk operation that reads before it locks; the vote that decides | history, status, votes and versions agree; content is frozen out of the writer's hands |
| Paper construction (`apps/itembank`) | papers, uses, vault reads | by hand, by rule with variants, export | a pool read and stored later; shares and rounding; the order of a query | the cool-down holds, forms meet their targets, every use is recorded |
| Vault exports (`apps/itembank`) | export requests | initiate, co-sign | two officers at a time, tenure | two active officers, once, in time |
| Controlled vocabulary (`apps/itembank`) | versions of the metadata schema | create, activate, PATCH, DELETE | UPDATE at READ COMMITTED, two unique indexes | at most one is active, and replacing it leaves one |
| Committee (`apps/committee`) | members, conflicts of interest, meetings, agendas, minutes, action items | FSM-like services, two daily tasks | stale objects without locks | rows agree; tenure ends |
| SLA monitor, certificate trigger (`apps/sla`, `apps/cert_trigger`) | deadlines, triggers | check, close, fire, acknowledge | a check races a close or an acknowledgement; workers die | nothing is said twice |
| Notifications (`apps/notifications`, `itembank/tasks.py`) | messages, delivery log | queue, deliver, retry | lost answers, retries, deaths | the receiver is told once; what is marked delivered was |
| Registration, marking, results, re-sit | FSM records | transitions | most guards and all services are not written at this commit | – |
| Security events, audit queries, dashboards, reporting | – | reads, single inserts | – | – |

How they interact: every operation of a component calls `AuditEvent.record` (the
audit trail) and `publish` (the outbox) inside its transaction, and
`AuditEvent.record` itself publishes. The poller relays outbox rows through
`shared/integrations`. Every request passes the edge limits, the idempotency
middleware and the authentication, whose `_mirror_profile` changes roles before the
view runs; the view then asks the role lookup. The sitting's snapshot is what the
later phases read; papers are built from the items the panel has locked; an export
of the vault takes two active members of the committee.

## 2. Modules

| Module | Models | Instance for TLC | Proofs |
|---|---|---|---|
| `Sitting` | one sitting and the requests about it | `MCSitting` | `SittingProofs` |
| `SittingLifecycle` | what `Sitting` promises its consumers (abstract) | through `Sitting` | `SittingProofs` |
| `Roles` | the roles of one user in NBES, Keycloak and tokens | `MCRoles` | `RolesProofs` |
| `Idempotency` | the calls with one idempotency key | `MCIdempotency` | `BackgroundProofs` |
| `Outbox` | outbox, poller, System 17 | `MCOutbox` | `OutboxProofs` |
| `Delivery` | what outbox and System 17 promise together (abstract) | through `Outbox` | `OutboxProofs` |
| `AuditChain` | the hash chain and its anchors at statement level | `MCAuditChain` | `AuditProofs` |
| `Ledger` | what the audit trail promises its verifiers (abstract) | through `AuditChain` | `AuditProofs` |
| `ItemBank` | items from the draft to the panel's decision | `MCItemBank` | `ItemBankProofs` |
| `ItemLifecycle` | what the item bank promises an item's readers (abstract) | through `ItemBank` | `ItemBankProofs` |
| `Papers` | papers built from locked items | `MCPapers` | `PapersProofs` |
| `Committee` | the committee, and the vault's exports | `MCCommittee` | `CommitteeProofs` |
| `Access` | the two permission caches | `MCBackground` | `BackgroundProofs` |
| `Couriers` | messages sent by Celery tasks | `MCBackground` | `BackgroundProofs` |
| `Limits` | counters of refusals | `MCBackground` | `BackgroundProofs` |
| `Monitors` | five periodic jobs | `MCBackground` | `BackgroundProofs` |
| `SigningKeys` | the cache of the realm's keys | `MCBackground` | `BackgroundProofs` |
| `Versions` | blueprint versions and variant numbers | `MCBackground` | `BackgroundProofs` |
| `Vocabularies` | versions of the metadata schema | `MCBackground` | `BackgroundProofs` |

### Sitting, SittingLifecycle

`row` is the `sitting_sitting` row, `papers` and `events` the rows that belong to
it, `req[r]` what request `r` has read. `Fetch` and `FetchPaper` are the SELECT of
the view (`_get_sitting`, `_get_paper`); each operation is one transaction,
guarded by the copy and writing the row. A `save()` without `update_fields`
writes the whole copy, one with them only those columns: `UpdateDraft` and the
amendments overwrite, `Configure`, `Approve`, `Lock` and `Advance` do not. `Exists`
is needed where Django raises when no row is updated. `Check` is
`_validate_sitting_complete`, which reads the papers before the write.
`add_or_update_paper` holds a row lock from the count to the write, so it is one
step (`UpsertPaper`).

The policy band is represented by its upper limit, dates and compensation by
whether they are in order (`Flaws`), the fields only the Chair may amend by the
centres. `SittingLifecycle` is the lifecycle in atomic steps with a `view` for
consumers; `LifecycleSpec` is the refinement, with `view` mapped to `GetSnapshot`.

### Roles

`held` is the set of roles with an active `UserRole` row, `last` the last
`RoleChangeEvent` per role, `approvals` the two-administrator requests, `rules` the
exclusions, `iam` the client roles in Keycloak, `token[d]` the roles of the access
token of device `d`. A request is split between its checks and its transaction
(`CheckAssign`/`Assign`, `CheckRevoke`/`BulkRevoke`, `Review`/`Approve`,
`BeginSync`/`EndSync`); `revoke_role` locks its row and is one step. `TellIam` is a
call to Keycloak whose failure is swallowed, `Undone`, `RevokeUndone` and
`CreateUndone` a call that succeeded in a transaction that did not. `Additions`
is the outcome of the sync's loop over the token's roles, for every order:
it takes a role exactly if no rule excludes it next to what it keeps and takes.

Left out: effective dates, inactive roles, deactivation, the registry itself.
That the reviewer differs from the requester is left to the choice of reviewers.
An import row whose transaction fails disables the account again and is no step.
Every sync reads at its beginning and writes at its end; the statements in
between see the same rows unless another request commits, which the split covers
for the rows it revokes (`rows`) and for the uniqueness of the rows it adds.

### Idempotency

One key. A call is between two cache operations (`Lookup`, `Reserve`, `HandleCall`,
`StoreAnswer`, `Free`), each atomic in Redis. `SlowCalls` may outlive the reservation's
30 seconds, `Mortal` ones may die. The 24 hours of a cached answer never pass.

### Outbox, Delivery

`Publish` appends a row with the request's id, `Poll` reads a batch without locks,
`Relay` is a call to System 17 with its three attempts under one key, `Mark` the
update after it. A call may be refused, unreachable, or accepted with the answer
lost; a run may die. System 17 deduplicates on the key, as the repository says it
does; it is external.

`Delivery` leaves the poller, its failures and its retries out: an event is written with
its key, forwarded if no event with its key is on the bus, and confirmed once one is.
`DeliverySpec` is the refinement: `written` is the sequence of the rows' keys, `bus`
what System 17 has put on the bus, `confirmed` the rows marked as published. It needs no
assumption about keys; that nothing is confirmed without being delivered
(`PublishedIsDelivered`) does.

### AuditChain, Ledger

A hash is the id of the event it belongs to, 0 the genesis hash. `Select`,
`Grant` and `Insert` are the statements of `AuditEvent._record_atomic` with the row
lock of `SELECT … ORDER BY id DESC LIMIT 1 FOR UPDATE`, which PostgreSQL does not
evaluate again after waiting for a row that was not changed. `Anchor` is
`daily_hash_anchor` for a day that is over. It assumes (`Settled`) that no
transaction that recorded an event of that day is still open: the task runs at
01:00 and requests last seconds.

`Ledger` is a ledger that only grows, at its end: an entry carries the hash of the one
before it and does not fall into a day that is anchored. A transaction appends its
entries at once. `LedgerSpec` is the refinement, with the committed events as
`entries`: the statements and the roll-backs are stutters, a commit appends.

### ItemBank, ItemLifecycle

The variables are the tables: `item`, `versions`, `log` (transitions), `votes`,
`comments`; `stored` is the vault's storage. Every service but one locks the item's
row before it reads it, and is one step; `bulk_retag_items` reads first
(`ReadForRetag`, a copy of the rows in `retag`) and locks and writes later
(`WriteRetag`). An item's metadata is its `topic`, `Blank` while a mandatory field is
missing. `Record` is a new version with its snapshot, `Move` a status with its
transition rows. The endpoints (`Create`, `Vote`, …) add the permission and what the
serializer lets through; a vote may have any text, which is why `"accept"` is among
the values.

`ItemLifecycle` is what a reader sees: an item passes from its writer to the review,
back, to the panel and to its decision, its content changes in the writer's hands only,
and no tag it is handed in with gets lost. `LifecycleSpec` is the refinement; the
statuses are grouped by who has the item (`StageOf`), its content is its versions and
the number of the current one. It is also what `Papers` builds on: its `PanelLocks` and
`Retag` are the lifecycle's last `Pass` and its `Retag`, of one item at a time.

At this commit most of these services fail on their first query: they look the
user up by `keycloak_sub` in Django's default user model, which has no such field.
The model is of the workflow as written.

### Papers

`CreateManualPaper` and `StartGeneration` are the reads and checks, `Pick` one pass
of the loop of `_select_items_for_constraints`, `EndForm` what follows the loop for
the paper and for each variant, `StorePaper` the writes and the commit; between the
read and `StorePaper` the panel may lock items and administrators re-tag them. The database
returns equally good items in any order, so that `Pick` chooses among `Candidates`.
Marks are in hundredths, as in the column. `usage` keeps the `ItemUsage` rows of a
transaction together in the order of the commits; the code orders them by
`used_at`. An item's tags are its subject, topic and difficulty; `Retag` writes the ones an
update of `Updates` names, as `bulk_retag_items` does, and leaves the status and the
history alone.

### Committee

The views read the row (`Fetch`, the copy in `held[w]`), the services decide on the
copy and write: `AmendMember` saves the whole copy, the others some columns.
`SignMinutes` sees the meeting as read with the minutes. `ListDue`/`ExpireDue` are the
tenure monitor's query and its loop. Of a vault export only `CosignExport` takes the
row lock, so that no other cosignature comes between it and its end; the expiry
written by a failing cosignature is undone by its own exception and is no step.
Attendees are members, a quorum counts them.

### What runs beside the workflows

`MCBackground` puts seven modules side by side. They share no row and no cache entry,
so each run of the model sits at one desk and leaves the other desks alone.

* `Access`. A change of roles invalidates before it commits (`SetUserRoles`,
  `InvalidateWithin`, `Commit`), one of a role's permissions after
  (`PutRolePermissions`, `Commit`, `InvalidateAfter`). A lookup that misses reads
  (`ReadTable`) and sets its entry later (`SetEntry`). `Slow` is the time a lookup may
  take between the two.
* `SigningKeys`. `_signing_key` looks, drops the entry if the key is not there, and looks
  again; each cache operation and the request to the realm are steps.
* `Limits`. The three counters of one address and its user. `todo` is the list of what
  `_record_denial` and `_record_rejection` still do; `incr` without a counter raises,
  and the counter is set to one in a second step.
* `Couriers`. A message's task is queued on commit, acknowledged when taken and lost with
  its worker. `Call` is refused, fails, or is carried out with its answer lost; the
  receiver acts on a key it has not seen.
* `Monitors`. Each job lists rows and then works on them one by one, in transactions
  of its own; `EndRun` also stands for a worker that dies. `check_all_slas`,
  `check_cert_trigger_sla` and the review escalation are assumed to run one at a time
  (`Alone`); the reminders and the quality job may overlap.
* `Versions`. The last number is looked for without a lock; an insert of a number that
  an open transaction has inserted waits (`Awaited`), one that is taken fails with the
  whole batch (`LoseRace`).
* `Vocabularies`. An UPDATE finds its rows, waits for those that are locked and leaves
  out what no longer matches; the unique index on the active row makes a writer
  wait and then fail.

## 3. Runs

| Run | Bounds | Shows |
|---|---|---|
| `SittingSerial` | 1 request, 3 subjects, 2 papers required, 2 marks, both flaws, 2 centres, 3 events | status is earned, locked once, snapshot current, frozen after the lock, and the refinement |
| `SittingConcurrent` | 2 requests, 2 subjects, 1 paper required, 2 marks, 1 event | capacity, and every recorded lock is of an approved, valid copy |
| `RolesSerial` | 1 request, 3 roles, 1 privileged, 1 rule, 1 approval, 1 device | log, decisions, exclusions, and that NBES converges to Keycloak |
| `IdempotencyRetries` | 4 calls, 2 slow, 2 mortal (one both) | replay, one handler at a time until a slow one begins, release of the key |
| `OutboxRelay` | 4 rows, 2 runs, batch 2, 1 refused, 2 failures, one row per request | delivered once, published is delivered, each step one of `Delivery`, all published |
| `AuditSerial` | 1 worker, 5 events, 4 days | chain and anchors, each step one of `Ledger` |
| `AuditConcurrent` | 3 workers, 4 events | predecessors are committed |
| `ItemBank` | 1 item, 4 accounts of which 3 may vote, 3 versions, 1 comment, 1 asset, 1 bulk re-tag | history, panel, snapshot, each step one of `ItemLifecycle` |
| `Papers` | 5 items, 3 sittings, cool-down 1, 3 papers, 1 construction at a time, 2 exports, 3 updates of a re-tag | cool-down, targets, records |
| `Committee` | 3 members, 2 requests, 1 meeting, 1 export, 3 days | rows agree, two officers, tenure ends |
| `Background` | eleven desks, two requests or runs at each but the permission caches (one lookup beside one change) and the blueprints (three) | see section 2 |

The bounds are the smallest in which the interesting cases occur together: more
subjects than places make the capacity bind; three events are a lock and two
amendments, in either order; three roles are a privileged one and two that
exclude each other; two overlapping runs over four rows with a batch of two
overlap in part and leave a row for the next run; four days contain empty days
before, between and after the others. Three panellists disagree and one vote
decides; three versions are a draft, a revision and a restored one. Five items
make two forms in two ways with one item too small; rule-based papers ask for a
variant, for an odd total whose shares are rounded up to more than the whole, and
for more marks than there are. Three days are a tenure's last day, the day after it
and one more; a third member lets two others than the initiator cosign. Three
authors of versions are one that wins, one that waits and one that looks afterwards.
A clock of eighteen half days has a weekend between five weekdays. Deadlock is not
checked where the bounds let the system stop (`CHECK_DEADLOCK FALSE`): events, days,
rows, votes and calls run out.

`CoolDownHonoured` is about one construction at a time: two that overlap may choose
the same item before either is stored (section 5).

`SittingStaleLock` checks one statement of the repository that the code does not
keep: two lock requests that read the configured sitting both lock it. Three more
statements that the code does not keep are `findings` without a run; section 5 tells
how they fail.

Every property of a passing run has a mutant: a plausible bug in one definition
under which TLC finds the property violated. The mutated forms stand directly
before the definitions they replace.

### Fairness

* `Idempotency`: a live worker goes on (weak fairness of its steps); a Redis
  timeout comes. A worker that dies is excused: `Die` ends its steps.
* `Outbox`: Celery beat starts a run every five seconds, and a run goes on.
  Failures and deaths are bounded by `MaxFailures`, which stands for "not for
  ever"; publishing is not fair, so a row need not come.
* `Roles`: a request ends; the sync's commit is not rolled back for ever (strong
  fairness of `EndSync`: a failed request is followed by the user's next one);
  tokens expire and are renewed. `Converges` is conditional on administrators
  coming to rest.
* `Committee`: Celery beat starts the tenure monitor every day (`config/celery.py`),
  and it goes on with what it has listed. Amendments, which may bring an expired
  member back, are not restrained: each is undone by a later run.

## 4. Proofs

All theorems are for arbitrary constants within the named assumptions of the
modules: any number of requests, items, members, calls and rows, and any bounds.

| Theorem | Statement |
|---|---|
| `SittingProofs!TypeCorrect`, `CapacityHolds`, `LocksHold` | for any interleaving |
| `SittingProofs!StatusIsEarned`, `LockHappensOnce`, `SnapshotHolds`, `FrozenHolds`, `ImplementsLifecycle` | one request at a time |
| `RolesProofs!TypeCorrect` | for any interleaving |
| `RolesProofs!LogHolds`, `DecisionsHold` | one request at a time |
| `RolesProofs!RulesHold` | one request at a time, no rule about a privileged role, imports that respect the rules |
| `BackgroundProofs!TypeCorrect`, `RetriesHold` | for any calls, slow and dying ones included |
| `BackgroundProofs!OneHandlerHolds` | until a call begins whose handler can outlive the reservation |
| `OutboxProofs!TypeCorrect`, `DeliveredOnceHolds`, `KeepsPromise` | for any overlap, failures and deaths, and any rows per request |
| `OutboxProofs!DeliveredHolds` | for any overlap, failures and deaths, one row per request |
| `AuditProofs!PredecessorHolds` | for any interleaving and roll-backs |
| `AuditProofs!ChainHolds`, `AnchorHolds`, `ImplementsLedger` | one transaction at a time |
| `ItemBankProofs!TypeCorrect`, `HistoryHolds`, `PanelHolds`, `SnapshotHolds`, `FrozenHolds`, `ImplementsLifecycle` | for any items, panel and re-tags, the latter written after others have written |
| `PapersProofs!UsesHold`, `FormsHold` | for any constructions, decisions and re-tags side by side, any targets and totals |
| `PapersProofs!CoolDownHolds` | one construction at a time |
| `CommitteeProofs!TypeCorrect`, `RecordsHold`, `TwoOfficersHold` | for any number of requests that act on stale copies |
| `BackgroundProofs!NoticeHolds` | for any messages, retries, lost answers and deaths |
| `BackgroundProofs!NumbersHold` | for any requests and batches side by side |
| `BackgroundProofs!RevocationHolds` | for any accounts, roles, lookups, edits and lifetimes |
| `BackgroundProofs!LimitHolds` | for any requests, thresholds and windows, and any deaths |
| `BackgroundProofs!KeysHold` | for any keys, verifiers and lifetimes |
| `BackgroundProofs!SaidOnceHolds` | for any task runs side by side, and deaths anywhere |
| `BackgroundProofs!VocabularyHolds` | for any rows and requests side by side |

"One request at a time" is the assumption `OneAtATime` (`OneWorker`, `OneBuilder`): the
set of requests has at most one member. It is what the code needs: with two requests TLC
refutes the same properties (section 5), and the theorems say that nothing else
goes wrong.

`DeliveredHolds` assumes `OneRowEach` (`PerRequest <= 1`). The code does not guarantee it: a
row's key is made of the request's id, and a request writes a row per event, one of
which is the audit trail's. With two rows per request TLC refutes the property; what is
lost is in section 5. `KeepsPromise` holds either way.

The arguments:

* `Sitting`. For any interleaving, `PaperCapacity` is inductive with types, since
  counting and storing are one step; `LocksWereApproved` needs that whatever a
  request has checked is valid (`CheckedIsValid`). One request at a time, the
  invariant `SerialInv` adds that the copy of a request is the row
  (`CopyIsFresh`); then every guard on the copy is a guard on the row. It relates
  the newest snapshot-bearing event to the row, which the step of each amendment
  restores. The refinement maps each step to one of `SittingLifecycle` or to a
  stutter, using the same invariant.
* `Roles`. Types rest on `Accounts`: a profile, a token and a request exist only
  after the account, and a request's approval exists. One request at a time,
  `ReadIsFresh` says that the rows a request is going to revoke are still there
  and the approval it decides is not granted; `GrantedExist` keeps granted
  approvals among those that exist. `CheckIsFresh` adds that no rule excludes
  what a request is going to add.
* `Idempotency`. Whoever made a call after an answer was out finds the answer
  cached; until a slow call begins, whoever is past the test-and-set owns the reservation
  (`Owned`), and a slow call that has begun stays so.
* `Outbox`. What a run has marked as sent is accepted (`SentIsAccepted`); what was
  delivered is seen (`DeliveredIsSeen`), and the key of a row never changes. A key that
  System 17 has seen is that of a row on the bus (`SeenIsDelivered`); if the keys of
  rows differ (`KeysDiffer`), it is the row itself. For the refinement a call that is
  carried out forwards or changes nothing (`BusStep`), and `Mark` confirms what
  `SentIsAccepted` knows to be there.
* `AuditChain`. `Linked`: what a worker has found, and the predecessor of each
  event, is committed or its own transaction's, and a row that somebody has locked
  stays. `Serial` adds that nothing lies between an event and its predecessor. For the
  refinement, what is open comes after what is committed, and into a day that is not
  anchored (`OpenIsLater`), so that a commit appends (`CommittedIsAppended`).
* `ItemBank`. The invariant adds that an item that is not there has no history, and
  that a bulk re-tag under way has counted itself. `ChangeKeeps` reduces every
  step at one item to what it makes of that item's four rows; `HistoryGrows` appends a
  path of the workflow to a path; `VoteDecides` is the arithmetic of the vote: before
  it neither side has two, and it adds one to one side at most. The bulk re-tag keeps
  everything because it writes tags only. For the refinement each operation writes a
  version (`RecordWrites`), moves a status along one of the `Ways` or within one stage
  (`MovePasses`), or is not seen (`NothingIsSeen`); that nothing mandatory is missing
  when an item passes on is part of `SnapshotIsCurrent`.
* `Papers`. What a construction concerns is locked, and a lock is never taken back
  (`ChoosesLocked`); the uses are those of the papers' forms (`UsesMatch`), and an item
  has as many reads as papers it is in (`ReadsMatch`). One construction at a time,
  nothing it concerns is in its cool-down (`NotRecent`); after a use the item is used
  again only when enough sittings lie between. For the targets, a form that has what its
  rule asks for fills every share, and the shares, rounded, make up the total
  (`SharesCovered`, `OnTarget`); the invariant (`FormsInv`) follows a form from the first
  pick to the paper. Its marks and counts are sums over sets, defined by a recursion that takes some item first: that
  a function satisfies the recursion (`SumsExist`), that it is the only one
  (`MarksOfIsSum`), and that an item more adds its marks, whichever comes first
  (`MarksAddUp`), is proved with a smallest counterexample (`Smallest`), since the
  library's induction theorems cannot be used.
* `Committee`. The invariant relates the copies to the rows: `MemberCopy` and `MeetingCopy` say what
  remains true of a row since it was copied (a convened copy means a row that was
  convened, a signed one a signed row), because those columns only ever grow
  (`Persists`). `Numbered` says that agendas are 1 to k. For the vault, the row lock makes
  the copy of a cosignature the row (`ExportCopy`).
* `Couriers`. What a task has reached, the receiver's key, the log and the row are
  related stage by stage; a retry keeps the key, so that the second call adds nothing.
* `Versions`. An open batch has inserted the numbers that follow those committed when it
  looked; whoever has inserted first keeps others waiting, so that its numbers still
  follow when it commits.
* `Access`. What an entry, or a lookup under way, holds in excess of the tables went
  after it was read (`ReadBy`); a lookup is stored in time and an entry dies in time, so
  that the change is recent.
* `Limits`. Whoever has counted acts later, and once (`Orderly`). A counter at its
  threshold is covered (`Covered`): by a flag that outlives it, by somebody who
  still owes it, or by one who died. Equality is enough since counts go up by one.
* `SigningKeys`. A key of the entry that the realm no longer has went while the answer
  was on its way, or later (`EntryIsRecent`); `RequestIsRecent` says the same of an
  answer under way and of a key that was found, and that a request which may have the
  key finds it in one of its looks.
* `Monitors`. Each job has an invariant of its own, which the steps of the others keep
  because they leave its runs and its rows alone (`Elsewhere`, `ElsewhereOnly`). A row that a
  check of service levels has yet to look at was never escalated for what lies before it
  (`CopiesAreDue`), though a `close()` may have come between; a certificate that is fired,
  or about to be reported, is owed a report (`Late`, `ReportIsOwed`); who is in the middle
  of a reminder has the sitting alone. `FiveWeekdays` and `CutoffIsFiveWeekdays` are the
  arithmetic of the review's cut-off: whatever the weekday, the loop steps back five to
  seven days and passes five weekdays.
* `Vocabularies`. Row locks are exclusive (`LocksAreExclusive`), nobody else refers to a
  row about to be inserted (`InsertIsNew`), and whoever has written an active row is
  alone and has deactivated the one there is (`Replaces`). The commit then puts one
  row in the place of the other.

Every invariant, action property and refinement of the passing runs is stated by a
theorem. Only model-checked: liveness (`KeyIsFreed`, `AllPublished`, `Converges`,
`TenureEnds`), because fairness and ENABLED are beyond the prover. The types of `Roles`
are only proved, the types of `Sitting` are checked by a run too; `ContentIsFrozen` of
`ItemBank` follows from the refinement that the run checks, and is proved for itself.

## 5. What the code does that the properties leave out

The models have these behaviours, which the properties exclude by their assumptions
or their wording.

Two requests, or a token of before:

* a request that read the draft deletes the sitting, or saves it back to DRAFT,
  after the lock (`sitting/services.py:264-298`, `sitting/views.py:212-223`); a stale
  delete and a full save by another request leave a locked row without its events;
* an approval of a sitting survives edits and a second configuration
  (`sitting/services.py:440-468` is the only place that writes `approved_at`), so that
  what is locked may differ from what was approved, though it is ready;
* a resolution that changes the band alone is not compared with the pass marks
  (`sitting/services.py:727`);
* two administrators who both read an approval request as pending can grant it and
  record it as rejected (`users/models.py:312-357`);
* an approval does not look at the exclusion rules again (`users/models.py:326`);
* the sync with a token issued before a revocation gives the role back
  (`shared/auth.py:401-407`), and a role approved or assigned after a token was issued is
  revoked by the next request with that token (`shared/auth.py:353-358`);
* a call that missed the cache before another one stored its answer is handled
  again (`middleware.py:229-237`);
* the rows of one request share an idempotency key, and System 17 drops all but the
  first, which are then marked published (`audit/tasks.py:49`);
* a batch of rows that System 17 refuses for good keeps later rows from being read
  (`audit/tasks.py:25`), which is why `AllPublished` is checked with fewer refused
  rows than a batch;
* two concurrent records are hashed onto the same event, because the row lock delays
  the second without making it look again (`audit/models.py:87`);
* two signatures of the same minutes, and two reviews of the same declaration, both
  succeed, and the later overwrites the earlier (`committee/services.py:125, 290`); an
  agenda published from a draft takes a meeting that was convened since back to
  `agenda_issued`, and one that was adjourned too, which has its minutes and can never be
  adjourned again;
* the tenure monitor expires a member whose renewal commits after its query; an
  expired member cannot be activated again, and no code sets `renewed` or
  `scheduled`;
* two constructions of papers at the same time choose the same item in spite of the
  cool-down; a re-tag may overtake the tags a form was chosen by;
* a PATCH of a metadata schema is a full save: it deactivates one that was activated
  since, or inserts one again that was deleted (the two exceptions in `OneVocabulary`);
* an SLA check saves its status over a `close()` that came after its list
  (`sla/tasks.py:12`).

Time and failures:

* the "within 60 s" of `shared/rbac.py` holds only up to the time a racing lookup
  takes: the bound is the life of an entry plus that time, with or without the
  invalidation;
* a valid new key is refused when another request stores an older answer between
  the two looks (`shared/auth.py:79`); a withdrawn one is accepted for the life of an
  entry and the time of a fetch;
* a worker that dies between the counter and the block leaves the address unlimited
  until the window ends; one that dies between an SLA's save and its escalation
  leaves it never escalated; two runs of `check_all_slas` at once would escalate twice;
* the review escalation compares with a day before now, so that a daily run may
  skip a day, and an item decided after it was listed may still be escalated;
* a notification whose retries are exhausted stays queued: `retry` is given the
  exception and raises that one, so the branch that marks it as failed
  (`notifications/tasks.py:85-91`) is not reached;
* the expiry that a late cosignature writes to the export is rolled back by the exception
  that follows it;
* a rescheduled sitting is reminded with the date of another offset.

What does not run at this commit:

* the item bank's services, and `create_metadata_schema`, fail when they look up the user (section
  2, `ItemBank`);
* the beat schedule names `apps.cert_trigger.tasks.check_cert_trigger_sla`, registered as
  `apps.sla.tasks.check_cert_trigger_sla`, and `apps.itembank.tasks.check_vault_integrity`,
  which does not exist; `config/celery.py` sets the schedule over that of
  `config/settings/base.py`, so that the monthly quality job is never started; the T-30
  tasks are in neither;
* no code creates an SLA instance or an action item, nothing calls `close`, `fire` or
  `acknowledge`, nothing stores an item's discrimination index, and
  `verify_vault_integrity` hashes a column nobody sets;
* `dispatch_vault_export_alert` never finds the Chair (it filters by a field the members
  do not have) and has one key for all recipients; `check_coi` filters by the member's
  primary key, the API describes the Keycloak id.

## 6. What is not modelled

* Registration, marking, results and re-sit: their services do not exist, the guards
  are TODOs and nothing executes them. `resit/models.py:38` counts attempts without a
  lock, and has no caller.
* Effective dates and the registry of roles, deactivation of users; the fallback of the
  role lookup to the token when the database cannot be reached, and the step-up test.
* `blueprint.py`: the coverage report, which compares floating-point shares (a share
  exactly at the tolerance passes or fails by rounding). `variants.py`: the shuffle.
* Saved searches, search, dashboards, reporting, exports of documents and other
  queries; security events and their clean-up, which are single statements.
* HTTP clients, signatures, hashes, tracing, and the wording of answers.
