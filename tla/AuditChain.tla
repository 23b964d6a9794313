----------------------------- MODULE AuditChain -----------------------------
(***************************************************************************)
(* The hash chain of the audit trail: AuditEvent.record                    *)
(* (apps/audit/models.py) hashes every event together with the hash of the *)
(* last one, and daily_hash_anchor (apps/audit/tasks.py) anchors the head  *)
(* of each day.                                                            *)
(*                                                                         *)
(* SHA-256 has no collisions here, so a hash is the id of the event it     *)
(* belongs to, and 0 is the genesis hash.  The database is PostgreSQL at   *)
(* READ COMMITTED: a statement sees what was committed when it began, and  *)
(* the rows of its own transaction; SELECT ... ORDER BY id DESC LIMIT 1    *)
(* FOR UPDATE waits for the row it has found, and does not look again when *)
(* the wait is over.  A row lock is kept until the transaction ends.       *)
(***************************************************************************)
EXTENDS Integers, FiniteSets

CONSTANTS
  Workers,    \* database connections, one transaction at a time each
  MaxEvents,  \* bound: ids given out, those rolled back included
  MaxDay,     \* bound: how many days pass
  Nobody

ASSUME ChainAssumption ==
  MaxEvents \in Nat /\ MaxDay \in Nat \ {0} /\ Nobody \notin Workers

VARIABLES
  events,   \* audit_auditevent; by is the open transaction, or Nobody
  lastId,   \* the identity sequence
  pc,       \* per worker: what it does within AuditEvent.record
  head,     \* per worker: the event its SELECT has found, 0 for none
  locks,    \* per worker: the rows its transaction has locked
  today,    \* the UTC day
  anchors   \* audit_dailyhashanchor

vars == <<events, lastId, pc, head, locks, today, anchors>>

Init ==
  /\ events = {}
  /\ lastId = 0
  /\ pc = [w \in Workers |-> "idle"]
  /\ head = [w \in Workers |-> 0]
  /\ locks = [w \in Workers |-> {}]
  /\ today = 1
  /\ anchors = {}

IdsOf(es) == {e.id : e \in es}

\* The first of ORDER BY id DESC, or 0.
Newest(es) ==
  IF es = {} THEN 0 ELSE CHOOSE i \in IdsOf(es) : \A j \in IdsOf(es) : j <= i

-----------------------------------------------------------------------------
(* AuditEvent.record, any number of times in a transaction.                *)

\* Mutant: the query is made on a connection of its own.
VisibleElsewhere(w) == {e \in events : e.by = Nobody}

\* Mutant: the rows of open transactions are visible (READ UNCOMMITTED).
VisibleUncommitted(w) == events

Visible(w) == {e \in events : e.by \in {Nobody, w}}

\* The SELECT begins.
Select(w) ==
  /\ pc[w] = "idle"
  /\ lastId < MaxEvents
  /\ head' = [head EXCEPT ![w] = Newest(Visible(w))]
  /\ pc' = [pc EXCEPT ![w] = "locking"]
  /\ UNCHANGED <<events, lastId, locks, today, anchors>>

\* It gets its row, which nobody holds; on the empty table there is none.
Grant(w) ==
  /\ pc[w] = "locking"
  /\ \A v \in Workers \ {w} : head[w] \notin locks[v]
  /\ pc' = [pc EXCEPT ![w] = "locked"]
  /\ locks' = [locks EXCEPT ![w] = @ \cup ({head[w]} \ {0})]
  /\ UNCHANGED <<events, lastId, head, today, anchors>>

\* created_at, chain_hash and the INSERT.
Insert(w) ==
  /\ pc[w] = "locked"
  /\ lastId < MaxEvents
  /\ lastId' = lastId + 1
  /\ events' = events \cup
       {[id |-> lastId + 1, prev |-> head[w], day |-> today, by |-> w]}
  /\ pc' = [pc EXCEPT ![w] = "idle"]
  /\ UNCHANGED <<head, locks, today, anchors>>

\* The end of a transaction frees its rows.
End(w) ==
  /\ pc' = [pc EXCEPT ![w] = "idle"]
  /\ locks' = [locks EXCEPT ![w] = {}]
  /\ UNCHANGED <<lastId, head, today, anchors>>

Mine(w) == {e \in events : e.by = w}

\* Between two records, or after the last.
Commit(w) ==
  /\ pc[w] = "idle" /\ Mine(w) # {}
  /\ events' = (events \ Mine(w)) \cup {[e EXCEPT !.by = Nobody] : e \in Mine(w)}
  /\ End(w)

\* The service raises, or the connection is lost.
Rollback(w) ==
  /\ pc[w] # "idle" \/ Mine(w) # {}
  /\ events' = events \ Mine(w)
  /\ End(w)

-----------------------------------------------------------------------------
(* daily_hash_anchor.                                                      *)

Midnight ==
  /\ today < MaxDay
  /\ today' = today + 1
  /\ UNCHANGED <<events, lastId, pc, head, locks, anchors>>

On(d)     == {e \in events : e.by = Nobody /\ e.day = d}
Before(d) == {e \in events : e.by = Nobody /\ e.day < d}

\* Mutant: an empty day starts from the genesis hash again.
HeadOfDayOnly(d) == Newest(On(d))

\* Mutant: what an empty day carries forward may be of a later day.
HeadOfAll(d) ==
  IF On(d) # {} THEN Newest(On(d)) ELSE Newest({e \in events : e.by = Nobody})

\* An empty day carries the last hash before it forward.
HeadOf(d) == IF On(d) # {} THEN Newest(On(d)) ELSE Newest(Before(d))

\* At 01:00 or, by hand, later.  No transaction that recorded an event before
\* midnight is still open by then: requests last seconds.
Settled(d) == \A e \in events : e.day <= d => e.by = Nobody

Anchor(d) ==
  /\ d < today
  /\ Settled(d)
  /\ anchors' = {a \in anchors : a.day # d} \cup {[day |-> d, head |-> HeadOf(d)]}
  /\ UNCHANGED <<events, lastId, pc, head, locks, today>>

-----------------------------------------------------------------------------
Worker(w) == Select(w) \/ Grant(w) \/ Insert(w) \/ Commit(w) \/ Rollback(w)

Next ==
  \/ \E w \in Workers : Worker(w)
  \/ Midnight
  \/ \E d \in 1..MaxDay : Anchor(d)

Spec == Init /\ [][Next]_vars

-----------------------------------------------------------------------------
Event == [id : 1..MaxEvents, prev : 0..MaxEvents, day : 1..MaxDay,
          by : Workers \cup {Nobody}]

TypeOK ==
  /\ events \subseteq Event
  /\ lastId \in 0..MaxEvents
  /\ pc \in [Workers -> {"idle", "locking", "locked"}]
  /\ head \in [Workers -> 0..MaxEvents]
  /\ locks \in [Workers -> SUBSET (1..MaxEvents)]
  /\ today \in 1..MaxDay
  /\ anchors \subseteq [day : 1..MaxDay, head : 0..MaxEvents]

Committed == {e \in events : e.by = Nobody}

\* Whatever interleaves or is rolled back, a committed event is hashed onto an
\* earlier committed one, or onto the genesis hash: no hash of the trail is of
\* an event that was undone.
PredecessorIsCommitted ==
  \A e \in Committed :
    e.prev = 0 \/ \E p \in Committed : p.id = e.prev /\ p.id < e.id

\* "SHA-256(previous_chain_hash + this_event_payload) - tamper evidence": the
\* hashes form one chain, so that leaving out an event breaks it.
ChainIsLinear ==
  \A e, f \in Committed : e.prev = f.prev => e = f

\* "so the global audit chain remains continuous across zero-event days": the
\* first event after an anchored day is hashed onto the anchor.
AnchorIsOnChain ==
  \A a \in anchors, e \in events :
    (/\ e.day > a.day
     /\ \A f \in events : f.day > a.day => e.id <= f.id)
      => e.prev = a.head

-----------------------------------------------------------------------------
(* What whoever verifies the trail sees of it.                             *)

Entries == {[id |-> e.id, prev |-> e.prev, day |-> e.day] : e \in Committed}

Book == INSTANCE Ledger WITH Days <- 1..MaxDay, entries <- Entries

\* One transaction at a time, the trail is a ledger: a commit appends to its
\* end, a rollback leaves no trace, and an anchor closes its day.
LedgerSpec == Book!Spec

=============================================================================
