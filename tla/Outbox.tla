------------------------------- MODULE Outbox -------------------------------
(***************************************************************************)
(* The transactional outbox: shared/events.py writes domain events in the  *)
(* transaction of the change they announce, apps.audit.tasks.poll_outbox   *)
(* relays them to the event bus every five seconds, and System 17 is the   *)
(* way to the bus (shared/integrations).                                   *)
(*                                                                         *)
(* AuditEvent.record publishes too, so one request usually writes several  *)
(* rows, and all of them carry its request_id.                             *)
(***************************************************************************)
EXTENDS Integers, FiniteSets, Sequences

CONSTANTS
  Requests,     \* requests that publish
  PerRequest,   \* bound: rows one request writes
  FromTasks,    \* bound: rows written by Celery tasks, outside a request
  Pollers,      \* runs of poll_outbox that may overlap
  Batch,        \* rows one run reads, a hundred in the code
  Refused,      \* the rows System 17 refuses each time (4xx)
  MaxFailures,  \* bound: calls that fail and workers that die
  NoRequest

ASSUME OutboxAssumption ==
  /\ PerRequest \in Nat /\ FromTasks \in Nat /\ MaxFailures \in Nat
  /\ Batch \in Nat \ {0}
  /\ Refused \subseteq Nat
  /\ NoRequest \notin Requests

VARIABLES
  outbox,    \* the audit_outboxevent rows in the order of created_at
  poller,    \* per run: the rows it still holds, and if it relayed the first
  seen,      \* the idempotency keys System 17 has accepted
  delivered, \* the rows that reached the bus, in that order
  failures   \* how many calls failed and workers died

vars == <<outbox, poller, seen, delivered, failures>>

Ids == 1..Len(outbox)

Resting == [batch |-> {}, sent |-> FALSE]

Init ==
  /\ outbox = <<>>
  /\ poller = [p \in Pollers |-> Resting]
  /\ seen = {}
  /\ delivered = <<>>
  /\ failures = 0

-----------------------------------------------------------------------------
(* shared/events.py.                                                       *)

\* How many rows a request may write, a task being nobody's request.
Allowance(r) == IF r = NoRequest THEN FromTasks ELSE PerRequest

\* publish: the row becomes visible when the transaction commits.
Publish(r) ==
  /\ Cardinality({i \in Ids : outbox[i].request = r}) < Allowance(r)
  /\ outbox' = Append(outbox, [request |-> r, published |-> FALSE])
  /\ UNCHANGED <<poller, seen, delivered, failures>>

-----------------------------------------------------------------------------
(* poll_outbox.                                                            *)

Unpublished == {i \in Ids : ~outbox[i].published}

\* The first Batch of them.
Oldest(ids) == {i \in ids : Cardinality({j \in ids : j < i}) < Batch}

\* The query of one run.  Another run may be under way: no row is locked.
Poll(p) ==
  /\ poller[p].batch = {}
  /\ Unpublished # {}
  /\ poller' = [poller EXCEPT ![p].batch = Oldest(Unpublished)]
  /\ UNCHANGED <<outbox, seen, delivered, failures>>

\* Mutant: every attempt has a key of its own.
KeyOfAttempt(i) == <<"attempt", Len(delivered)>>

\* Mutant: a row written outside a request has the key "None".
KeyOfRequest(i) == <<"request", outbox[i].request>>

\* The idempotency key: that of the request, if there is one.
Key(i) == IF outbox[i].request = NoRequest
            THEN <<"event", i>>
            ELSE <<"request", outbox[i].request>>

\* System 17 forwards what it accepts, unless it has seen the key.
Accept(i) ==
  /\ i \notin Refused
  /\ seen' = seen \cup {Key(i)}
  /\ delivered' = IF Key(i) \in seen THEN delivered ELSE Append(delivered, i)

Fails == failures < MaxFailures /\ failures' = failures + 1

\* The row a run has arrived at: the oldest of those it still holds.
IsFirst(p, i) ==
  i \in poller[p].batch /\ \A j \in poller[p].batch : i <= j

\* Mutant: a failure ends the loop, and the next run starts it again.
Break(p, i) == poller' = [poller EXCEPT ![p] = Resting]

\* Done with a row, or its failure was logged: the loop goes on.
Advance(p, i) == poller' = [poller EXCEPT ![p] = [batch |-> @.batch \ {i},
                                                  sent  |-> FALSE]]

\* _publish_via_system_17, with the three attempts of call_system_17, which
\* have the same key.
Relay(p, i) ==
  /\ IsFirst(p, i) /\ ~poller[p].sent
  /\ \/ /\ Accept(i)
        /\ poller' = [poller EXCEPT ![p].sent = TRUE]
        /\ UNCHANGED failures
     \/ /\ i \in Refused
        /\ Advance(p, i)
        /\ UNCHANGED <<seen, delivered, failures>>
     \/ /\ Fails                         \* not reached
        /\ Advance(p, i)
        /\ UNCHANGED <<seen, delivered>>
     \/ /\ Fails                         \* accepted, but the answer is lost
        /\ Accept(i)
        /\ Advance(p, i)
  /\ UNCHANGED outbox

\* Mutant: the row is marked whether it was relayed or not.
MarkUnsent(p, i) ==
  /\ IsFirst(p, i)
  /\ outbox' = [outbox EXCEPT ![i].published = TRUE]
  /\ Advance(p, i)
  /\ UNCHANGED <<seen, delivered, failures>>

\* event.save(update_fields=["published", "published_at"]).
Mark(p, i) ==
  /\ IsFirst(p, i) /\ poller[p].sent
  /\ outbox' = [outbox EXCEPT ![i].published = TRUE]
  /\ Advance(p, i)
  /\ UNCHANGED <<seen, delivered, failures>>

\* The worker dies; what it had relayed and not marked is relayed again.
Die(p) ==
  /\ poller[p].batch # {}
  /\ Fails
  /\ poller' = [poller EXCEPT ![p] = Resting]
  /\ UNCHANGED <<outbox, seen, delivered>>

-----------------------------------------------------------------------------
Run(p) == Poll(p) \/ \E i \in Ids : Relay(p, i) \/ Mark(p, i)

Next ==
  \/ \E r \in Requests \cup {NoRequest} : Publish(r)
  \/ \E p \in Pollers : Run(p) \/ Die(p)

Spec == Init /\ [][Next]_vars

\* Celery beat starts a run every five seconds and a run goes on; publishing
\* is up to the users.
FairSpec == Spec /\ \A p \in Pollers : WF_vars(Run(p))

-----------------------------------------------------------------------------
TypeOK ==
  /\ outbox \in Seq([request : Requests \cup {NoRequest}, published : BOOLEAN])
  /\ poller \in [Pollers -> [batch : SUBSET Ids, sent : BOOLEAN]]
  /\ delivered \in Seq(Nat)
  /\ failures \in 0..MaxFailures

\* Overlapping runs, retries and deaths relay a row more than once; because
\* the key is the same each time, it reaches the bus at most once.
DeliveredOnce ==
  \A i, j \in 1..Len(delivered) : delivered[i] = delivered[j] => i = j

\* "This guarantees at-least-once delivery": a row that is marked published
\* has reached the bus.
PublishedIsDelivered ==
  \A i \in Ids : outbox[i].published =>
    \E j \in 1..Len(delivered) : delivered[j] = i

MaxRows == Cardinality(Requests) * PerRequest + FromTasks

\* Every row that System 17 does not refuse is published in the end, if fewer
\* rows than a run reads are refused each time.
AllPublished ==
  \A i \in (1..MaxRows) \ Refused :
    (i \in Ids) ~> (i \in Ids /\ outbox[i].published)

-----------------------------------------------------------------------------
(* What is left when the runs and their failures are forgotten.            *)

Written   == [i \in Ids |-> Key(i)]
Published == {i \in Ids : outbox[i].published}

Promise == INSTANCE Delivery WITH
  written   <- Written,
  bus       <- delivered,
  confirmed <- Published

\* Whatever overlaps, fails or dies: only a call that is accepted puts a row
\* on the bus, one row for each key, and a row is marked as published only
\* when its key is there.
DeliverySpec == Promise!Spec

=============================================================================
