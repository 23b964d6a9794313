---------------------------- MODULE OutboxProofs ----------------------------
(***************************************************************************)
(* Proofs about Outbox, for any number of rows, runs and failures.         *)
(***************************************************************************)
EXTENDS Outbox, SequenceTheorems, FiniteSetTheorems, TLAPS

OutboxRow == [request : Requests \cup {NoRequest}, published : BOOLEAN]

\* What one step does to the rows: they keep their place and their request,
\* so that their keys never change, and a published row stays published.
RowsKept ==
  /\ Ids \subseteq Ids'
  /\ \A i \in Ids : /\ outbox'[i].request = outbox[i].request
                    /\ Key(i)' = Key(i)

\* A run marks one row of the list and changes nothing else of it.
LEMMA MarkedRow ==
  ASSUME NEW row \in OutboxRow
  PROVE  /\ [row EXCEPT !.published = TRUE] \in OutboxRow
         /\ [row EXCEPT !.published = TRUE].request = row.request
BY DEF OutboxRow

LEMMA MarkedRows ==
  ASSUME NEW rows \in Seq(OutboxRow), NEW i \in 1..Len(rows),
         NEW marked, marked = [rows EXCEPT ![i].published = TRUE]
  PROVE  /\ marked \in Seq(OutboxRow)
         /\ Len(marked) = Len(rows)
         /\ \A j \in 1..Len(rows) :
               /\ marked[j].request = rows[j].request
               /\ j # i => marked[j] = rows[j]
<1>1. rows[i] \in OutboxRow
  OBVIOUS
<1> DEFINE row == [rows[i] EXCEPT !.published = TRUE]
<1>2. row \in OutboxRow /\ row.request = rows[i].request
  BY <1>1, MarkedRow
<1>3. marked = [rows EXCEPT ![i] = row]
  OBVIOUS
<1> HIDE DEF row
<1>4. /\ marked \in Seq(OutboxRow) /\ Len(marked) = Len(rows)
      /\ \A j \in 1..Len(rows) : marked[j] = IF j = i THEN row ELSE rows[j]
  <2>1. /\ [rows EXCEPT ![i] = row] \in Seq(OutboxRow)
        /\ Len([rows EXCEPT ![i] = row]) = Len(rows)
        /\ \A j \in 1..Len(rows) :
              [rows EXCEPT ![i] = row][j] = IF j = i THEN row ELSE rows[j]
    BY <1>2, ExceptSeq
  <2> QED
    BY <1>3, <2>1, Zenon
<1>5. ASSUME NEW j \in 1..Len(rows)
      PROVE  marked[j].request = rows[j].request /\ (j # i => marked[j] = rows[j])
  <2>1. CASE j = i
    BY <1>2, <1>4, <2>1
  <2>2. CASE j # i
    BY <1>4, <2>2
  <2> QED
    BY <2>1, <2>2
<1> QED
  BY <1>4, <1>5

\* The rows keep their place and their request.
LEMMA RowsStep == TypeOK /\ [Next]_vars => RowsKept
<1> SUFFICES ASSUME TypeOK, [Next]_vars PROVE RowsKept
  OBVIOUS
<1> USE DEF TypeOK, Ids, Key, RowsKept
<1>1. ASSUME NEW r \in Requests \cup {NoRequest}, Publish(r) PROVE RowsKept
  <2>1. /\ Len(outbox') = Len(outbox) + 1 /\ Len(outbox) \in Nat
        /\ \A i \in 1..Len(outbox) : outbox'[i] = outbox[i]
    BY <1>1 DEF Publish
  <2> QED
    BY <2>1
<1>2. ASSUME NEW p \in Pollers, NEW i \in Ids, Mark(p, i) PROVE RowsKept
  <2>1. outbox \in Seq(OutboxRow) /\ i \in 1..Len(outbox)
    BY DEF OutboxRow
  <2>2. outbox' = [outbox EXCEPT ![i].published = TRUE]
    BY <1>2 DEF Mark
  <2>3. /\ Len(outbox') = Len(outbox)
        /\ \A j \in 1..Len(outbox) : outbox'[j].request = outbox[j].request
    BY <2>1, <2>2, MarkedRows
  <2> QED
    BY <2>3
<1>3. ASSUME UNCHANGED outbox PROVE RowsKept
  BY <1>3
<1> QED
  BY <1>1, <1>2, <1>3 DEF Next, Run, Poll, Relay, Die, vars

\* Every step keeps the types.
LEMMA Typing == TypeOK /\ [Next]_vars => TypeOK'
<1> SUFFICES ASSUME TypeOK, [Next]_vars PROVE TypeOK'
  OBVIOUS
<1> USE OutboxAssumption DEF TypeOK, Fails, Resting
<1>1. ASSUME NEW r \in Requests \cup {NoRequest}, Publish(r) PROVE TypeOK'
  <2>1. [request |-> r, published |-> FALSE] \in OutboxRow
    BY DEF OutboxRow
  <2>2. outbox' \in Seq(OutboxRow)
    BY <1>1, <2>1 DEF Publish, OutboxRow
  <2>3. Ids \subseteq Ids'
    BY <1>1, RowsStep DEF Next, RowsKept
  <2> QED
    BY <1>1, <2>2, <2>3 DEF Publish, OutboxRow
<1>2. ASSUME NEW p \in Pollers, Poll(p) PROVE TypeOK'
  <2>1. Oldest(Unpublished) \subseteq Ids
    BY DEF Oldest, Unpublished
  <2>2. Ids' = Ids
    BY <1>2 DEF Poll, Ids
  <2>3. poller' \in [Pollers -> [batch : SUBSET Ids, sent : BOOLEAN]]
    BY <1>2, <2>1 DEF Poll
  <2> QED
    BY <1>2, <2>2, <2>3 DEF Poll
<1>3. ASSUME NEW p \in Pollers, NEW i \in Ids, Relay(p, i) PROVE TypeOK'
  <2>1. Ids' = Ids /\ i \in Nat
    BY <1>3 DEF Relay, Ids
  <2>2. poller' \in [Pollers -> [batch : SUBSET Ids, sent : BOOLEAN]]
    <3>1. CASE poller' = [poller EXCEPT ![p].sent = TRUE]
      BY <2>1, <3>1
    <3>2. CASE Advance(p, i)
      BY <2>1, <3>2 DEF Advance
    <3> QED
      BY <1>3, <3>1, <3>2 DEF Relay
  <2>3. delivered' \in Seq(Nat)
    <3>1. Append(delivered, i) \in Seq(Nat)
      BY <2>1, AppendProperties
    <3> QED
      BY <1>3, <3>1 DEF Relay, Accept
  <2>4. failures' \in 0..MaxFailures
    BY <1>3 DEF Relay
  <2> QED
    BY <1>3, <2>1, <2>2, <2>3, <2>4 DEF Relay
<1>4. ASSUME NEW p \in Pollers, NEW i \in Ids, Mark(p, i) PROVE TypeOK'
  <2>1. outbox' \in Seq(OutboxRow) /\ Ids' = Ids
    <3>1. outbox \in Seq(OutboxRow) /\ i \in 1..Len(outbox)
      BY DEF OutboxRow, Ids
    <3>2. outbox' = [outbox EXCEPT ![i].published = TRUE]
      BY <1>4 DEF Mark
    <3> QED
      BY <3>1, <3>2, MarkedRows DEF Ids
  <2>2. poller' \in [Pollers -> [batch : SUBSET Ids, sent : BOOLEAN]]
    BY <1>4 DEF Mark, Advance
  <2> QED
    BY <1>4, <2>1, <2>2 DEF Mark, OutboxRow
<1>5. ASSUME NEW p \in Pollers, Die(p) PROVE TypeOK'
  BY <1>5 DEF Die, Ids
<1>6. CASE UNCHANGED vars
  BY <1>6 DEF vars, Ids
<1> QED
  BY <1>1, <1>2, <1>3, <1>4, <1>5, <1>6 DEF Next, Run

\* Publishing, polling, failures and deaths keep rows, runs and the bus within
\* their types; a run holds rows that exist.
THEOREM TypeCorrect == Spec => []TypeOK
<1>1. Init => TypeOK
  BY OutboxAssumption DEF Init, TypeOK, Resting
<1> QED
  BY <1>1, Typing, PTL DEF Spec

-----------------------------------------------------------------------------
(* Published means accepted.                                               *)

\* A row is marked published only after System 17 has accepted its key, ...
PublishedIsAccepted == \A i \in Ids : outbox[i].published => Key(i) \in seen

\* ... and so was the row a run has relayed and not yet marked.
SentIsAccepted ==
  \A p \in Pollers :
    poller[p].sent => \E i \in Ids : IsFirst(p, i) /\ Key(i) \in seen

LEMMA AcceptedStep ==
  TypeOK /\ SentIsAccepted /\ PublishedIsAccepted /\ [Next]_vars
    => SentIsAccepted' /\ PublishedIsAccepted'
<1> SUFFICES ASSUME TypeOK, SentIsAccepted, PublishedIsAccepted, [Next]_vars
             PROVE  SentIsAccepted' /\ PublishedIsAccepted'
  OBVIOUS
<1>0. RowsKept /\ Ids \subseteq Nat
  BY RowsStep DEF Ids
<1>s. seen \subseteq seen'
  BY DEF Next, Publish, Run, Poll, Relay, Accept, Mark, Die, vars
<1>p. ASSUME NEW p \in Pollers, poller[p].sent, poller'[p] = poller[p]
      PROVE  \E i \in Ids' : IsFirst(p, i)' /\ (Key(i) \in seen)'
  <2>1. PICK i \in Ids : IsFirst(p, i) /\ Key(i) \in seen
    BY <1>p DEF SentIsAccepted
  <2>2. i \in Ids' /\ IsFirst(p, i)' /\ (Key(i) \in seen)'
    BY <1>0, <1>s, <1>p, <2>1 DEF RowsKept, IsFirst
  <2> QED
    BY <2>2
<1>1. ASSUME \A p \in Pollers : poller'[p] = poller[p] \/ ~poller'[p].sent
      PROVE  SentIsAccepted'
  BY <1>1, <1>p DEF SentIsAccepted
<1>2. ASSUME UNCHANGED outbox PROVE PublishedIsAccepted'
  BY <1>0, <1>2, <1>s DEF PublishedIsAccepted, Ids, RowsKept
<1>3. ASSUME NEW r \in Requests \cup {NoRequest}, Publish(r)
      PROVE  SentIsAccepted' /\ PublishedIsAccepted'
  <2>1. /\ Len(outbox') = Len(outbox) + 1 /\ Len(outbox) \in Nat
        /\ \A i \in Ids : outbox'[i] = outbox[i]
        /\ ~outbox'[Len(outbox) + 1].published
    BY <1>3 DEF Publish, TypeOK, Ids
  <2>2. \A i \in Ids' : i \in Ids \/ ~outbox'[i].published
    BY <2>1 DEF Ids
  <2>3. PublishedIsAccepted'
    BY <1>0, <1>s, <2>1, <2>2 DEF PublishedIsAccepted, RowsKept
  <2> QED
    BY <1>1, <1>3, <2>3 DEF Publish
<1>4. ASSUME NEW p \in Pollers, Poll(p)
      PROVE  SentIsAccepted' /\ PublishedIsAccepted'
  <2>1. ~poller[p].sent
    BY <1>4 DEF Poll, SentIsAccepted, IsFirst
  <2> QED
    BY <1>1, <1>2, <1>4, <2>1 DEF Poll, TypeOK
<1>5. ASSUME NEW p \in Pollers, NEW i \in Ids, Relay(p, i)
      PROVE  SentIsAccepted' /\ PublishedIsAccepted'
  <2>1. CASE poller' = [poller EXCEPT ![p].sent = TRUE] /\ Accept(i)
    <3>1. i \in Ids' /\ IsFirst(p, i)' /\ (Key(i) \in seen)'
      BY <1>0, <1>5, <2>1 DEF Relay, Accept, IsFirst, RowsKept, TypeOK
    <3>2. \A q \in Pollers : q # p => poller'[q] = poller[q]
      BY <2>1 DEF TypeOK
    <3>3. SentIsAccepted'
      BY <1>p, <3>1, <3>2 DEF SentIsAccepted
    <3> QED
      BY <1>2, <1>5, <3>3 DEF Relay
  <2>2. CASE Advance(p, i)
    BY <1>1, <1>2, <1>5, <2>2 DEF Relay, Advance, TypeOK
  <2> QED
    BY <1>5, <2>1, <2>2 DEF Relay
<1>6. ASSUME NEW p \in Pollers, NEW i \in Ids, Mark(p, i)
      PROVE  SentIsAccepted' /\ PublishedIsAccepted'
  <2>1. Key(i) \in seen
    <3>1. PICK j \in Ids : IsFirst(p, j) /\ Key(j) \in seen
      BY <1>6 DEF Mark, SentIsAccepted
    <3>2. j = i
      BY <1>0, <1>6, <3>1 DEF Mark, IsFirst
    <3> QED
      BY <3>1, <3>2
  <2>2. \A j \in Ids' : j \in Ids /\ (j # i => outbox'[j] = outbox[j])
    BY <1>6 DEF Mark, TypeOK, Ids
  <2>3. PublishedIsAccepted'
    BY <1>0, <1>s, <2>1, <2>2 DEF PublishedIsAccepted, RowsKept
  <2> QED
    BY <1>1, <1>6, <2>3 DEF Mark, Advance, TypeOK
<1>7. ASSUME NEW p \in Pollers, Die(p)
      PROVE  SentIsAccepted' /\ PublishedIsAccepted'
  BY <1>1, <1>2, <1>7 DEF Die, Resting, TypeOK
<1>8. CASE UNCHANGED vars
  BY <1>1, <1>2, <1>8 DEF vars
<1> QED
  BY <1>3, <1>4, <1>5, <1>6, <1>7, <1>8 DEF Next, Run

\* However many runs overlap, fail or die, a row is marked published only
\* after System 17 accepted its key.
LEMMA AcceptedHolds == Spec => [](SentIsAccepted /\ PublishedIsAccepted)
<1>1. Init => SentIsAccepted /\ PublishedIsAccepted
  BY DEF Init, Resting, SentIsAccepted, PublishedIsAccepted, Ids
<1> QED
  BY <1>1, AcceptedStep, TypeCorrect, PTL DEF Spec

-----------------------------------------------------------------------------
(* Delivered at most once.                                                 *)

\* The bus has seen the key of whatever it forwarded.
DeliveredIsSeen ==
  \A j \in 1..Len(delivered) : delivered[j] \in Ids /\ Key(delivered[j]) \in seen

LEMMA DeliveredStep ==
  TypeOK /\ DeliveredIsSeen /\ DeliveredOnce /\ [Next]_vars
    => DeliveredIsSeen' /\ DeliveredOnce'
<1> SUFFICES ASSUME TypeOK, DeliveredIsSeen, DeliveredOnce, [Next]_vars
             PROVE  DeliveredIsSeen' /\ DeliveredOnce'
  OBVIOUS
<1>0. RowsKept
  BY RowsStep
<1>s. seen \subseteq seen'
  BY DEF Next, Publish, Run, Poll, Relay, Accept, Mark, Die, vars
<1>1. ASSUME UNCHANGED delivered PROVE DeliveredIsSeen' /\ DeliveredOnce'
  <2>1. \A j \in 1..Len(delivered) :
          delivered[j] \in Ids' /\ Key(delivered[j])' \in seen'
    BY <1>0, <1>s, <1>1 DEF DeliveredIsSeen, RowsKept, Key
  <2> QED
    BY <1>1, <2>1 DEF DeliveredIsSeen, DeliveredOnce
<1>2. ASSUME NEW i \in Ids, Accept(i), Key(i) \notin seen, UNCHANGED outbox
      PROVE  DeliveredIsSeen' /\ DeliveredOnce'
  <2>1. \A j \in 1..Len(delivered) : delivered[j] # i
    BY <1>2 DEF DeliveredIsSeen
  <2>2. /\ Len(delivered') = Len(delivered) + 1 /\ Len(delivered) \in Nat
        /\ delivered'[Len(delivered')] = i
        /\ \A j \in 1..Len(delivered) : delivered'[j] = delivered[j]
    BY <1>2 DEF Accept, TypeOK, Ids
  <2>3. DeliveredOnce'
    BY <2>1, <2>2 DEF DeliveredOnce
  <2>4. Key(i) \in seen' /\ \A j : Key(j)' = Key(j) /\ Ids' = Ids
    BY <1>2 DEF Accept, Key, Ids
  <2>5. DeliveredIsSeen'
    BY <1>s, <2>2, <2>4, <1>2 DEF DeliveredIsSeen, Key
  <2> QED
    BY <2>3, <2>5
<1>3. ASSUME NEW p \in Pollers, NEW i \in Ids, Relay(p, i)
      PROVE  DeliveredIsSeen' /\ DeliveredOnce'
  BY <1>1, <1>2, <1>3 DEF Relay, Accept
<1> QED
  BY <1>1, <1>3 DEF Next, Publish, Run, Poll, Mark, Die, vars

LEMMA BusHolds == Spec => [](DeliveredIsSeen /\ DeliveredOnce)
<1>1. Init => DeliveredIsSeen /\ DeliveredOnce
  BY DEF Init, DeliveredIsSeen, DeliveredOnce
<1> QED
  BY <1>1, DeliveredStep, TypeCorrect, PTL DEF Spec

\* A row reaches the bus at most once, whatever is relayed again.
THEOREM DeliveredOnceHolds == Spec => []DeliveredOnce
BY BusHolds, PTL

-----------------------------------------------------------------------------
(* Accepted means that the key is on the bus.                              *)

OnBus(key) ==
  \E j \in 1..Len(delivered) : delivered[j] \in Ids /\ Key(delivered[j]) = key

SeenIsDelivered == \A key \in seen : OnBus(key)

\* What one step may do to the bus: nothing, or one more row under a new key.
Forwards(i) ==
  /\ Key(i) \notin seen
  /\ seen' = seen \cup {Key(i)}
  /\ delivered' = Append(delivered, i)

BusSteps == UNCHANGED <<seen, delivered>> \/ \E i \in Ids : Forwards(i)

LEMMA BusStep == TypeOK /\ [Next]_vars => BusSteps
<1> SUFFICES ASSUME TypeOK, [Next]_vars PROVE BusSteps
  OBVIOUS
<1>1. ASSUME NEW i \in Ids, Accept(i) PROVE BusSteps
  <2>1. CASE Key(i) \in seen
    BY <1>1, <2>1 DEF Accept, BusSteps
  <2>2. CASE Key(i) \notin seen
    BY <1>1, <2>2 DEF Accept, BusSteps, Forwards
  <2> QED
    BY <2>1, <2>2
<1>2. ASSUME NEW p \in Pollers, NEW i \in Ids, Relay(p, i) PROVE BusSteps
  <2>1. Accept(i) \/ UNCHANGED <<seen, delivered>>
    BY <1>2 DEF Relay
  <2> QED
    BY <1>1, <2>1 DEF BusSteps
<1> QED
  BY <1>2 DEF BusSteps, Next, Run, Publish, Poll, Mark, Die, vars

\* What is on the bus stays there, under its key.
LEMMA BusGrows ==
  TypeOK /\ [Next]_vars => \A key : OnBus(key) => OnBus(key)'
<1> SUFFICES ASSUME TypeOK, [Next]_vars, NEW key, OnBus(key) PROVE OnBus(key)'
  OBVIOUS
<1>1. PICK j \in 1..Len(delivered) :
        delivered[j] \in Ids /\ Key(delivered[j]) = key
  BY DEF OnBus
<1>2. j \in 1..Len(delivered') /\ delivered'[j] = delivered[j]
  <2>1. CASE UNCHANGED <<seen, delivered>>
    BY <2>1
  <2>2. ASSUME NEW i \in Ids, Forwards(i)
        PROVE  j \in 1..Len(delivered') /\ delivered'[j] = delivered[j]
    BY <2>2 DEF Forwards, TypeOK, Ids
  <2> QED
    BY <2>1, <2>2, BusStep DEF BusSteps
<1>3. PICK i \in Ids : i = delivered[j] /\ Key(i) = key
  BY <1>1
<1>4. i \in Ids' /\ Key(i)' = key
  BY <1>3, RowsStep DEF RowsKept
<1>5. delivered'[j] \in Ids' /\ Key(delivered[j])' = key
  BY <1>2, <1>3, <1>4 DEF Key
<1> QED
  BY <1>2, <1>3, <1>4 DEF OnBus, Key

LEMMA SeenStep ==
  TypeOK /\ SeenIsDelivered /\ [Next]_vars => SeenIsDelivered'
<1> SUFFICES ASSUME TypeOK, SeenIsDelivered, [Next]_vars,
                    NEW key \in seen'
             PROVE  OnBus(key)'
  BY DEF SeenIsDelivered
<1>1. CASE key \in seen
  BY <1>1, BusGrows DEF SeenIsDelivered
<1>2. ASSUME NEW i \in Ids, Forwards(i), key = Key(i) PROVE OnBus(key)'
  <2>1. /\ Len(delivered') \in 1..Len(delivered')
        /\ delivered'[Len(delivered')] = i
    BY <1>2 DEF Forwards, TypeOK, Ids
  <2>2. i \in Ids' /\ Key(i)' = key
    BY <1>2, RowsStep DEF RowsKept
  <2> QED
    BY <2>1, <2>2 DEF OnBus, Key
<1> QED
  BY <1>1, <1>2, BusStep DEF BusSteps, Forwards

LEMMA SeenHolds == Spec => []SeenIsDelivered
<1>1. Init => SeenIsDelivered
  BY DEF Init, SeenIsDelivered
<1> QED
  BY <1>1, SeenStep, TypeCorrect, PTL DEF Spec

-----------------------------------------------------------------------------
(* One row for each request.                                               *)

\* At most one row is written in a request, so that no two rows share a key.
OneRowEach == PerRequest <= 1

KeysDiffer == \A i, j \in Ids : Key(i) = Key(j) => i = j

LEMMA KeysStep ==
  ASSUME OneRowEach PROVE TypeOK /\ KeysDiffer /\ [Next]_vars => KeysDiffer'
<1> SUFFICES ASSUME TypeOK, KeysDiffer, [Next]_vars PROVE KeysDiffer'
  OBVIOUS
<1>0. RowsKept
  BY RowsStep
<1>1. ASSUME Ids' = Ids PROVE KeysDiffer'
  BY <1>0, <1>1 DEF KeysDiffer, RowsKept
<1>2. ASSUME NEW r \in Requests \cup {NoRequest}, Publish(r) PROVE KeysDiffer'
  <2>0. PICK new \in Nat : new = Len(outbox) + 1
    BY DEF TypeOK
  <2>1. /\ Ids' = Ids \cup {new} /\ new \notin Ids /\ new \in Nat
        /\ outbox'[new].request = r
    BY <1>2, <2>0 DEF Publish, TypeOK, Ids
  <2>2. ASSUME NEW i \in Ids PROVE Key(i) # Key(new)'
    <3>1. CASE r = NoRequest
      <4>1. Key(new)' = <<"event", new>>
        BY <2>1, <3>1 DEF Key
      <4> QED
        BY <2>1, <4>1 DEF Key
    <3>2. CASE r # NoRequest
      <4>1. Key(new)' = <<"request", r>>
        BY <2>1, <3>2 DEF Key
      <4>2. Cardinality({k \in Ids : outbox[k].request = r}) < PerRequest
        BY <1>2, <3>2 DEF Publish, Allowance
      <4>3. outbox[i].request # r
        <5> DEFINE rows == {k \in Ids : outbox[k].request = r}
        <5>0. IsFiniteSet(Ids)
          BY FS_Interval DEF Ids, TypeOK
        <5>1. IsFiniteSet(rows)
          BY <5>0, FS_Subset
        <5> HIDE DEF rows
        <5>2. Cardinality(rows) = 0
          <6>1. Cardinality(rows) \in Nat
            BY <5>1, FS_CardinalityType
          <6>2. Cardinality(rows) < PerRequest
            BY <4>2 DEF rows
          <6> QED
            BY <6>1, <6>2, OutboxAssumption DEF OneRowEach
        <5>3. rows = {}
          BY <5>1, <5>2, FS_EmptySet
        <5> QED
          BY <5>3 DEF rows
      <4> QED
        BY <4>1, <4>3 DEF Key
    <3> QED
      BY <3>1, <3>2
  <2>k. \A i \in Ids : Key(i)' = Key(i)
    BY <1>0 DEF RowsKept
  <2>3. ASSUME NEW i \in Ids', NEW j \in Ids', Key(i)' = Key(j)' PROVE i = j
    <3>1. CASE i \in Ids /\ j \in Ids
      BY <2>k, <2>3, <3>1 DEF KeysDiffer
    <3>2. CASE i \in Ids /\ j = new
      BY <2>k, <2>2, <2>3, <3>2
    <3>3. CASE i = new /\ j \in Ids
      BY <2>k, <2>2, <2>3, <3>3
    <3> QED
      BY <2>1, <3>1, <3>2, <3>3
  <2> QED
    BY <2>3 DEF KeysDiffer
<1>3. ASSUME NEW p \in Pollers, NEW i \in Ids, Mark(p, i) PROVE Ids' = Ids
  <2>1. outbox \in Seq(OutboxRow) /\ i \in 1..Len(outbox)
    BY DEF OutboxRow, TypeOK, Ids
  <2>2. outbox' = [outbox EXCEPT ![i].published = TRUE]
    BY <1>3 DEF Mark
  <2> QED
    BY <2>1, <2>2, MarkedRows DEF Ids
<1>4. ASSUME UNCHANGED outbox PROVE Ids' = Ids
  BY <1>4 DEF Ids
<1> QED
  BY <1>1, <1>2, <1>3, <1>4 DEF Next, Run, Poll, Relay, Die, vars

LEMMA KeysHold == ASSUME OneRowEach PROVE Spec => []KeysDiffer
<1>1. Init => KeysDiffer
  BY DEF Init, KeysDiffer, Ids
<1> QED
  BY <1>1, KeysStep, TypeCorrect, PTL DEF Spec

\* "This guarantees at-least-once delivery": with one row for each request, for
\* any number of runs side by side, failures, lost answers and deaths, what is
\* marked as published has reached the bus.
THEOREM DeliveredHolds == ASSUME OneRowEach PROVE Spec => []PublishedIsDelivered
<1>1. PublishedIsAccepted /\ SeenIsDelivered /\ KeysDiffer => PublishedIsDelivered
  <2> SUFFICES ASSUME PublishedIsAccepted, SeenIsDelivered, KeysDiffer,
                      NEW i \in Ids, outbox[i].published
               PROVE  \E j \in 1..Len(delivered) : delivered[j] = i
    BY DEF PublishedIsDelivered
  <2>1. OnBus(Key(i))
    BY DEF PublishedIsAccepted, SeenIsDelivered
  <2> QED
    BY <2>1 DEF OnBus, KeysDiffer
<1> QED
  BY <1>1, AcceptedHolds, SeenHolds, KeysHold, PTL

-----------------------------------------------------------------------------
(* The promise.                                                            *)

\* Written is a sequence that grows with the rows.
LEMMA WrittenIsSeq ==
  TypeOK => Len(Written) = Len(outbox) /\ \A i \in Ids : Written[i] = Key(i)
<1> SUFFICES ASSUME TypeOK
             PROVE  Len(Written) = Len(outbox) /\ \A i \in Ids : Written[i] = Key(i)
  OBVIOUS
<1>1. Len(outbox) \in Nat
  BY DEF TypeOK
<1> QED
  BY <1>1 DEF Written, Ids

LEMMA WrittenIsSeqNext ==
  TypeOK' => /\ Len(Written') = Len(outbox')
             /\ \A i \in Ids' : Written'[i] = Key(i)'
<1> SUFFICES ASSUME TypeOK'
             PROVE  /\ Len(Written') = Len(outbox')
                    /\ \A i \in Ids' : Written'[i] = Key(i)'
  OBVIOUS
<1>1. Len(outbox') \in Nat
  BY DEF TypeOK
<1> QED
  BY <1>1 DEF Written, Ids

\* What the promise reads, in the words of the outbox.
LEMMA OnBusMeans ==
  TypeOK /\ DeliveredIsSeen => \A key : Promise!OnBus(key) <=> OnBus(key)
<1> SUFFICES ASSUME TypeOK, DeliveredIsSeen, NEW key
             PROVE  Promise!OnBus(key) <=> OnBus(key)
  OBVIOUS
<1>1. \A j \in 1..Len(delivered) :
         /\ delivered[j] \in Ids
         /\ Written[delivered[j]] = Key(delivered[j])
  BY WrittenIsSeq DEF DeliveredIsSeen
<1> QED
  BY <1>1 DEF OnBus, Promise!OnBus

DeliveryInv ==
  /\ TypeOK /\ DeliveredIsSeen /\ SeenIsDelivered
  /\ SentIsAccepted /\ PublishedIsAccepted

LEMMA PromiseStep ==
  DeliveryInv /\ TypeOK' /\ [Next]_vars => [Promise!Next]_(Promise!vars)
<1> SUFFICES ASSUME DeliveryInv, TypeOK', [Next]_vars
             PROVE  Promise!Next \/ UNCHANGED Promise!vars
  OBVIOUS
<1>t. /\ TypeOK /\ DeliveredIsSeen /\ SeenIsDelivered
      /\ SentIsAccepted /\ PublishedIsAccepted
  BY DEF DeliveryInv
<1>w. /\ Len(Written) = Len(outbox) /\ Len(Written') = Len(outbox')
      /\ Len(outbox) \in Nat
      /\ \A i \in Ids : Written[i] = Key(i)
      /\ \A i \in Ids' : Written'[i] = Key(i)'
  BY <1>t, WrittenIsSeq, WrittenIsSeqNext DEF TypeOK
<1>k. RowsKept
  BY <1>t, RowsStep
<1>e. Promise!Events = Ids
  BY <1>w DEF Promise!Events, Ids
<1>b. \A key : Promise!OnBus(key) <=> OnBus(key)
  BY <1>t, OnBusMeans
\* A step that adds no row leaves what is written alone.
<1>s. ASSUME Ids' = Ids PROVE UNCHANGED Written
  BY <1>k, <1>s DEF Written, RowsKept
<1>1. ASSUME NEW r \in Requests \cup {NoRequest}, Publish(r) PROVE Promise!Next
  <2>1. /\ Len(outbox') = Len(outbox) + 1 /\ UNCHANGED delivered
        /\ \A i \in Ids : outbox'[i] = outbox[i]
        /\ Ids' = Ids \cup {Len(outbox) + 1}
        /\ ~outbox'[Len(outbox) + 1].published
    BY <1>t, <1>1 DEF Publish, TypeOK, Ids
  <2>2. UNCHANGED Published
    BY <2>1 DEF Published
  <2>3. \A i \in Ids : Written'[i] = Written[i]
    BY <1>k, <1>w DEF RowsKept
  <2> QED
    BY <1>e, <1>w, <2>1, <2>2, <2>3 DEF Promise!Write, Promise!Next
<1>2. ASSUME UNCHANGED outbox, UNCHANGED delivered PROVE UNCHANGED Promise!vars
  BY <1>2 DEF Promise!vars, Written, Published, Ids, Key
<1>3. ASSUME NEW p \in Pollers, NEW i \in Ids, Relay(p, i)
      PROVE  Promise!Next \/ UNCHANGED Promise!vars
  <2>1. UNCHANGED <<Written, Published>>
    BY <1>3 DEF Relay, Written, Published, Ids, Key
  <2>2. CASE UNCHANGED delivered
    BY <2>1, <2>2 DEF Promise!vars
  <2>3. ASSUME NEW k \in Ids, Forwards(k) PROVE Promise!Next
    <3>1. ~OnBus(Key(k))
      <4> SUFFICES ASSUME NEW j \in 1..Len(delivered),
                          Key(delivered[j]) = Key(k)
                   PROVE  FALSE
        BY DEF OnBus
      <4>1. Key(delivered[j]) \in seen
        BY <1>t DEF DeliveredIsSeen
      <4> QED
        BY <2>3, <4>1 DEF Forwards
    <3>2. Written[k] = Key(k) /\ k \in Promise!Events
      BY <1>e, <1>w
    <3>3. ~Promise!OnBus(Written[k])
      BY <1>b, <3>1, <3>2
    <3>4. Promise!Forward(k)
      BY <2>1, <2>3, <3>3 DEF Promise!Forward, Forwards
    <3> QED
      BY <3>2, <3>4 DEF Promise!Next
  <2> QED
    BY <1>t, <2>2, <2>3, BusStep DEF BusSteps
<1>4. ASSUME NEW p \in Pollers, NEW i \in Ids, Mark(p, i) PROVE Promise!Next
  <2>1. Key(i) \in seen
    <3>1. PICK j \in Ids : IsFirst(p, j) /\ Key(j) \in seen
      BY <1>t, <1>4 DEF Mark, SentIsAccepted
    <3>2. j = i
      BY <1>4, <3>1 DEF Mark, IsFirst, Ids
    <3> QED
      BY <3>1, <3>2
  <2>2. Promise!OnBus(Written[i])
    BY <1>b, <1>t, <1>w, <2>1 DEF SeenIsDelivered
  <2>3. Ids' = Ids
    <3>1. outbox \in Seq(OutboxRow) /\ i \in 1..Len(outbox)
      BY <1>t DEF OutboxRow, TypeOK, Ids
    <3>2. outbox' = [outbox EXCEPT ![i].published = TRUE]
      BY <1>4 DEF Mark
    <3> QED
      BY <3>1, <3>2, MarkedRows DEF Ids
  <2>4. Published' = Published \cup {i}
    BY <1>t, <1>4, <2>3 DEF Mark, Published, TypeOK, Ids
  <2>5. Promise!Confirm(i)
    BY <1>4, <1>s, <2>2, <2>3, <2>4 DEF Promise!Confirm, Mark
  <2> QED
    BY <1>e, <2>5 DEF Promise!Next
<1> QED
  BY <1>1, <1>2, <1>3, <1>4 DEF Next, Run, Poll, Die, vars

\* Whatever the number of rows a request writes, and whatever overlaps, fails
\* or dies: each step of the outbox is one of the promise, or none there.
THEOREM KeepsPromise == Spec => DeliverySpec
<1>1. Init => Promise!Init
  <2> SUFFICES ASSUME Init PROVE Promise!Init
    OBVIOUS
  <2>1. Ids = {}
    BY DEF Init, Ids
  <2>2. Published = {}
    BY <2>1 DEF Published
  <2>3. Written = <<>>
    BY <2>1 DEF Written
  <2> QED
    BY <2>2, <2>3 DEF Init, Promise!Init
<1>2. DeliveryInv /\ TypeOK' /\ [Next]_vars => [Promise!Next]_(Promise!vars)
  BY PromiseStep
<1>3. Spec => []DeliveryInv
  BY TypeCorrect, BusHolds, SeenHolds, AcceptedHolds, PTL DEF DeliveryInv
<1>4. Spec => []TypeOK
  BY TypeCorrect
<1> QED
  BY <1>1, <1>2, <1>3, <1>4, PTL DEF Spec, DeliverySpec, Promise!Spec

=============================================================================
