-------------------------- MODULE BackgroundProofs --------------------------
(***************************************************************************)
(* Proofs about what runs beside the workflows, each part on its own:      *)
(* Idempotency, Couriers, Versions, Access, Limits, SigningKeys,           *)
(* Vocabularies and Monitors, for any number of calls, messages, requests, *)
(* lookups, keys, rows and task runs.                                      *)
(***************************************************************************)
EXTENDS Access, Couriers, Idempotency, Limits, Monitors, SigningKeys, Versions, Vocabularies,
  FiniteSetTheorems, SequenceTheorems, TLAPS

-----------------------------------------------------------------------------
(* Idempotency, with the specification Spec.                               *)

\* The stages and the answers keep their types.
LEMMA Typing == TypeOK /\ [Next]_vars => TypeOK'
<1> SUFFICES ASSUME TypeOK, [Next]_vars PROVE TypeOK'
  OBVIOUS
<1> USE DEF TypeOK, Holding, Ends, Answers, At, To
<1>1. ASSUME NEW c \in Calls, Lookup(c) \/ Reserve(c) PROVE TypeOK'
  BY <1>1 DEF Lookup, Reserve
<1>2. ASSUME NEW c \in Calls, HandleCall(c) PROVE TypeOK'
  BY <1>2 DEF HandleCall
<1>3. ASSUME NEW c \in Calls, StoreAnswer(c) \/ Free(c) \/ Die(c) PROVE TypeOK'
  BY <1>3 DEF StoreAnswer, Free, Die
<1>4. CASE Expire
  BY <1>4 DEF Expire
<1>5. CASE UNCHANGED vars
  BY <1>5 DEF vars
<1> QED
  BY <1>1, <1>2, <1>3, <1>4, <1>5 DEF Next, Work

\* Any number of calls, slow ones included, deaths and expiries leave the cache and
\* the calls within their types.
THEOREM TypeCorrect == Spec => []TypeOK
<1>1. Init => TypeOK
  BY DEF Init, TypeOK, Holding, Ends, Answers
<1> QED
  BY <1>1, Typing, PTL DEF Spec

\* Until a slow call has begun, who is past the test-and-set owns the
\* reservation, and a reservation is of a call that has begun.
Owned ==
  ~SlowBegun =>
    /\ \A c \in Calls : pc[c] \in Holding => reserved = c
    /\ reserved # NoCall => pc[reserved] \in Holding \cup {"answered", "dead"}

\* A slow call that has begun stays so.
LEMMA SlowStays == TypeOK /\ SlowBegun /\ [Next]_vars => SlowBegun'
<1> SUFFICES ASSUME TypeOK, [Next]_vars,
                    NEW s \in SlowCalls, pc[s] \in Holding \cup {"answered", "dead"}
             PROVE  pc'[s] \in Holding \cup {"answered", "dead"}
  BY DEF SlowBegun
<1> USE CallsAssumption DEF TypeOK, Holding, At, To
<1>1. ASSUME NEW c \in Calls, Work(c) \/ Die(c)
      PROVE  pc'[s] \in Holding \cup {"answered", "dead"}
  BY <1>1 DEF Work, Lookup, Reserve, HandleCall, StoreAnswer, Free, Die
<1>2. CASE Expire
  BY <1>2 DEF Expire
<1>3. CASE UNCHANGED vars
  BY <1>3 DEF vars
<1> QED
  BY <1>1, <1>2, <1>3 DEF Next

LEMMA OwnedStep == TypeOK /\ Owned /\ [Next]_vars => Owned'
<1> SUFFICES ASSUME TypeOK, Owned, [Next]_vars, ~SlowBegun, ~SlowBegun'
             PROVE  Owned'
  BY SlowStays DEF Owned
<1> USE CallsAssumption DEF TypeOK, Owned, Holding, At, To
<1>1. ASSUME NEW c \in Calls, Lookup(c) \/ Reserve(c) PROVE Owned'
  BY <1>1 DEF Lookup, Reserve
<1>2. ASSUME NEW c \in Calls, HandleCall(c) \/ StoreAnswer(c) PROVE Owned'
  BY <1>2 DEF HandleCall, StoreAnswer
<1>3. ASSUME NEW c \in Calls, Free(c) PROVE Owned'
  BY <1>3 DEF Free
<1>4. ASSUME NEW c \in Calls, Die(c) PROVE Owned'
  BY <1>4 DEF Die
<1>5. CASE Expire
  BY <1>5 DEF Expire, Ends, SlowBegun
<1>6. CASE UNCHANGED vars
  BY <1>6 DEF vars
<1> QED
  BY <1>1, <1>2, <1>3, <1>4, <1>5, <1>6 DEF Next, Work

\* Until a call begins that outlives its reservation, the handlers of one key
\* never overlap, however many calls are made and whichever workers die.
THEOREM OneHandlerHolds == Spec => []OneHandler
<1>1. Init => Owned
  BY DEF Init, Owned, Holding
<1>2. Owned => OneHandler
  BY DEF Owned, OneHandler
<1> QED
  BY <1>1, <1>2, OwnedStep, TypeCorrect, PTL DEF Spec

\* What is out, or about to be returned, is in the cache.
OutIsCached ==
  \A c \in Calls :
    \/ pc[c] = "replayed"
    \/ pc[c] \in {"stored", "answered"} /\ answer[c] # "error"
    => cached

LEMMA OutIsCachedStep ==
  TypeOK /\ OutIsCached /\ RetryIsReplayed /\ [Next]_vars
    => OutIsCached' /\ RetryIsReplayed'
<1> SUFFICES ASSUME TypeOK, OutIsCached, RetryIsReplayed, [Next]_vars
             PROVE  OutIsCached' /\ RetryIsReplayed'
  OBVIOUS
<1> USE DEF TypeOK, OutIsCached, RetryIsReplayed, Holding, Ends, At, To
<1>1. ASSUME NEW c \in Calls, Lookup(c) PROVE OutIsCached' /\ RetryIsReplayed'
  <2>1. AnswerOut => cached
    BY DEF AnswerOut
  <2> QED
    BY <1>1, <2>1 DEF Lookup
<1>2. ASSUME NEW c \in Calls, Reserve(c) PROVE OutIsCached' /\ RetryIsReplayed'
  BY <1>2 DEF Reserve
<1>3. ASSUME NEW c \in Calls, HandleCall(c) PROVE OutIsCached' /\ RetryIsReplayed'
  BY <1>3 DEF HandleCall
<1>4. ASSUME NEW c \in Calls, StoreAnswer(c) PROVE OutIsCached' /\ RetryIsReplayed'
  BY <1>4 DEF StoreAnswer
<1>5. ASSUME NEW c \in Calls, Free(c) PROVE OutIsCached' /\ RetryIsReplayed'
  BY <1>5 DEF Free
<1>6. ASSUME NEW c \in Calls, Die(c) PROVE OutIsCached' /\ RetryIsReplayed'
  BY <1>6 DEF Die
<1>7. CASE Expire
  BY <1>7 DEF Expire
<1>8. CASE UNCHANGED vars
  BY <1>8 DEF vars
<1> QED
  BY <1>1, <1>2, <1>3, <1>4, <1>5, <1>6, <1>7, <1>8 DEF Next, Work

\* A call made after an answer below 500 was returned is replayed, whatever
\* overlapped, expired or died before.
THEOREM RetriesHold == Spec => []RetryIsReplayed
<1>1. Init => OutIsCached /\ RetryIsReplayed
  BY DEF Init, OutIsCached, RetryIsReplayed
<1> QED
  BY <1>1, OutIsCachedStep, TypeCorrect, PTL DEF Spec

-----------------------------------------------------------------------------
(* Couriers.                                                               *)

CouriersTypeOK ==
  /\ notice \in [Notices -> Notification]
  /\ log \in [Notices -> Nat]
  /\ task \in [Messages -> Task]
  /\ seen \subseteq Messages
  /\ told \in [Messages -> Nat]

\* A receiver has been told of the keys it has seen.
Told(n) ==
  /\ told[n] = IF n \in seen THEN 1 ELSE 0
  /\ task[n].pc \in {"answered", "logged"} /\ task[n].result = "ok" => n \in seen
  /\ n \in Notices => (notice[n].status = "delivered" => n \in seen)

\* What the row has counted, against the log and the task under way.
Counted(n) ==
  n \in Notices =>
    /\ notice[n].status = "none" => task[n].pc = "none"
    /\ task[n].pc = "none" =>
         /\ notice[n].status \in {"none", "queued"}
         /\ notice[n].retry_count = 0 /\ log[n] = 0
    /\ task[n].pc \in {"queued", "answered", "logged"} =>
         /\ notice[n].status = "queued"
         /\ notice[n].retry_count = task[n].retries /\ task[n].retries <= MaxRetries
         /\ log[n] = notice[n].retry_count + IF task[n].pc = "logged" THEN 1 ELSE 0
    /\ task[n].pc = "ended" =>
         /\ notice[n].retry_count <= MaxRetries + 1
         /\ log[n] \in {notice[n].retry_count, notice[n].retry_count + 1}

CouriersInv == CouriersTypeOK /\ \A n \in Messages : Told(n) /\ Counted(n)

USE CouriersAssumption

LEMMA TaskValues ==
  /\ NoTask \in Task /\ NoTask.pc = "none"
  /\ Ended \in Task /\ Ended.pc = "ended"
  /\ \A r \in Nat : Delayed(r) \in Task /\ Delayed(r).pc = "queued" /\ Delayed(r).retries = r
BY DEF NoTask, Ended, Delayed, Task, Results

LEMMA CouriersStart == CouriersInit => CouriersInv
<1> SUFFICES ASSUME CouriersInit PROVE CouriersInv
  OBVIOUS
<1>1. CouriersTypeOK
  BY TaskValues DEF CouriersInit, CouriersTypeOK, Notification
<1>2. ASSUME NEW n \in Messages PROVE Told(n) /\ Counted(n)
  BY TaskValues DEF CouriersInit, Told, Counted, Messages
<1> QED
  BY <1>1, <1>2 DEF CouriersInv

\* Whatever is done for one message leaves the others alone, so that one has to
\* look at this message only.
OnlyAbout(n) ==
  /\ CouriersTypeOK'
  /\ \A m \in Messages \ {n} : task'[m] = task[m] /\ told'[m] = told[m] /\ (m \in seen' <=> m \in seen)
  /\ \A m \in Notices \ {n} : notice'[m] = notice[m] /\ log'[m] = log[m]

LEMMA OneMessage ==
  ASSUME NEW n \in Messages, CouriersInv, OnlyAbout(n), Told(n)', Counted(n)'
  PROVE  CouriersInv'
<1>1. ASSUME NEW m \in Messages, m # n PROVE Told(m)' /\ Counted(m)'
  <2>1. Told(m) /\ Counted(m)
    BY <1>1 DEF CouriersInv
  <2> QED
    BY <1>1, <2>1 DEF OnlyAbout, Told, Counted
<1> QED
  BY <1>1 DEF CouriersInv, OnlyAbout

LEMMA CallKeeps ==
  ASSUME NEW n \in Messages, NEW result \in Results, CouriersInv, task[n].pc = "queued",
         Call(n, result), UNCHANGED <<notice, log>>
  PROVE  CouriersInv'
<1>1. CouriersTypeOK /\ Told(n) /\ Counted(n) /\ n \notin {} /\ task[n] \in Task
  BY DEF CouriersInv, CouriersTypeOK
<1>2. /\ task' = [task EXCEPT ![n].pc = "answered", ![n].result = result]
      /\ \/ /\ seen' = seen \cup {n}
            /\ told' = [told EXCEPT ![n] = @ + IF n \in seen THEN 0 ELSE 1]
         \/ result # "ok" /\ UNCHANGED <<seen, told>>
  BY DEF Call, IdempotencyKey
<1>3. task'[n] = [pc |-> "answered", retries |-> task[n].retries, result |-> result]
  BY <1>1, <1>2 DEF CouriersTypeOK, Task
<1>4. task' \in [Messages -> Task]
  BY <1>1, <1>2, <1>3 DEF CouriersTypeOK, Task
<1>5. told' \in [Messages -> Nat] /\ seen' \subseteq Messages
  BY <1>1, <1>2 DEF CouriersTypeOK
<1>6. OnlyAbout(n)
  BY <1>1, <1>2, <1>4, <1>5 DEF OnlyAbout, CouriersTypeOK, Messages
<1>7. Told(n)'
  BY <1>1, <1>2, <1>3 DEF Told, CouriersTypeOK
<1>8. Counted(n)'
  BY <1>1, <1>2, <1>3 DEF Counted, CouriersTypeOK
<1> QED
  BY <1>6, <1>7, <1>8, OneMessage

\* What becomes of the task: a retry or its end.
LEMMA RetryKeeps ==
  ASSUME NEW n \in Messages, CouriersTypeOK, Retry(n)
  PROVE  /\ task' \in [Messages -> Task]
         /\ \A m \in Messages \ {n} : task'[m] = task[m]
         /\ \/ task'[n].pc = "queued" /\ task'[n].retries = task[n].retries + 1 /\ task[n].retries < MaxRetries
            \/ task'[n].pc = "ended"
<1>1. task[n] \in Task /\ task[n].retries + 1 \in Nat
  BY DEF CouriersTypeOK, Task
<1> QED
  BY <1>1, TaskValues DEF Retry, CouriersTypeOK

LEMMA CouriersStep == CouriersInv /\ [CouriersNext]_courierVars => CouriersInv'
<1> SUFFICES ASSUME CouriersInv, [CouriersNext]_courierVars PROVE CouriersInv'
  OBVIOUS
<1> USE DEF CouriersInv
<1>1. ASSUME NEW n \in Notices, SendProfileReady(n) PROVE CouriersInv'
  <2>1. n \in Messages /\ Told(n) /\ Counted(n) /\ task[n].pc = "none"
    BY <1>1 DEF SendProfileReady, QueueNotification, Messages, Counted
  <2>2. OnlyAbout(n)
    <3>1. notice' = [notice EXCEPT ![n].status = "queued"] /\ task'[n] \in Task
          /\ (\A m \in Messages \ {n} : task'[m] = task[m]) /\ task' \in [Messages -> Task]
          /\ UNCHANGED <<log, seen, told>>
      BY <1>1, <2>1, TaskValues DEF SendProfileReady, QueueNotification, CouriersTypeOK
    <3>2. notice' \in [Notices -> Notification] /\ \A m \in Notices \ {n} : notice'[m] = notice[m]
      BY <3>1 DEF CouriersTypeOK, Notification
    <3> QED
      BY <3>1, <3>2 DEF OnlyAbout, CouriersTypeOK
  <2>3. Told(n)'
    BY <1>1, <2>1, TaskValues DEF SendProfileReady, QueueNotification, Told, CouriersTypeOK, Notification
  <2>4. Counted(n)'
    BY <1>1, <2>1, TaskValues DEF SendProfileReady, QueueNotification, Counted, CouriersTypeOK, Notification
  <2> QED
    BY <2>1, <2>2, <2>3, <2>4, OneMessage
<1>2. ASSUME NEW n \in Notices, LogDelivery(n) PROVE CouriersInv'
  <2>1. n \in Messages /\ Told(n) /\ Counted(n) /\ task[n] \in Task /\ log[n] \in Nat
    BY <1>2 DEF Messages, CouriersTypeOK
  <2>2. task'[n] = [task[n] EXCEPT !.pc = "logged"] /\ task'[n] \in Task
    BY <1>2, <2>1 DEF LogDelivery, CouriersTypeOK, Task
  <2>3. OnlyAbout(n)
    BY <1>2, <2>1, <2>2 DEF LogDelivery, OnlyAbout, CouriersTypeOK
  <2>4. Told(n)'
    BY <1>2, <2>1, <2>2 DEF LogDelivery, Told, CouriersTypeOK, Task
  <2>5. Counted(n)'
    BY <1>2, <2>1, <2>2 DEF LogDelivery, Counted, CouriersTypeOK, Task
  <2> QED
    BY <2>1, <2>3, <2>4, <2>5, OneMessage
<1>3. ASSUME NEW n \in Notices, MarkNotification(n) PROVE CouriersInv'
  <2>1. /\ n \in Messages /\ Told(n) /\ Counted(n) /\ notice[n] \in Notification
        /\ task[n].pc = "logged" /\ UNCHANGED <<log, seen, told>>
    BY <1>3 DEF Messages, CouriersTypeOK, MarkNotification
  <2> DEFINE counted == notice[n].retry_count + 1
  <2>2. CASE task[n].result = "ok" /\ task' = [task EXCEPT ![n] = Ended]
             /\ notice' = [notice EXCEPT ![n] = [status |-> "delivered", retry_count |-> counted]]
    <3>1. OnlyAbout(n)
      BY <2>1, <2>2, TaskValues DEF OnlyAbout, CouriersTypeOK, Notification
    <3>2. Told(n)' /\ Counted(n)'
      BY <2>1, <2>2, TaskValues DEF Told, Counted, CouriersTypeOK, Notification
    <3> QED
      BY <2>1, <3>1, <3>2, OneMessage
  <2>3. CASE notice' = [notice EXCEPT ![n].retry_count = counted] /\ Retry(n)
    <3>1. /\ task' \in [Messages -> Task] /\ \A m \in Messages \ {n} : task'[m] = task[m]
          /\ \/ task'[n].pc = "queued" /\ task'[n].retries = task[n].retries + 1 /\ task[n].retries < MaxRetries
             \/ task'[n].pc = "ended"
      BY <2>1, <2>3, RetryKeeps
    <3>2. /\ notice' \in [Notices -> Notification]
          /\ notice'[n].status = notice[n].status /\ notice'[n].retry_count = counted
          /\ \A m \in Notices \ {n} : notice'[m] = notice[m]
      BY <1>3, <2>1, <2>3 DEF CouriersTypeOK, Notification
    <3>3. OnlyAbout(n)
      BY <2>1, <3>1, <3>2 DEF OnlyAbout, CouriersTypeOK
    <3>4. Told(n)' /\ Counted(n)'
      BY <2>1, <3>1, <3>2 DEF Told, Counted, CouriersTypeOK, Notification, Task
    <3> QED
      BY <2>1, <3>3, <3>4, OneMessage
  <2>4. CASE task' = [task EXCEPT ![n] = Ended]
             /\ notice' = [notice EXCEPT ![n] = [status |-> "failed", retry_count |-> counted]]
    <3>1. OnlyAbout(n)
      BY <2>1, <2>4, TaskValues DEF OnlyAbout, CouriersTypeOK, Notification
    <3>2. Told(n)' /\ Counted(n)'
      BY <2>1, <2>4, TaskValues DEF Told, Counted, CouriersTypeOK, Notification
    <3> QED
      BY <2>1, <3>1, <3>2, OneMessage
  <2> QED
    BY <1>3, <2>2, <2>3, <2>4 DEF MarkNotification
<1>4. ASSUME NEW n \in Notices, NEW result \in Results, DeliverNotification(n, result) PROVE CouriersInv'
  BY <1>4, CallKeeps DEF DeliverNotification, Messages
<1>5. ASSUME NEW n \in Alerts, Enqueue(n) PROVE CouriersInv'
  <2>1. n \in Messages /\ n \notin Notices /\ Told(n)
    BY <1>5 DEF Messages
  <2>2. OnlyAbout(n) /\ Told(n)' /\ Counted(n)'
    BY <1>5, <2>1, TaskValues DEF Enqueue, OnlyAbout, Told, Counted, CouriersTypeOK
  <2> QED
    BY <2>1, <2>2, OneMessage
<1>6. ASSUME NEW n \in Alerts, EndDispatch(n) PROVE CouriersInv'
  <2>1. n \in Messages /\ n \notin Notices /\ Told(n) /\ UNCHANGED <<notice, log, seen, told>>
    BY <1>6 DEF Messages, EndDispatch
  <2>2. CASE task' = [task EXCEPT ![n] = Ended]
    <3>1. OnlyAbout(n) /\ Told(n)' /\ Counted(n)'
      BY <2>1, <2>2, TaskValues DEF OnlyAbout, Told, Counted, CouriersTypeOK
    <3> QED
      BY <2>1, <3>1, OneMessage
  <2>3. CASE Retry(n)
    <3>1. /\ task' \in [Messages -> Task] /\ \A m \in Messages \ {n} : task'[m] = task[m]
          /\ task'[n].pc \in {"queued", "ended"}
      BY <2>1, <2>3, RetryKeeps
    <3>2. OnlyAbout(n) /\ Told(n)' /\ Counted(n)'
      BY <2>1, <3>1 DEF OnlyAbout, Told, Counted, CouriersTypeOK
    <3> QED
      BY <2>1, <3>2, OneMessage
  <2> QED
    BY <1>6, <2>2, <2>3 DEF EndDispatch
<1>7. ASSUME NEW n \in Alerts, NEW result \in Results, Dispatch(n, result) PROVE CouriersInv'
  BY <1>7, CallKeeps DEF Dispatch, Messages
<1>8. ASSUME NEW n \in Messages, LoseTask(n) PROVE CouriersInv'
  <2>1. Told(n) /\ Counted(n) /\ UNCHANGED <<notice, log, seen, told>>
    BY <1>8 DEF LoseTask
  <2>2. OnlyAbout(n) /\ Told(n)'
    BY <1>8, <2>1, TaskValues DEF LoseTask, OnlyAbout, Told, CouriersTypeOK
  <2>3. Counted(n)'
    BY <1>8, <2>1, TaskValues DEF LoseTask, Counted, CouriersTypeOK, Notification, Task
  <2> QED
    BY <2>2, <2>3, OneMessage
<1>9. CASE UNCHANGED courierVars
  BY <1>9 DEF courierVars, CouriersTypeOK, Told, Counted
<1> QED
  BY <1>1, <1>2, <1>3, <1>4, <1>5, <1>6, <1>7, <1>8, <1>9 DEF CouriersNext

\* NoticeIsSentOnce for any number of messages, retries, lost answers and dying
\* workers: a receiver is told once, what is marked delivered was, and the log
\* agrees with the row but for a worker that died in between.
THEOREM NoticeHolds == CouriersSpec => []NoticeIsSentOnce
<1>1. CouriersInv => NoticeIsSentOnce
  <2> SUFFICES ASSUME CouriersInv PROVE NoticeIsSentOnce
    OBVIOUS
  <2>1. ASSUME NEW n \in Messages PROVE told[n] <= 1
    BY <2>1 DEF CouriersInv, Told
  <2>2. ASSUME NEW n \in Notices
        PROVE  /\ notice[n].status = "delivered" => told[n] = 1
               /\ notice[n].retry_count <= log[n]
               /\ log[n] <= notice[n].retry_count + 1
               /\ notice[n].retry_count <= MaxRetries + 1
               /\ notice[n].status \in {"delivered", "failed"} => task[n].pc = "ended"
    <3>1. n \in Messages
      BY DEF Messages
    <3> QED
      BY <3>1 DEF CouriersInv, CouriersTypeOK, Told, Counted, Notification, Task
  <2> QED
    BY <2>1, <2>2 DEF NoticeIsSentOnce
<1> QED
  BY <1>1, CouriersStart, CouriersStep, PTL DEF CouriersSpec

-----------------------------------------------------------------------------
(* Versions.                                                               *)

USE VersionsAssumption

VersionsTypeOK ==
  /\ rows \in [Series -> Seq(Nat)]
  /\ author \in [Authors -> Batch \cup {NoBatch}]

\* A transaction that has inserted a row is the next one to commit in its
\* series: it began at the last number, and no other has inserted a row.
NextInLine(a) ==
  author[a] # NoBatch =>
    /\ author[a].last <= Len(rows[author[a].series])
    /\ author[a].made <= author[a].count
    /\ author[a].made > 0 => author[a].last = Len(rows[author[a].series])

OneInLine ==
  \A a, b \in Authors :
    /\ author[a] # NoBatch /\ author[b] # NoBatch
    /\ author[a].series = author[b].series
    /\ author[a].made > 0 /\ author[b].made > 0
    => a = b

VersionsInv ==
  /\ VersionsTypeOK /\ NumbersAreConsecutive /\ OneInLine
  /\ \A a \in Authors : NextInLine(a)

LEMMA NumbersOfSeries ==
  ASSUME VersionsTypeOK, NumbersAreConsecutive, NEW s \in Series
  PROVE  /\ Numbers(s) = 1 .. Len(rows[s]) /\ LastNumber(s) = Len(rows[s])
         /\ Len(rows[s]) \in Nat
<1>1. rows[s] \in Seq(Nat) /\ DOMAIN rows[s] = 1 .. Len(rows[s]) /\ Len(rows[s]) \in Nat
  BY DEF VersionsTypeOK
<1>2. \A i \in 1 .. Len(rows[s]) : rows[s][i] = i
  BY <1>1 DEF NumbersAreConsecutive
<1>3. Numbers(s) = 1 .. Len(rows[s])
  BY <1>1, <1>2 DEF Numbers
<1>4. CASE rows[s] = <<>>
  BY <1>1, <1>3, <1>4 DEF LastNumber
<1>5. CASE rows[s] # <<>>
  <2>1. Len(rows[s]) \in Numbers(s) /\ \A k \in Numbers(s) : k <= Len(rows[s])
    BY <1>1, <1>3, <1>5, EmptySeq
  <2>2. \A n \in Numbers(s) : (\A k \in Numbers(s) : k <= n) => n = Len(rows[s])
    BY <1>1, <1>3, <2>1
  <2> QED
    BY <1>1, <1>3, <1>5, <2>1, <2>2 DEF LastNumber
<1> QED
  BY <1>1, <1>3, <1>4, <1>5

LEMMA Appended ==
  ASSUME NEW q \in Seq(Nat), NEW r \in Seq(Nat)
  PROVE  /\ Len(q \o r) = Len(q) + Len(r) /\ Len(q) \in Nat
         /\ q \o r \in Seq(Nat) /\ DOMAIN (q \o r) = 1 .. Len(q \o r)
BY ConcatProperties

LEMMA VersionsStep == VersionsInv /\ [VersionsNext]_versionVars => VersionsInv'
<1> SUFFICES ASSUME VersionsInv, [VersionsNext]_versionVars PROVE VersionsInv'
  OBVIOUS
<1> USE DEF VersionsInv
<1>0. /\ \A a \in Authors : author[a] # NoBatch => author[a] \in Batch
      /\ NoBatch.made = -1 /\ NoBatch \notin Batch
      /\ \A s \in Series : Len(rows[s]) \in Nat
  BY DEF VersionsTypeOK, NoBatch, Batch
\* A request that ends without a commit.
<1>1. ASSUME NEW a \in Authors, author' = [author EXCEPT ![a] = NoBatch], UNCHANGED rows
      PROVE  VersionsInv'
  <2>1. VersionsTypeOK' /\ NumbersAreConsecutive'
    BY <1>1 DEF VersionsTypeOK, NumbersAreConsecutive
  <2>2. author'[a] = NoBatch /\ \A b \in Authors \ {a} : author'[b] = author[b]
    BY <1>1 DEF VersionsTypeOK
  <2> QED
    BY <1>1, <2>1, <2>2 DEF OneInLine, NextInLine
<1>2. ASSUME NEW a \in Authors, NEW s \in Series, NEW count \in Nat \ {0}, BeginBatch(a, s, count)
      PROVE  VersionsInv'
  <2> DEFINE new == [series |-> s, last |-> LastNumber(s), count |-> count, made |-> 0]
  <2>1. LastNumber(s) = Len(rows[s]) /\ Len(rows[s]) \in Nat
    BY NumbersOfSeries
  <2>2. new \in Batch /\ new.series = s /\ new.last = Len(rows[s]) /\ new.made = 0 /\ new.count = count
    BY <2>1 DEF Batch
  <2>3. author'[a] = new /\ (\A b \in Authors \ {a} : author'[b] = author[b]) /\ UNCHANGED rows
    BY <1>2 DEF BeginBatch, VersionsTypeOK
  <2>4. VersionsTypeOK' /\ NumbersAreConsecutive'
    BY <1>2, <2>2 DEF BeginBatch, VersionsTypeOK, NumbersAreConsecutive
  <2> HIDE DEF new
  <2>5. OneInLine' /\ \A b \in Authors : NextInLine(b)'
    BY <2>1, <2>2, <2>3 DEF OneInLine, NextInLine
  <2> QED
    BY <2>4, <2>5
<1>3. ASSUME NEW a \in Authors, InsertRow(a) PROVE VersionsInv'
  <2> DEFINE s == author[a].series
             new == [author[a] EXCEPT !.made = @ + 1]
  <2>1. author[a] \in Batch /\ author[a] # NoBatch /\ s \in Series /\ author[a].made < author[a].count
    BY <1>0, <1>3 DEF InsertRow, MoreToMake, Batch
  <2>2. /\ new \in Batch /\ new # NoBatch /\ new.series = s /\ new.last = author[a].last
        /\ new.count = author[a].count /\ new.made = author[a].made + 1
    BY <1>0, <2>1 DEF Batch
  <2>3. author'[a] = new /\ (\A b \in Authors \ {a} : author'[b] = author[b]) /\ UNCHANGED rows
    BY <1>3 DEF InsertRow, VersionsTypeOK
  <2>4. VersionsTypeOK' /\ NumbersAreConsecutive'
    BY <1>3, <2>2 DEF InsertRow, VersionsTypeOK, NumbersAreConsecutive
  <2>5. Numbers(s) = 1 .. Len(rows[s])
    BY <2>1, NumbersOfSeries
  <2>6. author[a].last = Len(rows[s])
    <3>1. author[a].last + author[a].made + 1 \notin 1 .. Len(rows[s])
      BY <1>3, <2>5 DEF InsertRow, Taken, NextNumber
    <3> QED
      BY <1>0, <2>1, <3>1 DEF NextInLine, Batch
  <2>7. ASSUME NEW b \in Authors \ {a}, author[b] # NoBatch, author[b].series = s
        PROVE  author[b].made = 0
    <3>1. author[b] \in Batch
      BY <1>0, <2>7
    <3>2. CASE author[a].made > 0
      BY <2>1, <2>7, <3>1, <3>2 DEF OneInLine, Batch
    <3>3. CASE author[a].made = 0
      <4>1. Len(rows[s]) + 1 \notin Inserted(b)
        BY <1>3, <2>1, <2>6, <2>7, <3>3 DEF InsertRow, Awaited, NextNumber, Batch
      <4>2. Inserted(b) = author[b].last + 1 .. author[b].last + author[b].made
        BY <2>7 DEF Inserted
      <4> QED
        BY <1>0, <2>1, <2>7, <3>1, <4>1, <4>2 DEF NextInLine, Batch
    <3> QED
      BY <2>1, <3>2, <3>3 DEF Batch
  <2> HIDE DEF new
  <2>8. OneInLine'
    BY <2>2, <2>3, <2>7 DEF OneInLine
  <2>9. \A b \in Authors : NextInLine(b)'
    BY <1>0, <2>1, <2>2, <2>3, <2>6 DEF NextInLine, Batch
  <2> QED
    BY <2>4, <2>8, <2>9
<1>4. ASSUME NEW a \in Authors, CommitBatch(a) PROVE VersionsInv'
  <2> DEFINE s     == author[a].series
             count == author[a].count
             more  == [i \in 1 .. count |-> author[a].last + i]
  <2>1. author[a] \in Batch /\ author[a] # NoBatch /\ s \in Series /\ author[a].made = count /\ count \in Nat \ {0}
    BY <1>0, <1>4 DEF CommitBatch, Batch
  <2>2. author[a].last = Len(rows[s]) /\ rows[s] \in Seq(Nat)
    BY <2>1 DEF NextInLine, VersionsTypeOK
  <2>3. more \in Seq(Nat) /\ Len(more) = count
    BY <1>0, <2>1, <2>2
  <2>4. rows' = [rows EXCEPT ![s] = rows[s] \o more]
    BY <1>4 DEF CommitBatch
  <2>2a. \A i \in 1 .. count : more[i] = Len(rows[s]) + i
    BY <2>2
  <2> HIDE DEF more
  <2>5. rows' \in [Series -> Seq(Nat)] /\ rows'[s] = rows[s] \o more
        /\ \A t \in Series \ {s} : rows'[t] = rows[t]
    BY <2>1, <2>2, <2>3, <2>4, ConcatProperties DEF VersionsTypeOK
  <2>6. Len(rows'[s]) = Len(rows[s]) + count /\ Len(rows[s]) \in Nat
    <3>1. Len(rows[s] \o more) = Len(rows[s]) + Len(more) /\ Len(rows[s]) \in Nat
      BY <2>2, <2>3, Appended
    <3> QED
      BY <2>3, <2>5, <3>1
  <2>7. ASSUME NEW i \in 1 .. Len(rows'[s]) PROVE rows'[s][i] = i
    <3>1. (rows[s] \o more)[i] = IF i <= Len(rows[s]) THEN rows[s][i] ELSE more[i - Len(rows[s])]
      BY <2>2, <2>3, <2>5, <2>6, ConcatProperties
    <3>2. i \in Nat /\ (i <= Len(rows[s]) => i \in DOMAIN rows[s])
          /\ (i > Len(rows[s]) => i - Len(rows[s]) \in 1 .. count)
      <4>1. DOMAIN rows[s] = 1 .. Len(rows[s]) /\ count \in Nat
        BY <2>1, <2>2
      <4> HIDE DEF s, count
      <4> QED
        BY <2>6, <4>1
    <3>3. CASE i <= Len(rows[s])
      BY <2>1, <2>5, <3>1, <3>2, <3>3 DEF NumbersAreConsecutive
    <3>4. CASE i > Len(rows[s])
      BY <2>5, <2>6, <2>2a, <3>1, <3>2, <3>4
    <3> QED
      BY <2>6, <3>2, <3>3, <3>4
  <2>8. NumbersAreConsecutive'
    <3>1. ASSUME NEW t \in Series, NEW i \in DOMAIN rows'[t] PROVE rows'[t][i] = i
      <4>1. CASE t = s
        <5>1. rows'[s] \in Seq(Nat) /\ DOMAIN rows'[s] = 1 .. Len(rows'[s])
          BY <2>2, <2>3, <2>5, Appended
        <5> QED
          BY <2>7, <3>1, <4>1, <5>1
      <4>2. CASE t # s
        BY <2>5, <3>1, <4>2 DEF NumbersAreConsecutive
      <4> QED
        BY <4>1, <4>2
    <3> QED
      BY <3>1 DEF NumbersAreConsecutive
  <2>9. author'[a] = NoBatch /\ (\A b \in Authors \ {a} : author'[b] = author[b])
        /\ author' \in [Authors -> Batch \cup {NoBatch}]
    BY <1>4 DEF CommitBatch, VersionsTypeOK
  <2>10. ASSUME NEW b \in Authors PROVE NextInLine(b)'
    <3>1. CASE b # a /\ author[b] # NoBatch /\ author[b].series = s
      <4>1. author[b] \in Batch /\ author[b].made = 0
        BY <1>0, <2>1, <3>1 DEF OneInLine, Batch
      <4>2. author[b].last <= Len(rows[s]) /\ author'[b] = author[b]
        BY <2>9, <3>1 DEF NextInLine
      <4>3. author[b].last <= Len(rows'[s]) /\ author[b].made <= author[b].count
        BY <1>0, <2>1, <2>6, <3>1, <4>1, <4>2 DEF Batch
      <4> QED
        BY <2>6, <3>1, <4>1, <4>2, <4>3 DEF NextInLine, Batch
    <3>2. CASE b # a /\ author[b] # NoBatch /\ author[b].series # s
      <4>1. author[b].series \in Series
        BY <1>0, <3>2 DEF Batch
      <4> QED
        BY <2>5, <2>9, <3>2, <4>1 DEF NextInLine
    <3> QED
      BY <2>9, <3>1, <3>2 DEF NextInLine
  <2>11. OneInLine'
    BY <2>9 DEF OneInLine
  <2> QED
    BY <2>5, <2>8, <2>9, <2>10, <2>11 DEF VersionsTypeOK
<1>5. CASE VersionsNext
  BY <1>1, <1>2, <1>3, <1>4, <1>5
  DEF VersionsNext, PublishBlueprintVersion, GenerateVariants, LoseRace, DieNumbering
<1>6. CASE UNCHANGED versionVars
  BY <1>6 DEF versionVars, VersionsTypeOK, NumbersAreConsecutive, OneInLine, NextInLine
<1> QED
  BY <1>5, <1>6

\* NumbersAreConsecutive for any number of requests, series and batch sizes:
\* versions and variants are numbered without gaps in the order of the commits.
THEOREM NumbersHold == VersionsSpec => []NumbersAreConsecutive
<1>1. VersionsInit => VersionsInv
  BY DEF VersionsInit, VersionsInv, VersionsTypeOK, NumbersAreConsecutive, OneInLine, NextInLine
<1>2. VersionsInv => NumbersAreConsecutive
  BY DEF VersionsInv
<1> QED
  BY <1>1, <1>2, VersionsStep, PTL DEF VersionsSpec

-----------------------------------------------------------------------------
(* Access.                                                                 *)

USE AccessAssumption

AccessTypeOK ==
  /\ \A k \in Keys : table[k] \in Values(k)
  /\ DOMAIN table = Keys
  /\ changed \in [Keys -> Nat \cup {-1}]
  /\ now \in Nat
  /\ DOMAIN cache = Keys /\ DOMAIN reader = Readers

\* What was read or set at a time: what the table no longer has went later, up
\* to the given delay.
ReadBy(k, value, time) == value \in Values(k) /\ (value \subseteq table[k] \/ time <= changed[k])

\* An open change has a value of its key.
EditIsTyped ==
  edit # NoEdit => edit.key \in Keys /\ edit.value \in Values(edit.key)

LookupIsRecent(t) ==
  reader[t] # Miss =>
    /\ reader[t].key \in Keys /\ reader[t].at \in Nat
    /\ reader[t].at <= now /\ now <= reader[t].at + Slow
    /\ ReadBy(reader[t].key, reader[t].value, reader[t].at)

EntryIsKept(k) ==
  cache[k].set =>
    /\ cache[k].at \in Nat /\ cache[k].at <= now
    /\ ReadBy(k, cache[k].value, cache[k].at - Slow)

AccessInv ==
  /\ AccessTypeOK /\ EditIsTyped
  /\ \A k \in Keys : changed[k] <= now /\ EntryIsKept(k)
  /\ \A t \in Readers : LookupIsRecent(t)

LEMMA AccessStart == AccessInit => AccessInv
<1> SUFFICES ASSUME AccessInit PROVE AccessInv
  OBVIOUS
<1>1. AccessTypeOK
  BY DEF AccessInit, AccessTypeOK, Values
<1>2. \A k \in Keys : cache[k].set = FALSE /\ changed[k] <= now
  BY DEF AccessInit, NoEntry
<1> QED
  BY <1>1, <1>2 DEF AccessInit, AccessInv, EditIsTyped, EntryIsKept, LookupIsRecent

\* A step that writes neither the tables nor their clocks keeps what it does
\* not read or set.
LEMMA TablesStand ==
  ASSUME AccessInv, UNCHANGED <<table, changed, now>>
  PROVE  /\ \A k \in Keys : changed'[k] <= now'
         /\ \A k \in Keys : cache'[k] = cache[k] => EntryIsKept(k)'
         /\ \A t \in Readers : reader'[t] = reader[t] => LookupIsRecent(t)'
BY DEF AccessInv, EntryIsKept, LookupIsRecent, ReadBy

\* A change of one row keeps everything: what the row had may be gone now.
LEMMA RowChanges ==
  ASSUME AccessInv, NEW k \in Keys, NEW value \in Values(k),
         table' = [table EXCEPT ![k] = value], changed' = [changed EXCEPT ![k] = now],
         UNCHANGED <<cache, reader, now>>, EditIsTyped'
  PROVE  AccessInv'
<1>1. /\ table'[k] = value /\ changed'[k] = now
      /\ \A q \in Keys \ {k} : table'[q] = table[q] /\ changed'[q] = changed[q]
  BY DEF AccessInv, AccessTypeOK
<1>2. AccessTypeOK'
  BY <1>1 DEF AccessInv, AccessTypeOK, Values
<1>3. now \in Nat /\ \A q \in Keys : changed[q] \in Int /\ changed[q] <= now
  BY DEF AccessInv, AccessTypeOK
<1>4. ASSUME NEW q \in Keys, NEW was \in Values(q), NEW time \in Int, time <= now,
             was \subseteq table[q] \/ time <= changed[q]
      PROVE  was \subseteq table'[q] \/ time <= changed'[q]
  BY <1>1, <1>3, <1>4
<1>5. ASSUME NEW q \in Keys PROVE changed'[q] <= now' /\ EntryIsKept(q)'
  <2>1. changed'[q] <= now'
    BY <1>1, <1>3
  <2>2. ASSUME cache[q].set
        PROVE  /\ cache[q].at \in Nat /\ cache[q].at <= now /\ cache[q].value \in Values(q)
               /\ cache[q].value \subseteq table'[q] \/ cache[q].at - Slow <= changed'[q]
    <3>1. /\ cache[q].at \in Nat /\ cache[q].at <= now /\ cache[q].value \in Values(q)
          /\ cache[q].value \subseteq table[q] \/ cache[q].at - Slow <= changed[q]
      BY <2>2 DEF AccessInv, EntryIsKept, ReadBy
    <3> QED
      BY <1>3, <1>4, <3>1
  <2> QED
    BY <2>1, <2>2 DEF EntryIsKept, ReadBy, Values
<1>6. ASSUME NEW t \in Readers PROVE LookupIsRecent(t)'
  <2> DEFINE q == reader[t].key
  <2>1. ASSUME reader[t] # Miss
        PROVE  /\ q \in Keys /\ reader[t].at \in Nat
               /\ reader[t].at <= now /\ now <= reader[t].at + Slow
               /\ reader[t].value \in Values(q)
               /\ reader[t].value \subseteq table'[q] \/ reader[t].at <= changed'[q]
    <3>1. /\ q \in Keys /\ reader[t].at \in Nat
          /\ reader[t].at <= now /\ now <= reader[t].at + Slow
          /\ reader[t].value \in Values(q)
          /\ reader[t].value \subseteq table[q] \/ reader[t].at <= changed[q]
      BY <2>1 DEF AccessInv, LookupIsRecent, ReadBy
    <3> QED
      BY <1>3, <1>4, <3>1
  <2> QED
    BY <2>1 DEF LookupIsRecent, ReadBy, Values
<1> QED
  BY <1>2, <1>5, <1>6 DEF AccessInv

\* Entries that are deleted keep nothing.
LEMMA EntriesGo ==
  ASSUME AccessInv, NEW ks, Invalidate(ks), UNCHANGED <<table, reader, changed, now>>, EditIsTyped'
  PROVE  AccessInv'
<1>1. \A k \in Keys : cache'[k] = NoEntry \/ cache'[k] = cache[k]
  BY DEF Invalidate
<1>2. ASSUME NEW k \in Keys PROVE EntryIsKept(k)'
  BY <1>1, TablesStand DEF EntryIsKept, NoEntry
<1>3. AccessTypeOK'
  BY DEF AccessInv, AccessTypeOK, Invalidate, Values
<1> QED
  BY <1>2, <1>3, TablesStand DEF AccessInv

\* A step that concerns the change alone.
LEMMA EditGoesOn ==
  ASSUME AccessInv, UNCHANGED <<table, cache, reader, changed, now>>, EditIsTyped'
  PROVE  AccessInv'
<1>1. AccessTypeOK'
  BY DEF AccessInv, AccessTypeOK, Values
<1> QED
  BY <1>1, TablesStand DEF AccessInv

LEMMA AccessStep == AccessInv /\ [AccessNext]_accessVars => AccessInv'
<1> SUFFICES ASSUME AccessInv, [AccessNext]_accessVars PROVE AccessInv'
  OBVIOUS
<1>0. /\ AccessTypeOK /\ EditIsTyped
      /\ \A k \in Keys : changed[k] <= now /\ EntryIsKept(k)
      /\ \A t \in Readers : LookupIsRecent(t)
  BY DEF AccessInv
<1>1. ASSUME NEW kind, NEW k \in Keys, NEW value \in Values(k), Begin(kind, k, value)
      PROVE  AccessInv'
  <2>1. EditIsTyped'
    BY <1>1 DEF Begin, EditIsTyped, Values
  <2> QED
    BY <1>1, <2>1, EditGoesOn DEF Begin
<1>2. ASSUME NEW sub \in Subs, NEW roles \in SUBSET RoleNames, SetUserRoles(sub, roles) PROVE AccessInv'
  <2>1. sub \in Keys /\ roles \in Values(sub)
    BY DEF Keys, Values
  <2> QED
    BY <1>1, <1>2, <2>1 DEF SetUserRoles
<1>3. ASSUME NEW role \in RoleNames, NEW codenames \in SUBSET Codenames,
             PutRolePermissions(role, codenames)
      PROVE  AccessInv'
  <2>1. role \in Keys /\ codenames \in Values(role)
    BY DEF Keys, Values
  <2> QED
    BY <1>1, <1>3, <2>1 DEF PutRolePermissions
<1>4. ASSUME NEW sub \in Subs, NEW role \in RoleNames, Lapse(sub, role) PROVE AccessInv'
  <2>1. sub \in Keys /\ table[sub] \ {role} \in Values(sub)
    BY <1>0 DEF AccessTypeOK, Keys, Values
  <2>2. table' = [table EXCEPT ![sub] = table[sub] \ {role}] /\ EditIsTyped'
    BY <1>0, <1>4 DEF Lapse, EditIsTyped, Values
  <2> QED
    BY <1>4, <2>1, <2>2, RowChanges DEF Lapse
<1>5. CASE InvalidateWithin
  <2>1. EditIsTyped'
    <3>1. edit # NoEdit /\ edit'.key = edit.key /\ edit'.value = edit.value
      BY <1>5 DEF InvalidateWithin, NoEdit
    <3> QED
      BY <1>0, <3>1 DEF EditIsTyped, Values
  <2> QED
    BY <1>5, <2>1, EntriesGo DEF InvalidateWithin
<1>6. CASE Commit
  <2>1. edit # NoEdit /\ edit.key \in Keys /\ edit.value \in Values(edit.key)
    BY <1>0, <1>6 DEF Commit, NoEdit, EditIsTyped
  <2>2. EditIsTyped'
    <3>1. \/ edit' = NoEdit
          \/ edit'.key = edit.key /\ edit'.value = edit.value
      BY <1>6 DEF Commit
    <3> QED
      BY <2>1, <3>1 DEF EditIsTyped, Values
  <2> QED
    BY <1>6, <2>1, <2>2, RowChanges DEF Commit
<1>7. CASE InvalidateAfter
  BY <1>7, EntriesGo DEF InvalidateAfter, EditIsTyped
<1>8. CASE DieEditing
  BY <1>8, EditGoesOn DEF DieEditing, EditIsTyped
<1>9. ASSUME NEW role, NEW active, SetActive(role, active) PROVE AccessInv'
  <2>1. EditIsTyped'
    BY <1>0, <1>9 DEF SetActive, EditIsTyped, Values
  <2> QED
    BY <1>9, <2>1, EntriesGo DEF SetActive
<1>10. ASSUME NEW t \in Readers, NEW k \in Keys, ReadTable(t, k) PROVE AccessInv'
  <2> DEFINE new == [at |-> now, key |-> k, value |-> Granted(k)]
  <2>1. Granted(k) \in Values(k) /\ Granted(k) \subseteq table[k] /\ now \in Nat
    BY <1>0 DEF Granted, AccessTypeOK, Values
  <2>2. reader' = [reader EXCEPT ![t] = new] /\ UNCHANGED <<table, cache, edit, changed, now>>
    BY <1>10 DEF ReadTable
  <2>3. new.at = now /\ new.key = k /\ new.value = Granted(k)
    OBVIOUS
  <2> HIDE DEF new
  <2>4. reader'[t] = new /\ \A u \in Readers \ {t} : reader'[u] = reader[u]
    BY <1>0, <2>2 DEF AccessTypeOK
  <2>5. LookupIsRecent(t)'
    <3>1. Granted(k) \in Values(k)' /\ Granted(k) \subseteq table'[k]
      BY <2>1, <2>2 DEF Values
    <3> QED
      BY <2>1, <2>2, <2>3, <2>4, <3>1 DEF LookupIsRecent, ReadBy, Values
  <2>6. AccessTypeOK' /\ EditIsTyped'
    BY <1>0, <2>2 DEF AccessTypeOK, EditIsTyped, Values
  <2> QED
    BY <2>2, <2>4, <2>5, <2>6, TablesStand DEF AccessInv
<1>11. ASSUME NEW t \in Readers, SetEntry(t) PROVE AccessInv'
  <2> DEFINE new == Entry(reader[t].value)
  <2>1. reader[t].key \in Keys
    BY <1>0, <1>11 DEF SetEntry, LookupIsRecent
  <2>2. PICK k \in Keys : k = reader[t].key
    BY <2>1
  <2>3. /\ reader[t].at \in Nat /\ now \in Nat
        /\ reader[t].at <= now /\ now <= reader[t].at + Slow
        /\ ReadBy(k, reader[t].value, reader[t].at) /\ changed[k] \in Int
    BY <1>0, <1>11, <2>2 DEF SetEntry, LookupIsRecent, AccessTypeOK
  <2>4. /\ cache' = [cache EXCEPT ![k] = new] /\ reader' = [reader EXCEPT ![t] = Miss]
        /\ UNCHANGED <<table, edit, changed, now>>
    BY <1>11, <2>2 DEF SetEntry
  <2>5. new.at = now /\ new.value = reader[t].value
    BY DEF Entry
  <2> HIDE DEF new
  <2>6. /\ cache'[k] = new /\ \A q \in Keys \ {k} : cache'[q] = cache[q]
        /\ reader'[t] = Miss /\ \A u \in Readers \ {t} : reader'[u] = reader[u]
    BY <1>0, <2>3, <2>4 DEF AccessTypeOK
  <2>7. EntryIsKept(k)'
    <3>1. /\ new.value \in Values(k)
          /\ new.value \subseteq table[k] \/ now - Slow <= changed[k]
      BY <2>3, <2>5 DEF ReadBy
    <3> QED
      <4>1. cache'[k].at = now /\ cache'[k].value = new.value /\ now' = now /\ changed' = changed /\ table' = table
        BY <2>4, <2>5, <2>6
      <4>2. /\ cache'[k].at \in Nat /\ cache'[k].at <= now' /\ cache'[k].value \in Values(k)
            /\ cache'[k].value \subseteq table'[k] \/ cache'[k].at - Slow <= changed'[k]
        BY <2>3, <3>1, <4>1
      <4> QED
        BY <4>2 DEF EntryIsKept, ReadBy, Values
  <2>8. AccessTypeOK' /\ EditIsTyped'
    BY <1>0, <2>4 DEF AccessTypeOK, EditIsTyped, Values
  <2>9. \A u \in Readers : LookupIsRecent(u)'
    BY <2>4, <2>6, TablesStand DEF LookupIsRecent, Miss
  <2> QED
    <3>1. \A q \in Keys : EntryIsKept(q)' /\ changed'[q] <= now'
      BY <2>4, <2>6, <2>7, TablesStand
    <3> QED
      BY <2>8, <2>9, <3>1 DEF AccessInv
<1>12. CASE Wait
  <2>1. now \in Nat /\ now' = now + 1 /\ UNCHANGED <<table, cache, edit, reader, changed>>
    BY <1>0, <1>12 DEF Wait, AccessTypeOK
  <2>2. AccessTypeOK' /\ EditIsTyped'
    BY <1>0, <2>1 DEF AccessTypeOK, EditIsTyped, Values
  <2>3. ASSUME NEW k \in Keys PROVE changed'[k] <= now' /\ EntryIsKept(k)'
    <3>1. changed[k] \in Int /\ changed[k] <= now /\ EntryIsKept(k)
      BY <1>0 DEF AccessTypeOK
    <3>2. EntryIsKept(k)'
      BY <2>1, <3>1 DEF EntryIsKept, ReadBy, Values
    <3> QED
      BY <2>1, <3>1, <3>2
  <2>4. ASSUME NEW t \in Readers PROVE LookupIsRecent(t)'
    <3>1. reader[t] # Miss => now < reader[t].at + Slow
      BY <1>12 DEF Wait
    <3> QED
      <4>1. LookupIsRecent(t)
        BY <1>0
      <4>2. reader[t] # Miss => reader[t].at \in Nat /\ reader[t].at <= now' /\ now' <= reader[t].at + Slow
        BY <2>1, <3>1, <4>1 DEF LookupIsRecent
      <4> QED
        BY <2>1, <4>1, <4>2 DEF LookupIsRecent, ReadBy, Values
  <2> QED
    BY <2>2, <2>3, <2>4 DEF AccessInv
<1>13. CASE UNCHANGED accessVars
  BY <1>0, <1>13, EditGoesOn DEF accessVars, EditIsTyped, Values
<1> QED
  BY <1>2, <1>3, <1>4, <1>5, <1>6, <1>7, <1>8, <1>9, <1>10, <1>11, <1>12, <1>13
  DEF AccessNext, PatchRole, DeleteRole

\* RevocationTakesEffect for any users, roles, lookups and deaths: what the
\* cache grants in excess ends with the life of an entry and the time of a
\* lookup.
THEOREM RevocationHolds == AccessSpec => []RevocationTakesEffect
<1>1. AccessInv => RevocationTakesEffect
  <2> SUFFICES ASSUME AccessInv, NEW sub \in Subs, NEW codename \in Codenames,
                      HasPermission(sub, codename),
                      ~ \E r \in table[sub] : is_active[r] /\ codename \in table[r]
               PROVE  \E k \in {sub} \cup cache[sub].value : now - changed[k] < TTL + Slow
    BY DEF RevocationTakesEffect
  <2>1. PICK r \in cache[sub].value : is_active[r] /\ Hit(r) /\ codename \in cache[r].value
    BY DEF HasPermission, PermissionsFor
  <2>2. sub \in Keys /\ cache[sub].set /\ Hit(sub) /\ EntryIsKept(sub)
    BY DEF HasPermission, Hit, Keys, AccessInv
  <2>3. cache[sub].value \subseteq RoleNames
    BY <2>2 DEF EntryIsKept, ReadBy, Values
  <2>4. r \in Keys /\ EntryIsKept(r) /\ cache[r].set
    BY <2>1, <2>3 DEF Keys, Hit, AccessInv
  <2>5. ASSUME NEW k \in Keys, Hit(k), EntryIsKept(k), ~(cache[k].value \subseteq table[k])
        PROVE  now - changed[k] < TTL + Slow
    <3>1. changed[k] \in Int /\ now \in Int
      BY DEF AccessInv, AccessTypeOK
    <3> QED
      BY <2>5, <3>1 DEF Hit, EntryIsKept, ReadBy
  <2>6. CASE r \in table[sub]
    <3>1. ~(cache[r].value \subseteq table[r])
      BY <2>1, <2>6
    <3> QED
      BY <2>1, <2>4, <2>5, <3>1
  <2>7. CASE r \notin table[sub]
    <3>1. ~(cache[sub].value \subseteq table[sub])
      BY <2>1, <2>7
    <3> QED
      BY <2>2, <2>5, <3>1
  <2> QED
    BY <2>6, <2>7
<1> QED
  BY <1>1, AccessStart, AccessStep, PTL DEF AccessSpec

-----------------------------------------------------------------------------
(* Limits.                                                                 *)

USE LimitsAssumption

Step == {<<"handle">>} \cup ({"incr", "set", "act"} \X Kinds)

Counter == [value : Nat, ttl : Nat, lost : BOOLEAN]

LimitsTypeOK ==
  /\ counter \in [Kinds -> Counter]
  /\ flag \in [Kinds -> Nat]
  /\ caller \in [Callers -> [todo : Seq(Step), got : [Kinds -> Nat]]]

Counting(k) == {<<"incr", k>>, <<"set", k>>}

\* Who is going to count is going to act later, and counts once; a request that
\* is yet to be handled has nothing else left to do.
ActsAfterwards(q) ==
  /\ \A k \in Kinds, i \in DOMAIN q : q[i] \in Counting(k) =>
       /\ \E j \in DOMAIN q : j > i /\ q[j] = <<"act", k>>
       /\ \A j \in DOMAIN q : j > i => q[j] \notin Counting(k)
  /\ \A i, j \in DOMAIN q : q[i] = <<"handle">> => j = i

\* Nothing is left of an earlier count.
StartsFromZero(q, got) ==
  \A k \in Kinds, i \in DOMAIN q : q[i] \in Counting(k) \cup {<<"handle">>} => got[k] = 0

Orderly(r) == ActsAfterwards(caller[r].todo) /\ StartsFromZero(caller[r].todo, caller[r].got)

\* A counter at its threshold is covered until it is gone.
Covered(k) ==
  /\ counter[k].ttl <= Window[k]
  /\ counter[k].ttl > 0 /\ counter[k].value >= Limit[k] =>
       flag[k] >= counter[k].ttl \/ counter[k].lost \/ \E r \in Callers : Owes(r, k)

LimitsInv ==
  /\ LimitsTypeOK
  /\ \A r \in Callers : Orderly(r)
  /\ \A k \in Kinds : Covered(k)

LEMMA KindsDiffer ==
  \A k, j \in Kinds, a, b \in {"incr", "set", "act"} :
    /\ <<a, k>> = <<b, j>> => a = b /\ k = j
    /\ <<a, k>> # <<"handle">> /\ <<a, k>> \in Step
<1>1. ASSUME NEW k \in Kinds, NEW a \in {"incr", "set", "act"} PROVE <<a, k>> # <<"handle">>
  <2>1. Len(<<a, k>>) = 2 /\ Len(<<"handle">>) = 1
    OBVIOUS
  <2> QED
    BY <2>1
<1> QED
  BY <1>1 DEF Step

LEMMA OneAfterAnother ==
  ASSUME NEW q \in Seq(Step), q # <<>>
  PROVE  /\ Tail(q) \in Seq(Step) /\ Len(q) \in Nat \ {0} /\ Head(q) = q[1]
         /\ Len(Tail(q)) = Len(q) - 1 /\ DOMAIN q = 1 .. Len(q) /\ DOMAIN Tail(q) = 1 .. Len(q) - 1
         /\ \A i \in 1 .. Len(q) - 1 : i + 1 \in 1 .. Len(q) /\ Tail(q)[i] = q[i + 1]
         /\ \A i \in 2 .. Len(q) : i - 1 \in 1 .. Len(q) - 1 /\ Tail(q)[i - 1] = q[i]
<1>1. Tail(q) \in Seq(Step) /\ Len(q) \in Nat \ {0} /\ Head(q) = q[1] /\ Len(Tail(q)) = Len(q) - 1
  BY EmptySeq
<1>2. \A i \in 1 .. Len(q) - 1 : i + 1 \in 1 .. Len(q) /\ Tail(q)[i] = q[i + 1]
  BY <1>1
<1>3. DOMAIN q = 1 .. Len(q) /\ DOMAIN Tail(q) = 1 .. Len(q) - 1
  BY <1>1
<1>4. \A i \in 2 .. Len(q) : i - 1 \in 1 .. Len(q) - 1 /\ Tail(q)[i - 1] = q[i]
  BY <1>1, <1>2
<1> QED
  BY <1>1, <1>2, <1>3, <1>4

LEMMA TailIsOrderly ==
  ASSUME NEW q \in Seq(Step), q # <<>>, ActsAfterwards(q)
  PROVE  /\ ActsAfterwards(Tail(q))
         /\ \A got : StartsFromZero(q, got) => StartsFromZero(Tail(q), got)
<1>1. ASSUME NEW k \in Kinds, NEW i \in DOMAIN Tail(q), Tail(q)[i] \in Counting(k)
      PROVE  /\ \E j \in DOMAIN Tail(q) : j > i /\ Tail(q)[j] = <<"act", k>>
             /\ \A j \in DOMAIN Tail(q) : j > i => Tail(q)[j] \notin Counting(k)
  <2>1. i + 1 \in DOMAIN q /\ q[i + 1] = Tail(q)[i] /\ i \in Nat
    BY OneAfterAnother
  <2>2. PICK j \in DOMAIN q : j > i + 1 /\ q[j] = <<"act", k>>
    BY <1>1, <2>1 DEF ActsAfterwards
  <2>3. j - 1 \in DOMAIN Tail(q) /\ j - 1 > i /\ Tail(q)[j - 1] = <<"act", k>>
    <3>1. j \in 2 .. Len(q)
      BY <2>1, <2>2, OneAfterAnother
    <3> QED
      BY <2>1, <2>2, <3>1, OneAfterAnother
  <2>4. ASSUME NEW m \in DOMAIN Tail(q), m > i PROVE Tail(q)[m] \notin Counting(k)
    <3>1. m + 1 \in DOMAIN q /\ q[m + 1] = Tail(q)[m] /\ m \in Nat /\ m + 1 > i + 1
      BY <2>1, <2>4, OneAfterAnother
    <3> QED
      BY <1>1, <2>1, <3>1 DEF ActsAfterwards
  <2> QED
    BY <2>3, <2>4
<1>2. ASSUME NEW got, StartsFromZero(q, got) PROVE StartsFromZero(Tail(q), got)
  <2>1. ASSUME NEW i \in DOMAIN Tail(q) PROVE i + 1 \in DOMAIN q /\ q[i + 1] = Tail(q)[i]
    BY OneAfterAnother
  <2> QED
    BY <1>2, <2>1 DEF StartsFromZero
<1>3. ASSUME NEW i \in DOMAIN Tail(q), NEW j \in DOMAIN Tail(q), Tail(q)[i] = <<"handle">>
      PROVE  j = i
  <2>1. i + 1 \in DOMAIN q /\ j + 1 \in DOMAIN q /\ q[i + 1] = <<"handle">> /\ i \in Nat /\ j \in Nat
    BY <1>3, OneAfterAnother
  <2> QED
    BY <2>1 DEF ActsAfterwards
<1> QED
  BY <1>1, <1>2, <1>3 DEF ActsAfterwards

LEMMA WhatIsLeft ==
  /\ TurnedAway \in Seq(Step) /\ ActsAfterwards(TurnedAway)
  /\ Rejected \in Seq(Step) /\ ActsAfterwards(Rejected)
  /\ Denied \in Seq(Step) /\ ActsAfterwards(Denied)
  /\ <<>> \in Seq(Step) /\ ActsAfterwards(<<>>)
  /\ <<<<"handle">>>> \in Seq(Step) /\ ActsAfterwards(<<<<"handle">>>>)
<1>1. <<>> \in Seq(Step) /\ ActsAfterwards(<<>>)
  BY DEF ActsAfterwards
<1>2. <<<<"handle">>>> \in Seq(Step) /\ ActsAfterwards(<<<<"handle">>>>)
  <2>1. \A k \in Kinds : <<"handle">> \notin Counting(k)
    BY KindsDiffer DEF Counting
  <2> QED
    BY <2>1 DEF ActsAfterwards, Step
<1>3. TurnedAway \in Seq(Step) /\ ActsAfterwards(TurnedAway)
  BY KindsDiffer DEF TurnedAway, ActsAfterwards, Counting, Kinds
<1>4. Rejected \in Seq(Step) /\ ActsAfterwards(Rejected)
  BY KindsDiffer DEF Rejected, ActsAfterwards, Counting, Kinds
<1>5. Denied \in Seq(Step) /\ ActsAfterwards(Denied)
  BY KindsDiffer DEF Denied, Rejected, ActsAfterwards, Counting, Kinds
<1> QED
  BY <1>1, <1>2, <1>3, <1>4, <1>5

LEMMA LimitsStart == LimitsInit => LimitsInv
<1> SUFFICES ASSUME LimitsInit PROVE LimitsInv
  OBVIOUS
<1>1. LimitsTypeOK
  BY WhatIsLeft DEF LimitsInit, LimitsTypeOK, NoCounter, NobodyCalls, Counter
<1>2. ASSUME NEW r \in Callers PROVE Orderly(r)
  BY WhatIsLeft DEF LimitsInit, Orderly, NobodyCalls, StartsFromZero
<1>3. ASSUME NEW k \in Kinds PROVE Covered(k)
  BY DEF LimitsInit, Covered, NoCounter
<1> QED
  BY <1>1, <1>2, <1>3 DEF LimitsInv

\* What is written to one request.
LEMMA NewTodo ==
  ASSUME NEW r \in Callers, caller \in [Callers -> [todo : Seq(Step), got : [Kinds -> Nat]]], NEW todo
  PROVE  [caller EXCEPT ![r].todo = todo] = [caller EXCEPT ![r] = [todo |-> todo, got |-> caller[r].got]]
<1>1. caller[r] \in [todo : Seq(Step), got : [Kinds -> Nat]]
  OBVIOUS
<1>2. caller[r] = [todo |-> caller[r].todo, got |-> caller[r].got]
  BY <1>1
<1>3. \A x, y : [[todo |-> x, got |-> y] EXCEPT !.todo = todo] = [todo |-> todo, got |-> y]
  OBVIOUS
<1>4. [caller[r] EXCEPT !.todo = todo] = [todo |-> todo, got |-> caller[r].got]
  BY <1>2, <1>3, Zenon
<1> QED
  BY <1>4, Zenon

\* A step of one request that keeps what it owes, and the entries.
LEMMA CallerGoesOn ==
  ASSUME LimitsInv, NEW r \in Callers, NEW todo \in Seq(Step), NEW got \in [Kinds -> Nat],
         caller' = [caller EXCEPT ![r] = [todo |-> todo, got |-> got]],
         UNCHANGED <<counter, flag>>,
         ActsAfterwards(todo), StartsFromZero(todo, got),
         \A k \in Kinds : Owes(r, k) => Owes(r, k)'
  PROVE  LimitsInv'
<1>1. /\ caller'[r] = [todo |-> todo, got |-> got]
      /\ \A s \in Callers \ {r} : caller'[s] = caller[s]
  BY DEF LimitsInv, LimitsTypeOK
<1>2. LimitsTypeOK'
  BY DEF LimitsInv, LimitsTypeOK
<1>3. ASSUME NEW s \in Callers PROVE Orderly(s)'
  BY <1>1 DEF LimitsInv, Orderly
<1>4. ASSUME NEW s \in Callers, NEW k \in Kinds, Owes(s, k) PROVE Owes(s, k)'
  <2>1. CASE s = r
    BY <1>4, <2>1
  <2>2. CASE s # r
    <3>1. caller'[s] = caller[s]
      BY <1>1, <2>2
    <3> QED
      BY <1>4, <3>1 DEF Owes
  <2> QED
    BY <2>1, <2>2
<1>5. ASSUME NEW k \in Kinds PROVE Covered(k)'
  BY <1>4 DEF LimitsInv, Covered
<1> QED
  BY <1>2, <1>3, <1>5 DEF LimitsInv

\* The next step of a request is at the head of what is left.
LEMMA AtHead ==
  ASSUME LimitsInv, NEW r \in Callers, NEW step, NextStep(r, step)
  PROVE  /\ caller[r].todo \in Seq(Step) /\ caller[r].todo # <<>> /\ caller[r].todo[1] = step
         /\ caller[r].got \in [Kinds -> Nat]
         /\ 1 \in DOMAIN caller[r].todo
         /\ caller[r] = [todo |-> caller[r].todo, got |-> caller[r].got]
         /\ Orderly(r)
<1>1. caller[r] \in [todo : Seq(Step), got : [Kinds -> Nat]] /\ Orderly(r)
  BY DEF LimitsInv, LimitsTypeOK
<1>2. caller[r].todo \in Seq(Step) /\ caller[r].todo # <<>> /\ Head(caller[r].todo) = step
  BY <1>1 DEF NextStep
<1> QED
  BY <1>1, <1>2, OneAfterAnother

LEMMA LimitsStep == LimitsInv /\ [LimitsNext]_limitVars => LimitsInv'
<1> SUFFICES ASSUME LimitsInv, [LimitsNext]_limitVars PROVE LimitsInv'
  OBVIOUS
<1>0. /\ LimitsTypeOK
      /\ \A r \in Callers : Orderly(r)
      /\ \A k \in Kinds : Covered(k)
      /\ \A r \in Callers : caller[r] \in [todo : Seq(Step), got : [Kinds -> Nat]]
      /\ \A k \in Kinds : counter[k] \in Counter
  BY DEF LimitsInv, LimitsTypeOK
<1>1. ASSUME NEW r \in Callers, Arrive(r) PROVE LimitsInv'
  <2>1. /\ caller[r].todo = <<>> /\ caller[r].got \in [Kinds -> Nat]
        /\ \A k \in Kinds : caller[r].got[k] = 0
    BY <1>0, <1>1 DEF Arrive, NobodyCalls
  <2>2. PICK todo \in {TurnedAway, <<<<"handle">>>>} : caller' = [caller EXCEPT ![r].todo = todo]
    BY <1>1 DEF Arrive
  <2>3. caller' = [caller EXCEPT ![r] = [todo |-> todo, got |-> caller[r].got]]
    BY <1>0, <2>2, NewTodo DEF LimitsTypeOK
  <2>4. todo \in Seq(Step) /\ ActsAfterwards(todo) /\ StartsFromZero(todo, caller[r].got)
    BY <2>1, <2>2, WhatIsLeft DEF StartsFromZero
  <2>5. \A k \in Kinds : ~Owes(r, k)
    BY <2>1 DEF Owes
  <2> QED
    BY <1>1, <2>1, <2>3, <2>4, <2>5, CallerGoesOn DEF Arrive
<1>2. ASSUME NEW r \in Callers, Handle(r) PROVE LimitsInv'
  <2>1. NextStep(r, <<"handle">>) /\ UNCHANGED <<counter, flag>>
    BY <1>2 DEF Handle
  <2>2. PICK todo \in {<<>>, Rejected, Denied} : caller' = [caller EXCEPT ![r].todo = todo]
    BY <1>2 DEF Handle
  <2>3. caller' = [caller EXCEPT ![r] = [todo |-> todo, got |-> caller[r].got]]
    BY <1>0, <2>2, NewTodo DEF LimitsTypeOK
  <2>4. \A k \in Kinds : caller[r].got[k] = 0
    <3>1. caller[r].todo[1] = <<"handle">> /\ 1 \in DOMAIN caller[r].todo /\ Orderly(r)
      BY <2>1, AtHead
    <3> QED
      BY <3>1 DEF Orderly, StartsFromZero
  <2>5. todo \in Seq(Step) /\ ActsAfterwards(todo) /\ StartsFromZero(todo, caller[r].got)
    BY <2>2, <2>4, WhatIsLeft DEF StartsFromZero
  <2>6. \A k \in Kinds : ~Owes(r, k)
    BY <2>4 DEF Owes
  <2> QED
    BY <1>0, <2>1, <2>3, <2>5, <2>6, CallerGoesOn, AtHead
<1>3. ASSUME NEW r \in Callers, NEW k \in Kinds, IncrNone(r, k) PROVE LimitsInv'
  <2> DEFINE q    == caller[r].todo
             todo == <<<<"set", k>>>> \o Tail(q)
  <2>1. NextStep(r, <<"incr", k>>) /\ UNCHANGED <<counter, flag>>
    BY <1>3 DEF IncrNone
  <2>2. q \in Seq(Step) /\ q # <<>> /\ q[1] = <<"incr", k>> /\ Orderly(r) /\ caller[r].got \in [Kinds -> Nat]
    BY <2>1, AtHead
  <2>3. /\ todo \in Seq(Step) /\ DOMAIN todo = DOMAIN q /\ todo[1] = <<"set", k>>
        /\ \A i \in DOMAIN q : i # 1 => todo[i] = q[i]
    <3>1. <<"set", k>> \in Step
      BY DEF Step
    <3> HIDE DEF q
    <3>2. Tail(q) \in Seq(Step) /\ Len(Tail(q)) = Len(q) - 1 /\ Len(q) \in Nat \ {0} /\ DOMAIN q = 1 .. Len(q)
      BY <2>2, OneAfterAnother
    <3>3. /\ <<<<"set", k>>>> \o Tail(q) \in Seq(Step) /\ Len(<<<<"set", k>>>> \o Tail(q)) = Len(q)
          /\ (<<<<"set", k>>>> \o Tail(q))[1] = <<"set", k>>
          /\ \A i \in 2 .. Len(q) : (<<<<"set", k>>>> \o Tail(q))[i] = Tail(q)[i - 1]
      BY <3>1, <3>2
    <3> QED
      BY <2>2, <3>2, <3>3, OneAfterAnother
  <2>4. caller' = [caller EXCEPT ![r] = [todo |-> todo, got |-> caller[r].got]]
    BY <1>0, <1>3, NewTodo DEF IncrNone, LimitsTypeOK
  <2>5. \A i \in DOMAIN q, j \in Kinds : todo[i] \in Counting(j) \cup {<<"handle">>} =>
          q[i] \in Counting(j) \cup {<<"handle">>}
    BY <2>2, <2>3, KindsDiffer DEF Counting
  <2>6. \A i \in DOMAIN q, j \in Kinds : /\ todo[i] \in Counting(j) <=> q[i] \in Counting(j)
                                         /\ todo[i] = <<"act", j>> <=> q[i] = <<"act", j>>
    BY <2>2, <2>3, KindsDiffer DEF Counting
  <2> HIDE DEF q, todo
  <2>7. ActsAfterwards(todo) /\ StartsFromZero(todo, caller[r].got)
    <3>1. ActsAfterwards(q) /\ StartsFromZero(q, caller[r].got)
      BY <2>2 DEF Orderly, q
    <3>2. ASSUME NEW i \in DOMAIN todo, NEW j \in DOMAIN todo, todo[i] = <<"handle">> PROVE j = i
      <4>1. i # 1
        BY <2>3, <3>2, KindsDiffer
      <4> QED
        BY <2>3, <3>1, <3>2, <4>1 DEF ActsAfterwards
    <3>3. ActsAfterwards(todo)
      BY <2>3, <2>6, <3>1, <3>2 DEF ActsAfterwards
    <3> QED
      BY <2>3, <2>5, <3>1, <3>3 DEF StartsFromZero
  <2>8. ASSUME NEW j \in Kinds, Owes(r, j) PROVE Owes(r, j)'
    <3>1. caller'[r] = [todo |-> todo, got |-> caller[r].got]
      BY <1>0, <2>4 DEF LimitsTypeOK
    <3> QED
      <4>1. PICK i \in DOMAIN q : q[i] = <<"act", j>>
        BY <2>8 DEF Owes, q
      <4>2. i \in DOMAIN todo /\ todo[i] = <<"act", j>>
        BY <2>3, <2>6, <4>1
      <4>3. caller'[r].todo = todo /\ caller'[r].got = caller[r].got
        BY <3>1
      <4> QED
        BY <2>8, <4>2, <4>3 DEF Owes
  <2> QED
    BY <2>1, <2>2, <2>3, <2>4, <2>7, <2>8, CallerGoesOn
\* Counting, with or without an entry.
<1>4. ASSUME NEW r \in Callers, NEW k \in Kinds, NEW step \in {"incr", "set"}, NextStep(r, <<step, k>>),
             NEW value \in Nat, NEW entry \in Counter,
             entry.value = value, entry.ttl <= Window[k],
             entry.value > Limit[k] => entry.ttl = counter[k].ttl /\ entry.lost = counter[k].lost
                                       /\ counter[k].value >= Limit[k],
             counter' = [counter EXCEPT ![k] = entry],
             caller' = [caller EXCEPT ![r].todo = Tail(@), ![r].got[k] = value],
             UNCHANGED flag
      PROVE  LimitsInv'
  <2> DEFINE q   == caller[r].todo
             got == [caller[r].got EXCEPT ![k] = value]
  <2>1. /\ q \in Seq(Step) /\ q # <<>> /\ q[1] \in Counting(k) /\ 1 \in DOMAIN q /\ Orderly(r)
        /\ caller[r].got \in [Kinds -> Nat]
    BY <1>4, AtHead DEF Counting
  <2>2. caller' = [caller EXCEPT ![r] = [todo |-> Tail(q), got |-> got]]
    <3>1. Tail(q) \in Seq(Step)
      BY <2>1, OneAfterAnother
    <3>2. caller[r] \in [todo : Seq(Step), got : [Kinds -> Nat]]
      BY <1>0
    <3> DEFINE new == [caller[r] EXCEPT !.todo = Tail(q), !.got[k] = value]
    <3>3. new.todo = Tail(q) /\ new.got = got
      BY <3>2
    <3>4. new \in [todo : Seq(Step), got : [Kinds -> Nat]]
      BY <3>1, <3>2
    <3>5. caller' = [caller EXCEPT ![r] = new]
      BY <1>4
    <3> HIDE DEF new, got, q
    <3>6. new = [todo |-> new.todo, got |-> new.got]
      BY <3>4
    <3> QED
      BY <3>3, <3>5, <3>6
  <2>3. got \in [Kinds -> Nat] /\ got[k] = value /\ \A j \in Kinds \ {k} : got[j] = caller[r].got[j]
    BY <2>1
  <2> HIDE DEF got, q
  <2>4. /\ caller'[r] = [todo |-> Tail(q), got |-> got]
        /\ \A s \in Callers \ {r} : caller'[s] = caller[s]
        /\ counter'[k] = entry /\ \A j \in Kinds \ {k} : counter'[j] = counter[j]
    BY <1>0, <1>4, <2>2 DEF LimitsTypeOK
  <2>5. Tail(q) \in Seq(Step) /\ ActsAfterwards(Tail(q)) /\ StartsFromZero(Tail(q), caller[r].got)
    BY <2>1, OneAfterAnother, TailIsOrderly DEF Orderly, q
  <2>6. ASSUME NEW i \in DOMAIN Tail(q) PROVE Tail(q)[i] \notin Counting(k) \cup {<<"handle">>}
    <3>1. i + 1 \in DOMAIN q /\ i + 1 > 1 /\ Tail(q)[i] = q[i + 1]
      BY <2>1, OneAfterAnother
    <3>2. Tail(q)[i] \notin Counting(k)
      BY <2>1, <3>1 DEF Orderly, ActsAfterwards, q
    <3>3. Tail(q)[i] # <<"handle">>
      BY <2>1, <3>1 DEF Orderly, ActsAfterwards, q
    <3> QED
      BY <3>2, <3>3
  <2>7. StartsFromZero(Tail(q), got)
    BY <2>3, <2>5, <2>6 DEF StartsFromZero
  <2>8. LimitsTypeOK'
    <3>1. counter' \in [Kinds -> Counter] /\ flag' \in [Kinds -> Nat]
      BY <1>0, <1>4 DEF LimitsTypeOK
    <3>2. caller' \in [Callers -> [todo : Seq(Step), got : [Kinds -> Nat]]]
      BY <1>0, <2>2, <2>3, <2>5 DEF LimitsTypeOK
    <3> QED
      BY <3>1, <3>2 DEF LimitsTypeOK
  <2>9. ASSUME NEW s \in Callers PROVE Orderly(s)'
    <3>1. CASE s = r
      <4>1. caller'[r].todo = Tail(q) /\ caller'[r].got = got
        BY <2>4
      <4> QED
        BY <2>5, <2>7, <3>1, <4>1 DEF Orderly
    <3>2. CASE s # r
      BY <1>0, <2>4, <3>2 DEF Orderly
    <3> QED
      BY <3>1, <3>2
  <2>10. \E i \in DOMAIN Tail(q) : Tail(q)[i] = <<"act", k>>
    <3>1. PICK i \in DOMAIN q : i > 1 /\ q[i] = <<"act", k>>
      BY <2>1 DEF Orderly, ActsAfterwards, q
    <3>2. i \in 2 .. Len(q)
      BY <2>1, <3>1, OneAfterAnother
    <3> QED
      BY <2>1, <3>1, <3>2, OneAfterAnother
  <2>11. value = Limit[k] => Owes(r, k)'
    BY <2>3, <2>4, <2>10 DEF Owes
  <2>12. ASSUME NEW s \in Callers, NEW j \in Kinds, s # r \/ j # k, Owes(s, j) PROVE Owes(s, j)'
    <3>1. CASE s # r
      BY <2>4, <2>12, <3>1 DEF Owes
    <3>2. CASE s = r
      <4>1. PICK i \in DOMAIN q : q[i] = <<"act", j>>
        BY <2>12, <3>2 DEF Owes, q
      <4>2. i # 1
        BY <2>1, <4>1, KindsDiffer DEF Counting
      <4>3. i \in 2 .. Len(q)
        BY <2>1, <4>1, <4>2, OneAfterAnother
      <4>4. i - 1 \in DOMAIN Tail(q) /\ Tail(q)[i - 1] = <<"act", j>>
        BY <2>1, <4>1, <4>3, OneAfterAnother
      <4> QED
        <5>1. caller'[r].todo = Tail(q) /\ caller'[r].got[j] = caller[r].got[j]
          BY <2>3, <2>4, <2>12, <3>2
        <5> QED
          BY <2>12, <3>2, <4>4, <5>1 DEF Owes
    <3> QED
      BY <3>1, <3>2
  <2>13. ~Owes(r, k)
    <3>1. caller[r].got[k] = 0
      BY <2>1 DEF Orderly, StartsFromZero, q
    <3> QED
      BY <3>1 DEF Owes
  <2>14. ASSUME NEW j \in Kinds PROVE Covered(j)'
    <3>1. CASE j = k
      <4>1. CASE entry.value = Limit[k]
        BY <1>4, <2>4, <2>11, <3>1, <4>1 DEF Covered
      <4>2. CASE entry.value > Limit[k]
        BY <1>0, <1>4, <2>4, <2>12, <2>13, <3>1, <4>2 DEF Covered
      <4>3. CASE entry.value < Limit[k]
        BY <1>4, <2>4, <3>1, <4>3 DEF Covered
      <4>4. Limit[k] \in Nat
        OBVIOUS
      <4> QED
        BY <1>4, <4>1, <4>2, <4>3, <4>4
    <3>2. CASE j # k
      BY <1>0, <1>4, <2>4, <2>12, <3>2 DEF Covered
    <3> QED
      BY <3>1, <3>2
  <2> QED
    BY <2>8, <2>9, <2>14 DEF LimitsInv
<1>5. ASSUME NEW r \in Callers, NEW k \in Kinds, Incr(r, k) PROVE LimitsInv'
  <2> DEFINE entry == [counter[k] EXCEPT !.value = @ + 1]
  <2>1. /\ entry \in Counter /\ entry.value = counter[k].value + 1
        /\ entry.ttl = counter[k].ttl /\ entry.lost = counter[k].lost
        /\ counter[k].value \in Nat /\ counter[k].ttl <= Window[k]
    <3>1. counter[k] \in Counter
      BY <1>0
    <3>2. entry \in Counter /\ entry.value = counter[k].value + 1
          /\ entry.ttl = counter[k].ttl /\ entry.lost = counter[k].lost
      BY <3>1 DEF Counter
    <3>3. counter[k].value \in Nat
      BY <3>1 DEF Counter
    <3> QED
      BY <1>0, <3>2, <3>3 DEF Covered
  <2>2. counter' = [counter EXCEPT ![k] = entry]
    BY <1>5 DEF Incr
  <2> HIDE DEF entry
  <2>3. caller' = [caller EXCEPT ![r].todo = Tail(@), ![r].got[k] = counter[k].value + 1]
    BY <1>5 DEF Incr
  <2>4. entry.value > Limit[k] => counter[k].value >= Limit[k]
    BY <2>1
  <2>5. NextStep(r, <<"incr", k>>) /\ UNCHANGED flag /\ counter[k].value + 1 \in Nat
    BY <1>5, <2>1 DEF Incr
  <2> QED
    BY <1>4, <2>1, <2>2, <2>3, <2>4, <2>5
<1>6. ASSUME NEW r \in Callers, NEW k \in Kinds, SetOne(r, k) PROVE LimitsInv'
  <2> DEFINE entry == [value |-> 1, ttl |-> Window[k], lost |-> FALSE]
  <2>1. entry \in Counter /\ entry.value = 1 /\ entry.ttl = Window[k] /\ ~(1 > Limit[k])
    BY DEF Counter
  <2>2. counter' = [counter EXCEPT ![k] = entry]
    BY <1>6 DEF SetOne
  <2> HIDE DEF entry
  <2>3. caller' = [caller EXCEPT ![r].todo = Tail(@), ![r].got[k] = 1]
    BY <1>6 DEF SetOne
  <2>4. NextStep(r, <<"set", k>>) /\ UNCHANGED flag
    BY <1>6 DEF SetOne
  <2>5. entry.value > Limit[k] => FALSE
    BY <2>1
  <2>6. entry.ttl <= Window[k]
    BY <2>1
  <2> QED
    BY <1>4, <2>1, <2>2, <2>3, <2>4, <2>5, <2>6
<1>7. ASSUME NEW r \in Callers, NEW k \in Kinds, Act(r, k) PROVE LimitsInv'
  <2> DEFINE q == caller[r].todo
             full == [todo |-> Tail(q), got |-> [caller[r].got EXCEPT ![k] = 0]]
  <2>1. /\ q \in Seq(Step) /\ q # <<>> /\ q[1] = <<"act", k>> /\ 1 \in DOMAIN q /\ Orderly(r)
        /\ caller[r].got \in [Kinds -> Nat]
    BY <1>7, AtHead DEF Act
  <2>2. PICK new \in {full, NobodyCalls} :
           /\ caller' = [caller EXCEPT ![r] = new]
           /\ new = IF Len(q) = 1 THEN NobodyCalls ELSE full
    BY <1>7 DEF Act
  <2> HIDE DEF q
  <2>3. /\ Tail(q) \in Seq(Step) /\ ActsAfterwards(Tail(q)) /\ StartsFromZero(Tail(q), caller[r].got)
    BY <2>1, OneAfterAnother, TailIsOrderly DEF Orderly, q
  <2>4. /\ full.todo = Tail(q) /\ full.got \in [Kinds -> Nat] /\ full.got[k] = 0
        /\ \A j \in Kinds \ {k} : full.got[j] = caller[r].got[j]
        /\ full \in [todo : Seq(Step), got : [Kinds -> Nat]]
    BY <2>1, <2>3
  <2>5. /\ NobodyCalls.todo = <<>> /\ NobodyCalls \in [todo : Seq(Step), got : [Kinds -> Nat]]
        /\ DOMAIN NobodyCalls.todo = {}
    BY DEF NobodyCalls
  <2>6. /\ new \in [todo : Seq(Step), got : [Kinds -> Nat]]
        /\ ActsAfterwards(new.todo) /\ StartsFromZero(new.todo, new.got)
    <3>1. ActsAfterwards(full.todo) /\ StartsFromZero(full.todo, full.got)
      <4> HIDE DEF full
      <4> QED
        BY <2>3, <2>4 DEF StartsFromZero
    <3>2. ActsAfterwards(NobodyCalls.todo) /\ StartsFromZero(NobodyCalls.todo, NobodyCalls.got)
      BY <2>5, WhatIsLeft DEF StartsFromZero
    <3> QED
      BY <2>2, <2>4, <2>5, <3>1, <3>2
  <2>7. caller'[r] = new /\ \A s \in Callers \ {r} : caller'[s] = caller[s]
    BY <1>0, <2>2 DEF LimitsTypeOK
  <2>8. ASSUME NEW j \in Kinds, j # k, Owes(r, j) PROVE Owes(r, j)'
    <3>1. PICK i \in DOMAIN q : q[i] = <<"act", j>>
      BY <2>8 DEF Owes, q
    <3>2. i # 1
      BY <2>1, <2>8, <3>1, KindsDiffer
    <3>3. i \in 2 .. Len(q) /\ Len(q) # 1
      BY <2>1, <3>1, <3>2, OneAfterAnother
    <3>4. i - 1 \in DOMAIN Tail(q) /\ Tail(q)[i - 1] = <<"act", j>>
      BY <2>1, <3>1, <3>3, OneAfterAnother
    <3>5. caller'[r].todo = Tail(q) /\ caller'[r].got[j] = caller[r].got[j]
      BY <2>2, <2>4, <2>7, <2>8, <3>3
    <3> QED
      BY <2>8, <3>4, <3>5 DEF Owes
  <2> HIDE DEF full
  <2>9. /\ flag' \in [Kinds -> Nat]
        /\ \A j \in Kinds \ {k} : flag'[j] = flag[j]
        /\ caller[r].got[k] = Limit[k] => flag'[k] = Window[k]
        /\ flag'[k] = flag[k] \/ flag'[k] = Window[k]
    BY <1>0, <1>7 DEF Act, Count, LimitsTypeOK
  <2>10. UNCHANGED counter
    BY <1>7 DEF Act
  <2>11. LimitsTypeOK'
    BY <1>0, <2>2, <2>6, <2>9, <2>10 DEF LimitsTypeOK
  <2>12. ASSUME NEW s \in Callers PROVE Orderly(s)'
    BY <1>0, <2>6, <2>7 DEF Orderly
  <2>13. \A s \in Callers, j \in Kinds : Owes(s, j) => Owes(s, j)' \/ (s = r /\ j = k)
    BY <2>7, <2>8 DEF Owes
  <2>14. ASSUME NEW j \in Kinds PROVE Covered(j)'
    <3>1. CASE j # k
      BY <1>0, <2>9, <2>10, <2>13, <3>1 DEF Covered
    <3>2. CASE j = k /\ flag'[k] = Window[k]
      BY <1>0, <2>10, <3>2 DEF Covered, Counter
    <3>3. CASE j = k /\ flag'[k] = flag[k] /\ caller[r].got[k] # Limit[k]
      <4>1. ~Owes(r, k)
        BY <3>3 DEF Owes
      <4> QED
        BY <1>0, <2>10, <2>13, <3>3, <4>1 DEF Covered
    <3> QED
      BY <2>9, <3>1, <3>2, <3>3
  <2> QED
    BY <2>11, <2>12, <2>14 DEF LimitsInv
<1>8. ASSUME NEW r \in Callers, DieCounting(r) PROVE LimitsInv'
  <2>1. caller'[r] = NobodyCalls /\ \A s \in Callers \ {r} : caller'[s] = caller[s]
    BY <1>0, <1>8 DEF DieCounting, LimitsTypeOK
  <2>2. /\ NobodyCalls \in [todo : Seq(Step), got : [Kinds -> Nat]]
        /\ ActsAfterwards(NobodyCalls.todo) /\ StartsFromZero(NobodyCalls.todo, NobodyCalls.got)
    BY WhatIsLeft DEF NobodyCalls, StartsFromZero
  <2>3. ASSUME NEW k \in Kinds
        PROVE  /\ counter'[k] \in Counter /\ counter'[k].value = counter[k].value
               /\ counter'[k].ttl = counter[k].ttl
               /\ counter[k].lost \/ Owes(r, k) => counter'[k].lost
    <3>1. counter'[k] = [counter[k] EXCEPT !.lost = @ \/ Owes(r, k)]
      BY <1>8 DEF DieCounting
    <3>2. (counter[k].lost \/ Owes(r, k)) \in BOOLEAN
      BY <1>0 DEF Counter
    <3> QED
      BY <1>0, <3>1, <3>2 DEF Counter
  <2>4. LimitsTypeOK'
    <3>1. counter' = [k \in Kinds |-> counter'[k]]
      BY <1>8 DEF DieCounting
    <3>2. counter' \in [Kinds -> Counter]
      BY <2>3, <3>1
    <3> QED
      BY <1>0, <1>8, <2>2, <3>2 DEF DieCounting, LimitsTypeOK
  <2>5. ASSUME NEW s \in Callers PROVE Orderly(s)'
    BY <1>0, <2>1, <2>2 DEF Orderly
  <2>6. ASSUME NEW k \in Kinds PROVE Covered(k)'
    <3>1. \A s \in Callers : Owes(s, k) => Owes(s, k)' \/ counter'[k].lost
      BY <2>1, <2>3 DEF Owes
    <3>2. UNCHANGED flag
      BY <1>8 DEF DieCounting
    <3> QED
      BY <1>0, <2>3, <3>1, <3>2 DEF Covered
  <2> QED
    BY <2>4, <2>5, <2>6 DEF LimitsInv
<1>9. CASE Pass
  <2>1. NoCounter \in Counter /\ NoCounter.ttl = 0
    BY DEF NoCounter, Counter
  <2>2. ASSUME NEW k \in Kinds
        PROVE  /\ counter'[k] \in Counter
               /\ \/ counter'[k].ttl = 0
                  \/ /\ counter'[k].value = counter[k].value /\ counter'[k].lost = counter[k].lost
                     /\ counter'[k].ttl = counter[k].ttl - 1 /\ counter[k].ttl > 1
    <3>1. counter[k] \in Counter
      BY <1>0
    <3>2. CASE counter[k].ttl <= 1
      BY <1>9, <2>1, <3>2 DEF Pass
    <3>3. CASE ~(counter[k].ttl <= 1)
      <4>1. counter'[k] = [counter[k] EXCEPT !.ttl = @ - 1]
        BY <1>9, <3>3 DEF Pass
      <4>2. counter[k].ttl \in Nat /\ counter[k].ttl > 1
        BY <3>1, <3>3 DEF Counter
      <4> QED
        BY <3>1, <4>1, <4>2 DEF Counter
    <3> QED
      BY <3>2, <3>3
  <2>3. ASSUME NEW k \in Kinds
        PROVE  /\ flag[k] \in Nat /\ flag'[k] \in Nat
               /\ flag[k] > 0 => flag'[k] = flag[k] - 1
    BY <1>0, <1>9 DEF Pass, LimitsTypeOK
  <2>4. UNCHANGED caller
    BY <1>9 DEF Pass
  <2>5. LimitsTypeOK'
    <3>1. counter' = [k \in Kinds |-> counter'[k]] /\ flag' = [k \in Kinds |-> flag'[k]]
      BY <1>9 DEF Pass
    <3>2. counter' \in [Kinds -> Counter] /\ flag' \in [Kinds -> Nat]
      BY <2>2, <2>3, <3>1
    <3> QED
      BY <1>0, <2>4, <3>2 DEF LimitsTypeOK
  <2>6. ASSUME NEW k \in Kinds PROVE Covered(k)'
    <3>1. counter[k].ttl \in Nat /\ Window[k] \in Nat /\ counter[k].ttl <= Window[k]
      BY <1>0 DEF Counter, Covered
    <3>2. (\E r \in Callers : Owes(r, k)) => \E r \in Callers : Owes(r, k)'
      BY <2>4 DEF Owes
    <3> QED
      BY <1>0, <2>2, <2>3, <3>1, <3>2 DEF Covered
  <2> QED
    BY <1>0, <2>4, <2>5, <2>6 DEF LimitsInv, Orderly
<1>10. CASE UNCHANGED limitVars
  BY <1>0, <1>10 DEF limitVars, LimitsInv, LimitsTypeOK, Orderly, Covered, Owes
<1> QED
  BY <1>1, <1>2, <1>3, <1>5, <1>6, <1>7, <1>8, <1>9, <1>10 DEF LimitsNext

\* LimitApplies for any thresholds, windows and requests at a time: no threshold
\* is stepped over, and no limit ends before its counter.
THEOREM LimitHolds == LimitsSpec => []LimitApplies
<1>1. LimitsInv => LimitApplies
  <2> SUFFICES ASSUME LimitsInv, NEW k \in Kinds, Live(k), counter[k].value >= Limit[k]
               PROVE  Limited(k) \/ counter[k].lost \/ \E r \in Callers : Owes(r, k)
    BY DEF LimitApplies
  <2>1. counter[k].ttl \in Nat /\ counter[k].ttl > 0 /\ flag[k] \in Nat /\ Covered(k)
    BY DEF LimitsInv, LimitsTypeOK, Counter, Live
  <2> QED
    BY <2>1 DEF Covered, Limited
<1> QED
  BY <1>1, LimitsStart, LimitsStep, PTL DEF LimitsSpec

-----------------------------------------------------------------------------
(* SigningKeys.                                                            *)

USE SigningKeysAssumption

\* A request and what it has fetched.
Request == [pc : {"look", "fetch", "store", "drop", "found", "refused"}, kid : Kids,
            again : BOOLEAN, keys : SUBSET Kids, at : Nat, mayhave : BOOLEAN]

SigningKeysTypeOK ==
  /\ published \subseteq Kids
  /\ retired \in [Kids -> Nat \cup {-1}]
  /\ jwks \in [keys : SUBSET Kids, at : Int]
  /\ verifier \in [Verifiers -> Request \cup {NoRequest}]
  /\ keyTime \in Nat

\* Keys that were read at a time: one that is gone went later.
ReadAt(keys, time) == \A kid \in keys \ published : retired[kid] >= time

\* A key in the entry is one of the realm, or went when the answer was on its way.
EntryIsRecent ==
  /\ jwks.at <= keyTime
  /\ \A kid \in jwks.keys \ published : jwks.at <= retired[kid] + FetchTime

\* What a request has found out, against the realm and the entry.
RequestIsRecent(v) ==
  LET request == verifier[v] IN
  request # NoRequest =>
    /\ request.at <= keyTime
    /\ request.mayhave => request.kid \in published
    /\ request.pc = "store" =>
         /\ ReadAt(request.keys, request.at) /\ keyTime <= request.at + FetchTime
         /\ request.mayhave => request.kid \in request.keys
    /\ BetweenLooks(v) /\ Cached /\ request.mayhave => request.kid \in jwks.keys
    /\ request.pc = "refused" => ~request.mayhave
    /\ request.pc = "found" /\ request.kid \notin published =>
         request.at < retired[request.kid] + KeyLife + FetchTime

SigningKeysInv ==
  /\ SigningKeysTypeOK /\ EntryIsRecent
  /\ \A v \in Verifiers : RequestIsRecent(v)

LEMMA NoRequestIsNone == NoRequest \notin Request /\ NoRequest.pc = "none"
BY DEF NoRequest, Request

LEMMA SearchedValue ==
  ASSUME SigningKeysTypeOK, NEW v \in Verifiers, verifier[v] # NoRequest, NEW keys \in SUBSET Kids
  PROVE  /\ Searched(v, keys) \in Request
         /\ Searched(v, keys).kid = verifier[v].kid
         /\ Searched(v, keys).mayhave = verifier[v].mayhave
         /\ Searched(v, keys).at = keyTime
         /\ Searched(v, keys).pc \in {"found", "refused", "drop"}
         /\ Searched(v, keys).pc = "found" <=> verifier[v].kid \in keys
         /\ Searched(v, keys).pc = "refused" => verifier[v].again
BY NoRequestIsNone DEF Searched, SigningKeysTypeOK, Request

LEMMA SigningKeysStart == SigningKeysInit => SigningKeysInv
BY NoRequestIsNone DEF SigningKeysInit, SigningKeysInv, SigningKeysTypeOK, EntryIsRecent,
  RequestIsRecent, NoJwks

\* A step of one request that leaves the realm and the entry alone.
LEMMA OneRequest ==
  ASSUME SigningKeysInv, NEW v \in Verifiers, NEW request \in Request \cup {NoRequest},
         UNCHANGED <<published, retired, jwks, keyTime>>,
         verifier' = [verifier EXCEPT ![v] = request], RequestIsRecent(v)'
  PROVE  SigningKeysInv'
<1>1. verifier'[v] = request /\ \A w \in Verifiers \ {v} : verifier'[w] = verifier[w]
  BY DEF SigningKeysInv, SigningKeysTypeOK
<1>2. SigningKeysTypeOK' /\ EntryIsRecent'
  BY DEF SigningKeysInv, SigningKeysTypeOK, EntryIsRecent
<1>3. ASSUME NEW w \in Verifiers \ {v} PROVE RequestIsRecent(w)'
  BY <1>1, <1>3 DEF SigningKeysInv, RequestIsRecent, ReadAt, BetweenLooks, Cached
<1> QED
  BY <1>2, <1>3 DEF SigningKeysInv

LEMMA SigningKeysStep == SigningKeysInv /\ [SigningKeysNext]_keyVars => SigningKeysInv'
<1> SUFFICES ASSUME SigningKeysInv, [SigningKeysNext]_keyVars PROVE SigningKeysInv'
  OBVIOUS
<1>0. /\ SigningKeysTypeOK /\ EntryIsRecent
      /\ \A v \in Verifiers : RequestIsRecent(v)
      /\ \A v \in Verifiers : verifier[v] # NoRequest => verifier[v] \in Request
      /\ \A v \in Verifiers : verifier[v].pc # "none" => verifier[v] # NoRequest
  BY NoRequestIsNone DEF SigningKeysInv, SigningKeysTypeOK
<1>1. ASSUME NEW kid \in Kids, PublishKey(kid) PROVE SigningKeysInv'
  <2>1. SigningKeysTypeOK' /\ EntryIsRecent'
    BY <1>0, <1>1 DEF PublishKey, SigningKeysTypeOK, EntryIsRecent
  <2>2. ASSUME NEW v \in Verifiers PROVE RequestIsRecent(v)'
    BY <1>0, <1>1 DEF PublishKey, RequestIsRecent, ReadAt, BetweenLooks, Cached
  <2> QED
    BY <2>1, <2>2 DEF SigningKeysInv
<1>2. ASSUME NEW kid \in Kids, WithdrawKey(kid) PROVE SigningKeysInv'
  <2>1. /\ retired'[kid] = keyTime /\ \A k \in Kids \ {kid} : retired'[k] = retired[k]
        /\ published' = published \ {kid} /\ UNCHANGED <<jwks, keyTime>>
    BY <1>0, <1>2 DEF WithdrawKey, SigningKeysTypeOK
  <2>2. ASSUME NEW v \in Verifiers
        PROVE  \/ verifier'[v] = verifier[v] /\ (verifier[v] = NoRequest \/ verifier[v].kid # kid)
               \/ /\ verifier[v] # NoRequest /\ verifier[v].kid = kid
                  /\ verifier'[v] = [verifier[v] EXCEPT !.mayhave = FALSE]
    BY <1>2 DEF WithdrawKey
  <2>3. SigningKeysTypeOK'
    <3>1. ASSUME NEW v \in Verifiers PROVE verifier'[v] \in Request \cup {NoRequest}
      <4>1. verifier[v] \in Request => [verifier[v] EXCEPT !.mayhave = FALSE] \in Request
        BY DEF Request
      <4> QED
        BY <1>0, <2>2, <4>1 DEF SigningKeysTypeOK
    <3>2. verifier' = [v \in Verifiers |-> verifier'[v]]
      BY <1>2 DEF WithdrawKey
    <3> QED
      BY <1>0, <1>2, <2>1, <3>1, <3>2 DEF WithdrawKey, SigningKeysTypeOK
  <2>4. EntryIsRecent'
    BY <1>0, <2>1 DEF SigningKeysTypeOK, EntryIsRecent
  <2>5. ASSUME NEW v \in Verifiers PROVE RequestIsRecent(v)'
    <3>1. CASE verifier'[v] = verifier[v] /\ (verifier[v] = NoRequest \/ verifier[v].kid # kid)
      BY <1>0, <2>1, <3>1 DEF RequestIsRecent, ReadAt, BetweenLooks, Cached, SigningKeysTypeOK, Request
    <3>2. CASE /\ verifier[v] # NoRequest /\ verifier[v].kid = kid
               /\ verifier'[v] = [verifier[v] EXCEPT !.mayhave = FALSE]
      <4>1. /\ verifier'[v].mayhave = FALSE /\ verifier'[v].pc = verifier[v].pc
            /\ verifier'[v].kid = kid /\ verifier'[v].at = verifier[v].at
            /\ verifier'[v].keys = verifier[v].keys
        BY <1>0, <3>2 DEF Request
      <4>2. verifier[v].at \in Nat /\ verifier[v].keys \subseteq Kids
        BY <1>0, <3>2 DEF Request
      <4> QED
        BY <1>0, <2>1, <3>2, <4>1, <4>2 DEF RequestIsRecent, ReadAt, SigningKeysTypeOK
    <3> QED
      BY <2>2, <3>1, <3>2
  <2> QED
    BY <2>3, <2>4, <2>5 DEF SigningKeysInv
<1>3. ASSUME NEW v \in Verifiers, NEW kid \in Kids, Verify(v, kid) PROVE SigningKeysInv'
  <2> DEFINE new == [pc |-> "look", kid |-> kid, again |-> FALSE, keys |-> {}, at |-> 0,
                     mayhave |-> kid \in published]
  <2>1. /\ new.pc = "look" /\ new.again = FALSE /\ new.at = 0 /\ new.kid = kid
        /\ new.mayhave => kid \in published
    OBVIOUS
  <2>1a. new \in Request
    <3>1. CASE kid \in published
      <4>1. (kid \in published) = TRUE
        BY <3>1
      <4>2. [pc |-> "look", kid |-> kid, again |-> FALSE, keys |-> {}, at |-> 0, mayhave |-> TRUE] \in Request
        BY DEF Request
      <4> QED
        BY <4>1, <4>2
    <3>2. CASE kid \notin published
      <4>1. (kid \in published) = FALSE
        BY <3>2
      <4>2. [pc |-> "look", kid |-> kid, again |-> FALSE, keys |-> {}, at |-> 0, mayhave |-> FALSE] \in Request
        BY DEF Request
      <4> QED
        BY <4>1, <4>2
    <3> QED
      BY <3>1, <3>2
  <2>2. verifier' = [verifier EXCEPT ![v] = new] /\ UNCHANGED <<published, retired, jwks, keyTime>>
    BY <1>3 DEF Verify
  <2> HIDE DEF new
  <2>3. verifier'[v] = new
    BY <1>0, <2>2 DEF SigningKeysTypeOK
  <2>4. RequestIsRecent(v)'
    BY <1>0, <2>1, <2>2, <2>3 DEF RequestIsRecent, BetweenLooks, SigningKeysTypeOK
  <2> QED
    BY <2>1a, <2>2, <2>4, OneRequest
<1>4. ASSUME NEW v \in Verifiers, LookUp(v) PROVE SigningKeysInv'
  <2>1. verifier[v] \in Request /\ verifier[v] # NoRequest /\ verifier[v].pc = "look"
    BY <1>0, <1>4, NoRequestIsNone DEF LookUp
  <2>2. CASE Cached
    <3> DEFINE new == Searched(v, jwks.keys)
    <3>1. jwks.keys \in SUBSET Kids /\ jwks.at \in Int /\ retired[verifier[v].kid] \in Int
          /\ keyTime \in Nat
      BY <1>0, <2>1 DEF SigningKeysTypeOK, Request
    <3>2. /\ new \in Request /\ new.kid = verifier[v].kid /\ new.mayhave = verifier[v].mayhave
          /\ new.at = keyTime /\ new.pc \in {"found", "refused", "drop"}
          /\ (new.pc = "found" <=> verifier[v].kid \in jwks.keys)
          /\ (new.pc = "refused" => verifier[v].again)
      BY <1>0, <2>1, <3>1, SearchedValue
    <3>3. verifier' = [verifier EXCEPT ![v] = new] /\ UNCHANGED <<published, retired, jwks, keyTime>>
      BY <1>4, <2>2 DEF LookUp
    <3> HIDE DEF new
    <3>4. verifier'[v] = new
      BY <1>0, <3>3 DEF SigningKeysTypeOK
    <3>5. RequestIsRecent(v)
      BY <1>0
    <3>6. new.mayhave => new.kid \in published
      BY <2>1, <3>2, <3>5 DEF RequestIsRecent
    <3>7. new.pc = "refused" => ~new.mayhave
      BY <2>1, <2>2, <3>2, <3>5 DEF RequestIsRecent, BetweenLooks
    <3>8. new.pc = "found" /\ new.kid \notin published => new.at < retired[new.kid] + KeyLife + FetchTime
      BY <1>0, <2>2, <3>1, <3>2 DEF EntryIsRecent, Cached
    <3>9. RequestIsRecent(v)'
      BY <3>1, <3>2, <3>3, <3>4, <3>6, <3>7, <3>8 DEF RequestIsRecent, BetweenLooks
    <3> QED
      BY <3>2, <3>3, <3>9, OneRequest
  <2>3. CASE ~Cached
    <3> DEFINE new == [verifier[v] EXCEPT !.pc = "fetch"]
    <3>1. /\ new \in Request /\ new.kid = verifier[v].kid /\ new.mayhave = verifier[v].mayhave
          /\ new.at = verifier[v].at /\ new.pc = "fetch"
      BY <2>1 DEF Request
    <3>2. verifier' = [verifier EXCEPT ![v] = new] /\ UNCHANGED <<published, retired, jwks, keyTime>>
      BY <1>4, <2>3 DEF LookUp
    <3> HIDE DEF new
    <3>3. verifier'[v] = new
      BY <1>0, <3>2 DEF SigningKeysTypeOK
    <3>4. RequestIsRecent(v)'
      BY <1>0, <2>1, <3>1, <3>2, <3>3 DEF RequestIsRecent, BetweenLooks
    <3> QED
      BY <3>1, <3>2, <3>4, OneRequest
  <2> QED
    BY <2>2, <2>3
<1>5. ASSUME NEW v \in Verifiers, Fetch(v) PROVE SigningKeysInv'
  <2>1. verifier[v] \in Request /\ verifier[v] # NoRequest
    BY <1>0, <1>5, NoRequestIsNone DEF Fetch
  <2> DEFINE new == [verifier[v] EXCEPT !.pc = "store", !.keys = published, !.at = keyTime]
  <2>2. /\ new \in Request /\ new.kid = verifier[v].kid /\ new.mayhave = verifier[v].mayhave
        /\ new.at = keyTime /\ new.keys = published /\ new.pc = "store"
    BY <1>0, <2>1 DEF Request, SigningKeysTypeOK
  <2>3. verifier' = [verifier EXCEPT ![v] = new] /\ UNCHANGED <<published, retired, jwks, keyTime>>
    BY <1>5 DEF Fetch
  <2> HIDE DEF new
  <2>4. verifier'[v] = new
    BY <1>0, <2>3 DEF SigningKeysTypeOK
  <2>5. RequestIsRecent(v)'
    BY <1>0, <2>1, <2>2, <2>3, <2>4 DEF RequestIsRecent, BetweenLooks, ReadAt, SigningKeysTypeOK
  <2> QED
    BY <2>2, <2>3, <2>5, OneRequest
<1>6. ASSUME NEW v \in Verifiers, Store(v) PROVE SigningKeysInv'
  <2> DEFINE keys == verifier[v].keys
             new  == Searched(v, keys)
  <2>1. verifier[v] \in Request /\ verifier[v] # NoRequest /\ verifier[v].pc = "store"
    BY <1>0, <1>6, NoRequestIsNone DEF Store
  <2>2. /\ keys \in SUBSET Kids /\ ReadAt(keys, verifier[v].at)
        /\ verifier[v].at \in Nat /\ keyTime \in Nat
        /\ verifier[v].at <= keyTime /\ keyTime <= verifier[v].at + FetchTime
        /\ \A kid \in Kids : retired[kid] \in Int
    BY <1>0, <2>1 DEF RequestIsRecent, Request, SigningKeysTypeOK
  <2>3. /\ new \in Request /\ new.kid = verifier[v].kid /\ new.mayhave = verifier[v].mayhave
        /\ new.at = keyTime /\ new.pc \in {"found", "refused", "drop"}
        /\ (new.pc = "found" <=> verifier[v].kid \in keys)
    BY <1>0, <2>1, <2>2, SearchedValue
  <2> HIDE DEF new
  <2>4. /\ jwks' = [keys |-> keys, at |-> keyTime] /\ UNCHANGED <<published, retired, keyTime>>
        /\ verifier'[v] = new
    BY <1>6 DEF Store, new
  <2>5. ASSUME NEW w \in Verifiers \ {v}
        PROVE  verifier'[w] = IF BetweenLooks(w)
                              THEN [verifier[w] EXCEPT !.mayhave = @ /\ verifier[w].kid \in keys]
                              ELSE verifier[w]
    BY <1>6 DEF Store
  <2>6. ASSUME NEW w \in Verifiers \ {v}
        PROVE  \/ verifier'[w] = verifier[w] /\ ~BetweenLooks(w)
               \/ /\ BetweenLooks(w) /\ verifier[w] \in Request /\ verifier[w].pc = "look"
                  /\ verifier'[w] \in Request /\ verifier'[w].kid = verifier[w].kid
                  /\ verifier'[w].at = verifier[w].at /\ verifier'[w].pc = "look"
                  /\ verifier'[w].mayhave => verifier[w].mayhave /\ verifier[w].kid \in keys
    <3>1. CASE BetweenLooks(w)
      <4>1. verifier[w] \in Request /\ verifier[w].pc = "look"
        BY <1>0, <3>1, NoRequestIsNone DEF BetweenLooks
      <4> HIDE DEF keys
      <4>2. verifier'[w] = [verifier[w] EXCEPT !.mayhave = @ /\ verifier[w].kid \in keys]
        BY <2>5, <3>1
      <4>3. verifier'[w] \in Request
        BY <4>1, <4>2 DEF Request
      <4>4. /\ verifier'[w].kid = verifier[w].kid /\ verifier'[w].at = verifier[w].at
            /\ verifier'[w].pc = "look"
        BY <4>1, <4>2 DEF Request
      <4>5. verifier'[w].mayhave => verifier[w].mayhave /\ verifier[w].kid \in keys
        BY <4>1, <4>2 DEF Request
      <4> QED
        BY <3>1, <4>1, <4>3, <4>4, <4>5
    <3>2. CASE ~BetweenLooks(w)
      BY <2>5, <3>2
    <3> QED
      BY <3>1, <3>2
  <2>7. SigningKeysTypeOK'
    <3>1. ASSUME NEW w \in Verifiers PROVE verifier'[w] \in Request \cup {NoRequest}
      BY <1>0, <2>3, <2>4, <2>6 DEF SigningKeysTypeOK
    <3>2. verifier' = [w \in Verifiers |-> verifier'[w]]
      BY <1>6 DEF Store
    <3>3. verifier' \in [Verifiers -> Request \cup {NoRequest}]
      BY <3>1, <3>2
    <3> QED
      BY <1>0, <2>2, <2>4, <3>3 DEF SigningKeysTypeOK
  <2>8. EntryIsRecent'
    BY <2>2, <2>4 DEF EntryIsRecent, ReadAt
  <2>9. RequestIsRecent(v)'
    <3>1. new.mayhave => new.kid \in published
      BY <1>0, <2>1, <2>3 DEF RequestIsRecent
    <3>2. new.pc = "refused" => ~new.mayhave
      BY <1>0, <2>1, <2>3 DEF RequestIsRecent
    <3>3. new.pc = "found" /\ new.kid \notin published => new.at < retired[new.kid] + KeyLife + FetchTime
      BY <2>2, <2>3 DEF ReadAt
    <3> QED
      BY <2>2, <2>3, <2>4, <3>1, <3>2, <3>3 DEF RequestIsRecent, BetweenLooks
  <2>10. ASSUME NEW w \in Verifiers \ {v} PROVE RequestIsRecent(w)'
    <3>1. CASE verifier'[w] = verifier[w] /\ ~BetweenLooks(w)
      <4>1. ~BetweenLooks(w)'
        BY <3>1 DEF BetweenLooks
      <4> QED
        BY <1>0, <2>4, <3>1, <4>1 DEF RequestIsRecent, ReadAt
    <3>2. CASE /\ BetweenLooks(w) /\ verifier[w] \in Request /\ verifier[w].pc = "look"
               /\ verifier'[w] \in Request /\ verifier'[w].kid = verifier[w].kid
               /\ verifier'[w].at = verifier[w].at /\ verifier'[w].pc = "look"
               /\ verifier'[w].mayhave => verifier[w].mayhave /\ verifier[w].kid \in keys
      <4>1. verifier[w] # NoRequest /\ jwks'.keys = keys
        BY <2>4, <3>2, NoRequestIsNone
      <4>2. verifier[w].at <= keyTime /\ (verifier[w].mayhave => verifier[w].kid \in published)
        BY <1>0, <4>1 DEF RequestIsRecent
      <4> QED
        BY <2>4, <3>2, <4>1, <4>2 DEF RequestIsRecent
    <3> QED
      BY <2>6, <3>1, <3>2
  <2> QED
    BY <2>7, <2>8, <2>9, <2>10 DEF SigningKeysInv
<1>7. ASSUME NEW v \in Verifiers, DropEntry(v) PROVE SigningKeysInv'
  <2>1. verifier[v] \in Request /\ verifier[v] # NoRequest
    BY <1>0, <1>7, NoRequestIsNone DEF DropEntry
  <2> DEFINE new == [verifier[v] EXCEPT !.pc = "look", !.again = TRUE]
  <2>2. /\ new \in Request /\ new.kid = verifier[v].kid /\ new.mayhave = verifier[v].mayhave
        /\ new.at = verifier[v].at /\ new.pc = "look"
    BY <2>1 DEF Request
  <2> HIDE DEF new
  <2>3. /\ verifier' = [verifier EXCEPT ![v] = new] /\ UNCHANGED <<published, retired, keyTime>>
        /\ jwks'.keys = {} /\ jwks' \in [keys : SUBSET Kids, at : Int] /\ jwks'.at = -KeyLife
    <3>1. NoJwks.keys = {} /\ NoJwks.at = -KeyLife /\ NoJwks \in [keys : SUBSET Kids, at : Int]
      BY DEF NoJwks
    <3>2. verifier' = [verifier EXCEPT ![v] = new]
      BY <1>7 DEF DropEntry, new
    <3> QED
      BY <1>7, <3>1, <3>2 DEF DropEntry
  <2>4. verifier'[v] = new /\ \A w \in Verifiers \ {v} : verifier'[w] = verifier[w]
    BY <1>0, <2>3 DEF SigningKeysTypeOK
  <2>5. ~Cached' /\ EntryIsRecent' /\ SigningKeysTypeOK'
    BY <1>0, <2>2, <2>3 DEF Cached, EntryIsRecent, SigningKeysTypeOK
  <2>6. ASSUME NEW w \in Verifiers PROVE RequestIsRecent(w)'
    <3>1. CASE w = v
      BY <1>0, <2>1, <2>2, <2>3, <2>4, <2>5, <3>1 DEF RequestIsRecent
    <3>2. CASE w # v
      BY <1>0, <2>3, <2>4, <2>5, <3>2 DEF RequestIsRecent, ReadAt
    <3> QED
      BY <3>1, <3>2
  <2> QED
    BY <2>5, <2>6 DEF SigningKeysInv
<1>8. ASSUME NEW v \in Verifiers, EndRequest(v) PROVE SigningKeysInv'
  <2>1. verifier'[v] = NoRequest
    BY <1>0, <1>8 DEF EndRequest, SigningKeysTypeOK
  <2>2. RequestIsRecent(v)'
    BY <2>1 DEF RequestIsRecent
  <2> QED
    BY <1>8, <2>2, OneRequest DEF EndRequest
<1>9. CASE KeyTick
  <2>1. SigningKeysTypeOK' /\ EntryIsRecent' /\ (Cached' => Cached)
    BY <1>0, <1>9 DEF KeyTick, SigningKeysTypeOK, EntryIsRecent, Cached
  <2>2. ASSUME NEW v \in Verifiers, verifier[v] # NoRequest PROVE RequestIsRecent(v)'
    <3>1. verifier[v].at \in Nat /\ keyTime \in Nat
      BY <1>0, <2>2 DEF Request, SigningKeysTypeOK
    <3>2. verifier[v].pc = "store" => keyTime + 1 <= verifier[v].at + FetchTime
      BY <1>9, <3>1 DEF KeyTick
    <3> QED
      BY <1>0, <1>9, <2>1, <2>2, <3>1, <3>2 DEF KeyTick, RequestIsRecent, ReadAt, BetweenLooks
  <2> QED
    BY <1>9, <2>1, <2>2 DEF SigningKeysInv, KeyTick, RequestIsRecent
<1>10. CASE UNCHANGED keyVars
  BY <1>0, <1>10 DEF keyVars, SigningKeysInv, SigningKeysTypeOK, EntryIsRecent, RequestIsRecent,
    ReadAt, BetweenLooks, Cached
<1> QED
  BY <1>1, <1>2, <1>3, <1>4, <1>5, <1>6, <1>7, <1>8, <1>9, <1>10 DEF SigningKeysNext

\* KeysFollowRealm for any keys, requests and life of the entry: a rotation is
\* noticed unless an older answer was stored in between, and a withdrawal within
\* the life of an entry and the time of a fetch.
THEOREM KeysHold == SigningKeysSpec => []KeysFollowRealm
<1>1. SigningKeysInv => KeysFollowRealm
  BY NoRequestIsNone DEF SigningKeysInv, RequestIsRecent, KeysFollowRealm, RotationIsNoticed, WithdrawalIsNoticed
<1> QED
  BY <1>1, SigningKeysStart, SigningKeysStep, PTL DEF SigningKeysSpec

-----------------------------------------------------------------------------
(* Vocabularies.                                                           *)

SchemaRow == [stored : {TRUE}, version : Int, is_active : BOOLEAN]

Change ==
  [pc : {"find", "deactivate", "write", "commit", "save"}, op : {"create", "activate", "patch"},
   id : Schemas, version : Int, is_active : BOOLEAN, seen : SUBSET Schemas, off : SUBSET Schemas]

VocabulariesTypeOK ==
  /\ schema \in [Schemas -> SchemaRow \cup {NoRow}]
  /\ admin \in [Admins -> Change \cup {AtRest}]

OneActive == \A i, j \in ActiveSchemas : i = j

\* Nobody else refers to a row that is about to be inserted, and it is not there.
InsertIsNew(a) ==
  Busy(a) /\ admin[a].op = "create" =>
    /\ schema[admin[a].id] = NoRow
    /\ \A b \in Admins \ {a} : Busy(b) => admin[b].id # admin[a].id

\* The rows a transaction has locked are there, those to deactivate are active,
\* and nobody else has them locked.
LocksStand(a) ==
  Busy(a) =>
    /\ admin[a].pc \in {"find", "deactivate"} => admin[a].off = {} /\ admin[a].is_active
    /\ admin[a].pc = "save" <=> admin[a].op = "patch"
    /\ admin[a].pc # "save" =>
         /\ admin[a].op = "activate" => admin[a].id \in Stored /\ admin[a].is_active
         /\ admin[a].off \subseteq ActiveSchemas
         /\ admin[a].off # {} => admin[a].is_active

LocksAreExclusive ==
  \A a, b \in Admins : a # b => LockedBy(a) \cap LockedBy(b) = {}

\* Who has written an active row is alone, and replaces the one there is.
Replaces(a) ==
  Busy(a) /\ Wrote(a) /\ admin[a].is_active =>
    /\ ActiveSchemas \subseteq admin[a].off \cup {admin[a].id}
    /\ \A b \in Admins \ {a} : ~(Busy(b) /\ Wrote(b) /\ admin[b].is_active)

VocabulariesInv ==
  /\ VocabulariesTypeOK /\ OneActive /\ LocksAreExclusive
  /\ \A a \in Admins : InsertIsNew(a) /\ LocksStand(a) /\ Replaces(a)

\* What is not there is no row, and at rest is not busy.
LEMMA NotThere == NoRow \notin SchemaRow /\ NoRow.stored = FALSE /\ AtRest.pc = "rest"
BY DEF NoRow, SchemaRow, AtRest

\* Rows and requests have the fields of their kind.
LEMMA WhatIsStored ==
  ASSUME VocabulariesTypeOK
  PROVE  /\ \A i \in Schemas : i \in Stored <=> schema[i] # NoRow
         /\ \A i \in Schemas : i \in Stored => schema[i] \in SchemaRow
         /\ ActiveSchemas \subseteq Stored /\ Stored \subseteq Schemas
         /\ \A a \in Admins : Busy(a) => admin[a] \in Change
BY NotThere DEF VocabulariesTypeOK, Stored, ActiveSchemas, SchemaRow, Busy

\* A transaction starts with no rows deactivated.
LEMMA Starting ==
  ASSUME NEW stage \in {"find", "write", "save"}, NEW op \in {"create", "activate", "patch"},
         NEW id \in Schemas, NEW version \in Int, NEW active \in BOOLEAN
  PROVE  LET new == Transaction(stage, op, id, version, active) IN
         /\ new \in Change /\ new.pc = stage /\ new.op = op /\ new.id = id
         /\ new.is_active = active /\ new.off = {}
BY DEF Transaction, Change

\* There is no row yet.
LEMMA VocabulariesStart == VocabulariesInit => VocabulariesInv
<1> SUFFICES ASSUME VocabulariesInit PROVE VocabulariesInv
  OBVIOUS
<1>1. VocabulariesTypeOK
  BY DEF VocabulariesInit, VocabulariesTypeOK
<1>2. \A a \in Admins : admin[a].pc = "rest"
  BY NotThere DEF VocabulariesInit
<1>3. Stored = {}
  BY NotThere DEF VocabulariesInit, Stored
<1> QED
  BY <1>1, <1>2, <1>3
  DEF VocabulariesInv, OneActive, LocksAreExclusive, LockedBy, InsertIsNew, LocksStand, Replaces, Busy, ActiveSchemas

\* A step of one request, before it has written: what it has locked is free,
\* and the row it means to insert is its own.
LEMMA AdminGoesOn ==
  ASSUME VocabulariesInv, NEW a \in Admins, NEW new \in Change \cup {AtRest},
         admin' = [admin EXCEPT ![a] = new], UNCHANGED schema,
         InsertIsNew(a)', LocksStand(a)', Replaces(a)',
         \A b \in Admins \ {a} : LockedBy(a)' \cap LockedBy(b) = {},
         \A b \in Admins \ {a} : Busy(b) /\ admin[b].op = "create" /\ new.pc # "rest" => new.id # admin[b].id,
         new.pc # "commit" \/ ~new.is_active
           \/ \A b \in Admins \ {a} : ~(Busy(b) /\ Wrote(b) /\ admin[b].is_active)
  PROVE  VocabulariesInv'
<1>1. admin'[a] = new /\ \A b \in Admins \ {a} : admin'[b] = admin[b]
  BY DEF VocabulariesInv, VocabulariesTypeOK
<1>2. VocabulariesTypeOK' /\ OneActive'
  BY DEF VocabulariesInv, VocabulariesTypeOK, OneActive, ActiveSchemas, Stored
<1>3. LocksAreExclusive'
  <2>1. \A b \in Admins \ {a} : LockedBy(b)' = LockedBy(b)
    BY <1>1 DEF LockedBy
  <2> QED
    BY <2>1 DEF VocabulariesInv, LocksAreExclusive
<1>4. ASSUME NEW b \in Admins \ {a} PROVE InsertIsNew(b)' /\ LocksStand(b)' /\ Replaces(b)'
  <2>1. InsertIsNew(b) /\ LocksStand(b) /\ Replaces(b) /\ admin'[b] = admin[b]
    BY <1>1 DEF VocabulariesInv
  <2>2. InsertIsNew(b)'
    BY <1>1, <2>1 DEF InsertIsNew, Busy
  <2>3. LocksStand(b)'
    BY <2>1 DEF LocksStand, Busy, ActiveSchemas, Stored
  <2>4. Replaces(b)'
    BY <1>1, <2>1 DEF Replaces, Busy, Wrote, ActiveSchemas, Stored
  <2> QED
    BY <2>2, <2>3, <2>4
<1> QED
  BY <1>2, <1>3, <1>4 DEF VocabulariesInv

\* The rows change and one request, if any, comes to rest: what the others have
\* locked or mean to insert is left alone, and there is no active row more,
\* unless there is one alone and nobody else has written one.
LEMMA RowsChange ==
  ASSUME VocabulariesInv, VocabulariesTypeOK', OneActive', NEW rest \in SUBSET Admins,
         \A b \in Admins \ rest : admin'[b] = admin[b],
         \A b \in rest : admin'[b] = AtRest,
         NEW touched \in SUBSET Schemas, \A i \in Schemas \ touched : schema'[i] = schema[i],
         \A b \in Admins \ rest : touched \cap LockedBy(b) = {},
         \A b \in Admins \ rest : Busy(b) /\ admin[b].op = "create" => admin[b].id \notin touched,
         \/ ActiveSchemas' \subseteq ActiveSchemas
         \/ \A b \in Admins \ rest : ~(Busy(b) /\ Wrote(b) /\ admin[b].is_active)
  PROVE  VocabulariesInv'
<1>1. \A b \in rest : ~Busy(b)' /\ LockedBy(b)' = {}
  BY NotThere DEF Busy, LockedBy
<1>2. \A b \in Admins \ rest : LockedBy(b)' = LockedBy(b) /\ (Busy(b)' <=> Busy(b))
  BY DEF LockedBy, Busy
<1>3. LocksAreExclusive'
  BY <1>1, <1>2 DEF VocabulariesInv, LocksAreExclusive
<1>4. ASSUME NEW b \in Admins PROVE InsertIsNew(b)' /\ LocksStand(b)' /\ Replaces(b)'
  <2>1. CASE b \in rest
    BY <1>1, <2>1 DEF InsertIsNew, LocksStand, Replaces
  <2>2. CASE b \notin rest
    <3>1. /\ InsertIsNew(b) /\ LocksStand(b) /\ Replaces(b) /\ admin'[b] = admin[b]
          /\ Busy(b)' <=> Busy(b)
      BY <1>2, <2>2 DEF VocabulariesInv
    <3>2. Busy(b) => admin[b] \in Change
      BY WhatIsStored DEF VocabulariesInv
    <3>3. InsertIsNew(b)'
      <4>1. ASSUME Busy(b), admin[b].op = "create" PROVE schema'[admin[b].id] = NoRow
        BY <2>2, <3>1, <3>2, <4>1 DEF InsertIsNew, Change
      <4>2. ASSUME NEW c \in Admins \ {b}, Busy(c)' PROVE Busy(c) /\ admin'[c] = admin[c]
        BY <1>1, <1>2, <4>2
      <4> QED
        BY <3>1, <4>1, <4>2 DEF InsertIsNew
    <3>4. LocksStand(b)'
      <4>1. ASSUME NEW i \in LockedBy(b), i \in Schemas PROVE schema'[i] = schema[i]
        BY <2>2, <4>1
      <4>2. ASSUME NEW i \in LockedBy(b), i \in Schemas
            PROVE  (i \in Stored => i \in Stored') /\ (i \in ActiveSchemas => i \in ActiveSchemas')
        BY <4>1, <4>2 DEF ActiveSchemas, Stored
      <4>3. Busy(b) /\ admin[b].pc # "save" =>
              /\ admin[b].off \subseteq LockedBy(b)
              /\ admin[b].op = "activate" => admin[b].id \in LockedBy(b)
        BY <3>2 DEF LockedBy, Change, Busy
      <4>4. ActiveSchemas \subseteq Schemas /\ Stored \subseteq Schemas
        BY DEF ActiveSchemas, Stored
      <4> QED
        BY <3>1, <4>2, <4>3, <4>4 DEF LocksStand
    <3>5. Replaces(b)'
      <4>1. ASSUME NEW c \in Admins \ {b}, Busy(c)', Wrote(c)', admin'[c].is_active
            PROVE  Busy(c) /\ Wrote(c) /\ admin[c].is_active
        BY <1>1, <1>2, <4>1 DEF Wrote
      <4>2. CASE ActiveSchemas' \subseteq ActiveSchemas
        BY <3>1, <4>1, <4>2 DEF Replaces, Wrote
      <4>3. CASE ~(Busy(b) /\ Wrote(b) /\ admin[b].is_active)
        BY <3>1, <4>3 DEF Replaces, Wrote
      <4> QED
        BY <2>2, <4>2, <4>3
    <3> QED
      BY <3>3, <3>4, <3>5
  <2> QED
    BY <2>1, <2>2
<1> QED
  BY <1>3, <1>4 DEF VocabulariesInv

\* The same for the one request that changes them.
LEMMA RowsChangeAtEnd ==
  ASSUME VocabulariesInv, VocabulariesTypeOK', OneActive', NEW a \in Admins,
         admin'[a] = AtRest, \A b \in Admins \ {a} : admin'[b] = admin[b],
         NEW touched \in SUBSET Schemas, \A i \in Schemas \ touched : schema'[i] = schema[i],
         \A b \in Admins \ {a} : touched \cap LockedBy(b) = {},
         \A b \in Admins \ {a} : Busy(b) /\ admin[b].op = "create" => admin[b].id \notin touched,
         \/ ActiveSchemas' \subseteq ActiveSchemas
         \/ \A b \in Admins \ {a} : ~(Busy(b) /\ Wrote(b) /\ admin[b].is_active)
  PROVE  VocabulariesInv'
<1>1. PICK rest \in SUBSET Admins : rest = {a}
  OBVIOUS
<1> QED
  BY <1>1, RowsChange

\* What a step may do to the active rows.
Replaced ==
  /\ \A i, j \in ActiveSchemas' : i = j
  /\ ActiveSchemas # {} /\ ActiveSchemas' = {} =>
       \E i \in ActiveSchemas : ~schema'[i].stored \/ \E a \in Admins : SaveSchema(a)

\* A commit replaces the active row, or inserts one that is not active.
LEMMA CommitReplaces ==
  ASSUME VocabulariesInv, NEW a \in Admins, CommitSchema(a)
  PROVE  VocabulariesInv' /\ Replaced
<1> DEFINE id == admin[a].id
           off == admin[a].off
<1>1. /\ Busy(a) /\ admin[a].pc = "commit" /\ admin[a] \in Change /\ id \in Schemas /\ off \subseteq Schemas
      /\ admin[a].version \in Int /\ admin[a].is_active \in BOOLEAN /\ admin[a].op \in {"create", "activate"}
      /\ InsertIsNew(a) /\ LocksStand(a) /\ Replaces(a) /\ VocabulariesTypeOK /\ OneActive /\ LocksAreExclusive
  <2>1. Busy(a) /\ admin[a].pc = "commit"
    BY DEF CommitSchema, Busy
  <2>2. admin[a] \in Change /\ LocksStand(a)
    BY <2>1, WhatIsStored DEF VocabulariesInv
  <2> QED
    BY <2>1, <2>2 DEF VocabulariesInv, Change, LocksStand
<1>2. /\ schema'[id] = Row(admin[a].version, admin[a].is_active)
      /\ \A i \in off \ {id} : schema'[i] = [schema[i] EXCEPT !.is_active = FALSE]
      /\ \A i \in Schemas \ (off \cup {id}) : schema'[i] = schema[i]
      /\ schema' = [i \in Schemas |-> schema'[i]]
  BY <1>1 DEF CommitSchema
<1>3. off \subseteq ActiveSchemas /\ \A i \in off : schema[i] \in SchemaRow
  BY <1>1, WhatIsStored DEF LocksStand
<1>4. Row(admin[a].version, admin[a].is_active) \in SchemaRow
      /\ Row(admin[a].version, admin[a].is_active).stored
      /\ Row(admin[a].version, admin[a].is_active).is_active = admin[a].is_active
  BY <1>1 DEF Row, SchemaRow
<1>5. \A i \in off \ {id} : schema'[i] \in SchemaRow /\ ~schema'[i].is_active
  <2>1. ASSUME NEW c \in SchemaRow PROVE [c EXCEPT !.is_active = FALSE] \in SchemaRow
                                         /\ [c EXCEPT !.is_active = FALSE].is_active = FALSE
    BY DEF SchemaRow
  <2> QED
    BY <1>2, <1>3, <2>1
<1>6. admin'[a] = AtRest /\ (\A b \in Admins \ {a} : admin'[b] = admin[b])
      /\ admin' \in [Admins -> Change \cup {AtRest}]
  BY <1>1 DEF CommitSchema, GiveUp, VocabulariesTypeOK
<1>7. VocabulariesTypeOK'
  <2>1. ASSUME NEW i \in Schemas PROVE schema'[i] \in SchemaRow \cup {NoRow}
    BY <1>1, <1>2, <1>4, <1>5 DEF VocabulariesTypeOK
  <2> QED
    BY <1>2, <1>6, <2>1 DEF VocabulariesTypeOK
<1>8. CASE admin[a].is_active
  <2>1. id \in ActiveSchemas'
    BY <1>1, <1>2, <1>4, <1>8 DEF ActiveSchemas, Stored
  <2>2. \A i \in ActiveSchemas' : i = id
    <3>1. ActiveSchemas \subseteq off \cup {id}
      BY <1>1, <1>8 DEF Replaces, Wrote
    <3>2. ASSUME NEW i \in Schemas \ (off \cup {id}) PROVE i \notin ActiveSchemas'
      BY <1>2, <3>1, <3>2 DEF ActiveSchemas, Stored
    <3>3. ASSUME NEW i \in off \ {id} PROVE i \notin ActiveSchemas'
      BY <1>5 DEF ActiveSchemas
    <3> QED
      BY <3>2, <3>3 DEF ActiveSchemas, Stored
  <2>3. \A b \in Admins \ {a} : ~(Busy(b) /\ Wrote(b) /\ admin[b].is_active)
    BY <1>1, <1>8 DEF Replaces, Wrote
  <2> QED
    <3>1. OneActive' /\ Replaced
      BY <2>1, <2>2 DEF OneActive, Replaced
    <3>2. \A b \in Admins \ {a} : (off \cup {id}) \cap LockedBy(b) = {}
      <4>1. \A b \in Admins \ {a} : off \cap LockedBy(b) = {}
        BY <1>1 DEF LocksAreExclusive, LockedBy
      <4>2. CASE admin[a].op = "activate"
        BY <1>1, <4>1, <4>2 DEF LocksAreExclusive, LockedBy
      <4>3. CASE admin[a].op = "create"
        <5>1. id \notin Stored
          BY <1>1, <4>3, NotThere DEF InsertIsNew, Stored
        <5>2. \A b \in Admins \ {a} : LockedBy(b) \subseteq Stored
          BY WhatIsStored DEF VocabulariesInv, LocksStand, LockedBy, Busy
        <5> QED
          BY <4>1, <5>1, <5>2
      <4> QED
        BY <1>1, <4>1, <4>2, <4>3
    <3>3. ASSUME NEW b \in Admins \ {a}, Busy(b), admin[b].op = "create" PROVE admin[b].id \notin off \cup {id}
      <4>1. schema[admin[b].id] = NoRow /\ admin[b].id # id
        BY <1>1, <3>3 DEF VocabulariesInv, InsertIsNew
      <4>2. admin[b].id \notin ActiveSchemas
        BY <4>1, NotThere DEF ActiveSchemas, Stored
      <4> QED
        BY <1>3, <4>1, <4>2
    <3> HIDE DEF id, off
    <3>4. PICK touched \in SUBSET Schemas : touched = off \cup {id}
      BY <1>1
    <3>5. \A i \in Schemas \ touched : schema'[i] = schema[i]
      BY <1>2, <3>4
    <3>6. VocabulariesInv'
      BY <1>6, <1>7, <2>3, <3>1, <3>2, <3>3, <3>4, <3>5, RowsChangeAtEnd
    <3> QED
      BY <3>1, <3>6
<1>9. CASE ~admin[a].is_active
  <2>1. off = {} /\ admin[a].op = "create"
    BY <1>1, <1>9 DEF LocksStand
  <2>2. schema[id] = NoRow /\ id \notin Stored
    BY <1>1, <2>1, NotThere DEF InsertIsNew, Stored
  <2>3. ActiveSchemas' = ActiveSchemas
    <3>1. id \notin ActiveSchemas /\ id \notin ActiveSchemas'
      BY <1>2, <1>4, <1>9, <2>2 DEF ActiveSchemas
    <3>2. \A i \in Schemas \ {id} : i \in ActiveSchemas' <=> i \in ActiveSchemas
      BY <1>2, <2>1 DEF ActiveSchemas, Stored
    <3> QED
      BY <3>1, <3>2 DEF ActiveSchemas, Stored
  <2>4. OneActive' /\ Replaced
    BY <1>1, <2>3 DEF OneActive, Replaced
  <2>5. \A b \in Admins \ {a} : {id} \cap LockedBy(b) = {}
    <3>1. \A b \in Admins \ {a} : LockedBy(b) \subseteq Stored
      BY WhatIsStored DEF VocabulariesInv, LocksStand, LockedBy, Busy
    <3> QED
      BY <2>2, <3>1
  <2>6. ASSUME NEW b \in Admins \ {a}, Busy(b), admin[b].op = "create" PROVE admin[b].id # id
    BY <1>1, <2>6 DEF VocabulariesInv, InsertIsNew
  <2>7. \A i \in Schemas \ {id} : schema'[i] = schema[i]
    BY <1>2, <2>1
  <2> HIDE DEF id, off
  <2>8. PICK touched \in SUBSET Schemas : touched = {id}
    BY <1>1
  <2>9. VocabulariesInv'
    BY <1>6, <1>7, <2>3, <2>4, <2>5, <2>6, <2>7, <2>8, RowsChangeAtEnd
  <2> QED
    BY <2>4, <2>9
<1> QED
  BY <1>8, <1>9

\* A whole row is saved over another: nobody has it locked, and the index keeps
\* a second active row out.
LEMMA SaveKeepsOne ==
  ASSUME VocabulariesInv, NEW a \in Admins, SaveSchema(a)
  PROVE  VocabulariesInv' /\ Replaced
<1> DEFINE id == admin[a].id
<1>1. /\ Busy(a) /\ admin[a] \in Change /\ id \in Schemas /\ admin[a].op = "patch"
      /\ admin[a].version \in Int /\ admin[a].is_active \in BOOLEAN
      /\ VocabulariesTypeOK /\ OneActive
  <2>1. Busy(a) /\ admin[a].pc = "save"
    BY DEF SaveSchema, Busy
  <2>2. admin[a] \in Change /\ LocksStand(a)
    BY <2>1, WhatIsStored DEF VocabulariesInv
  <2> QED
    BY <2>1, <2>2 DEF VocabulariesInv, Change, LocksStand
<1>2. admin'[a] = AtRest /\ (\A b \in Admins \ {a} : admin'[b] = admin[b])
      /\ admin' \in [Admins -> Change \cup {AtRest}]
  BY <1>1 DEF SaveSchema, GiveUp, VocabulariesTypeOK
<1>3. Row(admin[a].version, admin[a].is_active) \in SchemaRow
      /\ Row(admin[a].version, admin[a].is_active).stored
      /\ Row(admin[a].version, admin[a].is_active).is_active = admin[a].is_active
  BY <1>1 DEF Row, SchemaRow
<1>4. \/ UNCHANGED schema
      \/ schema' = [schema EXCEPT ![id] = Row(admin[a].version, admin[a].is_active)]
  BY DEF SaveSchema
<1>5. /\ VocabulariesTypeOK' /\ \A i \in Schemas \ {id} : schema'[i] = schema[i]
      /\ schema'[id] = schema[id] \/ schema'[id] = Row(admin[a].version, admin[a].is_active)
  BY <1>1, <1>2, <1>3, <1>4 DEF VocabulariesTypeOK
<1>6. \/ ActiveSchemas' \subseteq ActiveSchemas
      \/ /\ \A b \in Admins \ {a} : ~(Busy(b) /\ Wrote(b) /\ admin[b].is_active)
         /\ ActiveSchemas' \subseteq {id}
  <2>1. CASE admin[a].is_active /\ id \notin ActiveSchemas /\ schema' # schema
    <3>1. ~ActiveAwaited(a) /\ ~OtherIsActive(a, {})
      BY <2>1 DEF SaveSchema, MayWrite, Violates
    <3>2. \A b \in Admins \ {a} : ~(Busy(b) /\ Wrote(b) /\ admin[b].is_active)
      BY <3>1 DEF ActiveAwaited, Wrote
    <3>3. ActiveSchemas \subseteq {id}
      BY <3>1 DEF OtherIsActive
    <3>4. \A i \in Schemas \ {id} : i \in ActiveSchemas' => i \in ActiveSchemas
      BY <1>5 DEF ActiveSchemas, Stored
    <3>5. ActiveSchemas' \subseteq Schemas
      BY DEF ActiveSchemas, Stored
    <3> QED
      BY <3>2, <3>3, <3>4, <3>5
  <2>2. CASE ~(admin[a].is_active /\ id \notin ActiveSchemas /\ schema' # schema)
    <3>1. \A i \in Schemas \ {id} : i \in ActiveSchemas' => i \in ActiveSchemas
      BY <1>5 DEF ActiveSchemas, Stored
    <3>2. id \in ActiveSchemas' => id \in ActiveSchemas
      BY <1>3, <1>5, <2>2 DEF ActiveSchemas, Stored
    <3> QED
      BY <3>1, <3>2 DEF ActiveSchemas, Stored
  <2> QED
    BY <2>1, <2>2
<1>7. OneActive'
  BY <1>1, <1>6 DEF OneActive
<1>8. Replaced
  BY <1>7 DEF Replaced, OneActive
<1>9. \A b \in Admins \ {a} : {id} \cap LockedBy(b) = {}
  BY DEF SaveSchema, Unlocked
<1>10. ASSUME NEW b \in Admins \ {a}, Busy(b), admin[b].op = "create" PROVE admin[b].id # id
  BY <1>1, <1>10 DEF VocabulariesInv, InsertIsNew
<1> HIDE DEF id
<1>11. PICK touched \in SUBSET Schemas : touched = {id}
  BY <1>1
<1>12. VocabulariesInv'
  BY <1>2, <1>5, <1>6, <1>7, <1>9, <1>10, <1>11, RowsChangeAtEnd
<1> QED
  BY <1>8, <1>12

\* Who writes an active row has deactivated the one there is, and nobody else
\* has written one.
LEMMA WriteIsAlone ==
  ASSUME VocabulariesInv, NEW a \in Admins, WriteSchema(a)
  PROVE  VocabulariesInv'
<1> DEFINE id  == admin[a].id
           new == [admin[a] EXCEPT !.pc = "commit"]
<1>1. /\ Busy(a) /\ admin[a].pc = "write" /\ admin[a] \in Change /\ id \in Schemas
      /\ admin[a].op \in {"create", "activate"} /\ admin[a].is_active \in BOOLEAN
      /\ InsertIsNew(a) /\ LocksStand(a) /\ VocabulariesTypeOK /\ OneActive /\ LocksAreExclusive
  <2>1. Busy(a) /\ admin[a].pc = "write"
    BY DEF WriteSchema, Busy
  <2>2. admin[a] \in Change /\ LocksStand(a)
    BY <2>1, WhatIsStored DEF VocabulariesInv
  <2> QED
    BY <2>1, <2>2 DEF VocabulariesInv, Change, LocksStand
<1>2. UNCHANGED schema
  BY DEF WriteSchema
<1>3. CASE admin' = [admin EXCEPT ![a] = AtRest]
  <2>1. ~Busy(a)' /\ LockedBy(a)' = {} /\ AtRest.pc = "rest"
    BY <1>1, <1>3, NotThere DEF Busy, LockedBy, VocabulariesTypeOK
  <2>2. InsertIsNew(a)' /\ LocksStand(a)' /\ Replaces(a)'
    BY <2>1 DEF InsertIsNew, LocksStand, Replaces
  <2> QED
    BY <1>2, <1>3, <2>1, <2>2, AdminGoesOn
<1>4. CASE /\ admin' = [admin EXCEPT ![a].pc = "commit"]
           /\ LET inserts   == admin[a].op = "create"
                  activates == admin[a].is_active /\ id \notin ActiveSchemas
              IN  MayWrite(a, inserts, activates) /\ ~Violates(a, inserts, activates, admin[a].off)
  <2>1. /\ new \in Change /\ new.pc = "commit" /\ new.op = admin[a].op /\ new.id = id
        /\ new.is_active = admin[a].is_active /\ new.off = admin[a].off
    BY <1>1 DEF Change
  <2>2. admin' = [admin EXCEPT ![a] = new]
    BY <1>4
  <2> HIDE DEF new
  <2>3. admin'[a] = new /\ \A b \in Admins \ {a} : admin'[b] = admin[b]
    BY <1>1, <2>2 DEF VocabulariesTypeOK
  <2>4. LockedBy(a)' = LockedBy(a) /\ Busy(a)'
    BY <1>1, <2>1, <2>3 DEF LockedBy, Busy
  <2>5. \A b \in Admins \ {a} : LockedBy(a)' \cap LockedBy(b) = {}
    BY <1>1, <2>4 DEF LocksAreExclusive
  <2>6. InsertIsNew(a)'
    BY <1>1, <1>2, <2>1, <2>3 DEF InsertIsNew, Busy
  <2>7. LocksStand(a)'
    BY <1>1, <1>2, <2>1, <2>3 DEF LocksStand, Busy, ActiveSchemas, Stored
  <2>8. ASSUME admin[a].is_active
        PROVE  /\ ActiveSchemas \subseteq admin[a].off \cup {id}
               /\ \A b \in Admins \ {a} : ~(Busy(b) /\ Wrote(b) /\ admin[b].is_active)
    <3>1. CASE id \notin ActiveSchemas
      <4>1. ~ActiveAwaited(a) /\ ~OtherIsActive(a, admin[a].off)
        BY <1>4, <2>8, <3>1 DEF MayWrite, Violates
      <4> QED
        BY <4>1 DEF ActiveAwaited, OtherIsActive, Wrote
    <3>2. CASE id \in ActiveSchemas
      <4>1. ActiveSchemas \subseteq {id}
        BY <1>1, <3>2 DEF OneActive
      <4>2. admin[a].op = "activate" /\ id \in LockedBy(a)
        <5>1. schema[id] # NoRow
          BY <1>1, <3>2, WhatIsStored
        <5> QED
          BY <1>1, <5>1 DEF InsertIsNew, LockedBy
      <4>3. ASSUME NEW b \in Admins \ {a}, Busy(b), Wrote(b), admin[b].is_active PROVE FALSE
        <5>1. id \in admin[b].off \cup {admin[b].id}
          BY <3>2, <4>3 DEF VocabulariesInv, Replaces
        <5>2. id \notin LockedBy(b)
          BY <1>1, <4>2 DEF LocksAreExclusive
        <5>3. admin[b].op # "activate" /\ id = admin[b].id
          BY <4>3, <5>1, <5>2 DEF LockedBy, Wrote
        <5>4. admin[b].op = "create"
          <6>1. admin[b] \in Change /\ LocksStand(b)
            BY <4>3, WhatIsStored DEF VocabulariesInv
          <6> QED
            BY <4>3, <5>3, <6>1 DEF LocksStand, Wrote, Change
        <5>5. schema[id] = NoRow
          BY <4>3, <5>3, <5>4 DEF VocabulariesInv, InsertIsNew
        <5> QED
          BY <3>2, <5>5, NotThere DEF ActiveSchemas, Stored
      <4> QED
        BY <4>1, <4>3
    <3> QED
      BY <3>1, <3>2
  <2>9. Replaces(a)'
    <3>1. ActiveSchemas' = ActiveSchemas
      BY <1>2 DEF ActiveSchemas, Stored
    <3>2. \A b \in Admins \ {a} : Busy(b)' = Busy(b) /\ Wrote(b)' = Wrote(b)
      BY <2>3 DEF Busy, Wrote
    <3> QED
      BY <2>1, <2>3, <2>8, <3>1, <3>2 DEF Replaces
  <2>10. \A b \in Admins \ {a} : Busy(b) /\ admin[b].op = "create" => new.id # admin[b].id
    BY <1>1, <2>1 DEF VocabulariesInv, InsertIsNew
  <2>11. new.pc # "commit" \/ ~new.is_active
           \/ \A b \in Admins \ {a} : ~(Busy(b) /\ Wrote(b) /\ admin[b].is_active)
    BY <2>1, <2>8
  <2> QED
    BY <1>2, <2>1, <2>2, <2>5, <2>6, <2>7, <2>9, <2>10, <2>11, AdminGoesOn
<1> QED
  BY <1>3, <1>4 DEF WriteSchema, GiveUp, GoTo

\* Transactions that begin.
LEMMA AdminBegins ==
  ASSUME VocabulariesInv, NEW a \in Admins, ~Busy(a), NEW id \in Schemas, NEW version \in Int,
         NEW stage \in {"find", "write", "save"}, NEW op \in {"create", "activate", "patch"},
         NEW active \in BOOLEAN, UNCHANGED schema,
         admin' = [admin EXCEPT ![a] = Transaction(stage, op, id, version, active)],
         stage = "save" <=> op = "patch", stage = "find" => active,
         \/ op = "create" /\ schema[id] = NoRow /\ \A b \in Admins : Busy(b) => admin[b].id # id
         \/ op = "activate" /\ id \in Stored /\ active /\ Unlocked(a, {id})
         \/ op = "patch" /\ id \in Stored
  PROVE  VocabulariesInv'
<1> DEFINE new == Transaction(stage, op, id, version, active)
<1>1. /\ new \in Change /\ new.pc = stage /\ new.op = op /\ new.id = id
      /\ new.is_active = active /\ new.off = {}
  BY Starting
<1> HIDE DEF new
<1>2. admin' = [admin EXCEPT ![a] = new]
  BY DEF new
<1>3. admin'[a] = new /\ \A b \in Admins \ {a} : admin'[b] = admin[b]
  BY <1>2 DEF VocabulariesInv, VocabulariesTypeOK
<1>4. LockedBy(a)' = {} \/ (op = "activate" /\ LockedBy(a)' = {id})
  BY <1>1, <1>3 DEF LockedBy
<1>5. \A b \in Admins \ {a} : LockedBy(a)' \cap LockedBy(b) = {}
  BY <1>4, NotThere DEF Unlocked, Stored
<1>6. \A b \in Admins \ {a} : Busy(b) /\ admin[b].op = "create" => id # admin[b].id
  BY NotThere DEF VocabulariesInv, InsertIsNew, Stored
<1>7. InsertIsNew(a)'
  <2>1. ASSUME op = "create" PROVE schema[id] = NoRow /\ \A b \in Admins : Busy(b) => admin[b].id # id
    BY <2>1
  <2> QED
    BY <1>1, <1>3, <2>1 DEF InsertIsNew, Busy
<1>8. LocksStand(a)'
  BY <1>1, <1>3 DEF LocksStand, ActiveSchemas, Stored
<1>9. Replaces(a)'
  BY <1>1, <1>3 DEF Replaces, Wrote
<1> QED
  BY <1>1, <1>2, <1>5, <1>6, <1>7, <1>8, <1>9, AdminGoesOn

\* Whoever only goes on leaves the active rows as they are.
LEMMA NothingReplaced ==
  ASSUME VocabulariesInv, ActiveSchemas' \subseteq ActiveSchemas,
         \A i \in ActiveSchemas : i \in ActiveSchemas' \/ ~schema'[i].stored
  PROVE  Replaced
BY DEF Replaced, VocabulariesInv, OneActive

\* The requests that begin with a look at the rows.
LEMMA AllBegin ==
  ASSUME VocabulariesInv, NEW a \in Admins, NEW i \in Schemas,
         \/ \E activate \in BOOLEAN : CreateSchema(a, i, activate)
         \/ ActivateSchema(a, i) \/ ReadSchema(a, i)
  PROVE  VocabulariesInv'
<1>1. ASSUME NEW activate \in BOOLEAN, CreateSchema(a, i, activate) PROVE VocabulariesInv'
  <2>1. PICK version \in 1..MaxVersion :
          admin' = [admin EXCEPT ![a] =
            Transaction(IF activate THEN "find" ELSE "write", "create", i, version, activate)]
    BY <1>1 DEF CreateSchema
  <2>2. /\ ~Busy(a) /\ schema[i] = NoRow /\ UNCHANGED schema
        /\ \A b \in Admins : Busy(b) => admin[b].id # i
    BY <1>1 DEF CreateSchema
  <2>3. version \in Int
    OBVIOUS
  <2>4. PICK stage \in {"find", "write", "save"} : stage = IF activate THEN "find" ELSE "write"
    OBVIOUS
  <2>5. PICK op \in {"create", "activate", "patch"} : op = "create"
    OBVIOUS
  <2>6. admin' = [admin EXCEPT ![a] = Transaction(stage, op, i, version, activate)]
    BY <2>1, <2>4, <2>5, Zenon
  <2>7. (stage = "save" <=> op = "patch") /\ (stage = "find" => activate)
    BY <2>4, <2>5
  <2> QED
    BY <2>2, <2>3, <2>5, <2>6, <2>7, AdminBegins
<1>2. ASSUME i \in Stored PROVE schema[i].version \in Int /\ schema[i].is_active \in BOOLEAN
  BY <1>2, WhatIsStored DEF VocabulariesInv, SchemaRow
<1>3. CASE ActivateSchema(a, i)
  <2>1. /\ ~Busy(a) /\ i \in Stored /\ Unlocked(a, {i}) /\ UNCHANGED schema
        /\ admin' = [admin EXCEPT ![a] = Transaction("find", "activate", i, schema[i].version, TRUE)]
    BY <1>3 DEF ActivateSchema
  <2>2. PICK version \in Int : version = schema[i].version
    BY <1>2, <2>1
  <2>3. PICK stage \in {"find", "write", "save"}, op \in {"create", "activate", "patch"}, yes \in BOOLEAN :
          stage = "find" /\ op = "activate" /\ yes = TRUE
    OBVIOUS
  <2>4. admin' = [admin EXCEPT ![a] = Transaction(stage, op, i, version, yes)]
    BY <2>1, <2>2, <2>3, Zenon
  <2>5. (stage = "save" <=> op = "patch") /\ (stage = "find" => yes)
    BY <2>3
  <2>6. op = "activate" /\ i \in Stored /\ yes /\ Unlocked(a, {i})
    BY <2>1, <2>3
  <2>7. ~Busy(a) /\ UNCHANGED schema
    BY <2>1
  <2> QED
    BY <2>4, <2>5, <2>6, <2>7, AdminBegins
<1>4. CASE ReadSchema(a, i)
  <2>1. /\ ~Busy(a) /\ i \in Stored /\ UNCHANGED schema
        /\ admin' = [admin EXCEPT ![a] =
             Transaction("save", "patch", i, schema[i].version, schema[i].is_active)]
    BY <1>4 DEF ReadSchema
  <2>2. PICK version \in Int, active \in BOOLEAN :
          version = schema[i].version /\ active = schema[i].is_active
    BY <1>2, <2>1
  <2>3. PICK stage \in {"find", "write", "save"}, op \in {"create", "activate", "patch"} :
          stage = "save" /\ op = "patch"
    OBVIOUS
  <2>4. admin' = [admin EXCEPT ![a] = Transaction(stage, op, i, version, active)]
    BY <2>1, <2>2, <2>3, Zenon
  <2>5. (stage = "save" <=> op = "patch") /\ (stage = "find" => active)
    BY <2>3
  <2>6. op = "patch" /\ i \in Stored
    BY <2>1, <2>3
  <2>7. ~Busy(a) /\ UNCHANGED schema
    BY <2>1
  <2> QED
    BY <2>4, <2>5, <2>6, <2>7, AdminBegins
<1> QED
  BY <1>1, <1>3, <1>4

\* The update of the rows that are active: none of them is anybody else's.
LEMMA UpdateGoesOn ==
  ASSUME VocabulariesInv, NEW a \in Admins, FindActive(a) \/ Deactivate(a)
  PROVE  VocabulariesInv'
<1> DEFINE id == admin[a].id
<1>1. /\ Busy(a) /\ admin[a].pc \in {"find", "deactivate"} /\ admin[a] \in Change
      /\ InsertIsNew(a) /\ LocksStand(a) /\ VocabulariesTypeOK /\ LocksAreExclusive
  <2>1. Busy(a) /\ admin[a].pc \in {"find", "deactivate"}
    BY DEF FindActive, Deactivate, Busy
  <2> QED
    BY <2>1, WhatIsStored DEF VocabulariesInv
<1>2. UNCHANGED schema /\ ActiveSchemas' = ActiveSchemas /\ Stored' = Stored
  BY DEF FindActive, Deactivate, ActiveSchemas, Stored
<1>3. PICK new \in Change :
        /\ admin' = [admin EXCEPT ![a] = new]
        /\ new.pc \in {"deactivate", "write"} /\ new.op = admin[a].op /\ new.id = id
        /\ new.is_active = admin[a].is_active
        /\ new.pc = "deactivate" => new.off = {}
        /\ new.off \subseteq ActiveSchemas /\ Unlocked(a, new.off)
  <2>1. CASE FindActive(a)
    <3> DEFINE new == [admin[a] EXCEPT !.pc = "deactivate", !.seen = ActiveSchemas \ {id}]
    <3>1. /\ new \in Change /\ new.pc = "deactivate" /\ new.op = admin[a].op /\ new.id = id
          /\ new.is_active = admin[a].is_active /\ new.off = {}
      BY <1>1, <2>1 DEF Change, LocksStand, ActiveSchemas, Stored, FindActive
    <3>2. admin' = [admin EXCEPT ![a] = new]
      BY <2>1 DEF FindActive
    <3> HIDE DEF new
    <3> QED
      BY <3>1, <3>2 DEF Unlocked
  <2>2. CASE Deactivate(a)
    <3> DEFINE new == [admin[a] EXCEPT !.pc = "write", !.off = admin[a].seen \cap ActiveSchemas]
    <3>1. /\ new \in Change /\ new.pc = "write" /\ new.op = admin[a].op /\ new.id = id
          /\ new.is_active = admin[a].is_active /\ new.off = admin[a].seen \cap ActiveSchemas
      BY <1>1, <2>2 DEF Change, ActiveSchemas, Stored
    <3>2. admin' = [admin EXCEPT ![a] = new] /\ Unlocked(a, admin[a].seen)
      BY <2>2 DEF Deactivate
    <3> HIDE DEF new
    <3> QED
      BY <3>1, <3>2 DEF Unlocked
  <2> QED
    BY <2>1, <2>2
<1>4. admin[a].is_active
  BY <1>1 DEF LocksStand
<1>5. admin'[a] = new /\ \A b \in Admins \ {a} : admin'[b] = admin[b]
  BY <1>1, <1>3 DEF VocabulariesTypeOK
<1>6. \A b \in Admins \ {a} : LockedBy(a)' \cap LockedBy(b) = {}
  <2>1. LockedBy(a)' = new.off \cup (IF admin[a].op = "activate" THEN {id} ELSE {})
    BY <1>3, <1>5 DEF LockedBy
  <2>2. admin[a].op = "activate" => id \in LockedBy(a)
    BY <1>1 DEF LockedBy
  <2> QED
    BY <1>1, <1>3, <2>1, <2>2 DEF LocksAreExclusive, Unlocked
<1>7. InsertIsNew(a)'
  BY <1>1, <1>2, <1>3, <1>5 DEF InsertIsNew, Busy
<1>8. LocksStand(a)'
  <2>1. /\ admin'[a].pc \in {"find", "deactivate"} => admin'[a].off = {} /\ admin'[a].is_active
        /\ admin'[a].pc = "save" <=> admin'[a].op = "patch"
        /\ admin'[a].off # {} => admin'[a].is_active
    BY <1>1, <1>3, <1>4, <1>5 DEF LocksStand
  <2>2. /\ admin'[a].op = "activate" => admin'[a].id \in Stored' /\ admin'[a].is_active
        /\ admin'[a].off \subseteq ActiveSchemas'
    <3>1. admin[a].op = "activate" => id \in Stored
      BY <1>1 DEF LocksStand
    <3> HIDE DEF id
    <3>2. admin'[a].op = admin[a].op /\ admin'[a].id = id /\ admin'[a].off \subseteq ActiveSchemas
      BY <1>3, <1>5
    <3>3. admin'[a].is_active
      BY <1>3, <1>4, <1>5
    <3> QED
      BY <1>2, <3>1, <3>2, <3>3
  <2> QED
    BY <2>1, <2>2 DEF LocksStand
<1>9. Replaces(a)'
  BY <1>3, <1>5 DEF Replaces, Wrote
<1>10. \A b \in Admins \ {a} : Busy(b) /\ admin[b].op = "create" => new.id # admin[b].id
  BY <1>1, <1>3 DEF VocabulariesInv, InsertIsNew
<1> QED
  BY <1>2, <1>3, <1>6, <1>7, <1>8, <1>9, <1>10, AdminGoesOn

\* A transaction is rolled back.
LEMMA DeathGoesOn ==
  ASSUME VocabulariesInv, NEW a \in Admins, DieChanging(a)
  PROVE  VocabulariesInv'
<1>1. admin' = [admin EXCEPT ![a] = AtRest] /\ UNCHANGED schema
  BY DEF DieChanging, GiveUp
<1>2. ~Busy(a)' /\ LockedBy(a)' = {} /\ AtRest.pc = "rest"
  BY <1>1, NotThere DEF Busy, LockedBy, VocabulariesInv, VocabulariesTypeOK
<1>3. InsertIsNew(a)' /\ LocksStand(a)' /\ Replaces(a)'
  BY <1>2 DEF InsertIsNew, LocksStand, Replaces
<1> QED
  BY <1>1, <1>2, <1>3, AdminGoesOn

\* A row is deleted that nobody has locked.
LEMMA DeletionLeavesOne ==
  ASSUME VocabulariesInv, NEW i \in Schemas, DestroySchema(i)
  PROVE  VocabulariesInv' /\ Replaced
<1>1. /\ i \in Stored /\ schema' = [schema EXCEPT ![i] = NoRow] /\ admin' = admin
      /\ \A b \in Admins : i \notin LockedBy(b)
  BY DEF DestroySchema
<1>2. VocabulariesTypeOK'
  BY <1>1 DEF VocabulariesInv, VocabulariesTypeOK
<1>3. /\ \A j \in Schemas \ {i} : schema'[j] = schema[j]
      /\ schema'[i] = NoRow
  BY <1>1 DEF VocabulariesInv, VocabulariesTypeOK
<1>4. ActiveSchemas' \subseteq ActiveSchemas /\ \A j \in ActiveSchemas : j = i \/ j \in ActiveSchemas'
  BY <1>3, NotThere DEF ActiveSchemas, Stored
<1>5. OneActive'
  BY <1>4 DEF OneActive, VocabulariesInv
<1>6. \A b \in Admins : Busy(b) /\ admin[b].op = "create" => admin[b].id # i
  BY <1>1, NotThere DEF VocabulariesInv, InsertIsNew, Stored
<1>7. PICK touched \in SUBSET Schemas, rest \in SUBSET Admins : touched = {i} /\ rest = {}
  OBVIOUS
<1>8. \A b \in Admins \ rest : admin'[b] = admin[b]
  BY <1>1
<1>9. \A b \in rest : admin'[b] = AtRest
  BY <1>7
<1>10. \A j \in Schemas \ touched : schema'[j] = schema[j]
  BY <1>3, <1>7
<1>11. \A b \in Admins \ rest : touched \cap LockedBy(b) = {}
  BY <1>1, <1>7
<1>12. \A b \in Admins \ rest : Busy(b) /\ admin[b].op = "create" => admin[b].id \notin touched
  BY <1>6, <1>7
<1>13. ActiveSchemas' \subseteq ActiveSchemas
  BY <1>4
<1>14. VocabulariesInv'
  BY <1>2, <1>5, <1>8, <1>9, <1>10, <1>11, <1>12, <1>13, RowsChange
<1> QED
  BY <1>3, <1>4, <1>14, NotThere, NothingReplaced

\* At most one vocabulary is active, and it is replaced, for any number of rows
\* and of requests that create, activate, patch and delete them side by side.
THEOREM VocabularyHolds == VocabulariesSpec => OneVocabulary
<1>1. VocabulariesInv /\ [VocabulariesNext]_vocabularyVars =>
        VocabulariesInv' /\ [Replaced]_vocabularyVars
  <2> SUFFICES ASSUME VocabulariesInv, [VocabulariesNext]_vocabularyVars
               PROVE  VocabulariesInv' /\ [Replaced]_vocabularyVars
    OBVIOUS
  <2>1. CASE UNCHANGED vocabularyVars
    BY <2>1 DEF vocabularyVars, VocabulariesInv, VocabulariesTypeOK, OneActive, LocksAreExclusive,
      InsertIsNew, LocksStand, Replaces, LockedBy, Busy, Wrote, ActiveSchemas, Stored
  <2>2. ASSUME UNCHANGED schema PROVE Replaced
    <3>1. ActiveSchemas' = ActiveSchemas
      BY <2>2 DEF ActiveSchemas, Stored
    <3> QED
      BY <3>1, NothingReplaced
  <2>3. ASSUME NEW a \in Admins, NEW i \in Schemas,
               \/ \E activate \in BOOLEAN : CreateSchema(a, i, activate)
               \/ ActivateSchema(a, i) \/ ReadSchema(a, i)
        PROVE  VocabulariesInv' /\ Replaced
    <3>1. UNCHANGED schema
      BY <2>3 DEF CreateSchema, ActivateSchema, ReadSchema
    <3> QED
      BY <2>2, <2>3, <3>1, AllBegin
  <2>4. ASSUME NEW a \in Admins, FindActive(a) \/ Deactivate(a) PROVE VocabulariesInv' /\ Replaced
    BY <2>2, <2>4, UpdateGoesOn DEF FindActive, Deactivate
  <2>5. ASSUME NEW a \in Admins, WriteSchema(a) PROVE VocabulariesInv' /\ Replaced
    BY <2>2, <2>5, WriteIsAlone DEF WriteSchema
  <2>6. ASSUME NEW a \in Admins, DieChanging(a) PROVE VocabulariesInv' /\ Replaced
    BY <2>2, <2>6, DeathGoesOn DEF DieChanging
  <2> QED
    BY <2>1, <2>3, <2>4, <2>5, <2>6, CommitReplaces, SaveKeepsOne, DeletionLeavesOne
       DEF VocabulariesNext
<1>2. OneVocabulary <=> [][Replaced]_vocabularyVars
  BY PTL DEF OneVocabulary, Replaced
<1> QED
  BY <1>1, <1>2, VocabulariesStart, PTL DEF VocabulariesSpec

-----------------------------------------------------------------------------
(* Monitors.                                                               *)

SlaCopy == [id : Instances, status : {"on_track", "at_risk"}]

SlaRun ==
  [job : {"slas"}, rows : SUBSET SlaCopy]
    \cup [job : {"escalation", "sla event"}, id : Instances,
          status : {"on_track", "at_risk", "overdue"}, rows : SUBSET SlaCopy]

CertRun ==
  [job : {"triggers"}, rows : SUBSET Triggers]
    \cup [job : {"breach"}, id : Triggers, rows : SUBSET Triggers]

SittingJobs == {"offsets", "sittings", "reminder"}

SittingRun ==
  [job : {"offsets"}, today : Days, rows : SUBSET Offsets]
    \cup [job : {"sittings", "reminder"}, today : Days, offset : Offsets, rest : SUBSET Offsets,
          ref : SUBSET Sittings, rows : SUBSET Sittings]

ReviewRun == [job : {"reviews"}, sla_cutoff : {SlaCutoff(time) : time \in 0..MaxClock},
              rows : SUBSET Items]

QualityRun == [job : {"items"}, rows : SUBSET [id : Items, quality_flagged : BOOLEAN]]

TaskRun == {NoRun} \cup SlaRun \cup CertRun \cup SittingRun \cup ReviewRun \cup QualityRun

Analysis == [sitting_ref : Exams, index : {"none", "low", "fine"}]

RunsTyped == run \in [Runners -> TaskRun] /\ clock \in 0..MaxClock

\* What a step of some jobs does to the runs.
Only(jobs) == \A t \in Runners : run'[t] = run[t] \/ run'[t].job \in jobs

\* What a step of other jobs, or of none, does to those of these.
Elsewhere(jobs) ==
  RunsTyped' /\ clock <= clock' /\ \A t \in Runners : run'[t] = run[t] \/ run'[t].job \notin jobs

OnlyOne(jobs) ==
  \A t \in Runners, u \in Runners : run[t].job \in jobs /\ run[u].job \in jobs => t = u

LEMMA RunsGoOn ==
  ASSUME RunsTyped, NEW t \in Runners, NEW w \in TaskRun, run' = [run EXCEPT ![t] = w],
         UNCHANGED clock
  PROVE  /\ RunsTyped' /\ run'[t] = w /\ \A u \in Runners \ {t} : run'[u] = run[u]
         /\ \A jobs : w.job \in jobs => Only(jobs)
<1>1. RunsTyped' /\ run'[t] = w /\ \A u \in Runners \ {t} : run'[u] = run[u]
  BY DEF RunsTyped
<1> QED
  BY <1>1 DEF Only

\* The kinds of runs, by their jobs.
LEMMA RunKinds ==
  ASSUME NEW w \in TaskRun
  PROVE  /\ w.job = "slas" => w \in [job : {"slas"}, rows : SUBSET SlaCopy]
         /\ w.job \in {"escalation", "sla event"} =>
              w \in [job : {"escalation", "sla event"}, id : Instances,
                     status : {"on_track", "at_risk", "overdue"}, rows : SUBSET SlaCopy]
         /\ w.job = "triggers" => w \in [job : {"triggers"}, rows : SUBSET Triggers]
         /\ w.job = "breach" => w \in [job : {"breach"}, id : Triggers, rows : SUBSET Triggers]
         /\ w.job = "offsets" => w \in [job : {"offsets"}, today : Days, rows : SUBSET Offsets]
         /\ w.job \in {"sittings", "reminder"} =>
              w \in [job : {"sittings", "reminder"}, today : Days, offset : Offsets,
                     rest : SUBSET Offsets, ref : SUBSET Sittings, rows : SUBSET Sittings]
         /\ w.job = "reviews" => w \in ReviewRun
         /\ w.job = "items" => w \in QualityRun
<1>1. /\ NoRun.job = "none"
      /\ w \in SlaRun => w.job \in {"slas", "escalation", "sla event"}
      /\ w \in CertRun => w.job \in {"triggers", "breach"}
      /\ w \in SittingRun => w.job \in {"offsets", "sittings", "reminder"}
      /\ w \in ReviewRun => w.job = "reviews"
      /\ w \in QualityRun => w.job = "items"
  BY DEF NoRun, SlaRun, CertRun, SittingRun, ReviewRun, QualityRun
<1>2. w.job \in {"slas", "escalation", "sla event"} => w \in SlaRun
  BY <1>1 DEF TaskRun
<1>3. w.job \in {"triggers", "breach"} => w \in CertRun
  BY <1>1 DEF TaskRun
<1>4. w.job \in {"offsets", "sittings", "reminder"} => w \in SittingRun
  BY <1>1 DEF TaskRun
<1>5. w.job = "reviews" => w \in ReviewRun
  BY <1>1 DEF TaskRun
<1>6. w.job = "items" => w \in QualityRun
  BY <1>1 DEF TaskRun
<1>7. /\ w.job = "slas" => w \in [job : {"slas"}, rows : SUBSET SlaCopy]
      /\ w.job \in {"escalation", "sla event"} =>
           w \in [job : {"escalation", "sla event"}, id : Instances,
                  status : {"on_track", "at_risk", "overdue"}, rows : SUBSET SlaCopy]
  BY <1>2 DEF SlaRun
<1>8. /\ w.job = "triggers" => w \in [job : {"triggers"}, rows : SUBSET Triggers]
      /\ w.job = "breach" => w \in [job : {"breach"}, id : Triggers, rows : SUBSET Triggers]
  BY <1>3 DEF CertRun
<1>9. /\ w.job = "offsets" => w \in [job : {"offsets"}, today : Days, rows : SUBSET Offsets]
      /\ w.job \in {"sittings", "reminder"} =>
           w \in [job : {"sittings", "reminder"}, today : Days, offset : Offsets,
                  rest : SUBSET Offsets, ref : SUBSET Sittings, rows : SUBSET Sittings]
  BY <1>4 DEF SittingRun
<1> QED
  BY <1>5, <1>6, <1>7, <1>8, <1>9

\* Service levels.  Status s lies before a service level of this status.
Before(status, s) == status = "on_track" \/ (status = "at_risk" /\ s = "overdue")

Due == clock >= Deadline - Threshold

\* What was never said lies before a service level that is being watched.
LevelIsDue(level, due) ==
  /\ level.status = "at_risk" => due
  /\ \A s \in Said : Before(level.status, s) => level.escalations[s] = 0

\* A row to be looked at was not yet escalated for what lies before it.
CopiesAreDue(w, levels, due) ==
  \A c \in w.rows :
    /\ c.status = "at_risk" => due
    /\ \A s \in Said : Before(c.status, s) => levels[c.id].escalations[s] = 0
    /\ \A other \in w.rows : other.id = c.id => other = c
    /\ w.job # "slas" => c.id # w.id

\* What a run is about to say was not yet said.
EscalationIsNew(w, levels) ==
  /\ w.job = "escalation" =>
       /\ w.status \in Said /\ ~Before(levels[w.id].status, w.status)
       /\ levels[w.id].escalations[w.status] = 0
  /\ w.job = "sla event" =>
       /\ w.status \in Said /\ ~Before(levels[w.id].status, w.status)
       /\ levels[w.id].escalations[w.status] = 1 /\ levels[w.id].published[w.status] = 0

RunIsDue(w, levels, due) ==
  w.job \in SlaJobs => CopiesAreDue(w, levels, due) /\ EscalationIsNew(w, levels)

SlaInv ==
  /\ sla \in [Instances -> SLAInstance] /\ SlaSaidOnce /\ OnlyOne(SlaJobs)
  /\ \A i \in Instances : LevelIsDue(sla[i], Due)
  /\ \A t \in Runners : RunIsDue(run[t], sla, Due)

LEMMA SlaElsewhere ==
  ASSUME RunsTyped, SlaInv, Elsewhere(SlaJobs), UNCHANGED sla
  PROVE  SlaInv'
<1>1. \A t \in Runners : run'[t].job \in SlaJobs => run'[t] = run[t]
  BY DEF Elsewhere
<1>2. Due => Due'
  BY MonitorsAssumption DEF Elsewhere, RunsTyped, Due
<1>3. OnlyOne(SlaJobs)'
  BY <1>1 DEF SlaInv, OnlyOne
<1>4. SlaSaidOnce'
  BY DEF SlaInv, SlaSaidOnce
<1>5. \A i \in Instances : LevelIsDue(sla'[i], Due')
  BY <1>2 DEF SlaInv, LevelIsDue
<1>6. \A t \in Runners : RunIsDue(run'[t], sla', Due')
  BY <1>1, <1>2 DEF SlaInv, RunIsDue, CopiesAreDue
<1> QED
  BY <1>3, <1>4, <1>5, <1>6 DEF SlaInv

LEMMA SlaRuns ==
  ASSUME RunsTyped, NEW t \in Runners, run[t].job \in SlaJobs
  PROVE  /\ run[t].rows \subseteq SlaCopy
         /\ run[t].job # "slas" =>
              run[t].id \in Instances /\ run[t].status \in {"on_track", "at_risk", "overdue"}
<1>1. run[t] \in TaskRun
  BY DEF RunsTyped
<1>2. CASE run[t].job = "slas"
  BY <1>1, <1>2, RunKinds
<1>3. CASE run[t].job \in {"escalation", "sla event"}
  <2>1. run[t] \in [job : {"escalation", "sla event"}, id : Instances,
                    status : {"on_track", "at_risk", "overdue"}, rows : SUBSET SlaCopy]
    BY <1>1, <1>3, RunKinds
  <2> QED
    BY <2>1
<1> QED
  BY <1>2, <1>3 DEF SlaJobs

\* A run has escalated or published status s of service level i, and goes on as w.
Recorded(t, w, i, s) ==
  /\ run' = [run EXCEPT ![t] = w] /\ UNCHANGED clock /\ w.rows = run[t].rows
  /\ sla' \in [Instances -> SLAInstance]
  /\ \A j \in Instances : sla'[j].status = sla[j].status
  /\ \A j \in Instances, r \in Said : (j = i /\ r = s)
       \/ /\ sla'[j].escalations[r] = sla[j].escalations[r]
          /\ sla'[j].published[r] = sla[j].published[r]
  /\ sla'[i].escalations[s] = 1 /\ sla'[i].published[s] \in {0, 1}
  /\ \/ w.job = "slas"
     \/ w.job = "sla event" /\ w.id = i /\ w.status = s /\ sla'[i].published[s] = 0

LEMMA SlaStepsKeep ==
  ASSUME RunsTyped, SlaInv, SlaSteps
  PROVE  RunsTyped' /\ SlaInv' /\ Only(SlaJobs)
<1>1. ASSUME NEW i \in Instances, CloseSla(i) PROVE RunsTyped' /\ SlaInv' /\ Only(SlaJobs)
  <2>1. /\ UNCHANGED <<run, clock>> /\ sla' = [sla EXCEPT ![i].status = "closed"]
        /\ sla \in [Instances -> SLAInstance]
    BY <1>1 DEF CloseSla, SlaInv
  <2>2. sla' \in [Instances -> SLAInstance] /\ (Due <=> Due')
    BY <2>1 DEF SLAInstance, Due
  <2>3. \A j \in Instances : /\ sla'[j].status = IF j = i THEN "closed" ELSE sla[j].status
                             /\ sla'[j].escalations = sla[j].escalations
                             /\ sla'[j].published = sla[j].published
    BY <2>1 DEF SLAInstance
  <2>4. SlaSaidOnce' /\ OnlyOne(SlaJobs)'
    BY <2>1, <2>3 DEF SlaInv, SlaSaidOnce, OnlyOne
  <2>5. \A j \in Instances : LevelIsDue(sla'[j], Due')
    BY <2>2, <2>3 DEF SlaInv, LevelIsDue, Before
  <2>6. ASSUME NEW t \in Runners, run[t].job \in SlaJobs PROVE RunIsDue(run[t], sla', Due')
    <3>1. \A c \in run[t].rows : c.id \in Instances
      BY <2>6, SlaRuns DEF SlaCopy
    <3>2. CopiesAreDue(run[t], sla, Due) /\ EscalationIsNew(run[t], sla)
      BY <2>6 DEF SlaInv, RunIsDue
    <3>3. CopiesAreDue(run[t], sla', Due')
      BY <2>2, <2>3, <3>1, <3>2 DEF CopiesAreDue
    <3>4. run[t].job # "slas" => run[t].id \in Instances
      BY <2>6, SlaRuns
    <3>5. EscalationIsNew(run[t], sla')
      BY <2>3, <3>2, <3>4 DEF EscalationIsNew, Before
    <3> QED
      BY <3>3, <3>5 DEF RunIsDue
  <2> QED
    BY <2>1, <2>2, <2>4, <2>5, <2>6 DEF SlaInv, RunsTyped, Only, RunIsDue
\* A step of the one run that lists and looks at service levels.
<1>2. ASSUME NEW t \in Runners, NEW w \in SlaRun, run' = [run EXCEPT ![t] = w], UNCHANGED clock,
             \A u \in Runners \ {t} : run[u].job \notin SlaJobs,
             sla' \in [Instances -> SLAInstance], SlaSaidOnce',
             \A i \in Instances : LevelIsDue(sla'[i], Due),
             RunIsDue(w, sla', Due)
      PROVE  RunsTyped' /\ SlaInv' /\ Only(SlaJobs)
  <2>1. w \in TaskRun /\ w.job \in SlaJobs
    BY DEF TaskRun, SlaRun, SlaJobs
  <2>2. /\ RunsTyped' /\ run'[t] = w /\ \A u \in Runners \ {t} : run'[u] = run[u]
        /\ Only(SlaJobs)
    BY <1>2, <2>1, RunsGoOn
  <2>3. OnlyOne(SlaJobs)' /\ (Due <=> Due')
    BY <1>2, <2>2 DEF OnlyOne, Due
  <2>4. \A u \in Runners : RunIsDue(run'[u], sla', Due')
    <3>1. RunIsDue(w, sla', Due')
      BY <1>2, <2>3 DEF RunIsDue, CopiesAreDue
    <3>2. \A u \in Runners \ {t} : RunIsDue(run'[u], sla', Due')
      BY <1>2, <2>2 DEF RunIsDue
    <3> QED
      BY <2>2, <3>1, <3>2
  <2>5. \A i \in Instances : LevelIsDue(sla'[i], Due')
    BY <1>2, <2>3 DEF LevelIsDue
  <2> QED
    BY <1>2, <2>2, <2>3, <2>4, <2>5 DEF SlaInv
<1>3. ASSUME NEW t \in Runners, run[t].job \in SlaJobs
      PROVE  /\ \A u \in Runners \ {t} : run[u].job \notin SlaJobs
             /\ CopiesAreDue(run[t], sla, Due) /\ EscalationIsNew(run[t], sla)
  BY <1>3 DEF SlaInv, OnlyOne, RunIsDue
<1>4. /\ sla \in [Instances -> SLAInstance] /\ SlaSaidOnce
      /\ \A i \in Instances : LevelIsDue(sla[i], Due)
  BY DEF SlaInv
<1>5. ASSUME NEW t \in Runners, ListSlas(t) PROVE RunsTyped' /\ SlaInv' /\ Only(SlaJobs)
  <2>1. PICK list : list = {[id |-> i, status |-> sla[i].status] :
                              i \in {j \in Instances : sla[j].status \in {"on_track", "at_risk"}}}
    OBVIOUS
  <2>2. PICK w : w = [job |-> "slas", rows |-> list]
    OBVIOUS
  <2>3. \A c \in list : /\ c \in SlaCopy /\ c.id \in Instances /\ c.status = sla[c.id].status
                        /\ c = [id |-> c.id, status |-> sla[c.id].status]
    BY <2>1 DEF SlaCopy
  <2>4. w \in SlaRun /\ w.job = "slas" /\ w.rows = list
    BY <2>2, <2>3 DEF SlaRun
  <2>5. /\ run' = [run EXCEPT ![t] = w] /\ UNCHANGED <<clock, sla>>
        /\ \A u \in Runners \ {t} : run[u].job \notin SlaJobs
    BY <1>5, <2>1, <2>2 DEF ListSlas, Start, Alone
  <2>6. \A c \in list, other \in list : other.id = c.id => other = c
    BY <2>3
  <2>7. CopiesAreDue(w, sla', Due)
    BY <1>4, <2>3, <2>4, <2>5, <2>6 DEF CopiesAreDue, LevelIsDue
  <2>8. SlaSaidOnce'
    BY <1>4, <2>5 DEF SlaSaidOnce
  <2>9. RunIsDue(w, sla', Due)
    BY <2>4, <2>7 DEF RunIsDue, EscalationIsNew
  <2> QED
    BY <1>2, <1>4, <2>4, <2>5, <2>8, <2>9
<1>6. ASSUME NEW t \in Runners, run[t].job = "slas", NEW c \in run[t].rows, CheckSla(t, c)
      PROVE  RunsTyped' /\ SlaInv' /\ Only(SlaJobs)
  <2>1. run[t] \in TaskRun /\ run[t].job \in SlaJobs
    BY <1>6 DEF RunsTyped, SlaJobs
  <2>2. run[t] \in [job : {"slas"}, rows : SUBSET SlaCopy]
    BY <1>6, <2>1, RunKinds
  <2>3. c \in SlaCopy /\ c.id \in Instances /\ c.status \in {"on_track", "at_risk"}
    BY <1>6, <2>2 DEF SlaCopy
  <2>4. CopiesAreDue(run[t], sla, Due) /\ \A u \in Runners \ {t} : run[u].job \notin SlaJobs
    BY <1>3, <2>1
  <2>5. PICK status : status = ComputeSlaStatus
    OBVIOUS
  <2>6. CASE status = c.status
    <3>1. PICK w : w = [run[t] EXCEPT !.rows = @ \ {c}]
      OBVIOUS
    <3>2. w \in SlaRun /\ w.job = "slas" /\ w.rows = run[t].rows \ {c}
      BY <2>2, <3>1 DEF SlaRun
    <3>3. run' = [run EXCEPT ![t] = w] /\ UNCHANGED <<clock, sla>>
      BY <1>6, <2>5, <2>6, <3>1 DEF CheckSla, Took
    <3>4. CopiesAreDue(w, sla', Due)
      BY <2>4, <3>2, <3>3 DEF CopiesAreDue
    <3>5. SlaSaidOnce' /\ RunIsDue(w, sla', Due)
      BY <1>4, <3>2, <3>3, <3>4 DEF SlaSaidOnce, RunIsDue, EscalationIsNew
    <3> QED
      BY <1>2, <1>4, <2>4, <3>2, <3>3, <3>5
  <2>7. CASE status # c.status
    <3>1. PICK w : w = [job |-> "escalation", id |-> c.id, status |-> status, rows |-> run[t].rows \ {c}]
      OBVIOUS
    <3>2. /\ status \in {"on_track", "at_risk", "overdue"} /\ (status = "at_risk" => Due)
          /\ Due => status # "on_track"
      BY <2>5, MonitorsAssumption DEF ComputeSlaStatus, Due, RunsTyped
    <3>3. /\ c.status = "at_risk" => Due
          /\ \A s \in Said : Before(c.status, s) => sla[c.id].escalations[s] = 0
      BY <1>6, <2>4 DEF CopiesAreDue
    <3>4. status \in Said /\ Before(c.status, status)
      <4>1. CASE c.status = "at_risk"
        <5>1. Due
          BY <3>3, <4>1
        <5>2. status = "overdue"
          BY <2>7, <3>2, <4>1, <5>1
        <5> QED
          BY <4>1, <5>2 DEF Said, Before
      <4>2. CASE c.status = "on_track"
        BY <2>7, <3>2, <4>2 DEF Said, Before
      <4> QED
        BY <2>3, <4>1, <4>2
    <3>5. /\ sla' = [sla EXCEPT ![c.id].status = status] /\ run' = [run EXCEPT ![t] = w]
          /\ UNCHANGED clock
      BY <1>6, <2>5, <2>7, <3>1 DEF CheckSla
    <3>6. /\ w \in SlaRun /\ w.job = "escalation" /\ w.id = c.id /\ w.status = status
          /\ w.rows = run[t].rows \ {c}
      BY <2>2, <2>3, <3>1, <3>2 DEF SlaRun
    <3>7. sla' \in [Instances -> SLAInstance]
      BY <1>4, <2>3, <3>2, <3>5 DEF SLAInstance
    <3>8. \A j \in Instances : /\ sla'[j].status = IF j = c.id THEN status ELSE sla[j].status
                               /\ sla'[j].escalations = sla[j].escalations
                               /\ sla'[j].published = sla[j].published
      BY <1>4, <2>3, <3>5 DEF SLAInstance
    <3>9. SlaSaidOnce'
      BY <1>4, <3>8 DEF SlaSaidOnce
    <3>10. LevelIsDue(sla'[c.id], Due)
      BY <2>3, <3>2, <3>3, <3>4, <3>8 DEF LevelIsDue, Before, Said
    <3>11. \A j \in Instances : LevelIsDue(sla'[j], Due)
      BY <1>4, <3>8, <3>10 DEF LevelIsDue
    <3>12. \A r \in w.rows : r \in run[t].rows /\ r.id \in Instances /\ r # c
      BY <2>2, <3>6 DEF SlaCopy
    <3>13. CopiesAreDue(w, sla', Due)
      BY <1>6, <2>4, <3>6, <3>8, <3>12 DEF CopiesAreDue
    <3>14. EscalationIsNew(w, sla')
      BY <2>3, <3>3, <3>4, <3>6, <3>8 DEF EscalationIsNew, Before, Said
    <3> QED
      BY <1>2, <2>4, <3>5, <3>6, <3>7, <3>9, <3>11, <3>13, <3>14 DEF RunIsDue
  <2> QED
    BY <2>6, <2>7
<1>7. ASSUME NEW t \in Runners, NEW w \in SlaRun, NEW i \in Instances, NEW s \in Said,
             run[t].job \in SlaJobs, run[t].job # "slas", i = run[t].id, ~Before(sla[i].status, s),
             Recorded(t, w, i, s)
      PROVE  RunsTyped' /\ SlaInv' /\ Only(SlaJobs)
  <2>0. /\ run' = [run EXCEPT ![t] = w] /\ UNCHANGED clock /\ w.rows = run[t].rows
        /\ sla' \in [Instances -> SLAInstance]
        /\ \/ w.job = "slas"
           \/ w.job = "sla event" /\ w.id = i /\ w.status = s /\ sla'[i].published[s] = 0
    BY <1>7 DEF Recorded
  <2>1. CopiesAreDue(run[t], sla, Due) /\ \A u \in Runners \ {t} : run[u].job \notin SlaJobs
    BY <1>3, <1>7
  <2>2. ASSUME NEW j \in Instances, NEW r \in Said, j # i \/ r # s
        PROVE  /\ sla'[j].escalations[r] = sla[j].escalations[r]
               /\ sla'[j].published[r] = sla[j].published[r]
    BY <1>7, <2>2 DEF Recorded
  <2>3. sla'[i].escalations[s] = 1 /\ sla'[i].published[s] \in {0, 1}
    BY <1>7 DEF Recorded
  <2>4. \A j \in Instances : sla'[j].status = sla[j].status
    BY <1>7 DEF Recorded
  <2>5. ASSUME NEW j \in Instances, NEW r \in Said
        PROVE  sla'[j].published[r] <= sla'[j].escalations[r] /\ sla'[j].escalations[r] <= 1
    <3>1. CASE j = i /\ r = s
      BY <2>3, <3>1
    <3>2. CASE j # i \/ r # s
      BY <1>4, <2>2, <3>2 DEF SlaSaidOnce
    <3> QED
      BY <3>1, <3>2
  <2>6. SlaSaidOnce'
    BY <2>5 DEF SlaSaidOnce
  <2>7. ASSUME NEW j \in Instances PROVE LevelIsDue(sla'[j], Due)
    <3>1. LevelIsDue(sla[j], Due)
      BY <1>4
    <3>2. ASSUME NEW r \in Said, Before(sla[j].status, r) PROVE sla'[j].escalations[r] = 0
      BY <1>7, <2>2, <3>1, <3>2 DEF LevelIsDue
    <3> QED
      BY <2>4, <3>1, <3>2 DEF LevelIsDue
  <2>8. run[t].rows \subseteq SlaCopy
    BY <1>7, SlaRuns
  <2>9. ASSUME NEW c \in run[t].rows PROVE c.id \in Instances /\ c.id # i
    <3>1. c \in SlaCopy
      BY <2>8
    <3> QED
      BY <1>7, <2>1, <3>1 DEF CopiesAreDue, SlaCopy
  <2>10. \A c \in run[t].rows, r \in Said : sla'[c.id].escalations[r] = sla[c.id].escalations[r]
    BY <2>2, <2>9
  <2>11. /\ w.rows = run[t].rows
         /\ w.job # "slas" => w.id = i
    BY <2>0
  <2>12. CopiesAreDue(w, sla', Due)
    BY <2>1, <2>9, <2>10, <2>11 DEF CopiesAreDue
  <2>13. EscalationIsNew(w, sla')
    BY <1>7, <2>0, <2>3, <2>4 DEF EscalationIsNew
  <2> QED
    BY <1>2, <2>0, <2>1, <2>6, <2>7, <2>12, <2>13 DEF RunIsDue
<1>8. ASSUME NEW t \in Runners, FireEscalation(t) PROVE RunsTyped' /\ SlaInv' /\ Only(SlaJobs)
  <2>1. PICK w : w = [run[t] EXCEPT !.job = "sla event"]
    OBVIOUS
  <2>2. PICK i, s : i = run[t].id /\ s = run[t].status
    OBVIOUS
  <2>3. run[t].job = "escalation" /\ run[t].job \in SlaJobs /\ run[t] \in TaskRun
    BY <1>8 DEF FireEscalation, SlaJobs, RunsTyped
  <2>4. run[t] \in [job : {"escalation", "sla event"}, id : Instances,
                    status : {"on_track", "at_risk", "overdue"}, rows : SUBSET SlaCopy]
    BY <2>3, RunKinds
  <2>5. EscalationIsNew(run[t], sla)
    BY <1>3, <2>3
  <2>6. i \in Instances /\ s \in Said /\ ~Before(sla[i].status, s) /\ sla[i].escalations[s] = 0
    BY <2>2, <2>3, <2>4, <2>5 DEF EscalationIsNew
  <2>7. /\ w \in SlaRun /\ w.job = "sla event" /\ w.id = i /\ w.status = s /\ w.rows = run[t].rows
    BY <2>1, <2>2, <2>4 DEF SlaRun
  <2>8. PICK said : said = [sla[i].escalations EXCEPT ![s] = sla[i].escalations[s] + 1]
    OBVIOUS
  <2>9. sla' = [sla EXCEPT ![i] = [sla[i] EXCEPT !.escalations = said]]
    BY <1>8, <2>2, <2>8 DEF FireEscalation
  <2>10. run' = [run EXCEPT ![t] = w] /\ UNCHANGED clock
    BY <1>8, <2>1 DEF FireEscalation
  <2>11. /\ sla[i].escalations \in [Said -> Nat] /\ sla[i].published \in [Said -> Nat]
    BY <1>4, <2>6 DEF SLAInstance
  <2>12. said \in [Said -> Nat] /\ said[s] = 1 /\ \A r \in Said \ {s} : said[r] = sla[i].escalations[r]
    BY <2>6, <2>8, <2>11
  <2>13. sla' \in [Instances -> SLAInstance]
    BY <1>4, <2>6, <2>9, <2>12 DEF SLAInstance
  <2>14. \A j \in Instances :
           /\ sla'[j].status = sla[j].status /\ sla'[j].published = sla[j].published
           /\ sla'[j].escalations = IF j = i THEN said ELSE sla[j].escalations
    BY <1>4, <2>6, <2>9 DEF SLAInstance
  <2>15. sla[i].published[s] = 0
    BY <1>4, <2>6, <2>11 DEF SlaSaidOnce
  <2> QED
    <3>1. \A j \in Instances, r \in Said : (j = i /\ r = s)
            \/ /\ sla'[j].escalations[r] = sla[j].escalations[r]
               /\ sla'[j].published[r] = sla[j].published[r]
      BY <2>12, <2>14
    <3>2. sla'[i].escalations[s] = 1 /\ sla'[i].published[s] = 0
      BY <2>6, <2>12, <2>14, <2>15
    <3>3. \A j \in Instances : sla'[j].status = sla[j].status
      BY <2>14
    <3>4. run[t].job # "slas" /\ i = run[t].id /\ sla'[i].published[s] \in {0, 1}
      BY <2>2, <2>3, <3>2
    <3> QED
      <4>1. Recorded(t, w, i, s)
        BY <2>7, <2>10, <2>13, <3>1, <3>2, <3>3, <3>4 DEF Recorded
      <4> QED
        BY <1>7, <2>3, <2>6, <2>7, <3>4, <4>1
<1>9. ASSUME NEW t \in Runners, PublishSla(t) PROVE RunsTyped' /\ SlaInv' /\ Only(SlaJobs)
  <2>1. PICK w : w = [job |-> "slas", rows |-> run[t].rows]
    OBVIOUS
  <2>2. PICK i, s : i = run[t].id /\ s = run[t].status
    OBVIOUS
  <2>3. run[t].job = "sla event" /\ run[t].job \in SlaJobs
    BY <1>9 DEF PublishSla, SlaJobs
  <2>4. run[t].id \in Instances /\ run[t].rows \subseteq SlaCopy
    BY <2>3, SlaRuns
  <2>5. EscalationIsNew(run[t], sla)
    BY <1>3, <2>3
  <2>6. /\ i \in Instances /\ s \in Said /\ ~Before(sla[i].status, s)
        /\ sla[i].escalations[s] = 1 /\ sla[i].published[s] = 0
    BY <2>2, <2>3, <2>4, <2>5 DEF EscalationIsNew
  <2>7. w \in SlaRun /\ w.job = "slas" /\ w.rows = run[t].rows
    BY <2>1, <2>4 DEF SlaRun
  <2>8. PICK said : said = [sla[i].published EXCEPT ![s] = sla[i].published[s] + 1]
    OBVIOUS
  <2>9. sla' = [sla EXCEPT ![i] = [sla[i] EXCEPT !.published = said]]
    BY <1>9, <2>2, <2>8 DEF PublishSla
  <2>10. run' = [run EXCEPT ![t] = w] /\ UNCHANGED clock
    BY <1>9, <2>1 DEF PublishSla
  <2>11. sla[i].published \in [Said -> Nat]
    BY <1>4, <2>6 DEF SLAInstance
  <2>12. said \in [Said -> Nat] /\ said[s] = 1 /\ \A r \in Said \ {s} : said[r] = sla[i].published[r]
    BY <2>6, <2>8, <2>11
  <2>13. sla' \in [Instances -> SLAInstance]
    BY <1>4, <2>6, <2>9, <2>12 DEF SLAInstance
  <2>14. \A j \in Instances :
           /\ sla'[j].status = sla[j].status /\ sla'[j].escalations = sla[j].escalations
           /\ sla'[j].published = IF j = i THEN said ELSE sla[j].published
    BY <1>4, <2>6, <2>9 DEF SLAInstance
  <2> QED
    <3>1. \A j \in Instances, r \in Said : (j = i /\ r = s)
            \/ /\ sla'[j].escalations[r] = sla[j].escalations[r]
               /\ sla'[j].published[r] = sla[j].published[r]
      BY <2>12, <2>14
    <3>2. sla'[i].escalations[s] = 1 /\ sla'[i].published[s] \in {0, 1}
      BY <2>6, <2>12, <2>14
    <3>3. \A j \in Instances : sla'[j].status = sla[j].status
      BY <2>14
    <3>4. run[t].job # "slas" /\ i = run[t].id
      BY <2>2, <2>3
    <3> QED
      <4>1. Recorded(t, w, i, s)
        BY <2>7, <2>10, <2>13, <3>1, <3>2, <3>3 DEF Recorded
      <4> QED
        BY <1>7, <2>3, <2>6, <2>7, <3>4, <4>1
<1> QED
  BY <1>1, <1>5, <1>6, <1>8, <1>9 DEF SlaSteps

\* Certificates.  A fired trigger, and one that a run is about to report, were
\* asked for once more than they were reported.
Late(record) == IF record.status = "fired" THEN 1 ELSE 0

ReportIsOwed(w, records) ==
  w.job \in CertJobs =>
    /\ \A i \in w.rows : records[i].breaches + 1 <= records[i].fires
    /\ w.job = "breach" =>
         /\ w.id \notin w.rows
         /\ records[w.id].breaches + 1 + Late(records[w.id]) <= records[w.id].fires

CertInv ==
  /\ trigger \in [Triggers -> CertTriggerRecord] /\ OnlyOne(CertJobs)
  /\ \A i \in Triggers : trigger[i].breaches + Late(trigger[i]) <= trigger[i].fires
  /\ \A t \in Runners : ReportIsOwed(run[t], trigger)

LEMMA CertElsewhere ==
  ASSUME RunsTyped, CertInv, Elsewhere(CertJobs), UNCHANGED trigger
  PROVE  CertInv'
<1>1. \A t \in Runners : run'[t].job \in CertJobs => run'[t] = run[t]
  BY DEF Elsewhere
<1>2. OnlyOne(CertJobs)'
  BY <1>1 DEF CertInv, OnlyOne
<1>3. \A t \in Runners : ReportIsOwed(run'[t], trigger')
  BY <1>1 DEF CertInv, ReportIsOwed
<1> QED
  BY <1>2, <1>3 DEF CertInv

LEMMA CertRuns ==
  ASSUME RunsTyped, NEW t \in Runners, run[t].job \in CertJobs
  PROVE  run[t].rows \subseteq Triggers /\ (run[t].job = "breach" => run[t].id \in Triggers)
<1>1. run[t] \in TaskRun
  BY DEF RunsTyped
<1>2. CASE run[t].job = "triggers"
  BY <1>1, <1>2, RunKinds
<1>3. CASE run[t].job = "breach"
  <2>1. run[t] \in [job : {"breach"}, id : Triggers, rows : SUBSET Triggers]
    BY <1>1, <1>3, RunKinds
  <2> QED
    BY <2>1
<1> QED
  BY <1>2, <1>3 DEF CertJobs

LEMMA CertStepsKeep ==
  ASSUME RunsTyped, CertInv, CertSteps
  PROVE  RunsTyped' /\ CertInv' /\ Only(CertJobs)
<1>1. /\ trigger \in [Triggers -> CertTriggerRecord]
      /\ \A i \in Triggers : /\ trigger[i].breaches \in Nat /\ trigger[i].fires \in Nat
                             /\ trigger[i].breaches + Late(trigger[i]) <= trigger[i].fires
      /\ \A t \in Runners : ReportIsOwed(run[t], trigger)
  BY DEF CertInv, CertTriggerRecord
\* A certificate is asked for, or acknowledged.
<1>2. ASSUME NEW i \in Triggers, UNCHANGED <<run, clock>>,
             trigger' \in [Triggers -> CertTriggerRecord],
             \A j \in Triggers \ {i} : trigger'[j] = trigger[j],
             trigger'[i].breaches = trigger[i].breaches,
             trigger'[i].fires + Late(trigger[i]) >= trigger[i].fires + Late(trigger'[i]),
             trigger'[i].fires >= trigger[i].fires
      PROVE  RunsTyped' /\ CertInv' /\ Only(CertJobs)
  <2>1. \A j \in Triggers : /\ trigger'[j].fires \in Nat /\ trigger'[j].breaches = trigger[j].breaches
                            /\ trigger'[j].fires >= trigger[j].fires
                            /\ trigger'[j].fires + Late(trigger[j]) >= trigger[j].fires + Late(trigger'[j])
    BY <1>1, <1>2 DEF CertTriggerRecord, Late
  <2>2. \A j \in Triggers : Late(trigger[j]) \in {0, 1} /\ Late(trigger'[j]) \in {0, 1}
    BY DEF Late
  <2>3. \A j \in Triggers : trigger'[j].breaches + Late(trigger'[j]) <= trigger'[j].fires
    BY <1>1, <2>1, <2>2
  <2>4. ASSUME NEW t \in Runners, run[t].job \in CertJobs PROVE ReportIsOwed(run[t], trigger')
    <3>1. run[t].rows \subseteq Triggers /\ (run[t].job = "breach" => run[t].id \in Triggers)
      BY <2>4, CertRuns
    <3>2. ASSUME NEW j \in run[t].rows PROVE trigger'[j].breaches + 1 <= trigger'[j].fires
      BY <1>1, <2>1, <2>4, <3>1, <3>2 DEF ReportIsOwed
    <3>3. ASSUME run[t].job = "breach"
          PROVE  /\ run[t].id \notin run[t].rows
                 /\ trigger'[run[t].id].breaches + 1 + Late(trigger'[run[t].id]) <= trigger'[run[t].id].fires
      <4>1. /\ run[t].id \notin run[t].rows /\ run[t].id \in Triggers
            /\ trigger[run[t].id].breaches + 1 + Late(trigger[run[t].id]) <= trigger[run[t].id].fires
        BY <1>1, <2>4, <3>1, <3>3 DEF ReportIsOwed
      <4> QED
        BY <1>1, <2>1, <2>2, <4>1
    <3> QED
      BY <3>2, <3>3 DEF ReportIsOwed
  <2>5. \A t \in Runners : ReportIsOwed(run'[t], trigger')
    BY <1>2, <2>4 DEF ReportIsOwed
  <2>6. OnlyOne(CertJobs)' /\ RunsTyped' /\ Only(CertJobs)
    BY <1>2 DEF CertInv, OnlyOne, RunsTyped, Only
  <2> QED
    BY <1>2, <2>3, <2>5, <2>6 DEF CertInv
<1>3. ASSUME NEW i \in Triggers, Fire(i) PROVE RunsTyped' /\ CertInv' /\ Only(CertJobs)
  <2>1. PICK record : record = [trigger[i] EXCEPT !.status = "fired", !.sla_deadline = clock + 1,
                                                  !.fires = trigger[i].fires + 1]
    OBVIOUS
  <2>2. trigger' = [trigger EXCEPT ![i] = record] /\ UNCHANGED <<run, clock>>
    BY <1>1, <1>3, <2>1 DEF Fire
  <2>3. clock + 1 \in Nat /\ trigger[i].fires + 1 \in Nat /\ trigger[i] \in CertTriggerRecord
    BY <1>1, MonitorsAssumption DEF RunsTyped
  <2>4. /\ record \in CertTriggerRecord /\ record.status = "fired"
        /\ record.breaches = trigger[i].breaches /\ record.fires = trigger[i].fires + 1
    BY <2>1, <2>3 DEF CertTriggerRecord
  <2>5. /\ trigger' \in [Triggers -> CertTriggerRecord] /\ trigger'[i] = record
        /\ \A j \in Triggers \ {i} : trigger'[j] = trigger[j]
    BY <1>1, <2>2, <2>4
  <2>6. /\ trigger'[i].breaches = trigger[i].breaches /\ trigger'[i].fires >= trigger[i].fires
        /\ trigger'[i].fires + Late(trigger[i]) >= trigger[i].fires + Late(trigger'[i])
    BY <1>1, <2>4, <2>5 DEF Late
  <2> QED
    BY <1>2, <2>2, <2>5, <2>6
<1>4. ASSUME NEW i \in Triggers, Acknowledge(i) PROVE RunsTyped' /\ CertInv' /\ Only(CertJobs)
  <2>1. PICK record : record = [trigger[i] EXCEPT !.status = "acknowledged"]
    OBVIOUS
  <2>2. trigger' = [trigger EXCEPT ![i] = record] /\ UNCHANGED <<run, clock>>
    BY <1>1, <1>4, <2>1 DEF Acknowledge
  <2>3. /\ record \in CertTriggerRecord /\ record.status = "acknowledged"
        /\ record.breaches = trigger[i].breaches /\ record.fires = trigger[i].fires
    BY <1>1, <2>1 DEF CertTriggerRecord
  <2>4. /\ trigger' \in [Triggers -> CertTriggerRecord] /\ trigger'[i] = record
        /\ \A j \in Triggers \ {i} : trigger'[j] = trigger[j]
    BY <1>1, <2>2, <2>3
  <2>5. /\ trigger'[i].breaches = trigger[i].breaches /\ trigger'[i].fires >= trigger[i].fires
        /\ trigger'[i].fires + Late(trigger[i]) >= trigger[i].fires + Late(trigger'[i])
    BY <1>1, <2>3, <2>4 DEF Late
  <2> QED
    BY <1>2, <2>2, <2>4, <2>5
\* A step of the one run that lists and looks at triggers.
<1>5. ASSUME NEW t \in Runners, NEW w \in CertRun, run' = [run EXCEPT ![t] = w], UNCHANGED clock,
             \A u \in Runners \ {t} : run[u].job \notin CertJobs,
             trigger' \in [Triggers -> CertTriggerRecord],
             \A i \in Triggers : trigger'[i].breaches + Late(trigger'[i]) <= trigger'[i].fires,
             ReportIsOwed(w, trigger')
      PROVE  RunsTyped' /\ CertInv' /\ Only(CertJobs)
  <2>1. w \in TaskRun /\ w.job \in CertJobs
    BY DEF TaskRun, CertRun, CertJobs
  <2>2. /\ RunsTyped' /\ run'[t] = w /\ \A u \in Runners \ {t} : run'[u] = run[u]
        /\ Only(CertJobs)
    BY <1>5, <2>1, RunsGoOn
  <2>3. OnlyOne(CertJobs)'
    BY <1>5, <2>2 DEF OnlyOne
  <2>4. \A u \in Runners : ReportIsOwed(run'[u], trigger')
    BY <1>5, <2>2 DEF ReportIsOwed
  <2> QED
    BY <1>5, <2>2, <2>3, <2>4 DEF CertInv
<1>6. ASSUME NEW t \in Runners, run[t].job \in CertJobs
      PROVE  \A u \in Runners \ {t} : run[u].job \notin CertJobs
  BY <1>6 DEF CertInv, OnlyOne
<1>7. ASSUME NEW t \in Runners, ListTriggers(t) PROVE RunsTyped' /\ CertInv' /\ Only(CertJobs)
  <2>1. PICK list : list = {i \in Triggers : trigger[i].status = "fired" /\ trigger[i].sla_deadline < clock}
    OBVIOUS
  <2>2. PICK w : w = [job |-> "triggers", rows |-> list]
    OBVIOUS
  <2>3. w \in CertRun /\ w.job = "triggers" /\ w.rows = list
    BY <2>1, <2>2 DEF CertRun
  <2>4. /\ run' = [run EXCEPT ![t] = w] /\ UNCHANGED <<clock, trigger>>
        /\ \A u \in Runners \ {t} : run[u].job \notin CertJobs
    BY <1>7, <2>1, <2>2 DEF ListTriggers, Start, Alone
  <2>5. \A i \in list : trigger[i].breaches + 1 <= trigger[i].fires
    BY <1>1, <2>1 DEF Late
  <2>6. ReportIsOwed(w, trigger')
    BY <2>3, <2>4, <2>5 DEF ReportIsOwed
  <2> QED
    BY <1>1, <1>5, <2>3, <2>4, <2>6
<1>8. ASSUME NEW t \in Runners, NEW i \in Triggers, CheckTrigger(t, i)
      PROVE  RunsTyped' /\ CertInv' /\ Only(CertJobs)
  <2>1. run[t].job = "triggers" /\ run[t].job \in CertJobs /\ i \in run[t].rows
    BY <1>8 DEF CheckTrigger, CertJobs
  <2>2. run[t].rows \subseteq Triggers
    BY <2>1, CertRuns
  <2>3. \A j \in run[t].rows : trigger[j].breaches + 1 <= trigger[j].fires
    BY <1>1, <2>1 DEF ReportIsOwed
  <2>4. PICK w : w = [job |-> "breach", id |-> i, rows |-> run[t].rows \ {i}]
    OBVIOUS
  <2>5. w \in CertRun /\ w.job = "breach" /\ w.id = i /\ w.rows = run[t].rows \ {i}
    BY <2>2, <2>4 DEF CertRun
  <2>6. PICK record : record = [trigger[i] EXCEPT !.status = "sla_breached"]
    OBVIOUS
  <2>7. /\ run' = [run EXCEPT ![t] = w] /\ UNCHANGED clock
        /\ trigger' = [trigger EXCEPT ![i] = record]
    BY <1>1, <1>8, <2>4, <2>6 DEF CheckTrigger
  <2>8. /\ record \in CertTriggerRecord /\ record.status = "sla_breached"
        /\ record.breaches = trigger[i].breaches /\ record.fires = trigger[i].fires
    BY <1>1, <2>6 DEF CertTriggerRecord
  <2>9. /\ trigger' \in [Triggers -> CertTriggerRecord] /\ trigger'[i] = record
        /\ \A j \in Triggers \ {i} : trigger'[j] = trigger[j]
    BY <1>1, <2>7, <2>8
  <2>10. Late(trigger'[i]) = 0 /\ Late(trigger[i]) \in {0, 1}
    BY <2>8, <2>9 DEF Late
  <2>11. \A j \in Triggers : trigger'[j].breaches + Late(trigger'[j]) <= trigger'[j].fires
    BY <1>1, <2>8, <2>9, <2>10
  <2>12. /\ \A j \in w.rows : trigger'[j].breaches + 1 <= trigger'[j].fires
         /\ trigger'[i].breaches + 1 + Late(trigger'[i]) <= trigger'[i].fires
    BY <1>1, <2>1, <2>2, <2>3, <2>5, <2>8, <2>9, <2>10
  <2>13. ReportIsOwed(w, trigger')
    BY <2>5, <2>12 DEF ReportIsOwed
  <2> QED
    BY <1>5, <1>6, <2>1, <2>5, <2>7, <2>9, <2>11, <2>13
<1>9. ASSUME NEW t \in Runners, PublishBreach(t) PROVE RunsTyped' /\ CertInv' /\ Only(CertJobs)
  <2>1. run[t].job = "breach" /\ run[t].job \in CertJobs
    BY <1>9 DEF PublishBreach, CertJobs
  <2>2. run[t].rows \subseteq Triggers /\ run[t].id \in Triggers
    BY <2>1, CertRuns
  <2>3. PICK i : i = run[t].id
    OBVIOUS
  <2>4. /\ \A j \in run[t].rows : trigger[j].breaches + 1 <= trigger[j].fires
        /\ i \notin run[t].rows /\ trigger[i].breaches + 1 + Late(trigger[i]) <= trigger[i].fires
    BY <1>1, <2>1, <2>3 DEF ReportIsOwed
  <2>5. PICK w : w = [job |-> "triggers", rows |-> run[t].rows]
    OBVIOUS
  <2>6. w \in CertRun /\ w.job = "triggers" /\ w.rows = run[t].rows
    BY <2>2, <2>5 DEF CertRun
  <2>7. PICK record : record = [trigger[i] EXCEPT !.breaches = trigger[i].breaches + 1]
    OBVIOUS
  <2>8. /\ run' = [run EXCEPT ![t] = w] /\ UNCHANGED clock
        /\ trigger' = [trigger EXCEPT ![i] = record]
    BY <1>1, <1>9, <2>2, <2>3, <2>5, <2>7 DEF PublishBreach
  <2>9. /\ record \in CertTriggerRecord /\ record.status = trigger[i].status
        /\ record.breaches = trigger[i].breaches + 1 /\ record.fires = trigger[i].fires
    BY <1>1, <2>2, <2>3, <2>7 DEF CertTriggerRecord
  <2>10. /\ trigger' \in [Triggers -> CertTriggerRecord] /\ trigger'[i] = record
         /\ \A j \in Triggers \ {i} : trigger'[j] = trigger[j]
    BY <1>1, <2>2, <2>3, <2>8, <2>9
  <2>11. Late(trigger'[i]) = Late(trigger[i]) /\ Late(trigger[i]) \in {0, 1}
    BY <2>9, <2>10 DEF Late
  <2>12. \A j \in Triggers : trigger'[j].breaches + Late(trigger'[j]) <= trigger'[j].fires
    BY <1>1, <2>2, <2>3, <2>4, <2>9, <2>10, <2>11
  <2>13. \A j \in w.rows : trigger'[j].breaches + 1 <= trigger'[j].fires
    BY <2>2, <2>4, <2>6, <2>10
  <2>14. ReportIsOwed(w, trigger')
    BY <2>6, <2>13 DEF ReportIsOwed
  <2> QED
    BY <1>5, <1>6, <2>1, <2>6, <2>8, <2>10, <2>12, <2>14
<1> QED
  BY <1>3, <1>4, <1>7, <1>8, <1>9 DEF CertSteps

\* Reminders.  Whoever is in the middle of a reminder is alone with the sitting,
\* and it has not been sent.
RemindersInv ==
  /\ reminded \in [Sittings \X Offsets \X Days -> {0, 1}]
  /\ \A t \in Runners : run[t].job = "reminder" =>
       /\ \A s \in run[t].ref : reminded[s, run[t].offset, run[t].today] = 0
       /\ \A u \in Runners \ {t} : run[u].job = "reminder" => run[t].ref \cap run[u].ref = {}

LEMMA RemindersElsewhere ==
  ASSUME RunsTyped, RemindersInv, Elsewhere({"reminder"}), UNCHANGED reminded
  PROVE  RemindersInv'
<1>1. \A t \in Runners : run'[t].job = "reminder" => run'[t] = run[t]
  BY DEF Elsewhere
<1> QED
  BY <1>1 DEF RemindersInv

LEMMA SittingStepsRemind ==
  ASSUME RunsTyped, RemindersInv, SittingSteps
  PROVE  RunsTyped' /\ RemindersInv' /\ Only(SittingJobs)
<1>1. ASSUME NEW s \in Sittings, \/ MonitorT30Lock(s) \/ CloseSitting(s)
                                 \/ \E date \in Dates : Reschedule(s, date)
      PROVE  RunsTyped' /\ RemindersInv' /\ Only(SittingJobs)
  <2>1. UNCHANGED <<run, clock, reminded>>
    BY <1>1 DEF MonitorT30Lock, CloseSitting, Reschedule
  <2> QED
    BY <2>1 DEF RemindersInv, RunsTyped, Only
<1>2. Today \in Days
  BY MonitorsAssumption DEF RunsTyped, Today, Days, Day
<1>3. ASSUME NEW t \in Runners, NEW w \in SittingRun, run' = [run EXCEPT ![t] = w], UNCHANGED clock
      PROVE  /\ RunsTyped' /\ run'[t] = w /\ \A u \in Runners \ {t} : run'[u] = run[u]
             /\ Only(SittingJobs)
  <2>1. w \in TaskRun /\ w.job \in SittingJobs
    BY DEF TaskRun, SittingRun, SittingJobs
  <2> QED
    BY <1>3, <2>1, RunsGoOn
\* A step of one run that is no reminder afterwards, and reminds of nothing.
<1>4. ASSUME NEW t \in Runners, NEW w \in SittingRun, w.job # "reminder",
             run' = [run EXCEPT ![t] = w], UNCHANGED <<clock, reminded>>
      PROVE  RunsTyped' /\ RemindersInv' /\ Only(SittingJobs)
  <2>1. /\ RunsTyped' /\ run'[t] = w /\ \A u \in Runners \ {t} : run'[u] = run[u]
        /\ Only(SittingJobs)
    BY <1>3, <1>4
  <2>2. RemindersInv'
    BY <1>4, <2>1 DEF RemindersInv
  <2> QED
    BY <2>1, <2>2
<1>5. ASSUME NEW t \in Runners, SendT30Reminders(t)
      PROVE  RunsTyped' /\ RemindersInv' /\ Only(SittingJobs)
  <2>1. PICK w : w = [job |-> "offsets", today |-> Today, rows |-> Offsets]
    OBVIOUS
  <2>2. w \in SittingRun /\ w.job # "reminder"
    BY <1>2, <2>1 DEF SittingRun
  <2> QED
    BY <1>4, <1>5, <2>1, <2>2 DEF SendT30Reminders, Start, sittingVars
<1>6. ASSUME NEW t \in Runners, NEW offset \in Offsets, ListSittings(t, offset)
      PROVE  RunsTyped' /\ RemindersInv' /\ Only(SittingJobs)
  <2>1. run[t] \in TaskRun /\ run[t].job = "offsets"
    BY <1>6 DEF ListSittings, RunsTyped
  <2>2. run[t] \in [job : {"offsets"}, today : Days, rows : SUBSET Offsets]
    BY <2>1, RunKinds
  <2>3. PICK list : list = {s \in Sittings : /\ sitting[s].date = run[t].today + offset
                                             /\ sitting[s].status # "closed"}
    OBVIOUS
  <2>4. PICK w : w = [job |-> "sittings", today |-> run[t].today, offset |-> offset,
                      rest |-> run[t].rows \ {offset}, ref |-> {}, rows |-> list]
    OBVIOUS
  <2>5. w \in SittingRun /\ w.job # "reminder"
    BY <2>2, <2>3, <2>4 DEF SittingRun
  <2>6. run' = [run EXCEPT ![t] = w] /\ UNCHANGED <<clock, reminded>>
    BY <1>6, <2>3, <2>4 DEF ListSittings, sittingVars
  <2> QED
    BY <1>4, <2>5, <2>6
<1>7. ASSUME NEW t \in Runners, run[t].job \in {"sittings", "reminder"}
      PROVE  run[t] \in [job : {"sittings", "reminder"}, today : Days, offset : Offsets,
                         rest : SUBSET Offsets, ref : SUBSET Sittings, rows : SUBSET Sittings]
  <2>1. run[t] \in TaskRun
    BY DEF RunsTyped
  <2> QED
    BY <1>7, <2>1, RunKinds
<1>8. ASSUME NEW t \in Runners, NextOffset(t) PROVE RunsTyped' /\ RemindersInv' /\ Only(SittingJobs)
  <2>1. run[t].today \in Days /\ run[t].rest \subseteq Offsets
    BY <1>7, <1>8 DEF NextOffset
  <2>2. PICK w : w = [job |-> "offsets", today |-> run[t].today, rows |-> run[t].rest]
    OBVIOUS
  <2>3. w \in SittingRun /\ w.job # "reminder"
    BY <2>1, <2>2 DEF SittingRun
  <2>4. run' = [run EXCEPT ![t] = w] /\ UNCHANGED <<clock, reminded>>
    BY <1>8, <2>2 DEF NextOffset, sittingVars
  <2> QED
    BY <1>4, <2>3, <2>4
<1>9. ASSUME NEW t \in Runners, NEW s \in Sittings, LockForReminder(t, s)
      PROVE  RunsTyped' /\ RemindersInv' /\ Only(SittingJobs)
  <2>1. /\ run[t].job = "sittings" /\ UNCHANGED <<clock, reminded>>
        /\ \A u \in Runners : run[u].job = "reminder" => s \notin run[u].ref
    BY <1>9 DEF LockForReminder, sittingVars, RowIsFree
  <2>2. run[t] \in [job : {"sittings", "reminder"}, today : Days, offset : Offsets,
                    rest : SUBSET Offsets, ref : SUBSET Sittings, rows : SUBSET Sittings]
    BY <1>7, <2>1
  <2>3. CASE Took(t, s)
    <3>1. PICK w : w = [run[t] EXCEPT !.rows = @ \ {s}]
      OBVIOUS
    <3>2. w \in SittingRun /\ w.job # "reminder"
      BY <2>1, <2>2, <3>1 DEF SittingRun
    <3>3. run' = [run EXCEPT ![t] = w]
      BY <2>3, <3>1 DEF Took
    <3> QED
      BY <1>4, <2>1, <3>2, <3>3
  <2>4. CASE /\ ~AlreadySent(s, run[t].offset, run[t].today)
             /\ run' = [run EXCEPT ![t].job = "reminder", ![t].rows = @ \ {s}, ![t].ref = {s}]
    <3>1. PICK w : w = [run[t] EXCEPT !.job = "reminder", !.rows = @ \ {s}, !.ref = {s}]
      OBVIOUS
    <3>2. /\ w \in SittingRun /\ w.ref = {s} /\ w.offset = run[t].offset /\ w.today = run[t].today
          /\ w.offset \in Offsets /\ w.today \in Days
      BY <2>2, <3>1 DEF SittingRun
    <3>3. run' = [run EXCEPT ![t] = w]
      BY <2>4, <3>1
    <3>4. /\ RunsTyped' /\ run'[t] = w /\ \A u \in Runners \ {t} : run'[u] = run[u]
          /\ Only(SittingJobs)
      BY <1>3, <2>1, <3>2, <3>3
    <3>5. <<s, w.offset, w.today>> \in Sittings \X Offsets \X Days
      BY <3>2
    <3>6. PICK n : n = reminded[s, w.offset, w.today]
      OBVIOUS
    <3>7. n \in {0, 1}
      BY <3>5, <3>6 DEF RemindersInv
    <3>8. ~(n > 0)
      BY <2>4, <3>2, <3>6 DEF AlreadySent
    <3>9. n = 0
      BY <3>7, <3>8
    <3>10. ASSUME NEW u \in Runners, run'[u].job = "reminder", NEW v \in Runners \ {u}, run'[v].job = "reminder"
           PROVE  run'[u].ref \cap run'[v].ref = {}
      <4>1. CASE u = t \/ v = t
        BY <2>1, <3>2, <3>4, <3>10, <4>1
      <4>2. CASE u # t /\ v # t
        BY <3>4, <3>10, <4>2 DEF RemindersInv
      <4> QED
        BY <4>1, <4>2
    <3>11. ASSUME NEW u \in Runners, run'[u].job = "reminder", NEW s2 \in run'[u].ref
           PROVE  reminded[s2, run'[u].offset, run'[u].today] = 0
      <4>1. CASE u = t
        BY <3>2, <3>4, <3>6, <3>9, <3>11, <4>1
      <4>2. CASE u # t
        BY <3>4, <3>11, <4>2 DEF RemindersInv
      <4> QED
        BY <4>1, <4>2
    <3>12. RemindersInv'
      BY <2>1, <3>10, <3>11 DEF RemindersInv
    <3> QED
      BY <3>4, <3>12
  <2> QED
    BY <1>9, <2>3, <2>4 DEF LockForReminder
<1>10. ASSUME NEW t \in Runners, RecordReminder(t)
       PROVE  RunsTyped' /\ RemindersInv' /\ Only(SittingJobs)
  <2>1. run[t].job = "reminder" /\ UNCHANGED clock
    BY <1>10 DEF RecordReminder
  <2>2. run[t] \in [job : {"sittings", "reminder"}, today : Days, offset : Offsets,
                    rest : SUBSET Offsets, ref : SUBSET Sittings, rows : SUBSET Sittings]
    BY <1>7, <2>1
  <2>3. PICK w : w = [run[t] EXCEPT !.job = "sittings"]
    OBVIOUS
  <2>4. w \in SittingRun /\ w.job # "reminder"
    BY <2>2, <2>3 DEF SittingRun
  <2>5. run' = [run EXCEPT ![t] = w]
    BY <1>10, <2>3 DEF RecordReminder
  <2>6. /\ RunsTyped' /\ run'[t] = w /\ \A u \in Runners \ {t} : run'[u] = run[u]
        /\ Only(SittingJobs)
    BY <1>3, <2>1, <2>4, <2>5
  <2>7. PICK ref, offset, day : ref = run[t].ref /\ offset = run[t].offset /\ day = run[t].today
    OBVIOUS
  <2>8. /\ reminded \in [Sittings \X Offsets \X Days -> {0, 1}]
        /\ ref \subseteq Sittings /\ \A s \in ref : reminded[s, offset, day] = 0
    BY <2>1, <2>2, <2>7 DEF RemindersInv
  <2>9. reminded' = [r \in Sittings \X Offsets \X Days |->
          reminded[r] + IF r[1] \in ref /\ r[2] = offset /\ r[3] = day THEN 1 ELSE 0]
    BY <1>10, <2>7, <2>8 DEF RecordReminder
  <2>10. ASSUME NEW r \in Sittings \X Offsets \X Days
         PROVE  /\ reminded'[r] \in {0, 1}
                /\ reminded'[r] = reminded[r] \/ (r[1] \in ref /\ r[2] = offset /\ r[3] = day)
    <3>1. CASE r[1] \in ref /\ r[2] = offset /\ r[3] = day
      <4>1. r = <<r[1], offset, day>>
        BY <3>1
      <4>2. reminded[r] = 0
        BY <2>8, <3>1, <4>1
      <4> QED
        BY <2>9, <3>1, <4>2
    <3>2. CASE ~(r[1] \in ref /\ r[2] = offset /\ r[3] = day)
      <4>1. reminded'[r] = reminded[r] + 0
        BY <2>9, <3>2
      <4>2. reminded[r] \in {0, 1}
        BY <2>8
      <4> QED
        BY <4>1, <4>2
    <3> QED
      BY <3>1, <3>2
  <2>11. reminded' \in [Sittings \X Offsets \X Days -> {0, 1}]
    BY <2>9, <2>10
  <2>12. ASSUME NEW u \in Runners \ {t}, run[u].job = "reminder", NEW s \in run[u].ref
         PROVE  reminded'[s, run[u].offset, run[u].today] = 0
    <3>1. s \in Sittings /\ run[u].offset \in Offsets /\ run[u].today \in Days
      BY <1>7, <2>12
    <3>2. PICK r : r = <<s, run[u].offset, run[u].today>>
      OBVIOUS
    <3>3. r \in Sittings \X Offsets \X Days /\ r[1] = s
      BY <3>1, <3>2
    <3>4. reminded[r] = 0 /\ s \notin ref
      BY <2>1, <2>7, <2>12, <3>2 DEF RemindersInv
    <3> QED
      BY <2>10, <3>2, <3>3, <3>4
  <2>13. RemindersInv'
    BY <2>4, <2>6, <2>11, <2>12 DEF RemindersInv
  <2> QED
    BY <2>6, <2>13
<1> QED
  BY <1>1, <1>5, <1>6, <1>8, <1>9, <1>10 DEF SittingSteps

LEMMA OneTo ==
  ASSUME NEW n \in Nat
  PROVE  IsFiniteSet(1..n) /\ Cardinality(1..n) = n
<1>1. IsFiniteSet(1..n) /\ Cardinality(1..n) = IF 1 > n THEN 0 ELSE (n - 1) + 1
  BY FS_Interval
<1> QED
  BY <1>1

LEMMA OneLess ==
  ASSUME NEW S, IsFiniteSet(S), NEW x \in S, NEW n \in Nat, Cardinality(S) = n + 1
  PROVE  IsFiniteSet(S \ {x}) /\ Cardinality(S \ {x}) = n
<1>1. IsFiniteSet(S \ {x}) /\ Cardinality(S \ {x}) = Cardinality(S) - 1
  BY FS_RemoveElement
<1> QED
  BY <1>1

\* Five weekdays lie within the last five to seven days.
LEMMA FiveWeekdays ==
  ASSUME NEW today \in Nat
  PROVE  \E k \in 5..7 :
           /\ Weekday(today - k)
           /\ Cardinality({j \in 1..k : Weekday(today - j)}) = 5
<1>1. PICK m \in 0..6, q \in Int : today = (7 * q) + m
  <2>1. today % 7 \in 0..6 /\ today \div 7 \in Int /\ today = (7 * (today \div 7)) + (today % 7)
    OBVIOUS
  <2> QED
    BY <2>1
<1>2. ASSUME NEW j \in 1..7
      PROVE  (today - j) % 7 = IF j <= m THEN m - j ELSE (m + 7) - j
  BY <1>1
<1>3. \A j \in 1..7 : Weekday(today - j) <=> (IF j <= m THEN m - j ELSE (m + 7) - j) < 5
  BY <1>2 DEF Weekday
<1>4. CASE m <= 4
  <2>1. {j \in 1..7 : Weekday(today - j)} = ((1..7) \ {m + 1}) \ {m + 2}
    BY <1>3, <1>4
  <2>2. PICK S : S = 1..7
    OBVIOUS
  <2>3. IsFiniteSet(S) /\ Cardinality(S) = 7 /\ Weekday(today - 7)
    <3>1. PICK n \in Nat : n = 7
      OBVIOUS
    <3>2. IsFiniteSet(S) /\ Cardinality(S) = 7
      BY <2>2, <3>1, OneTo
    <3> QED
      BY <1>3, <1>4, <3>2
  <2>4. PICK x, y : x = m + 1 /\ y = m + 2
    OBVIOUS
  <2>5. x \in S /\ y \in S \ {x}
    BY <1>4, <2>2, <2>4
  <2>6. IsFiniteSet(S \ {x}) /\ Cardinality(S \ {x}) = 6
    <3>1. PICK n \in Nat : n = 6 /\ 7 = n + 1
      OBVIOUS
    <3> QED
      BY <2>3, <2>5, <3>1, OneLess
  <2>7. Cardinality((S \ {x}) \ {y}) = 5
    <3>1. PICK n \in Nat : n = 5 /\ 6 = n + 1
      OBVIOUS
    <3> QED
      BY <2>5, <2>6, <3>1, OneLess
  <2>8. Cardinality({j \in 1..7 : Weekday(today - j)}) = 5
    BY <2>1, <2>2, <2>4, <2>7
  <2> WITNESS 7 \in 5..7
  <2> QED
    BY <2>3, <2>8
<1>5. CASE m = 5
  <2>1. {j \in 1..5 : Weekday(today - j)} = 1..5 /\ Weekday(today - 5)
    BY <1>3, <1>5
  <2>2. Cardinality(1..5) = 5
    <3>1. PICK n \in Nat : n = 5
      OBVIOUS
    <3> QED
      BY <3>1, OneTo
  <2> WITNESS 5 \in 5..7
  <2> QED
    BY <2>1, <2>2
<1>6. CASE m = 6
  <2>1. {j \in 1..6 : Weekday(today - j)} = (1..6) \ {1} /\ Weekday(today - 6)
    BY <1>3, <1>6
  <2>2. PICK S, x : S = 1..6 /\ x = 1
    OBVIOUS
  <2>3. IsFiniteSet(S) /\ Cardinality(S) = 6 /\ x \in S
    <3>1. PICK n \in Nat : n = 6
      OBVIOUS
    <3>2. IsFiniteSet(S) /\ Cardinality(S) = 6
      BY <2>2, <3>1, OneTo
    <3> QED
      BY <2>2, <3>2
  <2>4. Cardinality(S \ {x}) = 5
    <3>1. PICK n \in Nat : n = 5 /\ 6 = n + 1
      OBVIOUS
    <3> QED
      BY <2>3, <3>1, OneLess
  <2>5. Cardinality({j \in 1..6 : Weekday(today - j)}) = 5
    BY <2>1, <2>2, <2>4
  <2> WITNESS 6 \in 5..7
  <2> QED
    BY <2>1, <2>5
<1> QED
  BY <1>4, <1>5, <1>6

\* What waits since before the cut-off of a time has waited for five weekdays.
LEMMA CutoffIsFiveWeekdays ==
  ASSUME NEW time \in Nat, NEW since \in Nat, NEW at \in Nat, since < SlaCutoff(time), time <= at
  PROVE  Cardinality({day \in (since \div Day)..(at \div Day - 1) : Weekday(day)}) >= 5
<1>1. PICK today \in Nat : today = time \div Day
  BY DEF Day
<1>2. PICK back : back = CHOOSE k \in 5..7 :
        /\ Weekday(today - k)
        /\ Cardinality({j \in 1..k : Weekday(today - j)}) = 5
  OBVIOUS
<1>3. /\ back \in 5..7
      /\ Cardinality({j \in 1..back : Weekday(today - j)}) = 5
  BY <1>2, FiveWeekdays
<1>4. since < time - 2 * back
  BY <1>1, <1>2 DEF SlaCutoff, Day
<1>5. /\ since \div Day \in Int /\ at \div Day \in Int
      /\ since \div Day <= today - back /\ today <= at \div Day
  BY <1>1, <1>3, <1>4 DEF Day
<1> DEFINE S == {j \in 1..back : Weekday(today - j)}
           T == {day \in (since \div Day)..(at \div Day - 1) : Weekday(day)}
           f == [j \in S |-> today - j]
<1>6. f \in Injection(S, T)
  <2>1. ASSUME NEW j \in S PROVE f[j] \in T
    BY <1>3, <1>5
  <2>2. \A j \in S, k \in S : f[j] = f[k] => j = k
    BY <1>3
  <2> QED
    BY <2>1, <2>2 DEF Injection, IsInjective
<1>7. IsFiniteSet(T)
  <2>1. IsFiniteSet((since \div Day)..(at \div Day - 1))
    BY <1>5, FS_Interval
  <2> QED
    BY <2>1, FS_Subset
<1>8. Cardinality(S) <= Cardinality(T)
  <2> HIDE DEF S, T, f
  <2> QED
    BY <1>6, <1>7, FS_Injection
<1>9. Cardinality(T) \in Nat
  BY <1>7, FS_CardinalityType
<1> QED
  BY <1>3, <1>8, <1>9

\* Items in review.  The cut-off of a run is that of a time that has passed.
ReviewInv ==
  /\ review \in [Items -> [on : BOOLEAN, since : 0..MaxClock]]
  /\ DOMAIN escalated = Items /\ EscalationIsDue
  /\ \A t \in Runners : run[t].job = "reviews" =>
       \E time \in 0..clock : run[t].sla_cutoff = SlaCutoff(time)

LEMMA ReviewElsewhere ==
  ASSUME RunsTyped, ReviewInv, Elsewhere({"reviews"}), UNCHANGED reviewVars
  PROVE  ReviewInv'
<1>1. \A t \in Runners : run'[t].job = "reviews" => run'[t] = run[t]
  BY DEF Elsewhere
<1>2. \A time \in 0..clock : time \in 0..clock'
  BY MonitorsAssumption DEF Elsewhere, RunsTyped
<1>3. EscalationIsDue' /\ UNCHANGED <<review, escalated>>
  BY DEF ReviewInv, EscalationIsDue, reviewVars
<1> QED
  BY <1>1, <1>2, <1>3 DEF ReviewInv

LEMMA ReviewStepsKeep ==
  ASSUME RunsTyped, ReviewInv, ReviewSteps
  PROVE  RunsTyped' /\ ReviewInv' /\ Only({"reviews"})
<1>1. ASSUME NEW i \in Items, Move(i) PROVE RunsTyped' /\ ReviewInv' /\ Only({"reviews"})
  <2>1. UNCHANGED <<run, clock, escalated>> /\ clock \in 0..MaxClock
    BY <1>1 DEF Move, RunsTyped
  <2>2. review \in [Items -> [on : BOOLEAN, since : 0..MaxClock]]
    BY DEF ReviewInv
  <2>3. PICK w : w = IF review[i].on THEN [review[i] EXCEPT !.on = FALSE]
                     ELSE [on |-> TRUE, since |-> clock]
    OBVIOUS
  <2>4. w \in [on : BOOLEAN, since : 0..MaxClock]
    BY <2>1, <2>2, <2>3
  <2>5. review' = [review EXCEPT ![i] = w]
    BY <1>1, <2>2, <2>3 DEF Move
  <2>6. review' \in [Items -> [on : BOOLEAN, since : 0..MaxClock]]
    BY <2>2, <2>4, <2>5
  <2>7. EscalationIsDue'
    BY <2>1 DEF ReviewInv, EscalationIsDue
  <2> QED
    BY <2>1, <2>6, <2>7 DEF ReviewInv, RunsTyped, Only
\* A step of a run that lists and looks at items in review.
<1>2. ASSUME NEW t \in Runners, NEW w \in ReviewRun, run' = [run EXCEPT ![t] = w],
             UNCHANGED <<clock, review>>, DOMAIN escalated' = Items, EscalationIsDue',
             \E time \in 0..clock : w.sla_cutoff = SlaCutoff(time)
      PROVE  RunsTyped' /\ ReviewInv' /\ Only({"reviews"})
  <2>1. w \in TaskRun /\ w.job \in {"reviews"}
    BY DEF TaskRun, ReviewRun
  <2>2. /\ RunsTyped' /\ run'[t] = w /\ \A u \in Runners \ {t} : run'[u] = run[u]
        /\ Only({"reviews"})
    BY <1>2, <2>1, RunsGoOn
  <2>3. ASSUME NEW u \in Runners, run'[u].job = "reviews"
        PROVE  \E time \in 0..clock : run'[u].sla_cutoff = SlaCutoff(time)
    BY <1>2, <2>2, <2>3 DEF ReviewInv
  <2> QED
    BY <1>2, <2>2, <2>3 DEF ReviewInv
<1>3. ASSUME NEW t \in Runners, ListReviews(t) PROVE RunsTyped' /\ ReviewInv' /\ Only({"reviews"})
  <2>1. PICK list : list = {i \in Items : review[i].on}
    OBVIOUS
  <2>2. PICK w : w = [job |-> "reviews", sla_cutoff |-> SlaCutoff(clock), rows |-> list]
    OBVIOUS
  <2>3. clock \in 0..MaxClock /\ clock \in 0..clock
    BY MonitorsAssumption DEF RunsTyped
  <2>4. w \in ReviewRun /\ w.sla_cutoff = SlaCutoff(clock)
    BY <2>1, <2>2, <2>3 DEF ReviewRun
  <2>5. run' = [run EXCEPT ![t] = w] /\ UNCHANGED <<clock, review, escalated>>
    BY <1>3, <2>1, <2>2 DEF ListReviews, Start, reviewVars
  <2>6. DOMAIN escalated' = Items /\ EscalationIsDue'
    BY <2>5 DEF ReviewInv, EscalationIsDue
  <2> QED
    BY <1>2, <2>3, <2>4, <2>5, <2>6
<1>4. ASSUME NEW t \in Runners, NEW i \in Items, EscalateReview(t, i)
      PROVE  RunsTyped' /\ ReviewInv' /\ Only({"reviews"})
  <2>1. /\ run[t].job = "reviews" /\ run[t] \in TaskRun
        /\ UNCHANGED <<clock, review>>
    BY <1>4 DEF EscalateReview, RunsTyped
  <2>2. run[t] \in ReviewRun
    BY <2>1, RunKinds
  <2>3. PICK w : w = [run[t] EXCEPT !.rows = @ \ {i}]
    OBVIOUS
  <2>4. w \in ReviewRun /\ w.sla_cutoff = run[t].sla_cutoff
    BY <2>2, <2>3 DEF ReviewRun
  <2>5. run' = [run EXCEPT ![t] = w]
    BY <1>4, <2>3 DEF EscalateReview, Took
  <2>6. PICK time \in 0..clock : run[t].sla_cutoff = SlaCutoff(time)
    BY <2>1 DEF ReviewInv
  <2>7. PICK since : since = review[i].since
    OBVIOUS
  <2>8. since \in Nat /\ clock \in Nat /\ time \in Nat /\ time <= clock
    BY <2>6, <2>7, MonitorsAssumption DEF ReviewInv, RunsTyped
  <2>9. PICK e : e = [since |-> since, at |-> clock]
    OBVIOUS
  <2>10. \/ UNCHANGED escalated
         \/ /\ since < SlaCutoff(time)
            /\ escalated' = [escalated EXCEPT ![i] = @ \cup {e}]
    BY <1>4, <2>6, <2>7, <2>9 DEF EscalateReview
  <2>11. CASE UNCHANGED escalated
    <3>1. DOMAIN escalated' = Items /\ EscalationIsDue'
      BY <2>11 DEF ReviewInv, EscalationIsDue
    <3> QED
      BY <1>2, <2>1, <2>4, <2>5, <2>6, <3>1
  <2>12. CASE since < SlaCutoff(time) /\ escalated' = [escalated EXCEPT ![i] = @ \cup {e}]
    <3>1. Cardinality({day \in (since \div Day)..(clock \div Day - 1) : Weekday(day)}) >= 5
      BY <2>8, <2>12, CutoffIsFiveWeekdays
    <3>2. /\ DOMAIN escalated = Items /\ EscalationIsDue
      BY DEF ReviewInv
    <3>3. ASSUME NEW j \in Items, NEW x \in escalated'[j]
          PROVE  Cardinality({day \in (x.since \div Day)..(x.at \div Day - 1) : Weekday(day)}) >= 5
      <4>1. x \in escalated[j] \/ x = e
        BY <2>12, <3>2, <3>3
      <4>2. CASE x \in escalated[j]
        BY <3>2, <4>2 DEF EscalationIsDue
      <4>3. CASE x = e
        <5>1. x.since = since /\ x.at = clock
          BY <2>9, <4>3
        <5> QED
          BY <3>1, <5>1
      <4> QED
        BY <4>1, <4>2, <4>3
    <3>4. DOMAIN escalated' = Items /\ EscalationIsDue'
      BY <2>12, <3>2, <3>3 DEF EscalationIsDue
    <3> QED
      BY <1>2, <2>1, <2>4, <2>5, <2>6, <3>4
  <2> QED
    BY <2>10, <2>11, <2>12
<1> QED
  BY <1>1, <1>3, <1>4 DEF ReviewSteps

\* The quality of items.
LowTwice(i, used) ==
  \E j, k \in DOMAIN used[i] :
    /\ used[i][j].index = "low" /\ used[i][k].index = "low"
    /\ used[i][j].sitting_ref # used[i][k].sitting_ref

QualityInv ==
  /\ usage \in [Items -> Seq(Analysis)]
  /\ flagged \in [Items -> BOOLEAN] /\ DOMAIN flags = Items
  /\ FlagSaidOnce

LEMMA QualityElsewhere ==
  ASSUME QualityInv, UNCHANGED qualityVars
  PROVE  QualityInv'
BY DEF QualityInv, FlagSaidOnce, qualityVars

\* Two recent uses are two, of different sittings.
LEMMA TwoUses ==
  ASSUME usage \in [Items -> Seq(Analysis)], NEW i \in Items, Cardinality(RecentUsages(i)) = 2
  PROVE  \E j, k \in RecentUsages(i) : usage[i][j].sitting_ref # usage[i][k].sitting_ref
<1>1. usage[i] \in Seq(Analysis) /\ Len(usage[i]) \in Nat /\ DOMAIN usage[i] = 1..Len(usage[i])
  OBVIOUS
<1>2. RecentUsages(i) \subseteq PerSitting(i) /\ PerSitting(i) \subseteq Analysed(i)
      /\ Analysed(i) \subseteq 1..Len(usage[i])
  BY <1>1 DEF RecentUsages, PerSitting, Analysed
<1>3. IsFiniteSet(RecentUsages(i))
  <2>1. IsFiniteSet(1..Len(usage[i]))
    BY <1>1, OneTo
  <2> QED
    BY <1>2, <2>1, FS_Subset
<1>4. RecentUsages(i) # {}
  BY <1>3, FS_EmptySet
<1>5. PICK j \in RecentUsages(i) : TRUE
  BY <1>4
<1>6. RecentUsages(i) # {j}
  <2> SUFFICES ASSUME RecentUsages(i) = {j} PROVE FALSE
    OBVIOUS
  <2>1. Cardinality(RecentUsages(i)) = 1
    BY FS_Singleton
  <2> QED
    BY <2>1
<1>7. PICK k \in RecentUsages(i) : k # j
  BY <1>5, <1>6
<1>8. j \in PerSitting(i) /\ k \in PerSitting(i) /\ j \in Analysed(i) /\ k \in Analysed(i) /\ j \in Nat /\ k \in Nat
  BY <1>2, <1>5, <1>7
<1>9. usage[i][j].sitting_ref # usage[i][k].sitting_ref
  <2>1. CASE j > k
    BY <1>8, <2>1 DEF PerSitting
  <2>2. CASE k > j
    BY <1>8, <2>2 DEF PerSitting
  <2> QED
    BY <1>7, <1>8, <2>1, <2>2
<1> QED
  BY <1>5, <1>7, <1>9

LEMMA QualityStepsKeep ==
  ASSUME RunsTyped, QualityInv, QualitySteps
  PROVE  RunsTyped' /\ QualityInv' /\ Only({"items"})
<1>1. /\ usage \in [Items -> Seq(Analysis)]
      /\ flagged \in [Items -> BOOLEAN] /\ DOMAIN flags = Items
      /\ \A i \in Items : flags[i] = IF flagged[i] THEN 1 ELSE 0
      /\ \A i \in Items : flagged[i] => LowTwice(i, usage)
  BY DEF QualityInv, FlagSaidOnce, LowTwice
\* A use is recorded, or analysed: what was low stays low.
<1>2. ASSUME NEW i \in Items, NEW seq \in Seq(Analysis), UNCHANGED <<run, clock, flagged, flags>>,
             usage' = [usage EXCEPT ![i] = seq],
             \A j \in DOMAIN usage[i] : usage[i][j].index = "low" => j \in DOMAIN seq /\ seq[j] = usage[i][j]
      PROVE  RunsTyped' /\ QualityInv' /\ Only({"items"})
  <2>1. ASSUME NEW x \in Items, flagged[x] PROVE LowTwice(x, usage')
    <3>1. PICK j, k \in DOMAIN usage[x] :
            /\ usage[x][j].index = "low" /\ usage[x][k].index = "low"
            /\ usage[x][j].sitting_ref # usage[x][k].sitting_ref
      BY <1>1, <2>1 DEF LowTwice
    <3>2. /\ j \in DOMAIN usage'[x] /\ k \in DOMAIN usage'[x]
          /\ usage'[x][j] = usage[x][j] /\ usage'[x][k] = usage[x][k]
      <4>1. CASE x = i
        BY <1>1, <1>2, <3>1, <4>1
      <4>2. CASE x # i
        BY <1>1, <1>2, <3>1, <4>2
      <4> QED
        BY <4>1, <4>2
    <3> QED
      BY <3>1, <3>2 DEF LowTwice
  <2>2. usage' \in [Items -> Seq(Analysis)]
    BY <1>1, <1>2
  <2>3. FlagSaidOnce'
    BY <1>1, <1>2, <2>1 DEF FlagSaidOnce, LowTwice
  <2> QED
    BY <1>1, <1>2, <2>2, <2>3 DEF QualityInv, RunsTyped, Only
<1>3. ASSUME NEW i \in Items, NEW exam \in Exams, Use(i, exam)
      PROVE  RunsTyped' /\ QualityInv' /\ Only({"items"})
  <2>1. PICK new : new = [sitting_ref |-> exam, index |-> "none"]
    OBVIOUS
  <2>2. PICK seq : seq = Append(usage[i], new)
    OBVIOUS
  <2>3. usage[i] \in Seq(Analysis) /\ new \in Analysis
    BY <1>1, <2>1 DEF Analysis
  <2>4. /\ seq \in Seq(Analysis)
        /\ \A j \in DOMAIN usage[i] : j \in DOMAIN seq /\ seq[j] = usage[i][j]
    BY <2>2, <2>3
  <2>5. usage' = [usage EXCEPT ![i] = seq] /\ UNCHANGED <<run, clock, flagged, flags>>
    BY <1>3, <2>1, <2>2 DEF Use
  <2> QED
    BY <1>2, <2>4, <2>5
<1>4. ASSUME NEW i \in Items, NEW k \in DOMAIN usage[i], NEW index \in {"low", "fine"}, Analyse(i, k, index)
      PROVE  RunsTyped' /\ QualityInv' /\ Only({"items"})
  <2>1. PICK new : new = [usage[i][k] EXCEPT !.index = index]
    OBVIOUS
  <2>2. PICK seq : seq = [usage[i] EXCEPT ![k] = new]
    OBVIOUS
  <2>3. usage[i] \in Seq(Analysis) /\ usage[i][k] \in Analysis /\ usage[i][k].index = "none"
    BY <1>1, <1>4 DEF Analyse
  <2>4. new \in Analysis
    BY <2>1, <2>3 DEF Analysis
  <2>5. /\ seq \in Seq(Analysis) /\ DOMAIN seq = DOMAIN usage[i]
        /\ \A j \in DOMAIN usage[i] : j # k => seq[j] = usage[i][j]
    BY <2>2, <2>3, <2>4
  <2>6. usage' = [usage EXCEPT ![i] = seq] /\ UNCHANGED <<run, clock, flagged, flags>>
    BY <1>4, <2>1, <2>2 DEF Analyse
  <2> QED
    BY <1>2, <2>3, <2>5, <2>6
\* A step of a run that lists and looks at items.
<1>5. ASSUME NEW t \in Runners, NEW w \in QualityRun, run' = [run EXCEPT ![t] = w], UNCHANGED clock
      PROVE  RunsTyped' /\ Only({"items"})
  <2>1. w \in TaskRun /\ w.job \in {"items"}
    BY DEF TaskRun, QualityRun
  <2> QED
    BY <1>5, <2>1, RunsGoOn
<1>6. ASSUME NEW t \in Runners, ListItems(t) PROVE RunsTyped' /\ QualityInv' /\ Only({"items"})
  <2>1. PICK list : list = {[id |-> i, quality_flagged |-> flagged[i]] :
                              i \in {j \in Items : Analysed(j) # {}}}
    OBVIOUS
  <2>2. PICK w : w = [job |-> "items", rows |-> list]
    OBVIOUS
  <2>3. list \subseteq [id : Items, quality_flagged : BOOLEAN]
    BY <1>1, <2>1
  <2>4. w \in QualityRun
    BY <2>2, <2>3 DEF QualityRun
  <2>5. run' = [run EXCEPT ![t] = w] /\ UNCHANGED clock /\ UNCHANGED qualityVars
    BY <1>6, <2>1, <2>2 DEF ListItems, Start
  <2> QED
    BY <1>5, <2>4, <2>5, QualityElsewhere
<1>7. ASSUME NEW t \in Runners, run[t].job = "items", NEW c \in run[t].rows, FlagLowQualityItem(t, c)
      PROVE  RunsTyped' /\ QualityInv' /\ Only({"items"})
  <2>1. run[t] \in TaskRun
    BY DEF RunsTyped
  <2>2. run[t] \in QualityRun
    BY <1>7, <2>1, RunKinds
  <2>3. c.id \in Items
    BY <1>7, <2>2 DEF QualityRun
  <2>4. PICK w : w = [run[t] EXCEPT !.rows = @ \ {c}]
    OBVIOUS
  <2>5. w \in QualityRun
    BY <2>2, <2>4 DEF QualityRun
  <2>6. run' = [run EXCEPT ![t] = w] /\ UNCHANGED <<clock, usage>>
    BY <1>7, <2>4 DEF FlagLowQualityItem, Took
  <2>7. PICK i \in Items : i = c.id
    BY <2>3
  <2>8. \/ UNCHANGED <<flagged, flags>>
        \/ /\ Cardinality(RecentUsages(i)) = 2
           /\ \A k \in RecentUsages(i) : usage[i][k].index = "low"
           /\ ~flagged[i]
           /\ flagged' = [flagged EXCEPT ![i] = TRUE] /\ flags' = [flags EXCEPT ![i] = @ + 1]
    BY <1>7, <2>7 DEF FlagLowQualityItem
  <2>9. CASE UNCHANGED <<flagged, flags>>
    BY <1>5, <2>5, <2>6, <2>9, QualityElsewhere DEF qualityVars
  <2>10. CASE /\ Cardinality(RecentUsages(i)) = 2
              /\ \A k \in RecentUsages(i) : usage[i][k].index = "low"
              /\ ~flagged[i]
              /\ flagged' = [flagged EXCEPT ![i] = TRUE] /\ flags' = [flags EXCEPT ![i] = @ + 1]
    <3>1. PICK j, k \in RecentUsages(i) : usage[i][j].sitting_ref # usage[i][k].sitting_ref
      BY <1>1, <2>10, TwoUses
    <3>2. j \in DOMAIN usage[i] /\ k \in DOMAIN usage[i]
      BY <3>1 DEF RecentUsages, PerSitting, Analysed
    <3>3. LowTwice(i, usage)
      BY <2>10, <3>1, <3>2 DEF LowTwice
    <3>4. flags[i] = 0 /\ flags'[i] = 1 /\ flagged'[i]
      BY <1>1, <2>10
    <3>5. \A x \in Items \ {i} : flags'[x] = flags[x] /\ flagged'[x] = flagged[x]
      BY <1>1, <2>10
    <3>6. \A x \in Items : flags'[x] = IF flagged'[x] THEN 1 ELSE 0
      BY <1>1, <3>4, <3>5
    <3>7. \A x \in Items : flagged'[x] => LowTwice(x, usage')
      BY <1>1, <2>6, <3>3, <3>5
    <3>8. FlagSaidOnce'
      BY <3>6, <3>7 DEF FlagSaidOnce, LowTwice
    <3>9. flagged' \in [Items -> BOOLEAN] /\ DOMAIN flags' = Items
      BY <1>1, <2>10
    <3>10. QualityInv'
      BY <1>1, <2>6, <3>8, <3>9 DEF QualityInv
    <3> QED
      BY <1>5, <2>5, <2>6, <3>10
  <2> QED
    BY <2>8, <2>9, <2>10
<1> QED
  BY <1>3, <1>4, <1>6, <1>7 DEF QualitySteps

MonitorsInv ==
  RunsTyped /\ SlaInv /\ CertInv /\ RemindersInv /\ ReviewInv /\ QualityInv

\* A step of the jobs of one part is none of the jobs of the others.
LEMMA ElsewhereOnly ==
  ASSUME RunsTyped', clock <= clock'
  PROVE  /\ Only(SlaJobs) => Elsewhere(CertJobs) /\ Elsewhere({"reminder"}) /\ Elsewhere({"reviews"})
         /\ Only(CertJobs) => Elsewhere(SlaJobs) /\ Elsewhere({"reminder"}) /\ Elsewhere({"reviews"})
         /\ Only(SittingJobs) => Elsewhere(SlaJobs) /\ Elsewhere(CertJobs) /\ Elsewhere({"reviews"})
         /\ Only({"reviews"}) => Elsewhere(SlaJobs) /\ Elsewhere(CertJobs) /\ Elsewhere({"reminder"})
         /\ Only({"items"}) \/ Only({"none"}) => /\ Elsewhere(SlaJobs) /\ Elsewhere(CertJobs)
                                                 /\ Elsewhere({"reminder"}) /\ Elsewhere({"reviews"})
<1> USE DEF Elsewhere, Only
<1>1. ASSUME Only(SlaJobs)
      PROVE  Elsewhere(CertJobs) /\ Elsewhere({"reminder"}) /\ Elsewhere({"reviews"})
  BY <1>1 DEF SlaJobs, CertJobs
<1>2. ASSUME Only(CertJobs)
      PROVE  Elsewhere(SlaJobs) /\ Elsewhere({"reminder"}) /\ Elsewhere({"reviews"})
  BY <1>2 DEF SlaJobs, CertJobs
<1>3. ASSUME Only(SittingJobs)
      PROVE  Elsewhere(SlaJobs) /\ Elsewhere(CertJobs) /\ Elsewhere({"reviews"})
  BY <1>3 DEF SlaJobs, CertJobs, SittingJobs
<1>4. ASSUME Only({"reviews"})
      PROVE  Elsewhere(SlaJobs) /\ Elsewhere(CertJobs) /\ Elsewhere({"reminder"})
  BY <1>4 DEF SlaJobs, CertJobs
<1>5. ASSUME Only({"items"}) \/ Only({"none"})
      PROVE  /\ Elsewhere(SlaJobs) /\ Elsewhere(CertJobs)
             /\ Elsewhere({"reminder"}) /\ Elsewhere({"reviews"})
  <2>1. ASSUME Only({"items"})
        PROVE  /\ Elsewhere(SlaJobs) /\ Elsewhere(CertJobs)
               /\ Elsewhere({"reminder"}) /\ Elsewhere({"reviews"})
    BY <2>1 DEF SlaJobs, CertJobs
  <2>2. ASSUME Only({"none"})
        PROVE  /\ Elsewhere(SlaJobs) /\ Elsewhere(CertJobs)
               /\ Elsewhere({"reminder"}) /\ Elsewhere({"reviews"})
    BY <2>2 DEF SlaJobs, CertJobs
  <2> HIDE DEF Elsewhere, Only
  <2> QED
    BY <1>5, <2>1, <2>2
<1> HIDE DEF Elsewhere, Only
<1> QED
  BY <1>1, <1>2, <1>3, <1>4, <1>5

LEMMA MonitorsInitInv == MonitorsInit => MonitorsInv
<1> SUFFICES ASSUME MonitorsInit PROVE MonitorsInv
  OBVIOUS
<1>1. /\ run = [t \in Runners |-> NoRun] /\ clock = 0
      /\ \A t \in Runners : run[t].job = "none"
  BY DEF MonitorsInit, NoRun
<1>2. RunsTyped
  BY <1>1, MonitorsAssumption DEF RunsTyped, TaskRun
<1>3. SlaInv
  <2>1. sla = [i \in Instances |-> [status |-> "on_track", escalations |-> [s \in Said |-> 0],
                                    published |-> [s \in Said |-> 0]]]
    BY DEF MonitorsInit
  <2>2. sla \in [Instances -> SLAInstance]
    BY <2>1 DEF SLAInstance
  <2>3. SlaSaidOnce /\ \A i \in Instances : LevelIsDue(sla[i], Due)
    BY <2>1 DEF SlaSaidOnce, LevelIsDue
  <2>4. OnlyOne(SlaJobs) /\ \A t \in Runners : RunIsDue(run[t], sla, Due)
    BY <1>1 DEF OnlyOne, SlaJobs, RunIsDue
  <2> QED
    BY <2>2, <2>3, <2>4 DEF SlaInv
<1>4. CertInv
  <2>1. trigger = [i \in Triggers |-> [status |-> "pending", sla_deadline |-> 0, fires |-> 0, breaches |-> 0]]
    BY DEF MonitorsInit
  <2>2. trigger \in [Triggers -> CertTriggerRecord]
    BY <2>1 DEF CertTriggerRecord
  <2>3. \A i \in Triggers : trigger[i].breaches + Late(trigger[i]) <= trigger[i].fires
    BY <2>1 DEF Late
  <2>4. OnlyOne(CertJobs) /\ \A t \in Runners : ReportIsOwed(run[t], trigger)
    BY <1>1 DEF OnlyOne, CertJobs, ReportIsOwed
  <2> QED
    BY <2>2, <2>3, <2>4 DEF CertInv
<1>5. RemindersInv
  BY <1>1 DEF MonitorsInit, RemindersInv
<1>6. ReviewInv
  <2>1. /\ review = [i \in Items |-> [on |-> FALSE, since |-> 0]]
        /\ escalated = [i \in Items |-> {}]
    BY DEF MonitorsInit
  <2>2. review \in [Items -> [on : BOOLEAN, since : 0..MaxClock]]
    BY <2>1, MonitorsAssumption
  <2>3. DOMAIN escalated = Items /\ EscalationIsDue
    BY <2>1 DEF EscalationIsDue
  <2> QED
    BY <1>1, <2>2, <2>3 DEF ReviewInv
<1>7. QualityInv
  <2>1. /\ usage = [i \in Items |-> <<>>] /\ flagged = [i \in Items |-> FALSE]
        /\ flags = [i \in Items |-> 0]
    BY DEF MonitorsInit
  <2> QED
    BY <2>1 DEF QualityInv, FlagSaidOnce
<1> QED
  BY <1>2, <1>3, <1>4, <1>5, <1>6, <1>7 DEF MonitorsInv

LEMMA MonitorsInvStep == MonitorsInv /\ [MonitorsNext]_monitorVars => MonitorsInv'
<1> SUFFICES ASSUME MonitorsInv, [MonitorsNext]_monitorVars PROVE MonitorsInv'
  OBVIOUS
<1>1. /\ RunsTyped /\ SlaInv /\ CertInv /\ RemindersInv /\ ReviewInv /\ QualityInv
      /\ clock \in Int /\ MaxClock \in Int
  BY MonitorsAssumption DEF MonitorsInv, RunsTyped
\* Each step is of the jobs of one part, or of none.
<1>2. CASE SlaSteps
  <2>1. RunsTyped' /\ SlaInv' /\ Only(SlaJobs)
    BY <1>1, <1>2, SlaStepsKeep
  <2>2. UNCHANGED <<clock, trigger, reminded, reviewVars, qualityVars>>
    BY <1>2 DEF SlaSteps, ListSlas, CheckSla, FireEscalation, PublishSla, CloseSla, sittingVars
  <2>3. Elsewhere(CertJobs) /\ Elsewhere({"reminder"}) /\ Elsewhere({"reviews"})
    BY <1>1, <2>1, <2>2, ElsewhereOnly
  <2> QED
    BY <1>1, <2>1, <2>2, <2>3, CertElsewhere, RemindersElsewhere, ReviewElsewhere, QualityElsewhere
       DEF MonitorsInv
<1>3. CASE CertSteps
  <2>1. RunsTyped' /\ CertInv' /\ Only(CertJobs)
    BY <1>1, <1>3, CertStepsKeep
  <2>2. UNCHANGED <<clock, sla, reminded, reviewVars, qualityVars>>
    BY <1>3 DEF CertSteps, Fire, Acknowledge, ListTriggers, CheckTrigger, PublishBreach, sittingVars
  <2>3. Elsewhere(SlaJobs) /\ Elsewhere({"reminder"}) /\ Elsewhere({"reviews"})
    BY <1>1, <2>1, <2>2, ElsewhereOnly
  <2> QED
    BY <1>1, <2>1, <2>2, <2>3, SlaElsewhere, RemindersElsewhere, ReviewElsewhere, QualityElsewhere
       DEF MonitorsInv
<1>4. CASE SittingSteps
  <2>1. RunsTyped' /\ RemindersInv' /\ Only(SittingJobs)
    BY <1>1, <1>4, SittingStepsRemind
  <2>2. UNCHANGED <<clock, sla, trigger, reviewVars, qualityVars>>
    BY <1>4 DEF SittingSteps, MonitorT30Lock, CloseSitting, Reschedule, SendT30Reminders, NextOffset,
         RecordReminder, ListSittings, LockForReminder
  <2>3. Elsewhere(SlaJobs) /\ Elsewhere(CertJobs) /\ Elsewhere({"reviews"})
    BY <1>1, <2>1, <2>2, ElsewhereOnly
  <2> QED
    BY <1>1, <2>1, <2>2, <2>3, SlaElsewhere, CertElsewhere, ReviewElsewhere, QualityElsewhere
       DEF MonitorsInv
<1>5. CASE ReviewSteps
  <2>1. RunsTyped' /\ ReviewInv' /\ Only({"reviews"})
    BY <1>1, <1>5, ReviewStepsKeep
  <2>2. UNCHANGED <<clock, sla, trigger, reminded, qualityVars>>
    BY <1>5 DEF ReviewSteps, Move, ListReviews, EscalateReview, sittingVars
  <2>3. Elsewhere(SlaJobs) /\ Elsewhere(CertJobs) /\ Elsewhere({"reminder"})
    BY <1>1, <2>1, <2>2, ElsewhereOnly
  <2> QED
    BY <1>1, <2>1, <2>2, <2>3, SlaElsewhere, CertElsewhere, RemindersElsewhere, QualityElsewhere
       DEF MonitorsInv
<1>6. CASE QualitySteps
  <2>1. RunsTyped' /\ QualityInv' /\ Only({"items"})
    BY <1>1, <1>6, QualityStepsKeep
  <2>2. UNCHANGED <<clock, sla, trigger, reminded, reviewVars>>
    BY <1>6 DEF QualitySteps, Use, Analyse, ListItems, FlagLowQualityItem, sittingVars
  <2>3. Elsewhere(SlaJobs) /\ Elsewhere(CertJobs) /\ Elsewhere({"reminder"}) /\ Elsewhere({"reviews"})
    BY <1>1, <2>1, <2>2, ElsewhereOnly
  <2> QED
    BY <1>1, <2>1, <2>2, <2>3, SlaElsewhere, CertElsewhere, RemindersElsewhere, ReviewElsewhere
       DEF MonitorsInv
<1>7. ASSUME Tick \/ (\E t \in Runners : EndRun(t)) \/ UNCHANGED monitorVars PROVE MonitorsInv'
  <2>1. UNCHANGED <<sla, trigger, reminded, reviewVars, qualityVars>>
    BY <1>7 DEF Tick, EndRun, monitorVars, sittingVars
  <2>2. RunsTyped' /\ clock <= clock' /\ Only({"none"})
    <3>1. CASE Tick
      BY <1>1, <3>1 DEF Tick, RunsTyped, Only
    <3>2. ASSUME NEW t \in Runners, EndRun(t) PROVE RunsTyped' /\ clock <= clock' /\ Only({"none"})
      <4>1. NoRun \in TaskRun /\ NoRun.job \in {"none"}
        BY DEF TaskRun, NoRun
      <4>2. run' = [run EXCEPT ![t] = NoRun] /\ UNCHANGED clock
        BY <3>2 DEF EndRun
      <4>3. RunsTyped' /\ Only({"none"})
        BY <1>1, <4>1, <4>2, RunsGoOn
      <4>4. clock <= clock'
        BY <1>1, <4>2
      <4> QED
        BY <4>3, <4>4
    <3>3. CASE UNCHANGED monitorVars
      BY <1>1, <3>3 DEF monitorVars, RunsTyped, Only
    <3> QED
      BY <1>7, <3>1, <3>2, <3>3
  <2>3. Elsewhere(SlaJobs) /\ Elsewhere(CertJobs) /\ Elsewhere({"reminder"}) /\ Elsewhere({"reviews"})
    BY <2>2, ElsewhereOnly
  <2> QED
    BY <1>1, <2>1, <2>2, <2>3, SlaElsewhere, CertElsewhere, RemindersElsewhere, ReviewElsewhere,
       QualityElsewhere DEF MonitorsInv
<1> QED
  BY <1>2, <1>3, <1>4, <1>5, <1>6, <1>7 DEF MonitorsNext

\* What the periodic tasks report is due, and is reported once, for any number of
\* runs side by side and wherever a worker dies.
THEOREM SaidOnceHolds == MonitorsSpec => []SaidOnce
<1>1. MonitorsInv => SaidOnce
  <2> SUFFICES ASSUME MonitorsInv PROVE SaidOnce
    OBVIOUS
  <2>1. SlaSaidOnce /\ EscalationIsDue /\ FlagSaidOnce
    BY DEF MonitorsInv, SlaInv, ReviewInv, QualityInv
  <2>2. BreachSaidOnce
    <3>1. ASSUME NEW i \in Triggers PROVE trigger[i].breaches <= trigger[i].fires
      <4>1. /\ trigger[i].breaches \in Nat /\ trigger[i].fires \in Nat /\ Late(trigger[i]) \in {0, 1}
            /\ trigger[i].breaches + Late(trigger[i]) <= trigger[i].fires
        BY DEF MonitorsInv, CertInv, CertTriggerRecord, Late
      <4> QED
        BY <4>1
    <3> QED
      BY <3>1 DEF BreachSaidOnce
  <2>3. ReminderSaidOnce
    <3>1. reminded \in [Sittings \X Offsets \X Days -> {0, 1}]
      BY DEF MonitorsInv, RemindersInv
    <3>2. \A r \in DOMAIN reminded : reminded[r] \in {0, 1}
      BY <3>1
    <3> QED
      BY <3>2 DEF ReminderSaidOnce
  <2> QED
    BY <2>1, <2>2, <2>3 DEF SaidOnce
<1> QED
  BY <1>1, MonitorsInitInv, MonitorsInvStep, PTL DEF MonitorsSpec
=============================================================================
