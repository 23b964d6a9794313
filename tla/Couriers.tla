------------------------------ MODULE Couriers ------------------------------
(***************************************************************************)
(* Messages to people, sent by Celery tasks: the rows of apps/notifications*)
(* to System 21, and apps/itembank's notices of an item's status and alerts*)
(* of a vault export, which have no row, to System 14.                     *)
(*                                                                         *)
(* A task is handed to the broker when the transaction that asks for it    *)
(* commits, and acknowledged when a worker takes it: a worker that dies    *)
(* loses it.  A call may be answered, refused, fail, or be carried out and *)
(* its answer be lost.  A failed call is tried again by a new message with *)
(* a higher count.                                                         *)
(***************************************************************************)
EXTENDS Integers

CONSTANTS
  Notices,      \* rows of notifications_notification
  Alerts,       \* tasks of apps/itembank
  MaxRetries    \* max_retries of the tasks

ASSUME CouriersAssumption == MaxRetries \in Nat /\ Notices \cap Alerts = {}

VARIABLES
  notice,   \* the rows
  log,      \* per row: how many notifications_deliverylog rows
  task,     \* per message: its task
  seen,     \* the idempotency keys the receiving systems have seen
  told      \* per message: how often its receiver has been told

courierVars == <<notice, log, task, seen, told>>

Messages == Notices \cup Alerts

-----------------------------------------------------------------------------
Notification == [status : {"none", "queued", "delivered", "failed"}, retry_count : Nat]

Results == {"ok", "refused", "failed"}

Task == [pc : {"none", "queued", "answered", "logged", "ended"}, retries : Nat,
         result : Results]

NoTask == [pc |-> "none", retries |-> 0, result |-> "ok"]

Ended == [NoTask EXCEPT !.pc = "ended"]

Delayed(retries) == [NoTask EXCEPT !.pc = "queued", !.retries = retries]

CouriersInit ==
  /\ notice = [n \in Notices |-> [status |-> "none", retry_count |-> 0]]
  /\ log = [n \in Notices |-> 0]
  /\ task = [n \in Messages |-> NoTask]
  /\ seen = {}
  /\ told = [n \in Messages |-> 0]

-----------------------------------------------------------------------------
(* Asking for it.                                                          *)

\* queue_notification: the row, and the task once it is committed; without the
\* task when the broker cannot be reached.
QueueNotification(n) ==
  /\ notice[n].status = "none"
  /\ notice' = [notice EXCEPT ![n].status = "queued"]
  /\ task' \in {task, [task EXCEPT ![n] = Delayed(0)]}
  /\ UNCHANGED <<log, seen, told>>

\* send_profile_ready, after an account is made or imported.
SendProfileReady(n) == QueueNotification(n)

\* on_commit of a transition or of an export request.
Enqueue(n) ==
  /\ task[n] = NoTask
  /\ task' = [task EXCEPT ![n] = Delayed(0)]
  /\ UNCHANGED <<notice, log, seen, told>>

-----------------------------------------------------------------------------
(* Sending it.                                                             *)

\* Mutant: every attempt has a key of its own.
KeyOfAttempt(n) == <<n, task[n].retries>>

\* notif-<id>, and of tasks without a row the id of the task, which a retry
\* keeps.
IdempotencyKey(n) == n

\* The receiver acts on a key it has not seen, whether or not its answer gets
\* back.
Call(n, result) ==
  LET key == IdempotencyKey(n) IN
  /\ task' = [task EXCEPT ![n].pc = "answered", ![n].result = result]
  /\ \/ /\ result \in {"ok", "failed"}
        /\ seen' = seen \cup {key}
        /\ told' = [told EXCEPT ![n] = @ + IF key \in seen THEN 0 ELSE 1]
     \/ result # "ok" /\ UNCHANGED <<seen, told>>

\* deliver_notification up to the answer.
DeliverNotification(n, result) ==
  /\ task[n].pc = "queued"
  /\ notice[n].status # "delivered"
  /\ Call(n, result)
  /\ UNCHANGED <<notice, log>>

\* DeliveryLog.objects.create.
LogDelivery(n) ==
  /\ task[n].pc = "answered"
  /\ log' = [log EXCEPT ![n] = @ + 1]
  /\ task' = [task EXCEPT ![n].pc = "logged"]
  /\ UNCHANGED <<notice, seen, told>>

Retry(n) ==
  task' = [task EXCEPT ![n] = IF @.retries < MaxRetries THEN Delayed(@.retries + 1)
                                                        ELSE Ended]

\* The rest.  self.retry is given an exception: it raises that one, and not
\* MaxRetriesExceededError, when no retry is left, and the row stays queued.
MarkNotification(n) ==
  LET counted == notice[n].retry_count + 1 IN
  /\ task[n].pc = "logged"
  /\ \/ /\ task[n].result = "ok"
        /\ notice' = [notice EXCEPT ![n] = [status |-> "delivered", retry_count |-> counted]]
        /\ task' = [task EXCEPT ![n] = Ended]
     \/ /\ task[n].result = "failed"
        /\ notice' = [notice EXCEPT ![n].retry_count = counted]
        /\ Retry(n)
     \/ /\ task[n].result = "refused"
        /\ notice' = [notice EXCEPT ![n] = [status |-> "failed", retry_count |-> counted]]
        /\ task' = [task EXCEPT ![n] = Ended]
  /\ UNCHANGED <<log, seen, told>>

\* dispatch_item_status_notification and dispatch_vault_export_alert (which has
\* one recipient: the Chair is looked up by a field the members do not have).
\* A refusal is an exception like any other, and tried again.
Dispatch(n, result) ==
  /\ task[n].pc = "queued"
  /\ Call(n, result)
  /\ UNCHANGED <<notice, log>>

EndDispatch(n) ==
  /\ task[n].pc = "answered"
  /\ IF task[n].result = "ok" THEN task' = [task EXCEPT ![n] = Ended] ELSE Retry(n)
  /\ UNCHANGED <<notice, log, seen, told>>

\* The worker dies with the task.
LoseTask(n) ==
  /\ task[n].pc \notin {"none", "ended"}
  /\ task' = [task EXCEPT ![n] = Ended]
  /\ UNCHANGED <<notice, log, seen, told>>

-----------------------------------------------------------------------------
CouriersNext ==
  \/ \E n \in Notices :
       \/ SendProfileReady(n) \/ LogDelivery(n) \/ MarkNotification(n)
       \/ \E result \in Results : DeliverNotification(n, result)
  \/ \E n \in Alerts :
       \/ Enqueue(n) \/ EndDispatch(n)
       \/ \E result \in Results : Dispatch(n, result)
  \/ \E n \in Messages : LoseTask(n)

CouriersSpec == CouriersInit /\ [][CouriersNext]_courierVars

-----------------------------------------------------------------------------
(* Properties.                                                             *)

\* However often a call is repeated and its answer lost, the receiver is told
\* once; what is marked delivered was; and the log has every attempt the row
\* counts, and at most one it does not, for each worker that died between them.
NoticeIsSentOnce ==
  /\ \A n \in Messages : told[n] <= 1
  /\ \A n \in Notices :
       /\ notice[n].status = "delivered" => told[n] = 1
       /\ notice[n].retry_count <= log[n]
       /\ log[n] <= notice[n].retry_count + 1
       /\ notice[n].retry_count <= MaxRetries + 1
       /\ notice[n].status \in {"delivered", "failed"} => task[n].pc = "ended"
=============================================================================
