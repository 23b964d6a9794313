------------------------------ MODULE Monitors ------------------------------
(***************************************************************************)
(* The periodic tasks: service levels and certificates (apps/sla), the     *)
(* lock and the reminders before a sitting (apps/sitting/tasks.py), items  *)
(* left in review and items that discriminate badly (apps/itembank).       *)
(*                                                                         *)
(* A run lists rows and then looks at them one by one, each in statements  *)
(* or transactions of its own: a row may have changed since it was listed, *)
(* and the worker may die between any two of them.                         *)
(***************************************************************************)
EXTENDS Integers, FiniteSets, Sequences

CONSTANTS
  Runners,    \* task runs at a time
  Instances,  \* rows of sla_slainstance
  Deadline,   \* their deadline
  Threshold,  \* how long before it they are at risk
  Triggers,   \* rows of cert_trigger_certtriggerrecord
  Sittings,   \* approved sittings
  Dates,      \* the days they may be moved to
  Offsets,    \* REMINDER_OFFSETS_DAYS
  LockOffset, \* T30_LOCK_OFFSET_DAYS
  Items,      \* items of the bank
  Exams,      \* the sittings they were used in
  MaxClock,   \* bound: time, in half days
  MaxFires,   \* bound: how often a certificate is asked for
  MaxUses     \* bound: uses of an item

ASSUME MonitorsAssumption ==
  /\ Deadline \in Nat /\ Threshold \in Nat
  /\ Dates \subseteq Nat /\ Offsets \subseteq Nat /\ LockOffset \in Nat
  /\ MaxClock \in Nat /\ MaxFires \in Nat /\ MaxUses \in Nat

VARIABLES
  clock,      \* the time
  sla,        \* service levels, and what was said of each
  trigger,    \* certificate triggers, and how often each was fired, and late
  sitting,    \* sittings
  reminded,   \* how many reminders of a sitting there are, by offset and day
  review,     \* per item: whether it is in review, and since when
  escalated,  \* per item: when it was escalated, and since when it waited
  usage,      \* per item: its itembank_itemusage rows, oldest first
  flagged,    \* per item: quality_flagged
  flags,      \* per item: how often ITEM_QUALITY_FLAGGED is on the audit trail
  run         \* per task run: how far it is

sittingVars == <<sitting, reminded>>
reviewVars  == <<review, escalated>>
qualityVars == <<usage, flagged, flags>>

monitorVars == <<clock, sla, trigger, sittingVars, reviewVars, qualityVars, run>>

-----------------------------------------------------------------------------
Day == 2

Today == clock \div Day

Days == 0..(MaxClock \div Day)

Said == {"at_risk", "overdue"}

SLAInstance == [status : {"on_track", "at_risk", "overdue", "closed"},
                escalations : [Said -> Nat], published : [Said -> Nat]]

CertTriggerRecord == [status : {"pending", "fired", "acknowledged", "sla_breached"},
                      sla_deadline : Nat, fires : Nat, breaches : Nat]

NoRun == [job |-> "none"]

MonitorsInit ==
  /\ clock = 0
  /\ sla = [i \in Instances |-> [status |-> "on_track", escalations |-> [s \in Said |-> 0],
                                 published |-> [s \in Said |-> 0]]]
  /\ trigger = [i \in Triggers |-> [status |-> "pending", sla_deadline |-> 0,
                                    fires |-> 0, breaches |-> 0]]
  /\ sitting \in [Sittings -> [status : {"configured"}, date : Dates]]
  /\ reminded = [r \in Sittings \X Offsets \X Days |-> 0]
  /\ review = [i \in Items |-> [on |-> FALSE, since |-> 0]]
  /\ escalated = [i \in Items |-> {}]
  /\ usage = [i \in Items |-> <<>>]
  /\ flagged = [i \in Items |-> FALSE]
  /\ flags = [i \in Items |-> 0]
  /\ run = [t \in Runners |-> NoRun]

Start(t, started) ==
  /\ run[t] = NoRun
  /\ run' = [run EXCEPT ![t] = started]

\* The next run of this job starts when the last has ended.
Alone(jobs) == \A t \in Runners : run[t].job \notin jobs

Took(t, x) == run' = [run EXCEPT ![t].rows = @ \ {x}]

\* A run has seen all it listed, or its worker dies.
EndRun(t) ==
  /\ run[t] # NoRun
  /\ run' = [run EXCEPT ![t] = NoRun]
  /\ UNCHANGED <<clock, sla, trigger, sittingVars, reviewVars, qualityVars>>

Tick ==
  /\ clock < MaxClock
  /\ clock' = clock + 1
  /\ UNCHANGED <<sla, trigger, sittingVars, reviewVars, qualityVars, run>>

-----------------------------------------------------------------------------
(* apps/sla: service levels.                                               *)

ComputeSlaStatus ==
  IF clock >= Deadline THEN "overdue"
  ELSE IF clock >= Deadline - Threshold THEN "at_risk" ELSE "on_track"

SlaJobs == {"slas", "escalation", "sla event"}

ListSlas(t) ==
  /\ Alone(SlaJobs)
  /\ Start(t, [job |-> "slas",
               rows |-> {[id |-> i, status |-> sla[i].status] :
                           i \in {j \in Instances : sla[j].status \in {"on_track", "at_risk"}}}])
  /\ UNCHANGED <<clock, sla, trigger, sittingVars, reviewVars, qualityVars>>

\* check_all_slas compares the new status with the copy's, and saves it.
CheckSla(t, row) ==
  /\ run[t].job = "slas" /\ row \in run[t].rows
  /\ IF ComputeSlaStatus = row.status
     THEN Took(t, row) /\ UNCHANGED sla
     ELSE /\ sla' = [sla EXCEPT ![row.id].status = ComputeSlaStatus]
          /\ run' = [run EXCEPT ![t] = [job |-> "escalation", id |-> row.id,
                                        status |-> ComputeSlaStatus, rows |-> @.rows \ {row}]]
  /\ UNCHANGED <<clock, trigger, sittingVars, reviewVars, qualityVars>>

FireEscalation(t) ==
  /\ run[t].job = "escalation"
  /\ sla' = [sla EXCEPT ![run[t].id].escalations[run[t].status] = @ + 1]
  /\ run' = [run EXCEPT ![t].job = "sla event"]
  /\ UNCHANGED <<clock, trigger, sittingVars, reviewVars, qualityVars>>

PublishSla(t) ==
  /\ run[t].job = "sla event"
  /\ sla' = [sla EXCEPT ![run[t].id].published[run[t].status] = @ + 1]
  /\ run' = [run EXCEPT ![t] = [job |-> "slas", rows |-> @.rows]]
  /\ UNCHANGED <<clock, trigger, sittingVars, reviewVars, qualityVars>>

\* SLAInstance.close
CloseSla(i) ==
  /\ sla' = [sla EXCEPT ![i].status = "closed"]
  /\ UNCHANGED <<clock, trigger, sittingVars, reviewVars, qualityVars, run>>

-----------------------------------------------------------------------------
(* apps/sla: certificates.                                                 *)

\* fire: for an hour.
Fire(i) ==
  /\ trigger[i].fires < MaxFires
  /\ trigger' = [trigger EXCEPT ![i].status = "fired", ![i].sla_deadline = clock + 1,
                                ![i].fires = @ + 1]
  /\ UNCHANGED <<clock, sla, sittingVars, reviewVars, qualityVars, run>>

Acknowledge(i) ==
  /\ trigger[i].fires > 0
  /\ trigger' = [trigger EXCEPT ![i].status = "acknowledged"]
  /\ UNCHANGED <<clock, sla, sittingVars, reviewVars, qualityVars, run>>

CertJobs == {"triggers", "breach"}

ListTriggers(t) ==
  /\ Alone(CertJobs)
  /\ Start(t, [job |-> "triggers",
               rows |-> {i \in Triggers : /\ trigger[i].status = "fired"
                                          /\ trigger[i].sla_deadline < clock}])
  /\ UNCHANGED <<clock, sla, trigger, sittingVars, reviewVars, qualityVars>>

CheckTrigger(t, i) ==
  /\ run[t].job = "triggers" /\ i \in run[t].rows
  /\ trigger' = [trigger EXCEPT ![i].status = "sla_breached"]
  /\ run' = [run EXCEPT ![t] = [job |-> "breach", id |-> i, rows |-> @.rows \ {i}]]
  /\ UNCHANGED <<clock, sla, sittingVars, reviewVars, qualityVars>>

PublishBreach(t) ==
  /\ run[t].job = "breach"
  /\ trigger' = [trigger EXCEPT ![run[t].id].breaches = @ + 1]
  /\ run' = [run EXCEPT ![t] = [job |-> "triggers", rows |-> @.rows]]
  /\ UNCHANGED <<clock, sla, sittingVars, reviewVars, qualityVars>>

-----------------------------------------------------------------------------
(* apps/sitting: the lock, and the reminders before it.                    *)

\* Mutant: the sitting is read without a lock.
AnyRow(s) == s \in Sittings

\* select_for_update: nobody else is in the middle of a reminder of it.
RowIsFree(s) == \A t \in Runners : run[t].job = "reminder" => s \notin run[t].ref

\* A draft is moved to another day, configured and approved again.
Reschedule(s, date) ==
  /\ RowIsFree(s)
  /\ sitting[s].status = "configured" /\ date # sitting[s].date
  /\ sitting' = [sitting EXCEPT ![s].date = date]
  /\ UNCHANGED <<clock, sla, trigger, reminded, reviewVars, qualityVars, run>>

\* monitor_t30_lock, for one of the sittings it lists.
MonitorT30Lock(s) ==
  /\ RowIsFree(s)
  /\ sitting[s].status = "configured" /\ sitting[s].date <= Today + LockOffset
  /\ sitting' = [sitting EXCEPT ![s].status = "locked"]
  /\ UNCHANGED <<clock, sla, trigger, reminded, reviewVars, qualityVars, run>>

CloseSitting(s) ==
  /\ RowIsFree(s)
  /\ sitting[s].status = "locked"
  /\ sitting' = [sitting EXCEPT ![s].status = "closed"]
  /\ UNCHANGED <<clock, sla, trigger, reminded, reviewVars, qualityVars, run>>

\* send_t30_reminders: the day is read once, the sittings for each offset.
SendT30Reminders(t) ==
  /\ Start(t, [job |-> "offsets", today |-> Today, rows |-> Offsets])
  /\ UNCHANGED <<clock, sla, trigger, sittingVars, reviewVars, qualityVars>>

ListSittings(t, offset) ==
  /\ run[t].job = "offsets" /\ offset \in run[t].rows
  /\ run' = [run EXCEPT ![t] =
       [job |-> "sittings", today |-> @.today, offset |-> offset, rest |-> @.rows \ {offset}, ref |-> {},
        rows |-> {s \in Sittings : /\ sitting[s].date = @.today + offset
                                   /\ sitting[s].status # "closed"}]]
  /\ UNCHANGED <<clock, sla, trigger, sittingVars, reviewVars, qualityVars>>

NextOffset(t) ==
  /\ run[t].job = "sittings" /\ run[t].rows = {}
  /\ run' = [run EXCEPT ![t] = [job |-> "offsets", today |-> @.today, rows |-> @.rest]]
  /\ UNCHANGED <<clock, sla, trigger, sittingVars, reviewVars, qualityVars>>

AlreadySent(s, offset, day) == reminded[s, offset, day] > 0

\* _send_reminder_atomic: the row, locked, and what is said about it.
LockForReminder(t, s) ==
  /\ run[t].job = "sittings" /\ s \in run[t].rows
  /\ RowIsFree(s)
  /\ IF sitting[s].status = "closed" \/ AlreadySent(s, run[t].offset, run[t].today)
     THEN Took(t, s)
     ELSE run' = [run EXCEPT ![t].job = "reminder", ![t].rows = @ \ {s}, ![t].ref = {s}]
  /\ UNCHANGED <<clock, sla, trigger, sittingVars, reviewVars, qualityVars>>

\* The audit event and the outbox row.
RecordReminder(t) ==
  /\ run[t].job = "reminder"
  /\ reminded' = [r \in DOMAIN reminded |->
       reminded[r] + IF /\ r[1] \in run[t].ref /\ r[2] = run[t].offset
                        /\ r[3] = run[t].today THEN 1 ELSE 0]
  /\ run' = [run EXCEPT ![t].job = "sittings"]
  /\ UNCHANGED <<clock, sla, trigger, sitting, reviewVars, qualityVars>>

-----------------------------------------------------------------------------
(* apps/itembank: items left in review.                                    *)

Weekday(day) == day % 7 < 5

\* Five weekdays back: the step back that reaches the fifth.
SlaCutoff(time) ==
  LET back == CHOOSE k \in 5..7 :
        /\ Weekday(time \div Day - k)
        /\ Cardinality({j \in 1..k : Weekday(time \div Day - j)}) = 5
  IN  time - Day * back

\* Submitted, or decided.
Move(i) ==
  /\ review' = [review EXCEPT ![i] = IF @.on THEN [@ EXCEPT !.on = FALSE]
                                     ELSE [on |-> TRUE, since |-> clock]]
  /\ UNCHANGED <<clock, sla, trigger, sittingVars, escalated, qualityVars, run>>

ListReviews(t) ==
  /\ Alone({"reviews"})
  /\ Start(t, [job |-> "reviews", sla_cutoff |-> SlaCutoff(clock),
               rows |-> {i \in Items : review[i].on}])
  /\ UNCHANGED <<clock, sla, trigger, sittingVars, reviewVars, qualityVars>>

\* check_and_escalate_overdue_reviews: not within a day of the last.
AlreadyRecorded(i) == \E e \in escalated[i] : e.at >= clock - Day

EscalateReview(t, i) ==
  /\ run[t].job = "reviews" /\ i \in run[t].rows
  /\ escalated' = IF review[i].since < run[t].sla_cutoff /\ ~AlreadyRecorded(i)
                  THEN [escalated EXCEPT ![i] = @ \cup {[since |-> review[i].since, at |-> clock]}]
                  ELSE escalated
  /\ Took(t, i)
  /\ UNCHANGED <<clock, sla, trigger, sittingVars, review, qualityVars>>

-----------------------------------------------------------------------------
(* apps/itembank: items that discriminate badly.                           *)

\* A paper with the item is stored for a sitting.
Use(i, exam) ==
  /\ Len(usage[i]) < MaxUses
  /\ usage' = [usage EXCEPT ![i] = Append(@, [sitting_ref |-> exam, index |-> "none"])]
  /\ UNCHANGED <<clock, sla, trigger, sittingVars, reviewVars, flagged, flags, run>>

\* The results of the sitting: the index is below the threshold, or it is not.
Analyse(i, k, index) ==
  /\ usage[i][k].index = "none"
  /\ usage' = [usage EXCEPT ![i][k].index = index]
  /\ UNCHANGED <<clock, sla, trigger, sittingVars, reviewVars, flagged, flags, run>>

Analysed(i) == {k \in DOMAIN usage[i] : usage[i][k].index # "none"}

ListItems(t) ==
  /\ Start(t, [job |-> "items", rows |-> {[id |-> i, quality_flagged |-> flagged[i]] :
                                           i \in {j \in Items : Analysed(j) # {}}}])
  /\ UNCHANGED <<clock, sla, trigger, sittingVars, reviewVars, qualityVars>>

\* The newest use in each sitting, and of these the two that are newest.
PerSitting(i) ==
  {k \in Analysed(i) :
     \A j \in Analysed(i) : j > k => usage[i][j].sitting_ref # usage[i][k].sitting_ref}

RecentUsages(i) ==
  {k \in PerSitting(i) : Cardinality({j \in PerSitting(i) : j > k}) < 2}

FlagLowQualityItem(t, row) ==
  LET low == /\ Cardinality(RecentUsages(row.id)) = 2
             /\ \A k \in RecentUsages(row.id) : usage[row.id][k].index = "low"
  IN
  /\ run[t].job = "items" /\ row \in run[t].rows
  /\ IF low /\ ~row.quality_flagged /\ ~flagged[row.id]
     THEN /\ flagged' = [flagged EXCEPT ![row.id] = TRUE]
          /\ flags' = [flags EXCEPT ![row.id] = @ + 1]
     ELSE UNCHANGED <<flagged, flags>>
  /\ Took(t, row)
  /\ UNCHANGED <<clock, sla, trigger, sittingVars, reviewVars, usage>>

-----------------------------------------------------------------------------
SlaSteps ==
  \/ \E t \in Runners :
       \/ ListSlas(t) \/ FireEscalation(t) \/ PublishSla(t)
       \/ run[t].job = "slas" /\ \E row \in run[t].rows : CheckSla(t, row)
  \/ \E i \in Instances : CloseSla(i)

CertSteps ==
  \/ \E i \in Triggers : Fire(i) \/ Acknowledge(i)
  \/ \E t \in Runners :
       \/ ListTriggers(t) \/ PublishBreach(t)
       \/ \E i \in Triggers : CheckTrigger(t, i)

SittingSteps ==
  \/ \E s \in Sittings :
       \/ MonitorT30Lock(s) \/ CloseSitting(s)
       \/ \E date \in Dates : Reschedule(s, date)
  \/ \E t \in Runners :
       \/ SendT30Reminders(t) \/ NextOffset(t) \/ RecordReminder(t)
       \/ \E offset \in Offsets : ListSittings(t, offset)
       \/ \E s \in Sittings : LockForReminder(t, s)

ReviewSteps ==
  \/ \E i \in Items : Move(i)
  \/ \E t \in Runners : ListReviews(t) \/ \E i \in Items : EscalateReview(t, i)

QualitySteps ==
  \/ \E i \in Items :
       \/ \E exam \in Exams : Use(i, exam)
       \/ \E k \in DOMAIN usage[i], index \in {"low", "fine"} : Analyse(i, k, index)
  \/ \E t \in Runners :
       \/ ListItems(t)
       \/ run[t].job = "items" /\ \E row \in run[t].rows : FlagLowQualityItem(t, row)

MonitorsNext ==
  \/ SlaSteps \/ CertSteps \/ SittingSteps \/ ReviewSteps \/ QualitySteps
  \/ Tick
  \/ \E t \in Runners : EndRun(t)

MonitorsSpec == MonitorsInit /\ [][MonitorsNext]_monitorVars

-----------------------------------------------------------------------------
(* Properties.                                                             *)

\* A service level is escalated, and told of, once at most for each status it
\* comes to, whatever is closed meanwhile and wherever the worker dies; but
\* not at all if it dies between the two.
SlaSaidOnce ==
  \A i \in Instances, s \in Said :
    sla[i].published[s] <= sla[i].escalations[s] /\ sla[i].escalations[s] <= 1

\* No certificate is reported late more often than it was asked for.
BreachSaidOnce == \A i \in Triggers : trigger[i].breaches <= trigger[i].fires

\* However many runs there are, nobody is reminded twice of the same offset on
\* one day.
ReminderSaidOnce == \A r \in DOMAIN reminded : reminded[r] <= 1

\* An item is escalated only after five weekdays in review.
EscalationIsDue ==
  \A i \in Items : \A e \in escalated[i] :
    Cardinality({day \in (e.since \div Day)..(e.at \div Day - 1) : Weekday(day)}) >= 5

\* However many runs there are, an item is flagged once, and was low in two
\* sittings.
FlagSaidOnce ==
  \A i \in Items :
    /\ flags[i] = IF flagged[i] THEN 1 ELSE 0
    /\ flagged[i] => \E j, k \in DOMAIN usage[i] :
         /\ usage[i][j].index = "low" /\ usage[i][k].index = "low"
         /\ usage[i][j].sitting_ref # usage[i][k].sitting_ref

\* What the periodic tasks report is due, and is reported once: of a service
\* level, a certificate, a sitting, an item in review and an item's quality.
SaidOnce ==
  SlaSaidOnce /\ BreachSaidOnce /\ ReminderSaidOnce /\ EscalationIsDue /\ FlagSaidOnce
=============================================================================
