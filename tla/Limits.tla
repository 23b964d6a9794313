------------------------------- MODULE Limits -------------------------------
(***************************************************************************)
(* Counting refusals: EdgeRateLimitMiddleware counts the refused requests  *)
(* of an address, and shared/permissions the denials of a user, in cache   *)
(* entries that live for a window.  The request that takes a counter to    *)
(* its threshold, exactly, throttles or blocks the address, or reports the *)
(* user.                                                                   *)
(*                                                                         *)
(* incr is atomic, but counting is not: a request that finds no counter    *)
(* sets one, and others may have done so, and counted, in between.  The    *)
(* model is of one address with one user.                                  *)
(***************************************************************************)
EXTENDS Integers, Sequences

CONSTANTS
  Callers,     \* requests at a time
  Limit,       \* per kind of counter: its threshold
  Window,      \* per kind: how long its entries live
  MaxCount     \* bound: the value of a counter

Kinds == {"denials", "throttle", "block"}

ASSUME LimitsAssumption ==
  /\ Limit \in [Kinds -> Nat \ {0}] /\ Window \in [Kinds -> Nat \ {0}]
  /\ MaxCount \in Nat

VARIABLES
  counter,  \* per kind: the entry; whether who reached the threshold died is a ghost
  flag,     \* per kind: how long the address is limited, or the user's report is news
  caller    \* per request: what is left to do, and what incr returned

limitVars == <<counter, flag, caller>>

-----------------------------------------------------------------------------
NoCounter == [value |-> 0, ttl |-> 0, lost |-> FALSE]

Live(k) == counter[k].ttl > 0

Limited(k) == flag[k] > 0

NobodyCalls == [todo |-> <<>>, got |-> [k \in Kinds |-> 0]]

LimitsInit ==
  /\ counter = [k \in Kinds |-> NoCounter]
  /\ flag = [k \in Kinds |-> 0]
  /\ caller = [r \in Callers |-> NobodyCalls]

-----------------------------------------------------------------------------
\* _record_rejection of a request the middleware turns away: it counts for the
\* block alone.
TurnedAway == <<<<"incr", "block">>, <<"act", "block">>>>

\* _record_rejection of an answer 401, 403 or 429.
Rejected == <<<<"incr", "throttle">>, <<"incr", "block">>,
              <<"act", "throttle">>, <<"act", "block">>>>

\* _record_denial: an answer 403 for want of a permission.
Denied == <<<<"incr", "denials">>, <<"act", "denials">>>> \o Rejected

\* __call__ up to the pre-check.  A request that is let through may be refused
\* later, when others have been: it keeps what the pre-check told it.
Arrive(r) ==
  /\ caller[r] = NobodyCalls
  /\ caller' = [caller EXCEPT ![r].todo =
       IF Limited("block") \/ Limited("throttle") THEN TurnedAway ELSE <<<<"handle">>>>]
  /\ UNCHANGED <<counter, flag>>

NextStep(r, step) == caller[r].todo # <<>> /\ Head(caller[r].todo) = step

Handle(r) ==
  /\ NextStep(r, <<"handle">>)
  /\ \E todo \in {<<>>, Rejected, Denied} : caller' = [caller EXCEPT ![r].todo = todo]
  /\ UNCHANGED <<counter, flag>>

\* _incr, and that of _check_user_denial_rate: with a counter,
Incr(r, k) ==
  /\ NextStep(r, <<"incr", k>>)
  /\ Live(k) /\ counter[k].value < MaxCount
  /\ counter' = [counter EXCEPT ![k].value = @ + 1]
  /\ caller' = [caller EXCEPT ![r].todo = Tail(@), ![r].got[k] = counter[k].value + 1]
  /\ UNCHANGED flag

\* and without one: a ValueError,
IncrNone(r, k) ==
  /\ NextStep(r, <<"incr", k>>)
  /\ ~Live(k)
  /\ caller' = [caller EXCEPT ![r].todo = <<<<"set", k>>>> \o Tail(@)]
  /\ UNCHANGED <<counter, flag>>

\* and a counter of one, whatever is there by now.
SetOne(r, k) ==
  /\ NextStep(r, <<"set", k>>)
  /\ counter' = [counter EXCEPT ![k] = [value |-> 1, ttl |-> Window[k], lost |-> FALSE]]
  /\ caller' = [caller EXCEPT ![r].todo = Tail(@), ![r].got[k] = 1]
  /\ UNCHANGED flag

\* Mutant: the counter is read again, and others may have counted since.
CountNow(r, k) == IF caller[r].got[k] = 0 THEN 0 ELSE counter[k].value

\* What is compared with the threshold is what incr returned.
Count(r, k) == caller[r].got[k]

\* cache.set of the throttle or the block, and the security event.
Act(r, k) ==
  /\ NextStep(r, <<"act", k>>)
  /\ flag' = IF Count(r, k) = Limit[k] THEN [flag EXCEPT ![k] = Window[k]] ELSE flag
  /\ caller' = [caller EXCEPT ![r] = IF Len(@.todo) = 1 THEN NobodyCalls
                                     ELSE [todo |-> Tail(@.todo), got |-> [@.got EXCEPT ![k] = 0]]]
  /\ UNCHANGED counter

\* The request is about to act on a count that reached the threshold.
Owes(r, k) ==
  /\ caller[r].got[k] = Limit[k]
  /\ \E i \in DOMAIN caller[r].todo : caller[r].todo[i] = <<"act", k>>

\* The worker dies.
DieCounting(r) ==
  /\ caller[r].todo # <<>>
  /\ caller' = [caller EXCEPT ![r] = NobodyCalls]
  /\ counter' = [k \in Kinds |-> [counter[k] EXCEPT !.lost = @ \/ Owes(r, k)]]
  /\ UNCHANGED flag

\* Time passes, and entries whose time is up are gone.
Pass ==
  /\ counter' = [k \in Kinds |-> IF counter[k].ttl <= 1 THEN NoCounter
                                  ELSE [counter[k] EXCEPT !.ttl = @ - 1]]
  /\ flag' = [k \in Kinds |-> IF flag[k] = 0 THEN 0 ELSE flag[k] - 1]
  /\ UNCHANGED caller

-----------------------------------------------------------------------------
LimitsNext ==
  \/ \E r \in Callers :
       \/ Arrive(r) \/ Handle(r) \/ DieCounting(r)
       \/ \E k \in Kinds : Incr(r, k) \/ IncrNone(r, k) \/ SetOne(r, k) \/ Act(r, k)
  \/ Pass

LimitsSpec == LimitsInit /\ [][LimitsNext]_limitVars

-----------------------------------------------------------------------------
(* Properties.                                                             *)

\* A counter that reached its threshold limits for as long as it lives: the
\* equality is never stepped over, and the limit does not end before the
\* counter, however requests count at the same time.  What excepts is the
\* request that is about to act, and the one that died before it could.
LimitApplies ==
  \A k \in Kinds :
    Live(k) /\ counter[k].value >= Limit[k] =>
      Limited(k) \/ counter[k].lost \/ \E r \in Callers : Owes(r, k)
=============================================================================
