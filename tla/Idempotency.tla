---------------------------- MODULE Idempotency ----------------------------
(***************************************************************************)
(* shared/middleware.py, IdempotencyKeyMiddleware: what happens to the     *)
(* calls that carry one Idempotency-Key.  Keys do not influence each       *)
(* other, so the model has one: its cached answer, its in-flight           *)
(* reservation, and the calls a client (or several workers) make with it.  *)
(*                                                                         *)
(* A call is a worker thread between two cache operations; each of them is *)
(* atomic in Redis, and cache.add is a test-and-set.  The reservation is   *)
(* only the string "1" in the cache; the model names its owner, and no     *)
(* guard of the middleware looks at the name.                              *)
(***************************************************************************)
EXTENDS Naturals, FiniteSets

CONSTANTS
  Calls,     \* calls with the key, each made once
  SlowCalls, \* those whose handler may outlive IDEMPOTENCY_RESERVATION_TTL
  Mortal,    \* those whose worker may die
  NoCall

ASSUME CallsAssumption ==
  SlowCalls \subseteq Calls /\ Mortal \subseteq Calls /\ NoCall \notin Calls

VARIABLES
  cached,    \* an answer below 500 is cached (for 24 hours: never expires here)
  reserved,  \* the call whose reservation is in the cache, or NoCall
  pc,        \* per call
  answer,    \* per call: the class of the answer of its handler
  ran,       \* history: the calls whose handler committed its effect
  late       \* history: the calls made when an answer below 500 was out

vars == <<cached, reserved, pc, answer, ran, late>>

Answers == {"none", "success", "refused", "error"}

\* What the client of a call can have received.
Ends == {"answered", "replayed", "conflict", "dead"}

\* The stages in which a call believes it owns the reservation.
Holding == {"handling", "handled", "stored"}

Init ==
  /\ cached = FALSE
  /\ reserved = NoCall
  /\ pc = [c \in Calls |-> "new"]
  /\ answer = [c \in Calls |-> "none"]
  /\ ran = {}
  /\ late = {}

At(c, from) == pc[c] = from
To(c, to)   == pc' = [pc EXCEPT ![c] = to]

\* An answer below 500 has reached a client.
AnswerOut ==
  \E c \in Calls : \/ pc[c] = "replayed"
                   \/ pc[c] = "answered" /\ answer[c] # "error"

\* cache.get(cache_key): replay, or go on.
Lookup(c) ==
  /\ At(c, "new")
  /\ To(c, IF cached THEN "replayed" ELSE "missed")
  /\ late' = IF AnswerOut THEN late \cup {c} ELSE late
  /\ UNCHANGED <<cached, reserved, answer, ran>>

\* Mutant: the reservation is set without looking whether there is one.
ReserveAnyway(c) ==
  /\ At(c, "missed")
  /\ To(c, "handling")
  /\ reserved' = c
  /\ UNCHANGED <<cached, answer, ran, late>>

\* cache.add(reservation_key): 409 if another call holds the key.
Reserve(c) ==
  /\ At(c, "missed")
  /\ IF reserved = NoCall
       THEN To(c, "handling") /\ reserved' = c
       ELSE To(c, "conflict") /\ UNCHANGED reserved
  /\ UNCHANGED <<cached, answer, ran, late>>

\* get_response: the rest of the stack.  A refusal (4xx) leaves nothing
\* behind; an error may come after the view has committed.
HandleCall(c) ==
  /\ At(c, "handling")
  /\ To(c, "handled")
  /\ \E a \in {"success", "refused", "error"}, done \in BOOLEAN :
       /\ a = "success" => done
       /\ a = "refused" => ~done
       /\ answer' = [answer EXCEPT ![c] = a]
       /\ ran' = IF done THEN ran \cup {c} ELSE ran
  /\ UNCHANGED <<cached, reserved, late>>

\* Mutant: refusals are not cached.
StoreSuccess(c) ==
  /\ At(c, "handled")
  /\ To(c, "stored")
  /\ cached' = (cached \/ answer[c] = "success")
  /\ UNCHANGED <<reserved, answer, ran, late>>

\* _store, for every answer below 500.
StoreAnswer(c) ==
  /\ At(c, "handled")
  /\ To(c, "stored")
  /\ cached' = (cached \/ answer[c] # "error")
  /\ UNCHANGED <<reserved, answer, ran, late>>

\* finally: cache.delete(reservation_key), whoever put it there.
Free(c) ==
  /\ At(c, "stored")
  /\ To(c, "answered")
  /\ reserved' = NoCall
  /\ UNCHANGED <<cached, answer, ran, late>>

\* The worker dies: no finally, the reservation stays.
Die(c) ==
  /\ c \in Mortal
  /\ pc[c] \in {"missed"} \cup Holding
  /\ To(c, "dead")
  /\ UNCHANGED <<cached, reserved, answer, ran, late>>

\* Mutant: the reservation is added without a timeout.
NeverExpire ==
  /\ reserved \in SlowCalls
  /\ pc[reserved] \in Holding
  /\ reserved' = NoCall
  /\ UNCHANGED <<cached, pc, answer, ran, late>>

\* The reservation reaches its timeout: long after its owner died, or while
\* the handler of a slow owner is still at work.
Expire ==
  /\ reserved # NoCall
  /\ \/ pc[reserved] \in Ends
     \/ reserved \in SlowCalls
  /\ reserved' = NoCall
  /\ UNCHANGED <<cached, pc, answer, ran, late>>

Work(c) == Lookup(c) \/ Reserve(c) \/ HandleCall(c) \/ StoreAnswer(c) \/ Free(c)

Next ==
  \/ \E c \in Calls : Work(c) \/ Die(c)
  \/ Expire

Spec == Init /\ [][Next]_vars

\* A live worker goes on, and a timeout comes.
Fairness == /\ \A c \in Calls : WF_vars(Work(c))
            /\ WF_vars(Expire)

FairSpec == Spec /\ Fairness

-----------------------------------------------------------------------------
TypeOK ==
  /\ cached \in BOOLEAN
  /\ reserved \in Calls \cup {NoCall}
  /\ pc \in [Calls -> {"new", "missed"} \cup Holding \cup Ends]
  /\ answer \in [Calls -> Answers]
  /\ ran \subseteq Calls
  /\ late \subseteq Calls

\* Whatever overlaps, expires or dies: a call made after an answer below 500
\* is out is never handled again, refusals included.  It depends on the answer
\* being cached before it is returned.
RetryIsReplayed == \A c \in late : pc[c] = "replayed"

\* A slow call has begun: its reservation may go while it is at work.
SlowBegun == \E c \in SlowCalls : pc[c] \in Holding \cup {"answered", "dead"}

\* Until a call begins that can outlive its reservation, two handlers of the
\* same key never run at the same time, whatever overlaps or dies.
OneHandler ==
  ~SlowBegun =>
    \A c, d \in Calls : pc[c] \in Holding /\ pc[d] \in Holding => c = d

\* A key is never blocked for good: its reservation goes, also when the
\* worker that made it died.
KeyIsFreed == []<>(reserved = NoCall)

=============================================================================
