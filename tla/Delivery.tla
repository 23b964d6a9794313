------------------------------ MODULE Delivery ------------------------------
(***************************************************************************)
(* What the outbox and System 17 promise together, with the poller, its    *)
(* failures and its retries left out: an event is written with its key,    *)
(* the first one written under a key that gets through is forwarded to the *)
(* bus, and events are confirmed once their key is there.                  *)
(*                                                                         *)
(* "at-least-once delivery" (shared/events.py) is this promise only if no  *)
(* two events share a key.                                                 *)
(***************************************************************************)
EXTENDS Naturals, Sequences

VARIABLES
  written,   \* the keys of the events, in the order they were written in
  bus,       \* the events on the bus, in the order they came there
  confirmed  \* the events their writer takes for published

vars == <<written, bus, confirmed>>

Events == 1..Len(written)

\* Somebody's event with this key is on the bus.
OnBus(key) == \E j \in 1..Len(bus) : written[bus[j]] = key

Init ==
  /\ written = <<>>
  /\ bus = <<>>
  /\ confirmed = {}

Write ==
  /\ Len(written') = Len(written) + 1
  /\ \A e \in Events : written'[e] = written[e]
  /\ UNCHANGED <<bus, confirmed>>

Forward(e) ==
  /\ ~OnBus(written[e])
  /\ bus' = Append(bus, e)
  /\ UNCHANGED <<written, confirmed>>

Confirm(e) ==
  /\ OnBus(written[e])
  /\ confirmed' = confirmed \cup {e}
  /\ UNCHANGED <<written, bus>>

Next == Write \/ \E e \in Events : Forward(e) \/ Confirm(e)

Spec == Init /\ [][Next]_vars

=============================================================================
