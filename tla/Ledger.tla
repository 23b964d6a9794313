------------------------------- MODULE Ledger -------------------------------
(***************************************************************************)
(* What the audit trail promises whoever verifies it: a ledger that only   *)
(* grows, in which each entry carries the hash of the one before it, and   *)
(* daily anchors that close a day for good.  A transaction appends all its *)
(* entries at once, and nothing is seen of one that is rolled back.        *)
(***************************************************************************)
EXTENDS Naturals

CONSTANT Days   \* the days that may be anchored

VARIABLES
  entries,  \* records with the fields id, prev and day
  anchors   \* records with the fields day and head

vars == <<entries, anchors>>

\* The id of the last of them, 0 if there is none.
Last(es) ==
  IF es = {} THEN 0
             ELSE CHOOSE i \in {e.id : e \in es} : \A e \in es : e.id <= i

Init == entries = {} /\ anchors = {}

\* An entry goes to the end, onto the one before it, and not into a day that
\* is anchored.
IsAppended(e) ==
  /\ \A f \in entries : f.id < e.id
  /\ \A f \in entries' : f.id = e.id => f = e
  /\ e.prev = Last({f \in entries' : f.id < e.id})
  /\ \A a \in anchors : a.day < e.day

Append ==
  /\ entries \subseteq entries'
  /\ \A e \in entries' \ entries : IsAppended(e)
  /\ UNCHANGED anchors

\* The last entry up to a day; anchoring it again changes nothing.
Anchor(d) ==
  /\ anchors' = {a \in anchors : a.day # d}
                  \cup {[day |-> d, head |-> Last({e \in entries : e.day <= d})]}
  /\ UNCHANGED entries

Next == Append \/ \E d \in Days : Anchor(d)

Spec == Init /\ [][Next]_vars

=============================================================================
