--------------------------- MODULE ItemLifecycle ---------------------------
(***************************************************************************)
(* What apps/itembank promises those who read an item: reviewers, the      *)
(* panel and whoever builds papers.  An item goes from hand to hand, one   *)
(* way (SRS-NBE-F02-04); only in its writer's hands does its content       *)
(* change, and it leaves them with all its tags.  Administrators may       *)
(* change the tags at any time, and leave none empty.                      *)
(*                                                                         *)
(* Papers relies on this: its PanelLocks is the Pass that locks an item,   *)
(* and its Retag the Retag of one item.                                    *)
(***************************************************************************)
CONSTANTS
  Items,
  Complete   \* the tags in which nothing mandatory is missing

VARIABLES
  stage,     \* per item: in whose hands it is
  content,   \* per item: its versions, and which of them is current
  tags       \* per item: its metadata

vars == <<stage, content, tags>>

\* Two of the stages are the writer's.
Written == {"draft", "revision"}

Ways == {<<"draft", "review">>, <<"review", "revision">>, <<"revision", "panel">>,
         <<"panel", "Locked for Use">>, <<"panel", "Rejected">>}

Init == stage = [i \in Items |-> "none"]

Write(i) ==
  /\ stage[i] \in Written \cup {"none"}
  /\ stage' = [stage EXCEPT ![i] = IF @ = "none" THEN "draft" ELSE @]
  /\ content' = [content EXCEPT ![i] = content'[i]]
  /\ tags' = [tags EXCEPT ![i] = tags'[i]]

Pass(i) ==
  /\ tags[i] \in Complete
  /\ \E w \in Ways : w[1] = stage[i] /\ stage' = [stage EXCEPT ![i] = w[2]]
  /\ UNCHANGED <<content, tags>>

Retag ==
  /\ \A i \in Items : tags'[i] \in Complete \cup {tags[i]}
  /\ UNCHANGED <<stage, content>>

Next == (\E i \in Items : Write(i) \/ Pass(i)) \/ Retag

Spec == Init /\ [][Next]_vars

=============================================================================
