-------------------------- MODULE SittingLifecycle --------------------------
(***************************************************************************)
(* What apps/sitting promises the phases that consume a sitting: the       *)
(* lifecycle of the module docstrings of services.py and models.py, in     *)
(* which every operation is one atomic step.                               *)
(*                                                                         *)
(* "content" is the live configuration and "view" what get_sitting_snapshot*)
(* hands out.  They are the same until the lock; after it the view changes *)
(* by a resolution only, while the Chair may go on changing the centres.   *)
(***************************************************************************)
CONSTANTS
  Contents,   \* configurations: records with the fields cfg, papers, centres
  Complete,   \* those that pass the readiness check
  Blank       \* the content of a sitting that does not exist

VARIABLES status, approved, content, view

vars == <<status, approved, content, view>>

Unlocked == {"draft", "configured"}
Locked   == {"locked", "active", "closed"}

Init ==
  /\ status = "absent"
  /\ approved = FALSE
  /\ content = Blank
  /\ view = Blank

\* Creating a sitting, or editing one: it has to be configured (again).
Draft ==
  /\ status \in {"absent"} \cup Unlocked
  /\ status' = "draft"
  /\ content' \in Contents
  /\ view' = content'
  /\ UNCHANGED approved

Configure ==
  /\ status \in Unlocked
  /\ content \in Complete
  /\ status' = "configured"
  /\ UNCHANGED <<approved, content, view>>

Approve ==
  /\ status = "configured"
  /\ approved' = TRUE
  /\ UNCHANGED <<status, content, view>>

Discard ==
  /\ status \in Unlocked
  /\ status' = "absent"
  /\ approved' = FALSE
  /\ content' = Blank
  /\ view' = Blank

\* Only what is approved and complete is ever locked.
Lock ==
  /\ status = "configured"
  /\ approved
  /\ content \in Complete
  /\ status' = "locked"
  /\ UNCHANGED <<approved, content, view>>

\* The Chair changes the centres, which consumers do not see.
AmendVenue ==
  /\ status \in Locked
  /\ \E c \in Contents :
       /\ c.cfg = content.cfg /\ c.papers = content.papers
       /\ content' = c
  /\ UNCHANGED <<status, approved, view>>

\* An NBEC resolution changes what consumers see, but never the papers.
AmendByResolution ==
  /\ status \in Locked
  /\ \E c \in Contents : c.papers = content.papers /\ content' = c
  /\ view' = content'
  /\ UNCHANGED <<status, approved>>

Advance ==
  /\ <<status, status'>> \in {<<"locked", "active">>, <<"active", "closed">>}
  /\ UNCHANGED <<approved, content, view>>

Next ==
  \/ Draft \/ Configure \/ Approve \/ Discard
  \/ Lock \/ AmendVenue \/ AmendByResolution \/ Advance

Spec == Init /\ [][Next]_vars

=============================================================================
