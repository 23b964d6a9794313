---------------------------- MODULE MCCommittee ----------------------------
(* An instance of Committee for TLC.  The desks of the committee have no   *)
(* row in common but the members', so that each is looked at on its own,   *)
(* with two members; the vault with a third, for two cosignatures at a     *)
(* time, and with members whose roles and tenures stay as they are.        *)
EXTENDS Committee, TLC

CONSTANTS m1, m2, m3

VARIABLE desk

MCInit == Init /\ desk \in {"register", "conflicts", "meetings", "actions", "vault"}

TwoMembers ==
  /\ member'[m3].status = "none"
  /\ \A g \in Meetings : m3 \notin meeting'[g].attendees

PlainMembers ==
  /\ \A m \in Members : /\ member'[m].role = "member"
                        /\ member'[m].tenure = 0 <=> m = m1 \/ member'[m].status = "none"
  /\ \A w \in Workers : held'[w].op # "amend"

MCNext ==
  /\ UNCHANGED desk
  /\ \/ desk = "register" /\ (MemberSteps \/ NextDay) /\ TwoMembers /\ today' < 2
     \/ desk = "conflicts" /\ ConflictSteps
     \/ desk = "meetings" /\ MeetingSteps /\ TwoMembers
     \/ desk = "actions" /\ (EscalateOverdueActions \/ NextDay)
     \/ desk = "vault" /\ (MemberSteps \/ ExportSteps \/ NextDay) /\ PlainMembers
     \/ AbandonSteps

MCSpec == MCInit /\ [][MCNext]_<<vars, desk>> /\ Fairness
=============================================================================
