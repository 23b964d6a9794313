---------------------------- MODULE MCBackground ----------------------------
(* An instance for TLC of what runs beside the workflows.  The parts have  *)
(* no row and no cache entry in common, so that each is looked at on its   *)
(* own, and each within its own time.                                      *)
EXTENDS Access, Couriers, Limits, Monitors, SigningKeys, Versions, Vocabularies, TLC

VARIABLE desk

Monitored == {"sla", "certificates", "sittings", "reviews", "quality"}

MCInit ==
  /\ AccessInit /\ CouriersInit /\ LimitsInit /\ MonitorsInit
  /\ SigningKeysInit /\ VersionsInit /\ VocabulariesInit
  /\ desk \in Monitored \cup {"access", "couriers", "limits", "keys", "versions", "schemas"}
  /\ published = {CHOOSE kid \in Kids : TRUE}
  /\ desk # "sittings" => \A s \in Sittings, d \in Dates : sitting[s].date <= d

\* Thresholds that two requests reach, and a block that outlives a throttle.
Twice == [k \in Kinds |-> 2]
Windows == [k \in Kinds |-> IF k = "block" THEN 2 ELSE 1]

\* Time passes until the given bound.
Until(time) == Tick /\ clock' <= time

OneRun == \A t \in Runners : run'[t] # NoRun => t = CHOOSE r \in Runners : TRUE

MonitorsDesk ==
  \/ desk = "sla" /\ (SlaSteps \/ Until(4))
  \/ desk = "certificates" /\ (CertSteps \/ Until(4)) /\ OneRun
  \/ desk = "sittings" /\ (SittingSteps \/ Until(4))
  \/ desk = "reviews" /\ (ReviewSteps \/ Until(MaxClock)) /\ OneRun
  \/ desk = "quality" /\ QualitySteps
  \/ desk \in Monitored /\ \E t \in Runners : EndRun(t)

lookupVars == <<accessVars, keyVars>>
numberVars == <<versionVars, vocabularyVars>>
countVars  == <<courierVars, limitVars>>

LookupDesk ==
  \/ desk = "access" /\ AccessNext /\ UNCHANGED keyVars
  \/ desk = "keys" /\ SigningKeysNext /\ UNCHANGED accessVars

NumberDesk ==
  \/ desk = "versions" /\ VersionsNext /\ UNCHANGED vocabularyVars
  \/ desk = "schemas" /\ VocabulariesNext /\ UNCHANGED versionVars

CountDesk ==
  \/ desk = "couriers" /\ CouriersNext /\ UNCHANGED limitVars
  \/ desk = "limits" /\ LimitsNext /\ UNCHANGED courierVars

MCNext ==
  /\ UNCHANGED desk
  /\ \/ LookupDesk /\ UNCHANGED <<numberVars, countVars, monitorVars>>
     \/ NumberDesk /\ UNCHANGED <<lookupVars, countVars, monitorVars>>
     \/ CountDesk /\ UNCHANGED <<lookupVars, numberVars, monitorVars>>
     \/ MonitorsDesk /\ UNCHANGED <<lookupVars, numberVars, countVars>>

MCSpec == MCInit /\ [][MCNext]_<<lookupVars, numberVars, countVars, monitorVars, desk>>
=============================================================================
