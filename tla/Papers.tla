------------------------------- MODULE Papers -------------------------------
(***************************************************************************)
(* apps/itembank: papers built from the items that are locked for use      *)
(* (SRS-NBE-F02-08).                                                       *)
(*                                                                         *)
(* A paper is put together by hand (create_manual_paper) or by rule        *)
(* (generate_paper_rule_based), which also draws variants.  Both read the  *)
(* items and their recent use, decide, and then store the paper with an    *)
(* ItemUsage and a VaultAccess for every item.  The whole is one           *)
(* transaction, but nothing is locked: what was read may be old when the   *)
(* paper is stored.  The rule-based selection is modelled step by step,    *)
(* because the order of the items in a query's answer decides between      *)
(* equally good choices.                                                   *)
(*                                                                         *)
(* ItemBank models how items come to be locked and how they are re-tagged. *)
(* Marks are in hundredths, the precision of the column.                   *)
(***************************************************************************)
EXTENDS Integers, FiniteSets, FiniteSetsExt, Functions, Sequences

CONSTANTS
  Items,          \* the items
  Bank,           \* their rows at the start, see ItemRow
  Topics,         \* the topics
  Difficulties,   \* and difficulties there are
  Sittings,       \* the sittings papers are for
  Builders,       \* constructions that may overlap
  ManualPapers,   \* payloads of ManualPaperSerializer
  RulePapers,     \* payloads of RuleBasedPaperSerializer
  Updates,        \* the tags bulk_retag_items may give to an item
  Blueprints,     \* the setting NBES_BLUEPRINTS
  Tolerance,      \* the setting PAPER_MARKS_TOLERANCE
  Cooldown,       \* the setting ITEM_COOLDOWN_SITTINGS
  MaxPapers,      \* bound: papers
  MaxRetags,      \* bound: bulk re-tags
  MaxExports      \* bound: exports

Subjects == {"law", "ethics"}

ItemRow == [locked : BOOLEAN, subject : Subjects, topic : Topics,
            difficulty : Difficulties, marks : Nat, time : Nat]

Tags == [subject : Subjects, topic : Topics, difficulty : Difficulties]

ASSUME PapersAssumption ==
  /\ IsFiniteSet(Items) /\ IsFiniteSet(Sittings)
  /\ Bank \in [Items -> ItemRow]
  /\ Tolerance \in Nat /\ Cooldown \in Nat
  /\ MaxPapers \in Nat /\ MaxRetags \in Nat /\ MaxExports \in Nat
  /\ \A m \in ManualPapers : m.sitting \in Sittings /\ m.items \in SUBSET Items
  /\ \A r \in RulePapers :
       /\ r.sitting \in Sittings /\ r.total \in Int
       /\ \A d \in DOMAIN r.difficulty : r.difficulty[d] \in 0..100
       /\ \A t \in DOMAIN r.topic : r.topic[t] \in 0..100
  /\ ManualPapers \cap RulePapers = {}
  /\ Updates \subseteq Tags

VARIABLES
  row,      \* the itembank_item rows
  papers,   \* the itembank_paper rows
  usage,    \* the itembank_itemusage rows, those of a transaction together
  access,   \* per item and kind: how many itembank_vaultaccess rows
  builder,  \* per construction: what it has read and chosen
  retags    \* how many re-tags there were

vars == <<row, papers, usage, access, builder, retags>>

-----------------------------------------------------------------------------
(* Rows and requests.                                                      *)

\* A paper's forms are its own items and those of its variants.
Paper == [sitting : Sittings, forms : Seq(SUBSET Items),
          status : {"Constructed", "Ready For Approval"}]

ItemUsage == [sitting : Sittings, items : SUBSET Items]

VaultAccess == {"read", "export"}

NoPayload == [sitting |-> "none"]

\* seen are the rows as read, pool the items to choose from, need what is
\* missing of each difficulty and topic in the form being chosen.
Resting == [pc |-> "idle", req |-> NoPayload, seen |-> Bank, pool |-> {},
            form |-> {}, need |-> <<>>, forms |-> <<>>]

Init ==
  /\ row = Bank
  /\ papers = <<>>
  /\ usage = <<>>
  /\ access = [i \in Items |-> [k \in VaultAccess |-> 0]]
  /\ builder = [b \in Builders |-> Resting]
  /\ retags = 0

Idle(b) == builder[b].pc = "idle" /\ Len(papers) < MaxPapers

\* A payload the serializers let through.
PaperSection(s) == s.items # {}

ManualPaper(req) ==
  req.items # {} /\ req.time >= 1 /\ \A s \in req.sections : PaperSection(s)

Percentages(shares) == SumFunction(shares) = 100

RuleBasedPaper(req) ==
  Percentages(req.difficulty) /\ Percentages(req.topic) /\ req.variants >= 1

MarksOf(is) == MapThenSumSet(LAMBDA i : Bank[i].marks, is)
TimeOf(is)  == MapThenSumSet(LAMBDA i : Bank[i].time, is)

\* A share of the marks, to a hundredth: halves are rounded away from zero.
Share(total, percent) ==
  IF total < 0 THEN -((50 - total * percent) \div 100)
               ELSE (total * percent + 50) \div 100

-----------------------------------------------------------------------------
(* The cool-down.                                                          *)

UsedSittings == {usage[k].sitting : k \in DOMAIN usage}

\* s was used after the last use of t.
UsedAfter(s, t) ==
  \E k \in DOMAIN usage :
    usage[k].sitting = s /\ \A n \in DOMAIN usage : usage[n].sitting = t => n < k

\* Mutant: the paper's own sitting takes a place among the recent ones.
RecentOrOwn(sitting) ==
  {s \in UsedSittings :
     Cardinality({t \in UsedSittings : UsedAfter(t, s)}) < Cooldown} \ {sitting}

\* _recent_sittings: the last of them, those of the paper's own sitting apart.
RecentSittings(sitting) ==
  LET others == UsedSittings \ {sitting} IN
  {s \in others : Cardinality({t \in others : UsedAfter(t, s)}) < Cooldown}

\* get_cooled_down_items.
CooledDown(sitting) ==
  UNION {usage[k].items : k \in {n \in DOMAIN usage :
                                   usage[n].sitting \in RecentSittings(sitting)}}

-----------------------------------------------------------------------------
(* The checks on a choice of items.                                        *)

\* _validate_blueprint: no topic has less than its share.
MeetsBlueprint(is, seen, req) ==
  req.blueprint \in DOMAIN Blueprints =>
    LET topics == Blueprints[req.blueprint].topics IN
    \A t \in DOMAIN topics :
      MarksOf({i \in is : seen[i].topic = t}) + Tolerance >= Share(req.total, topics[t])

\* _validate_sections.
MeetsSections(is, req) ==
  LET required == IF req.blueprint \in DOMAIN Blueprints
                    THEN Blueprints[req.blueprint].sections ELSE 0
  IN IF req.sections = {} THEN required = 0
     ELSE /\ \A s \in req.sections :
               /\ s.items # {} /\ s.items \subseteq is
               /\ s.marks = MarksOf(s.items)
          /\ \A s, t \in req.sections : s # t => s.items \cap t.items = {}
          /\ UNION {s.items : s \in req.sections} = is
          /\ required \in {0, Cardinality(req.sections)}

\* _validate_time_allocation.
MeetsTime(is, req) == TimeOf(is) <= req.time

-----------------------------------------------------------------------------
(* create_manual_paper.                                                    *)

\* Lines up to the first write: any failing check is a ValueError, and then
\* nothing happens.
CreateManualPaper(b, req) ==
  /\ Idle(b)
  /\ \A i \in req.items : row[i].locked /\ row[i].subject = req.subject
  /\ MarksOf(req.items) = req.total
  /\ MeetsTime(req.items, req)
  /\ MeetsBlueprint(req.items, row, req)
  /\ MeetsSections(req.items, req)
  /\ req.items \cap CooledDown(req.sitting) = {}
  /\ builder' = [builder EXCEPT ![b] =
       [Resting EXCEPT !.pc = "store", !.req = req, !.seen = row,
                       !.forms = <<req.items>>]]
  /\ UNCHANGED <<row, papers, usage, access, retags>>

\* POST papers/
Create(b, req) == ManualPaper(req) /\ CreateManualPaper(b, req)

-----------------------------------------------------------------------------
(* generate_paper_rule_based.                                              *)

Targets(req) ==
  [difficulty |-> [d \in DOMAIN req.difficulty |-> Share(req.total, req.difficulty[d])],
   topic      |-> [t \in DOMAIN req.topic |-> Share(req.total, req.topic[t])]]

\* The pool is read once, for the paper and all its variants.
StartGeneration(b, req) ==
  /\ Idle(b)
  /\ builder' = [builder EXCEPT ![b] =
       [Resting EXCEPT !.pc = "select", !.req = req, !.seen = row,
          !.pool = {i \in Items : row[i].subject = req.subject /\ row[i].locked}
                     \ CooledDown(req.sitting),
          !.need = Targets(req)]]
  /\ UNCHANGED <<row, papers, usage, access, retags>>

\* POST papers/generate/
GenerateRuleBased(b, req) == RuleBasedPaper(req) /\ StartGeneration(b, req)

\* exclude_ids and what was popped from the buckets.
Chosen(b) == builder[b].form \cup UNION {builder[b].forms[f] : f \in DOMAIN builder[b].forms}

\* The buckets hold the items with a difficulty and a topic that are asked for.
Available(b) ==
  LET w == builder[b] IN
  {i \in w.pool \ Chosen(b) : /\ w.seen[i].difficulty \in DOMAIN w.need.difficulty
                             /\ w.seen[i].topic \in DOMAIN w.need.topic}

\* What an item's bucket still lacks, of its difficulty and of its topic.
Score(b, i) ==
  LET w == builder[b] IN
  w.need.difficulty[w.seen[i].difficulty] + w.need.topic[w.seen[i].topic]

\* Items a pass of the loop may pop: a bucket with the best score above zero,
\* and of that an item with the most marks.
Candidates(b) ==
  LET w == builder[b]
      Bucket(i) == <<w.seen[i].difficulty, w.seen[i].topic>>
  IN {i \in Available(b) :
        /\ Score(b, i) > 0
        /\ \A j \in Available(b) :
             /\ Score(b, j) <= Score(b, i)
             /\ Bucket(j) = Bucket(i) => Bank[j].marks <= Bank[i].marks}

Less(need, marks) == IF marks >= need THEN 0 ELSE need - marks

\* One pass of the loop of _select_items_for_constraints.
Pick(b, i) ==
  LET w == builder[b] IN
  /\ w.pc = "select"
  /\ i \in Candidates(b)
  /\ builder' = [builder EXCEPT
       ![b].form = @ \cup {i},
       ![b].need.difficulty[w.seen[i].difficulty] = Less(@, Bank[i].marks),
       ![b].need.topic[w.seen[i].topic] = Less(@, Bank[i].marks)]
  /\ UNCHANGED <<row, papers, usage, access, retags>>

\* Mutant: topics are not looked at.
MetDifficulties(b) ==
  \A d \in DOMAIN builder[b].need.difficulty : builder[b].need.difficulty[d] <= 0

\* No errors: nothing remains under-represented.
Met(b) ==
  /\ \A d \in DOMAIN builder[b].need.difficulty : builder[b].need.difficulty[d] <= 0
  /\ \A t \in DOMAIN builder[b].need.topic : builder[b].need.topic[t] <= 0

\* The checks of generate_paper_rule_based on a form.
Acceptable(b) ==
  LET w == builder[b] IN
  /\ Met(b)
  /\ MarksOf(w.form) - w.req.total \in -Tolerance..Tolerance
  /\ MeetsBlueprint(w.form, w.seen, w.req)
  /\ MeetsTime(w.form, w.req)

\* The loop has ended.  The next variant, the end, or an error.
EndForm(b) ==
  LET w == builder[b] IN
  /\ w.pc = "select"
  /\ Candidates(b) = {}
  /\ builder' = [builder EXCEPT ![b] =
       IF ~Acceptable(b) THEN Resting
       ELSE [w EXCEPT !.forms = Append(@, w.form), !.form = {},
                      !.need = Targets(w.req),
                      !.pc = IF Len(w.forms) + 1 = w.req.variants THEN "store"
                                                                  ELSE "select"]]
  /\ UNCHANGED <<row, papers, usage, access, retags>>

-----------------------------------------------------------------------------
(* What a paper leaves behind.                                             *)

Used(forms) == UNION {forms[f] : f \in DOMAIN forms}

\* Mutant: the variants' items are not logged.
ReadsPrimary(forms, kind) ==
  access' = [i \in Items |-> [access[i] EXCEPT ![kind] =
                                @ + IF i \in forms[1] THEN 1 ELSE 0]]

\* log_vault_reads: a row for every item.
LogVaultReads(forms, kind) ==
  access' = [i \in Items |-> [access[i] EXCEPT ![kind] =
                                @ + IF i \in Used(forms) THEN 1 ELSE 0]]

\* The writes of both, and the commit.
StorePaper(b) ==
  LET w == builder[b] IN
  /\ w.pc = "store"
  /\ papers' = Append(papers, [sitting |-> w.req.sitting, forms |-> w.forms,
                               status |-> "Constructed"])
  /\ usage' = Append(usage, [sitting |-> w.req.sitting, items |-> Used(w.forms)])
  /\ LogVaultReads(w.forms, "read")
  /\ builder' = [builder EXCEPT ![b] = Resting]
  /\ UNCHANGED <<row, retags>>

\* The transaction fails, and leaves nothing.
Abort(b) ==
  /\ builder[b].pc = "store"
  /\ builder' = [builder EXCEPT ![b] = Resting]
  /\ UNCHANGED <<row, papers, usage, access, retags>>

\* submit_paper_for_approval.
SubmitPaperForApproval(p) ==
  /\ papers[p].status = "Constructed"
  /\ papers' = [papers EXCEPT ![p].status = "Ready For Approval"]
  /\ UNCHANGED <<row, usage, access, builder, retags>>

\* POST papers/{id}/submit-for-approval/
SubmitForApproval(p) == SubmitPaperForApproval(p)

\* record_paper_export: the items of the paper itself, in any status of it.
RecordPaperExport(p) ==
  /\ LogVaultReads(<<papers[p].forms[1]>>, "export")
  /\ UNCHANGED <<row, papers, usage, builder, retags>>

Exports == MapThenSumSet(LAMBDA i : access[i]["export"], Items)

\* GET papers/{id}/export/pdf/, word/ and digital/
Export(p) == Exports < MaxExports /\ RecordPaperExport(p)

-----------------------------------------------------------------------------
(* What others do to the items meanwhile.                                  *)

\* register_panel_vote: an item gets locked for use, for good.
PanelLocks(i) ==
  /\ ~row[i].locked
  /\ row' = [row EXCEPT ![i].locked = TRUE]
  /\ UNCHANGED <<papers, usage, access, builder, retags>>

\* bulk_retag_items, which does not care about the status.
Retag(i, tags) ==
  /\ retags < MaxRetags
  /\ row' = [row EXCEPT ![i].subject = tags.subject, ![i].topic = tags.topic,
                        ![i].difficulty = tags.difficulty]
  /\ retags' = retags + 1
  /\ UNCHANGED <<papers, usage, access, builder>>

-----------------------------------------------------------------------------
Next ==
  \/ \E b \in Builders :
       \/ \E req \in ManualPapers : Create(b, req)
       \/ \E req \in RulePapers : GenerateRuleBased(b, req)
       \/ \E i \in Items : Pick(b, i)
       \/ EndForm(b)
       \/ StorePaper(b)
       \/ Abort(b)
  \/ \E p \in DOMAIN papers : SubmitForApproval(p) \/ Export(p)
  \/ \E i \in Items : PanelLocks(i) \/ \E t \in Updates : Retag(i, t)

Spec == Init /\ [][Next]_vars

-----------------------------------------------------------------------------
(* Properties.                                                             *)

TypeOK ==
  /\ row \in [Items -> ItemRow]
  /\ papers \in Seq(Paper)
  /\ usage \in Seq(ItemUsage)
  /\ access \in [Items -> [VaultAccess -> Nat]]
  /\ \A b \in Builders :
       /\ builder[b].pc \in {"idle", "select", "store"}
       /\ builder[b].seen \in [Items -> ItemRow]
       /\ builder[b].pool \in SUBSET Items
       /\ builder[b].form \in SUBSET Items
       /\ builder[b].forms \in Seq(SUBSET Items)
       /\ builder[b].pc = "idle" \/ builder[b].req \in ManualPapers \cup RulePapers
  /\ retags \in 0..MaxRetags

\* The cool-down: between two uses of an item in different sittings lie uses in
\* at least Cooldown others.  (With two constructions at a time it does not
\* hold: both may choose the item before either is stored.)
CoolDownHonoured ==
  \A k, n \in DOMAIN usage :
    k < n /\ usage[k].sitting # usage[n].sitting
          /\ usage[k].items \cap usage[n].items # {} =>
      Cardinality({usage[m].sitting : m \in (k + 1)..(n - 1)}
                    \ {usage[k].sitting, usage[n].sitting}) >= Cooldown

\* What is about to be stored is what was asked for: the paper and its variants
\* have no item in common, and each has, within the tolerance, the marks in all,
\* of every topic of the blueprint, and of every difficulty and topic of the
\* rules.  The tags are those read: a re-tag may have overtaken them.
FormsMeetTargets ==
  \A b \in Builders : LET w == builder[b] IN
    w.pc = "store" =>
      \A f \in DOMAIN w.forms : LET is == w.forms[f] IN
        /\ \A g \in DOMAIN w.forms : f # g => is \cap w.forms[g] = {}
        /\ \A i \in is : w.seen[i].locked /\ w.seen[i].subject = w.req.subject
        /\ MarksOf(is) - w.req.total \in -Tolerance..Tolerance
        /\ w.req \in RulePapers =>
             /\ \A d \in DOMAIN w.req.difficulty :
                  MarksOf({i \in is : w.seen[i].difficulty = d})
                    >= Share(w.req.total, w.req.difficulty[d])
             /\ \A t \in DOMAIN w.req.topic :
                  MarksOf({i \in is : w.seen[i].topic = t})
                    >= Share(w.req.total, w.req.topic[t])

\* Every use of an item in a paper or one of its variants is recorded once as a
\* use, which the cool-down relies on, and once as a read of the vault, and only
\* items locked for use are used.
UsesAreRecorded ==
  \A i \in Items :
    LET inPapers == {p \in DOMAIN papers : i \in Used(papers[p].forms)} IN
    /\ inPapers = {k \in DOMAIN usage : i \in usage[k].items}
    /\ access[i]["read"] = Cardinality(inPapers)
    /\ inPapers # {} => row[i].locked
    /\ \A p \in inPapers : usage[p].sitting = papers[p].sitting
=============================================================================
