---------------------------- MODULE PapersProofs ----------------------------
(***************************************************************************)
(* Proofs about Papers: the uses of the items are recorded and the forms   *)
(* meet their targets, whatever is constructed side by side, and one       *)
(* construction at a time honours the cool-down.                           *)
(***************************************************************************)
EXTENDS Papers, SequenceTheorems, FiniteSetTheorems, WellFoundedInduction, TLAPS

-----------------------------------------------------------------------------
(* Every use is recorded.                                                  *)

PapersTypeOK ==
  /\ row \in [Items -> ItemRow]
  /\ papers \in Seq(Paper) /\ usage \in Seq(ItemUsage)
  /\ access \in [Items -> [VaultAccess -> Nat]]
  /\ DOMAIN builder = Builders

\* What a construction may still choose from, and what it has chosen.
Concerns(w) == w.pool \cup w.form \cup Used(w.forms)

Fields == {"pc", "req", "seen", "pool", "form", "need", "forms"}

IsBuilding(w) ==
  /\ DOMAIN w = Fields
  /\ w.forms \in Seq(SUBSET Items) /\ w.form \in SUBSET Items /\ w.pool \in SUBSET Items
  /\ w.pc \in {"select", "store"} => w.req.sitting \in Sittings

\* What a construction has to do with was locked for use when it was read, and
\* an item stays locked.
ChoosesLocked(b) ==
  IsBuilding(builder[b]) /\ \A i \in Concerns(builder[b]) : row[i].locked

\* None of it is in its cool-down.
NotRecent(b) == \A i \in Concerns(builder[b]) : i \notin CooledDown(builder[b].req.sitting)

\* The uses of a paper are those of its forms.
UsesMatch ==
  /\ Len(papers) = Len(usage)
  /\ \A p \in 1..Len(papers) :
       usage[p].sitting = papers[p].sitting /\ usage[p].items = Used(papers[p].forms)

InPapers(i) == {p \in 1..Len(papers) : i \in Used(papers[p].forms)}

ReadsMatch == \A i \in Items : access[i]["read"] = Cardinality(InPapers(i))

UsedAreLocked == \A i \in Items : InPapers(i) # {} => row[i].locked

PapersInv ==
  /\ PapersTypeOK /\ UsesMatch /\ ReadsMatch /\ UsedAreLocked
  /\ \A b \in Builders : ChoosesLocked(b)

\* The items of a sequence of forms.
LEMMA UsedItems ==
  ASSUME NEW forms \in Seq(SUBSET Items)
  PROVE  /\ Used(forms) \subseteq Items
         /\ \A form \in SUBSET Items :
              /\ Append(forms, form) \in Seq(SUBSET Items)
              /\ Used(Append(forms, form)) = Used(forms) \cup form
<1>1. Used(forms) \subseteq Items
  BY DEF Used
<1>2. ASSUME NEW form \in SUBSET Items
      PROVE  /\ Append(forms, form) \in Seq(SUBSET Items)
             /\ Used(Append(forms, form)) = Used(forms) \cup form
  <2> DEFINE more == Append(forms, form)
  <2>1. /\ more \in Seq(SUBSET Items) /\ Len(more) = Len(forms) + 1 /\ Len(forms) \in Nat
        /\ \A k \in 1..Len(forms) : more[k] = forms[k]
        /\ more[Len(forms) + 1] = form
    OBVIOUS
  <2> HIDE DEF more
  <2>2. DOMAIN forms = 1..Len(forms) /\ DOMAIN more = 1..Len(forms) + 1
    BY <2>1
  <2>3. \A i : i \in Used(more) => i \in Used(forms) \cup form
    BY <2>1, <2>2 DEF Used
  <2>4. ASSUME NEW i \in Used(forms) PROVE i \in Used(more)
    <3>1. PICK k \in 1..Len(forms) : i \in forms[k]
      BY <2>2, <2>4 DEF Used
    <3> QED
      BY <2>1, <2>2, <3>1 DEF Used
  <2>5. ASSUME NEW i \in form PROVE i \in Used(more)
    BY <2>1, <2>2, <2>5 DEF Used
  <2> QED
    BY <2>1, <2>3, <2>4, <2>5 DEF more
<1> QED
  BY <1>1, <1>2

\* One form, and none.
LEMMA UsedOfOne ==
  ASSUME NEW is \in SUBSET Items
  PROVE  Used(<<is>>) = is /\ <<is>> \in Seq(SUBSET Items) /\ Used(<<>>) = {}
BY DEF Used

\* What is in its cool-down depends on the uses alone.
LEMMA CoolDownStays ==
  ASSUME UNCHANGED usage PROVE \A s : CooledDown(s)' = CooledDown(s)
BY DEF CooledDown, RecentSittings, UsedAfter, UsedSittings

\* Nothing but one construction changes.
LEMMA BuilderGoesOn ==
  ASSUME PapersInv, NEW b \in Builders, NEW w, builder'[b] = w,
         DOMAIN builder' = Builders, \A c \in Builders \ {b} : builder'[c] = builder[c],
         UNCHANGED <<row, papers, usage, access>>,
         IsBuilding(w), \A i \in Concerns(w) : row[i].locked
  PROVE  PapersInv' /\ ((\A i \in Concerns(w) : i \notin CooledDown(w.req.sitting)) => NotRecent(b)')
<1>1. PapersTypeOK' /\ UsesMatch' /\ ReadsMatch' /\ UsedAreLocked'
  BY DEF PapersInv, PapersTypeOK, UsesMatch, ReadsMatch, UsedAreLocked, InPapers
<1>2. \A c \in Builders : ChoosesLocked(c)'
  BY DEF PapersInv, ChoosesLocked
<1>3. (\A i \in Concerns(w) : i \notin CooledDown(w.req.sitting)) => NotRecent(b)'
  BY CoolDownStays DEF NotRecent
<1> QED
  BY <1>1, <1>2, <1>3 DEF PapersInv

\* The same, for a construction that is replaced.
LEMMA BuilderBecomes ==
  ASSUME PapersInv, NEW b \in Builders, NEW w, builder' = [builder EXCEPT ![b] = w],
         UNCHANGED <<row, papers, usage, access>>,
         IsBuilding(w), \A i \in Concerns(w) : row[i].locked
  PROVE  PapersInv' /\ ((\A i \in Concerns(w) : i \notin CooledDown(w.req.sitting)) => NotRecent(b)')
<1>1. builder'[b] = w /\ DOMAIN builder' = Builders /\ \A c \in Builders \ {b} : builder'[c] = builder[c]
  BY DEF PapersInv, PapersTypeOK
<1> QED
  BY <1>1, BuilderGoesOn

\* A construction at rest concerns nothing.
LEMMA RestingIsBuilding == IsBuilding(Resting) /\ Concerns(Resting) = {}
BY DEF Resting, IsBuilding, Fields, Concerns, Used

\* A manual paper's items have been checked, a pool has been filtered.
LEMMA StartKeeps ==
  ASSUME PapersInv, PapersAssumption, NEW b \in Builders,
         \/ \E req \in ManualPapers : Create(b, req)
         \/ \E req \in RulePapers : GenerateRuleBased(b, req)
  PROVE  PapersInv' /\ NotRecent(b)'
<1>1. ASSUME NEW req \in ManualPapers, Create(b, req) PROVE PapersInv' /\ NotRecent(b)'
  <2> DEFINE w == [Resting EXCEPT !.pc = "store", !.req = req, !.seen = row, !.forms = <<req.items>>]
  <2>1. req.items \in SUBSET Items /\ req.sitting \in Sittings
    BY <1>1 DEF PapersAssumption
  <2>2. /\ builder' = [builder EXCEPT ![b] = w] /\ UNCHANGED <<row, papers, usage, access>>
        /\ \A i \in req.items : row[i].locked /\ i \notin CooledDown(req.sitting)
    BY <1>1 DEF Create, CreateManualPaper
  <2>3. /\ DOMAIN w = Fields /\ w.req = req /\ w.forms = <<req.items>>
        /\ w.form = {} /\ w.pool = {}
    BY DEF Resting, Fields
  <2> HIDE DEF w
  <2>4. IsBuilding(w) /\ Concerns(w) = req.items
    BY <2>1, <2>3, UsedOfOne DEF IsBuilding, Concerns
  <2> QED
    BY <2>2, <2>3, <2>4, BuilderBecomes
<1>2. ASSUME NEW req \in RulePapers, GenerateRuleBased(b, req) PROVE PapersInv' /\ NotRecent(b)'
  <2> DEFINE pool == {i \in Items : row[i].subject = req.subject /\ row[i].locked}
                       \ CooledDown(req.sitting)
             w == [Resting EXCEPT !.pc = "select", !.req = req, !.seen = row,
                     !.pool = pool, !.need = Targets(req)]
  <2>1. req.sitting \in Sittings
    BY <1>2 DEF PapersAssumption
  <2>2. builder' = [builder EXCEPT ![b] = w] /\ UNCHANGED <<row, papers, usage, access>>
    BY <1>2 DEF GenerateRuleBased, StartGeneration
  <2>3. pool \in SUBSET Items /\ \A i \in pool : row[i].locked /\ i \notin CooledDown(req.sitting)
    OBVIOUS
  <2> HIDE DEF pool
  <2>4. DOMAIN w = Fields /\ w.req = req /\ w.forms = <<>> /\ w.form = {} /\ w.pool = pool
    BY DEF Resting, Fields
  <2> HIDE DEF w
  <2>5. IsBuilding(w) /\ Concerns(w) = pool
    BY <2>1, <2>3, <2>4 DEF IsBuilding, Concerns, Used
  <2> QED
    BY <2>2, <2>3, <2>4, <2>5, BuilderBecomes
<1> QED
  BY <1>1, <1>2

\* What is picked was in the pool.
LEMMA PickKeeps ==
  ASSUME PapersInv, NEW b \in Builders, NEW i \in Items, Pick(b, i)
  PROVE  PapersInv' /\ (NotRecent(b) => NotRecent(b)')
<1> DEFINE w == builder'[b]
<1>1. IsBuilding(builder[b]) /\ (\A j \in Concerns(builder[b]) : row[j].locked) /\ DOMAIN builder = Builders
  BY DEF PapersInv, PapersTypeOK, ChoosesLocked
<1>2. builder[b].pc = "select" /\ i \in builder[b].pool
  BY DEF Pick, Candidates, Available
<1>3. /\ DOMAIN builder' = Builders /\ \A c \in Builders \ {b} : builder'[c] = builder[c]
      /\ DOMAIN w = Fields /\ w.pc = "select" /\ w.req = builder[b].req
      /\ w.form = builder[b].form \cup {i}
      /\ w.pool = builder[b].pool /\ w.forms = builder[b].forms
  BY <1>1, <1>2 DEF Pick, IsBuilding, Fields
<1>5. PICK v : v = w
  OBVIOUS
<1> HIDE DEF w
<1>6. IsBuilding(v) /\ Concerns(v) = Concerns(builder[b])
  BY <1>1, <1>2, <1>3, <1>5 DEF IsBuilding, Concerns
<1>7. UNCHANGED <<row, papers, usage, access>>
  BY DEF Pick
<1>8. builder'[b] = v /\ \A j \in Concerns(v) : row[j].locked
  BY <1>1, <1>5, <1>6 DEF w
<1>9. NotRecent(b) => \A j \in Concerns(v) : j \notin CooledDown(v.req.sitting)
  BY <1>3, <1>5, <1>6 DEF NotRecent
<1> QED
  BY <1>3, <1>6, <1>7, <1>8, <1>9, BuilderGoesOn

\* A form that is done is kept, or the construction ends.
LEMMA EndFormKeeps ==
  ASSUME PapersInv, NEW b \in Builders, EndForm(b)
  PROVE  PapersInv' /\ (NotRecent(b) => NotRecent(b)')
<1> DEFINE old == builder[b]
           w == [old EXCEPT !.forms = Append(@, old.form), !.form = {}, !.need = Targets(old.req),
                   !.pc = IF Len(old.forms) + 1 = old.req.variants THEN "store" ELSE "select"]
<1>1. /\ IsBuilding(old) /\ \A i \in Concerns(old) : row[i].locked
      /\ old.pc = "select" /\ UNCHANGED <<row, papers, usage, access>>
  BY DEF PapersInv, ChoosesLocked, EndForm
<1>2. CASE builder' = [builder EXCEPT ![b] = Resting]
  BY <1>1, <1>2, RestingIsBuilding, BuilderBecomes
<1>3. CASE builder' = [builder EXCEPT ![b] = w]
  <2>1. /\ DOMAIN w = Fields /\ w.req = old.req /\ w.pool = old.pool
        /\ w.form = {} /\ w.forms = Append(old.forms, old.form)
    BY <1>1 DEF IsBuilding, Fields
  <2>2. builder' = [builder EXCEPT ![b] = w]
    BY <1>3
  <2> HIDE DEF w, old
  <2>3. IsBuilding(w)
    BY <1>1, <2>1, UsedItems DEF IsBuilding
  <2>4. Concerns(w) = Concerns(old)
    BY <1>1, <2>1, UsedItems DEF Concerns, IsBuilding
  <2>5. NotRecent(b) => \A i \in Concerns(w) : i \notin CooledDown(w.req.sitting)
    BY <2>1, <2>4 DEF NotRecent, old
  <2> QED
    BY <1>1, <2>2, <2>3, <2>4, <2>5, BuilderBecomes
<1> QED
  BY <1>2, <1>3 DEF EndForm

\* A construction that fails leaves nothing.
LEMMA AbortKeeps ==
  ASSUME PapersInv, NEW b \in Builders, Abort(b)
  PROVE  PapersInv' /\ NotRecent(b)'
BY RestingIsBuilding, BuilderBecomes DEF Abort

\* One paper more, with its uses and its reads.
LEMMA StoreKeeps ==
  ASSUME PapersInv, NEW b \in Builders, StorePaper(b)
  PROVE  PapersInv'
<1> DEFINE w == builder[b]
           n == Len(papers)
           paper == [sitting |-> w.req.sitting, forms |-> w.forms, status |-> "Constructed"]
           use == [sitting |-> w.req.sitting, items |-> Used(w.forms)]
<1>1. /\ IsBuilding(w) /\ \A i \in Concerns(w) : row[i].locked
      /\ w.pc = "store" /\ builder' = [builder EXCEPT ![b] = Resting] /\ UNCHANGED row
      /\ papers' = Append(papers, paper) /\ usage' = Append(usage, use)
      /\ LogVaultReads(w.forms, "read")
  BY DEF PapersInv, ChoosesLocked, StorePaper
<1>2. /\ PapersTypeOK /\ UsesMatch /\ ReadsMatch /\ UsedAreLocked /\ n \in Nat
      /\ papers \in Seq(Paper) /\ usage \in Seq(ItemUsage) /\ Len(usage) = n
  BY DEF PapersInv, PapersTypeOK, UsesMatch
<1>3. Used(w.forms) \subseteq Items /\ w.forms \in Seq(SUBSET Items) /\ w.req.sitting \in Sittings
  BY <1>1, UsedItems DEF IsBuilding
<1>4. paper \in Paper /\ use \in ItemUsage
  BY <1>3 DEF Paper, ItemUsage
<1>5. /\ papers' \in Seq(Paper) /\ Len(papers') = n + 1
      /\ papers'[n + 1] = paper /\ \A p \in 1..n : papers'[p] = papers[p]
  <2> HIDE DEF paper
  <2> QED
    BY <1>1, <1>2, <1>4
<1>6. /\ usage' \in Seq(ItemUsage) /\ Len(usage') = n + 1
      /\ usage'[n + 1] = use /\ \A p \in 1..n : usage'[p] = usage[p]
  <2> HIDE DEF use
  <2> QED
    BY <1>1, <1>2, <1>4
<1>7. /\ paper.forms = w.forms /\ paper.sitting = w.req.sitting
      /\ use.sitting = w.req.sitting /\ use.items = Used(w.forms)
  OBVIOUS
<1>8. /\ access' \in [Items -> [VaultAccess -> Nat]]
      /\ \A i \in Items : access'[i]["read"] = access[i]["read"] + IF i \in Used(w.forms) THEN 1 ELSE 0
  <2>1. access' = [i \in Items |-> [access[i] EXCEPT !["read"] = @ + IF i \in Used(w.forms) THEN 1 ELSE 0]]
    BY <1>1 DEF LogVaultReads
  <2>2. access \in [Items -> [VaultAccess -> Nat]] /\ "read" \in VaultAccess
    BY <1>2 DEF PapersTypeOK, VaultAccess
  <2> QED
    BY <2>1, <2>2
<1> HIDE DEF w, n, paper, use
<1>9. DOMAIN builder' = Builders /\ \A c \in Builders : builder'[c] = Resting \/ builder'[c] = builder[c]
  BY <1>1, <1>2 DEF PapersTypeOK
<1>10. PapersTypeOK'
  BY <1>1, <1>2, <1>5, <1>6, <1>8, <1>9 DEF PapersTypeOK
<1>11. UsesMatch'
  <2>1. ASSUME NEW p \in 1..n + 1
        PROVE  usage'[p].sitting = papers'[p].sitting /\ usage'[p].items = Used(papers'[p].forms)
    <3>1. CASE p = n + 1
      BY <1>5, <1>6, <1>7, <3>1
    <3>2. CASE p \in 1..n
      <4>1. usage[p].sitting = papers[p].sitting /\ usage[p].items = Used(papers[p].forms)
        BY <1>2, <3>2 DEF UsesMatch, n
      <4> QED
        BY <1>5, <1>6, <3>2, <4>1
    <3> QED
      BY <1>2, <3>1, <3>2
  <2> QED
    BY <1>5, <1>6, <2>1 DEF UsesMatch
<1>12. ASSUME NEW i \in Items
       PROVE  InPapers(i)' = InPapers(i) \cup (IF i \in Used(w.forms) THEN {n + 1} ELSE {})
  <2>1. \A p \in 1..n : i \in Used(papers'[p].forms) <=> i \in Used(papers[p].forms)
    BY <1>5
  <2>2. i \in Used(papers'[n + 1].forms) <=> i \in Used(w.forms)
    BY <1>5, <1>7
  <2>3. /\ InPapers(i)' = {p \in 1..n + 1 : i \in Used(papers'[p].forms)}
        /\ InPapers(i) = {p \in 1..n : i \in Used(papers[p].forms)}
    BY <1>5 DEF InPapers, n
  <2> QED
    BY <1>2, <2>1, <2>2, <2>3
<1>13. ReadsMatch'
  <2> SUFFICES ASSUME NEW i \in Items PROVE access'[i]["read"] = Cardinality(InPapers(i)')
    BY DEF ReadsMatch
  <2>1. InPapers(i) \subseteq 1..n /\ n + 1 \notin InPapers(i)
    BY <1>2 DEF InPapers, n
  <2>2. IsFiniteSet(InPapers(i))
    <3>1. IsFiniteSet(1..n)
      BY <1>2, FS_Interval
    <3> QED
      BY <2>1, <3>1, FS_Subset
  <2>3. access[i]["read"] = Cardinality(InPapers(i))
    BY <1>2 DEF ReadsMatch
  <2>4. PICK papersOfI : papersOfI = InPapers(i)
    OBVIOUS
  <2>5. CASE i \in Used(w.forms)
    <3>1. InPapers(i)' = papersOfI \cup {n + 1}
      BY <1>12, <2>4, <2>5
    <3>2. Cardinality(papersOfI \cup {n + 1}) = Cardinality(papersOfI) + 1
      BY <2>1, <2>2, <2>4, FS_AddElement
    <3> QED
      BY <1>8, <2>3, <2>4, <2>5, <3>1, <3>2
  <2>6. CASE i \notin Used(w.forms)
    <3>1. InPapers(i)' = papersOfI
      BY <1>12, <2>4, <2>6
    <3>2. access[i]["read"] \in Nat
      BY <1>2 DEF PapersTypeOK, VaultAccess
    <3> QED
      BY <1>8, <2>3, <2>4, <2>6, <3>1, <3>2
  <2> QED
    BY <2>5, <2>6
<1>14. UsedAreLocked'
  BY <1>1, <1>2, <1>12 DEF UsedAreLocked, Concerns
<1>15. \A c \in Builders : ChoosesLocked(c)'
  BY <1>1, <1>9, RestingIsBuilding DEF PapersInv, ChoosesLocked
<1> QED
  BY <1>10, <1>11, <1>13, <1>14, <1>15 DEF PapersInv

\* A paper is submitted, or exported: neither is a use.
LEMMA PaperStepsKeep ==
  ASSUME PapersInv, NEW p \in DOMAIN papers, SubmitForApproval(p) \/ Export(p)
  PROVE  PapersInv'
<1>1. /\ PapersTypeOK /\ UsesMatch /\ ReadsMatch /\ UsedAreLocked /\ papers \in Seq(Paper)
      /\ p \in 1..Len(papers)
  BY DEF PapersInv, PapersTypeOK
<1>2. CASE SubmitForApproval(p)
  <2>1. /\ papers' = [papers EXCEPT ![p].status = "Ready For Approval"]
        /\ UNCHANGED <<row, usage, access, builder>>
    BY <1>2 DEF SubmitForApproval, SubmitPaperForApproval
  <2>2. /\ papers' \in Seq(Paper) /\ Len(papers') = Len(papers)
        /\ \A q \in 1..Len(papers) :
             papers'[q].sitting = papers[q].sitting /\ papers'[q].forms = papers[q].forms
    <3> DEFINE ready == [papers[p] EXCEPT !.status = "Ready For Approval"]
    <3>1. papers[p] \in Paper
      BY <1>1
    <3>2. ready \in Paper /\ ready.sitting = papers[p].sitting /\ ready.forms = papers[p].forms
      BY <3>1 DEF Paper
    <3>3. papers' = [papers EXCEPT ![p] = ready]
      BY <2>1
    <3> HIDE DEF ready
    <3>4. papers' \in Seq(Paper) /\ Len(papers') = Len(papers)
      BY <1>1, <3>2, <3>3
    <3>5. \A q \in 1..Len(papers) : papers'[q] = IF q = p THEN ready ELSE papers[q]
      BY <1>1, <3>3
    <3> QED
      BY <3>2, <3>4, <3>5
  <2>3. \A i \in Items : InPapers(i)' = InPapers(i)
    BY <2>2 DEF InPapers
  <2>4. PapersTypeOK' /\ UsesMatch' /\ ReadsMatch' /\ UsedAreLocked'
    BY <1>1, <2>1, <2>2, <2>3 DEF PapersTypeOK, UsesMatch, ReadsMatch, UsedAreLocked
  <2>5. \A b \in Builders : ChoosesLocked(b)'
    BY <2>1 DEF PapersInv, ChoosesLocked
  <2> QED
    BY <2>4, <2>5 DEF PapersInv
<1>3. CASE Export(p)
  <2>1. LogVaultReads(<<papers[p].forms[1]>>, "export") /\ UNCHANGED <<row, papers, usage, builder>>
    BY <1>3 DEF Export, RecordPaperExport
  <2>2. /\ access' \in [Items -> [VaultAccess -> Nat]]
        /\ \A i \in Items : access'[i]["read"] = access[i]["read"]
    <3> DEFINE read(i) == i \in Used(<<papers[p].forms[1]>>)
    <3>1. access' = [i \in Items |-> [access[i] EXCEPT !["export"] = @ + IF read(i) THEN 1 ELSE 0]]
      BY <2>1 DEF LogVaultReads
    <3>2. access \in [Items -> [VaultAccess -> Nat]] /\ VaultAccess = {"read", "export"}
      BY <1>1 DEF PapersTypeOK, VaultAccess
    <3> HIDE DEF read
    <3> QED
      BY <3>1, <3>2
  <2>3. PapersTypeOK' /\ UsesMatch' /\ ReadsMatch' /\ UsedAreLocked'
    BY <1>1, <2>1, <2>2 DEF PapersTypeOK, UsesMatch, ReadsMatch, UsedAreLocked, InPapers
  <2>4. \A b \in Builders : ChoosesLocked(b)'
    BY <2>1 DEF PapersInv, ChoosesLocked
  <2> QED
    BY <2>3, <2>4 DEF PapersInv
<1> QED
  BY <1>2, <1>3

\* Who locks or re-tags an item leaves it locked.
LEMMA ItemStepsKeep ==
  ASSUME PapersInv, NEW i \in Items, PanelLocks(i) \/ \E t \in Updates : Retag(i, t)
  PROVE  PapersInv'
<1>1. UNCHANGED <<papers, usage, access, builder>>
  BY DEF PanelLocks, Retag
<1>2. row \in [Items -> ItemRow]
  BY DEF PapersInv, PapersTypeOK
<1>3. row' \in [Items -> ItemRow] /\ \A j \in Items : row[j].locked => row'[j].locked
  <2>1. CASE PanelLocks(i)
    BY <1>2, <2>1 DEF PanelLocks, ItemRow
  <2>2. ASSUME NEW t \in Updates, Retag(i, t)
        PROVE  row' \in [Items -> ItemRow] /\ \A j \in Items : row[j].locked => row'[j].locked
    <3> DEFINE tagged == [row[i] EXCEPT !.subject = t.subject, !.topic = t.topic,
                                        !.difficulty = t.difficulty]
    <3>1. row[i] \in ItemRow /\ t \in Tags
      BY <1>2, PapersAssumption
    <3>2. tagged \in ItemRow /\ tagged.locked = row[i].locked
      BY <3>1 DEF Tags, ItemRow
    <3>3. row' = [row EXCEPT ![i] = tagged]
      BY <2>2 DEF Retag
    <3> HIDE DEF tagged
    <3> QED
      BY <1>2, <3>2, <3>3
  <2> QED
    BY <2>1, <2>2
<1>4. PapersTypeOK' /\ UsesMatch' /\ ReadsMatch' /\ UsedAreLocked'
  BY <1>1, <1>3 DEF PapersInv, PapersTypeOK, UsesMatch, ReadsMatch, UsedAreLocked, InPapers
<1>5. ASSUME NEW b \in Builders PROVE ChoosesLocked(b)'
  <2>1. ChoosesLocked(b) /\ builder'[b] = builder[b]
    BY <1>1 DEF PapersInv
  <2>2. Concerns(builder[b]) \subseteq Items
    BY <2>1, UsedItems DEF ChoosesLocked, Concerns, IsBuilding
  <2> QED
    BY <1>3, <2>1, <2>2 DEF ChoosesLocked
<1> QED
  BY <1>4, <1>5 DEF PapersInv

\* There is no paper yet.
LEMMA PapersStart ==
  ASSUME PapersAssumption PROVE Init => PapersInv
<1> SUFFICES ASSUME Init PROVE PapersInv
  OBVIOUS
<1>1. papers = <<>> /\ usage = <<>> /\ row = Bank
  BY DEF Init
<1>2. PapersTypeOK
  BY <1>1 DEF PapersAssumption, Init, PapersTypeOK
<1>3. \A i \in Items : InPapers(i) = {} /\ access[i]["read"] = 0
  BY <1>1 DEF InPapers, Init, VaultAccess
<1>4. UsesMatch /\ ReadsMatch /\ UsedAreLocked
  <2>1. UsesMatch
    BY <1>1 DEF UsesMatch
  <2>2. ReadsMatch
    BY <1>3, FS_EmptySet DEF ReadsMatch
  <2> QED
    BY <1>3, <2>1, <2>2 DEF UsedAreLocked
<1>5. \A b \in Builders : ChoosesLocked(b)
  BY RestingIsBuilding DEF Init, ChoosesLocked
<1> QED
  BY <1>2, <1>4, <1>5 DEF PapersInv

\* Every step keeps the invariant.
LEMMA PapersStep ==
  ASSUME PapersAssumption PROVE PapersInv /\ [Next]_vars => PapersInv'
<1> SUFFICES ASSUME PapersInv, [Next]_vars PROVE PapersInv'
  OBVIOUS
<1>1. CASE UNCHANGED vars
  BY <1>1 DEF vars, PapersInv, PapersTypeOK, UsesMatch, ReadsMatch, UsedAreLocked, InPapers, ChoosesLocked
<1> QED
  BY <1>1, StartKeeps, PickKeeps, EndFormKeeps, StoreKeeps, AbortKeeps, PaperStepsKeep, ItemStepsKeep DEF Next

\* For any number of papers constructed by hand and by rule side by side, while
\* items are locked and re-tagged: every use of an item is recorded once as a
\* use, which the cool-down reads, and once as a read of the vault.
THEOREM UsesHold == Spec => []UsesAreRecorded
<1> USE PapersAssumption
<1>1. PapersInv /\ [Next]_vars => PapersInv'
  BY PapersStep
<1>2. PapersInv => UsesAreRecorded
  <2> SUFFICES ASSUME PapersInv, NEW i \in Items
               PROVE  /\ InPapers(i) = {k \in DOMAIN usage : i \in usage[k].items}
                      /\ access[i]["read"] = Cardinality(InPapers(i))
                      /\ InPapers(i) # {} => row[i].locked
                      /\ \A p \in InPapers(i) : usage[p].sitting = papers[p].sitting
    <3>1. DOMAIN papers = 1..Len(papers)
      BY DEF PapersInv, PapersTypeOK
    <3> QED
      BY <3>1 DEF UsesAreRecorded, InPapers
  <2>1. DOMAIN usage = 1..Len(papers)
    BY DEF PapersInv, PapersTypeOK, UsesMatch
  <2> QED
    BY <2>1 DEF PapersInv, UsesMatch, ReadsMatch, UsedAreLocked, InPapers
<1>3. Init => PapersInv
  BY PapersStart
<1> QED
  BY <1>1, <1>2, <1>3, PTL DEF Spec

-----------------------------------------------------------------------------
(* The cool-down.                                                          *)

\* With one construction at a time nothing is used between a look at the recent
\* uses and the next use.
OneBuilder == \A b, c \in Builders : b = c

CoolDownInv == PapersInv /\ CoolDownHonoured /\ \A b \in Builders : NotRecent(b)

\* The sittings of the uses between two.
Between(k, m) == {usage[l].sitting : l \in (k + 1)..(m - 1)}

\* The sittings after whose last use an item may be used again lie between.
LEMMA StoreHonours ==
  ASSUME PapersAssumption, CoolDownInv, NEW b \in Builders, StorePaper(b)
  PROVE  CoolDownHonoured'
<1> DEFINE w == builder[b]
           n == Len(usage)
           use == [sitting |-> w.req.sitting, items |-> Used(w.forms)]
<1>1. /\ usage \in Seq(ItemUsage) /\ n \in Nat /\ IsBuilding(w) /\ NotRecent(b)
      /\ usage' = Append(usage, use) /\ w.pc = "store"
  BY DEF CoolDownInv, PapersInv, PapersTypeOK, ChoosesLocked, StorePaper
<1>2. use \in ItemUsage /\ use.sitting = w.req.sitting /\ use.items = Used(w.forms)
  BY <1>1, UsedItems DEF IsBuilding, ItemUsage
<1>3. /\ usage' \in Seq(ItemUsage) /\ DOMAIN usage' = 1..n + 1 /\ DOMAIN usage = 1..n
      /\ usage'[n + 1] = use /\ \A k \in 1..n : usage'[k] = usage[k]
  <2> HIDE DEF use
  <2> QED
    BY <1>1, <1>2
<1>4. ASSUME NEW k \in 1..n + 1, NEW m \in 1..n + 1, k < m
      PROVE  {usage'[l].sitting : l \in (k + 1)..(m - 1)} = Between(k, m)
  <2>1. \A l \in (k + 1)..(m - 1) : l \in 1..n
    BY <1>1, <1>4
  <2> QED
    BY <1>3, <2>1 DEF Between
<1>5. \A k \in 1..n : usage[k].sitting \in Sittings
  <2>1. \A k \in 1..n : usage[k] \in ItemUsage
    BY <1>1
  <2> QED
    BY <2>1 DEF ItemUsage
<1> HIDE DEF w, n, use
<1>6. ASSUME NEW k \in 1..n, usage[k].sitting # use.sitting, usage[k].items \cap use.items # {}
      PROVE  Cardinality(Between(k, n + 1) \ {usage[k].sitting, use.sitting}) >= Cooldown
  <2> DEFINE s == use.sitting
             t == usage[k].sitting
             others == UsedSittings \ {s}
             after == {u \in others : UsedAfter(u, t)}
             between == Between(k, n + 1) \ {t, s}
  <2>1. t \in others
    BY <1>3, <1>6 DEF UsedSittings
  <2>2. t \notin RecentSittings(s)
    <3>1. PICK i : i \in usage[k].items /\ i \in Used(w.forms)
      BY <1>2, <1>6
    <3>2. i \notin CooledDown(s)
      BY <1>1, <1>2, <3>1 DEF NotRecent, Concerns, w
    <3> QED
      BY <1>3, <3>1, <3>2 DEF CooledDown
  <2>3. ~(Cardinality(after) < Cooldown)
    BY <2>1, <2>2 DEF RecentSittings
  <2>4. after \subseteq between
    <3> SUFFICES ASSUME NEW u \in after PROVE u \in between
      OBVIOUS
    <3>1. PICK l \in 1..n : usage[l].sitting = u /\ \A m \in 1..n : usage[m].sitting = t => m < l
      BY <1>3 DEF UsedAfter
    <3>2. k < l /\ u # t /\ u # s
      BY <1>1, <3>1
    <3>3. l \in (k + 1)..((n + 1) - 1)
      BY <1>1, <3>1, <3>2 DEF n
    <3>4. u \in Between(k, n + 1)
      BY <3>1, <3>3 DEF Between
    <3> QED
      BY <3>2, <3>4
  <2>5. between \subseteq Sittings
    <3>1. \A l \in (k + 1)..((n + 1) - 1) : l \in 1..n
      BY <1>1 DEF n
    <3>2. Between(k, n + 1) \subseteq Sittings
      BY <1>5, <3>1 DEF Between
    <3> QED
      BY <3>2
  <2>6. IsFiniteSet(between) /\ IsFiniteSet(after)
    BY <2>4, <2>5, FS_Subset DEF PapersAssumption
  <2> HIDE DEF between, after
  <2>7. Cardinality(after) <= Cardinality(between) /\ Cardinality(after) \in Nat /\ Cardinality(between) \in Nat
    BY <2>4, <2>6, FS_Subset, FS_CardinalityType
  <2>8. Cardinality(between) >= Cooldown
    BY <2>3, <2>7 DEF PapersAssumption
  <2> QED
    BY <2>8 DEF between
<1>7. ASSUME NEW k \in 1..n, NEW m \in 1..n, k < m, usage[k].sitting # usage[m].sitting,
             usage[k].items \cap usage[m].items # {}
      PROVE  Cardinality(Between(k, m) \ {usage[k].sitting, usage[m].sitting}) >= Cooldown
  BY <1>3, <1>7 DEF CoolDownInv, CoolDownHonoured, Between
<1> SUFFICES ASSUME NEW k \in 1..n + 1, NEW m \in 1..n + 1, k < m,
                    usage'[k].sitting # usage'[m].sitting, usage'[k].items \cap usage'[m].items # {}
             PROVE  Cardinality(Between(k, m) \ {usage'[k].sitting, usage'[m].sitting}) >= Cooldown
  BY <1>3, <1>4 DEF CoolDownHonoured
<1>8. k \in 1..n /\ (m = n + 1 \/ m \in 1..n)
  BY <1>1 DEF n
<1> QED
  BY <1>3, <1>6, <1>7, <1>8

\* One construction at a time, an item is not used again before papers for
\* as many other sittings as the cool-down lasts have been stored.
THEOREM CoolDownHolds == ASSUME OneBuilder PROVE Spec => []CoolDownHonoured
<1> USE PapersAssumption
<1>1. Init => CoolDownInv
  <2> SUFFICES ASSUME Init PROVE CoolDownInv
    OBVIOUS
  <2>1. usage = <<>> /\ \A b \in Builders : builder[b] = Resting
    BY DEF Init
  <2>2. CoolDownHonoured
    BY <2>1 DEF CoolDownHonoured
  <2>3. \A b \in Builders : NotRecent(b)
    BY <2>1, RestingIsBuilding DEF NotRecent
  <2> QED
    BY <2>2, <2>3, PapersStart DEF CoolDownInv
<1>2. CoolDownInv /\ [Next]_vars => CoolDownInv'
  <2> SUFFICES ASSUME CoolDownInv, [Next]_vars PROVE CoolDownInv'
    OBVIOUS
  <2>1. PapersInv /\ PapersInv' /\ CoolDownHonoured
    BY PapersStep DEF CoolDownInv
  <2>2. ASSUME UNCHANGED usage PROVE CoolDownHonoured'
    BY <2>1, <2>2 DEF CoolDownHonoured
  <2>3. ASSUME UNCHANGED <<usage, builder>> PROVE CoolDownInv'
    <3>1. \A b \in Builders : NotRecent(b)'
      BY <2>3, CoolDownStays DEF CoolDownInv, NotRecent
    <3> QED
      BY <2>1, <2>2, <2>3, <3>1 DEF CoolDownInv
  <2>4. ASSUME NEW b \in Builders, NotRecent(b)', CoolDownHonoured' PROVE CoolDownInv'
    BY <2>1, <2>4 DEF OneBuilder, CoolDownInv
  <2>5. ASSUME NEW b \in Builders,
               \/ \E req \in ManualPapers : Create(b, req)
               \/ \E req \in RulePapers : GenerateRuleBased(b, req)
        PROVE  CoolDownInv'
    <3>1. UNCHANGED usage
      BY <2>5 DEF Create, CreateManualPaper, GenerateRuleBased, StartGeneration
    <3> QED
      BY <2>1, <2>2, <2>4, <2>5, <3>1, StartKeeps
  <2>6. ASSUME NEW b \in Builders, (\E i \in Items : Pick(b, i)) \/ EndForm(b) \/ Abort(b)
        PROVE  CoolDownInv'
    <3>1. UNCHANGED usage
      BY <2>6 DEF Pick, EndForm, Abort
    <3>2. NotRecent(b)
      BY DEF CoolDownInv
    <3> QED
      BY <2>1, <2>2, <2>4, <2>6, <3>1, <3>2, PickKeeps, EndFormKeeps, AbortKeeps
  <2>7. ASSUME NEW b \in Builders, StorePaper(b) PROVE CoolDownInv'
    <3>1. builder'[b] = Resting
      BY <2>1, <2>7 DEF StorePaper, PapersInv, PapersTypeOK
    <3>2. NotRecent(b)'
      BY <3>1, RestingIsBuilding DEF NotRecent
    <3> QED
      BY <2>4, <2>7, <3>2, StoreHonours
  <2>8. ASSUME NEW p \in DOMAIN papers, SubmitForApproval(p) \/ Export(p) PROVE CoolDownInv'
    BY <2>3, <2>8 DEF SubmitForApproval, SubmitPaperForApproval, Export, RecordPaperExport
  <2>9. ASSUME NEW i \in Items, PanelLocks(i) \/ \E t \in Updates : Retag(i, t) PROVE CoolDownInv'
    BY <2>3, <2>9 DEF PanelLocks, Retag
  <2>10. CASE UNCHANGED vars
    BY <2>3, <2>10 DEF vars
  <2> QED
    BY <2>5, <2>6, <2>7, <2>8, <2>9, <2>10 DEF Next
<1>3. CoolDownInv => CoolDownHonoured
  BY DEF CoolDownInv
<1> QED
  BY <1>1, <1>2, <1>3, PTL DEF Spec

-----------------------------------------------------------------------------
(* Sums of marks.  MarksOf is defined by recursion over the set, so that   *)
(* what it adds up to takes an induction on the number of items.           *)

\* The item the recursion takes first, and the function it defines on the
\* subsets of a set of items.
Some(is) == CHOOSE i \in is : TRUE
IsSum(f, is) ==
  f = [s \in SUBSET is |-> IF s = {} THEN 0 ELSE Bank[Some(s)].marks + f[s \ {Some(s)}]]

\* MarksOf is a function that satisfies the recursion, if there is one.
LEMMA SumDefinition ==
  ASSUME NEW is, NEW g, IsSum(g, is)
  PROVE  \E f : IsSum(f, is) /\ MarksOf(is) = f[is]
<1> DEFINE F == CHOOSE f : IsSum(f, is)
<1>1. IsSum(F, is)
  OBVIOUS
<1>2. MarksOf(is) = F[is]
  BY DEF MarksOf, MapThenSumSet, MapThenFoldSet, IsSum, Some
<1> QED
  BY <1>1, <1>2

\* Induction: a counterexample, if there is one, has a smallest one.
LEMMA Smallest ==
  ASSUME NEW T \in SUBSET Nat, T # {}
  PROVE  \E n \in T : \A k \in T : n <= k
<1> DEFINE Below == {p \in Nat \X Nat : p[1] < p[2]}
<1>1. OpToRel(<, Nat) = Below
  BY DEF OpToRel
<1>2. IsWellFoundedOn(Below, Nat)
  BY <1>1, NatLessThanWellFounded, Zenon
<1>3. PICK n \in T : \A k \in T : ~(<<k, n>> \in Below)
  <2> HIDE DEF Below
  <2> QED
    BY <1>2, WFMin, Zenon
<1>4. ASSUME NEW k \in T PROVE n <= k
  <2>1. <<k, n>> \in Nat \X Nat /\ <<k, n>>[1] = k /\ <<k, n>>[2] = n
    OBVIOUS
  <2>2. <<k, n>> \notin Below
    BY <1>3
  <2>3. ~(k < n)
    BY <2>1, <2>2
  <2> QED
    BY <2>3
<1> QED
  BY <1>4

\* The marks of the first item, and those of the rest as f has them.
FirstAndRest(s, f) == IF s = {} THEN 0 ELSE Bank[Some(s)].marks + f[s \ {Some(s)}]

\* The recursion, with the first item and the rest named.
LEMMA SumUnfolds ==
  ASSUME NEW f, NEW is
  PROVE  IsSum(f, is) <=> f = [s \in SUBSET is |-> FirstAndRest(s, f)]
BY DEF IsSum, FirstAndRest

\* Counting the items of a set that gets one less or one more.
LEMMA FewerItems ==
  ASSUME NEW s \in SUBSET Items, IsFiniteSet(Items)
  PROVE  /\ Cardinality(s) \in Nat
         /\ s # {} => /\ Some(s) \in s /\ s \ {Some(s)} \in SUBSET Items
         /\ \A i \in s : Cardinality(s \ {i}) = Cardinality(s) - 1
         /\ \A i \in Items \ s : Cardinality(s \cup {i}) = Cardinality(s) + 1
         /\ Cardinality(s) = 0 <=> s = {}
<1>1. IsFiniteSet(s)
  BY FS_Subset
<1>2. s # {} => /\ Some(s) \in s /\ s \ {Some(s)} \in SUBSET Items
  BY DEF Some
<1>3. \A i \in s : Cardinality(s \ {i}) = Cardinality(s) - 1
  BY <1>1, FS_RemoveElement
<1>4. \A i \in Items \ s : Cardinality(s \cup {i}) = Cardinality(s) + 1
  BY <1>1, FS_AddElement
<1>5. Cardinality(s) \in Nat /\ (Cardinality(s) = 0 <=> s = {})
  BY <1>1, FS_CardinalityType, FS_EmptySet
<1> QED
  BY <1>2, <1>3, <1>4, <1>5

\* f adds up the marks of any set of up to n items.
SumsUpTo(f, n) ==
  /\ f \in [SUBSET Items -> Int]
  /\ \A s \in SUBSET Items : Cardinality(s) <= n => f[s] = FirstAndRest(s, f)

\* The step of the recursion stays among the integers.
LEMMA FirstAndRestTyped ==
  ASSUME PapersAssumption, NEW f \in [SUBSET Items -> Int], NEW s \in SUBSET Items
  PROVE  FirstAndRest(s, f) \in Int
<1>1. CASE s = {}
  BY <1>1 DEF FirstAndRest
<1>2. CASE s # {}
  <2>1. Some(s) \in Items /\ s \ {Some(s)} \in SUBSET Items
    BY <1>2, FewerItems DEF PapersAssumption
  <2>2. Bank[Some(s)].marks \in Int
    BY <2>1 DEF PapersAssumption, ItemRow
  <2> QED
    BY <1>2, <2>1, <2>2 DEF FirstAndRest
<1> QED
  BY <1>1, <1>2

\* There is a function for any number of items: it extends that for one less.
LEMMA SumsExist ==
  ASSUME PapersAssumption PROVE \A n \in Nat : \E f : SumsUpTo(f, n)
<1> DEFINE Without == {n \in Nat : ~\E f : SumsUpTo(f, n)}
<1> SUFFICES ASSUME Without # {} PROVE FALSE
  OBVIOUS
<1>1. PICK n \in Without : \A k \in Without : n <= k
  <2>1. Without \in SUBSET Nat
    OBVIOUS
  <2> HIDE DEF Without
  <2> QED
    BY <2>1, Smallest
<1>2. n \in Nat /\ IsFiniteSet(Items)
  BY DEF PapersAssumption
<1>3. n # 0
  <2> SUFFICES ASSUME n = 0 PROVE SumsUpTo([s \in SUBSET Items |-> 0], n)
    BY <1>1
  <2> DEFINE f == [s \in SUBSET Items |-> 0]
  <2>1. ASSUME NEW s \in SUBSET Items, Cardinality(s) <= 0 PROVE f[s] = FirstAndRest(s, f)
    BY <1>2, <2>1, FewerItems DEF FirstAndRest
  <2> QED
    BY <2>1 DEF SumsUpTo
<1>4. PICK f : SumsUpTo(f, n - 1)
  <2>1. n - 1 \notin Without /\ n - 1 \in Nat
    BY <1>1, <1>2, <1>3
  <2> QED
    BY <2>1
<1> DEFINE g == [s \in SUBSET Items |-> IF Cardinality(s) <= n - 1 THEN f[s] ELSE FirstAndRest(s, f)]
<1>5. g \in [SUBSET Items -> Int]
  BY <1>4, FirstAndRestTyped DEF SumsUpTo
<1>6. ASSUME NEW s \in SUBSET Items, Cardinality(s) <= n PROVE g[s] = FirstAndRest(s, g)
  <2>1. g[s] = FirstAndRest(s, f)
    BY <1>4, <1>6 DEF SumsUpTo
  <2>2. CASE s = {}
    BY <2>1, <2>2 DEF FirstAndRest
  <2>3. CASE s # {}
    <3> DEFINE rest == s \ {Some(s)}
    <3>1. rest \in SUBSET Items /\ Cardinality(rest) = Cardinality(s) - 1 /\ Cardinality(s) \in Nat
      BY <1>2, <2>3, FewerItems
    <3>2. Cardinality(rest) <= n - 1
      BY <1>2, <1>6, <3>1
    <3>3. g[rest] = f[rest]
      BY <3>1, <3>2
    <3>4. FirstAndRest(s, f) = Bank[Some(s)].marks + f[rest] /\ FirstAndRest(s, g) = Bank[Some(s)].marks + g[rest]
      BY <2>3 DEF FirstAndRest
    <3> QED
      BY <2>1, <3>3, <3>4
  <2> QED
    BY <2>2, <2>3
<1>7. SumsUpTo(g, n)
  BY <1>5, <1>6 DEF SumsUpTo
<1> QED
  BY <1>1, <1>7

\* One function satisfies the recursion on all sets of items, and it is MarksOf,
\* since two that satisfy it cannot differ on a smallest set.
LEMMA MarksOfIsSum ==
  ASSUME PapersAssumption
  PROVE  \E f \in [SUBSET Items -> Int] :
           \A s \in SUBSET Items : f[s] = FirstAndRest(s, f) /\ MarksOf(s) = f[s]
<1>0. IsFiniteSet(Items)
  BY DEF PapersAssumption
<1>1. PICK f : SumsUpTo(f, Cardinality(Items))
  BY <1>0, SumsExist, FS_CardinalityType
<1>2. f \in [SUBSET Items -> Int] /\ \A s \in SUBSET Items : f[s] = FirstAndRest(s, f)
  <2>1. \A s \in SUBSET Items : Cardinality(s) <= Cardinality(Items)
    BY <1>0, FS_Subset
  <2> QED
    BY <1>1, <2>1 DEF SumsUpTo
<1>3. ASSUME NEW is \in SUBSET Items PROVE MarksOf(is) = f[is]
  <2> DEFINE h == [s \in SUBSET is |-> f[s]]
  <2>1. IsSum(h, is)
    <3>1. ASSUME NEW s \in SUBSET is PROVE f[s] = FirstAndRest(s, h)
      <4>1. f[s] = FirstAndRest(s, f)
        BY <1>2
      <4>2. s # {} => s \ {Some(s)} \in SUBSET is
        OBVIOUS
      <4> QED
        BY <4>1, <4>2 DEF FirstAndRest
    <3>2. h = [s \in SUBSET is |-> FirstAndRest(s, h)]
      BY <3>1
    <3> HIDE DEF h
    <3> QED
      BY <3>2, SumUnfolds
  <2>2. PICK g : IsSum(g, is) /\ MarksOf(is) = g[is]
    BY <2>1, SumDefinition
  <2>3. \A s \in SUBSET is : g[s] = FirstAndRest(s, g)
    BY <2>2, SumUnfolds
  <2> DEFINE Wrong == {Cardinality(s) : s \in {t \in SUBSET is : g[t] # f[t]}}
  <2>4. Wrong = {}
    <3> SUFFICES ASSUME Wrong # {} PROVE FALSE
      OBVIOUS
    <3>1. Wrong \in SUBSET Nat
      BY <1>0, FewerItems
    <3>2. PICK n \in Wrong : \A k \in Wrong : n <= k
      <4> HIDE DEF Wrong
      <4> QED
        BY <3>1, Smallest
    <3>3. PICK s \in SUBSET is : g[s] # f[s] /\ Cardinality(s) = n
      BY <3>2
    <3>4. s # {}
      BY <1>2, <2>3, <3>3 DEF FirstAndRest
    <3> DEFINE rest == s \ {Some(s)}
    <3>5. rest \in SUBSET is /\ Cardinality(rest) = n - 1 /\ n \in Nat
      BY <1>0, <3>3, <3>4, FewerItems
    <3>6. g[rest] = f[rest]
      <4>1. Cardinality(rest) \notin Wrong
        BY <3>2, <3>5
      <4> QED
        BY <3>5, <4>1
    <3>7. g[s] = FirstAndRest(s, g) /\ f[s] = FirstAndRest(s, f)
      BY <1>2, <2>3
    <3> QED
      BY <3>3, <3>4, <3>6, <3>7 DEF FirstAndRest
  <2>5. g[is] = f[is]
    BY <2>4
  <2> QED
    BY <2>2, <2>5
<1> QED
  BY <1>2, <1>3

\* An item more adds its marks, whichever item the recursion takes first.
LEMMA MarksAddUp ==
  ASSUME PapersAssumption
  PROVE  /\ \A is \in SUBSET Items : MarksOf(is) \in Int
         /\ MarksOf({}) = 0
         /\ \A is \in SUBSET Items : \A i \in Items \ is :
              MarksOf(is \cup {i}) = MarksOf(is) + Bank[i].marks
<1>0. IsFiniteSet(Items) /\ \A i \in Items : Bank[i].marks \in Int
  BY DEF PapersAssumption, ItemRow
<1>1. PICK f \in [SUBSET Items -> Int] :
        \A s \in SUBSET Items : f[s] = FirstAndRest(s, f) /\ MarksOf(s) = f[s]
  BY MarksOfIsSum
<1>2. \A is \in SUBSET Items : MarksOf(is) \in Int
  BY <1>1
<1>3. MarksOf({}) = 0
  BY <1>1 DEF FirstAndRest
<1> DEFINE Adds(s) == \A i \in Items \ s : f[s \cup {i}] = f[s] + Bank[i].marks
           Wrong == {Cardinality(s) : s \in {t \in SUBSET Items : ~Adds(t)}}
<1>4. ASSUME Wrong # {} PROVE FALSE
  <2>1. Wrong \in SUBSET Nat
    BY <1>0, FewerItems
  <2>2. PICK n \in Wrong : \A k \in Wrong : n <= k
    <3> HIDE DEF Wrong
    <3> QED
      BY <1>4, <2>1, Smallest
  <2>3. PICK s \in SUBSET Items : ~Adds(s) /\ Cardinality(s) = n
    BY <2>2
  <2>4. PICK i \in Items \ s : f[s \cup {i}] # f[s] + Bank[i].marks
    BY <2>3
  <2> DEFINE t == s \cup {i}
             j == Some(t)
  <2>5. t \in SUBSET Items /\ t # {} /\ j \in t
    BY DEF Some
  <2>6. f[t] = Bank[j].marks + f[t \ {j}]
    BY <1>1, <2>5 DEF FirstAndRest
  <2>7. j # i
    <3> SUFFICES ASSUME j = i PROVE FALSE
      OBVIOUS
    <3>1. t \ {j} = s
      OBVIOUS
    <3>2. f[t] = Bank[i].marks + f[s]
      BY <2>6, <3>1
    <3>3. f[s] \in Int /\ Bank[i].marks \in Int
      BY <1>0, <1>1
    <3> HIDE DEF t, j
    <3> QED
      BY <2>4, <3>2, <3>3 DEF t
  <2> DEFINE rest == s \ {j}
  <2>8. j \in s /\ rest \in SUBSET Items /\ Cardinality(rest) = n - 1 /\ n \in Nat
    BY <1>0, <2>3, <2>5, <2>7, FewerItems
  <2>9. Adds(rest)
    <3>1. Cardinality(rest) \notin Wrong
      BY <2>2, <2>8
    <3> QED
      BY <2>8, <3>1
  <2>10. f[rest \cup {j}] = f[rest] + Bank[j].marks /\ f[rest \cup {i}] = f[rest] + Bank[i].marks
    BY <2>8, <2>9
  <2>11. rest \cup {j} = s /\ rest \cup {i} = t \ {j}
    BY <2>7, <2>8
  <2>12. f[rest] \in Int /\ Bank[i].marks \in Int /\ Bank[j].marks \in Int
    BY <1>0, <1>1, <2>8
  <2>13. f[s] = f[rest] + Bank[j].marks /\ f[t] = Bank[j].marks + (f[rest] + Bank[i].marks)
    BY <2>6, <2>10, <2>11
  <2>14. f[t] # f[s] + Bank[i].marks
    BY <2>4
  <2> HIDE DEF t, j, rest
  <2> QED
    BY <2>12, <2>13, <2>14
<1>5. \A s \in SUBSET Items : Adds(s)
  <2> HIDE DEF Adds
  <2> SUFFICES ASSUME NEW s \in SUBSET Items, ~Adds(s) PROVE FALSE
    OBVIOUS
  <2>1. Cardinality(s) \in Wrong
    OBVIOUS
  <2> QED
    BY <1>4, <2>1
<1> QED
  BY <1>1, <1>2, <1>3, <1>5

-----------------------------------------------------------------------------
(* Forms meet their targets.                                               *)

\* The items of a form with a tag.
OfDifficulty(seen, is, d) == {i \in is : seen[i].difficulty = d}
OfTopic(seen, is, t) == {i \in is : seen[i].topic = t}

\* What is asked of a form, of the items as they were read.
FormMeets(seen, req, is) ==
  /\ \A i \in is : seen[i].locked /\ seen[i].subject = req.subject
  /\ MarksOf(is) - req.total \in -Tolerance..Tolerance
  /\ req \in RulePapers =>
       /\ \A d \in DOMAIN req.difficulty :
            MarksOf(OfDifficulty(seen, is, d)) >= Share(req.total, req.difficulty[d])
       /\ \A t \in DOMAIN req.topic :
            MarksOf(OfTopic(seen, is, t)) >= Share(req.total, req.topic[t])

\* All forms chosen so far, which share no item.
FormsMeet(w) ==
  \A f \in DOMAIN w.forms :
    /\ FormMeets(w.seen, w.req, w.forms[f])
    /\ \A g \in DOMAIN w.forms : f # g => w.forms[f] \cap w.forms[g] = {}

\* What the form being chosen has and what it still lacks make up its shares.
SharesCovered(w) ==
  /\ \A d \in DOMAIN w.req.difficulty :
       MarksOf(OfDifficulty(w.seen, w.form, d)) + w.need.difficulty[d]
         >= Share(w.req.total, w.req.difficulty[d])
  /\ \A t \in DOMAIN w.req.topic :
       MarksOf(OfTopic(w.seen, w.form, t)) + w.need.topic[t]
         >= Share(w.req.total, w.req.topic[t])

\* What may be missing, of each difficulty and topic that is asked for.
Needs(req) == [difficulty : [DOMAIN req.difficulty -> Int], topic : [DOMAIN req.topic -> Int]]

\* A construction that is choosing its next form from the pool.
Selecting(w) ==
  /\ w.req \in RulePapers /\ w.need \in Needs(w.req)
  /\ w.form \cup Used(w.forms) \subseteq w.pool /\ w.form \cap Used(w.forms) = {}
  /\ \A i \in w.pool : w.seen[i].locked /\ w.seen[i].subject = w.req.subject
  /\ SharesCovered(w)

\* What holds of one construction in each of its phases.
OnTarget(w) ==
  /\ w.pc \in {"idle", "select", "store"}
  /\ w.pc = "select" => Selecting(w)
  /\ w.pc # "idle" => FormsMeet(w)

FormsInv == PapersInv /\ \A b \in Builders : OnTarget(builder[b])

\* An item more.
\* An item more, and the marks of a difficulty.
LEMMA MoreOfDifficulty ==
  ASSUME PapersAssumption, NEW seen, NEW is \in SUBSET Items, NEW i \in Items \ is, NEW tag
  PROVE  /\ MarksOf(OfDifficulty(seen, is, tag)) \in Int
         /\ seen[i].difficulty # tag =>
              MarksOf(OfDifficulty(seen, is \cup {i}, tag)) = MarksOf(OfDifficulty(seen, is, tag))
         /\ seen[i].difficulty = tag =>
              MarksOf(OfDifficulty(seen, is \cup {i}, tag))
                = MarksOf(OfDifficulty(seen, is, tag)) + Bank[i].marks
<1>1. /\ seen[i].difficulty = tag =>
           OfDifficulty(seen, is \cup {i}, tag) = OfDifficulty(seen, is, tag) \cup {i}
      /\ seen[i].difficulty # tag =>
           OfDifficulty(seen, is \cup {i}, tag) = OfDifficulty(seen, is, tag)
      /\ OfDifficulty(seen, is, tag) \in SUBSET Items /\ i \notin OfDifficulty(seen, is, tag)
  BY DEF OfDifficulty
<1> QED
  BY <1>1, MarksAddUp

\* The same for a topic.
LEMMA MoreOfTopic ==
  ASSUME PapersAssumption, NEW seen, NEW is \in SUBSET Items, NEW i \in Items \ is, NEW tag
  PROVE  /\ MarksOf(OfTopic(seen, is, tag)) \in Int
         /\ seen[i].topic # tag =>
              MarksOf(OfTopic(seen, is \cup {i}, tag)) = MarksOf(OfTopic(seen, is, tag))
         /\ seen[i].topic = tag =>
              MarksOf(OfTopic(seen, is \cup {i}, tag))
                = MarksOf(OfTopic(seen, is, tag)) + Bank[i].marks
<1>1. /\ seen[i].topic = tag =>
           OfTopic(seen, is \cup {i}, tag) = OfTopic(seen, is, tag) \cup {i}
      /\ seen[i].topic # tag =>
           OfTopic(seen, is \cup {i}, tag) = OfTopic(seen, is, tag)
      /\ OfTopic(seen, is, tag) \in SUBSET Items /\ i \notin OfTopic(seen, is, tag)
  BY DEF OfTopic
<1> QED
  BY <1>1, MarksAddUp

\* The marks of a tag are a number.
LEMMA TagMarksTyped ==
  ASSUME PapersAssumption, NEW seen, NEW is \in SUBSET Items, NEW tag
  PROVE  /\ MarksOf(OfDifficulty(seen, is, tag)) \in Int
         /\ MarksOf(OfTopic(seen, is, tag)) \in Int
<1>1. OfDifficulty(seen, is, tag) \in SUBSET Items /\ OfTopic(seen, is, tag) \in SUBSET Items
  BY DEF OfDifficulty, OfTopic
<1> QED
  BY <1>1, MarksAddUp

\* What an item adds is taken from what is lacking.
LEMMA LessIsLacking ==
  ASSUME NEW need \in Int, NEW have \in Int, NEW marks \in Nat, NEW share \in Int,
         have + need >= share
  PROVE  Less(need, marks) \in Int /\ (have + marks) + Less(need, marks) >= share
BY DEF Less

\* The shares of a request are numbers, and its targets are the first needs.
LEMMA SharesTyped ==
  ASSUME PapersAssumption, NEW req \in RulePapers
  PROVE  /\ \A d \in DOMAIN req.difficulty : Share(req.total, req.difficulty[d]) \in Int
         /\ \A t \in DOMAIN req.topic : Share(req.total, req.topic[t]) \in Int
         /\ Targets(req) \in Needs(req) /\ req.total \in Int
<1>1. ASSUME NEW total \in Int, NEW percent \in 0..100 PROVE Share(total, percent) \in Int
  <2>1. total * percent \in Int
    BY <1>1
  <2> QED
    BY <2>1 DEF Share
<1>2. /\ req.total \in Int
      /\ \A d \in DOMAIN req.difficulty : req.difficulty[d] \in 0..100
      /\ \A t \in DOMAIN req.topic : req.topic[t] \in 0..100
  BY DEF PapersAssumption
<1>3. /\ \A d \in DOMAIN req.difficulty : Share(req.total, req.difficulty[d]) \in Int
      /\ \A t \in DOMAIN req.topic : Share(req.total, req.topic[t]) \in Int
  BY <1>1, <1>2
<1> QED
  BY <1>2, <1>3 DEF Targets, Needs

\* At the start of a form all is lacking.
LEMMA AllIsLacking ==
  ASSUME PapersAssumption, NEW w, w.req \in RulePapers, w.form = {}, w.need = Targets(w.req)
  PROVE  SharesCovered(w) /\ w.need \in Needs(w.req)
<1>1. MarksOf({}) = 0
  BY MarksAddUp
<1>2. /\ \A d : OfDifficulty(w.seen, w.form, d) = {}
      /\ \A t : OfTopic(w.seen, w.form, t) = {}
  BY DEF OfDifficulty, OfTopic
<1>3. /\ \A d \in DOMAIN w.req.difficulty : w.need.difficulty[d] = Share(w.req.total, w.req.difficulty[d])
      /\ \A t \in DOMAIN w.req.topic : w.need.topic[t] = Share(w.req.total, w.req.topic[t])
  BY DEF Targets
<1>4. w.need \in Needs(w.req)
  BY SharesTyped
<1>5. ASSUME NEW d \in DOMAIN w.req.difficulty
      PROVE  MarksOf(OfDifficulty(w.seen, w.form, d)) + w.need.difficulty[d]
               >= Share(w.req.total, w.req.difficulty[d])
  <2>1. MarksOf(OfDifficulty(w.seen, w.form, d)) = 0
    BY <1>1, <1>2
  <2>2. Share(w.req.total, w.req.difficulty[d]) \in Int
    BY SharesTyped
  <2> QED
    BY <1>3, <2>1, <2>2
<1>6. ASSUME NEW t \in DOMAIN w.req.topic
      PROVE  MarksOf(OfTopic(w.seen, w.form, t)) + w.need.topic[t]
               >= Share(w.req.total, w.req.topic[t])
  <2>1. MarksOf(OfTopic(w.seen, w.form, t)) = 0
    BY <1>1, <1>2
  <2>2. Share(w.req.total, w.req.topic[t]) \in Int
    BY SharesTyped
  <2> QED
    BY <1>3, <2>1, <2>2
<1> QED
  BY <1>4, <1>5, <1>6 DEF SharesCovered

\* At rest there is nothing to meet.
LEMMA RestingOnTarget == OnTarget(Resting)
BY DEF OnTarget, Resting

\* A form by hand has been checked.
LEMMA ManualOnTarget ==
  ASSUME PapersAssumption, FormsInv, NEW b \in Builders, NEW req \in ManualPapers, Create(b, req)
  PROVE  OnTarget(builder'[b])
<1> DEFINE w == builder'[b]
<1>1. /\ w = [Resting EXCEPT !.pc = "store", !.req = req, !.seen = row, !.forms = <<req.items>>]
      /\ \A i \in req.items : row[i].locked /\ row[i].subject = req.subject
      /\ MarksOf(req.items) = req.total
  BY DEF Create, CreateManualPaper, FormsInv, PapersInv, PapersTypeOK
<1>2. /\ w.pc = "store" /\ w.req = req /\ w.seen = row
      /\ w.forms = <<req.items>> /\ DOMAIN w.forms = {1} /\ w.forms[1] = req.items
  BY <1>1 DEF Resting
<1> HIDE DEF w
<1>3. MarksOf(req.items) - req.total \in -Tolerance..Tolerance
  <2>1. MarksOf(req.items) \in Int /\ Tolerance \in Nat
    BY MarksAddUp DEF PapersAssumption
  <2> QED
    BY <1>1, <2>1
<1>4. FormMeets(row, req, req.items)
  BY <1>1, <1>3 DEF FormMeets, PapersAssumption
<1>5. FormsMeet(w)
  BY <1>2, <1>4 DEF FormsMeet
<1>6. OnTarget(w)
  BY <1>2, <1>5 DEF OnTarget
<1> QED
  BY <1>6 DEF w

\* The pool has been filtered.
LEMMA GenerateOnTarget ==
  ASSUME PapersAssumption, FormsInv, NEW b \in Builders, NEW req \in RulePapers,
         GenerateRuleBased(b, req)
  PROVE  OnTarget(builder'[b])
<1> DEFINE w == builder'[b]
           pool == {i \in Items : row[i].subject = req.subject /\ row[i].locked}
                     \ CooledDown(req.sitting)
<1>1. w = [Resting EXCEPT !.pc = "select", !.req = req, !.seen = row, !.pool = pool,
                          !.need = Targets(req)]
  BY DEF GenerateRuleBased, StartGeneration, FormsInv, PapersInv, PapersTypeOK
<1>2. \A i \in pool : row[i].locked /\ row[i].subject = req.subject
  OBVIOUS
<1> HIDE DEF pool
<1>3. /\ w.pc = "select" /\ w.req = req /\ w.seen = row /\ w.pool = pool /\ w.form = {}
      /\ w.forms = <<>> /\ w.need = Targets(req)
  BY <1>1 DEF Resting
<1>4. PICK v : v = w
  OBVIOUS
<1> HIDE DEF w
<1>5. SharesCovered(v) /\ v.need \in Needs(v.req)
  BY <1>3, <1>4, AllIsLacking
<1>6. Used(v.forms) = {} /\ FormsMeet(v)
  BY <1>3, <1>4 DEF Used, FormsMeet
<1>7. Selecting(v)
  BY <1>2, <1>3, <1>4, <1>5, <1>6 DEF Selecting
<1>8. OnTarget(v)
  BY <1>3, <1>4, <1>6, <1>7 DEF OnTarget
<1> QED
  BY <1>4, <1>8 DEF w

\* What is picked counts for its difficulty and its topic.
LEMMA PickOnTarget ==
  ASSUME PapersAssumption, FormsInv, NEW b \in Builders, NEW i \in Items, Pick(b, i)
  PROVE  OnTarget(builder'[b])
<1> DEFINE old == builder[b]
           new == builder'[b]
           diff == old.seen[i].difficulty
           topic == old.seen[i].topic
           need == [difficulty |-> [old.need.difficulty EXCEPT ![diff] = Less(@, Bank[i].marks)],
                    topic |-> [old.need.topic EXCEPT ![topic] = Less(@, Bank[i].marks)]]
<1>1. /\ IsBuilding(old) /\ OnTarget(old) /\ DOMAIN builder = Builders
      /\ old.pc = "select" /\ Selecting(old)
  BY DEF FormsInv, PapersInv, PapersTypeOK, ChoosesLocked, Pick, OnTarget
<1>2. /\ i \in old.pool /\ i \notin old.form /\ i \notin Used(old.forms)
      /\ diff \in DOMAIN old.need.difficulty /\ topic \in DOMAIN old.need.topic
  BY DEF Pick, Candidates, Available, Chosen, Used
<1>3. /\ old.need \in Needs(old.req) /\ old.req \in RulePapers
      /\ old.need = [difficulty |-> old.need.difficulty, topic |-> old.need.topic]
  BY <1>1 DEF Selecting, Needs
<1>4. builder' = [builder EXCEPT ![b].form = @ \cup {i},
                     ![b].need.difficulty[diff] = Less(@, Bank[i].marks),
                     ![b].need.topic[topic] = Less(@, Bank[i].marks)]
  BY DEF Pick
<1>5. new = [[[old EXCEPT !.form = @ \cup {i}]
                  EXCEPT !.need.difficulty[diff] = Less(@, Bank[i].marks)]
                  EXCEPT !.need.topic[topic] = Less(@, Bank[i].marks)]
  BY <1>1, <1>4
<1>6. /\ new.pc = "select" /\ new.req = old.req /\ new.seen = old.seen /\ new.pool = old.pool
      /\ new.forms = old.forms /\ new.form = old.form \cup {i}
  BY <1>1, <1>5 DEF IsBuilding, Fields
<1>7. new.need = need
  <2>1. DOMAIN old = Fields
    BY <1>1 DEF IsBuilding
  <2>2. DOMAIN old.need = {"difficulty", "topic"}
    BY <1>3 DEF Needs
  <2>3. new.need = [[old.need EXCEPT !.difficulty[diff] = Less(@, Bank[i].marks)]
                               EXCEPT !.topic[topic] = Less(@, Bank[i].marks)]
    BY <1>5, <2>1 DEF Fields
  <2> QED
    BY <1>3, <2>2, <2>3
<1>8. PICK v, u : v = new /\ u = old
  OBVIOUS
<1>9. /\ u.form \in SUBSET Items /\ i \in Items \ u.form /\ Bank[i].marks \in Nat
      /\ v.form = u.form \cup {i} /\ v.seen = u.seen /\ v.req = u.req
  BY <1>1, <1>2, <1>6, <1>8 DEF IsBuilding, PapersAssumption, ItemRow
<1>10. /\ SharesCovered(u) /\ u.req \in RulePapers
       /\ u.need.difficulty \in [DOMAIN u.req.difficulty -> Int]
       /\ u.need.topic \in [DOMAIN u.req.topic -> Int]
  BY <1>1, <1>3, <1>8 DEF Selecting, Needs
<1>11. /\ v.need.difficulty = [u.need.difficulty EXCEPT ![diff] = Less(@, Bank[i].marks)]
       /\ v.need.topic = [u.need.topic EXCEPT ![topic] = Less(@, Bank[i].marks)]
       /\ DOMAIN v.need = {"difficulty", "topic"}
       /\ v.need = [difficulty |-> v.need.difficulty, topic |-> v.need.topic]
       /\ diff = u.seen[i].difficulty /\ topic = u.seen[i].topic
  BY <1>7, <1>8
<1> HIDE DEF old, new, need, diff, topic
<1>12. ASSUME NEW d \in DOMAIN u.req.difficulty
       PROVE  /\ v.need.difficulty[d] \in Int
              /\ MarksOf(OfDifficulty(v.seen, v.form, d)) + v.need.difficulty[d]
                   >= Share(u.req.total, u.req.difficulty[d])
  <2> DEFINE have == MarksOf(OfDifficulty(u.seen, u.form, d))
             share == Share(u.req.total, u.req.difficulty[d])
  <2>1. have \in Int /\ share \in Int /\ u.need.difficulty[d] \in Int
    BY <1>9, <1>10, TagMarksTyped, SharesTyped
  <2>2. have + u.need.difficulty[d] >= share
    BY <1>10 DEF SharesCovered
  <2>3. /\ diff = d => MarksOf(OfDifficulty(v.seen, v.form, d)) = have + Bank[i].marks
        /\ diff # d => MarksOf(OfDifficulty(v.seen, v.form, d)) = have
    <3>1. u.form \in SUBSET Items /\ i \in Items \ u.form
      BY <1>9
    <3>2. /\ u.seen[i].difficulty # d =>
               MarksOf(OfDifficulty(u.seen, u.form \cup {i}, d)) = have
          /\ u.seen[i].difficulty = d =>
               MarksOf(OfDifficulty(u.seen, u.form \cup {i}, d)) = have + Bank[i].marks
      BY <3>1, MoreOfDifficulty DEF have
    <3> QED
      BY <1>9, <1>11, <3>2
  <2>4. v.need.difficulty[d] = IF diff = d THEN Less(u.need.difficulty[d], Bank[i].marks)
                                           ELSE u.need.difficulty[d]
    BY <1>10, <1>11
  <2> HIDE DEF have, share
  <2>5. /\ Less(u.need.difficulty[d], Bank[i].marks) \in Int
        /\ (have + Bank[i].marks) + Less(u.need.difficulty[d], Bank[i].marks) >= share
    BY <1>9, <2>1, <2>2, LessIsLacking
  <2>6. CASE diff = d
    BY <2>3, <2>4, <2>5, <2>6 DEF share
  <2>7. CASE diff # d
    BY <2>1, <2>2, <2>3, <2>4, <2>7 DEF share
  <2> QED
    BY <2>6, <2>7
<1>13. ASSUME NEW t \in DOMAIN u.req.topic
       PROVE  /\ v.need.topic[t] \in Int
              /\ MarksOf(OfTopic(v.seen, v.form, t)) + v.need.topic[t]
                   >= Share(u.req.total, u.req.topic[t])
  <2> DEFINE have == MarksOf(OfTopic(u.seen, u.form, t))
             share == Share(u.req.total, u.req.topic[t])
  <2>1. have \in Int /\ share \in Int /\ u.need.topic[t] \in Int
    BY <1>9, <1>10, TagMarksTyped, SharesTyped
  <2>2. have + u.need.topic[t] >= share
    BY <1>10 DEF SharesCovered
  <2>3. /\ topic = t => MarksOf(OfTopic(v.seen, v.form, t)) = have + Bank[i].marks
        /\ topic # t => MarksOf(OfTopic(v.seen, v.form, t)) = have
    <3>1. u.form \in SUBSET Items /\ i \in Items \ u.form
      BY <1>9
    <3>2. /\ u.seen[i].topic # t =>
               MarksOf(OfTopic(u.seen, u.form \cup {i}, t)) = have
          /\ u.seen[i].topic = t =>
               MarksOf(OfTopic(u.seen, u.form \cup {i}, t)) = have + Bank[i].marks
      BY <3>1, MoreOfTopic DEF have
    <3> QED
      BY <1>9, <1>11, <3>2
  <2>4. v.need.topic[t] = IF topic = t THEN Less(u.need.topic[t], Bank[i].marks)
                                       ELSE u.need.topic[t]
    BY <1>10, <1>11
  <2> HIDE DEF have, share
  <2>5. /\ Less(u.need.topic[t], Bank[i].marks) \in Int
        /\ (have + Bank[i].marks) + Less(u.need.topic[t], Bank[i].marks) >= share
    BY <1>9, <2>1, <2>2, LessIsLacking
  <2>6. CASE topic = t
    BY <2>3, <2>4, <2>5, <2>6 DEF share
  <2>7. CASE topic # t
    BY <2>1, <2>2, <2>3, <2>4, <2>7 DEF share
  <2> QED
    BY <2>6, <2>7
<1>14. SharesCovered(v)
  BY <1>9, <1>12, <1>13 DEF SharesCovered
<1>15. v.need \in Needs(v.req)
  <2>1. v.need.difficulty \in [DOMAIN u.req.difficulty -> Int]
    BY <1>10, <1>11, <1>12
  <2>2. v.need.topic \in [DOMAIN u.req.topic -> Int]
    BY <1>10, <1>11, <1>13
  <2> QED
    BY <1>9, <1>11, <2>1, <2>2 DEF Needs
<1>16. Selecting(v)
  BY <1>1, <1>2, <1>6, <1>8, <1>14, <1>15 DEF Selecting
<1>17. FormsMeet(v)
  BY <1>1, <1>6, <1>8 DEF OnTarget, FormsMeet
<1> QED
  BY <1>6, <1>8, <1>16, <1>17 DEF OnTarget, new

\* A form that passes the checks meets its targets, and has nothing of the others.
LEMMA EndFormOnTarget ==
  ASSUME PapersAssumption, FormsInv, NEW b \in Builders, EndForm(b)
  PROVE  OnTarget(builder'[b])
<1> DEFINE old == builder[b]
           w == [old EXCEPT !.forms = Append(@, old.form), !.form = {}, !.need = Targets(old.req),
                   !.pc = IF Len(old.forms) + 1 = old.req.variants THEN "store" ELSE "select"]
<1>1. /\ IsBuilding(old) /\ OnTarget(old) /\ DOMAIN builder = Builders
      /\ old.pc = "select" /\ Selecting(old) /\ FormsMeet(old)
      /\ builder' = [builder EXCEPT ![b] = IF ~Acceptable(b) THEN Resting ELSE w]
  BY DEF FormsInv, PapersInv, PapersTypeOK, ChoosesLocked, EndForm, OnTarget
<1>2. CASE ~Acceptable(b)
  BY <1>1, <1>2, RestingOnTarget
<1>3. CASE Acceptable(b)
  <2>1. builder'[b] = w
    BY <1>1, <1>3
  <2>2. /\ w.req = old.req /\ w.pool = old.pool /\ w.seen = old.seen /\ w.form = {}
        /\ w.forms = Append(old.forms, old.form) /\ w.pc \in {"select", "store"}
        /\ w.need = Targets(old.req)
    BY <1>1 DEF IsBuilding, Fields
  <2>3. /\ \A d \in DOMAIN old.need.difficulty : old.need.difficulty[d] <= 0
        /\ \A t \in DOMAIN old.need.topic : old.need.topic[t] <= 0
        /\ MarksOf(old.form) - old.req.total \in -Tolerance..Tolerance
    BY <1>3 DEF Acceptable, Met
  <2>4. PICK u, v : u = old /\ v = w
    OBVIOUS
  <2>5. /\ IsBuilding(u) /\ Selecting(u) /\ FormsMeet(u) /\ u.form \in SUBSET Items
        /\ u.forms \in Seq(SUBSET Items) /\ u.req \in RulePapers
    BY <1>1, <2>4 DEF IsBuilding, Selecting
  <2> HIDE DEF old, w
  <2>6. FormMeets(u.seen, u.req, u.form)
    <3>1. \A d \in DOMAIN u.req.difficulty :
            MarksOf(OfDifficulty(u.seen, u.form, d)) >= Share(u.req.total, u.req.difficulty[d])
      <4> SUFFICES ASSUME NEW d \in DOMAIN u.req.difficulty
                   PROVE  MarksOf(OfDifficulty(u.seen, u.form, d))
                            >= Share(u.req.total, u.req.difficulty[d])
        OBVIOUS
      <4>1. u.need.difficulty[d] \in Int /\ u.need.difficulty[d] <= 0
        BY <2>3, <2>4, <2>5 DEF Selecting, Needs
      <4>2. /\ MarksOf(OfDifficulty(u.seen, u.form, d)) \in Int
            /\ Share(u.req.total, u.req.difficulty[d]) \in Int
        BY <2>5, TagMarksTyped, SharesTyped
      <4>3. MarksOf(OfDifficulty(u.seen, u.form, d)) + u.need.difficulty[d]
              >= Share(u.req.total, u.req.difficulty[d])
        BY <2>5 DEF Selecting, SharesCovered
      <4> QED
        BY <4>1, <4>2, <4>3
    <3>2. \A t \in DOMAIN u.req.topic :
            MarksOf(OfTopic(u.seen, u.form, t)) >= Share(u.req.total, u.req.topic[t])
      <4> SUFFICES ASSUME NEW t \in DOMAIN u.req.topic
                   PROVE  MarksOf(OfTopic(u.seen, u.form, t))
                            >= Share(u.req.total, u.req.topic[t])
        OBVIOUS
      <4>1. u.need.topic[t] \in Int /\ u.need.topic[t] <= 0
        BY <2>3, <2>4, <2>5 DEF Selecting, Needs
      <4>2. /\ MarksOf(OfTopic(u.seen, u.form, t)) \in Int
            /\ Share(u.req.total, u.req.topic[t]) \in Int
        BY <2>5, TagMarksTyped, SharesTyped
      <4>3. MarksOf(OfTopic(u.seen, u.form, t)) + u.need.topic[t]
              >= Share(u.req.total, u.req.topic[t])
        BY <2>5 DEF Selecting, SharesCovered
      <4> QED
        BY <4>1, <4>2, <4>3
    <3>3. \A i \in u.form : u.seen[i].locked /\ u.seen[i].subject = u.req.subject
      BY <2>5 DEF Selecting
    <3> QED
      BY <2>3, <2>4, <3>1, <3>2, <3>3 DEF FormMeets
  <2>7. /\ \A f \in DOMAIN u.forms : u.forms[f] \cap u.form = {}
        /\ Used(v.forms) = Used(u.forms) \cup u.form
    <3>1. u.form \cap Used(u.forms) = {}
      BY <2>5 DEF Selecting
    <3>2. \A f \in DOMAIN u.forms : u.forms[f] \subseteq Used(u.forms)
      BY DEF Used
    <3>3. Used(Append(u.forms, u.form)) = Used(u.forms) \cup u.form
      BY <2>5, UsedItems
    <3>4. v.forms = Append(u.forms, u.form)
      BY <2>2, <2>4
    <3> QED
      BY <3>1, <3>2, <3>3, <3>4
  <2>8. /\ DOMAIN u.forms = 1..Len(u.forms) /\ Len(u.forms) \in Nat
        /\ DOMAIN v.forms = 1..Len(u.forms) + 1
        /\ \A f \in DOMAIN u.forms : v.forms[f] = u.forms[f]
        /\ v.forms[Len(u.forms) + 1] = u.form
    BY <2>2, <2>4, <2>5
  <2>9. FormsMeet(v)
    <3> SUFFICES ASSUME NEW f \in DOMAIN v.forms
                 PROVE  /\ FormMeets(u.seen, u.req, v.forms[f])
                        /\ \A g \in DOMAIN v.forms : f # g => v.forms[f] \cap v.forms[g] = {}
      BY <2>2, <2>4 DEF FormsMeet
    <3>1. CASE f = Len(u.forms) + 1
      <4>1. \A g \in DOMAIN v.forms : f # g => g \in DOMAIN u.forms
        BY <2>8, <3>1
      <4> QED
        BY <2>6, <2>7, <2>8, <3>1, <4>1
    <3>2. CASE f \in DOMAIN u.forms
      <4>1. FormMeets(u.seen, u.req, u.forms[f])
        BY <2>5, <3>2 DEF FormsMeet
      <4>2. \A g \in DOMAIN u.forms : f # g => u.forms[f] \cap u.forms[g] = {}
        BY <2>5, <3>2 DEF FormsMeet
      <4>3. \A g \in DOMAIN v.forms : g \in DOMAIN u.forms \/ g = Len(u.forms) + 1
        BY <2>8
      <4> QED
        BY <2>7, <2>8, <3>2, <4>1, <4>2, <4>3
    <3> QED
      BY <2>8, <3>1, <3>2
  <2>10. SharesCovered(v) /\ v.need \in Needs(v.req)
    <3>1. v.req \in RulePapers /\ v.form = {} /\ v.need = Targets(v.req)
      BY <2>2, <2>4, <2>5
    <3> QED
      BY <3>1, AllIsLacking
  <2>11. Selecting(v)
    <3>1. \A i \in u.pool : u.seen[i].locked /\ u.seen[i].subject = u.req.subject
      BY <2>5 DEF Selecting
    <3>2. u.form \cup Used(u.forms) \subseteq u.pool
      BY <2>5 DEF Selecting
    <3> QED
      BY <2>2, <2>4, <2>5, <2>7, <2>10, <3>1, <3>2 DEF Selecting
  <2> QED
    BY <2>1, <2>2, <2>4, <2>9, <2>11 DEF OnTarget
<1> QED
  BY <1>2, <1>3

\* Nobody touches another's construction, and what is stored or fails is at rest.
LEMMA OnTargetStep ==
  ASSUME PapersAssumption PROVE FormsInv /\ [Next]_vars => FormsInv'
<1> SUFFICES ASSUME FormsInv, [Next]_vars PROVE FormsInv'
  OBVIOUS
<1>1. PapersInv /\ PapersInv' /\ DOMAIN builder = Builders
  BY PapersStep DEF FormsInv, PapersInv, PapersTypeOK
<1>2. ASSUME NEW b \in Builders, OnTarget(builder'[b]),
             \A c \in Builders \ {b} : builder'[c] = builder[c]
      PROVE  FormsInv'
  BY <1>1, <1>2 DEF FormsInv
<1>3. ASSUME UNCHANGED builder PROVE FormsInv'
  BY <1>1, <1>3 DEF FormsInv
<1>4. ASSUME NEW b \in Builders,
             \/ \E req \in ManualPapers : Create(b, req)
             \/ \E req \in RulePapers : GenerateRuleBased(b, req)
             \/ \E i \in Items : Pick(b, i)
             \/ EndForm(b) \/ StorePaper(b) \/ Abort(b)
      PROVE  FormsInv'
  <2>1. \A c \in Builders \ {b} : builder'[c] = builder[c]
    BY <1>1, <1>4 DEF Create, CreateManualPaper, GenerateRuleBased, StartGeneration, Pick,
                      EndForm, StorePaper, Abort
  <2>2. OnTarget(builder'[b])
    <3>1. CASE StorePaper(b) \/ Abort(b)
      <4>1. builder'[b] = Resting
        BY <1>1, <3>1 DEF StorePaper, Abort
      <4> QED
        BY <4>1, RestingOnTarget
    <3> QED
      BY <1>4, <3>1, ManualOnTarget, GenerateOnTarget, PickOnTarget, EndFormOnTarget
  <2> QED
    BY <1>2, <2>1, <2>2
<1>5. CASE UNCHANGED builder
  BY <1>3, <1>5
<1> QED
  BY <1>4, <1>5 DEF Next, SubmitForApproval, SubmitPaperForApproval, Export, RecordPaperExport,
                    PanelLocks, Retag, vars

\* Whatever is constructed side by side, re-tagged and locked meanwhile: what is
\* about to be stored, by hand or by rule with any number of variants, meets the
\* targets of its request, of the items as they were read, and the greedy
\* selection never uses an item twice.
THEOREM FormsHold == Spec => []FormsMeetTargets
<1> USE PapersAssumption
<1>1. Init => FormsInv
  BY PapersStart, RestingOnTarget DEF Init, FormsInv
<1>2. FormsInv /\ [Next]_vars => FormsInv'
  BY OnTargetStep
<1>3. FormsInv => FormsMeetTargets
  <2> SUFFICES ASSUME FormsInv, NEW b \in Builders, builder[b].pc = "store",
                      NEW f \in DOMAIN builder[b].forms
               PROVE  LET w == builder[b]
                          is == w.forms[f]
                      IN /\ \A g \in DOMAIN w.forms : f # g => is \cap w.forms[g] = {}
                         /\ FormMeets(w.seen, w.req, is)
    BY DEF FormsMeetTargets, FormMeets, OfDifficulty, OfTopic
  <2> QED
    BY DEF FormsInv, OnTarget, FormsMeet
<1> QED
  BY <1>1, <1>2, <1>3, PTL DEF Spec
=============================================================================
