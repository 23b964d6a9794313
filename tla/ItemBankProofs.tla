--------------------------- MODULE ItemBankProofs ---------------------------
(***************************************************************************)
(* Proofs about ItemBank: the history of an item is a path of the workflow *)
(* to its status, two equal votes of the panel and nothing else decide, a  *)
(* reader sees the latest version, and it does not change out of the       *)
(* writer's hands.  Any number of items, accounts, votes and bulk re-tags. *)
(***************************************************************************)
EXTENDS ItemBank, SequenceTheorems, FiniteSetTheorems, TLAPS

-----------------------------------------------------------------------------
(* The invariant.                                                          *)

\* An item that is not there has no history, and a re-tag under way has counted.
Unborn == \A i \in Items : ~Exists(i) => log[i] = <<>>

Retagging == retag # NoRetag => retag.topic \in Topics /\ retags > 0

Inv ==
  /\ TypeOK /\ Unborn /\ Retagging
  /\ HistoryIsPath /\ PanelDecides /\ SnapshotIsCurrent

USE ItemBankAssumption

-----------------------------------------------------------------------------
(* Sequences.                                                              *)

\* A path of the workflow from s to t.
IsPath(p, s, t) ==
  /\ p \in Seq(ItemTransition) /\ p # <<>>
  /\ p[1][1] = s /\ p[Len(p)][2] = t
  /\ \A k \in 1 .. Len(p) : p[k] \in Edges /\ (k > 1 => p[k][1] = p[k - 1][2])

LEMMA HistoryGrows ==
  ASSUME NEW h \in Seq(ItemTransition), NEW s \in Statuses, IsHistory(h, s),
         NEW p, NEW t \in Statuses, IsPath(p, s, t)
  PROVE  h \o p \in Seq(ItemTransition) /\ IsHistory(h \o p, t)
<1> DEFINE r == h \o p
           m == Len(h)
           n == Len(p)
<1>1. /\ p \in Seq(ItemTransition) /\ n \in Nat /\ m \in Nat /\ n # 0
      /\ DOMAIN h = 1 .. m /\ (h = <<>> <=> m = 0)
  BY LenProperties, EmptySeq DEF IsPath
<1>2. /\ r \in Seq(ItemTransition) /\ Len(r) = m + n /\ DOMAIN r = 1 .. (m + n)
      /\ \A k \in 1 .. (m + n) : r[k] = IF k <= m THEN h[k] ELSE p[k - m]
  BY <1>1, ConcatProperties, LenProperties
<1>3. r # <<>>
  BY <1>1, <1>2, EmptySeq
<1>4. /\ s = IF m = 0 THEN "Draft" ELSE h[m][2]
      /\ \A k \in 1 .. m : h[k] \in Edges /\ h[k][1] = IF k = 1 THEN "Draft" ELSE h[k - 1][2]
  BY <1>1 DEF IsHistory, Statuses
<1>5. /\ p[1][1] = s /\ p[n][2] = t
      /\ \A k \in 1 .. n : p[k] \in Edges /\ (k > 1 => p[k][1] = p[k - 1][2])
  BY DEF IsPath
<1> HIDE DEF r, m, n
<1>6. ASSUME NEW k \in 1 .. (m + n)
      PROVE  r[k] \in Edges /\ r[k][1] = IF k = 1 THEN "Draft" ELSE r[k - 1][2]
  <2>1. CASE k <= m
    <3>1. k \in 1 .. m /\ r[k] = h[k] /\ (k # 1 => k - 1 \in 1 .. (m + n) /\ r[k - 1] = h[k - 1])
      BY <1>1, <1>2, <2>1
    <3> QED
      BY <1>4, <3>1
  <2>2. CASE k = m + 1
    <3>1. r[k] = p[1] /\ 1 \in 1 .. n
      BY <1>1, <1>2, <2>2
    <3>2. k # 1 => m # 0 /\ k - 1 = m /\ r[k - 1] = h[m]
      BY <1>1, <1>2, <2>2
    <3>3. k = 1 <=> m = 0
      BY <1>1, <2>2
    <3> QED
      BY <1>4, <1>5, <3>1, <3>2, <3>3
  <2>3. CASE k > m + 1
    <3>1. k - m \in 1 .. n /\ k - m > 1 /\ r[k] = p[k - m] /\ k # 1
      BY <1>1, <1>2, <2>3
    <3>2. r[k - 1] = p[k - m - 1]
      <4>1. k - 1 \in 1 .. (m + n) /\ ~(k - 1 <= m) /\ k - 1 - m = k - m - 1
        BY <1>1, <2>3
      <4> QED
        BY <1>2, <4>1
    <3> QED
      BY <1>5, <3>1, <3>2
  <2> QED
    BY <1>1, <2>1, <2>2, <2>3
<1>7. r[m + n] = p[n]
  BY <1>1, <1>2
<1>8. IsHistory(r, t)
  BY <1>2, <1>3, <1>5, <1>6, <1>7 DEF IsHistory
<1> QED
  BY <1>2, <1>8 DEF r

\* The paths there are.
LEMMA PathOfOne ==
  ASSUME NEW s \in Statuses, NEW t \in Statuses, <<s, t>> \in Edges
  PROVE  IsPath(Steps(s, <<t>>), s, t) /\ <<t>>[Len(<<t>>)] = t
BY DEF IsPath, Steps, ItemTransition

LEMMA PathOfTwo ==
  ASSUME NEW s \in Statuses, NEW t \in Statuses, NEW u \in Statuses,
         <<s, t>> \in Edges, <<t, u>> \in Edges
  PROVE  IsPath(Steps(s, <<t, u>>), s, u) /\ <<t, u>>[Len(<<t, u>>)] = u
BY DEF IsPath, Steps, ItemTransition

-----------------------------------------------------------------------------
(* Votes.                                                                  *)

LEMMA CountIsNat ==
  ASSUME NEW b, NEW vote
  PROVE  Count(b, vote) \in Nat /\ IsFiniteSet({u \in Users : b[u] = vote})
<1>1. IsFiniteSet({u \in Users : b[u] = vote})
  BY FS_Subset
<1> QED
  BY <1>1, FS_CardinalityType DEF Count

\* What the panel's votes c do to an item, given the last one.
Decision(c) ==
  \/ Outcome(c) = <<>> /\ IsDecision(c, "Moderation Panel")
  \/ Outcome(c) = <<"Approved", "Locked for Use">> /\ IsDecision(c, "Locked for Use")
  \/ Outcome(c) = <<"Rejected">> /\ IsDecision(c, "Rejected")

\* Before it nothing was decided.
LEMMA VoteDecides ==
  ASSUME NEW b \in [Users -> PanelVote], NEW u \in Users, b[u] = "none",
         NEW v \in PanelVote \ {"none"}, NEW c, c = [b EXCEPT ![u] = v],
         IsDecision(b, "Moderation Panel")
  PROVE  Decision(c)
<1>1. ASSUME NEW vote, vote # "none"
      PROVE  /\ v = vote => Count(c, vote) = Count(b, vote) + 1
             /\ v # vote => Count(c, vote) = Count(b, vote)
  <2> DEFINE before == {w \in Users : b[w] = vote}
             after  == {w \in Users : c[w] = vote}
  <2>1. IsFiniteSet(before) /\ u \notin before
    BY <1>1, FS_Subset
  <2>2. Count(b, vote) = Cardinality(before) /\ Count(c, vote) = Cardinality(after)
    BY DEF Count
  <2>3. CASE v = vote
    <3>1. after = before \cup {u}
      BY <2>3
    <3> HIDE DEF before, after
    <3>2. Cardinality(before \cup {u}) = Cardinality(before) + 1
      BY <2>1, FS_AddElement
    <3> QED
      BY <2>2, <2>3, <3>1, <3>2
  <2>4. CASE v # vote
    <3>1. after = before
      BY <1>1, <2>4
    <3> HIDE DEF before, after
    <3> QED
      BY <2>2, <2>4, <3>1
  <2> QED
    BY <2>3, <2>4
<1>2. /\ v = "Approve" => Count(c, "Approve") = Count(b, "Approve") + 1
      /\ v # "Approve" => Count(c, "Approve") = Count(b, "Approve")
      /\ v = "Reject" => Count(c, "Reject") = Count(b, "Reject") + 1
      /\ v # "Reject" => Count(c, "Reject") = Count(b, "Reject")
  BY <1>1
<1>3. /\ Count(b, "Approve") \in Nat /\ Count(b, "Reject") \in Nat
      /\ Count(c, "Approve") \in Nat /\ Count(c, "Reject") \in Nat
  BY CountIsNat
<1>4. ~(Count(b, "Approve") >= 2) /\ ~(Count(b, "Reject") >= 2)
  BY DEF IsDecision
<1>5. ~(Count(c, "Approve") >= 2) \/ ~(Count(c, "Reject") >= 2)
  BY <1>2, <1>3, <1>4
<1>6. CASE Count(c, "Approve") >= 2
  <2>1. Outcome(c) = <<"Approved", "Locked for Use">>
    BY <1>6 DEF Outcome
  <2>2. IsDecision(c, "Locked for Use")
    BY <1>5, <1>6 DEF IsDecision
  <2> QED
    BY <2>1, <2>2 DEF Decision
<1>7. CASE ~(Count(c, "Approve") >= 2) /\ Count(c, "Reject") >= 2
  <2>1. Outcome(c) = <<"Rejected">>
    BY <1>7 DEF Outcome
  <2>2. IsDecision(c, "Rejected")
    BY <1>5, <1>7 DEF IsDecision
  <2> QED
    BY <2>1, <2>2 DEF Decision
<1>8. CASE ~(Count(c, "Approve") >= 2) /\ ~(Count(c, "Reject") >= 2)
  <2>1. Outcome(c) = <<>>
    BY <1>8 DEF Outcome
  <2>2. IsDecision(c, "Moderation Panel")
    BY <1>5, <1>8 DEF IsDecision
  <2> QED
    BY <2>1, <2>2 DEF Decision
<1> QED
  BY <1>6, <1>7, <1>8

-----------------------------------------------------------------------------
(* One item changes.                                                       *)

\* The rows of item i become these.
Changes(i, row, v, h, b) ==
  /\ item' = [item EXCEPT ![i] = row]
  /\ versions' = [versions EXCEPT ![i] = v]
  /\ log' = [log EXCEPT ![i] = h]
  /\ votes' = [votes EXCEPT ![i] = b]
  /\ UNCHANGED <<comments, stored, retag, retags>>

\* What the invariant says of them.
Agree(i, row, v, h, b) ==
  /\ row \in Item /\ row.status # "none"
  /\ v \in Seq(ItemVersion) /\ v # <<>> /\ \A k \in DOMAIN v : v[k].refs \subseteq stored
  /\ h \in Seq(ItemTransition) /\ b \in [Users -> PanelVote]
  /\ IsHistory(h, row.status) /\ IsDecision(b, row.status) /\ IsSnapshot(v, row, retags > 0)

LEMMA ChangeKeeps ==
  ASSUME Inv, NEW i \in Items, NEW row, NEW v, NEW h, NEW b,
         Changes(i, row, v, h, b), Agree(i, row, v, h, b)
  PROVE  Inv'
<1> USE DEF Changes, Agree
<1>1. /\ item'[i] = row /\ versions'[i] = v /\ log'[i] = h /\ votes'[i] = b
      /\ \A j \in Items \ {i} : /\ item'[j] = item[j] /\ versions'[j] = versions[j]
                                /\ log'[j] = log[j] /\ votes'[j] = votes[j]
  BY DEF Inv, TypeOK
<1>2. /\ item' \in [Items -> Item] /\ versions' \in [Items -> Seq(ItemVersion)]
      /\ log' \in [Items -> Seq(ItemTransition)] /\ votes' \in [Items -> [Users -> PanelVote]]
  BY DEF Inv, TypeOK
<1>3. ASSUME NEW j \in Items
      PROVE  /\ comments'[j] # <<>> => versions'[j] # <<>>
             /\ \A k \in DOMAIN versions'[j] : versions'[j][k].refs \subseteq stored'
  BY <1>1 DEF Inv, TypeOK
<1>4. TypeOK'
  BY <1>2, <1>3 DEF Inv, TypeOK
<1>5. Retagging'
  BY DEF Inv, Retagging
<1>6. ASSUME NEW j \in Items
      PROVE  /\ IsHistory(log'[j], item'[j].status) /\ IsDecision(votes'[j], item'[j].status)
             /\ IsSnapshot(versions'[j], item'[j], retags' > 0)
             /\ item'[j].status = "none" => log'[j] = <<>>
  <2>1. CASE j = i
    BY <1>1, <2>1
  <2>2. CASE j # i
    BY <1>1, <2>2 DEF Inv, HistoryIsPath, PanelDecides, SnapshotIsCurrent, Unborn, Exists
  <2> QED
    BY <2>1, <2>2
<1> QED
  BY <1>4, <1>5, <1>6 DEF Inv, HistoryIsPath, PanelDecides, SnapshotIsCurrent, Unborn, Exists

\* What is known of an item's rows, and that those a step leaves alone are as
\* written.
RowsOf(i) ==
  /\ item[i] \in Item /\ item = [item EXCEPT ![i] = item[i]]
  /\ versions[i] \in Seq(ItemVersion) /\ versions = [versions EXCEPT ![i] = versions[i]]
  /\ \A k \in DOMAIN versions[i] : versions[i][k].refs \subseteq stored
  /\ log[i] \in Seq(ItemTransition) /\ log = [log EXCEPT ![i] = log[i]]
  /\ votes[i] \in [Users -> PanelVote] /\ votes = [votes EXCEPT ![i] = votes[i]]
  /\ IsHistory(log[i], item[i].status) /\ IsDecision(votes[i], item[i].status)
  /\ IsSnapshot(versions[i], item[i], retags > 0)
  /\ item[i].status = "none" => log[i] = <<>>

LEMMA ItemRows ==
  ASSUME Inv, NEW i \in Items
  PROVE  RowsOf(i)
BY DEF Inv, TypeOK, HistoryIsPath, PanelDecides, SnapshotIsCurrent, Unborn, Exists, RowsOf

-----------------------------------------------------------------------------
(* The operations.                                                         *)

\* A version more, which is what the row says.
LEMMA RecordKeeps ==
  ASSUME Inv, NEW i \in Items, NEW row \in Item, row.status \in Editable,
         IsHistory(log[i], row.status), IsDecision(votes[i], row.status),
         NEW refs \in SUBSET stored, Record(i, row, refs)
  PROVE  Inv'
<1> DEFINE e  == [topic |-> row.topic, refs |-> refs]
           v  == Append(versions[i], e)
           r  == [row EXCEPT !.current = Len(versions[i]) + 1]
<1>1. RowsOf(i) /\ stored \subseteq Assets
  BY ItemRows DEF Inv, TypeOK
<1>2. e \in ItemVersion /\ e.topic = row.topic /\ e.refs \subseteq stored
  BY <1>1 DEF Item, ItemVersion
<1>3. versions[i] \in Seq(ItemVersion) /\ Len(versions[i]) \in Nat
      /\ DOMAIN versions[i] = 1 .. Len(versions[i]) /\ Len(versions[i]) < MaxVersions
  BY <1>1, LenProperties DEF RowsOf, Record
<1> HIDE DEF e
<1>4. /\ v \in Seq(ItemVersion) /\ v # <<>> /\ Len(v) = Len(versions[i]) + 1
      /\ v[Len(v)] = e /\ DOMAIN v = 1 .. Len(v)
      /\ \A k \in 1 .. Len(versions[i]) : v[k] = versions[i][k]
  BY <1>2, <1>3, AppendProperties, LenProperties
<1>5. /\ r \in Item /\ r.current = Len(v) /\ r.status = row.status /\ r.topic = row.topic
      /\ r.status # "none"
  <2> HIDE DEF v
  <2>1. Len(versions[i]) + 1 \in 0 .. MaxVersions
    BY <1>3
  <2>2. row.status # "none"
    BY DEF Editable
  <2>3. r \in Item /\ r.current = Len(versions[i]) + 1 /\ r.status = row.status /\ r.topic = row.topic
    BY <2>1 DEF Item
  <2> QED
    BY <1>4, <2>2, <2>3
<1>6. versions' = [versions EXCEPT ![i] = v] /\ item' = [item EXCEPT ![i] = r]
      /\ UNCHANGED <<log, votes, comments, stored, retag, retags>>
  BY DEF Record, e
<1> HIDE DEF v, r
<1>7. \A k \in DOMAIN v : v[k].refs \subseteq stored
  <2> SUFFICES ASSUME NEW k \in 1 .. Len(v) PROVE v[k].refs \subseteq stored
    BY <1>4
  <2>1. CASE k = Len(v)
    BY <1>2, <1>4, <2>1
  <2>2. CASE k # Len(v)
    <3>1. k \in 1 .. Len(versions[i])
      BY <1>3, <1>4, <2>2
    <3> QED
      BY <1>1, <1>3, <1>4, <3>1 DEF RowsOf
  <2> QED
    BY <2>1, <2>2
<1>8. IsSnapshot(v, r, retags > 0)
  BY <1>2, <1>4, <1>5 DEF IsSnapshot
<1>9. Agree(i, r, v, log[i], votes[i])
  BY <1>1, <1>4, <1>5, <1>7, <1>8 DEF Agree, RowsOf
<1>10. Changes(i, r, v, log[i], votes[i])
  BY <1>1, <1>6 DEF Changes, RowsOf
<1> QED
  BY <1>9, <1>10, ChangeKeeps

\* A status that moves along a path of the workflow, maybe with a vote.
LEMMA MoveKeeps ==
  ASSUME Inv, NEW i \in Items, NEW row \in Item, NEW path, NEW t \in Statuses,
         NEW b \in [Users -> PanelVote],
         row.status = item[i].status, row.topic = item[i].topic, row.current = item[i].current,
         row.status \in Statuses,
         IsPath(Steps(row.status, path), row.status, t), path[Len(path)] = t,
         t \in Editable \/ row.topic # Blank, IsDecision(b, t),
         Move(i, row, path), votes' = [votes EXCEPT ![i] = b],
         UNCHANGED <<versions, comments, stored, retag, retags>>
  PROVE  Inv'
<1> DEFINE r == [row EXCEPT !.status = t]
           h == log[i] \o Steps(row.status, path)
<1>1. RowsOf(i)
  BY ItemRows
<1>2. h \in Seq(ItemTransition) /\ IsHistory(h, t)
  BY <1>1, HistoryGrows DEF RowsOf
<1>3. r \in Item /\ r.status = t /\ r.topic = item[i].topic /\ r.current = item[i].current /\ t # "none"
      /\ item[i].status # "none"
  BY DEF Item, Statuses
<1>4. item' = [item EXCEPT ![i] = r] /\ log' = [log EXCEPT ![i] = h]
  BY DEF Move
<1> HIDE DEF r, h
<1>5. IsSnapshot(versions[i], r, retags > 0) /\ versions[i] # <<>>
  BY <1>1, <1>3 DEF RowsOf, IsSnapshot, HasMandatoryMetadata
<1>6. Agree(i, r, versions[i], h, b)
  BY <1>1, <1>2, <1>3, <1>5 DEF Agree, RowsOf
<1>7. Changes(i, r, versions[i], h, b)
  BY <1>1, <1>4 DEF Changes, RowsOf
<1> QED
  BY <1>6, <1>7, ChangeKeeps

LEMMA VersionStepsKeep ==
  ASSUME Inv, NEW i \in Items, NEW u \in Users, Create(i, u) \/ PartialUpdate(i, u) \/ Restore(i, u)
  PROVE  Inv'
<1>0. RowsOf(i)
  BY ItemRows
<1>1. ASSUME NEW d \in ItemDraft, CreateItemDraft(i, u, d) PROVE Inv'
  <2> DEFINE row == [status |-> "Draft", author |-> u, reviewer |-> Nobody,
                     topic |-> d.topic, current |-> 0]
  <2>0. d.topic \in Topics \cup {Blank} /\ 0 \in 0 .. MaxVersions
    BY DEF ItemDraft
  <2>1. row \in Item /\ row.status = "Draft" /\ row.status \in Editable
    BY <2>0 DEF Item, Statuses, Editable
  <2>2. item[i].status = "none" /\ Record(i, row, d.refs) /\ d.refs \in SUBSET stored
    BY <1>1 DEF CreateItemDraft, Exists, ItemDraft
  <2> HIDE DEF row
  <2>3. IsHistory(log[i], row.status) /\ IsDecision(votes[i], row.status)
    BY <1>0, <2>1, <2>2 DEF RowsOf, IsHistory, IsDecision
  <2> QED
    BY <2>1, <2>2, <2>3, RecordKeeps
<1>2. ASSUME NEW topic \in Topics \cup {Blank}, NEW refs \in SUBSET stored, CanEdit(i, u),
             Record(i, [item[i] EXCEPT !.topic = topic], refs)
      PROVE  Inv'
  <2> DEFINE row == [item[i] EXCEPT !.topic = topic]
  <2>1. row \in Item /\ row.status = item[i].status /\ row.status \in Editable
    BY <1>0, <1>2 DEF RowsOf, Item, CanEdit
  <2> HIDE DEF row
  <2>2. IsHistory(log[i], row.status) /\ IsDecision(votes[i], row.status)
    BY <1>0, <2>1 DEF RowsOf
  <2>3. Record(i, row, refs)
    BY <1>2 DEF row
  <2> QED
    BY <2>1, <2>2, <2>3, RecordKeeps
<1>3. ASSUME NEW d \in ItemDraft, UpdateItemDraft(i, u, d) PROVE Inv'
  BY <1>2, <1>3 DEF UpdateItemDraft, ItemDraft
<1>4. ASSUME NEW v \in DOMAIN versions[i], RestoreItemVersion(i, u, v) PROVE Inv'
  <2>1. versions[i][v] \in ItemVersion /\ versions[i][v].refs \subseteq stored
    BY <1>0, ElementOfSeq, LenProperties DEF RowsOf
  <2> QED
    BY <1>2, <1>4, <2>1 DEF RestoreItemVersion, ItemVersion
<1> QED
  BY <1>1, <1>3, <1>4 DEF Create, PartialUpdate, Restore

LEMMA WorkflowStepsKeep ==
  ASSUME Inv, NEW i \in Items, NEW u \in Users, Submit(i, u) \/ Transition(i, u) \/ Vote(i, u)
  PROVE  Inv'
<1>0. RowsOf(i)
  BY ItemRows
<1>1. /\ item[i] \in Item /\ votes[i] \in [Users -> PanelVote]
      /\ votes = [votes EXCEPT ![i] = votes[i]] /\ IsDecision(votes[i], item[i].status)
      /\ item[i].status \notin Editable /\ item[i].status # "none" => item[i].topic # Blank
  BY <1>0 DEF RowsOf, IsSnapshot, HasMandatoryMetadata
\* One step between statuses in which the panel has decided nothing.
<1>2. ASSUME NEW row \in Item, NEW t \in Statuses, <<row.status, t>> \in Edges,
             t \notin {"Locked for Use", "Rejected"},
             row.status \notin {"Locked for Use", "Rejected"},
             row.status = item[i].status, row.topic = item[i].topic, row.current = item[i].current,
             t \in Editable \/ row.topic # Blank, Move(i, row, <<t>>),
             UNCHANGED <<versions, votes, comments, stored, retag, retags>>
      PROVE  Inv'
  <2>1. row.status \in Statuses
    BY <1>2 DEF Edges, Statuses
  <2>2. IsPath(Steps(row.status, <<t>>), row.status, t) /\ <<t>>[Len(<<t>>)] = t
    BY <1>2, <2>1, PathOfOne
  <2>3. IsDecision(votes[i], t)
    BY <1>1, <1>2 DEF IsDecision
  <2> QED
    BY <1>1, <1>2, <2>1, <2>2, <2>3, MoveKeeps
<1>3. ASSUME SubmitItemForReview(i, u) PROVE Inv'
  <2> DEFINE t == IF item[i].status = "Draft" THEN "Submitted" ELSE "Moderation Panel"
  <2>1. /\ item[i].status \in {"Draft", "Revised"} /\ item[i].topic # Blank
        /\ Move(i, item[i], <<t>>)
        /\ UNCHANGED <<versions, votes, comments, stored, retag, retags>>
    BY <1>3 DEF SubmitItemForReview, CanEdit, Editable, HasMandatoryMetadata
  <2>2. t \in Statuses /\ <<item[i].status, t>> \in Edges /\ t \notin {"Locked for Use", "Rejected"}
    BY <2>1 DEF Edges, Statuses
  <2> HIDE DEF t
  <2> QED
    BY <1>1, <1>2, <2>1, <2>2
<1>4. ASSUME NEW r \in ItemTransitionRequest, TransitionItem(i, u, r.target, r.reviewer) PROVE Inv'
  <2> DEFINE row == [item[i] EXCEPT !.reviewer = IF r.target = "In Review" THEN r.reviewer ELSE @]
  <2>1. /\ r.target \in {"In Review", "Reviewed", "Revised"} /\ r.reviewer \in Users \cup {Nobody}
        /\ Move(i, row, <<r.target>>)
        /\ UNCHANGED <<versions, votes, comments, stored, retag, retags>>
    BY <1>4 DEF TransitionItem, ItemTransitionRequest
  <2>2. /\ row \in Item /\ row.status = item[i].status /\ row.topic = item[i].topic
        /\ row.current = item[i].current
    BY <1>1, <2>1 DEF Item
  <2>3. /\ item[i].status \in {"Submitted", "In Review", "Reviewed"}
        /\ <<item[i].status, r.target>> \in Edges
    BY <1>4 DEF TransitionItem, MayTransition, Edges
  <2>4. item[i].topic # Blank /\ r.target \in Statuses
        /\ r.target \notin {"Locked for Use", "Rejected"}
    BY <1>1, <2>1, <2>3 DEF Editable, Statuses
  <2> HIDE DEF row
  <2> QED
    BY <1>2, <2>1, <2>2, <2>3, <2>4
<1>5. ASSUME NEW vote \in PanelVote \ {"none"}, RegisterPanelVote(i, u, vote) PROVE Inv'
  <2> DEFINE c == [votes[i] EXCEPT ![u] = vote]
  <2>1. item[i].status = "Moderation Panel" /\ votes[i][u] = "none"
        /\ votes' = [votes EXCEPT ![i] = c]
        /\ UNCHANGED <<versions, comments, stored, retag, retags>>
    BY <1>5 DEF RegisterPanelVote
  <2>2. IF Outcome(c) = <<>> THEN UNCHANGED <<item, log>> ELSE Move(i, item[i], Outcome(c))
    BY <1>5 DEF RegisterPanelVote
  <2>3. c \in [Users -> PanelVote]
    BY <1>1
  <2>4. Decision(c)
    BY <1>1, <2>1, VoteDecides
  <2> HIDE DEF c
  <2>5. item[i].topic # Blank /\ "Moderation Panel" \in Statuses /\ "Approved" \in Statuses
        /\ "Locked for Use" \in Statuses /\ "Rejected" \in Statuses
    BY <1>1, <2>1 DEF Editable, Statuses
  <2>6. CASE Outcome(c) = <<>> /\ IsDecision(c, "Moderation Panel")
    <3>1. IsDecision(c, item[i].status) /\ UNCHANGED <<item, log>>
      BY <2>1, <2>2, <2>6
    <3>2. Agree(i, item[i], versions[i], log[i], c)
      BY <1>0, <2>1, <2>3, <3>1 DEF Agree, RowsOf, IsSnapshot
    <3>3. Changes(i, item[i], versions[i], log[i], c)
      BY <1>0, <2>1, <3>1 DEF Changes, RowsOf
    <3> QED
      BY <3>2, <3>3, ChangeKeeps
  <2>7. CASE Outcome(c) = <<"Approved", "Locked for Use">> /\ IsDecision(c, "Locked for Use")
    <3> DEFINE path == <<"Approved", "Locked for Use">>
    <3>0. path # <<>>
      OBVIOUS
    <3>1. IsDecision(c, "Locked for Use") /\ Move(i, item[i], path)
      BY <2>2, <2>7, <3>0
    <3>2. IsPath(Steps(item[i].status, path), item[i].status, "Locked for Use")
          /\ path[Len(path)] = "Locked for Use"
      BY <2>1, <2>5, PathOfTwo DEF Edges
    <3> HIDE DEF path
    <3> QED
      BY <1>1, <2>1, <2>3, <2>5, <3>1, <3>2, MoveKeeps
  <2>8. CASE Outcome(c) = <<"Rejected">> /\ IsDecision(c, "Rejected")
    <3> DEFINE path == <<"Rejected">>
    <3>0. path # <<>>
      OBVIOUS
    <3>1. IsDecision(c, "Rejected") /\ Move(i, item[i], path)
      BY <2>2, <2>8, <3>0
    <3>2. IsPath(Steps(item[i].status, path), item[i].status, "Rejected")
          /\ path[Len(path)] = "Rejected"
      BY <2>1, <2>5, PathOfOne DEF Edges
    <3> HIDE DEF path
    <3> QED
      BY <1>1, <2>1, <2>3, <2>5, <3>1, <3>2, MoveKeeps
  <2> QED
    BY <2>4, <2>6, <2>7, <2>8 DEF Decision
<1> QED
  BY <1>3, <1>4, <1>5 DEF Submit, Transition, Vote

-----------------------------------------------------------------------------
(* What does not change the workflow.                                      *)

\* Everything the parts of the invariant other than TypeOK look at.
Workflow == <<item, versions, log, votes, retag, retags>>

LEMMA SameWorkflowKeeps ==
  ASSUME Inv, UNCHANGED Workflow, TypeOK'
  PROVE  Inv'
BY DEF Inv, Workflow, Unborn, Exists, Retagging, HistoryIsPath, PanelDecides, SnapshotIsCurrent

LEMMA CommentStepsKeep ==
  ASSUME Inv, NEW i \in Items, NEW u \in Users, Comment(i, u) \/ DecideSuggestion(i, u)
  PROVE  Inv'
<1>0. comments[i] \in Seq(ItemComment) /\ RowsOf(i)
  BY ItemRows DEF Inv, TypeOK
<1>1. ASSUME NEW cs \in Seq(ItemComment), comments' = [comments EXCEPT ![i] = cs],
             versions[i] # <<>>, UNCHANGED <<item, versions, log, votes, stored, retag, retags>>
      PROVE  Inv'
  <2>1. TypeOK'
    <3>1. ASSUME NEW j \in Items PROVE comments'[j] # <<>> => versions'[j] # <<>>
      BY <1>1 DEF Inv, TypeOK
    <3>2. comments' \in [Items -> Seq(ItemComment)]
      BY <1>1 DEF Inv, TypeOK
    <3> QED
      BY <1>1, <3>1, <3>2 DEF Inv, TypeOK
  <2> QED
    BY <1>1, <2>1, SameWorkflowKeeps DEF Workflow
<1>2. CASE Comment(i, u)
  <2> DEFINE e == [status |-> "open", reply |-> FALSE]
  <2>1. Append(comments[i], e) \in Seq(ItemComment)
    BY <1>0, AppendProperties DEF ItemComment
  <2>2. versions[i] # <<>>
    <3>1. Len(versions[i]) # 0
      BY <1>0, <1>2 DEF Comment, RowsOf, IsSnapshot
    <3> QED
      BY <1>0, <3>1, EmptySeq DEF RowsOf
  <2> QED
    BY <1>1, <1>2, <2>1, <2>2 DEF Comment
<1>3. ASSUME NEW c \in DOMAIN comments[i], NEW d \in SuggestionDecision,
             ProcessSuggestionDecision(i, u, c, d)
      PROVE  Inv'
  <2> DEFINE e == [status |-> "resolved", reply |-> d.rationale]
             cs == [comments[i] EXCEPT ![c] = e]
  <2>1. e \in ItemComment
    BY DEF ItemComment, SuggestionDecision
  <2>2. cs \in Seq(ItemComment)
    BY <1>0, <2>1, ExceptSeq
  <2>3. versions[i] # <<>>
    <3>1. comments[i] # <<>>
      BY EmptySeq
    <3> QED
      BY <3>1 DEF Inv, TypeOK
  <2>4. comments' = [comments EXCEPT ![i] = cs]
        /\ UNCHANGED <<item, versions, log, votes, stored, retag, retags>>
    BY <1>3 DEF ProcessSuggestionDecision
  <2> HIDE DEF cs
  <2> QED
    BY <1>1, <2>2, <2>3, <2>4
<1> QED
  BY <1>2, <1>3 DEF DecideSuggestion

LEMMA UploadKeeps ==
  ASSUME Inv, NEW a \in Assets, UploadAsset(a)
  PROVE  Inv'
<1>1. stored' = stored \cup {a} /\ UNCHANGED <<item, versions, log, votes, comments, retag, retags>>
  BY DEF UploadAsset, ProcessAssetUpload
<1>2. TypeOK'
  BY <1>1 DEF Inv, TypeOK
<1> QED
  BY <1>1, <1>2, SameWorkflowKeeps DEF Workflow

-----------------------------------------------------------------------------
(* Bulk re-tags.                                                           *)

LEMMA ReadForRetagKeeps ==
  ASSUME Inv, BulkRetag
  PROVE  Inv'
<1>1. PICK is \in SUBSET Items, t \in Topics : ReadForRetag(is, t)
  BY DEF BulkRetag, BulkRetagRequest
<1>2. /\ retag' = [rows |-> [i \in is |-> item[i]], topic |-> t]
      /\ retags' = retags + 1 /\ retags < MaxRetags
      /\ UNCHANGED <<item, versions, log, votes, comments, stored>>
  BY <1>1 DEF ReadForRetag
<1>3. retags' \in 0 .. MaxRetags /\ retags' > 0
  BY <1>2 DEF Inv, TypeOK
<1>4. TypeOK'
  BY <1>2, <1>3 DEF Inv, TypeOK
<1>5. Retagging'
  BY <1>2, <1>3 DEF Retagging
<1>6. SnapshotIsCurrent'
  BY <1>2, <1>3 DEF Inv, SnapshotIsCurrent, IsSnapshot
<1> QED
  BY <1>2, <1>4, <1>5, <1>6 DEF Inv, Unborn, Exists, HistoryIsPath, PanelDecides

\* Only tags are written, and no tag is taken away.
LEMMA WriteRetagKeeps ==
  ASSUME Inv, WriteRetag
  PROVE  Inv'
<1>1. /\ retag # NoRetag /\ retag' = NoRetag
      /\ UNCHANGED <<versions, log, votes, comments, stored, retags>>
  BY DEF WriteRetag
<1>2. PICK t \in [DOMAIN retag.rows -> Topics \cup {Blank}] :
        /\ \A i \in DOMAIN t : t[i] \in NewTopics(i)
        /\ item' = [i \in Items |-> IF i \in DOMAIN t THEN TagsOnly(i, t[i]) ELSE item[i]]
  BY DEF WriteRetag
<1>3. retag.topic \in Topics /\ retags > 0 /\ item \in [Items -> Item]
  BY <1>1 DEF Inv, Retagging, TypeOK
<1>4. ASSUME NEW i \in Items
      PROVE  /\ item'[i] \in Item /\ item'[i].status = item[i].status
             /\ item'[i].current = item[i].current
             /\ item[i].topic # Blank => item'[i].topic # Blank
  <2>1. CASE i \in DOMAIN t
    <3>1. item'[i] = [item[i] EXCEPT !.topic = t[i]]
      BY <1>2, <2>1 DEF TagsOnly
    <3>2. t[i] \in Topics \cup {Blank} /\ (item[i].topic # Blank => t[i] # Blank)
      BY <1>2, <1>3, <2>1 DEF NewTopics, Blank
    <3>3. item[i] \in Item
      BY <1>3
    <3> QED
      BY <3>1, <3>2, <3>3 DEF Item
  <2>2. CASE i \notin DOMAIN t
    BY <1>2, <1>3, <2>2
  <2> QED
    BY <2>1, <2>2
<1>5. item' \in [Items -> Item]
  BY <1>2, <1>4
<1>6. TypeOK'
  BY <1>1, <1>5 DEF Inv, TypeOK, NoRetag
<1>7. SnapshotIsCurrent'
  BY <1>1, <1>3, <1>4 DEF Inv, SnapshotIsCurrent, IsSnapshot, HasMandatoryMetadata
<1>8. Unborn' /\ HistoryIsPath' /\ PanelDecides'
  BY <1>1, <1>4 DEF Inv, Unborn, Exists, HistoryIsPath, PanelDecides
<1>9. Retagging'
  BY <1>1 DEF Retagging
<1> QED
  BY <1>6, <1>7, <1>8, <1>9 DEF Inv

-----------------------------------------------------------------------------
(* The theorems.                                                           *)

LEMMA InitHolds == Init => Inv
<1> SUFFICES ASSUME Init PROVE Inv
  OBVIOUS
<1> USE DEF Init
<1>1. ASSUME NEW S PROVE <<>> \in Seq(S) /\ Len(<<>>) = 0 /\ DOMAIN <<>> = {}
  BY EmptySeq
<1>2. NoItem \in Item /\ NoItem.status = "none" /\ NoItem.current = 0
  <2>1. 0 \in 0 .. MaxVersions
    OBVIOUS
  <2> QED
    BY <2>1 DEF NoItem, Item
<1>3. item \in [Items -> Item] /\ versions \in [Items -> Seq(ItemVersion)]
      /\ log \in [Items -> Seq(ItemTransition)] /\ comments \in [Items -> Seq(ItemComment)]
      /\ votes \in [Items -> [Users -> PanelVote]]
  BY <1>1, <1>2 DEF PanelVote
<1>4. retags \in 0 .. MaxRetags /\ DOMAIN retag.rows \subseteq Items /\ ~(retags > 0)
  BY <1>1 DEF NoRetag
<1>5. TypeOK
  BY <1>1, <1>3, <1>4 DEF TypeOK
<1>6. Unborn /\ Retagging
  BY DEF Unborn, Retagging
<1>7. HistoryIsPath
  BY <1>1, <1>2 DEF HistoryIsPath, IsHistory
<1>8. PanelDecides
  <2>1. ASSUME NEW vote, vote # "none", NEW i \in Items PROVE Count(votes[i], vote) = 0
    <3>1. {u \in Users : votes[i][u] = vote} = {}
      BY <2>1
    <3> QED
      BY <3>1, FS_EmptySet DEF Count
  <2>2. \A i \in Items : Count(votes[i], "Approve") = 0 /\ Count(votes[i], "Reject") = 0
    BY <2>1
  <2>3. \A i \in Items : item[i].status = "none"
    BY <1>2
  <2>4. ASSUME NEW i \in Items PROVE IsDecision(votes[i], item[i].status)
    <3> HIDE DEF Init
    <3>1. ~(Count(votes[i], "Approve") >= 2) /\ ~(Count(votes[i], "Reject") >= 2)
      BY <2>2, <2>4
    <3>2. item[i].status # "Locked for Use" /\ item[i].status # "Rejected"
      BY <2>3, <2>4
    <3> QED
      BY <3>1, <3>2 DEF IsDecision
  <2> HIDE DEF Init
  <2> QED
    BY <2>4 DEF PanelDecides
<1>9. SnapshotIsCurrent
  BY <1>1, <1>2 DEF SnapshotIsCurrent, IsSnapshot
<1> QED
  BY <1>5, <1>6, <1>7, <1>8, <1>9 DEF Inv

LEMMA StepHolds == Inv /\ [Next]_vars => Inv'
<1> SUFFICES ASSUME Inv, [Next]_vars PROVE Inv'
  OBVIOUS
<1>1. ASSUME NEW i \in Items, NEW u \in Users,
             \/ Create(i, u) \/ PartialUpdate(i, u) \/ Restore(i, u)
      PROVE  Inv'
  BY <1>1, VersionStepsKeep
<1>2. ASSUME NEW i \in Items, NEW u \in Users, Submit(i, u) \/ Transition(i, u) \/ Vote(i, u)
      PROVE  Inv'
  BY <1>2, WorkflowStepsKeep
<1>3. ASSUME NEW i \in Items, NEW u \in Users, Comment(i, u) \/ DecideSuggestion(i, u)
      PROVE  Inv'
  BY <1>3, CommentStepsKeep
<1>4. ASSUME NEW a \in Assets, UploadAsset(a) PROVE Inv'
  BY <1>4, UploadKeeps
<1>5. CASE BulkRetag
  BY <1>5, ReadForRetagKeeps
<1>6. CASE WriteRetag
  BY <1>6, WriteRetagKeeps
<1>7. CASE UNCHANGED vars
  BY <1>7 DEF vars, Inv, TypeOK, Unborn, Exists, Retagging, HistoryIsPath, PanelDecides,
              SnapshotIsCurrent
<1> QED
  BY <1>1, <1>2, <1>3, <1>4, <1>5, <1>6, <1>7 DEF Next

LEMMA InvHolds == Spec => []Inv
<1> QED
  BY InitHolds, StepHolds, PTL DEF Spec

\* The state keeps its types; the rows of items, versions, transitions, votes and
\* comments are those the tables may hold, and what a version refers to is stored.
THEOREM TypeCorrect == Spec => []TypeOK
<1>1. Inv => TypeOK
  BY DEF Inv
<1> QED
  BY <1>1, InvHolds, PTL

\* The transitions of an item are a path of the workflow from Draft to its
\* status: apps/itembank/services.py moves the status and writes the row together,
\* and the bulk re-tag, which reads before it locks, writes no status.
THEOREM HistoryHolds == Spec => []HistoryIsPath
<1>1. Inv => HistoryIsPath
  BY DEF Inv
<1> QED
  BY <1>1, InvHolds, PTL

\* Two votes to approve lock an item, two to reject reject it, and there are
\* never both: register_panel_vote takes no vote once it is decided.
THEOREM PanelHolds == Spec => []PanelDecides
<1>1. Inv => PanelDecides
  BY DEF Inv
<1> QED
  BY <1>1, InvHolds, PTL

\* The row of an item has its latest version as the current one and that
\* version's metadata, but for bulk re-tags; out of the writer's hands it is complete.
THEOREM SnapshotHolds == Spec => []SnapshotIsCurrent
<1>1. Inv => SnapshotIsCurrent
  BY DEF Inv
<1> QED
  BY <1>1, InvHolds, PTL

-----------------------------------------------------------------------------
(* What is out of the writer's hands.                                      *)

Frozen(i) ==
  /\ Exists(i) /\ item[i].status \notin Editable
       => versions'[i] = versions[i] /\ item'[i].current = item[i].current
  /\ item[i].status \in Decided => item'[i].status = item[i].status

\* Only the writer's own requests record a version, and none moves an item that
\* the panel has decided on.
LEMMA StepFreezes ==
  ASSUME Inv, NEW j \in Items, [Next]_vars
  PROVE  Frozen(j)
<1>0. item \in [Items -> Item] /\ versions \in [Items -> Seq(ItemVersion)]
  BY DEF Inv, TypeOK
<1>1. ASSUME NEW i \in Items, ~Exists(i) \/ item[i].status \in Editable, NEW row, NEW refs,
             Record(i, row, refs)
      PROVE  Frozen(j)
  <2>1. CASE j = i
    BY <1>1, <2>1 DEF Frozen, Exists, Editable, Decided
  <2>2. CASE j # i
    BY <1>0, <1>1, <2>2 DEF Record, Frozen
  <2> QED
    BY <2>1, <2>2
<1>2. ASSUME NEW i \in Items, NEW row, row.current = item[i].current, row \in Item, NEW path,
             Move(i, row, path), UNCHANGED versions, item[i].status \notin Decided
      PROVE  Frozen(j)
  <2>1. /\ item'[j].current = item[j].current
        /\ item[j].status \in Decided => item'[j].status = item[j].status
    <3>1. CASE j = i
      BY <1>0, <1>2, <3>1 DEF Move, Item
    <3>2. CASE j # i
      BY <1>0, <1>2, <3>2 DEF Move
    <3> QED
      BY <3>1, <3>2
  <2> QED
    BY <1>2, <2>1 DEF Frozen
<1>3. ASSUME UNCHANGED <<item, versions>> PROVE Frozen(j)
  BY <1>3 DEF Frozen
<1>4. ASSUME NEW i \in Items, NEW u \in Users, Create(i, u) PROVE Frozen(j)
  BY <1>1, <1>4 DEF Create, CreateItemDraft
<1>5. ASSUME NEW i \in Items, NEW u \in Users, PartialUpdate(i, u) PROVE Frozen(j)
  BY <1>1, <1>5 DEF PartialUpdate, UpdateItemDraft, CanEdit
<1>6. ASSUME NEW i \in Items, NEW u \in Users, Restore(i, u) PROVE Frozen(j)
  BY <1>1, <1>6 DEF Restore, RestoreItemVersion, CanEdit
<1>7. ASSUME NEW i \in Items, NEW u \in Users, Submit(i, u) PROVE Frozen(j)
  <2>1. item[i].status \notin Decided
    BY <1>7 DEF Submit, SubmitItemForReview, CanEdit, Editable, Decided
  <2> QED
    BY <1>0, <1>2, <1>7, <2>1 DEF Submit, SubmitItemForReview
<1>8. ASSUME NEW i \in Items, NEW u \in Users, Transition(i, u) PROVE Frozen(j)
  <2>1. PICK r \in ItemTransitionRequest : TransitionItem(i, u, r.target, r.reviewer)
    BY <1>8 DEF Transition
  <2> DEFINE row == [item[i] EXCEPT !.reviewer = IF r.target = "In Review" THEN r.reviewer ELSE @]
  <2>2. r.reviewer \in Users \cup {Nobody} /\ item[i] \in Item
    BY <1>0 DEF ItemTransitionRequest
  <2>3. row \in Item /\ row.current = item[i].current
    BY <2>2 DEF Item
  <2>4. Move(i, row, <<r.target>>) /\ UNCHANGED versions
    BY <2>1 DEF TransitionItem
  <2>5. item[i].status \notin Decided
    BY <2>1 DEF TransitionItem, MayTransition, Decided
  <2> HIDE DEF row
  <2> QED
    BY <1>2, <2>3, <2>4, <2>5
<1>9. ASSUME NEW i \in Items, NEW u \in Users, Vote(i, u) PROVE Frozen(j)
  <2>1. PICK vote \in PanelVote : RegisterPanelVote(i, u, vote)
    BY <1>9 DEF Vote
  <2>2. UNCHANGED versions /\ (UNCHANGED item \/ \E path : Move(i, item[i], path))
    BY <2>1 DEF RegisterPanelVote
  <2>3. item[i].status \notin Decided
    BY <2>1 DEF RegisterPanelVote, Decided
  <2> QED
    BY <1>0, <1>2, <1>3, <2>2, <2>3
<1>10. ASSUME NEW i \in Items, NEW u \in Users, Comment(i, u) \/ DecideSuggestion(i, u)
       PROVE  Frozen(j)
  BY <1>3, <1>10 DEF Comment, DecideSuggestion, ProcessSuggestionDecision
<1>11. ASSUME NEW a \in Assets, UploadAsset(a) PROVE Frozen(j)
  BY <1>3, <1>11 DEF UploadAsset, ProcessAssetUpload
<1>12. CASE BulkRetag
  BY <1>3, <1>12 DEF BulkRetag, ReadForRetag
<1>13. CASE WriteRetag
  <2>1. PICK t : item' = [i \in Items |-> IF i \in DOMAIN t THEN TagsOnly(i, t[i]) ELSE item[i]]
    BY <1>13 DEF WriteRetag
  <2>2. item[j] \in Item /\ UNCHANGED versions
    BY <1>0, <1>13 DEF WriteRetag
  <2>3. item'[j].current = item[j].current /\ item'[j].status = item[j].status
    BY <2>1, <2>2 DEF TagsOnly, Item
  <2> QED
    BY <2>2, <2>3 DEF Frozen
<1>14. CASE UNCHANGED vars
  BY <1>3, <1>14 DEF vars
<1> QED
  BY <1>4, <1>5, <1>6, <1>7, <1>8, <1>9, <1>10, <1>11, <1>12, <1>13, <1>14 DEF Next

\* Once handed in, an item keeps its versions and its current one until it comes
\* back for revision: no other operation of apps/itembank/services.py writes them.
\* A decision of the panel stands, whatever was read before it: the bulk re-tag
\* writes the tags only.
THEOREM FrozenHolds == Spec => ContentIsFrozen
<1> DEFINE Step == \A i \in Items :
             /\ Exists(i) /\ item[i].status \notin Editable
                  => versions'[i] = versions[i] /\ item'[i].current = item[i].current
             /\ item[i].status \in Decided => item'[i].status = item[i].status
<1>1. Inv /\ [Next]_vars => Step
  BY StepFreezes DEF Frozen
<1> HIDE DEF Step
<1>2. Spec => [][Step]_vars
  BY <1>1, InvHolds, PTL DEF Spec
<1> QED
  BY <1>2 DEF ContentIsFrozen, Step

-----------------------------------------------------------------------------
(* The lifecycle.                                                          *)

\* The statuses, seen from outside.
LEMMA StagesAre ==
  /\ StageOf("none") = "none" /\ StageOf("Draft") = "draft" /\ StageOf("Revised") = "revision"
  /\ \A s \in {"Submitted", "In Review", "Reviewed"} : StageOf(s) = "review"
  /\ StageOf("Moderation Panel") = "panel"
  /\ \A s \in Decided : StageOf(s) = s
BY DEF StageOf, Decided

\* Whoever reads one of the other items sees no difference.
LEMMA OneIsSeen ==
  ASSUME NEW i \in Items,
         \A j \in Items \ {i} : item'[j] = item[j] /\ versions'[j] = versions[j]
  PROVE  /\ Stages' = [Stages EXCEPT ![i] = StageOf(item'[i].status)]
         /\ Contents' = [Contents EXCEPT ![i] = Contents'[i]]
         /\ Tags' = [Tags EXCEPT ![i] = Tags'[i]]
BY DEF Stages, Contents, Tags

\* A version is written.
LEMMA RecordWrites ==
  ASSUME Inv, NEW i \in Items, NEW row \in Item, NEW refs, Record(i, row, refs),
         \/ item[i].status = "none" /\ row.status = "Draft"
         \/ item[i].status \in Editable /\ row.status = item[i].status
  PROVE  Lifecycle!Write(i)
<1>1. item \in [Items -> Item] /\ versions \in [Items -> Seq(ItemVersion)]
  BY DEF Inv, TypeOK
<1> DEFINE r == [row EXCEPT !.current = Len(versions[i]) + 1]
<1>2. r.status = row.status
  BY DEF Item
<1>3. item' = [item EXCEPT ![i] = r]
  BY DEF Record
<1> HIDE DEF r
<1>4. /\ item'[i].status = row.status
      /\ \A j \in Items \ {i} : item'[j] = item[j] /\ versions'[j] = versions[j]
  BY <1>1, <1>2, <1>3 DEF Record
<1>5. /\ Stages' = [Stages EXCEPT ![i] = StageOf(row.status)]
      /\ Contents' = [Contents EXCEPT ![i] = Contents'[i]]
      /\ Tags' = [Tags EXCEPT ![i] = Tags'[i]]
  BY <1>4, OneIsSeen
<1>6. Stages[i] = StageOf(item[i].status)
  BY DEF Stages
<1>7. /\ Stages[i] \in {"draft", "revision", "none"}
      /\ StageOf(row.status) = IF Stages[i] = "none" THEN "draft" ELSE Stages[i]
  BY <1>6, StagesAre DEF Editable
<1> QED
  BY <1>5, <1>7 DEF Lifecycle!Write, Lifecycle!Written

\* A status moves: the item stays in the same hands, or passes into others.
LEMMA MovePasses ==
  ASSUME Inv, NEW i \in Items, NEW row \in Item, NEW path, Move(i, row, path),
         row.current = item[i].current, row.topic = item[i].topic, item[i].topic \in Topics,
         UNCHANGED versions, NEW t, t = path[Len(path)],
         \/ StageOf(t) = StageOf(item[i].status)
         \/ <<StageOf(item[i].status), StageOf(t)>> \in Lifecycle!Ways
  PROVE  Lifecycle!Pass(i) \/ UNCHANGED Lifecycle!vars
<1>1. item \in [Items -> Item] /\ versions \in [Items -> Seq(ItemVersion)]
  BY DEF Inv, TypeOK
<1> DEFINE r == [row EXCEPT !.status = t]
<1>2. r.status = t /\ r.current = item[i].current /\ r.topic = item[i].topic
  BY DEF Item
<1>3. item' = [item EXCEPT ![i] = r]
  BY DEF Move
<1> HIDE DEF r
<1>4. /\ item'[i].status = t /\ item'[i].current = item[i].current
      /\ item'[i].topic = item[i].topic
      /\ \A j \in Items \ {i} : item'[j] = item[j] /\ versions'[j] = versions[j]
  BY <1>1, <1>2, <1>3
<1>5. UNCHANGED <<Contents, Tags>>
  <2>1. \A j \in Items : item'[j].current = item[j].current /\ item'[j].topic = item[j].topic
    BY <1>4
  <2> QED
    BY <2>1 DEF Contents, Tags
<1>6. /\ Stages' = [Stages EXCEPT ![i] = StageOf(t)]
      /\ Stages[i] = StageOf(item[i].status) /\ Tags[i] = item[i].topic
  BY <1>4, OneIsSeen DEF Stages, Tags
<1>7. CASE StageOf(t) = StageOf(item[i].status)
  <2>1. UNCHANGED Stages
    BY <1>6, <1>7 DEF Stages
  <2> QED
    BY <1>5, <2>1 DEF Lifecycle!vars
<1>8. CASE <<StageOf(item[i].status), StageOf(t)>> \in Lifecycle!Ways
  <2> DEFINE w == <<StageOf(item[i].status), StageOf(t)>>
  <2>1. w \in Lifecycle!Ways /\ w[1] = Stages[i] /\ Stages' = [Stages EXCEPT ![i] = w[2]]
    BY <1>6, <1>8
  <2> HIDE DEF w
  <2> QED
    BY <1>5, <1>6, <2>1 DEF Lifecycle!Pass
<1> QED
  BY <1>7, <1>8

\* Who reads an item sees no other column of it.
LEMMA NothingIsSeen ==
  ASSUME UNCHANGED <<item, versions>>
  PROVE  UNCHANGED Lifecycle!vars
BY DEF Lifecycle!vars, Stages, Contents, Tags

-----------------------------------------------------------------------------
\* Every operation is a step of the lifecycle, or changes nothing a reader sees.
LEMMA VersionStepsWrite ==
  ASSUME Inv, NEW i \in Items, NEW u \in Users, Create(i, u) \/ PartialUpdate(i, u) \/ Restore(i, u)
  PROVE  Lifecycle!Write(i)
<1>0. RowsOf(i)
  BY ItemRows
<1>1. ASSUME NEW d \in ItemDraft, CreateItemDraft(i, u, d) PROVE Lifecycle!Write(i)
  <2> DEFINE row == [status |-> "Draft", author |-> u, reviewer |-> Nobody,
                     topic |-> d.topic, current |-> 0]
  <2>0. d.topic \in Topics \cup {Blank} /\ 0 \in 0 .. MaxVersions
    BY DEF ItemDraft
  <2>1. row \in Item /\ row.status = "Draft"
    BY <2>0 DEF Item, Statuses
  <2>2. item[i].status = "none" /\ Record(i, row, d.refs)
    BY <1>1 DEF CreateItemDraft, Exists
  <2> HIDE DEF row
  <2> QED
    BY <2>1, <2>2, RecordWrites
<1>2. ASSUME NEW topic \in Topics \cup {Blank}, NEW refs, CanEdit(i, u),
             Record(i, [item[i] EXCEPT !.topic = topic], refs)
      PROVE  Lifecycle!Write(i)
  <2> DEFINE row == [item[i] EXCEPT !.topic = topic]
  <2>1. row \in Item /\ row.status = item[i].status /\ item[i].status \in Editable
    BY <1>0, <1>2 DEF RowsOf, Item, CanEdit
  <2>2. Record(i, row, refs)
    BY <1>2
  <2> HIDE DEF row
  <2> QED
    BY <2>1, <2>2, RecordWrites
<1>3. ASSUME NEW d \in ItemDraft, UpdateItemDraft(i, u, d) PROVE Lifecycle!Write(i)
  BY <1>2, <1>3 DEF UpdateItemDraft, ItemDraft
<1>4. ASSUME NEW v \in DOMAIN versions[i], RestoreItemVersion(i, u, v) PROVE Lifecycle!Write(i)
  <2>1. versions[i][v] \in ItemVersion
    BY <1>0, ElementOfSeq, LenProperties DEF RowsOf
  <2> QED
    BY <1>2, <1>4, <2>1 DEF RestoreItemVersion, ItemVersion
<1> QED
  BY <1>1, <1>3, <1>4 DEF Create, PartialUpdate, Restore

LEMMA WorkflowStepsPass ==
  ASSUME Inv, NEW i \in Items, NEW u \in Users, Submit(i, u) \/ Transition(i, u) \/ Vote(i, u)
  PROVE  Lifecycle!Pass(i) \/ UNCHANGED Lifecycle!vars
<1>0. RowsOf(i)
  BY ItemRows
<1>1. /\ item[i] \in Item
      /\ item[i].status \notin Editable /\ item[i].status # "none" => item[i].topic \in Topics
  BY <1>0 DEF RowsOf, IsSnapshot, HasMandatoryMetadata, Item
<1>2. ASSUME SubmitItemForReview(i, u) PROVE Lifecycle!Pass(i) \/ UNCHANGED Lifecycle!vars
  <2> DEFINE t == IF item[i].status = "Draft" THEN "Submitted" ELSE "Moderation Panel"
             path == <<t>>
  <2>1. /\ item[i].status \in {"Draft", "Revised"} /\ item[i].topic # Blank
        /\ Move(i, item[i], path) /\ UNCHANGED versions
    BY <1>2 DEF SubmitItemForReview, CanEdit, Editable, HasMandatoryMetadata
  <2>2. <<StageOf(item[i].status), StageOf(t)>> \in Lifecycle!Ways
    BY <2>1, StagesAre DEF Lifecycle!Ways
  <2>3. path[Len(path)] = t
    OBVIOUS
  <2>4. item[i].topic \in Topics
    BY <1>1, <2>1 DEF Item
  <2> HIDE DEF t, path
  <2> QED
    BY <1>1, <2>1, <2>2, <2>3, <2>4, MovePasses
<1>3. ASSUME NEW r \in ItemTransitionRequest, TransitionItem(i, u, r.target, r.reviewer)
      PROVE  Lifecycle!Pass(i) \/ UNCHANGED Lifecycle!vars
  <2> DEFINE row == [item[i] EXCEPT !.reviewer = IF r.target = "In Review" THEN r.reviewer ELSE @]
             path == <<r.target>>
  <2>1. /\ r.target \in {"In Review", "Reviewed", "Revised"} /\ r.reviewer \in Users \cup {Nobody}
        /\ Move(i, row, path) /\ UNCHANGED versions
    BY <1>3 DEF TransitionItem, ItemTransitionRequest
  <2>2. /\ row \in Item /\ row.topic = item[i].topic /\ row.current = item[i].current
    BY <1>1, <2>1 DEF Item
  <2>3. item[i].status \in {"Submitted", "In Review", "Reviewed"}
    BY <1>3 DEF TransitionItem, MayTransition
  <2>4. item[i].topic \in Topics
    BY <1>1, <2>3 DEF Editable
  <2>5. \/ StageOf(r.target) = StageOf(item[i].status)
        \/ <<StageOf(item[i].status), StageOf(r.target)>> \in Lifecycle!Ways
    BY <2>1, <2>3, StagesAre DEF Lifecycle!Ways
  <2>6. path[Len(path)] = r.target
    OBVIOUS
  <2> HIDE DEF row, path
  <2> QED
    BY <2>1, <2>2, <2>4, <2>5, <2>6, MovePasses
<1>4. ASSUME NEW vote \in PanelVote \ {"none"}, RegisterPanelVote(i, u, vote)
      PROVE  Lifecycle!Pass(i) \/ UNCHANGED Lifecycle!vars
  <2> DEFINE path == Outcome([votes[i] EXCEPT ![u] = vote])
  <2>1. /\ item[i].status = "Moderation Panel" /\ UNCHANGED versions
        /\ UNCHANGED item \/ Move(i, item[i], path)
        /\ path = <<>> => UNCHANGED item
    BY <1>4 DEF RegisterPanelVote
  <2>2. path = <<>> \/ (path[Len(path)] \in Decided)
    BY DEF Outcome, Decided
  <2> HIDE DEF path
  <2>3. item[i].topic \in Topics
    BY <1>1, <2>1 DEF Editable
  <2>4. CASE UNCHANGED item
    BY <2>1, <2>4, NothingIsSeen
  <2>5. CASE Move(i, item[i], path) /\ path[Len(path)] \in Decided
    <3>1. <<StageOf(item[i].status), StageOf(path[Len(path)])>> \in Lifecycle!Ways
      BY <2>1, <2>5, StagesAre DEF Lifecycle!Ways, Decided
    <3> QED
      BY <1>1, <2>1, <2>3, <2>5, <3>1, MovePasses
  <2> QED
    BY <2>1, <2>2, <2>4, <2>5
<1> QED
  BY <1>2, <1>3, <1>4 DEF Submit, Transition, Vote

\* The copy that was read is used for the tags only.
LEMMA WriteRetagRetags ==
  ASSUME Inv, WriteRetag
  PROVE  Lifecycle!Retag
<1>1. retag # NoRetag /\ UNCHANGED versions
  BY DEF WriteRetag
<1>2. PICK t \in [DOMAIN retag.rows -> Topics \cup {Blank}] :
        /\ \A i \in DOMAIN t : t[i] \in NewTopics(i)
        /\ item' = [i \in Items |-> IF i \in DOMAIN t THEN TagsOnly(i, t[i]) ELSE item[i]]
  BY DEF WriteRetag
<1>3. retag.topic \in Topics /\ item \in [Items -> Item]
  BY <1>1 DEF Inv, Retagging, TypeOK
<1>4. ASSUME NEW i \in Items
      PROVE  /\ item'[i].status = item[i].status /\ item'[i].current = item[i].current
             /\ item'[i].topic \in Topics \cup {item[i].topic}
  <2>1. CASE i \in DOMAIN t
    <3>1. item'[i] = [item[i] EXCEPT !.topic = t[i]]
      BY <1>2, <2>1 DEF TagsOnly
    <3>2. t[i] \in Topics \cup {item[i].topic}
      BY <1>2, <1>3, <2>1 DEF NewTopics
    <3>3. item[i] \in Item
      BY <1>3
    <3> QED
      BY <3>1, <3>2, <3>3 DEF Item
  <2>2. CASE i \notin DOMAIN t
    BY <1>2, <1>3, <2>2
  <2> QED
    BY <2>1, <2>2
<1>5. UNCHANGED <<Stages, Contents>>
  BY <1>1, <1>4 DEF Stages, Contents
<1>6. \A i \in Items : Tags'[i] \in Topics \cup {Tags[i]}
  BY <1>4 DEF Tags
<1> QED
  BY <1>5, <1>6 DEF Lifecycle!Retag

LEMMA LifecycleStep ==
  Inv /\ [Next]_vars => [Lifecycle!Next]_(Lifecycle!vars)
<1> SUFFICES ASSUME Inv, [Next]_vars
             PROVE  Lifecycle!Next \/ UNCHANGED Lifecycle!vars
  OBVIOUS
<1>1. ASSUME NEW i \in Items, NEW u \in Users,
             \/ Create(i, u) \/ PartialUpdate(i, u) \/ Restore(i, u)
      PROVE  Lifecycle!Next
  BY <1>1, VersionStepsWrite DEF Lifecycle!Next
<1>2. ASSUME NEW i \in Items, NEW u \in Users, Submit(i, u) \/ Transition(i, u) \/ Vote(i, u)
      PROVE  Lifecycle!Next \/ UNCHANGED Lifecycle!vars
  BY <1>2, WorkflowStepsPass DEF Lifecycle!Next
<1>3. ASSUME NEW i \in Items, NEW u \in Users, Comment(i, u) \/ DecideSuggestion(i, u)
      PROVE  UNCHANGED Lifecycle!vars
  BY <1>3, NothingIsSeen DEF Comment, DecideSuggestion, ProcessSuggestionDecision
<1>4. ASSUME NEW a \in Assets, UploadAsset(a) PROVE UNCHANGED Lifecycle!vars
  BY <1>4, NothingIsSeen DEF UploadAsset, ProcessAssetUpload
<1>5. CASE BulkRetag
  BY <1>5, NothingIsSeen DEF BulkRetag, ReadForRetag
<1>6. CASE WriteRetag
  BY <1>6, WriteRetagRetags DEF Lifecycle!Next
<1>7. CASE UNCHANGED vars
  BY <1>7, NothingIsSeen DEF vars
<1> QED
  BY <1>1, <1>2, <1>3, <1>4, <1>5, <1>6, <1>7 DEF Next

\* apps/itembank implements ItemLifecycle: whatever requests and bulk re-tags
\* come between one another, a reader sees an item pass from hand to hand, its
\* content change in its writer's hands only, and no tag of it get lost.
THEOREM ImplementsLifecycle == Spec => LifecycleSpec
<1>1. Init => Lifecycle!Init
  <2> SUFFICES ASSUME Init PROVE Stages = [i \in Items |-> "none"]
    BY DEF Lifecycle!Init
  <2>1. \A i \in Items : StageOf(item[i].status) = "none"
    BY StagesAre DEF Init, NoItem
  <2> QED
    BY <2>1 DEF Stages
<1>2. Spec => [][Lifecycle!Next]_(Lifecycle!vars)
  BY LifecycleStep, InvHolds, PTL DEF Spec
<1> QED
  BY <1>1, <1>2 DEF Spec, LifecycleSpec, Lifecycle!Spec

=============================================================================
