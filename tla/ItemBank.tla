------------------------------ MODULE ItemBank ------------------------------
(***************************************************************************)
(* apps/itembank: how an examination item is written, reviewed and decided *)
(* (SRS-NBE-F02-01 to F02-06).                                             *)
(*                                                                         *)
(* The writer saves drafts, each of them a numbered version; the           *)
(* secretariat assigns a reviewer; the writer revises; a panel votes, and  *)
(* two equal votes lock the item for use or reject it.  All of these lock  *)
(* the item's row before they read it.  Administrators re-tag items in     *)
(* bulk, whatever their status, and that operation reads before it locks:  *)
(* it is split there.                                                      *)
(*                                                                         *)
(* The topic of an item stands for its metadata; it is Blank as long as a  *)
(* mandatory field, maybe another one, is missing.                         *)
(***************************************************************************)
EXTENDS Integers, FiniteSets, Sequences

CONSTANTS
  Items,        \* the items that may be created
  Users,        \* the accounts
  Secretariat,  \* those with role nbec_secretariat, administrator, super_admin
  Writers,      \* those with permission item:create
  Conflicted,   \* pairs of a user and an item with an approved conflict of interest
  Topics,       \* the tags
  Assets,       \* the files that may be uploaded
  MaxVersions,  \* bound: versions of an item
  MaxComments,  \* bound: comments on an item
  MaxRetags,    \* bound: bulk re-tags
  Nobody        \* not a user

ASSUME ItemBankAssumption ==
  /\ IsFiniteSet(Users)
  /\ Secretariat \subseteq Users /\ Writers \subseteq Users
  /\ Conflicted \subseteq Users \X Items
  /\ MaxVersions \in Nat /\ MaxComments \in Nat /\ MaxRetags \in Nat
  /\ Nobody \notin Users
  /\ "blank" \notin Topics

VARIABLES
  item,      \* the itembank_item rows
  versions,  \* per item: its itembank_itemversion rows by version_no
  log,       \* per item: its itembank_itemtransition rows in order
  votes,     \* per item and user: the panel_vote row
  comments,  \* per item: its itembank_itemcomment rows
  stored,    \* the assets in the vault's storage
  retag,     \* the bulk re-tag under way: the rows it has read and the topic
  retags     \* how many bulk re-tags there were

vars == <<item, versions, log, votes, comments, stored, retag, retags>>

-----------------------------------------------------------------------------
(* Rows.                                                                   *)

Statuses == {"Draft", "Submitted", "In Review", "Reviewed", "Revised",
             "Moderation Panel", "Approved", "Rejected", "Locked for Use"}

\* The statuses in which the writer may still change the item.
Editable == {"Draft", "Revised"}

Blank == "blank"

Item == [status : Statuses \cup {"none"}, author : Users \cup {Nobody},
         reviewer : Users \cup {Nobody}, topic : Topics \cup {Blank},
         current : 0..MaxVersions]

ItemVersion == [topic : Topics \cup {Blank}, refs : SUBSET Assets]

ItemTransition == Statuses \X Statuses

\* A comment on one of the versions, and whether it was answered with a rationale.
ItemComment == [status : {"open", "resolved"}, reply : BOOLEAN]

\* What a panel_vote row may say: the column's choices are checked by no one.
PanelVote == {"none", "Approve", "Reject", "accept"}

NoItem == [status |-> "none", author |-> Nobody, reviewer |-> Nobody,
           topic |-> Blank, current |-> 0]

NoRetag == [rows |-> <<>>, topic |-> Blank]

Init ==
  /\ item = [i \in Items |-> NoItem]
  /\ versions = [i \in Items |-> <<>>]
  /\ log = [i \in Items |-> <<>>]
  /\ votes = [i \in Items |-> [u \in Users |-> "none"]]
  /\ comments = [i \in Items |-> <<>>]
  /\ stored = {}
  /\ retag = NoRetag
  /\ retags = 0

Exists(i) == item[i].status # "none"

-----------------------------------------------------------------------------
(* Services: drafts and versions.                                          *)

\* What ItemDraftSerializer lets through: every field may be blank, and leaving
\* one out is giving it the value it has.
ItemDraft == [topic : Topics \cup {Blank}, refs : SUBSET stored]

\* A new version takes a snapshot of the item's row and becomes the current one.
Record(i, row, refs) ==
  /\ Len(versions[i]) < MaxVersions
  /\ versions' = [versions EXCEPT ![i] =
       Append(@, [topic |-> row.topic, refs |-> refs])]
  /\ item' = [item EXCEPT ![i] = [row EXCEPT !.current = Len(versions[i]) + 1]]
  /\ UNCHANGED <<log, votes, comments, stored, retag, retags>>

\* create_or_update_item_draft without an item_id.
CreateItemDraft(i, u, d) ==
  /\ ~Exists(i)
  /\ Record(i, [status |-> "Draft", author |-> u, reviewer |-> Nobody,
                topic |-> d.topic, current |-> 0], d.refs)

\* Mutant: the writer can still edit what the panel is voting on.
CanEditLater(i, u) ==
  /\ item[i].author = u
  /\ item[i].status \in Editable \cup {"Moderation Panel"}

\* Drafts and revisions are changed by their author, and by nobody else.
CanEdit(i, u) ==
  /\ item[i].author = u
  /\ item[i].status \in Editable

\* create_or_update_item_draft with one: setattr for what the payload gives.
UpdateItemDraft(i, u, d) ==
  /\ CanEdit(i, u)
  /\ Record(i, [item[i] EXCEPT !.topic = d.topic], d.refs)

\* Mutant: the row keeps its metadata.
RestoreContent(i, u, v) ==
  /\ CanEdit(i, u)
  /\ Len(versions[i]) < MaxVersions
  /\ versions' = [versions EXCEPT ![i] = Append(@, @[v])]
  /\ item' = [item EXCEPT ![i].current = Len(versions[i]) + 1]
  /\ UNCHANGED <<log, votes, comments, stored, retag, retags>>

\* An old version is copied to the end, and the item's metadata goes back to its
\* snapshot.
RestoreItemVersion(i, u, v) ==
  /\ CanEdit(i, u)
  /\ LET old == versions[i][v] IN
       Record(i, [item[i] EXCEPT !.topic = old.topic], old.refs)

\* The scanner does not like a file, runs for ten seconds, or is not there.
ScanForViruses == {"clean", "infected", "timeout", "unavailable"}

\* What is clean goes to the vault's storage, and the writer gets a reference.
ProcessAssetUpload(a, verdict) ==
  /\ verdict = "clean"
  /\ stored' = stored \cup {a}
  /\ UNCHANGED <<item, versions, log, votes, comments, retag, retags>>

-----------------------------------------------------------------------------
(* Services: the workflow.                                                 *)

HasMandatoryMetadata(row) == row.topic # Blank

\* The ItemTransition rows of a status that moves along path.
Steps(status, path) ==
  [k \in 1..Len(path) |-> <<IF k = 1 THEN status ELSE path[k - 1], path[k]>>]

\* A row whose status does so.
Move(i, row, path) ==
  /\ item' = [item EXCEPT ![i] = [row EXCEPT !.status = path[Len(path)]]]
  /\ log' = [log EXCEPT ![i] = @ \o Steps(row.status, path)]

\* A draft goes to peer review, a revision to the panel.
SubmitItemForReview(i, u) ==
  /\ CanEdit(i, u)
  /\ HasMandatoryMetadata(item[i])
  /\ Move(i, item[i], IF item[i].status = "Draft" THEN <<"Submitted">>
                                                  ELSE <<"Moderation Panel">>)
  /\ UNCHANGED <<versions, votes, comments, stored, retag, retags>>

\* _assert_no_reviewer_conflict.
NoReviewerConflict(r, i) == <<r, i>> \notin Conflicted

\* Who may take an item from its status to the next: the secretariat assigns a
\* reviewer, the reviewer or the secretariat ends the review, and the author
\* begins the revision.
MayTransition(i, u, target, reviewer) ==
  \/ /\ item[i].status = "Submitted" /\ target = "In Review"
     /\ u \in Secretariat
     /\ reviewer \notin {Nobody, item[i].author}
     /\ NoReviewerConflict(reviewer, i)
  \/ /\ item[i].status = "In Review" /\ target = "Reviewed"
     /\ u = item[i].reviewer \/ u \in Secretariat
  \/ /\ item[i].status = "Reviewed" /\ target = "Revised"
     /\ u = item[i].author

TransitionItem(i, u, target, reviewer) ==
  /\ MayTransition(i, u, target, reviewer)
  /\ Move(i, [item[i] EXCEPT !.reviewer = IF target = "In Review" THEN reviewer
                                                                  ELSE @],
          <<target>>)
  /\ UNCHANGED <<versions, votes, comments, stored, retag, retags>>

\* The author accepts or declines a suggestion; a rationale is kept as a reply.
ProcessSuggestionDecision(i, u, c, decision) ==
  /\ item[i].author = u
  /\ item[i].status \in {"In Review", "Revised"}
  /\ comments[i][c].status = "open"
  /\ comments' = [comments EXCEPT ![i][c] =
                    [status |-> "resolved", reply |-> decision.rationale]]
  /\ UNCHANGED <<item, versions, log, votes, stored, retag, retags>>

Count(ballots, vote) == Cardinality({u \in Users : ballots[u] = vote})

\* Mutant: the second vote to approve is not counted, only a third.
OutcomeOfThree(ballots) ==
  IF Count(ballots, "Approve") > 2 THEN <<"Approved", "Locked for Use">>
  ELSE IF Count(ballots, "Reject") >= 2 THEN <<"Rejected">>
  ELSE <<>>

\* Two equal votes decide.
Outcome(ballots) ==
  IF Count(ballots, "Approve") >= 2 THEN <<"Approved", "Locked for Use">>
  ELSE IF Count(ballots, "Reject") >= 2 THEN <<"Rejected">>
  ELSE <<>>

\* One vote of each panellist, with a justification of thirty words.
RegisterPanelVote(i, u, vote) ==
  LET ballots == [votes[i] EXCEPT ![u] = vote] IN
  /\ item[i].status = "Moderation Panel"
  /\ votes[i][u] = "none"
  /\ votes' = [votes EXCEPT ![i] = ballots]
  /\ IF Outcome(ballots) = <<>>
       THEN UNCHANGED <<item, log>>
       ELSE Move(i, item[i], Outcome(ballots))
  /\ UNCHANGED <<versions, comments, stored, retag, retags>>

\* bulk_retag_items reads the rows of the items it was given,
ReadForRetag(is, t) ==
  /\ retag = NoRetag /\ retags < MaxRetags
  /\ is # {} /\ \A i \in is : Exists(i)
  /\ retag' = [rows |-> [i \in is |-> item[i]], topic |-> t]
  /\ retags' = retags + 1
  /\ UNCHANGED <<item, versions, log, votes, comments, stored>>

\* Mutant: item.save(), which writes every column as it was read.
WholeRow(i, t) == [retag.rows[i] EXCEPT !.topic = t]

\* save(update_fields=[the tags]): the other columns are left alone.
TagsOnly(i, t) == [item[i] EXCEPT !.topic = t]

\* The tags given need not be all that is missing.
NewTopics(i) == {retag.topic} \cup ({Blank} \cap {item[i].topic})

\* and writes them, whoever has written since.
WriteRetag ==
  /\ retag # NoRetag
  /\ \E t \in [DOMAIN retag.rows -> Topics \cup {Blank}] :
       /\ \A i \in DOMAIN t : t[i] \in NewTopics(i)
       /\ item' = [i \in Items |-> IF i \in DOMAIN t THEN TagsOnly(i, t[i]) ELSE item[i]]
  /\ retag' = NoRetag
  /\ UNCHANGED <<versions, log, votes, comments, stored, retags>>

-----------------------------------------------------------------------------
(* The endpoints: who may call them, and with what.                        *)

\* ItemAuthoringViewSet: permission item:create for everything but transition.
MayAuthor(u) == u \in Writers

Create(i, u) == MayAuthor(u) /\ \E d \in ItemDraft : CreateItemDraft(i, u, d)

PartialUpdate(i, u) == MayAuthor(u) /\ \E d \in ItemDraft : UpdateItemDraft(i, u, d)

Restore(i, u) ==
  MayAuthor(u) /\ \E v \in DOMAIN versions[i] : RestoreItemVersion(i, u, v)

Submit(i, u) == MayAuthor(u) /\ SubmitItemForReview(i, u)

ItemTransitionRequest == [target : {"In Review", "Reviewed", "Revised"},
                          reviewer : Users \cup {Nobody}]

\* Permission item:search, which reviewers have too.
Transition(i, u) ==
  \E r \in ItemTransitionRequest : TransitionItem(i, u, r.target, r.reviewer)

\* A comment on the current version, whatever the item's status.
Comment(i, u) ==
  /\ MayAuthor(u)
  /\ item[i].current # 0
  /\ Len(comments[i]) < MaxComments
  /\ comments' = [comments EXCEPT ![i] =
       Append(@, [status |-> "open", reply |-> FALSE])]
  /\ UNCHANGED <<item, versions, log, votes, stored, retag, retags>>

\* Who declines has to say why.
SuggestionDecision == {d \in [accept : BOOLEAN, rationale : BOOLEAN] :
                         d.accept \/ d.rationale}

DecideSuggestion(i, u) ==
  /\ MayAuthor(u)
  /\ \E c \in DOMAIN comments[i], d \in SuggestionDecision :
       ProcessSuggestionDecision(i, u, c, d)

\* Any text will do for a vote.
Vote(i, u) ==
  MayAuthor(u) /\ \E vote \in PanelVote \ {"none"} : RegisterPanelVote(i, u, vote)

UploadAsset(a) == \E verdict \in ScanForViruses : ProcessAssetUpload(a, verdict)

\* Items and tags, none of them blank.
BulkRetagRequest == (SUBSET Items \ {{}}) \X Topics

BulkRetag == \E r \in BulkRetagRequest : ReadForRetag(r[1], r[2])

-----------------------------------------------------------------------------
Next ==
  \/ \E i \in Items, u \in Users :
       \/ Create(i, u)
       \/ PartialUpdate(i, u)
       \/ Restore(i, u)
       \/ Submit(i, u)
       \/ Transition(i, u)
       \/ Comment(i, u)
       \/ DecideSuggestion(i, u)
       \/ Vote(i, u)
  \/ \E a \in Assets : UploadAsset(a)
  \/ BulkRetag
  \/ WriteRetag

Spec == Init /\ [][Next]_vars

-----------------------------------------------------------------------------
(* Properties.                                                             *)

\* The state keeps its types; comments have a version to be about, and
\* asset references point to files that exist.
TypeOK ==
  /\ item \in [Items -> Item]
  /\ versions \in [Items -> Seq(ItemVersion)]
  /\ log \in [Items -> Seq(ItemTransition)]
  /\ votes \in [Items -> [Users -> PanelVote]]
  /\ comments \in [Items -> Seq(ItemComment)]
  /\ stored \subseteq Assets
  /\ retags \in 0..MaxRetags
  /\ DOMAIN retag.rows \subseteq Items
  /\ \A i \in Items :
       /\ comments[i] # <<>> => versions[i] # <<>>
       /\ \A v \in DOMAIN versions[i] : versions[i][v].refs \subseteq stored

\* The workflow of SRS-NBE-F02-04.
Edges == {<<"Draft", "Submitted">>, <<"Submitted", "In Review">>,
          <<"In Review", "Reviewed">>, <<"Reviewed", "Revised">>,
          <<"Revised", "Moderation Panel">>, <<"Moderation Panel", "Approved">>,
          <<"Moderation Panel", "Rejected">>, <<"Approved", "Locked for Use">>}

IsHistory(h, status) ==
  /\ \A k \in DOMAIN h : h[k] \in Edges /\ h[k][1] = IF k = 1 THEN "Draft" ELSE h[k - 1][2]
  /\ status # "none" => status = IF h = <<>> THEN "Draft" ELSE h[Len(h)][2]

\* The transitions of an item are an unbroken path of the workflow from Draft to
\* its status, whatever else wrote the row meanwhile.  Reports and the review
\* SLA read the history, everything else the status.
HistoryIsPath == \A i \in Items : IsHistory(log[i], item[i].status)

IsDecision(ballots, status) ==
  /\ status = "Locked for Use" <=> Count(ballots, "Approve") >= 2
  /\ status = "Rejected" <=> Count(ballots, "Reject") >= 2
  /\ ~(Count(ballots, "Approve") >= 2 /\ Count(ballots, "Reject") >= 2)

\* An item is locked for use exactly if two of the panel approved it, rejected
\* exactly if two rejected it, and never both: the vote that decides is the last.
PanelDecides == \A i \in Items : IsDecision(votes[i], item[i].status)

\* v are the versions of an item with this row, which may have been re-tagged.
IsSnapshot(v, row, retagged) ==
  /\ row.current = Len(v)
  /\ row.status # "none" =>
       /\ v # <<>>
       /\ v[Len(v)].topic = row.topic \/ retagged
       /\ row.status \in Editable \/ HasMandatoryMetadata(row)

\* What a reader of the item sees is its latest version: that is the current
\* one, and its snapshot is the item's metadata, the topic excepted if there was
\* a bulk re-tag.  Out of the writer's hands it is complete.
SnapshotIsCurrent == \A i \in Items : IsSnapshot(versions[i], item[i], retags > 0)

Decided == {"Rejected", "Locked for Use"}

\* Once the writer has handed an item in, its content stays as it is until it
\* comes back for revision: what the reviewer reads and the panel votes on is
\* what candidates get.  And what the panel has decided stands, though a bulk
\* re-tag may write a row that was read before: Papers takes its items from
\* those that are locked, and for it a lock is for good.
ContentIsFrozen ==
  [][\A i \in Items :
       /\ Exists(i) /\ item[i].status \notin Editable
            => versions'[i] = versions[i] /\ item'[i].current = item[i].current
       /\ item[i].status \in Decided => item'[i].status = item[i].status]_vars

-----------------------------------------------------------------------------
(* What those who read an item see of it.                                  *)

StageOf(status) ==
  CASE status = "Draft"                                   -> "draft"
    [] status \in {"Submitted", "In Review", "Reviewed"}  -> "review"
    [] status = "Revised"                                 -> "revision"
    [] status \in {"Moderation Panel", "Approved"}        -> "panel"
    [] OTHER                                              -> status

Stages   == [i \in Items |-> StageOf(item[i].status)]
Contents == [i \in Items |-> [versions |-> versions[i], current |-> item[i].current]]
Tags     == [i \in Items |-> item[i].topic]

Lifecycle == INSTANCE ItemLifecycle WITH
  Complete <- Topics,
  stage    <- Stages,
  content  <- Contents,
  tags     <- Tags

\* An item goes from hand to hand one way, though a bulk re-tag writes a row it
\* has read before: out of the writer's hands its content stays as it is, it is
\* never incomplete again, and what the panel has decided stands.
LifecycleSpec == Lifecycle!Spec

=============================================================================
