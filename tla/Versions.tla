------------------------------ MODULE Versions ------------------------------
(***************************************************************************)
(* Numbers that are given by looking for the last one: the versions of a   *)
(* subject's blueprint, one at a time, and the variants of a paper, a batch*)
(* at a time.                                                              *)
(*                                                                         *)
(* Nothing is locked while the last number is looked for.  Two requests may*)
(* find the same one, and the unique index decides between them: an insert *)
(* of a number that an open transaction has inserted waits for its end, and*)
(* fails, with all that was inserted before it, when the number is taken.  *)
(***************************************************************************)
EXTENDS Integers, Sequences

CONSTANTS
  SubjectCodes, \* subjects with blueprints
  PaperIds,     \* papers with variants
  Authors,      \* requests at a time
  BatchSizes,   \* how many variants a request asks for
  MaxNumber     \* bound: numbers given in a series

ASSUME VersionsAssumption ==
  /\ SubjectCodes \cap PaperIds = {}
  /\ BatchSizes \subseteq Nat \ {0}
  /\ MaxNumber \in Nat

VARIABLES
  rows,    \* per series: the numbers of its rows, in the order of their commits
  author   \* per request: its open transaction

versionVars == <<rows, author>>

Series == SubjectCodes \cup PaperIds

-----------------------------------------------------------------------------
\* The request read the last number and is to insert "count" numbers after it,
\* of which it has inserted "made".
Batch == [series : Series, last : Nat, count : Nat \ {0}, made : Nat]

NoBatch == [series |-> CHOOSE s \in Series : TRUE, last |-> 0, count |-> 1, made |-> -1]

VersionsInit ==
  /\ rows = [s \in Series |-> <<>>]
  /\ author = [a \in Authors |-> NoBatch]

Numbers(s) == {rows[s][i] : i \in DOMAIN rows[s]}

\* Inserted, and neither committed nor undone.
Inserted(a) == IF author[a] = NoBatch THEN {}
               ELSE author[a].last + 1 .. author[a].last + author[a].made

-----------------------------------------------------------------------------
\* The newest row: order_by("-version_no"), order_by("-variant_no").
LastNumber(s) == IF rows[s] = <<>> THEN 0
                 ELSE CHOOSE n \in Numbers(s) : \A k \in Numbers(s) : k <= n

BeginBatch(a, s, count) ==
  /\ author[a] = NoBatch
  /\ LastNumber(s) + count <= MaxNumber
  /\ author' = [author EXCEPT ![a] =
       [series |-> s, last |-> LastNumber(s), count |-> count, made |-> 0]]
  /\ UNCHANGED rows

\* POST blueprints/{subject}/: publish_blueprint_version
PublishBlueprintVersion(a, s) == s \in SubjectCodes /\ BeginBatch(a, s, 1)

\* POST papers/{id}/variants/: generate_variants
GenerateVariants(a, p, count) == p \in PaperIds /\ BeginBatch(a, p, count)

NextNumber(a) == author[a].last + author[a].made + 1

MoreToMake(a) == author[a] # NoBatch /\ author[a].made < author[a].count

\* Mutant: no unique index.
NeverTaken(a) == FALSE

\* The unique indexes of BlueprintVersion and Variant.
Taken(a) == NextNumber(a) \in Numbers(author[a].series)

Awaited(a) ==
  \E b \in Authors \ {a} :
    /\ author[b] # NoBatch /\ author[b].series = author[a].series
    /\ NextNumber(a) \in Inserted(b)

InsertRow(a) ==
  /\ MoreToMake(a)
  /\ ~Taken(a) /\ ~Awaited(a)
  /\ author' = [author EXCEPT ![a].made = @ + 1]
  /\ UNCHANGED rows

\* An IntegrityError nobody catches: the whole batch is undone.
LoseRace(a) ==
  /\ MoreToMake(a)
  /\ Taken(a)
  /\ author' = [author EXCEPT ![a] = NoBatch]
  /\ UNCHANGED rows

CommitBatch(a) ==
  /\ author[a] # NoBatch /\ author[a].made = author[a].count
  /\ rows' = [rows EXCEPT ![author[a].series] =
       @ \o [i \in 1 .. author[a].count |-> author[a].last + i]]
  /\ author' = [author EXCEPT ![a] = NoBatch]

\* The worker dies, and its transaction is rolled back.
DieNumbering(a) ==
  /\ author[a] # NoBatch
  /\ author' = [author EXCEPT ![a] = NoBatch]
  /\ UNCHANGED rows

-----------------------------------------------------------------------------
VersionsNext ==
  \E a \in Authors :
    \/ \E s \in Series :
         \/ PublishBlueprintVersion(a, s)
         \/ \E count \in BatchSizes : GenerateVariants(a, s, count)
    \/ InsertRow(a) \/ LoseRace(a) \/ CommitBatch(a) \/ DieNumbering(a)

VersionsSpec == VersionsInit /\ [][VersionsNext]_versionVars

-----------------------------------------------------------------------------
(* Properties.                                                             *)

\* publish_blueprint_version and generate_variants number what they make 1, 2,
\* 3 and so on in the order of the commits: no number is missing, given twice
\* or given to a later batch than the next one, whoever looked at the same time
\* and whoever failed.
NumbersAreConsecutive ==
  \A s \in Series : \A i \in DOMAIN rows[s] : rows[s][i] = i
=============================================================================
