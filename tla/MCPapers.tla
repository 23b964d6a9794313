------------------------------ MODULE MCPapers ------------------------------
(* An instance of Papers for TLC.                                          *)
EXTENDS Papers, TLC

CONSTANTS i1, i2, i3, i4, i5, s1, s2, s3, tort, trusts, easy, hard

Row(locked, topic, difficulty, marks) ==
  [locked |-> locked, subject |-> "law", topic |-> topic,
   difficulty |-> difficulty, marks |-> marks, time |-> 1]

\* Two pairs that each make a paper, and an item too small for either.
ABank == (i1 :> Row(TRUE, tort, easy, 1000)) @@ (i2 :> Row(TRUE, trusts, hard, 1000))
      @@ (i3 :> Row(TRUE, tort, hard, 1000)) @@ (i4 :> Row(FALSE, trusts, easy, 1000))
      @@ (i5 :> Row(TRUE, tort, easy, 400))

Tagged(subject, topic, difficulty) ==
  [subject |-> subject, topic |-> topic, difficulty |-> difficulty]

SomeUpdates == {Tagged("law", trusts, hard), Tagged("law", tort, easy),
                Tagged("ethics", tort, hard)}

Half == [topics |-> (tort :> 50) @@ (trusts :> 40), sections |-> 2]
ABlueprint == "half" :> Half

Sections(is) == {[items |-> {i}, marks |-> Bank[i].marks] : i \in is}

Manual(s, is, sections, blueprint) ==
  [sitting |-> s, subject |-> "law", total |-> MarksOf(is), time |-> 2, items |-> is,
   sections |-> sections, blueprint |-> blueprint]

SomeManual ==
  {Manual(s, is, {}, "none") : s \in {s1, s2, s3}, is \in {{i1, i2}, {i1, i5}}}
    \cup {Manual(s1, {i1, i2}, Sections({i1}), "half"),
          Manual(s1, {i1, i2}, Sections({i1, i2}), "half"), Manual(s1, {}, {}, "none")}

Rule(s, variants, total) ==
  [sitting |-> s, subject |-> "law", total |-> total, time |-> 3,
   difficulty |-> (easy :> 50) @@ (hard :> 50),
   topic |-> (tort :> 50) @@ (trusts :> 50),
   blueprint |-> "none", variants |-> variants]

\* An odd total has shares that are rounded up to more than the whole.
SomeRules == {Rule(s2, 2, 2000), Rule(s3, 1, 1999), Rule(s3, 1, 2500), Rule(s1, 0, 2000)}
=============================================================================
