------------------------------- MODULE MCPlan -------------------------------
(* Two requests over the plans that are made of a handful of proposals: for "put
   milk and rice on the list, and when the milk is there add a chore", a compound
   request of three effects; and for two actions without requirements.          *)
EXTENDS PlanSequence, SequencesExt, TLC
CONSTANTS r1, r2, a, b
MCRequests == {r1, r2}
Cards == <<[action |-> a, names |-> {"item", "due_at"}], [action |-> b, names |-> {"item", "ends_at"}]>>

Do(action, item) == [action |-> action, arguments |-> <<<<"item", item>>>>]
Upon(proposed, after) == proposed @@ [after |-> after]
Cite(text, span) == [text |-> text, span |-> span]
Milk == Do(a, "milk")
Rice == Do(a, "rice")
Chore == Do(b, "chore")

Compound == [length |-> 9,
             places |-> [t \in {"milk", "rice", "chore", "all"} |->
                           CASE t = "milk" -> {<<0, 2>>, <<6, 7>>} [] t = "rice" -> {<<3, 5>>}
                             [] t = "chore" -> {<<7, 9>>} [] OTHER -> {<<0, 9>>}],
             anchors |-> <<<<0, 1>>, <<3, 4>>, <<8, 9>>>>]
Cited == <<Cite("milk", <<0, 2>>), Cite("rice", <<3, 5>>), Cite("chore", <<0, 0>>)>>

Proposal(steps, requirements, cited, mapping) ==
  [steps |-> steps, requirements |-> requirements, effects |-> cited, mapping |-> mapping]
All == <<Milk, Rice, Chore>>
Three == <<Upon(Milk, <<>>), Upon(Rice, <<>>), Upon(Chore, <<1>>)>>
\* as it should be, with the effects in another order, and in the ways in which it
\* may be wrong: all of these but the two are refused
Proposals == {
  Proposal(Three, All, Cited, All),
  Proposal(Three, All, Cited, <<Chore, Milk, Rice>>),
  Proposal(<<Three[1], Three[1], Three[3]>>, All, Cited, All),
  Proposal(<<Upon(Milk, <<3>>), Three[2], Three[3]>>, All, Cited, All),
  Proposal(<<Three[1], Upon(Rice, <<1, 1>>), Three[3]>>, All, Cited, All),
  Proposal(<<Three[1], Three[3]>>, <<Milk, Chore>>, <<Cited[1], Cited[3]>>, <<Milk, Chore>>),
  Proposal(<<Three[1], Three[3]>>, <<Milk, Chore>>, Cited, All),
  Proposal(<<Three[1]>>, <<Milk>>, <<Cite("all", <<0, 9>>)>>, <<Milk>>),
  Proposal(Three, All, <<Cite("milk", <<1, 3>>), Cited[2], Cited[3]>>, All),
  Proposal(<<Three[1], Three[2], Upon([Chore EXCEPT !.action = "unknown"], <<1>>)>>, All, Cited, All),
  Proposal(<<Upon([Milk EXCEPT !.arguments = <<<<"due_at", "friday">>>>], <<>>),
             Upon([Chore EXCEPT !.arguments = <<<<"ends_at", "friday">>>>], <<>>)>>,
           All, Cited, All)}

Made ==
  ({PlanOf(p, Compound, Cards) : p \in Proposals}
    \cup {MaterializedPlan(<<Upon(Milk, <<>>), Upon(Chore, <<>>)>>, Cards)}) \ {Rejected}

MadeInTurn == SetToSeq(Made)
\* a name for it: what a cfg assigns is evaluated at every use
MCPlans == MadeInTurn
\* two readings of one request, each a bound plan
Reading(x) == ValidatedPlan(<<Upon(Do(x, "milk"), <<>>)>>, <<Do(x, "milk")>>, Cards)
MCReadings == <<Reading(a), Reading(b)>>
\* the policy may refuse the second action
MCRefusals == a :> {} @@ b :> {"BLOCKED"}
Symmetry == Permutations(MCRequests)
=============================================================================
