------------------------ MODULE PlanMaterialization ------------------------
(* What a model proposes becomes a plan the kernel runs: the checks of
   objective_fidelity.py, of the mapping in interaction_cognition.py and of
   planning.py, in the order in which a compound request meets them. Everything
   here is a function of its arguments; PlanSequence runs what comes out.

   A card offers an action with the names of its arguments. Arguments are a
   sequence of <<name, value>>, in the order the model wrote them. A step names the
   earlier steps it rests on. A span is <<start, end>>, its end excluded.        *)
EXTENDS Naturals, Sequences, FiniteSets, Functions

CONSTANT TimeNames   \* the argument names that end in "_at"

Rejected == [steps |-> <<>>]
Nowhere == <<0, 0>>

-----------------------------------------------------------------------------
(* The second reading of the utterance                                       *)

\* places: where in the utterance each text stands. A citation that does not fit
\* is put right only when the text stands in one place.
Located(effect, places) ==
  IF effect.span \in places[effect.text] THEN effect.span
  ELSE IF Cardinality(places[effect.text]) = 1
       THEN CHOOSE s \in places[effect.text] : TRUE ELSE Nowhere

Spans(citations, places) == [i \in DOMAIN citations |-> Located(citations[i], places)]
Grounded(citations, places) ==
  LET spans == Spans(citations, places) IN Nowhere \notin Range(spans) /\ IsInjective(spans)

Overlap(s, t) == s[1] < t[2] /\ t[1] < s[2]

\* Fault: an effect may speak for several anchors.
EveryAnchorHasSome(spans, anchors, length) ==
  /\ spans # <<>>
  /\ \A a \in Range(anchors) : \E s \in Range(spans) : Overlap(a, s)
\* one anchor of the parser for each effect and one effect for each anchor, none of
\* several effects being the whole utterance
StructurallyCovered(spans, anchors, length) ==
  /\ Len(spans) = Len(anchors) /\ Len(spans) > 0
  /\ IsInjective(spans) /\ IsInjective(anchors)
  /\ \A a \in Range(anchors) : a[1] < a[2] /\ a[2] <= length
  /\ Len(anchors) > 1 => <<0, length>> \notin Range(spans)
  /\ \A a \in Range(anchors) : Cardinality({s \in Range(spans) : Overlap(a, s)}) = 1
  /\ \A s \in Range(spans) : Cardinality({a \in Range(anchors) : Overlap(a, s)}) = 1

Names(arguments) == {a[1] : a \in Range(arguments)}
WithinCard(proposed, cards) ==
  \E c \in Range(cards) : c.action = proposed.action /\ Names(proposed.arguments) \subseteq c.names

\* a requirement for each effect, each within a card
Mapped(mapping, citations, cards) ==
  Len(mapping) = Len(citations) /\ \A i \in DOMAIN mapping : WithinCard(mapping[i], cards)

\* two requirements are the same when action and arguments are, in whatever order
KeyOfAction(proposed) == <<proposed.action, Range(proposed.arguments)>>
RequirementKeys(requirements) == {KeyOfAction(q) : q \in Range(requirements)}
Repeats(requirements) == Cardinality(RequirementKeys(requirements)) # Len(requirements)

Verdict(proposed, independent) ==
  LET left == RequirementKeys(proposed)
      right == RequirementKeys(independent)
  IN CASE Repeats(proposed) \/ Repeats(independent) -> "NEED_CLARIFICATION"
       [] left = right -> "COMPLETE"
       [] right \subseteq left -> "MISSING_REQUIREMENT"
       [] left \subseteq right -> "EXTRA_REQUIREMENT"
       [] OTHER -> "NEED_CLARIFICATION"

-----------------------------------------------------------------------------
(* The plan                                                                  *)

RestsOnEarlier(steps, i) ==
  Range(steps[i].after) \subseteq 1..(i - 1) /\ IsInjective(steps[i].after)

\* where a value is used for a time, and the use before that: the later of two
\* overwrites what is remembered of the earlier
Uses(steps, v) ==
  {u \in UNION {{i} \X DOMAIN steps[i].arguments : i \in DOMAIN steps} :
     LET given == steps[u[1]].arguments[u[2]] IN given[1] \in TimeNames /\ given[2] = v}
Before(t, u) == t[1] < u[1] \/ (t[1] = u[1] /\ t[2] < u[2])
Latest(uses) == CHOOSE u \in uses : \A t \in uses \ {u} : Before(t, u)
NameAt(steps, u) == steps[u[1]].arguments[u[2]][1]
SharesTime(steps) ==
  \E v \in UNION {{a[2] : a \in Range(steps[i].arguments)} : i \in DOMAIN steps} :
    \E u \in Uses(steps, v) :
      LET earlier == {t \in Uses(steps, v) : Before(t, u)}
          last == Latest(earlier)
      IN earlier # {} /\ last[1] # u[1] /\ NameAt(steps, last) # NameAt(steps, u)

Proposable(steps, cards) ==
  /\ \A c, d \in DOMAIN cards : cards[c].action = cards[d].action => c = d
  /\ \A i \in DOMAIN steps : RestsOnEarlier(steps, i) /\ WithinCard(steps[i], cards)
  /\ ~SharesTime(steps)

Meets(step, requirement) == KeyOfAction(step) = KeyOfAction(requirement)

\* the requirements that the first i steps leave over
LeftOver(steps, requirements, i) ==
  {q \in DOMAIN requirements : \A j \in 1..i : ~Meets(steps[j], requirements[q])}

NoCycles(steps) ==
  \A S \in SUBSET DOMAIN steps \ {{}} : \E i \in S : Range(steps[i].after) \cap S = {}

\* every step meets a requirement that no earlier one did, and none is left over
Exact(steps, requirements) ==
  /\ Len(steps) = Len(requirements) /\ ~Repeats(requirements)
  /\ \A i \in DOMAIN steps :
       \E q \in LeftOver(steps, requirements, i - 1) : Meets(steps[i], requirements[q])
  /\ LeftOver(steps, requirements, Len(steps)) = {}
  /\ NoCycles(steps)

Actions(steps) == [i \in DOMAIN steps |-> steps[i].action]

\* a plan without requirements runs its actions one after another; what depends on
\* what is not kept
MaterializedPlan(steps, cards) ==
  IF ~Proposable(steps, cards) THEN Rejected
  ELSE [steps |-> Actions(steps), bound |-> FALSE, depends |-> [i \in DOMAIN steps |-> {}],
        meets |-> [i \in DOMAIN steps |-> i], requires |-> {}, wanted |-> {}, units |-> 0]
ValidatedPlan(steps, requirements, cards) ==
  IF ~Proposable(steps, cards) \/ ~Exact(steps, requirements) THEN Rejected
  ELSE [steps |-> Actions(steps), bound |-> TRUE,
        depends |-> [i \in DOMAIN steps |-> Range(steps[i].after)],
        meets |-> [i \in DOMAIN steps |-> CHOOSE q \in LeftOver(steps, requirements, i - 1) :
                                            Meets(steps[i], requirements[q])],
        requires |-> DOMAIN requirements, wanted |-> {}, units |-> 0]

-----------------------------------------------------------------------------
(* From a proposal to the plan                                               *)

\* p: what the decision holds (steps, requirements), what the second reading found
\* (effects, mapping), and what the parser says of the utterance (anchors)
FaithfulReading(p, utterance, cards) ==
  /\ Grounded(p.effects, utterance.places)
  /\ StructurallyCovered(Spans(p.effects, utterance.places), utterance.anchors, utterance.length)
  /\ Mapped(p.mapping, p.effects, cards)
  /\ Verdict(p.requirements, p.mapping) = "COMPLETE"
\* wanted and units are noted for the properties: for each effect that the second
\* reading found, the steps that are this effect, and into how many units the parser
\* took the utterance apart
Wanted(steps, mapping) == {{i \in DOMAIN steps : Meets(steps[i], q)} : q \in Range(mapping)}
PlanOf(p, utterance, cards) ==
  LET made == ValidatedPlan(p.steps, p.requirements, cards) IN
  IF ~FaithfulReading(p, utterance, cards) \/ made = Rejected THEN Rejected
  ELSE [made EXCEPT !.wanted = Wanted(p.steps, p.mapping), !.units = Len(utterance.anchors)]
=============================================================================
