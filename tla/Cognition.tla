------------------------------ MODULE Cognition ------------------------------
(* decide_fallback of src/aegis/interaction_cognition.py: what Aegis does with a
   request that no deterministic path understands. It is a pipeline of calls to a
   model whose answers are not trusted: any of them can be malformed, can name
   any decision the decoder accepts, or can fail. Between the calls stand a
   structural parser of the utterance, bounded repairs, and a comparison of a
   plan with an independent reading of the request.

   Text is abstracted to what the code asks of it; a decision to its kind and to
   the parts that later stages look at.                                        *)
EXTENDS Naturals

CONSTANTS
  Utterances,   \* requests: what the matchers, the parser and the cards make of them
  Setups        \* how the runtime is wired: its parser, and if it can do research

ASSUME CognitionAssumption ==
  /\ \A u \in Utterances :
       /\ u.cards \in {"none", "read", "write", "both"}
       /\ u.anchors \in 0..2
       /\ \A flag \in {"negated", "conjunction", "fresh", "question", "mutation",
                       "evidence", "rewritable", "multiple"} : u[flag] \in BOOLEAN
  /\ Setups \subseteq [parser : {"none", "broken", "works"}, research : BOOLEAN]

VARIABLES
  utterance, setup,
  stage,      \* the stage of the pipeline that is next
  mode,       \* the semantic mode of the classification
  decision,   \* the decision there is so far
  verdict,    \* what the independent reading made of the plan
  repairing,  \* which proposal the repair loop works on, and its attempts left
  modelCalls, \* calls made to the model
  returned    \* what decide_fallback returned

thought == <<mode, decision, verdict, repairing>>
cognitionVars == <<utterance, setup, stage, thought, modelCalls, returned>>

-----------------------------------------------------------------------------
(* Decisions                                                                 *)

NoDecision == [kind |-> "none"]
Plain(kind) == [kind |-> kind]
Action(write, arguments) == [kind |-> "ACTION", write |-> write, arguments |-> arguments]

HasWrites == utterance.cards \in {"write", "both"}
HasReads == utterance.cards \in {"read", "both"}
WriteChoices == {w \in BOOLEAN : (w => HasWrites) /\ (~w => HasReads)}

Answers == [kind : {"ANSWER"}, source : {"model", "external"}]
Questions == [kind : {"CLARIFY", "NEED_CONTEXT"}]
Actions == [kind : {"ACTION"}, write : WriteChoices, arguments : BOOLEAN]
Plans == IF utterance.cards = "none" THEN {} ELSE [kind : {"PLAN"}, spec : BOOLEAN]
\* everything StrictDecisionDecoder.decode lets through for the request's cards
Decodable == Answers \cup Questions \cup Actions \cup Plans
\* and for the card of the decision alone
Focused ==
  Answers \cup Questions \cup Plans
    \cup [kind : {"ACTION"}, write : {decision.write}, arguments : BOOLEAN]

CognitionInit ==
  /\ utterance \in Utterances /\ setup \in Setups
  /\ stage = IF utterance.cards = "none" THEN "route" ELSE "classify"
  /\ mode = "none"
  /\ decision = NoDecision
  /\ verdict = "none"
  /\ repairing = [of |-> "none", left |-> 0]
  /\ modelCalls = 0
  /\ returned = NoDecision

\* a call of the resident model, or of the stronger one that repairs may have
Call == modelCalls' = modelCalls + 1
Silently == UNCHANGED modelCalls
To(s) == stage' = s /\ UNCHANGED returned
Return(d) == stage' = "returned" /\ returned' = d
Keeping == UNCHANGED thought
Decide(d) == decision' = d /\ UNCHANGED <<mode, verdict, repairing>>
\* InvalidDecision, and any other exception
Invalid == To("recover")
ModelUnavailable == Return(Plain("FAILED"))
\* a repair loop is entered with its budget of attempts
Repair(what, attempts) == repairing' = [of |-> what, left |-> attempts]

\* Fault: an attempt that fails differently is not counted.
Uncounted(left) == left
Counted(left) == left - 1
\* the same failure again ends a loop; after another it goes on, to its budget
Again(s) ==
  /\ repairing.left > 1 /\ To(s)
  /\ Repair(repairing.of, Counted(repairing.left))
  /\ UNCHANGED <<mode, decision, verdict>>
\* one attempt: the model is given the failure and the proposal that it had
Attempt(s) == stage = s /\ Call

-----------------------------------------------------------------------------
(* The structural parser                                                     *)

Plural == setup.parser = "works" /\ utterance.anchors > 1
\* _structural_write_failure gives a reason, or raises when the parser does
Unaccounted(d) ==
  /\ d.kind = "ACTION" /\ d.write
  /\ setup.parser = "works" => utterance.negated \/ utterance.anchors # 1
ParserBreaks(d) == d.kind = "ACTION" /\ d.write /\ setup.parser = "broken"
Conjoined(d) == d.kind = "ACTION" /\ d.write /\ utterance.conjunction

-----------------------------------------------------------------------------
(* Knowledge: answers and their sources                                      *)

Classify ==
  /\ stage = "classify" /\ Call
  /\ \/ \E m \in {"ACTION", "GENERATION", "READ", "none"} :
          /\ mode' = m
          /\ To(IF m \in {"GENERATION", "READ"} THEN "source" ELSE "route")
          /\ UNCHANGED <<decision, verdict, repairing>>
     \* the only card is named by the classification itself, which is reused
     \/ \E d \in Actions :
          /\ utterance.cards # "both"
          /\ IF ParserBreaks(d) THEN Invalid
             ELSE IF Unaccounted(d) THEN Return(Plain("CLARIFY"))
             ELSE IF utterance.multiple THEN Return(Plain("BLOCKED"))
             ELSE Return(d)
          /\ Keeping

\* the source of knowledge; without research the name of its answer is unbound
Source ==
  /\ stage = "source"
  /\ IF ~setup.research THEN Silently /\ ModelUnavailable
     ELSE /\ Call
          /\ \/ Return(Plain("RESEARCHED")) \/ ModelUnavailable
             \/ ~utterance.fresh /\ To("generate")
             \/ /\ ~utterance.fresh /\ mode = "GENERATION"
                /\ Return([kind |-> "ANSWER", source |-> "model"])
  /\ Keeping

\* a model answer without cards; a question falls through to the routing
Generate ==
  /\ stage = "generate" /\ Call
  /\ \/ Return([kind |-> "ANSWER", source |-> "model"]) \/ Invalid \/ To("route")
  /\ Keeping

-----------------------------------------------------------------------------
(* Routing                                                                   *)

Route ==
  /\ stage = "route" /\ Call
  /\ \/ \E d \in Decodable : Decide(d) /\ To("compound")
     \/ /\ Repair("route", 2) /\ To("decode")
        /\ UNCHANGED <<mode, decision, verdict>>

\* the stage a proposal goes on to when the decoder has accepted its repair
Decoded == [route |-> "compound", argument |-> "argument repaired", missing |-> "argued"]

\* _bounded_decision_repair: two attempts at a decision that decodes
RepairDecoding ==
  /\ Attempt("decode")
  /\ \/ /\ \E d \in IF repairing.of = "route" THEN Decodable ELSE Focused : Decide(d)
        /\ To(Decoded[repairing.of])
     \/ Invalid /\ Keeping
     \/ Again("decode")

\* a repair that the effects of the request could be collected for has one attempt
PlanAttempts == {1, 2}

\* a clarification of a plural request: the effects are collected as evidence
Compound ==
  /\ stage = "compound"
  /\ IF decision.kind = "CLARIFY" /\ Plural
     THEN /\ Call /\ To("plan")
          /\ \E attempts \in PlanAttempts : Repair("compound", attempts)
          /\ UNCHANGED <<mode, decision, verdict>>
     ELSE Silently /\ To("clarified") /\ Keeping

\* the stage that follows the repair of a plan, whatever came of it
Replanned == [compound |-> "clarified", single |-> "research", fidelity |-> "reconsider"]
IsReplacement(d) == d.kind = "PLAN" /\ (repairing.of = "fidelity" => d.spec)

\* _repair_clarification with plans_only: a plan that the validator accepts
\* replaces the decision; when the loop ends without one the decision is kept. A
\* candidate that does not decode repeats its failure, which ends the loop.
RepairPlan ==
  /\ Attempt("plan")
  /\ \/ \E d \in Plans :
          /\ IsReplacement(d)
          /\ decision' = d
          /\ verdict' = IF repairing.of = "fidelity" THEN "complete" ELSE verdict
          /\ To(Replanned[repairing.of])
          /\ UNCHANGED <<mode, repairing>>
     \/ To(Replanned[repairing.of]) /\ Keeping
     \/ Again("plan")

\* a question about a change, although there is evidence: one more attempt
Clarified ==
  /\ stage = "clarified"
  /\ IF decision.kind \in {"CLARIFY", "NEED_CONTEXT"} /\ HasWrites /\ utterance.evidence
     THEN /\ Call
          /\ \/ To("single") /\ \E d \in {decision} \cup (Decodable \ Questions) : Decide(d)
             \/ ModelUnavailable /\ Keeping
     ELSE Silently /\ To("single") /\ Keeping

\* one action for a request that asks for more, unless it contrasts or negates
Single ==
  /\ stage = "single" /\ Silently
  /\ IF ParserBreaks(decision) THEN Invalid /\ Keeping
     ELSE IF /\ Unaccounted(decision) \/ Conjoined(decision)
             /\ setup.parser = "works" => ~utterance.negated
     THEN /\ Repair("single", 2) /\ To("plan")
          /\ UNCHANGED <<mode, decision, verdict>>
     ELSE To("research") /\ Keeping

\* an answer from outside needs evidence from outside
Research ==
  /\ stage = "research" /\ Silently /\ Keeping
  /\ CASE decision.kind = "ANSWER" /\ (utterance.fresh \/ decision.source = "external") ->
            (setup.research /\ Return(Plain("RESEARCHED"))) \/ ModelUnavailable
       [] decision.kind = "PLAN" -> To("effects")
       [] OTHER -> To("reconsider")

-----------------------------------------------------------------------------
(* Plans: the effects are read from the utterance again, mapped to the cards
   again, and compared with what the plan says it is for                     *)

Effects ==
  /\ stage = "effects" /\ Call
  /\ CASE setup.parser = "none" -> Return(Plain("CLARIFY")) /\ Keeping
       [] setup.parser = "broken" -> Invalid /\ Keeping
       [] OTHER ->
            \/ To("map") /\ Keeping
            \/ /\ verdict' \in {"ungrounded", "unsupported"}
               /\ Repair("effects", 2) /\ To("reading")
               /\ UNCHANGED <<mode, decision>>

Map ==
  /\ stage = "map" /\ Call
  /\ \/ To("compare") /\ Keeping
     \/ /\ Repair("map", 2) /\ To("reading")
        /\ UNCHANGED <<mode, decision, verdict>>

\* an effect that no card is for is investigated and kept open
Unresolved == {"BLOCKED", "FAILED"}

\* bounded_proposal_repair of the effects or of their mapping: given up, it is a
\* question, or an effect that is unresolved
RepairReading ==
  /\ Attempt("reading")
  /\ \/ To(IF repairing.of = "effects" THEN "map" ELSE "compare") /\ Keeping
     \/ /\ \E kind \in IF repairing.of = "effects" /\ verdict = "unsupported"
                      THEN Unresolved ELSE {"CLARIFY"} : Return(Plain(kind))
        /\ Keeping
     \/ Again("reading")

Compare ==
  /\ stage = "compare" /\ Silently
  /\ IF ~decision.spec THEN Return(Plain("CLARIFY")) /\ Keeping
     ELSE \/ /\ verdict' = "complete" /\ To("reconsider")
             /\ UNCHANGED <<mode, decision, repairing>>
          \/ /\ verdict' = "incomplete"
             /\ Repair("fidelity", 2) /\ To("plan")
             /\ UNCHANGED <<mode, decision>>

-----------------------------------------------------------------------------
(* The decision                                                              *)

\* an answer from the narrow routing pass is asked for again, twice
RoutingOnly == HasWrites /\ ~Plural

Reconsider ==
  /\ stage = "reconsider" /\ Keeping
  /\ IF RoutingOnly /\ decision.kind = "ANSWER"
     THEN Call /\ (To("again") \/ Return(Plain("CLARIFY")) \/ Invalid \/ ModelUnavailable)
     ELSE Silently /\ To("rewrite")

SecondLook ==
  /\ stage = "again" /\ Call
  /\ \/ \E d \in Decodable : Decide(d) /\ To("rewrite")
     \/ Invalid /\ Keeping

\* rewrite_reference_decision: a question about a task can become the task, and an
\* event for the task list a task, or a question if it has no title
Rewrite ==
  /\ stage = "rewrite" /\ Silently
  /\ CASE decision.kind = "ACTION" /\ utterance.multiple -> Return(Plain("BLOCKED")) /\ Keeping
       [] decision.kind = "CLARIFY" /\ utterance.rewritable /\ HasWrites ->
            Decide(Action(TRUE, TRUE)) /\ To("check")
       [] decision.kind = "ACTION" /\ decision.write /\ utterance.rewritable ->
            /\ \E d \in {decision, Action(TRUE, TRUE), Plain("CLARIFY")} : Decide(d)
            /\ To("check")
       [] OTHER -> To("check") /\ Keeping

\* Fault: only a conjunction stops a write.
MustAskAnyway(d) == Conjoined(d)
\* a change that is not the whole request is never returned as an action
MustAsk(d) == Unaccounted(d) \/ Conjoined(d)

Check ==
  /\ stage = "check" /\ Silently /\ Keeping
  /\ CASE decision.kind # "ACTION" -> Return(decision)
       [] decision.kind = "ACTION" /\ ParserBreaks(decision) -> Invalid
       [] decision.kind = "ACTION" /\ ~ParserBreaks(decision) /\ MustAsk(decision) ->
            Return(Plain("CLARIFY"))
       [] OTHER -> IF utterance.question /\ decision.write /\ HasReads THEN To("read")
                   ELSE IF ~decision.arguments THEN To("argument") \/ Return(decision)
                   ELSE Return(decision)

\* a question is never answered by a change while there is something to read
ReadInstead ==
  /\ stage = "read" /\ Call /\ Keeping
  /\ \/ \E d \in Answers \cup Questions \cup [kind : {"ACTION"}, write : {FALSE}, arguments : BOOLEAN] :
          Return(d)
     \/ Invalid

\* the card of the action alone, for the arguments it lacks
Argument ==
  /\ stage = "argument" /\ Call
  /\ \/ \E d \in Focused : Decide(d) /\ To("argument repaired")
     \/ /\ Repair("argument", 2) /\ To("decode")
        /\ UNCHANGED <<mode, decision, verdict>>

ArgumentRepaired ==
  /\ stage = "argument repaired" /\ Silently
  /\ IF decision.kind = "ACTION" /\ ~decision.arguments
     THEN /\ Repair("missing", 2) /\ To("decode")
          /\ UNCHANGED <<mode, decision, verdict>>
     ELSE Return(decision) /\ Keeping

Argued == stage = "argued" /\ Silently /\ Return(decision) /\ Keeping

\* recover_invalid_model_decision: an answer at most
Recover ==
  /\ stage = "recover" /\ Keeping
  /\ \/ utterance.evidence /\ Silently /\ Return([kind |-> "ANSWER", source |-> "model"])
     \/ IF utterance.question /\ ~utterance.mutation
        THEN Call /\ (Return([kind |-> "ANSWER", source |-> "model"]) \/ Return(Plain("BLOCKED")))
        ELSE Silently /\ Return(Plain("BLOCKED"))

\* the provider raises: the stages that ask for evidence only, and the recovery,
\* go on without its answer, and any other ends
ModelFails ==
  /\ stage \in {"classify", "source", "generate", "route", "decode", "plan", "effects", "map",
                "reading", "again", "read", "argument"}
  /\ stage = "source" => setup.research
  /\ Call /\ ModelUnavailable /\ Keeping

CognitionNext ==
  /\ \/ Classify \/ Source \/ Generate \/ Route \/ RepairDecoding \/ Compound \/ RepairPlan
     \/ Clarified \/ Single \/ Research \/ Effects \/ Map \/ RepairReading \/ Compare
     \/ Reconsider \/ SecondLook \/ Rewrite \/ Check \/ ReadInstead \/ Argument
     \/ ArgumentRepaired \/ Argued \/ Recover \/ ModelFails
  /\ UNCHANGED <<utterance, setup>>

CognitionSpec == CognitionInit /\ [][CognitionNext]_cognitionVars

-----------------------------------------------------------------------------
(* Properties                                                                *)

MostCalls == 20

CognitionTypeOK ==
  /\ utterance \in Utterances /\ setup \in Setups
  /\ stage \in {"classify", "source", "generate", "route", "decode", "compound", "plan",
                "clarified", "single", "research", "effects", "map", "reading", "compare",
                "reconsider", "again", "rewrite", "check", "read", "argument",
                "argument repaired", "argued", "recover", "returned"}
  /\ verdict \in {"none", "ungrounded", "unsupported", "complete", "incomplete"}
  /\ repairing.left \in 0..2
  /\ returned # NoDecision <=> stage = "returned"

\* Every repair is bounded, and so is what they add up to: however the loops follow
\* each other, a request costs at most MostCalls calls of the model.
CallsAreBounded == modelCalls <= MostCalls

\* A change that decide_fallback returns is the whole request, as the parser reads
\* it: one anchor and no negation, through every repair, rewriting and second pass.
WritesAreAccounted ==
  returned.kind = "ACTION" =>
    (returned.write => /\ setup.parser = "works"
                       /\ utterance.anchors = 1 /\ ~utterance.negated)
=============================================================================
