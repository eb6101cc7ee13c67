------------------------------ MODULE FollowUps ------------------------------
(* A conversation about a list: src/aegis/interaction_context.py and the contextual
   reads of src/aegis/reference_interaction.py. The owner asks for a list and then
   for "the second one", "the next one", "the other one", "what's left", "show the
   list again", "which is due first", "which event is latest", "the event before
   that", "is it done", "complete the first one". Each request is given the
   result before it and nothing else: what a follow-up can refer to is what that
   result's evidence carries, cut to a bound and, as evidence for the model,
   ordered by urgency. Meanwhile other requests change the records themselves.

   A list is of tasks, chores, obligations, events or groceries; what the owner sees of a
   record is its place in the list and whether it is closed, that is completed, settled
   or purchased.                                                             *)
EXTENDS Naturals, FiniteSets, Sequences, SequencesExt, FiniteSetsExt

CONSTANTS
  Collections,     \* what the conversation may be about
  RecordsKept,     \* the records there can be, in the order of their creation
  DatedRecords,    \* tasks with a deadline
  TimeOf,          \* the deadline of a dated task, or the start of an event
  Present,         \* events that start before it are over
  Windows,         \* the spans of time a question may name: "tomorrow", "this week"
  TitleOf,         \* the records' titles, which need not be distinct
  CandidateLimit   \* how many records of a list a follow-up can refer to (10)

RecordIds == 1..RecordsKept

ASSUME FollowUpsAssumption ==
  /\ Collections \subseteq {"tasks", "chores", "obligations", "events", "groceries"}
  /\ RecordsKept \in Nat \ {0} /\ CandidateLimit \in Nat \ {0}
  /\ DatedRecords \subseteq RecordIds /\ RecordIds \subseteq DOMAIN TitleOf
  /\ RecordIds \subseteq DOMAIN TimeOf /\ Present \in Nat
  /\ \A id \in RecordIds : TimeOf[id] \in Nat
  /\ \A window \in Windows : window \subseteq Nat

VARIABLES
  collection,   \* what this conversation is about
  known,        \* the records there are: 1..known
  closedNow,    \* those that are completed, settled or purchased
  received,     \* the list that the owner received last
  prior,        \* the evidence of the last result: the list, the focus in it, and how it came
  reference     \* the last ordinal, and the record it was taken for

followUpVars == <<collection, known, closedNow, received, prior, reference>>

NoFocus == [id |-> 0, closed |-> FALSE, identified |-> FALSE]
NoReference == [ordinal |-> 0, record |-> 0, of |-> <<>>]
Bare == [list |-> <<>>, focus |-> NoFocus, by |-> "none"]

\* a record as a list shows it; without its id only its title and its time are known
ShownAs(id) == [id |-> id, closed |-> id \in closedNow, identified |-> TRUE]
Unidentified(list) == [i \in DOMAIN list |-> [list[i] EXCEPT !.identified = FALSE]]

FollowUpsInit ==
  /\ collection \in Collections
  /\ known \in 1..RecordsKept
  /\ IF collection = "obligations" THEN closedNow \in SUBSET (1..known) ELSE closedNow = {}
  /\ received = <<>>
  /\ prior = Bare
  /\ reference = NoReference

-----------------------------------------------------------------------------
(* Lists                                                                     *)

\* those of a list that are among the given records, in their order
Only(list, records) ==
  LET kept[n \in 0..Len(list)] ==
        IF n = 0 THEN <<>>
        ELSE IF list[n] \in records THEN Append(kept[n - 1], list[n]) ELSE kept[n - 1]
  IN kept[Len(list)]
\* sorted(), given what comes before each record: those that are equal stay in their order
Sorted(list, before) ==
  LET comesFirst(j, i) ==
        list[j] \in before[list[i]] \/ (j < i /\ list[i] \notin before[list[j]])
      place(i) == Cardinality({j \in DOMAIN list : comesFirst(j, i)}) + 1
  IN [n \in DOMAIN list |-> list[CHOOSE i \in DOMAIN list : place(i) = n]]

-----------------------------------------------------------------------------
(* The context of a follow-up                                                *)

Urgent(r) == r.id \in DatedRecords /\ ~r.closed
UrgentOf(list) == {r \in Range(list) : Urgent(r)}
OpenOf(list) == {r \in Range(list) : ~r.closed}
UpcomingOf(list) == {r \in Range(list) : TimeOf[r.id] >= Present}
Earlier(list) ==
  [t \in Range(list) |-> {r \in Range(list) : TimeOf[r.id] < TimeOf[t.id]}]
\* what comes first, and of what is over the latest
Sooner(list) ==
  [t \in Range(list) |->
     {r \in Range(list) : IF TimeOf[r.id] >= Present
                          THEN TimeOf[t.id] < Present \/ TimeOf[r.id] < TimeOf[t.id]
                          ELSE TimeOf[t.id] < TimeOf[r.id]}]
\* compact_context_evidence: dated open tasks come first, and events by their time
Compact(list) ==
  CASE collection = "tasks" ->
         Only(list, UrgentOf(list)) \o Only(list, Range(list) \ UrgentOf(list))
    [] collection = "events" -> Sorted(list, Sooner(list))
    [] OTHER -> list

Cut(list) == SubSeq(list, 1, IF Len(list) < CandidateLimit THEN Len(list) ELSE CandidateLimit)
\* Fault: the candidates are the compacted evidence.
CompactedCandidates(list) == Cut(Compact(list))
\* context_from_prior_result: the list as it was, to the limit, and after it the
\* dated tasks that the limit has cut off
Candidates(list) ==
  LET first == Cut(list)
      late == {r \in Range(list) \ Range(first) :
                 collection = "tasks" /\ r.id \in DatedRecords}
  IN first \o Only(Compact(list), late)

\* The events an event question is about. A list of events carries them a second
\* time without their ids, and this is what is compacted.
EventFacts ==
  CASE prior.by = "list" -> Unidentified(Compact(prior.list))
    [] prior.by = "follow-up" -> Compact(prior.list)
    [] OTHER -> Candidates(prior.list)     \* prior.by = "question"

Places(candidates, id) == {i \in DOMAIN candidates : candidates[i].id = id}
\* those of the candidates that the focus may be, by its id or by its title
Selected(candidates) ==
  {i \in DOMAIN candidates : TitleOf[candidates[i].id] = TitleOf[prior.focus.id]}
\* the first of a list that has the earliest, or the latest, time
Pick(list, latest) ==
  LET times == {TimeOf[r.id] : r \in Range(list)}
      sought == IF latest THEN Max(times) ELSE Min(times)
  IN Only(list, {r \in Range(list) : TimeOf[r.id] = sought})[1]
\* "the second" (0 stands for "the last")
Ordinals == 0..4
PlaceOf(n, list) == IF n = 0 THEN Len(list) ELSE n
\* the records of a title
Named(id) == {other \in 1..known : TitleOf[other] = TitleOf[id]}

-----------------------------------------------------------------------------
(* Results. One that completes replaces the evidence; one that is blocked hands on
   the candidates it was given.                                              *)

Result(list, focus) == prior' = [list |-> list, focus |-> focus, by |-> "follow-up"]
Scalar(focus) == prior' = [Bare EXCEPT !.focus = focus]
BlockedFollowUp ==
  prior' = [prior EXCEPT !.list = Cut(Candidates(prior.list)), !.focus = NoFocus,
                         !.by = IF prior.by = "none" THEN "none" ELSE "follow-up"]
ReadsRecords == UNCHANGED <<collection, known, closedNow>>

-----------------------------------------------------------------------------
(* What is asked for. A list is shown in the order of its evidence.          *)

AllRecords == [i \in 1..known |-> ShownAs(i)]
Within(list, window) == Only(list, {r \in Range(list) : TimeOf[r.id] \in window})
\* reference_format_result: of the obligations only the outstanding ones are shown
Displayed(list) ==
  IF collection = "obligations" THEN Only(list, OpenOf(list)) ELSE list

Lists(list) ==
  /\ received' = Displayed(list)
  /\ prior' = [list |-> list, focus |-> NoFocus,
               by |-> IF collection = "events" THEN "list" ELSE "follow-up"]
  /\ reference' = NoReference
  /\ ReadsRecords

\* "my tasks", "which are open", "which are finished"
ReadTasks(status) ==
  /\ collection = "tasks"
  /\ Lists(Only(AllRecords, {r \in Range(AllRecords) :
                               status = "all" \/ r.closed = (status = "completed")}))

\* "what is due this week": the open tasks, unless the completed ones are named, by
\* their deadlines
ReadTasksDue(completed, window) ==
  LET asked == {r \in Range(AllRecords) : r.id \in DatedRecords /\ r.closed = completed}
      due == Only(Within(AllRecords, window), asked)
  IN
  /\ collection = "tasks"
  /\ Lists(Sorted(due, Earlier(due)))

\* "the chores": the open ones, unless the completed ones are named
ReadChores(completed) ==
  /\ collection = "chores"
  /\ Lists(Only(AllRecords, {r \in Range(AllRecords) : r.closed = completed}))

\* "what do we owe"
ReadObligations == collection = "obligations" /\ Lists(AllRecords)

\* "what groceries do we need": their names, each once
Needed ==
  Only(AllRecords, {r \in OpenOf(AllRecords) :
                      \A id \in 1..(r.id - 1) : id \in closedNow \/ TitleOf[id] # TitleOf[r.id]})
ReadGroceries == collection = "groceries" /\ Lists(Needed)

\* "what is on the calendar", of a span of time or of all
ReadEvents == collection = "events" /\ Lists(AllRecords)
ReadEventsWithin(window) == collection = "events" /\ Lists(Within(AllRecords, window))

-----------------------------------------------------------------------------
(* Questions that name what they are about. They are answered from the records
   there are, whatever the result before them was, with one record; what they hand
   on is a list that the owner is not shown, or no list at all.              *)

Unshown(list, record) == Result(list, record) /\ received' = <<>>

\* "what is the second task", when a follow-up cannot be meant
AskTaskOrdinal(n) ==
  /\ collection = "tasks" /\ prior.list = <<>>
  /\ IF PlaceOf(n, AllRecords) \in 1..known
     THEN Unshown(AllRecords, ShownAs(PlaceOf(n, AllRecords)))
     ELSE BlockedFollowUp /\ UNCHANGED received
  /\ reference' = NoReference
  /\ ReadsRecords

\* "which task is due first": of the open tasks with a deadline, and these are handed on
AskTaskPriority(latest, window) ==
  LET dated == Only(Within(AllRecords, window), UrgentOf(AllRecords)) IN
  /\ collection = "tasks" /\ prior.by = "none"
  /\ IF dated = <<>> THEN BlockedFollowUp /\ UNCHANGED received
     ELSE Unshown(dated, Pick(dated, latest))
  /\ reference' = NoReference
  /\ ReadsRecords

\* "what is the second chore", "which chore is due first": they have no order to be asked for
AskChoreOrdinal ==
  /\ collection = "chores" /\ prior.list = <<>>
  /\ BlockedFollowUp
  /\ reference' = NoReference
  /\ UNCHANGED received
  /\ ReadsRecords

\* "which is the second obligation": of the outstanding ones
AskObligationOrdinal(n) ==
  LET outstanding == Displayed(AllRecords)
      place == PlaceOf(n, outstanding)
  IN
  /\ collection = "obligations"
  /\ IF place \in DOMAIN outstanding THEN Unshown(outstanding, outstanding[place])
     ELSE BlockedFollowUp /\ UNCHANGED received
  /\ reference' = NoReference
  /\ ReadsRecords

\* "is the rent settled", by a title that one obligation has
AskObligation(id) ==
  /\ collection = "obligations" /\ Named(id) = {id}
  /\ Scalar(ShownAs(id))
  /\ reference' = NoReference
  /\ UNCHANGED received
  /\ ReadsRecords

\* "what do I owe": the result holds nothing that could be referred to
AskOwed ==
  /\ collection = "obligations"
  /\ prior' = Bare /\ reference' = NoReference
  /\ UNCHANGED received
  /\ ReadsRecords

\* "did we buy milk": if one record has the name
AskPurchased(id) ==
  /\ collection = "groceries"
  /\ IF Named(id) = {id} THEN prior' = Bare ELSE BlockedFollowUp
  /\ reference' = NoReference
  /\ UNCHANGED received
  /\ ReadsRecords

\* "which groceries are due first": they have no deadlines
AskGroceryOrder ==
  /\ collection = "groceries"
  /\ BlockedFollowUp
  /\ reference' = NoReference
  /\ UNCHANGED received
  /\ ReadsRecords

\* "what is the latest event", "when is the next event"
AskEventPriority(latest) ==
  /\ collection = "events"
  /\ Scalar(Pick(AllRecords, latest))
  /\ reference' = NoReference
  /\ UNCHANGED received
  /\ ReadsRecords
AskEventNext ==
  LET upcoming == Only(AllRecords, UpcomingOf(AllRecords)) IN
  /\ collection = "events"
  /\ IF upcoming = <<>> THEN BlockedFollowUp ELSE Scalar(Pick(upcoming, FALSE))
  /\ reference' = NoReference
  /\ UNCHANGED received
  /\ ReadsRecords

-----------------------------------------------------------------------------
(* Follow-ups                                                                *)

\* "what about tomorrow": the open tasks, or the events, of another span of time
ReadTasksDueThen(window) ==
  (prior.by # "none" \/ prior.focus # NoFocus) /\ ReadTasksDue(FALSE, window)
ReadEventsThen(window) == prior.by # "none" /\ ReadEventsWithin(window)

\* "is rice still on the list", "how much rice do we need": of an item that was listed
\* and is needed, and what is shown is the list as it is now
ReadMembership ==
  /\ \E r \in Range(Candidates(prior.list)), t \in Range(Needed) : TitleOf[r.id] = TitleOf[t.id]
  /\ ReadGroceries
ReadQuantity == ReadMembership

\* "which one", of a list of one
ReadUnique ==
  LET candidates == Candidates(prior.list) IN
  /\ collection # "obligations" /\ Len(candidates) = 1
  /\ Result(candidates, NoFocus) /\ received' = candidates
  /\ reference' = NoReference
  /\ ReadsRecords

\* "what's left": the candidates that were open when the list was read
ReadRemaining ==
  LET candidates == Candidates(prior.list)
      rest == Only(candidates, OpenOf(candidates))
  IN
  /\ collection \in {"tasks", "chores", "groceries"} /\ prior.list # <<>>
  /\ received' = rest
  /\ Result(rest, NoFocus)
  /\ reference' = NoReference
  /\ ReadsRecords

\* "show the list again": the same records, as they are now; an event is found by its
\* title and time
ReadAgain ==
  LET candidates == Candidates(prior.list)
      again == [i \in DOMAIN candidates |-> ShownAs(candidates[i].id)]
  IN
  /\ collection \in {"tasks", "chores", "events"} /\ prior.list # <<>>
  /\ collection = "events" =>
       \A r \in Range(candidates) : {id \in Named(r.id) : TimeOf[id] = TimeOf[r.id]} = {r.id}
  /\ received' = again
  /\ Result(again, NoFocus)
  /\ reference' = NoReference
  /\ ReadsRecords

ReadGroceriesAgain == prior.by # "none" /\ ReadGroceries

\* "the second one"; a grocery is named and is not the focus then
ReadOrdinal(n) ==
  LET candidates == Candidates(prior.list)
      place == PlaceOf(n, candidates)
  IN
  /\ prior.list # <<>>
  /\ IF place \in DOMAIN candidates
     THEN /\ Result(candidates, IF collection = "groceries" THEN NoFocus ELSE candidates[place])
          /\ reference' = [ordinal |-> n, record |-> candidates[place].id, of |-> received]
     ELSE BlockedFollowUp /\ reference' = NoReference
  /\ UNCHANGED received
  /\ ReadsRecords

\* "the next one", "the task before that"
ReadNeighbour(offset) ==
  LET candidates == Candidates(prior.list)
      places == IF offset = "next" THEN Places(candidates, prior.focus.id) ELSE Selected(candidates)
      neighbours == {i \in DOMAIN candidates :
                       \E p \in places : IF offset = "before" THEN i + 1 = p ELSE i = p + 1}
  IN
  /\ collection = "tasks" /\ prior.list # <<>> /\ prior.focus # NoFocus
  /\ IF Cardinality(places) = 1 /\ neighbours # {}
     THEN \E i \in neighbours : Result(candidates, candidates[i])
     ELSE offset # "next" /\ BlockedFollowUp
  /\ reference' = NoReference
  /\ UNCHANGED received
  /\ ReadsRecords

\* "the other one": the only one that is not the focus, or a question
ReadOther ==
  LET candidates == Candidates(prior.list)
      others == DOMAIN candidates \ Selected(candidates)
  IN
  /\ prior.list # <<>>
  /\ IF /\ collection = "tasks" /\ prior.focus # NoFocus
        /\ Cardinality(Selected(candidates)) = 1 /\ Cardinality(others) = 1
     THEN \E i \in others : Result(candidates, candidates[i])
     ELSE BlockedFollowUp
  /\ reference' = NoReference
  /\ UNCHANGED received
  /\ ReadsRecords

\* "which should I do first", of tasks: by their deadlines, from the open candidates
ReadTaskPriority(latest) ==
  LET candidates == Candidates(prior.list)
      dated == Only(candidates, UrgentOf(candidates))
  IN
  /\ collection = "tasks" /\ prior.list # <<>>
  /\ IF dated = <<>> THEN BlockedFollowUp ELSE Result(candidates, Pick(dated, latest))
  /\ reference' = NoReference
  /\ UNCHANGED received
  /\ ReadsRecords

\* and of chores, which have no deadlines
ReadChorePriority ==
  /\ collection = "chores" /\ prior.list # <<>>
  /\ BlockedFollowUp
  /\ reference' = NoReference
  /\ UNCHANGED received
  /\ ReadsRecords

-----------------------------------------------------------------------------
(* Events and their times. An event question hands on the events it is about, in
   the order of their times, instead of the list that the owner received.     *)

AnswerEvent(event) ==
  /\ prior' = [list |-> EventFacts, focus |-> event, by |-> "question"]
  /\ received' = <<>>

\* "which event is earliest"
ReadEventPriority(latest) ==
  /\ collection = "events" /\ prior.list # <<>>
  /\ AnswerEvent(Pick(EventFacts, latest))
  /\ reference' = NoReference
  /\ ReadsRecords

\* "when is the next one"
ReadEventNext ==
  LET upcoming == Only(EventFacts, UpcomingOf(EventFacts)) IN
  /\ collection = "events" /\ prior.list # <<>>
  /\ IF upcoming = <<>> THEN BlockedFollowUp /\ UNCHANGED received
     ELSE AnswerEvent(Pick(upcoming, FALSE))
  /\ reference' = NoReference
  /\ ReadsRecords

\* "the event before that": of all events there are now, if just one is the nearest
ReadEventRelative(earlier) ==
  LET anchor == TimeOf[prior.focus.id]
      related == {id \in 1..known : IF earlier THEN TimeOf[id] < anchor ELSE TimeOf[id] > anchor}
      nearest == {id \in related : \A other \in related :
                    IF earlier THEN TimeOf[id] >= TimeOf[other] ELSE TimeOf[id] <= TimeOf[other]}
  IN
  /\ collection = "events" /\ prior.focus.identified
  /\ IF Cardinality(nearest) = 1
     THEN \E id \in nearest : Scalar(ShownAs(id))
     ELSE BlockedFollowUp
  /\ reference' = NoReference
  /\ UNCHANGED received
  /\ ReadsRecords

\* "when is it", of a list
ReadAmbiguousEvent ==
  /\ collection = "events" /\ prior.list # <<>> /\ prior.focus = NoFocus
  /\ BlockedFollowUp
  /\ reference' = NoReference
  /\ UNCHANGED received
  /\ ReadsRecords

-----------------------------------------------------------------------------
(* The focus                                                                 *)

\* the focus is read by its id, or by its title if it has none, and the list it was in
\* is not handed on
ReadFocus ==
  LET matches == IF prior.focus.identified THEN {prior.focus.id} ELSE Named(prior.focus.id) IN
  /\ prior.focus # NoFocus
  /\ IF Cardinality(matches) = 1
     THEN \E id \in matches : Scalar(ShownAs(id))
     ELSE BlockedFollowUp
  /\ reference' = NoReference
  /\ UNCHANGED received
  /\ ReadsRecords

ReadTaskFocus == collection = "tasks" /\ ReadFocus              \* "is that still open"
ReadObligationFocus == collection = "obligations" /\ ReadFocus  \* "has it been settled"
ReadChoreFocus == collection = "chores" /\ ReadFocus            \* "who is assigned to it"
ReadEventFocus == collection = "events" /\ ReadFocus            \* "when does it start"

\* "complete the second one": grounded in the record's id, and for a chore in a title
\* that no other chore has
Completable(id) == collection = "chores" => Named(id) = {id}

CompleteOrdinal(n) ==
  LET candidates == Candidates(prior.list)
      place == PlaceOf(n, candidates)
  IN
  /\ collection \in {"tasks", "chores"} /\ prior.list # <<>>
  /\ IF place \in DOMAIN candidates /\ Completable(candidates[place].id)
     THEN /\ closedNow' = closedNow \cup {candidates[place].id}
          /\ reference' = [ordinal |-> n, record |-> candidates[place].id, of |-> received]
          /\ prior' = Bare
     ELSE BlockedFollowUp /\ reference' = NoReference /\ UNCHANGED closedNow
  /\ UNCHANGED <<collection, known, received>>

\* "complete it": the focus, by its id
CompleteFocus ==
  /\ collection = "tasks" /\ prior.focus # NoFocus
  /\ closedNow' = closedNow \cup {prior.focus.id}
  /\ prior' = Bare /\ reference' = NoReference
  /\ UNCHANGED <<collection, known, received>>

\* requests of other conversations; no operation adds or settles an obligation
OthersCreate ==
  /\ collection # "obligations" /\ known < RecordsKept
  /\ known' = known + 1
  /\ UNCHANGED <<collection, closedNow, received, prior, reference>>
OthersClose ==
  /\ collection \in {"tasks", "chores", "groceries"}
  /\ \E id \in 1..known : closedNow' = closedNow \cup {id}
  /\ UNCHANGED <<collection, known, received, prior, reference>>

FollowUpsNext ==
  \/ ReadObligations \/ ReadEvents \/ AskChoreOrdinal \/ AskEventNext
  \/ \E status \in {"all", "open", "completed"} : ReadTasks(status)
  \/ \E completed \in BOOLEAN : ReadChores(completed)
  \/ \E completed \in BOOLEAN, window \in Windows : ReadTasksDue(completed, window)
  \/ \E window \in Windows :
       ReadEventsWithin(window) \/ ReadTasksDueThen(window) \/ ReadEventsThen(window)
  \/ \E latest \in BOOLEAN : AskEventPriority(latest)
  \/ \E latest \in BOOLEAN, window \in Windows : AskTaskPriority(latest, window)
  \/ \E n \in Ordinals : AskTaskOrdinal(n) \/ AskObligationOrdinal(n)
  \/ ReadGroceries \/ ReadGroceriesAgain \/ ReadMembership \/ ReadQuantity \/ ReadUnique
  \/ AskOwed \/ AskGroceryOrder
  \/ \E id \in 1..known : AskObligation(id) \/ AskPurchased(id)
  \/ ReadRemaining \/ ReadAgain \/ ReadOther \/ CompleteFocus
  \/ ReadTaskFocus \/ ReadObligationFocus \/ ReadChoreFocus \/ ReadEventFocus
  \/ ReadChorePriority \/ ReadEventNext \/ ReadAmbiguousEvent
  \/ \E latest \in BOOLEAN : ReadTaskPriority(latest) \/ ReadEventPriority(latest)
  \/ \E earlier \in BOOLEAN : ReadEventRelative(earlier)
  \/ \E n \in Ordinals : ReadOrdinal(n) \/ CompleteOrdinal(n)
  \/ \E offset \in {"next", "before", "after"} : ReadNeighbour(offset)
  \/ OthersCreate \/ OthersClose

FollowUpsSpec == FollowUpsInit /\ [][FollowUpsNext]_followUpVars

-----------------------------------------------------------------------------
(* Properties                                                                *)

FollowUpsTypeOK ==
  /\ collection \in Collections
  /\ known \in RecordIds
  /\ closedNow \subseteq 1..known
  /\ prior.focus.id \in 0..known
  /\ prior.by \in {"list", "follow-up", "question", "none"}
  /\ \A list \in {received, prior.list, reference.of} : \A r \in Range(list) : r.id \in 1..known

\* "Ordinals refer to the list the owner just received" (interaction_context.py:422):
\* however many follow-ups, clarifications and changes by others lie between, an
\* ordinal within the limit is taken for the record that stood in that place of the
\* list the owner received last, and "the last one" is so for a list within it. It is
\* not so of obligations of which some are settled: the owner is shown the others and
\* the ordinals count them all. (After a question that hands on a list that it does not
\* show, the list there was has been replaced: see Unshown and AnswerEvent.)
OrdinalsNameWhatWasReceived ==
  LET n == reference.ordinal
      list == reference.of
  IN
  list # <<>> =>
    \/ collection = "obligations" /\ closedNow # {}
    \/ /\ n \in 1..CandidateLimit => n \in DOMAIN list /\ list[n].id = reference.record
       /\ n = 0 /\ Len(list) <= CandidateLimit => Last(list).id = reference.record
=============================================================================
