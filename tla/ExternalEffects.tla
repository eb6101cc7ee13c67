--------------------------- MODULE ExternalEffects ---------------------------
(* The adapters that change things outside: the Google Calendar provider of
   calendar.py, the message providers of communications.py, the Home Assistant
   gateway of devices.py, and the executors and verifiers of reference_packs.py
   that call them for the kernel.

   A call can be refused before it is made, rejected by the provider, answered,
   or end without a usable answer: a timeout, a server error, an answer that cannot
   be read, a command-line client that fails. Then nobody here knows whether it
   took effect, or whether it still will: the request may be on its way. Not every
   adapter says so. Other people use the same calendar and the same switches. The
   kernel (Kernel.tla) claims a key once, records what came back and, for an
   unknown outcome, asks the verifier to reconcile; it never calls the executor
   again.                                                                      *)
EXTENDS Naturals, FiniteSets

CONSTANTS
  EffectKeys,        \* idempotency keys: one action each
  EventTitles,      \* what an event is called, which stands for its title and times
  Asks,        \* the kinds of action that are asked for
  Others       \* bound: how often somebody else changes the calendar or the switch

EffectKinds == {"create", "cancel", "update", "send", "sendRecorded", "control"}
Existing == "existing"   \* the event that is there from the start
Ids == EffectKeys \cup {Existing}
Gone == "gone"

ASSUME ExternalAssumption ==
  /\ Asks \subseteq EffectKinds /\ Others \in Nat
  /\ EventTitles # {} /\ Gone \notin EventTitles /\ Existing \notin EffectKeys

VARIABLES
  calendar,   \* the title of each event, or Gone; an event made here has its key as id
  messages,   \* how often the message of a key was taken for delivery
  switch,     \* the state of the device
  posted,     \* how often each key's request took effect at its provider
  effect,     \* each action: where it stands, what was observed, what was concluded
  others      \* how often somebody else changed something

externalVars == <<calendar, messages, switch, posted, effect, others>>
provider == <<calendar, messages, switch, posted>>

NoAsk == [kind |-> "none"]

ExternalInit ==
  /\ calendar = [i \in Ids |-> IF i = Existing THEN CHOOSE t \in EventTitles : TRUE ELSE Gone]
  /\ messages = [k \in EffectKeys |-> 0]
  /\ switch = "off"
  /\ posted = [k \in EffectKeys |-> 0]
  /\ effect = [k \in EffectKeys |-> [at |-> "idle", ask |-> NoAsk, flying |-> FALSE,
                               observed |-> "none", assurance |-> "none"]]
  /\ others = 0

\* an event with or without an end, a message, a switch; the body of a message is
\* frozen when the action is prepared
AskEffect(k) ==
  /\ effect[k].at = "idle"
  /\ \E ask \in {a \in [kind : {"create", "update"}, title : EventTitles, ends : BOOLEAN]
                         \cup [kind : {"cancel", "send", "sendRecorded"}]
                         \cup [kind : {"control"}, to : {"on", "off"}] : a.kind \in Asks} :
       effect' = [effect EXCEPT ![k].ask = ask, ![k].at = "claimed"]
  /\ UNCHANGED <<calendar, messages, switch, posted, others>>

-----------------------------------------------------------------------------
(* What each provider does with a request that reaches it                    *)

\* create_event: a POST makes an event each time it arrives
CreateEvent(k) ==
  /\ calendar' = [calendar EXCEPT ![k] = effect[k].ask.title]
  /\ UNCHANGED <<messages, switch>>
\* update_event: a PATCH of an event that is there
UpdateEvent(k) ==
  /\ calendar' = [calendar EXCEPT ![Existing] = effect[k].ask.title]
  /\ UNCHANGED <<messages, switch>>
\* delete_event; a 404 counts as done
DeleteEvent(k) ==
  /\ calendar' = [calendar EXCEPT ![Existing] = Gone]
  /\ UNCHANGED <<messages, switch>>
SendMessage(k) ==
  /\ messages' = [messages EXCEPT ![k] = @ + 1]
  /\ UNCHANGED <<calendar, switch>>
CallService(k) ==
  /\ switch' = effect[k].ask.to
  /\ UNCHANGED <<calendar, messages>>

TakesEffect(k) ==
  /\ posted' = [posted EXCEPT ![k] = @ + 1]
  /\ CASE effect[k].ask.kind = "create" -> CreateEvent(k)
       [] effect[k].ask.kind = "update" -> UpdateEvent(k)
       [] effect[k].ask.kind = "cancel" -> DeleteEvent(k)
       [] effect[k].ask.kind \in {"send", "sendRecorded"} -> SendMessage(k)
       [] effect[k].ask.kind = "control" -> CallService(k)

\* what the provider refuses: a 4xx, and a change of an event that is not there
Refusable(k) == effect[k].ask.kind # "sendRecorded"
MustRefuse(k) == effect[k].ask.kind = "update" /\ calendar[Existing] = Gone

-----------------------------------------------------------------------------
(* The executors: one call, and what they say of its outcome                 *)

Observe(k, observed, assurance, flying) ==
  effect' = [effect EXCEPT ![k].at = "observed", ![k].observed = observed,
                           ![k].assurance = assurance, ![k].flying = flying]

\* Invalid arguments, a target nobody approved, a device out of the authorized
\* scope: nothing is sent. What is said of it differs, and an executor that raises
\* leaves the kernel to call the outcome unknown.
HeldBack(kind) ==
  CASE kind \in {"send", "sendRecorded"} -> {"not_attempted", "rejected"}
    [] kind = "control" -> {"none", "unknown"}
    [] OTHER -> {"none", "rejected"}

RefusedHere(k) ==
  /\ effect[k].at = "claimed"
  /\ \E assurance \in HeldBack(effect[k].ask.kind) : Observe(k, "failed", assurance, FALSE)
  /\ UNCHANGED <<calendar, messages, switch, posted, others>>

\* Fault: a server error or a timeout is taken for a rejection.
CallsItRejected(kind) == {"rejected"}
\* A status the provider did not send, or sent as a server error, tells nothing;
\* the gateway of devices raises, and the kernel notes the outcome as unknown. But
\* the client that sends messages ends with an exit status, and any other than
\* zero is called a rejection, whatever the client did before it failed.
WithoutAnswer(kind) == {"unknown"} \cup IF kind = "send" THEN {"rejected"} ELSE {}
\* An answer in bytes that do not decode raises the same ValueError as an argument
\* that was never sent. The answer to a DELETE is not read.
Unreadable(kind) == IF kind \in {"create", "update"} THEN {"rejected"} ELSE {}

Rejected(k) ==
  /\ effect[k].at = "claimed" /\ Refusable(k)
  \* Home Assistant's refusal raises like a lost answer does
  /\ Observe(k, "failed", IF effect[k].ask.kind = "control" THEN "unknown"
                          ELSE "rejected", FALSE)
  /\ UNCHANGED <<calendar, messages, switch, posted, others>>

\* the message provider can claim the delivery with its answer
Accepting(kind) ==
  CASE kind = "send" -> {"accepted", "verified"}
    [] kind \in {"cancel", "update"} -> {"accepted"}
    [] kind \in {"create", "control"} -> {"none"}

Answered(k) ==
  /\ effect[k].at = "claimed" /\ effect[k].ask.kind # "sendRecorded" /\ ~MustRefuse(k)
  /\ TakesEffect(k)
  /\ \E assurance \in Accepting(effect[k].ask.kind) : Observe(k, "succeeded", assurance, FALSE)
  /\ UNCHANGED others

\* the answer is lost or unreadable: the request took effect, ...
AnswerLost(k) ==
  /\ effect[k].at = "claimed" /\ ~MustRefuse(k)
  /\ TakesEffect(k)
  /\ \E assurance \in WithoutAnswer(effect[k].ask.kind) \cup Unreadable(effect[k].ask.kind) :
       Observe(k, "failed", assurance, FALSE)
  /\ UNCHANGED others

\* ... never arrives, or arrives late
RequestLost(k) ==
  /\ effect[k].at = "claimed" /\ effect[k].ask.kind # "sendRecorded"
  /\ \E flying \in BOOLEAN, assurance \in WithoutAnswer(effect[k].ask.kind) :
       Observe(k, "failed", assurance, flying)
  /\ UNCHANGED <<calendar, messages, switch, posted, others>>

ArrivesLate(k) ==
  /\ effect[k].flying
  /\ effect' = [effect EXCEPT ![k].flying = FALSE]
  /\ IF MustRefuse(k) THEN UNCHANGED provider ELSE TakesEffect(k)
  /\ UNCHANGED others

\* the process dies in the call: the key stays claimed and is not executed again
Dies(k) ==
  /\ effect[k].at = "claimed"
  /\ \/ TakesEffect(k) /\ ~MustRefuse(k)
     \/ UNCHANGED provider
  /\ effect' = [effect EXCEPT ![k].at = "dead"]
  /\ UNCHANGED others

\* somebody else renames the event or takes it away, or uses the switch
SomebodyElse ==
  /\ others < Others
  /\ others' = others + 1
  /\ \/ /\ \E i \in Ids, t \in EventTitles \cup {Gone} :
             calendar[i] # Gone /\ calendar' = [calendar EXCEPT ![i] = t]
        /\ UNCHANGED switch
     \/ /\ switch' = IF switch = "on" THEN "off" ELSE "on"
        /\ UNCHANGED calendar
  /\ UNCHANGED <<messages, posted, effect>>

-----------------------------------------------------------------------------
(* The verifiers: verify() of an answered call, reconcile() of an unknown one *)

\* An event without an end is stored with its start as its end, and what is read
\* back is then not what was expected.
SameCalendarEvent(k, id) ==
  calendar[id] # Gone /\ calendar[id] = effect[k].ask.title /\ effect[k].ask.ends

\* Fault: an event is looked for by what it is called, not by its key.
FoundByTitle(k) == \E i \in Ids : SameCalendarEvent(k, i)
\* find_event_by_idempotency_key, and the comparison with the contract
FoundByKey(k) == SameCalendarEvent(k, k)

CreateMatches(k) == FoundByKey(k)
CancelMatches(k) == calendar[Existing] = Gone
UpdateMatches(k) == SameCalendarEvent(k, Existing)
\* get_sent_message of the provider that keeps its messages
SendMatches(k) == messages[k] > 0
ControlMatches(k) == switch = effect[k].ask.to

ReadBack(k) ==
  CASE effect[k].ask.kind = "create" -> CreateMatches(k)
    [] effect[k].ask.kind = "cancel" -> CancelMatches(k)
    [] effect[k].ask.kind = "update" -> UpdateMatches(k)
    [] effect[k].ask.kind = "sendRecorded" -> SendMatches(k)
    [] effect[k].ask.kind = "control" -> ControlMatches(k)
    [] effect[k].ask.kind = "send" -> TRUE   \* a receipt is all there is

\* An answered call is verified, or fails and is verified again at the next request
VerifyEffect(k) ==
  /\ \/ effect[k].at = "observed"
     \/ effect[k].at = "failed"
  /\ effect[k].observed = "succeeded"
  /\ effect' = [effect EXCEPT
       ![k].at = IF ReadBack(k) THEN "completed" ELSE "failed",
       ![k].assurance = CASE ~ReadBack(k) -> @
                          [] effect[k].ask.kind = "send" -> "accepted"
                          [] effect[k].ask.kind = "control" -> @
                          [] OTHER -> "verified"]
  /\ UNCHANGED <<calendar, messages, switch, posted, others>>

\* a call that failed for good
EffectFails(k) ==
  /\ effect[k].at = "observed" /\ effect[k].observed = "failed"
  /\ effect[k].assurance # "unknown"
  /\ effect' = [effect EXCEPT ![k].at = "failed"]
  /\ UNCHANGED <<calendar, messages, switch, posted, others>>

\* a message without a receipt cannot be looked up, and switches are not reconciled
Reconcilable(k) == effect[k].ask.kind \in {"create", "cancel", "update", "sendRecorded"}
Reconcile(k) ==
  /\ effect[k].at = "observed" /\ effect[k].assurance = "unknown"
  /\ Reconcilable(k) /\ ReadBack(k)
  /\ effect' = [effect EXCEPT ![k].at = "completed", ![k].assurance = "verified"]
  /\ UNCHANGED <<calendar, messages, switch, posted, others>>

ExternalNext ==
  \/ SomebodyElse
  \/ \E k \in EffectKeys :
       \/ AskEffect(k) \/ RefusedHere(k) \/ Rejected(k) \/ Answered(k) \/ AnswerLost(k)
       \/ RequestLost(k) \/ ArrivesLate(k) \/ Dies(k) \/ VerifyEffect(k) \/ EffectFails(k) \/ Reconcile(k)

ExternalSpec == ExternalInit /\ [][ExternalNext]_externalVars

-----------------------------------------------------------------------------
(* Properties                                                                *)

ExternalTypeOK ==
  /\ \A i \in Ids : calendar[i] \in EventTitles \cup {Gone}
  /\ switch \in {"on", "off"}
  /\ others \in 0..Others
  /\ \A k \in EffectKeys :
       /\ messages[k] \in Nat /\ posted[k] \in Nat
       /\ effect[k].at \in {"idle", "claimed", "observed", "completed", "failed", "dead"}
       /\ effect[k].assurance \in {"none", "not_attempted", "rejected", "accepted",
                                   "unknown", "verified"}

\* What the assurance of an action says of the outside world is so, as far as the
\* adapters make it so (ExternalEffectAssurance): what was not attempted took no
\* effect and never will, nor did a cancellation that was rejected; no creation and
\* no change that was rejected is still on its way; a verified creation or message
\* was made by this very action, once, not by a look-alike, and a verified
\* cancellation has no event left.
AssuranceIsTruthful ==
  \A k \in EffectKeys :
    /\ \/ effect[k].assurance = "not_attempted"
       \/ effect[k].assurance = "rejected" /\ effect[k].ask.kind = "cancel"
       => posted[k] = 0 /\ ~effect[k].flying
    /\ effect[k].assurance = "rejected" /\ effect[k].ask.kind \in {"create", "update"} =>
         ~effect[k].flying
    /\ effect[k].at = "completed" /\ effect[k].ask.kind \in {"create", "send", "sendRecorded"} =>
         posted[k] = 1
    /\ effect[k].assurance = "verified" /\ effect[k].ask.kind = "cancel" =>
         calendar[Existing] = Gone
=============================================================================
