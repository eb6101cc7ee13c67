# A formal model of AEGIS Core

AEGIS is a personal assistant whose language model only proposes. A
deterministic core decides, authorizes, executes, observes, verifies and
remembers. This directory models that core and the components around it in TLA+,
checks them with TLC on small instances, and proves with TLAPS, for every size of
the instance, the safety of the central component and of most of the others.

Source paths are relative to the repository; `src/aegis/kernel.py` in the text is
the file `src/src/aegis/kernel.py` of `PROJECT.json`.

## 1. The system

### Components, their state and how they interact

| component | state it keeps | operations | talks to |
|---|---|---|---|
| Kernel (`kernel.py`) | nothing across requests but the store | `run`, `run_sequence`, `run_proposed_plan` | model, policy, executor, verifier, store, audit |
| Objective store (`store.py`) | tables objectives, actions, observations, results | save/get objective, result, observation; `claim_action`; `update_action_state` | PostgreSQL, one commit per call |
| Interaction boundary (`interaction.py`) | nothing; one connection per request | `run`, `persist_fast_result`, `_run_proposed_plan` | resolvers, cognition, Kernel, store |
| Planning (`planning.py`) | nothing | materialize, validate, completion of requirements | Kernel |
| Audit (`audit.py`) | hash chain: audit_events, audit_chain_heads | `append`, `verify` | every component that changes state |
| Pack lifecycle (`pack_lifecycle.py`) | packs: bundle, status, grants, upgrade candidates | discover, install, enable, disable, remove, reconcile, approve | store, audit |
| Household, tasks (`household.py`, `tasks.py`) | one payload per space with versions and mutation ledgers; tasks | add, update, consume, purchase, complete | executors of reference packs |
| Personal memory (`personal.py`) | entities, goals, memories with supersession | observe, correct, forget | audit (one transaction) |
| Recovery (`interaction_recovery.py`) | a budget on the objective | classify, advance, bounded repair | boundary, cognition |
| Developer worker (`developer.py`, `developer_jobs.py`) | proposals, jobs, a repository | inspect, propose, apply approved, restore | web, CLI |
| Gateway transport (`openclaw.py`, `gateway_rpc.py`, `ambient.py`) | a socket, claims of notifications | open, type, receive, reconnect | terminal executors |
| Reference packs (`reference_packs.py`, `workspace.py`) | a Workspace of files per request | prepare, execute, verify | stores, providers, gateway |
| Adapters (`calendar.py`, `communications.py`, `devices.py`, `finance.py`) | a snapshot of transactions | create, cancel, send, control; import | external providers |
| Conversation, attachments (`conversation.py`, `attachments.py`) | messages; rows with files | append; upload | web |
| Web, CLI (`web.py`, `cli.py`, `static/aegis.js`) | the chat form; release configuration | message, status; release switch, jobs | boundary |
| Cognition (`interaction_cognition.py`, `decoding.py`, ...) | nothing | decide, repair, compare | model provider |
| Context (`interaction_context.py`, `reference_interaction.py`) | the evidence of the last result | resolve ordinals, focus, neighbours | stores |

`PROJECT.json` lists every part with what is modelled or why it is not.

A browser message carries a correlation id. Each submission (the original, a
retry, a second tab, a restarted process) is a request on a connection of its
own that runs the boundary, which runs a Kernel that lives for that request. All
they share is PostgreSQL, where every store call is a transaction of its own. So
the state of one correlation is changed by requests that interleave at every
commit and may die between any two.

### What is hard, and what makes each part correct

* **Kernel**: an external effect cannot be undone or asked about reliably. The
  claim (`INSERT .. ON CONFLICT DO NOTHING`) has to decide one caller among
  duplicates; a crash after the call must be finished from the recorded
  observation; an unknown outcome must be neither failure nor retry; success of
  the command must never count as success of the objective.
* **Boundary**: it persists a second time what the Kernel persisted, and what it
  writes loses to, or wins over, a racing duplicate's answer.
* **Plans**: several Kernels under derived correlations; order, prerequisites,
  completion and identity of the plan must survive replay, crash and races.
* **Audit**: many writers extend one hash chain; a fork is for ever, and a
  correction must commit with the event that explains it.
* **Household, memory, packs, finance**: read-modify-write of whole rows from stale
  copies. Other writers' changes are lost; what must survive is that the parts of a
  row stay in step (ledger and rows, bundle and grants, sources and transactions).
* **Tasks**: rows of their own and transactions over several of them, which
  deadlock.
* **Prepared writes**: what was approved, what was read, what was written and what is
  verified are four moments.
* **External effects, gateway**: answers are lost or late, somebody else makes the
  same event, output of one terminal is read by another command.
* **Follow-ups**: "the second one" is resolved in evidence, not in what the owner saw.
* **Developer worker, release switch**: several places (tree, row, process) have to
  agree after an interruption at any step.
* **Chat, attachments**: a row and an effect that are not one transaction.
* **Cognition**: many bounded repairs, many paths to one decision.

The hazards, each at its line, are in `PROJECT.json`, with the properties that
would catch them or why none does yet.

## 2. The modules

| module | models | checked by |
|---|---|---|
| `ObjectiveStore` | `PostgresObjectiveStore` as operators on four tables | all Kernel runs |
| `EffectLedger` | abstract: what the Kernel promises of external effects | `KeepsLedger` |
| `Kernel` | `Kernel.run` for racing requests | `kernel_*` |
| `KernelInvariant` | the inductive invariant, in three layers | `kernel_safety` |
| `KernelProofs` | theorems and proofs | TLAPS |
| `Interaction` | the boundary, composed with `Kernel` (EXTENDS) | `interaction*` |
| `InteractionInvariant` | the inductive invariant of the composition | `interaction` |
| `PlanMaterialization` | from a proposal and its second reading to a plan: functions | `plan*` |
| `PlanSequence` | `run_sequence` on those plans (EXTENDS); step Kernels at what `EffectLedger` promises | `plan*` |
| `AuditLog` | abstract: an append-only log | `KeepsLog` |
| `AuditChain` | `PostgresAuditLog` and the owner's corrections | `audit` |
| `TaskStore` | `PostgresTaskStore` with its executors and verifiers | `audit` |
| `Cognition` | `decide_fallback` | `audit` |
| `HouseholdStore` | `PostgresHouseholdStore`, its executors and verifiers | `components`, `pantry_lost_update` |
| `PersonalMemory` | `PersonalState` and its store | `components` |
| `PackLifecycle` | `PackManager` and its store | `components` |
| `PreparedEffects` | `prepare_reference_action`, the Workspace executors and verifiers | `components` |
| `ExternalEffects` | calendar, messages, devices | `components` |
| `Gateway` | the terminal channel | `components` |
| `FollowUps` | lists, ordinals, focus and neighbours across requests | `components` |
| `DeveloperWorker` | jobs, proposals, approval, application | `components` |
| `ReleaseSwitch` | `_owner_switch_release` | `components` |
| `Conversations` | the chat form, `POST /api/message`, the conversation's rows | `components`, `chat_retry` |
| `Attachments` | `PostgresAttachmentStore.create` | `components` |
| `FinanceLedger` | `import_csv` over the snapshot | `components` |
| `MC*` | instances for TLC | |
| `InteractionProofs`, `PlanProofs` | theorems and proofs about the module each extends | TLAPS |
| `TablesProofs` | the same for `AuditChain`, `TaskStore` and `Cognition`, a part each, and for the three in one run (`MCAudit`) | TLAPS |
| `FollowUpProofs` | the same for `FollowUps` | TLAPS |
| `CopyProofs` | the same for `PackLifecycle` and `PersonalMemory` | TLAPS |
| `ComponentProofs` | the same for `Gateway`, `ReleaseSwitch`, `Attachments`, `Conversations`, `ExternalEffects`, `DeveloperWorker`, `FinanceLedger`, `HouseholdStore`, `PreparedEffects`, a section each | TLAPS |
| `CompositionProofs` | the components in one run (`MCComponents`) | TLAPS |

`MCComponents` puts the components that share no state side by side: `component`
picks one, and only that one moves. Their product would show nothing more, since
none reads another's variables. `MCAudit` does the same for the three parts whose
question is whether they end. What does interact is composed for real: `Interaction`
extends `Kernel`, `PlanSequence` extends `PlanMaterialization` and stands on
`EffectLedger`, which `Kernel` implements.

### Kernel and ObjectiveStore

A request's `pc` is a place in `Kernel.run`; one action is the code up to and
including one committed statement. `held` is the local `objective`, `act` the
`action`, `won` is `claim.acquired`, `seen` the `observation`, `out` the Result.
`objectives`, `actions`, `observations`, `result` are the tables, restricted to
one correlation (`newest` is `ORDER BY updated_at DESC`). `results` has the
correlation id as its primary key, hence a single row whose `key` says under
which idempotency key it was saved last. `calls`, `reported` and `effects` are
the outside world.

Abstractions, each of which keeps every order the code can produce:

* A Kernel is made for one request (`interaction.py:866`), so its `_results` and
  `objectives` dictionaries are empty at entry and never answer a lookup.
* `actions.state` is written by `update_action_state`, a transaction of its own,
  and nothing in the Kernel reads it; it is written together with its neighbour.
* `audit.append` is left out of `Kernel`; an append that raises is a `Crash`.
* A fresh UUID is an id that nothing in the state names (`FreshIds`), so ids
  are recycled and the number of rows ever created is not bounded.
* One authorized principal; the policy answers as it likes at every request.
* `observations` keeps what a read gives back: `Stored` drops the typed
  assurance, as the table does.
* Executors report one of four kinds; whether the effect landed is independent
  of what is reported. A verifier never confirms what is not there, and may fail
  to confirm what is (`Confirms`, external).
* The fast path at the head of `Kernel.run` returns before any state is touched.

### Interaction

`stage` is the place in `InteractionBoundary.run`. `DecideDirect` stands for
every branch that ends in `persist_fast_result` without the Kernel, `DecideCard`
for the choice and grounding of a card, and `InKernel` runs `Kernel`'s own
actions. `PersistObjective` and `PersistResult` are the two commits of
`persist_fast_result`; the first writes an objective without the action.

### PlanSequence

A plan is what `PlanMaterialization` makes of a proposal: its steps, what each rests
on, which requirement each meets; `bound` means it came with an ObjectiveSpec and a
validated plan, as the boundary requires (`interaction.py:298`). `FaithfulReading`
compares it with the independent reading of the utterance: citations that stand
where they say (or in one place only), one effect for each structural anchor,
effects mapped to cards, requirements and effects the same. `ValidatedPlan` is
`materialize_validated_plan`: argument names, dependencies to earlier steps without
cycles, one new requirement for each step. `wanted` and `units` are notes for
`CompletePlansAreDone`, which so speaks of the utterance and not of the plan that
was made of it. Plans are named by their place in `Plans`, and the policy may refuse
by action. `MCPlan` starts from eleven proposals: two become one plan, its effects
found in two orders, and the others are refused. A step is identified by index and
action (the uuid5 of `kernel.py:642`). The step's Kernel is six actions that allow exactly what `EffectLedger` allows and `Kernel` is
proved to implement: one claim, one call, one record, Results that follow from
the record and the world, including a slower duplicate that puts FAILED over
COMPLETED.

### AuditChain

One action per SQL statement; what a transaction wrote is `pending` until
`Commit`, and `lock` is the row lock of `FOR UPDATE`. A hash is a number that the
event id makes unique. `Verifies` is the walk of `verify()`, and `Chain` (the
sequence the walk visits) maps the table to `AuditLog`.

### HouseholdStore, TaskStore, PersonalMemory, PackLifecycle, FinanceLedger

A caller is a request on a connection of its own; `at` is the statement it is
about to make, `copy` what it loaded, and each statement is an action. Household
operations are grounded first (`look`): their ids and expected version are what the
table showed then. A household is one record (list, stable-ID items, pantry, chores,
events, each with its ledger of idempotency keys), because the code writes it as one
payload. `Replayed` is the ledger's answer to a key it knows. A task is a row;
`lockedBy` holds row locks until commit, `InCircle` is PostgreSQL's abort of a
deadlocked transaction. `SaveMemories` upserts the whole copy, as `save` does, which
brings removed memories back; `Deletable` is the DELETE with its foreign key. In
`PackLifecycle` a manager is about one Pack (rows of different Packs are
independent), `release` is what new requests run, so managers of two releases
overlap; `approved` is a history variable. In `FinanceLedger` a row is a provider's
id, what it says, and its status; `Merged` is the reconciliation, and what is written
back is the merged copy.

### PreparedEffects, ExternalEffects, Gateway

A kind of action is a record: the sources it reads in their order, whether the
content is frozen with the promise, how many files it writes, how it is checked.
Each of the code's prepared actions is one definition of that form, mapped to its
preparation, executor and verifier. `Read` is one read of one source, and `Drift`
changes a source at any time, for days while the approval is pending. In
`ExternalEffects` a key is claimed once (`Kernel` sees to that); `flying` is a request
that is on its way and may still arrive after the caller was told of a timeout;
`SomebodyElse` uses the same calendar and switches. What an adapter says of a call
without an answer is as the code says it, right or wrong: `WithoutAnswer` (any nonzero
exit of the message client is a rejection, `communications.py:242`) and `Unreadable` (an
answer in bytes that do not decode is a ValueError, and a rejection,
`reference_packs.py:4170`). The Today report reads a source of its own, `clock`, since
it drops events that have begun (`reference_packs.py:848`). `Gateway` has one channel for
all terminals of a plan; `frames` are events not yet received, whichever terminal they
came from; the probe's wait ends at the echo of its own line, and its receipt decides.

### FollowUps and Cognition

`received` is the list the owner saw last, `prior` the evidence of the last result,
which alone is handed to the next request; `reference` the record an ordinal was
taken for. Questions that forget the list, hand on another one, or leave a focus do
so here. `Candidates` is the evidence's order, cut at `CandidateLimit`. Other
conversations create and close records meanwhile. Left out: that a display is cut at
20 entries, and "what else is on the list", which shows some groceries and hands on
all (`reference_interaction.py:3063`). Two cases are not claimed: obligations of which
some are settled are counted by ordinals but not shown; and a question that hands on
a list without showing it replaces the list there was.

`Cognition` is the pipeline of one decision: each stage that calls the model is an
action with every outcome the decoder lets through, or a provider that raises. An
utterance is what matchers, parser and cards make of it (ten in `MCAudit`), `setup` how
the runtime is wired. A decision is its kind and the parts later stages look at.

### DeveloperWorker, ReleaseSwitch, Conversations, Attachments

`worktree` and `revisions` are the repository, which the owner edits, commits and
discards in at any step; a content is the revision or job it is from. `alone` notes
that nobody else wrote while an approval was applied: only then is the outcome
promised, since the code takes no lock. No symbolic links. In `ReleaseSwitch` three
places name a release (drop-in, what systemd loaded, the process), and the command
can be interrupted between any two steps, and in the middle of a write, which leaves the
drop-in empty (`Blank`, also a text that could not be read). In `Conversations` a post
is one HTTP request, given numbers in turn; a row is of a conversation, a correlation and
a role, and a message is sent to whichever conversation is shown (`Submit`), also when it
is sent again; `canonical` is what `get_request_status` would find.
`Attachments` has uploads of one content; an insert waits for another's uncommitted
row; `unheard` are commits that took effect and raised.

## 3. The runs

| run | instance | shows |
|---|---|---|
| `kernel_safety` | 2 requests, 2 actions (one with a preparer, one without contract), 4 objective ids, 1 crash, 1 replay; 1.46 M states | type, inductive invariant, four safety invariants, refinement of `EffectLedger` |
| `kernel_liveness` | 2 requests, 1 action, an executor that succeeds or is ambiguous, 1 crash, replays unbounded; 0.39 M states | `ComingBackVerifies` |
| `interaction` | 2 requests, 2 actions, direct answers, 1 crash, 1 replay; 1.4 M states up to the names of requests and actions | the Kernel's promises hold around the boundary; inductive invariant `BoundaryIInv` |
| `plan` | 2 requests; plans made of 11 proposals: a 3-step bound plan that repeats an action, or a bare pair; the second action may be refused; 1 crash; 2.0 M states | completion, order and durability of plans |
| `audit` | 3 writers (2 correctors), 4 writes; 2 requests for tasks with one key, 2 open tasks, 1 death; 10 utterances in 3 setups; 0.14 M states | one unforked chain, provenance, refinement of `AuditLog`; tasks single, sets whole; bounded, accounted decisions; nobody waits for ever |
| `components` | 12 components, each on an instance of its own (below); 1.51 M states | what each promises under races, failures and restarts |
| `kernel_unknown`, `interaction_durable`, `interaction_drift`, `plan_rebinding`, `pantry_lost_update`, `chat_retry` | the smallest instance that shows it | the findings below |

Why the bounds are enough: two requests exhaust the roles a request can have
towards another (holder of the claim, loser, recoverer of its observation, late
writer); a third only repeats one. One crash puts a request that never returns
at every place; one replay adds a third incarnation after it. Two actions give a
decision that differs between requests. Four or five objective ids are enough for
every id that can be named at once, so `Create` is never blocked. In `plan` three
steps give a repeated action, a dependency that skips a step and an independent
step; the executor reports success or an unknown outcome, and a failed
verification gives FAILED; the proposals are wrong in each way a check refuses. In `audit` two correctors race each other and a plain
append, and a fourth write follows a failure. Deadlock checking is off in runs
that bound replays or writes: there the system really stops. Requests are
symmetric in the safety runs of the kernel, the boundary and the plan, and in
`interaction` actions too, since there each is of the same kind; no run with a liveness
property uses symmetry.

In `components`: two household requests that are duplicates, with stock for one of two
portions and a food listed before there were ledgers; three requests about one
remembered fact (correction upon correction, and a stale save); two Packs, one
enabled by itself, two releases that ask for more and for less, two managers, one
crash; two prepared writes of ten kinds, one for each combination of sources,
freezing and check, and the report that reads the clock, one drift; two external keys and one change by somebody else;
three terminal commands, a wait of 2 events instead of 32, so that giving up happens;
four records of which titles and times repeat, 3 candidates instead of 10, so that a
list is longer than what a follow-up can refer to, three windows of time; one
developer job, two files, two approvals, two steps of the owner's, one restart; three
releases of which one does not come up, three switches; three posts of two messages
in two conversations, and one mishap (with two, checked once, the chat alone has 0.93 M
states; two are in `chat_retry`); three uploads and two breakdowns; three imports of three exports and
one outage. No symmetry: the states it would save cost more to normalise than to visit.

What the properties say:

* `AtMostOnce`: whatever races, crashes and returns, one executor call per action.
* `CompletionVerified`: no row and no answer says COMPLETED of an action whose
  effect did not land.
* `RetryOnlyReverifies`: a retry is offered only when it cannot execute again.
* `AmbiguousStaysOpen`: an outcome on record as unknown is not reported as a
  failure and not offered for retry (actions without a contract excepted: the
  code fails them before it asks).
* `KeepsLedger`: all of it together, as a refinement of a four-action ledger.
* `ComingBackVerifies`: a request that comes back to a recorded success that landed
  ends, unless it is turned away or cut off or the read-back fails, as stored COMPLETED.
* `CompletePlansAreDone`, `DependentsWait`, `CompletionIsKept`: a plan is complete
  only when each step had its effect as often as the plan names it; no step is
  called before what it rests on; a bound plan's COMPLETED is never taken back.
* `ChainVerifies`, `HeadIsTip`, `CorrectionHasProvenance`, `KeepsLog`, `WritesEnd`.
* `OneTaskPerKey`, `SetsCompleteTogether`, `TaskRequestsEnd`: duplicates leave one task
  and see that one; a set is completed whole or not; deadlocked sets end too.
* `CallsAreBounded`, `WritesAreAccounted`: at most 20 model calls for a request,
  through every repair; a returned write is the whole request as the parser reads it.
* `LedgersAccountForRows`: whatever payloads overwrite each other, each key accounts
  for one row and each listed string has its stable record.
* `CorrectionsLeadToCurrent`: a superseded memory leads to a current one.
* `AuthorityIsApproved`: an enabled Pack holds what its bundle declares, and nothing
  that was never approved.
* `VerifiedAsPromised`, `MismatchMeansChange`: verified content is the approved one; a
  mismatch is due to a change of what is read (for the Today report the time is), and
  never of what was frozen.
* `AssuranceIsTruthful`: what was not attempted and a cancellation that was rejected never
  land, a rejected creation or change is not still on its way, and a completed creation or
  message was made once. A rejected message may have been sent, see below.
* `SuccessMeansRan`: a command reported as successful ran, once.
* `OrdinalsNameWhatWasReceived`: an ordinal means the record in that place of the list
  the owner received last.
* `AppliesExactly`: an undisturbed application ends in base plus approved changes.
* `SwitchAnswersTruth`: ready means all three places, failed with its restoration gone
  through means that the text that was read is back and the other two follow it.
* `MessagesAreHandedOnOnce`: at most once from each conversation, with the owner's row
  there; an answer has its reply on record there. A retry from another conversation is
  handed over again, and `AtMostOnce` of the kernel is what keeps its effect single.
* `AttachmentsAreKept`: an upload that was answered has its row and its file.
* `SourcesAreHeld`: each row of a complete source has one transaction.

### Fairness

`Kernel`: weak fairness on each request's next step, and nothing else: the server keeps
running a request it accepted. Whether a caller comes back is not assumed; in the
conversation of the first submission it cannot even be promised, since the browser's
retry is refused there before Core (`chat_retry`). A second tab, another conversation or a
restarted command do come back, and for those `ComingBackVerifies` says what follows.
No fairness makes an executor succeed, a verification confirm or a policy allow. A
process that dies between the claim and the observation leaves the action EXECUTING for
ever: the code chooses that over a second call, so the property starts from a recorded
success. `kernel_liveness` has no preparer and a policy that allows: a preparation that
fails while another request executes saves a final BLOCKED under the same key.

`AuditChain`: weak fairness on each started write; PostgreSQL grants a free row
lock to somebody, and the number of writes is bounded, so nobody starves.

`TaskStore`: weak fairness on the next step of a request that was made, the abort of a
deadlocked transaction included (PostgreSQL's deadlock detection); none on making or
killing one. `WaitingSpec` of `MCAudit` is both. `Cognition` and the components of
`MCComponents` are checked for safety only.

### Findings

* `kernel_unknown`: the observations table has no column for the typed assurance,
  so an unknown calendar outcome that is recovered after a crash is FAILED.
* `interaction_durable`: a duplicate's EXECUTING answer overwrites the durable
  COMPLETED Result of its correlation.
* `interaction_drift`: the boundary's objective drops the action; a retry of the
  same correlation can execute a different one.
* `plan_rebinding`: two requests that race before the plan is stored execute the
  steps of two plans under one correlation.
* `pantry_lost_update`: the "optimistic version checking" of a consumption looks at the
  loaded copy; of two consumptions with one version both succeed and one is lost.
* `chat_retry`: once the owner's row of a message is there, every retry of the message
  is refused with 403 before Core is asked.

Quotes and lines are in `PROJECT.json`. One more divergence is modelled without a run of
its own: `OpenClawCliCommunicationSendProvider` calls any nonzero exit of its client
`DEFINITELY_REJECTED` (`communications.py:242-247`), also of a client that sent the
message and failed afterwards (`WithoutAnswer`), and so does an answer to a created or
changed event whose bytes do not decode (`Unreadable`). Both are final failures of an
effect that happened, so `AssuranceIsTruthful` does not promise that a rejection of a
message, a creation or a change is without effect.

## 4. The proofs

The theorems hold for every set of requests, writers, keys, plans and files and every
bound, from the named assumptions of the modules alone; TLC evaluates each of these in
a passing run. What follows names, for each module, the theorems that state a property
of a run, and the invariant they rest on. No property below is inductive: each says what
an observer sees, and the invariant says what the code knows at each place it can be.

### Kernel (`KernelProofs`)

| theorem | statement |
|---|---|
| `KernelInvariance` | `Spec => []KernelIInv` |
| `TypeCorrect` | `Spec => []TypeOK` |
| `ExecutesAtMostOnce` | `Spec => []AtMostOnce` |
| `CompletesOnlyVerified` | `Spec => []CompletionVerified` |
| `RetriesOnlyReverify` | `Spec => []RetryOnlyReverifies` |
| `AmbiguityIsKept` | `Spec => []AmbiguousStaysOpen` |
| `ImplementsLedger` | `Spec => KeepsLedger` |

`AtMostOnce` says nothing of a request that is about to call; `CompletionVerified`
nothing of a `won` request that will finish a claim somebody else made. `KernelIInv`
adds this in three layers:

1. **Control**: the place of a request determines what it holds: past the decision
   it holds an objective, into whose row it writes no other action; while deciding
   its row is about no action; past the claim the action row exists and names an
   objective. And a row is *about* one action at most: the one it names, the one a
   claim names it for, the one of a request that holds it. (That a row names its
   action would be stronger, and is false inside the boundary, which clears it.)
2. **Custody**: at most one request *owns* an action (it won the claim and has not
   yet recorded the outcome); an owner about to call has seen no call; a call
   implies a claim, a record implies the one call; a request that did not win
   gets to `execute` only with a record to finish from.
3. **Published**: whatever a row, a held copy or a Result says of an action is
   justified by the world and the record (COMPLETED by an effect, FAILED and
   OBSERVED by a record that is not ambiguous, retryable by a recorded success).

Each layer is preserved by every action that starts where it and the layers
before it hold, so each has its own induction step, with a case per action; the
layers are combined in `KernelInvariance`. `ImplementsLedger` shows the initial
states of `Kernel` to be initial in the ledger and maps each action to a ledger action
(`Execute` to `Call`, `RecordObservation` to `Record`, a save of a Result to `Publish`
or `Reject`) or to a stutter. `KernelIInv` is also an invariant of `kernel_safety`.

### Interaction (`InteractionProofs`)

| theorem | statement |
|---|---|
| `BoundaryInvariance` | `BoundarySpec => []BoundaryIInv` |
| `BoundaryTypeCorrect` | `BoundarySpec => []BoundaryTypeOK` |
| `BoundaryExecutesAtMostOnce` | `BoundarySpec => []AtMostOnce` |
| `BoundaryCompletesOnlyVerified` | `BoundarySpec => []CompletionVerified` |
| `BoundaryKeepsAmbiguity` | `BoundarySpec => []AmbiguousStaysOpen` |

The same promises when the boundary writes to the same objectives before, between and
after the Kernel's transactions. `BoundaryIInv` is `KernelIInv` and, for each request,
what the stage of the boundary says of the Kernel's place in it (`StageOK`): outside
`kernel` the Kernel of this request is at rest, inside it has a card. A step inside the Kernel is one of the
Kernel's own actions, so the lemmas of `KernelProofs` carry it; a step of the boundary
touches no claim, call, effect or observation, and what is to show is that the
row it writes keeps Control and Published: `PersistObjective` clears the action
of a row, `PersistResult` stores the Result that the Kernel published, or of no action.

### Plans (`PlanProofs`)

| theorem | statement |
|---|---|
| `PlanTypeCorrect` | `Spec => []PlanTypeOK` |
| `DependentsDoWait` | `Spec => DependentsWait` |
| `CompletionStays` | `~Rebinds` gives `Spec => CompletionIsKept` |
| `CompletionMeansDone` | `~Rebinds` and `PlansAreMade` give `Spec => []CompletePlansAreDone` |

`PlanIInv` has what each request believes: the requirements it saw satisfied, the steps
it passed, and the prerequisites of the step it is at have had their effect. Effects
stay, so others cannot disturb this, and `DependentsWait` holds whatever the callers
present. What the stored rows and answers say needs `SinglePlanIInv`: one plan for all
requests of the correlation. That the callers present one plan is the constant
`~Rebinds`: an assumption about callers that the code does not enforce, and without it
one correlation can be two plans (the finding `plan_rebinding`). `PlansAreMade` says that each plan
is the output of one of the three materializations in `PlanMaterialization` (the plan
that Kernel is handed is never made otherwise); the proof then follows the
distinct places of structural units and the second reading's effects through
`FaithfulReading` to steps (`FaithfulPlansCover`), which is what gives "as often as the
utterance asks".

### Audit chain (`TablesProofs`)

| theorem | statement |
|---|---|
| `TheChainVerifies` | `Spec => []ChainVerifies` |
| `TheHeadIsTheTip` | `Spec => []HeadIsTip` |
| `CorrectionsHaveProvenance` | `Spec => []CorrectionHasProvenance` |
| `ImplementsLog` | `Spec => KeepsLog` |

`ChainVerifies` speaks of a walk whose result is a recursive function of unbounded data,
so it cannot be the invariant. `Chained` says instead that there is a numbering of the
hashes, from the genesis to the head, that accounts for every committed event exactly
once; a commit extends it by one. `WriterOK` has what makes that true: only the holder of
the head's row lock is past reading it, and what it read is the head still. `WalkIs`
then shows that the walk finds the numbering (by a least counterexample: the library's
induction theorems cannot be used here), and `ImplementsLog` that a step leaves the
sequence it visits alone or appends to it.

### Tasks (`TablesProofs`)

| theorem | statement |
|---|---|
| `OneTaskForEachKey` | `TaskSpec => []OneTaskPerKey` |
| `SetsAreCompletedWhole` | `TaskSpec => SetsCompleteTogether` |

The unique index gives one task per key; that each caller *sees* that task needs
`RequestOK`: what a request carries to its last statement was read of a row with its
key, and rows keep key and title (`Kept`). For sets, every row a transaction has passed is
locked by it or completed already, up to the commit.

### Packs and memories (`CopyProofs`)

| theorem | statement |
|---|---|
| `NoAuthorityIsImplicit` | `PackSpec => []AuthorityIsApproved` |
| `EveryCorrectionLeadsToCurrent` | `MemorySpec => []CorrectionsLeadToCurrent` |

Both components write whole rows back from copies that may be old. In `PackLifecycle`
each copy satisfies by itself what the stored row must (`RowOK`), since an approval is
never withdrawn. For memories this is not enough: two tables without a cycle can make one
together. `NeverTurnsBack` therefore orders supersession over the table and all copies
at once; a correction adds an edge to a memory that no edge leaves.

### Household, finance, prepared writes (`ComponentProofs`)

| theorem | statement |
|---|---|
| `TheLedgersAccount` | `HouseholdSpec => []LedgersAccountForRows` |
| `TheLedgerHoldsItsSources` | `FinanceSpec => []SourcesAreHeld` |
| `VerifiedMeansPromised` | `PreparedSpec => []VerifiedAsPromised` |
| `MismatchesHaveReasons` | `PreparedSpec => []MismatchMeansChange` |

A household payload is `InStep` when each ledger accounts for its rows; each operation
keeps a payload in step and each loaded copy is one. The exception are ids a request makes
for itself: nothing may contain them before it saves (`NothingSaved`). In finance `Holds`
is asked of the snapshot and each copy, and an import keeps it: reconciliation replaces
a pending row by the posted one of its source, one for one. Of prepared writes the
sources only grow in version, so what was promised is no newer than what is written,
and no newer than what is there now; so a mismatch shows a change. The notes file is
written by several requests and could return to an earlier content, which would make an
honest mismatch look baseless; the invariant says that it never does (`Was`, `EndsWith`:
each request appends once, and the content ends with it).

The types of these components are theorems too (`HouseholdTypeCorrect`,
`FinanceTypeCorrect`, `PreparedTypeCorrect`). For two of them the invariants above are not
enough, and a second one is proved on top. `HouseholdStocked` follows what a request knows
from its grounding to its save: that a quantity is one rests on the version check, and on
the quantity that `UpdatePantry` looked up before it loaded. `PreparedTyped` bounds what was
read by what there is to read, in three phases that share the vector and reset it.

### Cognition (`TablesProofs`) and follow-ups (`FollowUpProofs`)

| theorem | statement |
|---|---|
| `CognitionInvariance` | `CognitionSpec => []CognitionIInv` |
| `ADecisionIsBounded` | `CognitionSpec => []CallsAreBounded` |
| `ChangesAreAccounted` | `CognitionSpec => []WritesAreAccounted` |
| `CognitionTypeCorrect` | `CognitionSpec => []CognitionTypeOK` |
| `FollowUpsInvariance` | `FollowUpsSpec => []FollowUpsIInv` |
| `OrdinalsNameTheListReceived` | `FollowUpsSpec => []OrdinalsNameWhatWasReceived` |
| `SortingIsStable` | `Sorted(list, before)` is a permutation of the list in which what stands earlier precedes |
| `EvidenceIsOfRecords` | `FollowUpsSpec => []FollowUpsTyped` |
| `FollowUpsTypeCorrect` | `FollowUpsSpec => []FollowUpsTypeOK` |

Each repair loop has its own bound in the code, their sum has none: it is a fact of the
pipeline. `Left` says, for each stage, the repair in hand and the kind of the decision,
how many calls may still follow, and every step pays for its call out of it. The kind
matters since a plan that passed the comparison is not asked about again (0 left, where
any other decision may still cost 8). So the first stage has 20, which is `MostCalls`.
That a change is accounted for is inductive once it is asked of the decision too, from
the last check on: the focused repairs may then give it other arguments, or make it no
change, but never a change out of a reading. That the end returns something needs
`DecidedOK`: what is past the routing has a decision, which `Check` and the repair of the
arguments may return as it is.

An ordinal is taken from evidence that has been cut, reordered, extended and handed on by
clarifications since the list was shown. `Agrees` is what survives: up to the limit the
evidence has in each place the record that the list has there, and a list within the
limit is there as a whole. `CandidatesAre` says why `Candidates` keeps it (the cut-off
dated tasks are added after the limit, and none is added to a list within it), and each
action shows its list and hands it on, hands on candidates, or forgets one of the two.
Obligations are shown without the settled ones, so for them it rests on nothing being
settled, which no operation changes. `Only`, the filter that the lists are made with, is
a recursive function; what the proof needs of it (`OnlyIs`: a list again, and the whole
list if nothing is dropped) is shown from a least counterexample. Lists are of any
length, the limit and the times are any numbers.

`FollowUpsTyped` is the invariant behind the types: whatever a list, the evidence, its
focus or a reference names is a record that there is (`ShownOf`, `PriorOf`), so no resolver
makes one up or takes the first of an empty list. It needs the operators to be closed
under records, which is immediate for a filter or a cut and not for an order:
`Sorted` picks for each place the record that as many others precede, so that every place
is taken is a fact about counting (`PlacesFollowOrder`: what precedes a record is properly
contained in what precedes the next). From it follows `SortingIsStable`, for repeated and
for equal records too.

### Gateway, effects, worker, switch, chat, attachments (`ComponentProofs`)

| theorem | statement | what the invariant adds |
|---|---|---|
| `GatewaySuccessMeansRan` | `GatewaySpec => []SuccessMeansRan` | a marker on the channel is of a command that ran; a shell that is past the run ran once |
| `AssuranceIsSo` | `ExternalSpec => []AssuranceIsTruthful` | for each key what may still be on its way and what has been posted; of what is called rejected only a message may be on its way |
| `ApplicationsAreExact` | `DeveloperSpec => []AppliesExactly` | what the tree is at each place of an application nobody disturbed, the partly written ones included |
| `TheSwitchAnswersTruth` | `ReleaseSpec => []SwitchAnswersTruth` | which of the three places agree at each place of the command, and where there is a text to restore |
| `MessagesGoOnOnce` | `ConversationsSpec => []MessagesAreHandedOnOnce` | who may hand a message on is the one that inserted its row in that conversation |
| `AttachmentsStay` | `AttachmentsSpec => []AttachmentsAreKept` | an uncommitted row is one upload's; a committed one is of an upload that is over |

### The runs as a whole (`TablesProofs`, `CompositionProofs`)

| theorem | statement |
|---|---|
| `TablesRunApart` | `WaitingSpec => Spec /\ TaskInit /\ [][TaskNext]_taskVars /\ CognitionSpec` |
| `TablesTypeCorrect` | `WaitingSpec => []TablesTypeOK` |
| `TablesAreCorrect` | the six safety invariants of the run `audit` |
| `TablesKeepTheLog` | `WaitingSpec => KeepsLog /\ SetsCompleteTogether` |
| `ComponentsRunApart` | `Spec => HouseholdSpec /\ MemorySpec /\ ... /\ FinanceSpec` |
| `ComponentsTypeCorrect` | `Spec => []ComponentsTypeOK` |
| `ComponentsAreCorrect` | the thirteen safety invariants of the run `components` |

What TLC checks on the runs `audit` and `components` is proved here of the very
specifications that they name, for every value of the constants of all their parts: a step
of one part is a stutter of the others, so a behaviour of the whole is one of each. Of the
tasks only the safety carries over. Their fairness does not, and should not: a behaviour
that is about the audit chain lets no request of the tasks go on, so `WaitingSpec` does not
imply `TaskSpec`. What ends is stated of `WaitingSpec` itself, and left to TLC.

### Assumptions

Each is a fact of the program or of what the constants stand for. `TaskAssumption`: the
open tasks are finitely many. `PackAssumption`: releases are numbered from 1.
`ExternalAssumption`: events have a title. `DeveloperAssumption`: the owner is not one of
the approvals. `FinanceAssumption`: an export is a list of rows, and "provider", which tags
the identities that are a provider's id, is not the name of a source (in the code the
others are digests of the source and the row, `finance.py:131`). `PreparedAssumption`:
requests are not the initial content of a file, nor the name of the notes.
`PlanAssumption`: the fields of a plan have their types, and it has at most five steps.

### Only model-checked

Liveness under fairness (`ComingBackVerifies`, `WritesEnd`, `TaskRequestsEnd`) is beyond the
prover. Every other property of a passing run is a theorem.

## 5. The plan

Modelling is done as far as section 6 says, and what the runs check of safety is proved.
Open are what section 6 lists, and that requests come to an end, for more than the
instances of the runs.

## 6. Not modelled, and why

* Text: prompts, decoding of JSON, embeddings, retrieval, vocabulary, utterance parsing,
  presentation and reports. The modules take what the code asks of a text.
* Clients that only read (research, weather, holidays, osint, cards, documents, health):
  they are the values of a source.
* The persisted recovery budget, progress of plans, household assignments and proactive
  suggestions, members and identity (single statements; one authorized principal),
  ambient notifications, the one-shot client of `openclaw.py`, backup and migrations
  (delegated to PostgreSQL and pg_dump), projections, evaluation, forge and the sprint
  tool. The in-memory and SQLite stores are test doubles with one writer.
* The chain head's first value over a table written by older processes.
* What a tree holds when two approvals, or an approval and the owner, write at the same
  time (`developer.py:438`): the model has them, `AppliesExactly` promises nothing of them.
  Nor does a property object to a job that is called interrupted while its worker goes on.
* The text of a message: that one sent again under its old correlation may have another
  text by then (`static/aegis.js:3747`) is not stated.

Read in the code and not covered by a run:

* `interaction_recovery.py:180`: counters are raised before they are compared; a third
  investigation stores 3 where the contract allows 2.
* `interaction_cognition.py:605` reads `source_raw`, which is bound only where research is
  wired (`Cognition` lets the stage fail there); a failed repair of a reading keeps the
  incomplete plan (468).
* `reference_packs.py:5890`: two appends to one Workspace file race; the later one
  writes what it read.
* `calendar.py:78`: an event without an end is created with its start as its end, and
  its verifier compares with no end.
* `finance.py:492`: a transaction that was pending in a source is skipped by its id when
  a later export of that source has it posted.
* `tasks.py:1191`: deadlines are compared as strings.
* `cli.py:627`: after an interrupted switch the status names the release that systemd
  loaded, not the one that is configured.
* `static/aegis.js:578`: for a request that is still running the button is labelled
  "Recheck status" while `pendingOutcomeUnknown` stays as it was, so that it may send the
  message again.
* `web.py:1128`: the import route names the errors it answers; one of the database
  leaves the handler.
