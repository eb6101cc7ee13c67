------------------------------- MODULE TaskStore -------------------------------
(* PostgresTaskStore of src/aegis/tasks.py, with its executors and verifiers.

   A task is a row of its own. tasks.create looks its idempotency key up and
   inserts in a later statement; tasks.complete reads a row and writes it back
   whole; tasks.complete_set lists the Space, checks that every selected task is
   open and then updates row after row in one transaction. Requests are on
   connections of their own and interleave between these statements. Row locks,
   the unique index on the key and the abort of a deadlocked transaction are
   PostgreSQL's (READ COMMITTED); nothing of the executors catches its errors.  *)
EXTENDS Naturals, Sequences, FiniteSets

CONSTANTS
  TaskCallers,   \* requests of members of the Space
  TaskKeyOf,     \* the idempotency key of each request; duplicates share one
  TaskTitles,    \* what a task says: its title and its due date
  OpenTasks,     \* the tasks there are at first, all open, each with a title
  TaskKinds,     \* the operations the callers ask for
  Deaths         \* bound: how many requests die half-way

ASSUME TaskAssumption ==
  /\ OpenTasks \in [DOMAIN OpenTasks -> TaskTitles]
  /\ IsFiniteSet(DOMAIN OpenTasks)
  /\ DOMAIN OpenTasks \cap TaskCallers = {}
  /\ TaskKinds \subseteq {"create", "complete", "complete_set", "list"}
  /\ Deaths \in Nat

VARIABLES
  tasks,      \* the committed rows, by id
  lockedBy,   \* the rows that a transaction in progress has updated, and whose it is
  request     \* each request: where it is, its operation, what it saw, its verdict

taskVars == <<tasks, lockedBy, request>>

Task(title, key) == [title |-> title, status |-> "open", key |-> key]
NoRequest == [at |-> "idle", op |-> [kind |-> "none"], shown |-> "nothing", verdict |-> "none"]

TaskInit ==
  /\ tasks = [id \in DOMAIN OpenTasks |-> Task(OpenTasks[id], id)]
  /\ lockedBy = [x \in {} |-> {}]
  /\ request = [c \in TaskCallers |-> NoRequest]

-----------------------------------------------------------------------------
(* Grounding: a completion names rows the table showed, in the order it named them. *)

IsOpen(id) == id \in DOMAIN tasks /\ tasks[id].status = "open"
Titled(title) == {id \in DOMAIN tasks : tasks[id].title = title}
\* the orders in which a set of two or three tasks may be named
Orderings(S) == {s \in [1..Cardinality(S) -> S] : \A i, j \in DOMAIN s : s[i] = s[j] => i = j}

TaskOperations(c) ==
  UNION {
    [kind : {"create"}, title : TaskTitles, key : {TaskKeyOf[c]}],
    [kind : {"complete"}, id : DOMAIN tasks],
    {[kind |-> "complete", title |-> t] : t \in TaskTitles},
    {[kind |-> "complete_set", ids |-> s] :
       s \in UNION {Orderings(S) : S \in (SUBSET {id \in DOMAIN tasks : IsOpen(id)}) \ {{}}}},
    [kind : {"list"}]}

GroundTask(c) ==
  /\ request[c].at = "idle"
  /\ \E op \in {o \in TaskOperations(c) : o.kind \in TaskKinds} :
       request' = [request EXCEPT ![c].op = op, ![c].at = "read"]
  /\ UNCHANGED <<tasks, lockedBy>>

-----------------------------------------------------------------------------
(* The store                                                                 *)

Moves(c, to) == request' = [request EXCEPT ![c].at = to]
Shows(c, what) == request' = [request EXCEPT ![c].at = "verify", ![c].shown = what]
TaskEnds(c, verdict) == request' = [request EXCEPT ![c].at = "done", ![c].verdict = verdict]
KeyHolder(key) == {id \in DOMAIN tasks : tasks[id].key = key}

\* create(): the lookup. A bound key answers with its task if the arguments are
\* the same, and raises if they are not; an unbound one goes on to the insert.
CreateLookUp(c) ==
  LET op == request[c].op
      bound == KeyHolder(op.key)
  IN
  /\ request[c].at = "read" /\ op.kind = "create"
  /\ \/ /\ bound = {}
        /\ Moves(c, "insert")
     \/ \E id \in bound :
          IF tasks[id].title = op.title THEN Shows(c, <<id, tasks[id]>>) ELSE TaskEnds(c, "raised")
  /\ UNCHANGED <<tasks, lockedBy>>

\* Fault: the idempotency key has no unique index.
NoUniqueIndex(key) == TRUE
\* the unique index of migrations/009: no other row has the key
KeyIsFree(key) == KeyHolder(key) = {}

\* create(): _write of a fresh row, and its commit
CreateInsert(c) ==
  LET op == request[c].op IN
  /\ request[c].at = "insert"
  /\ UNCHANGED lockedBy
  /\ IF KeyIsFree(op.key)
       THEN /\ tasks' = [id \in DOMAIN tasks \cup {c} |->
                           IF id = c THEN Task(op.title, op.key) ELSE tasks[id]]
            /\ Shows(c, <<c, Task(op.title, op.key)>>)
       ELSE TaskEnds(c, "raised") /\ UNCHANGED tasks

\* tasks.complete: the row by its id, or the one row of that title
SelectedTask(op) ==
  IF "id" \in DOMAIN op THEN {op.id} \cap DOMAIN tasks ELSE Titled(op.title)

CompleteLookUp(c) ==
  LET found == SelectedTask(request[c].op) IN
  /\ request[c].at = "read" /\ request[c].op.kind = "complete"
  /\ \/ /\ Cardinality(found) # 1
        /\ TaskEnds(c, "failed")
     \/ \E id \in found :
          /\ Cardinality(found) = 1
          /\ IF IsOpen(id)
               THEN request' = [request EXCEPT ![c].at = "write", ![c].shown = id]
               ELSE Shows(c, <<id, tasks[id]>>)
  /\ UNCHANGED <<tasks, lockedBy>>

\* complete(): _write of the whole row as it was read, which waits for its lock
CompleteWrite(c) ==
  LET id == request[c].shown IN
  /\ request[c].at = "write" /\ id \notin DOMAIN lockedBy
  /\ tasks' = [tasks EXCEPT ![id].status = "completed"]
  /\ Shows(c, <<id, tasks'[id]>>)
  /\ UNCHANGED lockedBy

\* complete_set(): the list, and the check that every selected task is open
SetCheck(c) ==
  LET ids == request[c].op.ids IN
  /\ request[c].at = "read" /\ request[c].op.kind = "complete_set"
  /\ IF \A i \in DOMAIN ids : IsOpen(ids[i])
       THEN request' = [request EXCEPT ![c].at = "update", ![c].shown = 0]
       ELSE TaskEnds(c, "failed")
  /\ UNCHANGED <<tasks, lockedBy>>

NextRow(c) == request[c].op.ids[request[c].shown + 1]

\* Fault: complete_set commits after each row.
CommitsEachRow(c) ==
  /\ tasks' = [tasks EXCEPT ![NextRow(c)].status = "completed"]
  /\ UNCHANGED lockedBy
\* UPDATE ... WHERE status = 'open' of the next row, which is locked from then on;
\* a row that is completed by now is left alone
UpdatesRow(c) ==
  /\ lockedBy' = IF IsOpen(NextRow(c))
                   THEN [x \in DOMAIN lockedBy \cup {NextRow(c)} |->
                           IF x = NextRow(c) THEN c ELSE lockedBy[x]]
                   ELSE lockedBy
  /\ UNCHANGED tasks

Updating(c) == /\ request[c].at = "update"
               /\ request[c].shown < Len(request[c].op.ids)
\* c's next update waits for d's transaction
WaitsFor(c, d) ==
  Updating(c) /\ NextRow(c) \in DOMAIN lockedBy /\ lockedBy[NextRow(c)] = d

SetUpdate(c) ==
  /\ Updating(c)
  /\ \A d \in TaskCallers \ {c} : ~WaitsFor(c, d)
  /\ UpdatesRow(c)
  /\ request' = [request EXCEPT ![c].shown = @ + 1]

Held(c) == {id \in DOMAIN lockedBy : lockedBy[id] = c}
Without(ids) == [id \in DOMAIN lockedBy \ ids |-> lockedBy[id]]

SetCommit(c) ==
  /\ request[c].at = "update" /\ request[c].shown = Len(request[c].op.ids)
  /\ tasks' = [id \in DOMAIN tasks |->
                 IF id \in Held(c) THEN [tasks[id] EXCEPT !.status = "completed"] ELSE tasks[id]]
  /\ lockedBy' = Without(Held(c))
  /\ Shows(c, request[c].op.ids)

RollsBack(c) == lockedBy' = Without(Held(c)) /\ UNCHANGED tasks

\* Fault: nobody breaks a circle of waiting transactions.
NeverAborted(c) == FALSE
\* c is one of several transactions that wait for each other in a circle, as two
\* sets do that name two tasks in opposite orders
InCircle(c) ==
  \E S \in SUBSET TaskCallers :
    c \in S /\ \A d \in S : \E e, f \in S : WaitsFor(d, e) /\ WaitsFor(f, d)

\* PostgreSQL aborts one of the transactions that wait for each other
DeadlockAbort(c) ==
  /\ InCircle(c)
  /\ RollsBack(c)
  /\ TaskEnds(c, "raised")

\* the process of the request dies, and its transaction with it
Die(c) ==
  /\ request[c].at \notin {"idle", "done"}
  /\ Cardinality({d \in TaskCallers : request[d].verdict = "dead"}) < Deaths
  /\ RollsBack(c)
  /\ TaskEnds(c, "dead")

-----------------------------------------------------------------------------
(* The verifiers read the table again.                                       *)

ListTasks(c) ==
  /\ request[c].at = "read" /\ request[c].op.kind = "list"
  /\ Shows(c, tasks)
  /\ UNCHANGED <<tasks, lockedBy>>

TaskKept(shown) == shown[1] \in DOMAIN tasks /\ tasks[shown[1]] = shown[2]
TaskSetKept(ids) == \A i \in DOMAIN ids : ids[i] \in DOMAIN tasks /\ ~IsOpen(ids[i])
TaskListKept(shown) == tasks = shown

TaskConfirmed(op, shown) ==
  CASE op.kind = "complete_set" -> TaskSetKept(shown)
    [] op.kind = "list" -> TaskListKept(shown)
    [] OTHER -> TaskKept(shown)

VerifyTask(c) ==
  /\ request[c].at = "verify"
  /\ TaskEnds(c, IF TaskConfirmed(request[c].op, request[c].shown) THEN "verified" ELSE "failed")
  /\ UNCHANGED <<tasks, lockedBy>>

TaskStep(c) ==
  \/ CreateLookUp(c) \/ CreateInsert(c) \/ CompleteLookUp(c) \/ CompleteWrite(c)
  \/ SetCheck(c) \/ SetUpdate(c) \/ SetCommit(c) \/ DeadlockAbort(c)
  \/ ListTasks(c) \/ VerifyTask(c)

TaskNext == \E c \in TaskCallers : GroundTask(c) \/ TaskStep(c) \/ Die(c)

\* a request that was made is carried on with, by its own process and the database
TaskFairness == \A c \in TaskCallers : WF_taskVars(TaskStep(c))

TaskSpec == TaskInit /\ [][TaskNext]_taskVars /\ TaskFairness

-----------------------------------------------------------------------------
(* Properties                                                                *)

TaskTypeOK ==
  /\ DOMAIN tasks \subseteq DOMAIN OpenTasks \cup TaskCallers
  /\ \A id \in DOMAIN tasks : /\ tasks[id].title \in TaskTitles
                              /\ tasks[id].status \in {"open", "completed"}
  /\ DOMAIN lockedBy \subseteq DOMAIN tasks
  /\ \A id \in DOMAIN lockedBy : lockedBy[id] \in TaskCallers
  /\ \A c \in TaskCallers :
       /\ request[c].at \in {"idle", "read", "insert", "write", "update", "verify", "done"}
       /\ request[c].verdict \in {"none", "verified", "failed", "raised", "dead"}

\* create looks its key up and inserts in another statement: of two duplicates
\* in flight at most one leaves a task, and the caller of the other is either
\* shown that very task or told of an error (tasks.py:150).
OneTaskPerKey ==
  /\ \A i, j \in DOMAIN tasks : tasks[i].key = tasks[j].key => i = j
  /\ \A c \in TaskCallers :
       request[c].op.kind = "create" /\ request[c].verdict = "verified"
         => \E id \in KeyHolder(TaskKeyOf[c]) : tasks[id].title = request[c].op.title

\* complete_set validates the set "in full" and completes it in one transaction
\* (tasks.py:185): whatever dies, deadlocks or completes single tasks beside it,
\* a task is only ever completed by a set together with all the others of the set.
SetsCompleteTogether ==
  [][\A c \in TaskCallers :
       (request[c].at = "update" /\ request'[c] # request[c] /\ tasks' # tasks)
         => \A i \in DOMAIN request[c].op.ids :
              tasks'[request[c].op.ids[i]].status = "completed"]_taskVars

\* Every request that was made comes to an end, two sets in opposite orders too.
TaskRequestsEnd ==
  \A c \in TaskCallers : request[c].at = "read" ~> request[c].at = "done"
=============================================================================
