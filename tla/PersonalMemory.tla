---------------------------- MODULE PersonalMemory ----------------------------
(* PostgresPersonalStateStore and PersonalState of src/aegis/personal.py, and the
   requests that use them: "remember that ..." (ExplicitMemoryCapture), an owner's
   correction in conversation (OwnerCorrectionLearning), the correction and the
   removal of a memory by its id (_memory_correct and _memory_remove of cli.py).

   A request loads every memory of the Vault, changes its copy and saves all of
   it: save upserts each memory of the copy, a removed one and a superseded one
   too, whatever other requests committed in between. Only a removal is a
   statement on one row. superseded_by is a foreign key (migrations/004).       *)
EXTENDS Naturals, FiniteSets

CONSTANTS
  Askers,       \* requests of the owner of the Vault
  Facts,        \* what a memory is about
  Remembered,   \* the memories there are at first, each with its fact
  NoMemory      \* superseded_by of a current memory

ASSUME MemoryAssumption ==
  /\ Remembered \in [DOMAIN Remembered -> Facts]
  /\ DOMAIN Remembered \cap Askers = {}
  /\ NoMemory \notin DOMAIN Remembered \cup Askers

VARIABLES
  memories,   \* the rows of personal_memories
  asker       \* each request: where it is, what it wants, its copy, the answer

memoryVars == <<memories, asker>>

Memory(fact) == [fact |-> fact, by |-> NoMemory]
NoWish == [at |-> "idle", wish |-> [kind |-> "none"], copy |-> "nothing", answer |-> "none"]

MemoryInit ==
  /\ memories = [m \in DOMAIN Remembered |-> Memory(Remembered[m])]
  /\ asker = [a \in Askers |-> NoWish]

Current(M) == {m \in DOMAIN M : M[m].by = NoMemory}
\* the current memories that a correction in conversation may be about
Correctable(M, fact) == {m \in Current(M) : M[m].fact = fact}

Wishes ==
  [kind : {"remember", "learn"}, fact : Facts]
    \cup [kind : {"correct", "remove"}, id : DOMAIN memories]

-----------------------------------------------------------------------------
(* PersonalState: the changes to a copy. A new memory has a fresh uuid, which the
   request that makes it names.                                              *)

AddMemory(M, a, fact) == [m \in DOMAIN M \cup {a} |-> IF m = a THEN Memory(fact) ELSE M[m]]
CorrectMemory(M, a, old) == [AddMemory(M, a, M[old].fact) EXCEPT ![old].by = a]

\* the one memory a correction is about, if there is one; it must be current
Target(M, wish) ==
  IF wish.kind = "learn" THEN Correctable(M, wish.fact) ELSE {wish.id} \cap Current(M)

Changed(M, a, wish) ==
  IF wish.kind = "remember" THEN AddMemory(M, a, wish.fact)
  ELSE CorrectMemory(M, a, CHOOSE m \in Target(M, wish) : TRUE)

\* save(): an upsert of every memory of the copy over the rows there are now
Saved(M, copy) ==
  [m \in DOMAIN M \cup DOMAIN copy |-> IF m \in DOMAIN copy THEN copy[m] ELSE M[m]]

-----------------------------------------------------------------------------
(* The requests                                                              *)

Replies(a, answer) ==
  asker' = [asker EXCEPT ![a].at = "done", ![a].answer = answer, ![a].copy = "nothing"]

AskMemory(a) ==
  /\ asker[a].at = "idle"
  /\ \E w \in Wishes :
       asker' = [asker EXCEPT ![a].wish = w,
                              ![a].at = IF w.kind = "remove" THEN "remove" ELSE "load"]
  /\ UNCHANGED memories

\* load_for_principal()
LoadMemories(a) ==
  /\ asker[a].at = "load"
  /\ asker' = [asker EXCEPT ![a].at = "save", ![a].copy = memories]
  /\ UNCHANGED memories

\* a correction without its one current target changes nothing
Refuse(a) ==
  LET wish == asker[a].wish IN
  /\ asker[a].at = "save" /\ wish.kind # "remember"
  /\ Cardinality(Target(asker[a].copy, wish)) # 1
  /\ Replies(a, "blocked")
  /\ UNCHANGED memories

\* save() and its commit; a learned correction commits with its audit event
SaveMemories(a) ==
  LET wish == asker[a].wish
      copy == asker[a].copy
  IN
  /\ asker[a].at = "save"
  /\ wish.kind # "remember" => Cardinality(Target(copy, wish)) = 1
  /\ memories' = Saved(memories, Changed(copy, a, wish))
  /\ Replies(a, "saved")

\* the transaction of a save fails and is rolled back: a learned correction says so
SaveFails(a) ==
  /\ asker[a].at = "save"
  /\ Replies(a, IF asker[a].wish.kind = "learn" THEN "blocked" ELSE "raised")
  /\ UNCHANGED memories

Referenced(m) == \E n \in DOMAIN memories : memories[n].by = m

\* Fault: the row is deleted although another one refers to it.
DeletesAnyCurrent(m) == m \in Current(memories)
\* DELETE ... WHERE superseded_by IS NULL, which the foreign key allows for a row
\* that superseded nothing
Deletable(m) == m \in Current(memories) /\ ~Referenced(m)

\* remove_memory() of the store: a current memory that corrected another one is
\* kept by the foreign key and the request raises; a superseded or missing one is
\* left alone, and the request is answered all the same
RemoveMemory(a) ==
  LET id == asker[a].wish.id IN
  /\ asker[a].at = "remove"
  /\ \/ /\ Deletable(id)
        /\ memories' = [m \in DOMAIN memories \ {id} |-> memories[m]]
        /\ Replies(a, "removed")
     \/ /\ ~Deletable(id)
        /\ Replies(a, IF id \in Current(memories) THEN "raised" ELSE "removed")
        /\ UNCHANGED memories

MemoryNext ==
  \E a \in Askers :
    AskMemory(a) \/ LoadMemories(a) \/ Refuse(a) \/ SaveMemories(a) \/ SaveFails(a) \/ RemoveMemory(a)

MemorySpec == MemoryInit /\ [][MemoryNext]_memoryVars

-----------------------------------------------------------------------------
(* Properties                                                                *)

MemoryTypeOK ==
  /\ DOMAIN memories \subseteq DOMAIN Remembered \cup Askers
  /\ \A m \in DOMAIN memories : memories[m].fact \in Facts
  /\ \A a \in Askers :
       /\ asker[a].at \in {"idle", "load", "save", "remove", "done"}
       /\ asker[a].answer \in {"none", "saved", "removed", "blocked", "raised"}

\* However stale the copies are that saves write back over corrections and
\* removals, and although a stale save brings a removed memory back, a superseded
\* memory always leads, correction by correction, to a current memory: none is
\* hidden (search and load drop superseded ones) with nothing in its place.
CorrectionsLeadToCurrent ==
  /\ \A m \in DOMAIN memories : memories[m].by \in DOMAIN memories \cup {NoMemory}
  /\ \A S \in (SUBSET DOMAIN memories) \ {{}} : \E m \in S : memories[m].by \notin S
=============================================================================
