------------------------------ MODULE AuditChain ------------------------------
(* PostgresAuditLog of src/aegis/audit.py, appended to by several connections at
   the same time, and the one caller that appends inside a transaction of its
   own: _persist_owner_correction_with_provenance of
   src/aegis/reference_interaction.py, which saves a correction of the owner's
   memory and the event about it as one unit.

   One action is one SQL statement. What a transaction has written is pending
   until it commits; FOR UPDATE holds the row of the chain head until then. A
   hash is an element of a bounded set of numbers: the event id it covers makes
   it unique.                                                                *)
EXTENDS Naturals, Sequences, FiniteSets

CONSTANTS
  Writers,     \* connections that append
  Correctors,  \* those that save a correction in the same transaction
  NoWriter,    \* nobody
  MaxWrites    \* bound on writes begun

ASSUME AuditAssumption ==
  /\ Correctors \subseteq Writers
  /\ NoWriter \notin Writers
  /\ MaxWrites \in Nat

VARIABLES
  events,    \* table audit_events: the committed rows
  head,      \* audit_chain_heads.head_hash, committed
  corrected, \* the writes whose correction is committed in personal_memories
  lock,      \* who holds the row of the chain head
  step,      \* where each writer is
  write,     \* the number of the write it is busy with
  previous,  \* the head it read
  pending,   \* what its open transaction has written: events, head, corrections
  begun      \* writes begun so far

vars == <<events, head, corrected, lock, step, write, previous, pending, begun>>

Genesis == 0
Hashes == 1..MaxWrites
Event(p, h) == [prev |-> p, hash |-> h]
Nothing == [events |-> {}, head |-> Genesis, corrected |-> {}]

AuditTypeOK ==
  /\ events \subseteq [prev : {Genesis} \cup Hashes, hash : Hashes]
  /\ head \in {Genesis} \cup Hashes
  /\ corrected \subseteq Hashes
  /\ lock \in Writers \cup {NoWriter}
  /\ step \in [Writers -> {"idle", "save", "lock", "insert", "advance", "commit"}]
  /\ write \in [Writers -> {Genesis} \cup Hashes]
  /\ previous \in [Writers -> {Genesis} \cup Hashes]
  /\ \A w \in Writers :
       /\ pending[w].events \subseteq [prev : {Genesis} \cup Hashes, hash : Hashes]
       /\ pending[w].head \in {Genesis} \cup Hashes
       /\ pending[w].corrected \subseteq Hashes
  /\ begun \in 0..MaxWrites

\* Fault: the head starts as another text than the one verify() starts from.
SeedsAnotherText == MaxWrites + 1
\* migration 016 seeds the row of the chain head
Seed == Genesis

Init ==
  /\ events = {} /\ head = Seed /\ corrected = {}
  /\ lock = NoWriter
  /\ step = [w \in Writers |-> "idle"]
  /\ write = [w \in Writers |-> Genesis]
  /\ previous = [w \in Writers |-> Genesis]
  /\ pending = [w \in Writers |-> Nothing]
  /\ begun = 0

-----------------------------------------------------------------------------
At(w, s) == step' = [step EXCEPT ![w] = s]

\* Fault: the transaction publishes its event and leaves the head where it was.
PublishOnlyEvents(w) ==
  /\ events' = events \cup pending[w].events
  /\ corrected' = corrected \cup pending[w].corrected
  /\ UNCHANGED head
\* COMMIT makes what the transaction wrote visible, all at once
Publish(w) ==
  /\ events' = events \cup pending[w].events
  /\ corrected' = corrected \cup pending[w].corrected
  /\ head' = IF pending[w].events = {} THEN head ELSE pending[w].head

\* Fault: a failed transaction is left open.
LeaveOpen(w) == UNCHANGED lock
\* the end of a transaction, however it ends, gives its lock back
Release(w) == lock' = IF lock = w THEN NoWriter ELSE lock

Finish(w) ==
  /\ Release(w)
  /\ pending' = [pending EXCEPT ![w] = Nothing]
  /\ At(w, "idle")
  /\ UNCHANGED <<write, previous, begun>>

Begin(w) ==
  /\ step[w] = "idle" /\ begun < MaxWrites
  /\ begun' = begun + 1
  /\ write' = [write EXCEPT ![w] = begun + 1]
  /\ At(w, IF w \in Correctors THEN "save" ELSE "lock")
  /\ UNCHANGED <<events, head, corrected, lock, previous, pending>>

\* Fault: the correction is saved with commit left at its default.
SaveAndCommit(w) ==
  /\ corrected' = corrected \cup {write[w]}
  /\ UNCHANGED pending
\* store.save(state, commit=False)
SaveInTransaction(w) ==
  /\ pending' = [pending EXCEPT ![w].corrected = {write[w]}]
  /\ UNCHANGED corrected

SaveCorrection(w) ==
  /\ step[w] = "save"
  /\ SaveInTransaction(w)
  /\ At(w, "lock")
  /\ UNCHANGED <<events, head, lock, write, previous, begun>>

\* Fault: SELECT without FOR UPDATE.
AnyoneReads == TRUE
HeadIsFree == lock = NoWriter

\* SELECT head_hash .. FOR UPDATE: waits for the holder, then reads what it left
LockHead(w) ==
  /\ step[w] = "lock" /\ HeadIsFree
  /\ lock' = w
  /\ previous' = [previous EXCEPT ![w] = head]
  /\ At(w, "insert")
  /\ UNCHANGED <<events, head, corrected, write, pending, begun>>

InsertEvent(w) ==
  /\ step[w] = "insert"
  /\ pending' = [pending EXCEPT ![w].events = {Event(previous[w], write[w])}]
  /\ At(w, "advance")
  /\ UNCHANGED <<events, head, corrected, lock, write, previous, begun>>

AdvanceHead(w) ==
  /\ step[w] = "advance"
  /\ pending' = [pending EXCEPT ![w].head = write[w]]
  /\ At(w, "commit")
  /\ UNCHANGED <<events, head, corrected, lock, write, previous, begun>>

Commit(w) ==
  /\ step[w] = "commit"
  /\ Publish(w)
  /\ Finish(w)

\* a statement raises, or the process dies: the correction is rolled back by its
\* handler, any other transaction when its connection is closed
Fail(w) ==
  /\ step[w] # "idle"
  /\ Finish(w)
  /\ UNCHANGED <<events, head, corrected>>

Work(w) == \/ SaveCorrection(w) \/ LockHead(w) \/ InsertEvent(w)
           \/ AdvanceHead(w) \/ Commit(w)
Next == \E w \in Writers : Begin(w) \/ Work(w) \/ Fail(w)

Spec == Init /\ [][Next]_vars
\* a writer that can go on, does; PostgreSQL grants a row lock that is free
FairSpec == Spec /\ \A w \in Writers : WF_vars(Work(w))

-----------------------------------------------------------------------------
\* the walk of verify(): the hash reached after n links, from GENESIS
NextHash(evs, h) ==
  IF \E e \in evs : e.prev = h THEN (CHOOSE e \in evs : e.prev = h).hash ELSE h
Walk(evs) ==
  LET reached[n \in 0..Cardinality(evs)] ==
        IF n = 0 THEN Genesis ELSE NextHash(evs, reached[n - 1])
  IN reached
\* verify(): no two events share a predecessor, and the walk visits them all
Verifies(evs) ==
  /\ \A e, f \in evs : e.prev = f.prev => e = f
  /\ {Walk(evs)[n] : n \in 1..Cardinality(evs)} = {e.hash : e \in evs}

\* Whatever writers race and wherever they fail, the committed chain verifies.
ChainVerifies == Verifies(events)

\* The head every writer will build on is the last event of the chain.
HeadIsTip == head = Walk(events)[Cardinality(events)]

\* A correction of the owner's memory is committed if and only if the event that
\* records where it came from is.
CorrectionHasProvenance ==
  /\ corrected \subseteq {e.hash : e \in events}
  /\ \A w \in Correctors :
       step[w] = "idle" /\ (\E e \in events : e.hash = write[w])
         => write[w] \in corrected

\* The table implements the log: events are only ever added, one at a time, at
\* the end (the log is what verify() walks).
Chain == [n \in 1..Cardinality(events) |->
            Event(Walk(events)[n - 1], Walk(events)[n])]
Log == INSTANCE AuditLog WITH events <- Chain
KeepsLog == Log!Spec

\* No writer that began waits for ever, whoever failed while holding the head.
WritesEnd == \A w \in Writers : step[w] # "idle" ~> step[w] = "idle"
=============================================================================
