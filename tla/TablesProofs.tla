----------------------------- MODULE TablesProofs -----------------------------
(* What is proved of the two tables of MCAudit and of its decision, a part for each,
   and, at the end, of the three next to each other.                            *)
EXTENDS MCAudit, FiniteSetTheorems, WellFoundedInduction, TLAPS

-----------------------------------------------------------------------------
(* The audit chain verifies, for any number of writers, corrections and failures,
   and implements the log its readers know.

   Chained says that some numbering of the hashes, from GENESIS to the head,
   accounts for every committed event exactly once. Appending to such a numbering
   gives another one, so this is inductive once the writers are known to keep to
   themselves (WriterOK, WritesDiffer): only the holder of the lock is past the
   read of the head, what it read is the head still, and the hash it is about to
   write is nobody else's. The walk of verify() is a recursive function: WalkIs
   shows that it finds the numbering, which gives the properties of AuditChain. *)

(* The walk of verify()                                                      *)

LEMMA LeastNumber ==
  ASSUME NEW S, S \subseteq Nat, S # {}
  PROVE  \E n \in S : \A m \in S : n <= m
<1>1. PICK n \in S : \A m \in S : ~ (<<m, n>> \in OpToRel(<, Nat))
  BY NatLessThanWellFounded, WFMin
<1>2. ASSUME NEW m \in S PROVE n <= m
  <2>1. ~ (m < n)
    BY <1>1, <1>2 DEF OpToRel
  <2> QED BY <2>1
<1> QED BY <1>2

\* w is what the recursive function in Walk is to be
IsWalk(w, evs) ==
  w = [n \in 0..Cardinality(evs) |-> IF n = 0 THEN Genesis ELSE NextHash(evs, w[n - 1])]

\* If there is a walk at all, then it is the one that verify() takes.
LEMMA WalkIs ==
  ASSUME NEW evs, Cardinality(evs) \in Nat, NEW w, IsWalk(w, evs)
  PROVE  Walk(evs) = w
<1>1. PICK v : v = Walk(evs) /\ IsWalk(v, evs)
  BY DEF Walk, IsWalk
<1> DEFINE Bad == {n \in 0..Cardinality(evs) : v[n] # w[n]}
<1>2. ASSUME Bad # {} PROVE FALSE
  <2>1. Bad \subseteq Nat
    OBVIOUS
  <2>2. PICK n \in Bad : \A m \in Bad : n <= m
    BY <1>2, <2>1, LeastNumber
  <2>3. n # 0
    BY <1>1, <2>2 DEF IsWalk
  <2>4. n - 1 \in 0..Cardinality(evs) /\ n - 1 \notin Bad
    BY <2>2, <2>3
  <2>5. v[n - 1] = w[n - 1]
    BY <2>4
  <2>6. v[n] = NextHash(evs, v[n - 1]) /\ w[n] = NextHash(evs, w[n - 1])
    BY <1>1, <2>2, <2>3 DEF IsWalk
  <2> QED BY <2>2, <2>5, <2>6
<1>3. DOMAIN v = 0..Cardinality(evs) /\ DOMAIN w = 0..Cardinality(evs)
  BY <1>1 DEF IsWalk
<1>4. v = [n \in DOMAIN v |-> v[n]] /\ w = [n \in DOMAIN w |-> w[n]]
  BY <1>1 DEF IsWalk
<1> QED BY <1>1, <1>2, <1>3, <1>4

-----------------------------------------------------------------------------
(* The inductive invariant                                                   *)

Rows == [prev : {Genesis} \cup Hashes, hash : Hashes]
\* a writer that has read the head and not given it back
Holding == {"insert", "advance", "commit"}

\* w numbers the hashes of evs from GENESIS to tip, without repetition
Numbers(w, evs, tip) ==
  /\ w \in [0..Cardinality(evs) -> Nat]
  /\ w[0] = Genesis /\ w[Cardinality(evs)] = tip
  /\ \A i, j \in 0..Cardinality(evs) : w[i] = w[j] => i = j
  /\ evs = {Event(w[n - 1], w[n]) : n \in 1..Cardinality(evs)}

Chained ==
  /\ IsFiniteSet(events)
  /\ \E w : Numbers(w, events, head)

\* a hash is taken when its write begins, and by one writer
WritesDiffer ==
  /\ \A v, w \in Writers : v # w /\ write[v] = write[w] => write[v] = Genesis
  /\ \A w \in Writers : write[w] <= begun
  /\ \A e \in events : e.hash <= begun

WriterOK(w) ==
  /\ lock = w <=> step[w] \in Holding
  /\ step[w] \in Holding => previous[w] = head
  /\ step[w] # "idle" => /\ write[w] \in Hashes
                         /\ \A e \in events : e.hash # write[w]
  /\ pending[w].events =
       IF step[w] \in {"advance", "commit"} THEN {Event(previous[w], write[w])} ELSE {}
  /\ step[w] = "commit" => pending[w].head = write[w]
  /\ pending[w].corrected =
       IF w \in Correctors /\ step[w] \in {"lock"} \cup Holding THEN {write[w]} ELSE {}
  /\ step[w] = "save" => w \in Correctors

PendingType ==
  pending \in [Writers -> [events : SUBSET Rows, head : {Genesis} \cup Hashes,
                           corrected : SUBSET Hashes]]

AuditIInv ==
  /\ AuditTypeOK /\ PendingType
  /\ Chained
  /\ WritesDiffer
  /\ \A w \in Writers : WriterOK(w)
  /\ CorrectionHasProvenance

-----------------------------------------------------------------------------
(* It is an invariant                                                        *)

LEMMA AuditInit == Init => AuditIInv
<1> SUFFICES ASSUME Init PROVE AuditIInv
  OBVIOUS
<1>1. AuditTypeOK /\ PendingType /\ WritesDiffer
  BY AuditAssumption DEF Init, Seed, AuditTypeOK, PendingType, WritesDiffer, Genesis, Nothing, Rows, Hashes
<1>2. Chained
  <2>1. IsFiniteSet(events) /\ Cardinality(events) = 0
    BY FS_EmptySet DEF Init
  <2> DEFINE w == [n \in 0..0 |-> Genesis]
  <2>2. Numbers(w, events, head)
    BY <2>1 DEF Numbers, Init, Seed, Genesis
  <2> QED BY <2>1, <2>2 DEF Chained
<1>3. \A w \in Writers : WriterOK(w)
  BY AuditAssumption DEF Init, WriterOK, Holding, Nothing
<1>4. CorrectionHasProvenance
  BY DEF Init, CorrectionHasProvenance
<1> QED BY <1>1, <1>2, <1>3, <1>4 DEF AuditIInv

LEMMA AuditTypeStep ==
  ASSUME AuditTypeOK, PendingType, \A w \in Writers : WriterOK(w), Next
  PROVE  AuditTypeOK' /\ PendingType'
<1> USE AuditAssumption DEF AuditTypeOK, PendingType, Rows, Genesis, Hashes
<1>1. ASSUME NEW w \in Writers, Begin(w) PROVE AuditTypeOK' /\ PendingType'
  BY <1>1 DEF Begin, At
<1>2. ASSUME NEW w \in Writers, SaveCorrection(w) PROVE AuditTypeOK' /\ PendingType'
  <2>1. write[w] \in Hashes
    BY <1>2 DEF SaveCorrection, WriterOK
  <2> QED BY <1>2, <2>1 DEF SaveCorrection, SaveInTransaction, At
<1>3. ASSUME NEW w \in Writers, LockHead(w) PROVE AuditTypeOK' /\ PendingType'
  BY <1>3 DEF LockHead, HeadIsFree, At
<1>4. ASSUME NEW w \in Writers, InsertEvent(w) PROVE AuditTypeOK' /\ PendingType'
  <2>1. Event(previous[w], write[w]) \in Rows
    BY <1>4 DEF InsertEvent, WriterOK, Event
  <2> QED BY <1>4, <2>1 DEF InsertEvent, At
<1>5. ASSUME NEW w \in Writers, AdvanceHead(w) PROVE AuditTypeOK' /\ PendingType'
  BY <1>5 DEF AdvanceHead, At
<1>6. ASSUME NEW w \in Writers, Commit(w) PROVE AuditTypeOK' /\ PendingType'
  BY <1>6 DEF Commit, Publish, Finish, Release, At, Nothing
<1>7. ASSUME NEW w \in Writers, Fail(w) PROVE AuditTypeOK' /\ PendingType'
  BY <1>7 DEF Fail, Finish, Release, At, Nothing
<1> QED BY <1>1, <1>2, <1>3, <1>4, <1>5, <1>6, <1>7 DEF Next, Work

\* An event after the tip is numbered after the tip.
LEMMA AppendNumber ==
  ASSUME NEW evs, IsFiniteSet(evs), NEW tip, NEW w, Numbers(w, evs, tip),
         NEW h \in Nat, h # Genesis, \A e \in evs : e.hash # h
  PROVE  LET new == evs \cup {Event(tip, h)} IN
         /\ IsFiniteSet(new) /\ Cardinality(new) = Cardinality(evs) + 1
         /\ Numbers([n \in 0..Cardinality(evs) + 1 |->
                       IF n = Cardinality(evs) + 1 THEN h ELSE w[n]], new, h)
<1> DEFINE N == Cardinality(evs)
           new == evs \cup {Event(tip, h)}
           u == [n \in 0..N + 1 |-> IF n = N + 1 THEN h ELSE w[n]]
<1>1. N \in Nat
  BY FS_CardinalityType
<1>2. Event(tip, h) \notin evs
  BY DEF Event
<1>3. IsFiniteSet(new) /\ Cardinality(new) = N + 1
  BY <1>2, FS_AddElement
<1>4. \A n \in 0..N : w[n] # h
  <2>1. ASSUME NEW n \in 1..N PROVE w[n] # h
    <3>1. Event(w[n - 1], w[n]) \in evs
      BY DEF Numbers
    <3> QED BY <3>1 DEF Event
  <2> QED BY <1>1, <2>1 DEF Numbers
<1>5. u \in [0..N + 1 -> Nat] /\ u[0] = Genesis /\ u[N + 1] = h
  BY <1>1 DEF Numbers
<1>6. \A i, j \in 0..N + 1 : u[i] = u[j] => i = j
  BY <1>1, <1>4 DEF Numbers
<1>7. new = {Event(u[n - 1], u[n]) : n \in 1..N + 1}
  <2>1. \A n \in 1..N : n - 1 \in 0..N + 1 /\ n \in 0..N + 1 /\ u[n - 1] = w[n - 1] /\ u[n] = w[n]
    BY <1>1
  <2>2. u[N] = tip /\ u[N + 1] = h
    BY <1>1 DEF Numbers
  <2>3. \A e \in evs : \E n \in 1..N + 1 : e = Event(u[n - 1], u[n])
    <3> TAKE e \in evs
    <3>1. PICK n \in 1..N : e = Event(w[n - 1], w[n])
      BY DEF Numbers
    <3> QED BY <1>1, <2>1, <3>1
  <2>4. Event(tip, h) = Event(u[(N + 1) - 1], u[N + 1])
    BY <1>1, <2>2
  <2>5. N + 1 \in 1..N + 1
    BY <1>1
  <2>6. ASSUME NEW n \in 1..N + 1 PROVE Event(u[n - 1], u[n]) \in new
    <3>1. CASE n = N + 1
      BY <2>4, <3>1
    <3>2. CASE n # N + 1
      <4>1. n \in 1..N
        BY <1>1, <3>2
      <4> QED BY <2>1, <4>1 DEF Numbers
    <3> QED BY <3>1, <3>2
  <2> QED BY <2>3, <2>4, <2>5, <2>6
<1> HIDE DEF N, u
<1>8. Numbers(u, new, h)
  BY <1>3, <1>5, <1>6, <1>7 DEF Numbers
<1> QED BY <1>3, <1>8 DEF u, N

\* a writer in the middle of a write has a hash of its own
LEMMA WritingHasHash ==
  ASSUME NEW w \in Writers, WriterOK(w), step[w] # "idle"
  PROVE  write[w] \in Nat /\ write[w] # Genesis /\ \A e \in events : e.hash # write[w]
<1>1. write[w] \in 1..MaxWrites
  BY DEF WriterOK, Hashes
<1> QED BY <1>1, AuditAssumption DEF WriterOK, Genesis

\* what a committing writer publishes
LEMMA CommitPublishes ==
  ASSUME NEW w \in Writers, AuditTypeOK, WriterOK(w), Commit(w)
  PROVE  /\ events' = events \cup {Event(head, write[w])} /\ head' = write[w]
         /\ corrected' = corrected \cup (IF w \in Correctors THEN {write[w]} ELSE {})
BY DEF Commit, Publish, WriterOK, Holding

LEMMA ChainedStep ==
  ASSUME AuditIInv, Next
  PROVE  Chained'
<1>1. ASSUME NEW w \in Writers, Commit(w) PROVE Chained'
  <2>1. PICK f : Numbers(f, events, head)
    BY DEF AuditIInv, Chained
  <2>2. /\ IsFiniteSet(events) /\ write[w] \in Nat /\ write[w] # Genesis
        /\ \A e \in events : e.hash # write[w]
    BY <1>1, WritingHasHash DEF AuditIInv, Chained, Commit
  <2>3. events' = events \cup {Event(head, write[w])} /\ head' = write[w]
    BY <1>1, CommitPublishes DEF AuditIInv
  <2> QED BY <2>1, <2>2, <2>3, AppendNumber DEF Chained
<1>2. ASSUME NEW w \in Writers,
             \/ Begin(w) \/ SaveCorrection(w) \/ LockHead(w) \/ InsertEvent(w)
             \/ AdvanceHead(w) \/ Fail(w)
      PROVE  Chained'
  <2>1. UNCHANGED <<events, head>>
    BY <1>2 DEF Begin, SaveCorrection, LockHead, InsertEvent, AdvanceHead, Fail
  <2> QED BY <2>1 DEF AuditIInv, Chained
<1> QED BY <1>1, <1>2 DEF Next, Work

LEMMA WritesStep ==
  ASSUME AuditIInv, Next
  PROVE  WritesDiffer'
<1> USE DEF AuditIInv
<1>1. ASSUME NEW w \in Writers, Begin(w) PROVE WritesDiffer'
  BY <1>1 DEF Begin, WritesDiffer, AuditTypeOK, Hashes, Genesis
<1>2. ASSUME NEW w \in Writers, Commit(w) PROVE WritesDiffer'
  <2>1. events' = events \cup {Event(head, write[w])}
    BY <1>2, CommitPublishes
  <2> QED BY <1>2, <2>1 DEF Commit, Finish, WritesDiffer, Event
<1>3. ASSUME NEW w \in Writers,
             SaveCorrection(w) \/ LockHead(w) \/ InsertEvent(w) \/ AdvanceHead(w) \/ Fail(w)
      PROVE  WritesDiffer'
  BY <1>3 DEF SaveCorrection, LockHead, InsertEvent, AdvanceHead, Fail, Finish, WritesDiffer
<1> QED BY <1>1, <1>2, <1>3 DEF Next, Work

LEMMA WriterStep ==
  ASSUME AuditIInv, Next, NEW v \in Writers
  PROVE  WriterOK(v)'
<1> USE AuditAssumption DEF AuditIInv
<1>0. WriterOK(v) /\ v # NoWriter
  OBVIOUS
<1>1. ASSUME NEW w \in Writers, Begin(w) PROVE WriterOK(v)'
  <2>1. CASE v = w
    <3>1. begun + 1 \in Hashes /\ \A e \in events : e.hash # begun + 1
      BY <1>1 DEF Begin, WritesDiffer, AuditTypeOK, Hashes
    <3> QED BY <1>0, <1>1, <2>1, <3>1 DEF Begin, At, WriterOK, Holding, AuditTypeOK
  <2>2. CASE v # w
    BY <1>0, <1>1, <2>2 DEF Begin, At, WriterOK, AuditTypeOK
  <2> QED BY <2>1, <2>2
<1>2. ASSUME NEW w \in Writers, SaveCorrection(w) PROVE WriterOK(v)'
  <2>1. pending'[v] = IF v = w THEN [pending[v] EXCEPT !.corrected = {write[v]}] ELSE pending[v]
    BY <1>2 DEF SaveCorrection, SaveInTransaction, PendingType
  <2> QED BY <1>0, <1>2, <2>1 DEF SaveCorrection, At, WriterOK, Holding, AuditTypeOK, PendingType
<1>3. ASSUME NEW w \in Writers, LockHead(w) PROVE WriterOK(v)'
  BY <1>0, <1>3 DEF LockHead, HeadIsFree, At, WriterOK, Holding, AuditTypeOK
<1>4. ASSUME NEW w \in Writers, InsertEvent(w) PROVE WriterOK(v)'
  <2>1. pending'[v] = IF v = w THEN [pending[v] EXCEPT !.events = {Event(previous[v], write[v])}]
                      ELSE pending[v]
    BY <1>4 DEF InsertEvent, PendingType
  <2>2. CASE v = w
    <3>1. /\ step[v] = "insert" /\ step'[v] = "advance" /\ previous'[v] = previous[v]
          /\ write'[v] = write[v] /\ UNCHANGED <<events, head, lock>>
      BY <1>4, <2>2 DEF InsertEvent, At, AuditTypeOK
    <3>2. /\ pending'[v].events = {Event(previous'[v], write'[v])}
          /\ pending'[v].corrected = pending[v].corrected
      BY <2>1, <2>2, <3>1 DEF PendingType
    <3> QED BY <1>0, <3>1, <3>2 DEF WriterOK, Holding
  <2>3. CASE v # w
    BY <1>0, <1>4, <2>1, <2>3 DEF InsertEvent, At, WriterOK, AuditTypeOK
  <2> QED BY <2>2, <2>3
<1>5. ASSUME NEW w \in Writers, AdvanceHead(w) PROVE WriterOK(v)'
  <2>1. pending'[v] = IF v = w THEN [pending[v] EXCEPT !.head = write[v]] ELSE pending[v]
    BY <1>5 DEF AdvanceHead, PendingType
  <2> QED BY <1>0, <1>5, <2>1 DEF AdvanceHead, At, WriterOK, Holding, AuditTypeOK, PendingType
<1>6. ASSUME NEW w \in Writers, Finish(w), v # w,
             \/ UNCHANGED <<events, head>>
             \/ lock = w /\ events' = events \cup {Event(head, write[w])} /\ write[w] # Genesis
      PROVE  WriterOK(v)'
  <2>1. pending'[v] = pending[v] /\ step'[v] = step[v] /\ write'[v] = write[v]
        /\ previous'[v] = previous[v]
    BY <1>6 DEF Finish, At, PendingType, AuditTypeOK
  <2>2. lock' = v <=> lock = v
    BY <1>0, <1>6 DEF Finish, Release
  <2>3. step[v] \in Holding => head' = head
    BY <1>0, <1>6 DEF WriterOK
  <2>4. \A e \in events' : e.hash # write[v] \/ step[v] = "idle"
    BY <1>0, <1>6 DEF WriterOK, WritesDiffer, Event
  <2> QED BY <1>0, <2>1, <2>2, <2>3, <2>4 DEF WriterOK
<1>7. ASSUME NEW w \in Writers, Finish(w), v = w PROVE WriterOK(v)'
  <2>1. pending'[v] = Nothing /\ step'[v] = "idle"
    BY <1>7 DEF Finish, At, PendingType, AuditTypeOK
  <2>2. lock' # v
    BY <1>0, <1>7 DEF Finish, Release
  <2> QED BY <2>1, <2>2 DEF WriterOK, Nothing, Holding
<1>8. ASSUME NEW w \in Writers, Commit(w) PROVE WriterOK(v)'
  <2>1. /\ Finish(w) /\ lock = w /\ events' = events \cup {Event(head, write[w])}
        /\ write[w] # Genesis
    <3>1. step[w] = "commit" /\ Finish(w) /\ WriterOK(w)
      BY <1>8 DEF Commit
    <3>2. lock = w
      BY <3>1 DEF WriterOK, Holding
    <3> QED BY <1>8, <3>1, <3>2, WritingHasHash, CommitPublishes
  <2> QED BY <1>6, <1>7, <2>1
<1>9. ASSUME NEW w \in Writers, Fail(w) PROVE WriterOK(v)'
  BY <1>6, <1>7, <1>9 DEF Fail
<1> QED BY <1>1, <1>2, <1>3, <1>4, <1>5, <1>8, <1>9 DEF Next, Work

LEMMA ProvenanceStep ==
  ASSUME AuditIInv, Next
  PROVE  CorrectionHasProvenance'
<1> USE AuditAssumption DEF AuditIInv
<1>1. ASSUME NEW w \in Writers, Commit(w) PROVE CorrectionHasProvenance'
  <2>1. /\ events' = events \cup {Event(head, write[w])}
        /\ corrected' = corrected \cup (IF w \in Correctors THEN {write[w]} ELSE {})
    BY <1>1, CommitPublishes
  <2>2. {e.hash : e \in events'} = {e.hash : e \in events} \cup {write[w]}
    <3>1. Event(head, write[w]).hash = write[w]
      BY DEF Event
    <3> QED BY <2>1, <3>1
  <2>3. ASSUME NEW v \in Correctors, step'[v] = "idle", NEW e \in events', e.hash = write'[v]
        PROVE  write'[v] \in corrected'
    <3>1. write' = write /\ write[w] # Genesis
      BY <1>1, WritingHasHash DEF Commit, Finish
    <3>2. CASE v = w
      BY <2>1, <3>1, <3>2
    <3>3. CASE v # w
      <4>1. write[v] # write[w] /\ step[v] = "idle"
        BY <1>1, <2>3, <3>1, <3>3 DEF WritesDiffer, Commit, Finish, At, AuditTypeOK
      <4>2. e \in events
        BY <2>1, <2>3, <3>1, <4>1 DEF Event
      <4> QED BY <2>1, <2>3, <3>1, <4>1, <4>2 DEF CorrectionHasProvenance
    <3> QED BY <3>2, <3>3
  <2>4. corrected' \subseteq {e.hash : e \in events'}
    BY <2>1, <2>2 DEF CorrectionHasProvenance
  <2> QED BY <2>3, <2>4 DEF CorrectionHasProvenance
<1>2. ASSUME NEW w \in Writers, Fail(w) PROVE CorrectionHasProvenance'
  BY <1>2 DEF Fail, Finish, At, CorrectionHasProvenance, WriterOK, AuditTypeOK
<1>3. ASSUME NEW w \in Writers,
             \/ Begin(w) \/ SaveCorrection(w) \/ LockHead(w) \/ InsertEvent(w) \/ AdvanceHead(w)
      PROVE  CorrectionHasProvenance'
  <2>1. UNCHANGED <<events, corrected>>
    BY <1>3 DEF Begin, SaveCorrection, SaveInTransaction, LockHead, InsertEvent, AdvanceHead
  <2>2. \A v \in Writers : step'[v] = "idle" => step[v] = "idle" /\ write'[v] = write[v]
    BY <1>3 DEF Begin, SaveCorrection, LockHead, InsertEvent, AdvanceHead, At, AuditTypeOK
  <2> QED BY <2>1, <2>2 DEF CorrectionHasProvenance
<1> QED BY <1>1, <1>2, <1>3 DEF Next, Work

LEMMA AuditStutters ==
  ASSUME AuditIInv, UNCHANGED vars
  PROVE  AuditIInv'
BY DEF vars, AuditIInv, AuditTypeOK, PendingType, Chained, WritesDiffer, WriterOK,
       CorrectionHasProvenance

\* The numbering of the committed events up to the head, and what each writer may
\* know and hold, are kept by every step, for any number of writers and writes.
THEOREM AuditInvariance == Spec => []AuditIInv
<1>1. Init => AuditIInv
  BY AuditInit
<1>2. AuditIInv /\ [Next]_vars => AuditIInv'
  <2>1. ASSUME AuditIInv, Next PROVE AuditIInv'
    BY <2>1, AuditTypeStep, ChainedStep, WritesStep, WriterStep, ProvenanceStep DEF AuditIInv
  <2> QED BY <2>1, AuditStutters
<1> QED BY <1>1, <1>2, PTL DEF Spec

-----------------------------------------------------------------------------
(* What the readers of the log rely on                                       *)

\* The walk finds the numbering.
LEMMA NumbersAreWalked ==
  ASSUME NEW evs, IsFiniteSet(evs), NEW tip, NEW w, Numbers(w, evs, tip)
  PROVE  Walk(evs) = w /\ Cardinality(evs) \in Nat
<1> DEFINE N == Cardinality(evs)
<1>1. N \in Nat
  BY FS_CardinalityType
<1>2. ASSUME NEW n \in 1..N PROVE w[n] = NextHash(evs, w[n - 1])
  <2>1. Event(w[n - 1], w[n]) \in evs
    BY DEF Numbers
  <2>2. ASSUME NEW e \in evs, e.prev = w[n - 1] PROVE e.hash = w[n]
    <3>1. PICK m \in 1..N : e = Event(w[m - 1], w[m])
      BY DEF Numbers
    <3>2. m - 1 \in 0..N /\ n - 1 \in 0..N /\ w[m - 1] = w[n - 1]
      BY <1>1, <2>2, <3>1 DEF Event
    <3>3. m - 1 = n - 1
      BY <3>2 DEF Numbers
    <3>4. m = n
      BY <3>3
    <3> QED BY <3>1, <3>4 DEF Event
  <2>3. Event(w[n - 1], w[n]).prev = w[n - 1]
    BY DEF Event
  <2> QED BY <2>1, <2>2, <2>3 DEF NextHash
<1>3. w[0] = Genesis /\ w = [n \in 0..N |-> w[n]]
  BY DEF Numbers
<1>4. \A n \in 0..N : w[n] = IF n = 0 THEN Genesis ELSE NextHash(evs, w[n - 1])
  <2> TAKE n \in 0..N
  <2>1. CASE n = 0
    BY <1>3, <2>1
  <2>2. CASE n # 0
    <3>1. n \in 1..N
      BY <1>1, <2>2
    <3> QED BY <1>2, <2>2, <3>1
  <2> QED BY <2>1, <2>2
<1>5. IsWalk(w, evs)
  BY <1>3, <1>4 DEF IsWalk
<1> QED BY <1>1, <1>5, WalkIs

\* Every variable of the database and of its writers keeps its type.
THEOREM AuditTypeCorrect == Spec => []AuditTypeOK
<1>1. AuditIInv => AuditTypeOK
  BY DEF AuditIInv
<1> QED BY <1>1, AuditInvariance, PTL

\* However many connections append at the same time and wherever they fail, no two
\* committed events follow the same one and the walk from GENESIS visits them all
\* (PostgresAuditLog.verify).
THEOREM TheChainVerifies == Spec => []ChainVerifies
<1>1. AuditIInv => ChainVerifies
  <2> SUFFICES ASSUME AuditIInv PROVE Verifies(events)
    BY DEF ChainVerifies
  <2>1. PICK w : Numbers(w, events, head)
    BY DEF AuditIInv, Chained
  <2>2. Walk(events) = w /\ Cardinality(events) \in Nat
    BY <2>1, NumbersAreWalked DEF AuditIInv, Chained
  <2>3. ASSUME NEW e \in events, NEW f \in events, e.prev = f.prev PROVE e = f
    <3>1. PICK i \in 1..Cardinality(events) : e = Event(w[i - 1], w[i])
      BY <2>1 DEF Numbers
    <3>2. PICK j \in 1..Cardinality(events) : f = Event(w[j - 1], w[j])
      BY <2>1 DEF Numbers
    <3>3. /\ i - 1 \in 0..Cardinality(events) /\ j - 1 \in 0..Cardinality(events)
          /\ w[i - 1] = w[j - 1]
      BY <2>2, <2>3, <3>1, <3>2 DEF Event
    <3>4. i - 1 = j - 1
      BY <2>1, <3>3 DEF Numbers
    <3>5. i = j
      BY <3>4
    <3> QED BY <3>1, <3>2, <3>5
  <2>4. \A n \in 1..Cardinality(events) : Event(w[n - 1], w[n]).hash = w[n]
    BY DEF Event
  <2>5. {w[n] : n \in 1..Cardinality(events)} = {e.hash : e \in events}
    BY <2>1, <2>4 DEF Numbers
  <2> QED BY <2>2, <2>3, <2>5 DEF Verifies
<1> QED BY <1>1, AuditInvariance, PTL

\* The head that the next writer reads is the last event of the walk.
THEOREM TheHeadIsTheTip == Spec => []HeadIsTip
<1>1. AuditIInv => HeadIsTip
  <2> SUFFICES ASSUME AuditIInv PROVE HeadIsTip
    OBVIOUS
  <2>1. PICK w : Numbers(w, events, head)
    BY DEF AuditIInv, Chained
  <2>2. Walk(events) = w
    BY <2>1, NumbersAreWalked DEF AuditIInv, Chained
  <2> QED BY <2>1, <2>2 DEF HeadIsTip, Numbers
<1> QED BY <1>1, AuditInvariance, PTL

\* A correction of the owner's memory is committed if and only if the event that
\* says where it came from is (_persist_owner_correction_with_provenance).
THEOREM CorrectionsHaveProvenance == Spec => []CorrectionHasProvenance
<1>1. AuditIInv => CorrectionHasProvenance
  BY DEF AuditIInv
<1> QED BY <1>1, AuditInvariance, PTL

-----------------------------------------------------------------------------
(* The refinement: a commit appends to the log, nothing else touches it.     *)

LEMMA CommitAppends ==
  ASSUME AuditIInv, NEW w \in Writers, Commit(w)
  PROVE  Log!Next
<1> DEFINE N == Cardinality(events)
<1>1. PICK f : Numbers(f, events, head)
  BY DEF AuditIInv, Chained
<1>2. Walk(events) = f /\ N \in Nat
  BY <1>1, NumbersAreWalked DEF AuditIInv, Chained
<1>3. /\ write[w] \in Hashes /\ write[w] \in Nat /\ write[w] # Genesis
      /\ \A e \in events : e.hash # write[w]
  BY WritingHasHash DEF AuditIInv, WriterOK, Commit
<1>4. events' = events \cup {Event(head, write[w])}
  BY CommitPublishes DEF AuditIInv
<1> DEFINE u == [n \in 0..N + 1 |-> IF n = N + 1 THEN write[w] ELSE f[n]]
<1>5. /\ IsFiniteSet(events') /\ Cardinality(events') = N + 1
      /\ Numbers(u, events', write[w])
  BY <1>1, <1>3, <1>4, AppendNumber DEF AuditIInv, Chained
<1>6. Walk(events)' = u
  <2>1. Walk(events') = u
    BY <1>5, NumbersAreWalked
  <2> QED BY <2>1
<1>7. Chain = [n \in 1..N |-> Event(f[n - 1], f[n])]
  BY <1>2 DEF Chain
<1>8. Chain' = [n \in 1..N + 1 |-> Event(u[n - 1], u[n])]
  BY <1>5, <1>6 DEF Chain
<1>9. /\ \A n \in 1..N : Event(u[n - 1], u[n]) = Event(f[n - 1], f[n])
      /\ Event(u[(N + 1) - 1], u[N + 1]) = Event(head, write[w])
  <2>1. \A n \in 0..N : u[n] = f[n]
    BY <1>2
  <2>2. u[N + 1] = write[w] /\ f[N] = head /\ (N + 1) - 1 = N
    BY <1>1, <1>2 DEF Numbers
  <2>3. \A n \in 1..N : n - 1 \in 0..N /\ n \in 0..N
    BY <1>2
  <2> QED BY <1>2, <2>1, <2>2, <2>3
<1>10. Log!LastHash = head
  <2>1. CASE N = 0
    BY <1>1, <1>7, <2>1 DEF Log!LastHash, Numbers
  <2>2. CASE N # 0
    <3>1. Len(Chain) = N /\ Chain # <<>> /\ N \in 1..N
      BY <1>2, <1>7, <2>2
    <3>2. Chain[N].hash = f[N]
      BY <1>7, <3>1 DEF Event
    <3> QED BY <1>1, <3>1, <3>2 DEF Log!LastHash, Numbers
  <2> QED BY <2>1, <2>2
<1>11. Chain' = Append(Chain, [prev |-> head, hash |-> write[w]])
  <2> HIDE DEF u, N
  <2> QED BY <1>2, <1>7, <1>8, <1>9 DEF Event
<1>12. \A i \in DOMAIN Chain : Chain[i].hash # write[w]
  <2>1. \A n \in 1..N : Event(f[n - 1], f[n]) \in events
    BY <1>1 DEF Numbers
  <2> QED BY <1>3, <1>7, <2>1
<1> QED BY <1>3, <1>10, <1>11, <1>12 DEF Log!Next, Log!AppendEvent

\* The table and its writers implement the append-only log: each step adds one
\* event at the end of what verify() walks, or leaves it alone.
THEOREM ImplementsLog == Spec => KeepsLog
<1>1. Init => Log!Init
  <2> SUFFICES ASSUME Init PROVE Chain = <<>>
    BY DEF Log!Init
  <2>1. Cardinality(events) = 0
    BY FS_EmptySet DEF Init
  <2> QED BY <2>1 DEF Chain
<1>2. AuditIInv /\ [Next]_vars => [Log!Next]_Chain
  <2>1. ASSUME UNCHANGED events PROVE UNCHANGED Chain
    BY <2>1 DEF Chain
  <2>2. ASSUME NEW w \in Writers,
               \/ Begin(w) \/ SaveCorrection(w) \/ LockHead(w) \/ InsertEvent(w)
               \/ AdvanceHead(w) \/ Fail(w)
        PROVE  UNCHANGED events
    BY <2>2 DEF Begin, SaveCorrection, LockHead, InsertEvent, AdvanceHead, Fail
  <2> QED BY <2>1, <2>2, CommitAppends DEF Next, Work, vars
<1> QED BY <1>1, <1>2, AuditInvariance, PTL DEF Spec, KeepsLog, Log!Spec

-----------------------------------------------------------------------------
(* The tasks table for any number of requests, tasks and deaths: a key has at most
   one task, and a set is completed as a whole.

   RequestOK says what a request carries at each place it can be: what creating,
   completing and selecting rely on when they come to write. Rows stay, and keep
   their key and title (Kept); so whatever a request was shown of a row's key is
   true for good. A transaction that completes a set holds every row that it has
   passed, or the row is completed already.                                    *)

Places == {"idle", "read", "insert", "write", "update", "verify", "done"}
TaskVerdicts == {"none", "verified", "failed", "raised", "dead"}
Statuses == {"open", "completed"}

-----------------------------------------------------------------------------
(* The inductive invariant                                                   *)

\* the rows and the requests are records of these fields
RowsShape ==
  \E K : tasks \in [DOMAIN tasks -> [title : TaskTitles, status : Statuses, key : K]]
RequestsShape ==
  \E O, S : request \in [TaskCallers -> [at : Places, op : O, shown : S, verdict : TaskVerdicts]]

KeysDiffer == \A i, j \in DOMAIN tasks : tasks[i].key = tasks[j].key => i = j

OperationOK(c) ==
  LET op == request[c].op IN
  /\ op.kind = "create" => op.key = TaskKeyOf[c] /\ op.title \in TaskTitles
  /\ op.kind = "complete_set" =>
       \E n \in Nat : op.ids \in [1..n -> DOMAIN tasks]

\* the row of a request's own is there only when it was made; a creation that was
\* shown a row was shown one of its key and title; what a set has passed is held
RequestOK(c) ==
  LET op == request[c].op
      at == request[c].at
      shown == request[c].shown
  IN
  /\ c \in DOMAIN tasks => at \in {"verify", "done"}
  /\ at = "idle" => op.kind = "none"
  /\ at # "done" => request[c].verdict = "none"
  /\ at = "insert" => op.kind = "create"
  /\ at = "write" => shown \in DOMAIN tasks /\ op.kind = "complete"
  /\ at = "verify" /\ op.kind = "create" =>
       shown[2].key = op.key /\ shown[2].title = op.title
  /\ request[c].verdict = "verified" /\ op.kind = "create" =>
       \E id \in KeyHolder(op.key) : tasks[id].title = op.title
  /\ at = "update" =>
       /\ op.kind = "complete_set" /\ shown \in Nat /\ shown <= Len(op.ids)
       /\ \A i \in 1..shown : \/ op.ids[i] \in Held(c)
                              \/ tasks[op.ids[i]].status = "completed"

TablesOK ==
  /\ RowsShape /\ IsFiniteSet(DOMAIN tasks)
  /\ DOMAIN tasks \subseteq DOMAIN OpenTasks \cup TaskCallers
  /\ KeysDiffer
  /\ DOMAIN lockedBy \subseteq DOMAIN tasks
  /\ \A id \in DOMAIN lockedBy : lockedBy[id] \in TaskCallers

TaskIInv ==
  /\ TablesOK /\ RequestsShape
  /\ \A c \in TaskCallers : OperationOK(c) /\ RequestOK(c)

-----------------------------------------------------------------------------
(* What a step does to a request                                             *)

\* a request that takes a step, field by field; the others are as they were
Becomes(c, at, op, shown, ends) ==
  /\ RequestsShape'
  /\ request'[c].at = at /\ request'[c].op = op
  /\ request'[c].shown = shown /\ request'[c].verdict = ends
  /\ \A d \in TaskCallers \ {c} : request'[d] = request[d]

LEMMA MovesBecomes ==
  ASSUME RequestsShape, NEW c \in TaskCallers, NEW to \in Places, Moves(c, to)
  PROVE  Becomes(c, to, request[c].op, request[c].shown, request[c].verdict)
<1>1. PICK O, S : request \in [TaskCallers -> [at : Places, op : O, shown : S, verdict : TaskVerdicts]]
  BY DEF RequestsShape
<1>2. request' \in [TaskCallers -> [at : Places, op : O, shown : S, verdict : TaskVerdicts]]
  BY <1>1 DEF Moves
<1> QED BY <1>1, <1>2 DEF Moves, Becomes, RequestsShape

LEMMA ShowsBecomes ==
  ASSUME RequestsShape, NEW c \in TaskCallers, NEW what, Shows(c, what)
  PROVE  Becomes(c, "verify", request[c].op, what, request[c].verdict)
<1>1. PICK O, S : request \in [TaskCallers -> [at : Places, op : O, shown : S, verdict : TaskVerdicts]]
  BY DEF RequestsShape
<1>2. request' \in [TaskCallers -> [at : Places, op : O, shown : S \cup {what}, verdict : TaskVerdicts]]
  BY <1>1 DEF Shows, Places
<1> QED BY <1>1, <1>2 DEF Shows, Becomes, RequestsShape

LEMMA EndsBecomes ==
  ASSUME RequestsShape, NEW c \in TaskCallers, NEW ends \in TaskVerdicts, TaskEnds(c, ends)
  PROVE  Becomes(c, "done", request[c].op, request[c].shown, ends)
<1>1. PICK O, S : request \in [TaskCallers -> [at : Places, op : O, shown : S, verdict : TaskVerdicts]]
  BY DEF RequestsShape
<1>2. request' \in [TaskCallers -> [at : Places, op : O, shown : S, verdict : TaskVerdicts]]
  BY <1>1 DEF TaskEnds, Places
<1> QED BY <1>1, <1>2 DEF TaskEnds, Becomes, RequestsShape

\* a request that sets out with an operation, or goes on with a row or a place in its set
LEMMA GoesOnBecomes ==
  ASSUME RequestsShape, NEW c \in TaskCallers, NEW at \in Places, NEW op, NEW shown,
         \/ request' = [request EXCEPT ![c].op = op, ![c].at = at] /\ shown = request[c].shown
         \/ request' = [request EXCEPT ![c].at = at, ![c].shown = shown] /\ op = request[c].op
         \/ /\ request' = [request EXCEPT ![c].shown = shown]
            /\ at = request[c].at /\ op = request[c].op
  PROVE  Becomes(c, at, op, shown, request[c].verdict)
<1>1. PICK O, S : request \in [TaskCallers -> [at : Places, op : O, shown : S, verdict : TaskVerdicts]]
  BY DEF RequestsShape
<1>2. request' \in [TaskCallers -> [at : Places, op : O \cup {op}, shown : S \cup {shown},
                                    verdict : TaskVerdicts]]
  BY <1>1
<1>3. /\ request'[c].at = at /\ request'[c].op = op /\ request'[c].shown = shown
      /\ request'[c].verdict = request[c].verdict
      /\ \A d \in TaskCallers \ {c} : request'[d] = request[d]
  <2>1. CASE request' = [request EXCEPT ![c].op = op, ![c].at = at] /\ shown = request[c].shown
    BY <1>1, <2>1
  <2>2. CASE request' = [request EXCEPT ![c].at = at, ![c].shown = shown] /\ op = request[c].op
    BY <1>1, <2>2
  <2>3. CASE /\ request' = [request EXCEPT ![c].shown = shown]
             /\ at = request[c].at /\ op = request[c].op
    BY <1>1, <2>3
  <2> QED BY <2>1, <2>2, <2>3
<1> QED BY <1>2, <1>3 DEF Becomes, RequestsShape

-----------------------------------------------------------------------------
(* What a step does to the tables                                            *)

\* rows stay, with their key and title, and what is completed stays completed
Kept ==
  \A id \in DOMAIN tasks :
    /\ id \in DOMAIN tasks'
    /\ tasks'[id].key = tasks[id].key /\ tasks'[id].title = tasks[id].title
    /\ tasks[id].status = "completed" => tasks'[id].status = "completed"

\* what a step of c leaves to everybody
Respects(c) ==
  /\ TablesOK' /\ Kept
  /\ DOMAIN tasks' \subseteq DOMAIN tasks \cup {c}
  /\ \A d \in TaskCallers \ {c} : Held(d) \subseteq Held(d)'

LEMMA UnchangedTables ==
  ASSUME TablesOK, NEW c \in TaskCallers, UNCHANGED <<tasks, lockedBy>>
  PROVE  Respects(c)
BY DEF TablesOK, RowsShape, KeysDiffer, Respects, Kept, Held

LEMMA InsertTables ==
  ASSUME TaskIInv, NEW c \in TaskCallers, CreateInsert(c)
  PROVE  Respects(c)
<1> DEFINE op == request[c].op
           new == Task(op.title, op.key)
<1>1. CASE ~KeyIsFree(op.key)
  BY <1>1, UnchangedTables DEF CreateInsert, TaskIInv
<1>2. CASE KeyIsFree(op.key)
  <2>1. c \notin DOMAIN tasks /\ op.title \in TaskTitles
    BY DEF TaskIInv, RequestOK, OperationOK, CreateInsert
  <2>2. /\ DOMAIN tasks' = DOMAIN tasks \cup {c} /\ tasks'[c] = new
        /\ \A id \in DOMAIN tasks : tasks'[id] = tasks[id]
        /\ lockedBy' = lockedBy
    BY <1>2, <2>1 DEF CreateInsert
  <2>3. PICK K : tasks \in [DOMAIN tasks -> [title : TaskTitles, status : Statuses, key : K]]
    BY DEF TaskIInv, TablesOK, RowsShape
  <2>4. tasks' \in [DOMAIN tasks' -> [title : TaskTitles, status : Statuses, key : K \cup {op.key}]]
    <3>1. new \in [title : TaskTitles, status : Statuses, key : K \cup {op.key}]
      BY <2>1 DEF Task, Statuses
    <3>2. tasks' = [id \in DOMAIN tasks \cup {c} |-> IF id = c THEN new ELSE tasks[id]]
      BY <1>2 DEF CreateInsert
    <3> QED BY <2>2, <2>3, <3>1, <3>2
  <2>5. KeysDiffer'
    <3>1. new.key = op.key
      BY DEF Task
    <3>2. \A id \in DOMAIN tasks : tasks[id].key # op.key
      BY <1>2 DEF KeyIsFree, KeyHolder
    <3> QED BY <2>1, <2>2, <3>1, <3>2 DEF KeysDiffer, TaskIInv, TablesOK
  <2>6. IsFiniteSet(DOMAIN tasks')
    BY <2>2, FS_AddElement DEF TaskIInv, TablesOK
  <2>7. TablesOK'
    BY <2>2, <2>4, <2>5, <2>6 DEF TablesOK, RowsShape, TaskIInv
  <2>8. Kept /\ \A d \in TaskCallers : Held(d) \subseteq Held(d)'
    BY <2>2 DEF Kept, Held
  <2> QED BY <2>2, <2>7, <2>8 DEF Respects
<1> QED BY <1>1, <1>2

\* completing some rows and giving back one's own locks, or none
LEMMA CompletingTables ==
  ASSUME TaskIInv, NEW c \in TaskCallers, NEW ids \in SUBSET DOMAIN tasks,
         tasks' = [id \in DOMAIN tasks |->
                     IF id \in ids THEN [tasks[id] EXCEPT !.status = "completed"] ELSE tasks[id]],
         lockedBy' = Without(Held(c)) \/ lockedBy' = lockedBy
  PROVE  Respects(c)
<1>1. PICK K : tasks \in [DOMAIN tasks -> [title : TaskTitles, status : Statuses, key : K]]
  BY DEF TaskIInv, TablesOK, RowsShape
<1>2. tasks' \in [DOMAIN tasks -> [title : TaskTitles, status : Statuses, key : K]]
  BY <1>1 DEF Statuses
<1>3. DOMAIN tasks' = DOMAIN tasks
  OBVIOUS
<1>4. \A id \in DOMAIN tasks :
        /\ tasks'[id].key = tasks[id].key /\ tasks'[id].title = tasks[id].title
        /\ tasks'[id].status = IF id \in ids THEN "completed" ELSE tasks[id].status
  BY <1>1
<1>5. RowsShape' /\ KeysDiffer' /\ IsFiniteSet(DOMAIN tasks')
  <2>1. RowsShape'
    BY <1>2, <1>3 DEF RowsShape
  <2>2. KeysDiffer'
    BY <1>3, <1>4 DEF KeysDiffer, TaskIInv, TablesOK
  <2> QED BY <1>3, <2>1, <2>2 DEF TaskIInv, TablesOK
<1>6. /\ DOMAIN lockedBy' \subseteq DOMAIN lockedBy
      /\ \A id \in DOMAIN lockedBy' : lockedBy'[id] = lockedBy[id]
      /\ \A id \in DOMAIN lockedBy : lockedBy[id] # c => id \in DOMAIN lockedBy'
  BY DEF Without, Held
<1>7. TablesOK'
  BY <1>3, <1>5, <1>6 DEF TablesOK, TaskIInv
<1>8. Kept
  BY <1>3, <1>4 DEF Kept
<1>9. \A d \in TaskCallers \ {c} : Held(d) \subseteq Held(d)'
  BY <1>6 DEF Held
<1> QED BY <1>3, <1>7, <1>8, <1>9 DEF Respects

\* the next update of a set takes a row that nobody else holds
LEMMA UpdateTables ==
  ASSUME TaskIInv, NEW c \in TaskCallers, SetUpdate(c), NextRow(c) \in DOMAIN tasks
  PROVE  /\ Respects(c) /\ Held(c) \subseteq Held(c)'
         /\ NextRow(c) \in Held(c)' \/ tasks'[NextRow(c)].status = "completed"
<1> DEFINE row == NextRow(c)
<1>1. tasks' = tasks
  BY DEF SetUpdate, UpdatesRow
<1>2. tasks[row].status \in Statuses
  BY DEF TaskIInv, TablesOK, RowsShape
<1>3. CASE ~IsOpen(row)
  <2>1. lockedBy' = lockedBy
    BY <1>3 DEF SetUpdate, UpdatesRow
  <2>2. tasks[row].status = "completed"
    BY <1>2, <1>3 DEF IsOpen, Statuses
  <2> QED BY <1>1, <2>1, <2>2, UnchangedTables DEF TaskIInv, Held
<1>4. CASE IsOpen(row)
  <2>1. lockedBy' = [x \in DOMAIN lockedBy \cup {row} |-> IF x = row THEN c ELSE lockedBy[x]]
    BY <1>4 DEF SetUpdate, UpdatesRow
  <2>2. row \in DOMAIN lockedBy => lockedBy[row] = c
    BY DEF SetUpdate, WaitsFor, TaskIInv, TablesOK
  <2>3. TablesOK'
    BY <1>1, <2>1 DEF TaskIInv, TablesOK, RowsShape, KeysDiffer
  <2>4. \A d \in TaskCallers : Held(d) \subseteq Held(d)'
    BY <2>1, <2>2 DEF Held
  <2>5. row \in Held(c)'
    BY <2>1 DEF Held
  <2>6. Kept
    BY <1>1 DEF Kept
  <2> QED BY <1>1, <2>3, <2>4, <2>5, <2>6 DEF Respects
<1> QED BY <1>3, <1>4

-----------------------------------------------------------------------------
(* What a step leaves true of the requests                                   *)

\* the requests that do not take the step
LEMMA OthersOK ==
  ASSUME TaskIInv, NEW c \in TaskCallers, NEW d \in TaskCallers \ {c},
         Respects(c), request'[d] = request[d]
  PROVE  OperationOK(d)' /\ RequestOK(d)'
<1>1. OperationOK(d) /\ RequestOK(d)
  BY DEF TaskIInv
<1>2. DOMAIN tasks \subseteq DOMAIN tasks' /\ (d \in DOMAIN tasks' => d \in DOMAIN tasks)
  BY DEF Respects, Kept
<1>3. OperationOK(d)'
  <2>1. \A n \in Nat : \A s \in [1..n -> DOMAIN tasks] : s \in [1..n -> DOMAIN tasks']
    BY <1>2
  <2> QED BY <1>1, <2>1 DEF OperationOK
<1>4. ASSUME request[d].verdict = "verified", request[d].op.kind = "create"
      PROVE  \E id \in DOMAIN tasks' : /\ tasks'[id].key = request[d].op.key
                                      /\ tasks'[id].title = request[d].op.title
  BY <1>1, <1>4 DEF RequestOK, Respects, Kept, KeyHolder
<1>5. ASSUME request[d].at = "update", NEW i \in 1..request[d].shown
      PROVE  \/ request[d].op.ids[i] \in Held(d)'
             \/ tasks'[request[d].op.ids[i]].status = "completed"
  <2>1. PICK n \in Nat : request[d].op.ids \in [1..n -> DOMAIN tasks]
    BY <1>1, <1>5 DEF OperationOK, RequestOK
  <2>2. i \in 1..n
    BY <1>1, <1>5, <2>1 DEF RequestOK
  <2> QED BY <1>1, <1>5, <2>1, <2>2 DEF RequestOK, Respects, Kept
<1>6. RequestOK(d)'
  <2>1. request'[d].at = "update" => \A i \in 1..request'[d].shown :
          \/ request'[d].op.ids[i] \in Held(d)'
          \/ tasks'[request'[d].op.ids[i]].status = "completed"
    BY <1>5
  <2>2. request'[d].verdict = "verified" /\ request'[d].op.kind = "create"
          => \E id \in {i \in DOMAIN tasks' : tasks'[i].key = request'[d].op.key} :
                tasks'[id].title = request'[d].op.title
    BY <1>4
  <2> QED BY <1>1, <1>2, <2>1, <2>2 DEF RequestOK, KeyHolder
<1> QED BY <1>3, <1>6

\* what a request may set out with
LEMMA OperationsOK ==
  ASSUME TablesOK, NEW c \in TaskCallers, NEW op \in TaskOperations(c)
  PROVE  /\ op.kind \in {"create", "complete", "complete_set", "list"}
         /\ op.kind = "create" => op.key = TaskKeyOf[c] /\ op.title \in TaskTitles
         /\ op.kind = "complete_set" => \E n \in Nat : op.ids \in [1..n -> DOMAIN tasks]
<1>1. CASE op \in [kind : {"create"}, title : TaskTitles, key : {TaskKeyOf[c]}]
  BY <1>1
<1>2. CASE op \in [kind : {"complete"}, id : DOMAIN tasks] \cup [kind : {"list"}]
  BY <1>2
<1>3. CASE op \in {[kind |-> "complete", title |-> t] : t \in TaskTitles}
  BY <1>3
<1>4. ASSUME NEW S \in SUBSET DOMAIN tasks, NEW s \in Orderings(S),
             op = [kind |-> "complete_set", ids |-> s]
      PROVE  op.kind = "complete_set" /\ \E n \in Nat : op.ids \in [1..n -> DOMAIN tasks]
  <2>1. Cardinality(S) \in Nat
    BY FS_Subset, FS_CardinalityType DEF TablesOK
  <2> QED BY <1>4, <2>1 DEF Orderings
<1>5. \/ op \in [kind : {"create"}, title : TaskTitles, key : {TaskKeyOf[c]}]
      \/ op \in [kind : {"complete"}, id : DOMAIN tasks] \cup [kind : {"list"}]
      \/ op \in {[kind |-> "complete", title |-> t] : t \in TaskTitles}
      \/ \E S \in SUBSET DOMAIN tasks : \E s \in Orderings(S) :
           op = [kind |-> "complete_set", ids |-> s]
  BY DEF TaskOperations
<1> QED BY <1>1, <1>2, <1>3, <1>4, <1>5

\* what a step of c leaves behind
Leaves(c) ==
  /\ Respects(c) /\ RequestsShape'
  /\ \A d \in TaskCallers \ {c} : request'[d] = request[d]
  /\ OperationOK(c)' /\ RequestOK(c)'

LEMMA SameOperation ==
  ASSUME NEW c, OperationOK(c), Respects(c), request'[c].op = request[c].op
  PROVE  OperationOK(c)'
<1>1. \A n \in Nat : \A s \in [1..n -> DOMAIN tasks] : s \in [1..n -> DOMAIN tasks']
  BY DEF Respects, Kept
<1> QED BY <1>1 DEF OperationOK

LEMMA EndingLeaves ==
  ASSUME TaskIInv, NEW c \in TaskCallers, Respects(c), NEW ends \in TaskVerdicts \ {"verified"},
         TaskEnds(c, ends)
  PROVE  Leaves(c)
<1>1. Becomes(c, "done", request[c].op, request[c].shown, ends)
  BY EndsBecomes DEF TaskIInv
<1>2. OperationOK(c)'
  BY <1>1, SameOperation DEF Becomes, TaskIInv
<1> QED BY <1>1, <1>2 DEF Leaves, Becomes, RequestOK

LEMMA ShowingLeaves ==
  ASSUME TaskIInv, NEW c \in TaskCallers, Respects(c), NEW what, Shows(c, what),
         request[c].at # "done",
         request[c].op.kind = "create" =>
           what[2].key = request[c].op.key /\ what[2].title = request[c].op.title
  PROVE  Leaves(c)
<1>1. Becomes(c, "verify", request[c].op, what, request[c].verdict)
  BY ShowsBecomes DEF TaskIInv
<1>2. OperationOK(c)'
  BY <1>1, SameOperation DEF Becomes, TaskIInv
<1>3. request[c].verdict = "none"
  BY DEF TaskIInv, RequestOK
<1> QED BY <1>1, <1>2, <1>3 DEF Leaves, Becomes, RequestOK

LEMMA CreateLeaves ==
  ASSUME TaskIInv, NEW c \in TaskCallers, CreateLookUp(c) \/ CreateInsert(c)
  PROVE  Leaves(c)
<1> USE DEF TaskIInv
<1>1. ASSUME CreateLookUp(c) PROVE Leaves(c)
  <2>1. Respects(c)
    BY <1>1, UnchangedTables DEF CreateLookUp
  <2>2. ASSUME Moves(c, "insert") PROVE Leaves(c)
    <3>1. Becomes(c, "insert", request[c].op, request[c].shown, request[c].verdict)
      BY <2>2, MovesBecomes DEF Places
    <3>2. OperationOK(c)'
      BY <2>1, <3>1, SameOperation DEF Becomes
    <3>3. c \notin DOMAIN tasks /\ request[c].verdict = "none" /\ request[c].op.kind = "create"
      BY <1>1 DEF RequestOK, CreateLookUp
    <3>4. tasks' = tasks
      BY <1>1 DEF CreateLookUp
    <3> QED BY <2>1, <3>1, <3>2, <3>3, <3>4 DEF Leaves, Becomes, RequestOK
  <2>3. ASSUME NEW id \in KeyHolder(request[c].op.key), tasks[id].title = request[c].op.title,
               Shows(c, <<id, tasks[id]>>)
        PROVE  Leaves(c)
    <3>1. tasks[id].key = request[c].op.key /\ request[c].at = "read"
      BY <1>1 DEF KeyHolder, CreateLookUp
    <3> QED BY <2>1, <2>3, <3>1, ShowingLeaves
  <2>4. ASSUME TaskEnds(c, "raised") PROVE Leaves(c)
    BY <2>1, <2>4, EndingLeaves DEF TaskVerdicts
  <2> QED BY <1>1, <2>2, <2>3, <2>4 DEF CreateLookUp
<1>2. ASSUME CreateInsert(c) PROVE Leaves(c)
  <2>1. Respects(c) /\ request[c].at = "insert"
    BY <1>2, InsertTables DEF CreateInsert
  <2>2. ASSUME Shows(c, <<c, Task(request[c].op.title, request[c].op.key)>>) PROVE Leaves(c)
    BY <2>1, <2>2, ShowingLeaves DEF Task
  <2>3. ASSUME TaskEnds(c, "raised") PROVE Leaves(c)
    BY <2>1, <2>3, EndingLeaves DEF TaskVerdicts
  <2> QED BY <1>2, <2>2, <2>3 DEF CreateInsert
<1> QED BY <1>1, <1>2

LEMMA CompleteLeaves ==
  ASSUME TaskIInv, NEW c \in TaskCallers, CompleteLookUp(c) \/ CompleteWrite(c)
  PROVE  Leaves(c)
<1> USE DEF TaskIInv
<1>1. ASSUME CompleteLookUp(c) PROVE Leaves(c)
  <2>1. Respects(c) /\ request[c].at = "read" /\ request[c].op.kind = "complete"
    BY <1>1, UnchangedTables DEF CompleteLookUp
  <2>2. ASSUME TaskEnds(c, "failed") PROVE Leaves(c)
    BY <2>1, <2>2, EndingLeaves DEF TaskVerdicts
  <2>3. ASSUME NEW id \in SelectedTask(request[c].op), IsOpen(id),
               request' = [request EXCEPT ![c].at = "write", ![c].shown = id]
        PROVE  Leaves(c)
    <3>1. Becomes(c, "write", request[c].op, id, request[c].verdict)
      BY <2>3, GoesOnBecomes DEF Places
    <3>2. OperationOK(c)'
      BY <2>1, <3>1, SameOperation DEF Becomes
    <3>3. /\ c \notin DOMAIN tasks /\ request[c].verdict = "none" /\ id \in DOMAIN tasks
          /\ tasks' = tasks
      BY <1>1, <2>1, <2>3 DEF RequestOK, CompleteLookUp, IsOpen
    <3> QED BY <2>1, <3>1, <3>2, <3>3 DEF Leaves, Becomes, RequestOK
  <2>4. ASSUME NEW id, Shows(c, <<id, tasks[id]>>) PROVE Leaves(c)
    BY <2>1, <2>4, ShowingLeaves
  <2> QED BY <1>1, <2>2, <2>3, <2>4 DEF CompleteLookUp
<1>2. ASSUME CompleteWrite(c) PROVE Leaves(c)
  <2>1. request[c].shown \in DOMAIN tasks /\ request[c].op.kind = "complete"
    BY <1>2 DEF CompleteWrite, RequestOK
  <2>2. tasks' = [id \in DOMAIN tasks |->
                    IF id \in {request[c].shown} THEN [tasks[id] EXCEPT !.status = "completed"]
                    ELSE tasks[id]]
    BY <1>2, <2>1 DEF CompleteWrite, TablesOK, RowsShape
  <2>3. Respects(c)
    BY <1>2, <2>1, <2>2, CompletingTables DEF CompleteWrite
  <2> QED BY <1>2, <2>1, <2>3, ShowingLeaves DEF CompleteWrite
<1> QED BY <1>1, <1>2

LEMMA SetLeaves ==
  ASSUME TaskIInv, NEW c \in TaskCallers, SetCheck(c) \/ SetUpdate(c) \/ SetCommit(c)
  PROVE  Leaves(c)
<1> USE DEF TaskIInv
<1>0. ASSUME request[c].op.kind = "complete_set"
      PROVE  \E n \in Nat : /\ request[c].op.ids \in [1..n -> DOMAIN tasks]
                            /\ Len(request[c].op.ids) = n
  <2>1. PICK n \in Nat : request[c].op.ids \in [1..n -> DOMAIN tasks]
    BY <1>0 DEF OperationOK
  <2> QED BY <2>1
<1>1. ASSUME SetCheck(c) PROVE Leaves(c)
  <2>1. Respects(c) /\ request[c].at = "read" /\ request[c].op.kind = "complete_set"
    BY <1>1, UnchangedTables DEF SetCheck
  <2>2. ASSUME TaskEnds(c, "failed") PROVE Leaves(c)
    BY <2>1, <2>2, EndingLeaves DEF TaskVerdicts
  <2>3. ASSUME request' = [request EXCEPT ![c].at = "update", ![c].shown = 0]
        PROVE  Leaves(c)
    <3>1. Becomes(c, "update", request[c].op, 0, request[c].verdict)
      BY <2>3, GoesOnBecomes DEF Places
    <3>2. OperationOK(c)'
      BY <2>1, <3>1, SameOperation DEF Becomes
    <3>3. c \notin DOMAIN tasks /\ request[c].verdict = "none" /\ tasks' = tasks
      BY <1>1, <2>1 DEF RequestOK, SetCheck
    <3>4. 0 <= Len(request[c].op.ids)
      BY <1>0, <2>1
    <3> QED BY <2>1, <3>1, <3>2, <3>3, <3>4 DEF Leaves, Becomes, RequestOK
  <2> QED BY <1>1, <2>2, <2>3 DEF SetCheck
<1>2. ASSUME SetUpdate(c) PROVE Leaves(c)
  <2>1. /\ request[c].at = "update" /\ request[c].op.kind = "complete_set"
        /\ request[c].shown \in Nat /\ request[c].shown < Len(request[c].op.ids)
    BY <1>2 DEF SetUpdate, Updating, RequestOK
  <2>2. PICK n \in Nat : /\ request[c].op.ids \in [1..n -> DOMAIN tasks]
                         /\ Len(request[c].op.ids) = n
    BY <1>0, <2>1
  <2>3. NextRow(c) \in DOMAIN tasks
    BY <2>1, <2>2 DEF NextRow
  <2>4. /\ Respects(c) /\ Held(c) \subseteq Held(c)'
        /\ NextRow(c) \in Held(c)' \/ tasks'[NextRow(c)].status = "completed"
    BY <1>2, <2>3, UpdateTables
  <2>5. Becomes(c, "update", request[c].op, request[c].shown + 1, request[c].verdict)
    <3>1. request' = [request EXCEPT ![c].shown = request[c].shown + 1]
      BY <1>2 DEF SetUpdate, RequestsShape
    <3> QED BY <2>1, <3>1, GoesOnBecomes DEF Places
  <2>6. OperationOK(c)'
    BY <2>4, <2>5, SameOperation DEF Becomes
  <2>7. ASSUME NEW i \in 1..request[c].shown + 1
        PROVE  \/ request[c].op.ids[i] \in Held(c)'
               \/ tasks'[request[c].op.ids[i]].status = "completed"
    <3>1. CASE i = request[c].shown + 1
      BY <2>4, <3>1 DEF NextRow
    <3>2. CASE i # request[c].shown + 1
      <4>1. i \in 1..request[c].shown /\ request[c].op.ids[i] \in DOMAIN tasks
        BY <2>1, <2>2, <3>2
      <4>2. \/ request[c].op.ids[i] \in Held(c)
            \/ tasks[request[c].op.ids[i]].status = "completed"
        BY <2>1, <4>1 DEF RequestOK
      <4> QED BY <2>4, <4>1, <4>2 DEF Respects, Kept
    <3> QED BY <3>1, <3>2
  <2>8. c \notin DOMAIN tasks' /\ request[c].verdict = "none"
    BY <1>2, <2>1 DEF RequestOK, SetUpdate, UpdatesRow
  <2>9. request[c].shown + 1 \in Nat /\ request[c].shown + 1 <= Len(request[c].op.ids)
    BY <2>1, <2>2
  <2> QED BY <2>1, <2>4, <2>5, <2>6, <2>7, <2>8, <2>9 DEF Leaves, Becomes, RequestOK
<1>3. ASSUME SetCommit(c) PROVE Leaves(c)
  <2>1. request[c].op.kind = "complete_set" /\ request[c].at = "update"
    BY <1>3 DEF SetCommit, RequestOK
  <2>2. Held(c) \in SUBSET DOMAIN tasks
    BY DEF Held, TablesOK
  <2>3. Respects(c)
    BY <1>3, <2>2, CompletingTables DEF SetCommit
  <2> QED BY <1>3, <2>1, <2>3, ShowingLeaves DEF SetCommit
<1> QED BY <1>1, <1>2, <1>3

LEMMA VerifyLeaves ==
  ASSUME TaskIInv, NEW c \in TaskCallers, VerifyTask(c)
  PROVE  Leaves(c)
<1> USE DEF TaskIInv
<1>1. Respects(c) /\ request[c].at = "verify" /\ UNCHANGED tasks
  BY UnchangedTables DEF VerifyTask
<1>2. CASE ~TaskConfirmed(request[c].op, request[c].shown)
  BY <1>1, <1>2, EndingLeaves DEF VerifyTask, TaskVerdicts
<1>3. CASE TaskConfirmed(request[c].op, request[c].shown)
  <2>1. Becomes(c, "done", request[c].op, request[c].shown, "verified")
    BY <1>3, EndsBecomes DEF VerifyTask, TaskVerdicts
  <2>2. OperationOK(c)'
    BY <1>1, <2>1, SameOperation DEF Becomes
  <2>3. ASSUME request[c].op.kind = "create"
        PROVE  \E id \in DOMAIN tasks : /\ tasks[id].key = request[c].op.key
                                        /\ tasks[id].title = request[c].op.title
    <3>1. TaskKept(request[c].shown)
      BY <1>3, <2>3 DEF TaskConfirmed
    <3> QED BY <1>1, <2>3, <3>1 DEF TaskKept, RequestOK
  <2> QED BY <1>1, <2>1, <2>2, <2>3 DEF Leaves, Becomes, RequestOK, KeyHolder
<1> QED BY <1>2, <1>3

LEMMA OtherLeaves ==
  ASSUME TaskIInv, NEW c \in TaskCallers,
         GroundTask(c) \/ ListTasks(c) \/ DeadlockAbort(c) \/ Die(c)
  PROVE  Leaves(c)
<1> USE DEF TaskIInv
<1>1. ASSUME GroundTask(c) PROVE Leaves(c)
  <2>1. Respects(c) /\ request[c].at = "idle" /\ tasks' = tasks
    BY <1>1, UnchangedTables DEF GroundTask
  <2>2. PICK op \in TaskOperations(c) :
          request' = [request EXCEPT ![c].op = op, ![c].at = "read"]
    BY <1>1 DEF GroundTask
  <2>3. Becomes(c, "read", op, request[c].shown, request[c].verdict)
    BY <2>2, GoesOnBecomes DEF Places
  <2>4. OperationOK(c)'
    BY <2>1, <2>3, OperationsOK DEF Becomes, OperationOK
  <2>5. c \notin DOMAIN tasks /\ request[c].verdict = "none"
    BY <2>1 DEF RequestOK
  <2> QED BY <2>1, <2>3, <2>4, <2>5 DEF Leaves, Becomes, RequestOK
<1>2. ASSUME ListTasks(c) PROVE Leaves(c)
  BY <1>2, UnchangedTables, ShowingLeaves DEF ListTasks
<1>3. ASSUME RollsBack(c) PROVE Respects(c)
  <2>1. tasks' = [id \in DOMAIN tasks |->
                    IF id \in {} THEN [tasks[id] EXCEPT !.status = "completed"] ELSE tasks[id]]
    <3>1. PICK K : tasks \in [DOMAIN tasks -> [title : TaskTitles, status : Statuses, key : K]]
      BY DEF TablesOK, RowsShape
    <3>2. tasks = [id \in DOMAIN tasks |-> tasks[id]]
      BY <3>1
    <3> QED BY <1>3, <3>2 DEF RollsBack
  <2>2. lockedBy' = Without(Held(c)) /\ {} \in SUBSET DOMAIN tasks
    BY <1>3 DEF RollsBack
  <2> HIDE <1>3
  <2> QED BY <2>1, <2>2, CompletingTables
<1>4. ASSUME DeadlockAbort(c) \/ Die(c) PROVE Leaves(c)
  BY <1>3, <1>4, EndingLeaves DEF DeadlockAbort, Die, TaskVerdicts
<1> QED BY <1>1, <1>2, <1>4

LEMMA TaskStepLeaves ==
  ASSUME TaskIInv, NEW c \in TaskCallers, GroundTask(c) \/ TaskStep(c) \/ Die(c)
  PROVE  Leaves(c)
BY CreateLeaves, CompleteLeaves, SetLeaves, VerifyLeaves, OtherLeaves DEF TaskStep

LEMMA TaskStarts == TaskInit => TaskIInv
<1> SUFFICES ASSUME TaskInit PROVE TaskIInv
  OBVIOUS
<1>1. /\ DOMAIN tasks = DOMAIN OpenTasks
      /\ \A id \in DOMAIN tasks : tasks[id] = Task(OpenTasks[id], id)
  BY DEF TaskInit
<1>2. tasks \in [DOMAIN tasks -> [title : TaskTitles, status : Statuses, key : DOMAIN OpenTasks]]
  BY TaskAssumption DEF TaskInit, Task, Statuses
<1>3. KeysDiffer
  BY <1>1 DEF KeysDiffer, Task
<1>4. TablesOK
  BY <1>1, <1>2, <1>3, TaskAssumption DEF TaskInit, TablesOK, RowsShape
<1>5. request \in [TaskCallers -> [at : Places, op : {[kind |-> "none"]}, shown : {"nothing"},
                                   verdict : TaskVerdicts]]
  BY DEF TaskInit, NoRequest, Places, TaskVerdicts
<1>6. \A c \in TaskCallers : OperationOK(c) /\ RequestOK(c)
  BY <1>1, TaskAssumption DEF TaskInit, NoRequest, OperationOK, RequestOK
<1> QED BY <1>4, <1>5, <1>6 DEF TaskIInv, RequestsShape

LEMMA TaskStutters ==
  ASSUME TaskIInv, UNCHANGED taskVars
  PROVE  TaskIInv'
<1>1. tasks' = tasks /\ lockedBy' = lockedBy /\ request' = request
  BY DEF taskVars
<1>2. TablesOK' /\ RequestsShape'
  BY <1>1 DEF TaskIInv, TablesOK, RowsShape, RequestsShape, KeysDiffer
<1>3. ASSUME NEW c \in TaskCallers PROVE OperationOK(c)' /\ RequestOK(c)'
  <2>1. OperationOK(c) /\ RequestOK(c)
    BY DEF TaskIInv
  <2> QED BY <1>1, <2>1 DEF OperationOK, RequestOK, KeyHolder, Held
<1> QED BY <1>2, <1>3 DEF TaskIInv

LEMMA TaskNextKeeps ==
  ASSUME TaskIInv, [TaskNext]_taskVars
  PROVE  TaskIInv'
<1>1. ASSUME NEW c \in TaskCallers, GroundTask(c) \/ TaskStep(c) \/ Die(c)
      PROVE  TaskIInv'
  <2>1. Leaves(c)
    BY <1>1, TaskStepLeaves
  <2>2. \A d \in TaskCallers \ {c} : OperationOK(d)' /\ RequestOK(d)'
    BY <1>1, <2>1, OthersOK DEF Leaves
  <2> QED BY <2>1, <2>2 DEF Leaves, Respects, TaskIInv
<1> QED BY <1>1, TaskStutters DEF TaskNext

\* What the requests of the tasks table rely on when they come to write is kept by
\* every statement of any of them, and by any death.
THEOREM TaskInvariance == TaskSpec => []TaskIInv
<1>1. TaskIInv /\ [TaskNext]_taskVars => TaskIInv'
  BY TaskNextKeeps
<1> QED BY <1>1, TaskStarts, PTL DEF TaskSpec

-----------------------------------------------------------------------------
(* What the callers rely on                                                  *)

LEMMA TaskStatesAre ==
  ASSUME TaskIInv
  PROVE  TaskTypeOK /\ OneTaskPerKey
<1>1. TaskTypeOK
  BY DEF TaskIInv, TablesOK, RowsShape, RequestsShape, TaskTypeOK, Places, TaskVerdicts, Statuses
<1>2. OneTaskPerKey
  BY DEF TaskIInv, TablesOK, KeysDiffer, OperationOK, RequestOK, OneTaskPerKey
<1> QED BY <1>1, <1>2

\* The tables and the requests keep their types.
THEOREM TaskTypeCorrect == TaskSpec => []TaskTypeOK
<1>1. TaskIInv => TaskTypeOK
  BY TaskStatesAre
<1> QED BY <1>1, TaskInvariance, PTL

\* Of any number of requests with one key at most one leaves a task, and whoever
\* was told that a task was created finds one of that key and title, for good.
THEOREM OneTaskForEachKey == TaskSpec => []OneTaskPerKey
<1>1. TaskIInv => OneTaskPerKey
  BY TaskStatesAre
<1> QED BY <1>1, TaskInvariance, PTL

LEMMA SetsStepTogether ==
  TaskIInv /\ [TaskNext]_taskVars =>
    [\A c \in TaskCallers :
       (request[c].at = "update" /\ request'[c] # request[c] /\ tasks' # tasks)
         => \A i \in DOMAIN request[c].op.ids :
              tasks'[request[c].op.ids[i]].status = "completed"]_taskVars
<1>1. ASSUME TaskIInv, NEW c \in TaskCallers, SetCommit(c), NEW i \in DOMAIN request[c].op.ids
      PROVE  tasks'[request[c].op.ids[i]].status = "completed"
  <2>1. /\ request[c].at = "update" /\ request[c].op.kind = "complete_set"
        /\ request[c].shown = Len(request[c].op.ids)
    BY <1>1 DEF SetCommit, TaskIInv, RequestOK
  <2>2. PICK n \in Nat : request[c].op.ids \in [1..n -> DOMAIN tasks]
    BY <1>1, <2>1 DEF TaskIInv, OperationOK
  <2>3. i \in 1..request[c].shown /\ request[c].op.ids[i] \in DOMAIN tasks
    BY <1>1, <2>1, <2>2
  <2>4. \/ request[c].op.ids[i] \in Held(c)
        \/ tasks[request[c].op.ids[i]].status = "completed"
    BY <1>1, <2>1, <2>3 DEF TaskIInv, RequestOK
  <2>5. PICK K : tasks \in [DOMAIN tasks -> [title : TaskTitles, status : Statuses, key : K]]
    BY <1>1 DEF TaskIInv, TablesOK, RowsShape
  <2> QED BY <1>1, <2>3, <2>4, <2>5 DEF SetCommit
<1>2. ASSUME TaskIInv, TaskNext,
             NEW c \in TaskCallers, request[c].at = "update", request'[c] # request[c], tasks' # tasks
      PROVE  SetCommit(c)
  <2>1. PICK d \in TaskCallers : GroundTask(d) \/ TaskStep(d) \/ Die(d)
    BY <1>2 DEF TaskNext
  <2>2. d = c
    BY <1>2, <2>1, TaskStepLeaves DEF Leaves
  <2> QED BY <1>2, <2>1, <2>2
          DEF GroundTask, TaskStep, Die, CreateLookUp, CreateInsert, CompleteLookUp,
              CompleteWrite, SetCheck, SetUpdate, UpdatesRow, DeadlockAbort, RollsBack,
              ListTasks, VerifyTask
<1> QED BY <1>1, <1>2

\* A transaction that completes a set completes all of it in the step that makes
\* any of it visible.
THEOREM SetsAreCompletedWhole == TaskSpec => SetsCompleteTogether
BY SetsStepTogether, TaskInvariance, PTL DEF TaskSpec, SetsCompleteTogether

-----------------------------------------------------------------------------
(* decide_fallback, for any request and any wiring: what it costs at most, and what a
   change that it returns has been compared with. Left is what a decision can still
   cost at a stage of the pipeline, attempts of the repair in hand included. Each step
   pays for its call out of it: the loops are bounded one by one, and Left is why their
   sum is.                                                                       *)

-----------------------------------------------------------------------------
(* decide_fallback: the inductive invariant                                  *)

Kinds == {"none", "ANSWER", "CLARIFY", "NEED_CONTEXT", "ACTION", "PLAN"}
\* the stages that ask nothing of the decision and have no repair in hand
FreeStages ==
  {"classify", "source", "generate", "route", "compound", "clarified", "single",
   "research", "reconsider", "again", "rewrite", "check", "argument repaired",
   "argued", "recover", "returned"}

\* calls of the model that may still follow
After(repair) ==
  CASE repair.of = "route" -> 14
    [] repair.of = "compound" -> 11
    [] repair.of = "single" -> 8
    [] repair.of = "effects" -> 5
    [] repair.of = "argument" -> 3
    [] repair.of = "map" -> 2
    [] repair.of = "missing" -> 1
    [] OTHER -> 0
LeftAt(s, repair, kind) ==
  CASE s \in {"decode", "plan", "reading"} -> repair.left + After(repair)
    [] s = "classify" -> 20
    [] s = "source" -> 19
    [] s = "generate" -> 18
    [] s = "route" -> 17
    [] s = "compound" -> 14
    [] s = "clarified" -> 11
    [] s = "single" -> 10
    [] s \in {"research", "effects"} -> 8
    [] s = "reconsider" -> IF kind = "PLAN" THEN 0 ELSE 8
    [] s = "again" -> 7
    [] s \in {"rewrite", "check"} -> IF kind = "PLAN" THEN 0 ELSE 6
    [] s = "argument" -> 6
    [] s = "map" -> 5
    [] s = "argument repaired" -> 3
    [] s \in {"compare", "read"} -> 2
    [] s = "recover" -> 1
    [] OTHER -> 0
Left == LeftAt(stage, repairing, decision.kind)

\* a change in this decision is the whole request
Accounted(d) ==
  d.kind = "ACTION" =>
    (d.write => /\ setup.parser = "works"
                /\ utterance.anchors = 1 /\ ~utterance.negated)
\* the decision has passed the last check
Checked ==
  \/ stage \in {"argument", "argument repaired", "argued"}
  \/ stage = "decode" /\ repairing.of \in {"argument", "missing"}

\* only a plan is compared, only an action lacks an argument, and a repair loop has
\* an attempt left when it is entered
ShapeAt(s, repair, kind) ==
  /\ kind \in Kinds /\ repair.left \in 0..2
  /\ \/ s \in FreeStages
     \/ s \in {"effects", "map", "compare"} /\ kind = "PLAN"
     \/ s \in {"read", "argument"} /\ kind = "ACTION"
     \/ /\ repair.left > 0
        /\ \/ s = "decode" /\ repair.of = "route"
           \/ s = "decode" /\ repair.of \in {"argument", "missing"} /\ kind = "ACTION"
           \/ s = "plan" /\ repair.of \in {"compound", "single"}
           \/ s = "plan" /\ repair.of = "fidelity" /\ kind = "PLAN"
           \/ s = "reading" /\ repair.of \in {"effects", "map"} /\ kind = "PLAN"
ShapeOK == ShapeAt(stage, repairing, decision.kind)
BudgetOK == modelCalls \in Nat /\ modelCalls + Left <= MostCalls
ChangesOK == (Checked => Accounted(decision)) /\ Accounted(returned)

CognitionIInv == ShapeOK /\ BudgetOK /\ ChangesOK

-----------------------------------------------------------------------------
\* what is left at each stage, before a step and after it
LEMMA LeftNow ==
  /\ stage = "classify" => Left = 20
  /\ stage = "source" => Left = 19
  /\ stage = "generate" => Left = 18
  /\ stage = "route" => Left = 17
  /\ stage = "compound" => Left = 14
  /\ stage = "clarified" => Left = 11
  /\ stage = "single" => Left = 10
  /\ stage = "research" => Left = 8
  /\ stage = "effects" => Left = 8
  /\ stage = "map" => Left = 5
  /\ stage = "compare" => Left = 2
  /\ stage = "again" => Left = 7
  /\ stage = "read" => Left = 2
  /\ stage = "argument" => Left = 6
  /\ stage = "argued" => Left = 0
  /\ stage = "recover" => Left = 1
  /\ stage = "returned" => Left = 0
  /\ stage = "argument repaired" => Left = 3
  /\ stage = "reconsider" => Left = IF decision.kind = "PLAN" THEN 0 ELSE 8
  /\ stage = "rewrite" => Left = IF decision.kind = "PLAN" THEN 0 ELSE 6
  /\ stage = "check" => Left = IF decision.kind = "PLAN" THEN 0 ELSE 6
  /\ stage \in {"decode", "plan", "reading"} =>
       Left = repairing.left + After(repairing)
BY DEF Left, LeftAt

LEMMA LeftNext ==
  /\ stage' = "classify" => Left' = 20
  /\ stage' = "source" => Left' = 19
  /\ stage' = "generate" => Left' = 18
  /\ stage' = "route" => Left' = 17
  /\ stage' = "compound" => Left' = 14
  /\ stage' = "clarified" => Left' = 11
  /\ stage' = "single" => Left' = 10
  /\ stage' = "research" => Left' = 8
  /\ stage' = "effects" => Left' = 8
  /\ stage' = "map" => Left' = 5
  /\ stage' = "compare" => Left' = 2
  /\ stage' = "again" => Left' = 7
  /\ stage' = "read" => Left' = 2
  /\ stage' = "argument" => Left' = 6
  /\ stage' = "argued" => Left' = 0
  /\ stage' = "recover" => Left' = 1
  /\ stage' = "returned" => Left' = 0
  /\ stage' = "argument repaired" => Left' = 3
  /\ stage' = "reconsider" => Left' = IF decision'.kind = "PLAN" THEN 0 ELSE 8
  /\ stage' = "rewrite" => Left' = IF decision'.kind = "PLAN" THEN 0 ELSE 6
  /\ stage' = "check" => Left' = IF decision'.kind = "PLAN" THEN 0 ELSE 6
  /\ stage' \in {"decode", "plan", "reading"} =>
       Left' = repairing'.left + After(repairing')
BY DEF Left, LeftAt

\* a step stays within what is left when it makes a call only where it counts one off
LEMMA Affords ==
  ASSUME BudgetOK, NEW l \in Nat, NEW k \in Nat, Left = l, Left' = k,
         (Silently /\ k <= l) \/ (Call /\ k < l)
  PROVE  BudgetOK'
<1>1. modelCalls \in Nat /\ modelCalls + l <= 20
  BY DEF BudgetOK, MostCalls
<1>2. CASE Silently /\ k <= l
  BY <1>1, <1>2 DEF BudgetOK, MostCalls, Silently
<1>3. CASE Call /\ k < l
  BY <1>1, <1>3 DEF BudgetOK, MostCalls, Call
<1> QED BY <1>2, <1>3

\* what the decoders let through
LEMMA KindsDecoded ==
  /\ \A d \in Decodable : d.kind \in Kinds
  /\ \A d \in Focused : d.kind \in Kinds /\ (d.kind = "ACTION" => d.write = decision.write)
  /\ \A d \in Plans : d.kind = "PLAN"
BY DEF Decodable, Focused, Answers, Questions, Actions, Plans, Kinds

-----------------------------------------------------------------------------
(* Where a step can lead                                                     *)

\* to a stage before the last check
LEMMA GoesOn ==
  ASSUME CognitionIInv, UNCHANGED <<utterance, setup, returned>>,
         stage' \in FreeStages \ {"argument repaired", "argued"},
         decision'.kind \in Kinds, repairing'.left \in 0..2,
         NEW l \in Nat, NEW k \in Nat, Left = l, Left' = k,
         (Silently /\ k <= l) \/ (Call /\ k < l)
  PROVE  CognitionIInv'
<1>1. ShapeOK'
  BY DEF ShapeOK, ShapeAt
<1>2. BudgetOK'
  BY Affords DEF CognitionIInv
<1>3. ~Checked'
  BY DEF Checked, FreeStages
<1>4. Accounted(returned)'
  BY DEF CognitionIInv, ChangesOK, Accounted
<1> QED BY <1>1, <1>2, <1>3, <1>4 DEF CognitionIInv, ChangesOK

\* to a stage that asks for something, or past the last check
LEMMA GoesTo ==
  ASSUME CognitionIInv, UNCHANGED <<utterance, setup, returned>>,
         ShapeOK', Checked' => Accounted(decision)',
         NEW l \in Nat, NEW k \in Nat, Left = l, Left' = k,
         (Silently /\ k <= l) \/ (Call /\ k < l)
  PROVE  CognitionIInv'
<1>1. BudgetOK'
  BY Affords DEF CognitionIInv
<1>2. Accounted(returned)'
  BY DEF CognitionIInv, ChangesOK, Accounted
<1> QED BY <1>1, <1>2 DEF CognitionIInv, ChangesOK

\* to the end
LEMMA Returns ==
  ASSUME CognitionIInv, UNCHANGED <<utterance, setup>>, Keeping,
         stage' = "returned", Accounted(returned)',
         NEW l \in Nat, Left = l, Silently \/ (Call /\ l > 0)
  PROVE  CognitionIInv'
<1>1. decision' = decision /\ repairing' = repairing
  BY DEF Keeping, thought
<1>2. ShapeOK'
  BY <1>1 DEF CognitionIInv, ShapeOK, ShapeAt, FreeStages
<1>3. Left' = 0
  BY LeftNext
<1>4. BudgetOK'
  BY <1>3, Affords DEF CognitionIInv
<1>5. ~Checked'
  BY DEF Checked
<1> QED BY <1>2, <1>4, <1>5 DEF CognitionIInv, ChangesOK

LEMMA ReturnsNoChange ==
  ASSUME CognitionIInv, UNCHANGED <<utterance, setup>>, Keeping,
         stage' = "returned", returned'.kind # "ACTION",
         NEW l \in Nat, Left = l, Silently \/ (Call /\ l > 0)
  PROVE  CognitionIInv'
<1>1. Accounted(returned)'
  BY DEF Accounted
<1> QED BY <1>1, Returns

\* to the recovery
LEMMA Recovers ==
  ASSUME CognitionIInv, UNCHANGED <<utterance, setup>>, Keeping, Invalid,
         NEW l \in Nat, Left = l, (Silently /\ l > 0) \/ (Call /\ l > 1)
  PROVE  CognitionIInv'
<1>1. stage' = "recover" /\ UNCHANGED <<returned, decision, repairing>>
  BY DEF Invalid, To, Keeping, thought
<1>2. Left' = 1
  BY <1>1, LeftNext
<1>3. decision'.kind \in Kinds /\ repairing'.left \in 0..2
  BY <1>1 DEF CognitionIInv, ShapeOK, ShapeAt
<1>4. stage' \in FreeStages \ {"argument repaired", "argued"}
  BY <1>1 DEF FreeStages
<1> QED BY <1>1, <1>2, <1>3, <1>4, GoesOn

-----------------------------------------------------------------------------
(* The steps                                                                 *)

LEMMA SourceKeeps ==
  ASSUME CognitionIInv, Source, UNCHANGED <<utterance, setup>>
  PROVE  CognitionIInv'
<1>a. Left = 19
  BY LeftNow DEF Source
<1>s. decision.kind \in Kinds /\ repairing.left \in 0..2
  BY DEF CognitionIInv, ShapeOK, ShapeAt
<1>1. CASE ~setup.research
  <2>1. stage' = "returned" /\ Keeping /\ returned'.kind # "ACTION"
    BY <1>1 DEF Return, Plain, ModelUnavailable, Source
  <2> QED BY <1>1, <1>a, <2>1, ReturnsNoChange DEF Source
<1>2. CASE setup.research /\ Call /\ Keeping /\ (Return(Plain("RESEARCHED")) \/ ModelUnavailable)
  <2>1. stage' = "returned" /\ Keeping /\ returned'.kind # "ACTION"
    BY <1>2 DEF Return, Plain, ModelUnavailable
  <2> QED BY <1>2, <1>a, <2>1, ReturnsNoChange DEF Source
<1>3. CASE Call /\ Keeping /\ To("generate")
  <2>1. stage' = "generate" /\ UNCHANGED returned
    BY <1>3 DEF To, Decide
  <2>2. decision' = decision /\ repairing' = repairing
    BY <1>3 DEF Keeping, thought
  <2>3. Left' = 18
    BY <2>1, LeftNext
  <2>4. stage' \in FreeStages \ {"argument repaired", "argued"}
    BY <2>1 DEF FreeStages
  <2> QED BY <1>3, <1>a, <1>s, <2>1, <2>2, <2>3, <2>4, GoesOn DEF Source
<1>4. CASE setup.research /\ Call /\ Keeping /\ Return([kind |-> "ANSWER", source |-> "model"])
  <2>1. stage' = "returned" /\ Keeping /\ returned'.kind # "ACTION"
    BY <1>4 DEF Return, Plain, ModelUnavailable
  <2> QED BY <1>4, <1>a, <2>1, ReturnsNoChange DEF Source
<1> QED BY <1>1, <1>2, <1>3, <1>4 DEF Source

LEMMA GenerateKeeps ==
  ASSUME CognitionIInv, Generate, UNCHANGED <<utterance, setup>>
  PROVE  CognitionIInv'
<1>a. Left = 18
  BY LeftNow DEF Generate
<1>s. decision.kind \in Kinds /\ repairing.left \in 0..2
  BY DEF CognitionIInv, ShapeOK, ShapeAt
<1>1. CASE Call /\ Keeping /\ Return([kind |-> "ANSWER", source |-> "model"])
  <2>1. stage' = "returned" /\ Keeping /\ returned'.kind # "ACTION"
    BY <1>1 DEF Return, Plain, ModelUnavailable
  <2> QED BY <1>1, <1>a, <2>1, ReturnsNoChange DEF Generate
<1>2. CASE Call /\ Keeping /\ Invalid
  <2> QED BY <1>2, <1>a, Recovers DEF Generate
<1>3. CASE Call /\ Keeping /\ To("route")
  <2>1. stage' = "route" /\ UNCHANGED returned
    BY <1>3 DEF To, Decide
  <2>2. decision' = decision /\ repairing' = repairing
    BY <1>3 DEF Keeping, thought
  <2>3. Left' = 17
    BY <2>1, LeftNext
  <2>4. stage' \in FreeStages \ {"argument repaired", "argued"}
    BY <2>1 DEF FreeStages
  <2> QED BY <1>3, <1>a, <1>s, <2>1, <2>2, <2>3, <2>4, GoesOn DEF Generate
<1> QED BY <1>1, <1>2, <1>3 DEF Generate

LEMMA RouteKeeps ==
  ASSUME CognitionIInv, Route, UNCHANGED <<utterance, setup>>
  PROVE  CognitionIInv'
<1>a. Left = 17
  BY LeftNow DEF Route
<1>s. decision.kind \in Kinds /\ repairing.left \in 0..2
  BY DEF CognitionIInv, ShapeOK, ShapeAt
<1>1. CASE Call /\ \E d \in Decodable : Decide(d) /\ To("compound")
  <2>1. stage' = "compound" /\ UNCHANGED returned
    BY <1>1 DEF To, Decide
  <2>2. decision'.kind \in Kinds /\ repairing' = repairing
    BY <1>1, KindsDecoded DEF Decide
  <2>3. Left' = 14
    BY <2>1, LeftNext
  <2>4. stage' \in FreeStages \ {"argument repaired", "argued"}
    BY <2>1 DEF FreeStages
  <2> QED BY <1>1, <1>a, <1>s, <2>1, <2>2, <2>3, <2>4, GoesOn DEF Route
<1>2. CASE Call /\ Repair("route", 2) /\ To("decode") /\ UNCHANGED <<mode, decision, verdict>>
  <2>1. stage' = "decode" /\ UNCHANGED <<returned, decision>>
    BY <1>2 DEF To
  <2>2. repairing'.of = "route" /\ repairing'.left = 2
    BY <1>2 DEF Repair
  <2>3. Left' = 16
    BY <2>1, <2>2, LeftNext DEF After
  <2>4. ShapeOK'
    BY <1>s, <2>1, <2>2 DEF ShapeOK, ShapeAt
  <2>5. ~Checked'
    BY <2>1, <2>2 DEF Checked
  <2> QED BY <1>2, <1>a, <2>1, <2>3, <2>4, <2>5, GoesTo DEF Route
<1> QED BY <1>1, <1>2 DEF Route

LEMMA SingleKeeps ==
  ASSUME CognitionIInv, Single, UNCHANGED <<utterance, setup>>
  PROVE  CognitionIInv'
<1>a. Left = 10
  BY LeftNow DEF Single
<1>s. decision.kind \in Kinds /\ repairing.left \in 0..2
  BY DEF CognitionIInv, ShapeOK, ShapeAt
<1>1. CASE Silently /\ Invalid /\ Keeping
  <2> QED BY <1>1, <1>a, Recovers DEF Single
<1>2. CASE Silently /\ Repair("single", 2) /\ To("plan") /\ UNCHANGED <<mode, decision, verdict>>
  <2>1. stage' = "plan" /\ UNCHANGED <<returned, decision>>
    BY <1>2 DEF To
  <2>2. repairing'.of = "single" /\ repairing'.left = 2
    BY <1>2 DEF Repair
  <2>3. Left' = 10
    BY <2>1, <2>2, LeftNext DEF After
  <2>4. ShapeOK'
    BY <1>s, <2>1, <2>2 DEF ShapeOK, ShapeAt
  <2>5. ~Checked'
    BY <2>1, <2>2 DEF Checked
  <2> QED BY <1>2, <1>a, <2>1, <2>3, <2>4, <2>5, GoesTo DEF Single
<1>3. CASE Silently /\ To("research") /\ Keeping
  <2>1. stage' = "research" /\ UNCHANGED returned
    BY <1>3 DEF To, Decide
  <2>2. decision' = decision /\ repairing' = repairing
    BY <1>3 DEF Keeping, thought
  <2>3. Left' = 8
    BY <2>1, LeftNext
  <2>4. stage' \in FreeStages \ {"argument repaired", "argued"}
    BY <2>1 DEF FreeStages
  <2> QED BY <1>3, <1>a, <1>s, <2>1, <2>2, <2>3, <2>4, GoesOn DEF Single
<1> QED BY <1>1, <1>2, <1>3 DEF Single

LEMMA MapKeeps ==
  ASSUME CognitionIInv, Map, UNCHANGED <<utterance, setup>>
  PROVE  CognitionIInv'
<1>a. Left = 5
  BY LeftNow DEF Map
<1>s. decision.kind \in Kinds /\ repairing.left \in 0..2
  BY DEF CognitionIInv, ShapeOK, ShapeAt
<1>p. decision.kind = "PLAN"
  BY DEF CognitionIInv, ShapeOK, ShapeAt, FreeStages, Map
<1>1. CASE Call /\ To("compare") /\ Keeping
  <2>1. stage' = "compare" /\ UNCHANGED <<returned, decision, repairing>>
    BY <1>1 DEF To, Keeping, thought
  <2>2. Left' = 2
    BY <2>1, LeftNext
  <2>3. ShapeOK'
    BY <1>s, <1>p, <2>1 DEF ShapeOK, ShapeAt
  <2>4. ~Checked'
    BY <2>1 DEF Checked
  <2> QED BY <1>1, <1>a, <2>1, <2>2, <2>3, <2>4, GoesTo
<1>2. CASE Call /\ Repair("map", 2) /\ To("reading") /\ UNCHANGED <<mode, decision, verdict>>
  <2>1. stage' = "reading" /\ UNCHANGED <<returned, decision>>
    BY <1>2 DEF To
  <2>2. repairing'.of = "map" /\ repairing'.left = 2
    BY <1>2 DEF Repair
  <2>3. Left' = 4
    BY <2>1, <2>2, LeftNext DEF After
  <2>4. ShapeOK'
    BY <1>s, <2>1, <2>2, <1>p DEF ShapeOK, ShapeAt
  <2>5. ~Checked'
    BY <2>1, <2>2 DEF Checked
  <2> QED BY <1>2, <1>a, <2>1, <2>3, <2>4, <2>5, GoesTo DEF Map
<1> QED BY <1>1, <1>2 DEF Map

LEMMA SecondLookKeeps ==
  ASSUME CognitionIInv, SecondLook, UNCHANGED <<utterance, setup>>
  PROVE  CognitionIInv'
<1>a. Left = 7
  BY LeftNow DEF SecondLook
<1>s. decision.kind \in Kinds /\ repairing.left \in 0..2
  BY DEF CognitionIInv, ShapeOK, ShapeAt
<1>1. CASE Call /\ \E d \in Decodable : Decide(d) /\ To("rewrite")
  <2>1. stage' = "rewrite" /\ UNCHANGED returned
    BY <1>1 DEF To, Decide
  <2>2. decision'.kind \in Kinds /\ repairing' = repairing
    BY <1>1, KindsDecoded DEF Decide
  <2>3. Left' = (IF decision'.kind = "PLAN" THEN 0 ELSE 6)
    BY <2>1, <2>2, LeftNext
  <2>4. stage' \in FreeStages \ {"argument repaired", "argued"}
    BY <2>1 DEF FreeStages
  <2> QED BY <1>1, <1>a, <1>s, <2>1, <2>2, <2>3, <2>4, GoesOn DEF SecondLook
<1>2. CASE Call /\ Invalid /\ Keeping
  <2> QED BY <1>2, <1>a, Recovers DEF SecondLook
<1> QED BY <1>1, <1>2 DEF SecondLook

LEMMA CompoundKeeps ==
  ASSUME CognitionIInv, Compound, UNCHANGED <<utterance, setup>>
  PROVE  CognitionIInv'
<1>a. Left = 14
  BY LeftNow DEF Compound
<1>s. decision.kind \in Kinds /\ repairing.left \in 0..2
  BY DEF CognitionIInv, ShapeOK, ShapeAt
<1>1. CASE /\ Call /\ To("plan") /\ UNCHANGED <<mode, decision, verdict>>
           /\ \E attempts \in PlanAttempts : Repair("compound", attempts)
  <2>1. stage' = "plan" /\ UNCHANGED <<returned, decision>>
    BY <1>1 DEF To
  <2>2. repairing'.of = "compound" /\ repairing'.left \in {1, 2}
    BY <1>1 DEF Repair, PlanAttempts
  <2>3. Left' = repairing'.left + 11
    BY <2>1, <2>2, LeftNext DEF After
  <2>4. ShapeOK'
    BY <1>s, <2>1, <2>2 DEF ShapeOK, ShapeAt
  <2>5. ~Checked'
    BY <2>1 DEF Checked
  <2> QED BY <1>1, <1>a, <2>1, <2>2, <2>3, <2>4, <2>5, GoesTo
<1>2. CASE Silently /\ To("clarified") /\ Keeping
  <2>1. stage' = "clarified" /\ UNCHANGED returned
    BY <1>2 DEF To, Decide
  <2>2. decision' = decision /\ repairing' = repairing
    BY <1>2 DEF Keeping, thought
  <2>3. Left' = 11
    BY <2>1, LeftNext
  <2>4. stage' \in FreeStages \ {"argument repaired", "argued"}
    BY <2>1 DEF FreeStages
  <2> QED BY <1>2, <1>a, <1>s, <2>1, <2>2, <2>3, <2>4, GoesOn DEF Compound
<1> QED BY <1>1, <1>2 DEF Compound

LEMMA ClarifiedKeeps ==
  ASSUME CognitionIInv, Clarified, UNCHANGED <<utterance, setup>>
  PROVE  CognitionIInv'
<1>a. Left = 11
  BY LeftNow DEF Clarified
<1>s. decision.kind \in Kinds /\ repairing.left \in 0..2
  BY DEF CognitionIInv, ShapeOK, ShapeAt
<1>1. CASE Call /\ To("single") /\ \E d \in {decision} \cup (Decodable \ Questions) : Decide(d)
  <2>1. stage' = "single" /\ UNCHANGED returned
    BY <1>1 DEF To, Decide
  <2>2. decision'.kind \in Kinds /\ repairing' = repairing
    BY <1>1, <1>s, KindsDecoded DEF Decide
  <2>3. Left' = 10
    BY <2>1, LeftNext
  <2>4. stage' \in FreeStages \ {"argument repaired", "argued"}
    BY <2>1 DEF FreeStages
  <2> QED BY <1>1, <1>a, <1>s, <2>1, <2>2, <2>3, <2>4, GoesOn DEF Clarified
<1>2. CASE Call /\ ModelUnavailable /\ Keeping
  <2>1. stage' = "returned" /\ Keeping /\ returned'.kind # "ACTION"
    BY <1>2 DEF Return, Plain, ModelUnavailable
  <2> QED BY <1>2, <1>a, <2>1, ReturnsNoChange DEF Clarified
<1>3. CASE Silently /\ To("single") /\ Keeping
  <2>1. stage' = "single" /\ UNCHANGED returned
    BY <1>3 DEF To, Decide
  <2>2. decision' = decision /\ repairing' = repairing
    BY <1>3 DEF Keeping, thought
  <2>3. Left' = 10
    BY <2>1, LeftNext
  <2>4. stage' \in FreeStages \ {"argument repaired", "argued"}
    BY <2>1 DEF FreeStages
  <2> QED BY <1>3, <1>a, <1>s, <2>1, <2>2, <2>3, <2>4, GoesOn DEF Clarified
<1> QED BY <1>1, <1>2, <1>3 DEF Clarified

LEMMA ResearchKeeps ==
  ASSUME CognitionIInv, Research, UNCHANGED <<utterance, setup>>
  PROVE  CognitionIInv'
<1>a. Left = 8
  BY LeftNow DEF Research
<1>s. decision.kind \in Kinds /\ repairing.left \in 0..2
  BY DEF CognitionIInv, ShapeOK, ShapeAt
<1>1. CASE Silently /\ Keeping /\ (Return(Plain("RESEARCHED")) \/ ModelUnavailable)
  <2>1. stage' = "returned" /\ Keeping /\ returned'.kind # "ACTION"
    BY <1>1 DEF Return, Plain, ModelUnavailable
  <2> QED BY <1>1, <1>a, <2>1, ReturnsNoChange DEF Research
<1>2. CASE Silently /\ Keeping /\ decision.kind = "PLAN" /\ To("effects")
  <2>1. stage' = "effects" /\ UNCHANGED <<returned, decision, repairing>>
    BY <1>2 DEF To, Keeping, thought
  <2>2. Left' = 8
    BY <2>1, LeftNext
  <2>3. ShapeOK'
    BY <1>s, <1>2, <2>1 DEF ShapeOK, ShapeAt
  <2>4. ~Checked'
    BY <2>1 DEF Checked
  <2> QED BY <1>2, <1>a, <2>1, <2>2, <2>3, <2>4, GoesTo
<1>3. CASE Silently /\ Keeping /\ To("reconsider")
  <2>1. stage' = "reconsider" /\ UNCHANGED returned
    BY <1>3 DEF To, Decide
  <2>2. decision' = decision /\ repairing' = repairing
    BY <1>3 DEF Keeping, thought
  <2>3. Left' = (IF decision'.kind = "PLAN" THEN 0 ELSE 8)
    BY <2>1, <2>2, LeftNext
  <2>4. stage' \in FreeStages \ {"argument repaired", "argued"}
    BY <2>1 DEF FreeStages
  <2> QED BY <1>3, <1>a, <1>s, <2>1, <2>2, <2>3, <2>4, GoesOn DEF Research
<1> QED BY <1>1, <1>2, <1>3 DEF Research

LEMMA EffectsKeeps ==
  ASSUME CognitionIInv, Effects, UNCHANGED <<utterance, setup>>
  PROVE  CognitionIInv'
<1>a. Left = 8
  BY LeftNow DEF Effects
<1>s. decision.kind \in Kinds /\ repairing.left \in 0..2
  BY DEF CognitionIInv, ShapeOK, ShapeAt
<1>p. decision.kind = "PLAN"
  BY DEF CognitionIInv, ShapeOK, ShapeAt, FreeStages, Effects
<1>1. CASE Call /\ Return(Plain("CLARIFY")) /\ Keeping
  <2>1. stage' = "returned" /\ Keeping /\ returned'.kind # "ACTION"
    BY <1>1 DEF Return, Plain, ModelUnavailable
  <2> QED BY <1>1, <1>a, <2>1, ReturnsNoChange DEF Effects
<1>2. CASE Call /\ Invalid /\ Keeping
  <2> QED BY <1>2, <1>a, Recovers DEF Effects
<1>3. CASE Call /\ To("map") /\ Keeping
  <2>1. stage' = "map" /\ UNCHANGED <<returned, decision, repairing>>
    BY <1>3 DEF To, Keeping, thought
  <2>2. Left' = 5
    BY <2>1, LeftNext
  <2>3. ShapeOK'
    BY <1>s, <1>p, <2>1 DEF ShapeOK, ShapeAt
  <2>4. ~Checked'
    BY <2>1 DEF Checked
  <2> QED BY <1>3, <1>a, <2>1, <2>2, <2>3, <2>4, GoesTo
<1>4. CASE Call /\ Repair("effects", 2) /\ To("reading") /\ UNCHANGED <<mode, decision>>
  <2>1. stage' = "reading" /\ UNCHANGED <<returned, decision>>
    BY <1>4 DEF To
  <2>2. repairing'.of = "effects" /\ repairing'.left = 2
    BY <1>4 DEF Repair
  <2>3. Left' = 7
    BY <2>1, <2>2, LeftNext DEF After
  <2>4. ShapeOK'
    BY <1>s, <2>1, <2>2, <1>p DEF ShapeOK, ShapeAt
  <2>5. ~Checked'
    BY <2>1, <2>2 DEF Checked
  <2> QED BY <1>4, <1>a, <2>1, <2>3, <2>4, <2>5, GoesTo DEF Effects
<1> QED BY <1>1, <1>2, <1>3, <1>4 DEF Effects

LEMMA CompareKeeps ==
  ASSUME CognitionIInv, Compare, UNCHANGED <<utterance, setup>>
  PROVE  CognitionIInv'
<1>a. Left = 2
  BY LeftNow DEF Compare
<1>s. decision.kind \in Kinds /\ repairing.left \in 0..2
  BY DEF CognitionIInv, ShapeOK, ShapeAt
<1>p. decision.kind = "PLAN"
  BY DEF CognitionIInv, ShapeOK, ShapeAt, FreeStages, Compare
<1>1. CASE Silently /\ Return(Plain("CLARIFY")) /\ Keeping
  <2>1. stage' = "returned" /\ Keeping /\ returned'.kind # "ACTION"
    BY <1>1 DEF Return, Plain, ModelUnavailable
  <2> QED BY <1>1, <1>a, <2>1, ReturnsNoChange DEF Compare
<1>2. CASE Silently /\ To("reconsider") /\ UNCHANGED <<mode, decision, repairing>>
  <2>1. stage' = "reconsider" /\ UNCHANGED <<returned, decision, repairing>>
    BY <1>2 DEF To
  <2>2. Left' = 0
    BY <1>p, <2>1, LeftNext
  <2>3. stage' \in FreeStages \ {"argument repaired", "argued"}
    BY <2>1 DEF FreeStages
  <2> QED BY <1>2, <1>a, <1>s, <2>1, <2>2, <2>3, GoesOn
<1>3. CASE Silently /\ Repair("fidelity", 2) /\ To("plan") /\ UNCHANGED <<mode, decision>>
  <2>1. stage' = "plan" /\ UNCHANGED <<returned, decision>>
    BY <1>3 DEF To
  <2>2. repairing'.of = "fidelity" /\ repairing'.left = 2
    BY <1>3 DEF Repair
  <2>3. Left' = 2
    BY <2>1, <2>2, LeftNext DEF After
  <2>4. ShapeOK'
    BY <1>s, <2>1, <2>2, <1>p DEF ShapeOK, ShapeAt
  <2>5. ~Checked'
    BY <2>1, <2>2 DEF Checked
  <2> QED BY <1>3, <1>a, <2>1, <2>3, <2>4, <2>5, GoesTo DEF Compare
<1> QED BY <1>1, <1>2, <1>3 DEF Compare

LEMMA ReconsiderKeeps ==
  ASSUME CognitionIInv, Reconsider, UNCHANGED <<utterance, setup>>
  PROVE  CognitionIInv'
<1>a. /\ Left = IF decision.kind = "PLAN" THEN 0 ELSE 8
      /\ Left \in Nat
  BY LeftNow DEF Reconsider
<1>s. decision.kind \in Kinds /\ repairing.left \in 0..2
  BY DEF CognitionIInv, ShapeOK, ShapeAt
<1>1. CASE decision.kind = "ANSWER" /\ Call /\ Keeping /\ To("again")
  <2>1. stage' = "again" /\ UNCHANGED <<returned, decision, repairing>>
    BY <1>1 DEF To, Keeping, thought
  <2>2. Left' = 7 /\ Left = 8
    BY <1>1, <1>a, <2>1, LeftNext
  <2>3. stage' \in FreeStages \ {"argument repaired", "argued"}
    BY <2>1 DEF FreeStages
  <2> QED BY <1>1, <1>s, <2>1, <2>2, <2>3, GoesOn
<1>2. CASE /\ decision.kind = "ANSWER" /\ Call /\ Keeping
           /\ Return(Plain("CLARIFY")) \/ ModelUnavailable
  <2>1. stage' = "returned" /\ returned'.kind # "ACTION"
    BY <1>2 DEF Return, Plain, ModelUnavailable
  <2>2. Left = 8
    BY <1>2, <1>a
  <2> QED BY <1>2, <2>1, <2>2, ReturnsNoChange
<1>3. CASE decision.kind = "ANSWER" /\ Call /\ Keeping /\ Invalid
  <2>1. Left = 8
    BY <1>3, <1>a
  <2> QED BY <1>3, <2>1, Recovers
<1>4. CASE Silently /\ Keeping /\ To("rewrite")
  <2>1. stage' = "rewrite" /\ UNCHANGED returned
    BY <1>4 DEF To, Decide
  <2>2. decision' = decision /\ repairing' = repairing
    BY <1>4 DEF Keeping, thought
  <2>3. Left' = (IF decision.kind = "PLAN" THEN 0 ELSE 6)
    BY <2>1, <2>2, LeftNext
  <2>4. stage' \in FreeStages \ {"argument repaired", "argued"}
    BY <2>1 DEF FreeStages
  <2> QED BY <1>4, <1>a, <1>s, <2>1, <2>2, <2>3, <2>4, GoesOn DEF Reconsider
<1> QED BY <1>1, <1>2, <1>3, <1>4 DEF Reconsider

LEMMA RewriteKeeps ==
  ASSUME CognitionIInv, Rewrite, UNCHANGED <<utterance, setup>>
  PROVE  CognitionIInv'
<1>a. /\ Left = IF decision.kind = "PLAN" THEN 0 ELSE 6
      /\ Left \in Nat
  BY LeftNow DEF Rewrite
<1>s. decision.kind \in Kinds /\ repairing.left \in 0..2
  BY DEF CognitionIInv, ShapeOK, ShapeAt
<1>1. CASE Silently /\ Return(Plain("BLOCKED")) /\ Keeping
  <2>1. stage' = "returned" /\ Keeping /\ returned'.kind # "ACTION"
    BY <1>1 DEF Return, Plain, ModelUnavailable
  <2> QED BY <1>1, <1>a, <2>1, ReturnsNoChange DEF Rewrite
<1>2. CASE /\ Silently /\ decision.kind \in {"CLARIFY", "ACTION"} /\ To("check")
           /\ \E d \in {decision, Action(TRUE, TRUE), Plain("CLARIFY")} : Decide(d)
  <2>1. stage' = "check" /\ UNCHANGED returned
    BY <1>2 DEF To, Decide
  <2>2. /\ decision'.kind \in {"CLARIFY", "ACTION"} /\ decision'.kind \in Kinds
        /\ repairing' = repairing
    BY <1>2 DEF Decide, Action, Plain, Kinds
  <2>3. Left' = (IF decision'.kind = "PLAN" THEN 0 ELSE 6)
    BY <2>1, <2>2, LeftNext
  <2>4. stage' \in FreeStages \ {"argument repaired", "argued"}
    BY <2>1 DEF FreeStages
  <2> QED BY <1>2, <1>a, <1>s, <2>1, <2>2, <2>3, <2>4, GoesOn DEF Rewrite
<1>3. CASE Silently /\ To("check") /\ Keeping
  <2>1. stage' = "check" /\ UNCHANGED returned
    BY <1>3 DEF To, Decide
  <2>2. decision' = decision /\ repairing' = repairing
    BY <1>3 DEF Keeping, thought
  <2>3. Left' = (IF decision.kind = "PLAN" THEN 0 ELSE 6)
    BY <2>1, <2>2, LeftNext
  <2>4. stage' \in FreeStages \ {"argument repaired", "argued"}
    BY <2>1 DEF FreeStages
  <2> QED BY <1>3, <1>a, <1>s, <2>1, <2>2, <2>3, <2>4, GoesOn DEF Rewrite
<1> QED BY <1>1, <1>2, <1>3 DEF Rewrite

LEMMA CheckKeeps ==
  ASSUME CognitionIInv, Check, UNCHANGED <<utterance, setup>>
  PROVE  CognitionIInv'
<1>a. /\ Left = IF decision.kind = "PLAN" THEN 0 ELSE 6
      /\ Left \in Nat
  BY LeftNow DEF Check
<1>s. decision.kind \in Kinds /\ repairing.left \in 0..2
  BY DEF CognitionIInv, ShapeOK, ShapeAt
<1>1. CASE Silently /\ Keeping /\ decision.kind # "ACTION" /\ Return(decision)
  <2>1. stage' = "returned" /\ Keeping /\ returned'.kind # "ACTION"
    BY <1>1 DEF Return
  <2> QED BY <1>1, <1>a, <2>1, ReturnsNoChange DEF Check
<1>2. CASE Silently /\ Keeping /\ decision.kind = "ACTION" /\ Invalid
  <2>1. Left = 6
    BY <1>2, <1>a
  <2> QED BY <1>2, <2>1, Recovers
<1>3. CASE Silently /\ Keeping /\ Return(Plain("CLARIFY"))
  <2>1. stage' = "returned" /\ Keeping /\ returned'.kind # "ACTION"
    BY <1>3 DEF Return, Plain, ModelUnavailable
  <2> QED BY <1>3, <1>a, <2>1, ReturnsNoChange DEF Check
<1>4. CASE /\ Silently /\ Keeping /\ decision.kind = "ACTION"
           /\ ~ParserBreaks(decision) /\ ~MustAsk(decision)
           /\ To("read") \/ To("argument") \/ Return(decision)
  <2>1. Accounted(decision) /\ UNCHANGED <<decision, repairing>>
    BY <1>4, CognitionAssumption
    DEF CognitionIInv, ParserBreaks, MustAsk, Unaccounted, Accounted, Keeping, thought
  <2>2. Left = 6
    BY <1>4, <1>a
  <2>3. Accounted(decision)'
    BY <2>1 DEF Accounted
  <2>4. CASE To("read")
    <3>1. stage' = "read" /\ UNCHANGED returned
      BY <2>4 DEF To
    <3>2. Left' = 2
      BY <3>1, LeftNext
    <3>3. ShapeOK'
      BY <1>4, <1>s, <2>1, <3>1 DEF ShapeOK, ShapeAt
    <3> QED BY <1>4, <2>1, <2>2, <2>3, <3>1, <3>2, <3>3, GoesTo
  <2>5. CASE To("argument")
    <3>1. stage' = "argument" /\ UNCHANGED returned
      BY <2>5 DEF To
    <3>2. Left' = 6
      BY <3>1, LeftNext
    <3>3. ShapeOK'
      BY <1>4, <1>s, <2>1, <3>1 DEF ShapeOK, ShapeAt
    <3> QED BY <1>4, <2>1, <2>2, <2>3, <3>1, <3>2, <3>3, GoesTo
  <2>6. CASE Return(decision)
    <3>1. stage' = "returned" /\ Accounted(returned)'
      BY <2>1, <2>6 DEF Return, Accounted
    <3> QED BY <1>4, <2>2, <3>1, Returns
  <2> QED BY <1>4, <2>4, <2>5, <2>6
<1> QED BY <1>1, <1>2, <1>3, <1>4 DEF Check

LEMMA ReadInsteadKeeps ==
  ASSUME CognitionIInv, ReadInstead, UNCHANGED <<utterance, setup>>
  PROVE  CognitionIInv'
<1>a. Left = 2
  BY LeftNow DEF ReadInstead
<1>s. decision.kind \in Kinds /\ repairing.left \in 0..2
  BY DEF CognitionIInv, ShapeOK, ShapeAt
<1>1. CASE /\ Call /\ Keeping
           /\ \E d \in Answers \cup Questions
                        \cup [kind : {"ACTION"}, write : {FALSE}, arguments : BOOLEAN] : Return(d)
  <2>1. stage' = "returned" /\ Accounted(returned)'
    BY <1>1 DEF Return, Accounted, Answers, Questions
  <2> QED BY <1>1, <1>a, <2>1, Returns
<1>2. CASE Call /\ Keeping /\ Invalid
  <2> QED BY <1>2, <1>a, Recovers DEF ReadInstead
<1> QED BY <1>1, <1>2 DEF ReadInstead

LEMMA ArgumentKeeps ==
  ASSUME CognitionIInv, Argument, UNCHANGED <<utterance, setup>>
  PROVE  CognitionIInv'
<1>a. Left = 6
  BY LeftNow DEF Argument
<1>s. decision.kind \in Kinds /\ repairing.left \in 0..2
  BY DEF CognitionIInv, ShapeOK, ShapeAt
<1>p. decision.kind = "ACTION"
  BY DEF CognitionIInv, ShapeOK, ShapeAt, FreeStages, Argument
<1>c. Accounted(decision)
  BY DEF CognitionIInv, ChangesOK, Checked, Argument
<1>1. CASE Call /\ \E d \in Focused : Decide(d) /\ To("argument repaired")
  <2>1. PICK d \in Focused : Decide(d) /\ To("argument repaired")
    BY <1>1
  <2>0. Call
    BY <1>1
  <2>2. d.kind \in Kinds /\ (d.kind = "ACTION" => d.write = decision.write)
    BY KindsDecoded
  <2>3. stage' = "argument repaired" /\ decision' = d /\ UNCHANGED <<returned, repairing>>
    BY <2>1 DEF Decide, To
  <2>4. Left' = 3
    BY <2>3, LeftNext
  <2>5. ShapeOK'
    <3>1. stage' \in FreeStages
      BY <2>3 DEF FreeStages
    <3>2. decision'.kind \in Kinds
      BY <2>2, <2>3
    <3>3. repairing'.left \in 0..2
      BY <1>s, <2>3
    <3> QED BY <3>1, <3>2, <3>3 DEF ShapeOK, ShapeAt
  <2>6. Accounted(decision)'
    BY <1>p, <1>c, <2>2, <2>3 DEF Accounted
  <2> QED
    <3>1. UNCHANGED returned
      BY <2>3
    <3> QED BY <1>a, <2>0, <2>4, <2>5, <2>6, <3>1, GoesTo
<1>2. CASE Call /\ Repair("argument", 2) /\ To("decode") /\ UNCHANGED <<mode, decision, verdict>>
  <2>1. stage' = "decode" /\ UNCHANGED <<returned, decision>>
    BY <1>2 DEF To
  <2>2. repairing'.of = "argument" /\ repairing'.left = 2
    BY <1>2 DEF Repair
  <2>3. Left' = 5
    BY <2>1, <2>2, LeftNext DEF After
  <2>4. ShapeOK'
    BY <1>s, <1>p, <2>1, <2>2 DEF ShapeOK, ShapeAt
  <2>5. Accounted(decision)'
    BY <1>c, <2>1 DEF Accounted
  <2> QED BY <1>2, <1>a, <2>1, <2>3, <2>4, <2>5, GoesTo
<1> QED BY <1>1, <1>2 DEF Argument

LEMMA ArgumentRepairedKeeps ==
  ASSUME CognitionIInv, ArgumentRepaired, UNCHANGED <<utterance, setup>>
  PROVE  CognitionIInv'
<1>a. Left = 3
  BY LeftNow DEF ArgumentRepaired
<1>s. decision.kind \in Kinds /\ repairing.left \in 0..2
  BY DEF CognitionIInv, ShapeOK, ShapeAt
<1>c. Accounted(decision)
  BY DEF CognitionIInv, ChangesOK, Checked, ArgumentRepaired
<1>1. CASE /\ Silently /\ decision.kind = "ACTION" /\ Repair("missing", 2) /\ To("decode")
           /\ UNCHANGED <<mode, decision, verdict>>
  <2>1. stage' = "decode" /\ UNCHANGED <<returned, decision>>
    BY <1>1 DEF To
  <2>2. repairing'.of = "missing" /\ repairing'.left = 2
    BY <1>1 DEF Repair
  <2>3. Left' = 3
    BY <2>1, <2>2, LeftNext DEF After
  <2>4. ShapeOK'
    BY <1>s, <1>1, <2>1, <2>2 DEF ShapeOK, ShapeAt
  <2>5. Accounted(decision)'
    BY <1>c, <2>1 DEF Accounted
  <2> QED BY <1>1, <1>a, <2>1, <2>3, <2>4, <2>5, GoesTo
<1>2. CASE Silently /\ Return(decision) /\ Keeping
  <2>1. stage' = "returned" /\ Accounted(returned)'
    BY <1>2, <1>c DEF Return, Accounted
  <2> QED BY <1>2, <1>a, <2>1, Returns
<1> QED BY <1>1, <1>2 DEF ArgumentRepaired

LEMMA ArguedKeeps ==
  ASSUME CognitionIInv, Argued, UNCHANGED <<utterance, setup>>
  PROVE  CognitionIInv'
<1>a. Left = 0
  BY LeftNow DEF Argued
<1>s. decision.kind \in Kinds /\ repairing.left \in 0..2
  BY DEF CognitionIInv, ShapeOK, ShapeAt
<1>c. Accounted(decision)
  BY DEF CognitionIInv, ChangesOK, Checked, Argued
<1>1. CASE Silently /\ Return(decision) /\ Keeping
  <2>1. stage' = "returned" /\ Accounted(returned)'
    BY <1>1, <1>c DEF Return, Accounted
  <2> QED BY <1>1, <1>a, <2>1, Returns
<1> QED BY <1>1 DEF Argued

LEMMA RecoverKeeps ==
  ASSUME CognitionIInv, Recover, UNCHANGED <<utterance, setup>>
  PROVE  CognitionIInv'
<1>a. Left = 1
  BY LeftNow DEF Recover
<1>s. decision.kind \in Kinds /\ repairing.left \in 0..2
  BY DEF CognitionIInv, ShapeOK, ShapeAt
<1>1. CASE /\ Keeping
           /\ Silently \/ Call
           /\ Return([kind |-> "ANSWER", source |-> "model"]) \/ Return(Plain("BLOCKED"))
  <2>1. stage' = "returned" /\ Keeping /\ returned'.kind # "ACTION"
    BY <1>1 DEF Return, Plain, ModelUnavailable
  <2> QED BY <1>1, <1>a, <2>1, ReturnsNoChange DEF Recover
<1> QED BY <1>1 DEF Recover

LEMMA ClassifyKeeps ==
  ASSUME CognitionIInv, Classify, UNCHANGED <<utterance, setup>>
  PROVE  CognitionIInv'
<1>a. Left = 20
  BY LeftNow DEF Classify
<1>s. decision.kind \in Kinds /\ repairing.left \in 0..2
  BY DEF CognitionIInv, ShapeOK, ShapeAt
<1>1. CASE Call /\ To("source") /\ UNCHANGED <<decision, verdict, repairing>>
  <2>1. stage' = "source" /\ UNCHANGED returned
    BY <1>1 DEF To, Decide
  <2>2. decision' = decision /\ repairing' = repairing
    BY <1>1 DEF To
  <2>3. Left' = 19
    BY <2>1, LeftNext
  <2>4. stage' \in FreeStages \ {"argument repaired", "argued"}
    BY <2>1 DEF FreeStages
  <2> QED BY <1>1, <1>a, <1>s, <2>1, <2>2, <2>3, <2>4, GoesOn DEF Classify
<1>2. CASE Call /\ To("route") /\ UNCHANGED <<decision, verdict, repairing>>
  <2>1. stage' = "route" /\ UNCHANGED returned
    BY <1>2 DEF To, Decide
  <2>2. decision' = decision /\ repairing' = repairing
    BY <1>2 DEF To
  <2>3. Left' = 17
    BY <2>1, LeftNext
  <2>4. stage' \in FreeStages \ {"argument repaired", "argued"}
    BY <2>1 DEF FreeStages
  <2> QED BY <1>2, <1>a, <1>s, <2>1, <2>2, <2>3, <2>4, GoesOn DEF Classify
<1>3. CASE Call /\ Invalid /\ Keeping
  <2> QED BY <1>3, <1>a, Recovers DEF Classify
<1>4. CASE Call /\ Keeping /\ (Return(Plain("CLARIFY")) \/ Return(Plain("BLOCKED")))
  <2>1. stage' = "returned" /\ Keeping /\ returned'.kind # "ACTION"
    BY <1>4 DEF Return, Plain, ModelUnavailable
  <2> QED BY <1>4, <1>a, <2>1, ReturnsNoChange DEF Classify
<1>5. CASE /\ Call /\ Keeping
           /\ \E d \in Actions : ~ParserBreaks(d) /\ ~Unaccounted(d) /\ Return(d)
  <2>1. PICK d \in Actions : ~ParserBreaks(d) /\ ~Unaccounted(d) /\ Return(d)
    BY <1>5
  <2>2. Accounted(d)
    BY <2>1, CognitionAssumption DEF CognitionIInv, ParserBreaks, Unaccounted, Accounted
  <2>3. stage' = "returned" /\ Accounted(returned)'
    BY <2>1, <2>2 DEF Return, Accounted
  <2> QED BY <1>5, <1>a, <2>3, Returns
<1> QED BY <1>1, <1>2, <1>3, <1>4, <1>5 DEF Classify

LEMMA RepairDecodingKeeps ==
  ASSUME CognitionIInv, RepairDecoding, UNCHANGED <<utterance, setup>>
  PROVE  CognitionIInv'
<1>s. decision.kind \in Kinds /\ repairing.left \in {1, 2} /\ repairing.left \in 0..2
  BY DEF CognitionIInv, ShapeOK, ShapeAt, FreeStages, RepairDecoding, Attempt
<1>o. /\ repairing.of \in {"route", "argument", "missing"}
      /\ repairing.of # "route" => decision.kind = "ACTION" /\ Accounted(decision)
  BY DEF CognitionIInv, ShapeOK, ShapeAt, FreeStages, ChangesOK, Checked, RepairDecoding, Attempt
<1>a. Left = repairing.left + After(repairing)
  BY LeftNow DEF RepairDecoding, Attempt
<1>1. CASE /\ Call /\ repairing.of = "route"
           /\ \E d \in Decodable : Decide(d) /\ To("compound")
  <2>1. stage' = "compound" /\ UNCHANGED returned
    BY <1>1 DEF To
  <2>2. decision'.kind \in Kinds /\ repairing' = repairing
    BY <1>1, KindsDecoded DEF Decide
  <2>3. Left' = 14
    BY <2>1, LeftNext
  <2>4. PICK l \in Nat : l = repairing.left + 14
    BY <1>s
  <2>5. Left = l /\ 14 < l
    BY <1>s, <1>a, <1>1, <2>4 DEF After
  <2>6. stage' \in FreeStages \ {"argument repaired", "argued"}
    BY <2>1 DEF FreeStages
  <2> QED BY <1>1, <1>s, <2>1, <2>2, <2>3, <2>5, <2>6, GoesOn
<1>2. CASE /\ Call /\ repairing.of = "argument"
           /\ \E d \in Focused : Decide(d) /\ To("argument repaired")
  <2>0. Call /\ decision.kind = "ACTION" /\ Accounted(decision)
    BY <1>2, <1>o
  <2>1. PICK d \in Focused : Decide(d) /\ To("argument repaired")
    BY <1>2
  <2>2. d.kind \in Kinds /\ (d.kind = "ACTION" => d.write = decision.write)
    BY KindsDecoded
  <2>3. stage' = "argument repaired" /\ decision' = d /\ UNCHANGED <<returned, repairing>>
    BY <2>1 DEF Decide, To
  <2>4. Left' = 3
    BY <2>3, LeftNext
  <2>5. ShapeOK'
    <3>1. stage' \in FreeStages
      BY <2>3 DEF FreeStages
    <3>2. decision'.kind \in Kinds
      BY <2>2, <2>3
    <3>3. repairing'.left \in 0..2
      BY <1>s, <2>3
    <3> QED BY <3>1, <3>2, <3>3 DEF ShapeOK, ShapeAt
  <2>6. Accounted(decision)'
    BY <2>0, <2>2, <2>3 DEF Accounted
  <2>7. PICK l \in Nat : l = repairing.left + 3
    BY <1>s
  <2>8. Left = l /\ 3 < l
    <3>1. After(repairing) = 3
      BY <1>2 DEF After
    <3> QED BY <1>s, <1>a, <2>7, <3>1
  <2> QED BY <2>0, <2>3, <2>4, <2>5, <2>6, <2>8, GoesTo
<1>3. CASE /\ Call /\ repairing.of = "missing"
           /\ \E d \in Focused : Decide(d) /\ To("argued")
  <2>0. Call /\ decision.kind = "ACTION" /\ Accounted(decision)
    BY <1>3, <1>o
  <2>1. PICK d \in Focused : Decide(d) /\ To("argued")
    BY <1>3
  <2>2. d.kind \in Kinds /\ (d.kind = "ACTION" => d.write = decision.write)
    BY KindsDecoded
  <2>3. stage' = "argued" /\ decision' = d /\ UNCHANGED <<returned, repairing>>
    BY <2>1 DEF Decide, To
  <2>4. Left' = 0
    BY <2>3, LeftNext
  <2>5. ShapeOK'
    <3>1. stage' \in FreeStages
      BY <2>3 DEF FreeStages
    <3>2. decision'.kind \in Kinds
      BY <2>2, <2>3
    <3>3. repairing'.left \in 0..2
      BY <1>s, <2>3
    <3> QED BY <3>1, <3>2, <3>3 DEF ShapeOK, ShapeAt
  <2>6. Accounted(decision)'
    BY <2>0, <2>2, <2>3 DEF Accounted
  <2>7. PICK l \in Nat : l = repairing.left + 1
    BY <1>s
  <2>8. Left = l /\ 0 < l
    <3>1. After(repairing) = 1
      BY <1>3 DEF After
    <3> QED BY <1>s, <1>a, <2>7, <3>1
  <2> QED BY <2>0, <2>3, <2>4, <2>5, <2>6, <2>8, GoesTo
<1>4. CASE Call /\ Invalid /\ Keeping
  <2>1. PICK l \in Nat : l = repairing.left + After(repairing)
    BY <1>s DEF After
  <2>2. Left = l /\ l > 1
    BY <1>s, <1>o, <1>a, <2>1 DEF After
  <2> QED BY <1>4, <2>2, Recovers
<1>5. CASE Call /\ Again("decode")
  <2>1. /\ stage' = "decode" /\ UNCHANGED <<returned, decision>>
        /\ repairing.left > 1 /\ repairing'.left = repairing.left - 1
        /\ repairing'.of = repairing.of
    BY <1>5 DEF Again, To, Repair, Counted
  <2>2. PICK l \in Nat : l = repairing.left + After(repairing)
    BY <1>s DEF After
  <2>3. After(repairing') = After(repairing)
    BY <2>1 DEF After
  <2>4. Left = l /\ Left' = l - 1 /\ l - 1 \in Nat
    BY <1>s, <1>a, <2>1, <2>2, <2>3, LeftNext DEF After
  <2>5. ShapeOK'
    BY <1>s, <1>o, <2>1 DEF ShapeOK, ShapeAt
  <2>6. Checked' => Accounted(decision)'
    BY <1>o, <2>1 DEF Checked, Accounted
  <2> QED BY <1>5, <2>1, <2>4, <2>5, <2>6, GoesTo
<1>6. /\ repairing.of = "route" => Decoded[repairing.of] = "compound"
      /\ repairing.of = "argument" => Decoded[repairing.of] = "argument repaired"
      /\ repairing.of = "missing" => Decoded[repairing.of] = "argued"
  <2>1. /\ Decoded["route"] = "compound" /\ Decoded["argument"] = "argument repaired"
        /\ Decoded["missing"] = "argued"
    BY DEF Decoded
  <2> QED BY <2>1
<1> QED BY <1>o, <1>1, <1>2, <1>3, <1>4, <1>5, <1>6 DEF RepairDecoding, Attempt

LEMMA RepairPlanKeeps ==
  ASSUME CognitionIInv, RepairPlan, UNCHANGED <<utterance, setup>>
  PROVE  CognitionIInv'
<1>s. decision.kind \in Kinds /\ repairing.left \in {1, 2} /\ repairing.left \in 0..2
  BY DEF CognitionIInv, ShapeOK, ShapeAt, FreeStages, RepairPlan, Attempt
<1>o. /\ repairing.of \in {"compound", "single", "fidelity"}
      /\ repairing.of = "fidelity" => decision.kind = "PLAN"
  BY DEF CognitionIInv, ShapeOK, ShapeAt, FreeStages, RepairPlan, Attempt
<1>a. Left = repairing.left + After(repairing)
  BY LeftNow DEF RepairPlan, Attempt
<1>r. /\ repairing.of = "compound" => Replanned[repairing.of] = "clarified"
      /\ repairing.of = "single" => Replanned[repairing.of] = "research"
      /\ repairing.of = "fidelity" => Replanned[repairing.of] = "reconsider"
  BY DEF Replanned
<1>1. CASE /\ Call /\ To(Replanned[repairing.of])
           /\ decision' = decision \/ decision' \in Plans
           /\ repairing' = repairing
  <2>0. Call /\ repairing'.left \in 0..2
    BY <1>1, <1>s
  <2>1. UNCHANGED returned /\ decision'.kind \in Kinds
    BY <1>1, <1>s, KindsDecoded DEF To, Kinds
  <2>2. PICK l \in Nat : l = repairing.left + After(repairing)
    BY <1>s DEF After
  <2>3. Left = l
    BY <1>a, <2>2
  <2>4. CASE repairing.of = "compound"
    <3>1. stage' = "clarified"
      BY <1>1, <1>r, <2>4 DEF To
    <3>2. Left' = 11 /\ 11 < l
      BY <1>s, <2>2, <2>4, <3>1, LeftNext DEF After
    <3>3. stage' \in FreeStages \ {"argument repaired", "argued"}
      BY <3>1 DEF FreeStages
    <3> QED BY <2>0, <2>1, <2>3, <3>2, <3>3, GoesOn
  <2>5. CASE repairing.of = "single"
    <3>1. stage' = "research"
      BY <1>1, <1>r, <2>5 DEF To
    <3>2. Left' = 8 /\ 8 < l
      BY <1>s, <2>2, <2>5, <3>1, LeftNext DEF After
    <3>3. stage' \in FreeStages \ {"argument repaired", "argued"}
      BY <3>1 DEF FreeStages
    <3> QED BY <2>0, <2>1, <2>3, <3>2, <3>3, GoesOn
  <2>6. CASE repairing.of = "fidelity"
    <3>1. stage' = "reconsider" /\ decision'.kind = "PLAN"
      BY <1>1, <1>r, <1>o, <2>6, KindsDecoded DEF To
    <3>2. Left' = 0 /\ 0 < l
      BY <1>s, <2>2, <2>6, <3>1, LeftNext DEF After
    <3>3. stage' \in FreeStages \ {"argument repaired", "argued"}
      BY <3>1 DEF FreeStages
    <3> QED BY <2>0, <2>1, <2>3, <3>2, <3>3, GoesOn
  <2> QED BY <1>o, <2>4, <2>5, <2>6
<1>2. CASE Call /\ Again("plan")
  <2>1. /\ stage' = "plan" /\ UNCHANGED <<returned, decision>>
        /\ repairing.left > 1 /\ repairing'.left = repairing.left - 1
        /\ repairing'.of = repairing.of
    BY <1>2 DEF Again, To, Repair, Counted
  <2>2. PICK l \in Nat : l = repairing.left + After(repairing)
    BY <1>s DEF After
  <2>3. After(repairing') = After(repairing)
    BY <2>1 DEF After
  <2>4. Left = l /\ Left' = l - 1 /\ l - 1 \in Nat
    BY <1>s, <1>a, <2>1, <2>2, <2>3, LeftNext DEF After
  <2>5. ShapeOK'
    BY <1>s, <1>o, <2>1 DEF ShapeOK, ShapeAt
  <2>6. ~Checked'
    BY <2>1 DEF Checked
  <2> QED BY <1>2, <2>1, <2>4, <2>5, <2>6, GoesTo
<1> QED BY <1>1, <1>2 DEF RepairPlan, Attempt, Keeping, thought

LEMMA RepairReadingKeeps ==
  ASSUME CognitionIInv, RepairReading, UNCHANGED <<utterance, setup>>
  PROVE  CognitionIInv'
<1>s. decision.kind \in Kinds /\ repairing.left \in {1, 2} /\ repairing.left \in 0..2
  BY DEF CognitionIInv, ShapeOK, ShapeAt, FreeStages, RepairReading, Attempt
<1>o. repairing.of \in {"effects", "map"} /\ decision.kind = "PLAN"
  BY DEF CognitionIInv, ShapeOK, ShapeAt, FreeStages, RepairReading, Attempt
<1>a. Left = repairing.left + After(repairing)
  BY LeftNow DEF RepairReading, Attempt
<1>1. CASE Call /\ repairing.of = "effects" /\ To("map") /\ Keeping
  <2>1. stage' = "map" /\ UNCHANGED <<returned, decision, repairing>>
    BY <1>1 DEF To, Keeping, thought
  <2>2. PICK l \in Nat : l = repairing.left + 5
    BY <1>s
  <2>3. Left = l /\ Left' = 5 /\ 5 < l
    BY <1>s, <1>a, <1>1, <2>1, <2>2, LeftNext DEF After
  <2>4. ShapeOK'
    BY <1>s, <1>o, <2>1 DEF ShapeOK, ShapeAt
  <2>5. ~Checked'
    BY <2>1 DEF Checked
  <2> QED BY <1>1, <2>1, <2>3, <2>4, <2>5, GoesTo
<1>2. CASE Call /\ repairing.of = "map" /\ To("compare") /\ Keeping
  <2>1. stage' = "compare" /\ UNCHANGED <<returned, decision, repairing>>
    BY <1>2 DEF To, Keeping, thought
  <2>2. PICK l \in Nat : l = repairing.left + 2
    BY <1>s
  <2>3. Left = l /\ Left' = 2 /\ 2 < l
    BY <1>s, <1>a, <1>2, <2>1, <2>2, LeftNext DEF After
  <2>4. ShapeOK'
    BY <1>s, <1>o, <2>1 DEF ShapeOK, ShapeAt
  <2>5. ~Checked'
    BY <2>1 DEF Checked
  <2> QED BY <1>2, <2>1, <2>3, <2>4, <2>5, GoesTo
<1>3. CASE Call /\ Keeping /\ \E kind \in Unresolved \cup {"CLARIFY"} : Return(Plain(kind))
  <2>1. stage' = "returned" /\ returned'.kind # "ACTION"
    BY <1>3 DEF Return, Plain, Unresolved
  <2>2. PICK l \in Nat : l = repairing.left + After(repairing)
    BY <1>s DEF After
  <2>3. Left = l /\ l > 0
    BY <1>s, <1>a, <2>2 DEF After
  <2> QED BY <1>3, <2>1, <2>3, ReturnsNoChange
<1>4. CASE Call /\ Again("reading")
  <2>1. /\ stage' = "reading" /\ UNCHANGED <<returned, decision>>
        /\ repairing.left > 1 /\ repairing'.left = repairing.left - 1
        /\ repairing'.of = repairing.of
    BY <1>4 DEF Again, To, Repair, Counted
  <2>2. PICK l \in Nat : l = repairing.left + After(repairing)
    BY <1>s DEF After
  <2>3. After(repairing') = After(repairing)
    BY <2>1 DEF After
  <2>4. Left = l /\ Left' = l - 1 /\ l - 1 \in Nat
    BY <1>s, <1>a, <2>1, <2>2, <2>3, LeftNext DEF After
  <2>5. ShapeOK'
    BY <1>s, <1>o, <2>1 DEF ShapeOK, ShapeAt
  <2>6. ~Checked'
    BY <2>1 DEF Checked
  <2> QED BY <1>4, <2>1, <2>4, <2>5, <2>6, GoesTo
<1> QED BY <1>o, <1>1, <1>2, <1>3, <1>4 DEF RepairReading, Attempt

LEMMA ModelFailsKeeps ==
  ASSUME CognitionIInv, ModelFails, UNCHANGED <<utterance, setup>>
  PROVE  CognitionIInv'
<1>1. stage' = "returned" /\ returned'.kind # "ACTION" /\ Call /\ Keeping
  BY DEF ModelFails, ModelUnavailable, Return, Plain
<1>2. CASE stage \in {"decode", "plan", "reading"}
  <2>1. repairing.left \in {1, 2}
    <3>1. stage \notin FreeStages \cup {"effects", "map", "compare", "read", "argument"}
      BY <1>2 DEF FreeStages
    <3> QED BY <3>1 DEF CognitionIInv, ShapeOK, ShapeAt
  <2>2. PICK l \in Nat : l = repairing.left + After(repairing)
    BY <2>1 DEF After
  <2>3. Left = l
    BY <1>2, <2>2, LeftNow
  <2>4. After(repairing) \in Nat
    BY DEF After
  <2>5. l > 0
    BY <2>1, <2>2, <2>4
  <2> QED BY <1>1, <2>3, <2>5, ReturnsNoChange
<1>3. CASE stage \notin {"decode", "plan", "reading"}
  <2>1. Left \in {20, 19, 18, 17, 8, 7, 6, 5, 2}
    BY <1>3, LeftNow DEF ModelFails
  <2>2. PICK l \in 1..20 : Left = l
    BY <2>1
  <2> QED BY <1>1, <2>2, ReturnsNoChange
<1> QED BY <1>2, <1>3

-----------------------------------------------------------------------------
LEMMA CognitionInitHolds == CognitionInit => CognitionIInv
<1> SUFFICES ASSUME CognitionInit PROVE CognitionIInv
  OBVIOUS
<1>1. /\ stage \in {"route", "classify"}
      /\ decision.kind = "none" /\ returned.kind = "none" /\ repairing.left = 0
  BY DEF CognitionInit, NoDecision
<1>2. ShapeOK
  <2>1. stage \in FreeStages /\ decision.kind \in Kinds
    BY <1>1 DEF FreeStages, Kinds
  <2> QED BY <1>1, <2>1 DEF ShapeOK, ShapeAt
<1>3. Left \in {17, 20}
  BY <1>1, LeftNow
<1>4. BudgetOK
  BY <1>3 DEF BudgetOK, MostCalls, CognitionInit
<1>5. ChangesOK
  BY <1>1 DEF ChangesOK, Checked, Accounted
<1> QED BY <1>2, <1>4, <1>5 DEF CognitionIInv

LEMMA CognitionStepHolds == CognitionIInv /\ [CognitionNext]_cognitionVars => CognitionIInv'
<1> SUFFICES ASSUME CognitionIInv, [CognitionNext]_cognitionVars PROVE CognitionIInv'
  OBVIOUS
<1>1. CASE UNCHANGED cognitionVars
  BY <1>1 DEF cognitionVars, thought, CognitionIInv, ShapeOK, BudgetOK, ChangesOK, Left,
              Checked, Accounted
<1>2. CASE CognitionNext
  BY <1>2, ClassifyKeeps, SourceKeeps, GenerateKeeps, RouteKeeps,
     RepairDecodingKeeps, CompoundKeeps, RepairPlanKeeps, ClarifiedKeeps,
     SingleKeeps, ResearchKeeps, EffectsKeeps, MapKeeps,
     RepairReadingKeeps, CompareKeeps, ReconsiderKeeps, SecondLookKeeps,
     RewriteKeeps, CheckKeeps, ReadInsteadKeeps, ArgumentKeeps,
     ArgumentRepairedKeeps, ArguedKeeps, RecoverKeeps, ModelFailsKeeps
  DEF CognitionNext
<1> QED BY <1>1, <1>2

-----------------------------------------------------------------------------
\* Every step pays for its call out of what its stage may still spend.
THEOREM CognitionInvariance == CognitionSpec => []CognitionIInv
BY CognitionInitHolds, CognitionStepHolds, PTL DEF CognitionSpec

\* What each loop may spend and what may follow it add up to MostCalls at most.
THEOREM ADecisionIsBounded == CognitionSpec => []CallsAreBounded
<1>1. CognitionIInv => CallsAreBounded
  <2> SUFFICES ASSUME CognitionIInv PROVE CallsAreBounded
    OBVIOUS
  <2>1. CASE stage \in {"decode", "plan", "reading"}
    <3>1. Left \in Nat
      <4>1. Left = repairing.left + After(repairing)
        BY <2>1, LeftNow
      <4>2. repairing.left \in 0..2
        BY DEF CognitionIInv, ShapeOK, ShapeAt
      <4>3. After(repairing) \in Nat
        BY DEF After
      <4> QED BY <4>1, <4>2, <4>3
    <3> QED BY <3>1 DEF CognitionIInv, BudgetOK, CallsAreBounded, MostCalls
  <2>2. CASE stage \notin {"decode", "plan", "reading"}
    <3>1. Left \in Nat
      BY <2>2 DEF Left, LeftAt
    <3> QED BY <3>1 DEF CognitionIInv, BudgetOK, CallsAreBounded, MostCalls
  <2> QED BY <2>1, <2>2
<1> QED BY <1>1, CognitionInvariance, PTL

\* Whichever repairs, rewritings and second passes a change went through, the one
\* that is returned has passed the comparison with the parser, and kept its writing.
THEOREM ChangesAreAccounted == CognitionSpec => []WritesAreAccounted
<1>1. CognitionIInv => WritesAreAccounted
  BY DEF CognitionIInv, ChangesOK, Accounted, WritesAreAccounted
<1> QED BY <1>1, CognitionInvariance, PTL

-----------------------------------------------------------------------------
(* The answer of a decision                                                  *)

Verdicts == {"none", "ungrounded", "unsupported", "complete", "incomplete"}
\* the pipeline is past the routing
Decided ==
  \/ stage \in {"compound", "plan", "clarified", "single", "research", "effects", "map",
                "reading", "compare", "reconsider", "again", "rewrite", "check", "read",
                "argument", "argument repaired", "argued"}
  \/ stage = "decode" /\ repairing.of \in {"argument", "missing"}
DecidedOK ==
  /\ utterance \in Utterances /\ setup \in Setups
  /\ verdict \in Verdicts
  /\ Decided => decision.kind # "none"
  /\ IF stage = "returned" THEN returned.kind # "none" ELSE returned = NoDecision

LEMMA DecodedDecides ==
  /\ \A d \in Decodable : d.kind # "none"
  /\ \A d \in Focused : d.kind # "none"
  /\ \A d \in Plans : d.kind # "none"
  /\ \A d \in Actions : d.kind # "none"
BY DEF Decodable, Focused, Answers, Questions, Actions, Plans

\* where a step goes: back before the routing or on with a decision, or to the end
GoesUndecided ==
  \/ stage' \in {"source", "generate", "route", "recover"}
  \/ stage' = "decode" /\ repairing'.of = "route"
Goes == stage' # "returned" /\ UNCHANGED returned /\ (GoesUndecided \/ decision'.kind # "none")
Ends == stage' = "returned" /\ returned'.kind # "none"

LEMMA Decides ==
  ASSUME DecidedOK, UNCHANGED <<utterance, setup>>, stage # "returned",
         verdict' \in Verdicts, Goes \/ Ends
  PROVE  DecidedOK'
<1>1. CASE Ends
  <2>1. ~Decided'
    BY <1>1 DEF Ends, Decided
  <2> QED BY <1>1, <2>1 DEF DecidedOK, Ends
<1>2. CASE Goes
  <2>1. GoesUndecided => ~Decided'
    BY DEF GoesUndecided, Decided
  <2> QED BY <1>2, <2>1 DEF DecidedOK, Goes
<1> QED BY <1>1, <1>2

LEMMA ClassifyDecides ==
  ASSUME ShapeOK, DecidedOK, Classify, UNCHANGED <<utterance, setup>>
  PROVE  DecidedOK'
<1>1. stage # "returned"
  BY DEF Classify
<1>2. verdict' \in Verdicts
  BY DEF Classify, Keeping, thought, DecidedOK, Verdicts
<1>3. Goes \/ Ends
  BY DecodedDecides DEF Classify, To, Return, Keeping, Invalid, Plain, Actions, thought,
                        Goes, GoesUndecided, Ends
<1> QED BY <1>1, <1>2, <1>3, Decides

LEMMA SourceDecides ==
  ASSUME ShapeOK, DecidedOK, Source, UNCHANGED <<utterance, setup>>
  PROVE  DecidedOK'
<1>1. stage # "returned"
  BY DEF Source
<1>2. verdict' \in Verdicts
  BY DEF Source, Keeping, thought, DecidedOK, Verdicts
<1>3. Goes \/ Ends
  BY DEF Source, To, Return, Keeping, ModelUnavailable, Plain, thought, Goes,
         GoesUndecided, Ends
<1> QED BY <1>1, <1>2, <1>3, Decides

LEMMA GenerateDecides ==
  ASSUME ShapeOK, DecidedOK, Generate, UNCHANGED <<utterance, setup>>
  PROVE  DecidedOK'
<1>1. stage # "returned"
  BY DEF Generate
<1>2. verdict' \in Verdicts
  BY DEF Generate, Keeping, thought, DecidedOK, Verdicts
<1>3. Goes \/ Ends
  BY DEF Generate, To, Return, Keeping, Invalid, thought, Goes, GoesUndecided, Ends
<1> QED BY <1>1, <1>2, <1>3, Decides

LEMMA RouteDecides ==
  ASSUME ShapeOK, DecidedOK, Route, UNCHANGED <<utterance, setup>>
  PROVE  DecidedOK'
<1>1. stage # "returned"
  BY DEF Route
<1>2. verdict' \in Verdicts
  BY DEF Route, Decide, DecidedOK, Verdicts
<1>3. Goes \/ Ends
  BY DecodedDecides DEF Route, To, Decide, Repair, Goes, GoesUndecided, Ends
<1> QED BY <1>1, <1>2, <1>3, Decides

LEMMA RepairDecodingDecides ==
  ASSUME ShapeOK, DecidedOK, RepairDecoding, UNCHANGED <<utterance, setup>>
  PROVE  DecidedOK'
<1>1. stage # "returned" /\ stage = "decode"
  BY DEF RepairDecoding, Attempt
<1>2. verdict' \in Verdicts
  BY DEF RepairDecoding, Keeping, thought, Decide, Again, DecidedOK, Verdicts
<1>3. CASE Invalid
  BY <1>1, <1>2, <1>3, Decides DEF Invalid, To, Goes, GoesUndecided
<1>4. CASE Again("decode")
  <2>1. repairing'.of = repairing.of /\ decision' = decision
    BY <1>4 DEF Again, Repair
  <2>2. repairing.of = "route" \/ decision.kind # "none"
    BY <1>1 DEF ShapeOK, ShapeAt, FreeStages, DecidedOK, Decided
  <2> QED BY <1>1, <1>2, <1>4, <2>1, <2>2, Decides DEF Again, To, Goes, GoesUndecided
<1>5. CASE /\ \E d \in IF repairing.of = "route" THEN Decodable ELSE Focused : Decide(d)
           /\ To(Decoded[repairing.of])
  <2>1. decision'.kind # "none"
    BY <1>5, DecodedDecides DEF Decide
  <2>2. repairing.of \in {"route", "argument", "missing"}
    BY <1>1 DEF ShapeOK, ShapeAt, FreeStages
  <2>3. stage' # "returned" /\ UNCHANGED returned
    <3>1. Decoded["route"] = "compound" /\ Decoded["argument"] = "argument repaired"
      BY DEF Decoded
    <3>2. Decoded["missing"] = "argued"
      BY DEF Decoded
    <3>3. Decoded[repairing.of] # "returned"
      BY <2>2, <3>1, <3>2
    <3> QED BY <1>5, <3>3 DEF To
  <2> QED BY <1>1, <1>2, <2>1, <2>3, Decides DEF Goes
<1> QED BY <1>3, <1>4, <1>5 DEF RepairDecoding

LEMMA CompoundDecides ==
  ASSUME ShapeOK, DecidedOK, Compound, UNCHANGED <<utterance, setup>>
  PROVE  DecidedOK'
<1>1. stage # "returned"
  BY DEF Compound
<1>2. verdict' \in Verdicts
  BY DEF Compound, Keeping, thought, DecidedOK, Verdicts
<1>3. decision.kind # "none"
  BY DEF Compound, DecidedOK, Decided
<1>4. Goes \/ Ends
  BY <1>3 DEF Compound, To, Keeping, Repair, thought, Goes, GoesUndecided, Ends
<1> QED BY <1>1, <1>2, <1>4, Decides

LEMMA RepairPlanDecides ==
  ASSUME ShapeOK, DecidedOK, RepairPlan, UNCHANGED <<utterance, setup>>
  PROVE  DecidedOK'
<1>1. stage # "returned"
  BY DEF RepairPlan, Attempt
<1>2. verdict' \in Verdicts
  BY DEF RepairPlan, Keeping, Again, Attempt, thought, DecidedOK, Verdicts
<1>3. decision.kind # "none"
  BY DEF RepairPlan, Attempt, DecidedOK, Decided
<1>4. Goes \/ Ends
  BY <1>3, DecodedDecides DEF RepairPlan, To, Keeping, Again, Attempt, Replanned, Repair,
                              thought, ShapeOK, ShapeAt, FreeStages, Goes, GoesUndecided,
                              Ends
<1> QED BY <1>1, <1>2, <1>4, Decides

LEMMA ClarifiedDecides ==
  ASSUME ShapeOK, DecidedOK, Clarified, UNCHANGED <<utterance, setup>>
  PROVE  DecidedOK'
<1>1. stage # "returned"
  BY DEF Clarified
<1>2. verdict' \in Verdicts
  BY DEF Clarified, Keeping, Decide, thought, DecidedOK, Verdicts
<1>3. decision.kind # "none"
  BY DEF Clarified, DecidedOK, Decided
<1>4. Goes \/ Ends
  BY <1>3, DecodedDecides DEF Clarified, To, Keeping, Decide, ModelUnavailable,
                              Questions, Return, Plain, thought, Goes, GoesUndecided,
                              Ends
<1> QED BY <1>1, <1>2, <1>4, Decides

LEMMA SingleDecides ==
  ASSUME ShapeOK, DecidedOK, Single, UNCHANGED <<utterance, setup>>
  PROVE  DecidedOK'
<1>1. stage # "returned"
  BY DEF Single
<1>2. verdict' \in Verdicts
  BY DEF Single, Keeping, thought, DecidedOK, Verdicts
<1>3. decision.kind # "none"
  BY DEF Single, DecidedOK, Decided
<1>4. Goes \/ Ends
  BY <1>3 DEF Single, To, Keeping, Invalid, Repair, thought, Goes, GoesUndecided, Ends
<1> QED BY <1>1, <1>2, <1>4, Decides

LEMMA ResearchDecides ==
  ASSUME ShapeOK, DecidedOK, Research, UNCHANGED <<utterance, setup>>
  PROVE  DecidedOK'
<1>1. stage # "returned"
  BY DEF Research
<1>2. verdict' \in Verdicts
  BY DEF Research, Keeping, thought, DecidedOK, Verdicts
<1>3. decision.kind # "none"
  BY DEF Research, DecidedOK, Decided
<1>4. Goes \/ Ends
  BY <1>3 DEF Research, To, Return, Keeping, ModelUnavailable, Plain, thought, Goes,
              GoesUndecided, Ends
<1> QED BY <1>1, <1>2, <1>4, Decides

LEMMA EffectsDecides ==
  ASSUME ShapeOK, DecidedOK, Effects, UNCHANGED <<utterance, setup>>
  PROVE  DecidedOK'
<1>1. stage # "returned"
  BY DEF Effects
<1>2. verdict' \in Verdicts
  BY DEF Effects, Keeping, thought, DecidedOK, Verdicts
<1>3. decision.kind # "none"
  BY DEF Effects, DecidedOK, Decided
<1>4. Goes \/ Ends
  BY <1>3 DEF Effects, To, Return, Keeping, Invalid, Repair, Plain, thought, Goes,
              GoesUndecided, Ends
<1> QED BY <1>1, <1>2, <1>4, Decides

LEMMA MapDecides ==
  ASSUME ShapeOK, DecidedOK, Map, UNCHANGED <<utterance, setup>>
  PROVE  DecidedOK'
<1>1. stage # "returned"
  BY DEF Map
<1>2. verdict' \in Verdicts
  BY DEF Map, Keeping, thought, DecidedOK, Verdicts
<1>3. decision.kind # "none"
  BY DEF Map, DecidedOK, Decided
<1>4. Goes \/ Ends
  BY <1>3 DEF Map, To, Keeping, Repair, thought, Goes, GoesUndecided, Ends
<1> QED BY <1>1, <1>2, <1>4, Decides

LEMMA RepairReadingDecides ==
  ASSUME ShapeOK, DecidedOK, RepairReading, UNCHANGED <<utterance, setup>>
  PROVE  DecidedOK'
<1>1. stage # "returned"
  BY DEF RepairReading, Attempt
<1>2. verdict' \in Verdicts
  BY DEF RepairReading, Keeping, Again, Attempt, thought, DecidedOK, Verdicts
<1>3. decision.kind # "none"
  BY DEF RepairReading, Attempt, DecidedOK, Decided
<1>4. Goes \/ Ends
  BY <1>3 DEF RepairReading, To, Return, Keeping, Plain, Again, Attempt, Unresolved,
              Repair, thought, ShapeOK, ShapeAt, FreeStages, Goes, GoesUndecided, Ends
<1> QED BY <1>1, <1>2, <1>4, Decides

LEMMA CompareDecides ==
  ASSUME ShapeOK, DecidedOK, Compare, UNCHANGED <<utterance, setup>>
  PROVE  DecidedOK'
<1>1. stage # "returned"
  BY DEF Compare
<1>2. verdict' \in Verdicts
  BY DEF Compare, Keeping, thought, DecidedOK, Verdicts
<1>3. decision.kind # "none"
  BY DEF Compare, DecidedOK, Decided
<1>4. Goes \/ Ends
  BY <1>3 DEF Compare, To, Return, Keeping, Repair, Plain, thought, Goes, GoesUndecided,
              Ends
<1> QED BY <1>1, <1>2, <1>4, Decides

LEMMA ReconsiderDecides ==
  ASSUME ShapeOK, DecidedOK, Reconsider, UNCHANGED <<utterance, setup>>
  PROVE  DecidedOK'
<1>1. stage # "returned"
  BY DEF Reconsider
<1>2. verdict' \in Verdicts
  BY DEF Reconsider, Keeping, thought, DecidedOK, Verdicts
<1>3. decision.kind # "none"
  BY DEF Reconsider, DecidedOK, Decided
<1>4. Goes \/ Ends
  BY <1>3 DEF Reconsider, To, Return, Keeping, Invalid, ModelUnavailable, Plain, thought,
              Goes, GoesUndecided, Ends
<1> QED BY <1>1, <1>2, <1>4, Decides

LEMMA SecondLookDecides ==
  ASSUME ShapeOK, DecidedOK, SecondLook, UNCHANGED <<utterance, setup>>
  PROVE  DecidedOK'
<1>1. stage # "returned"
  BY DEF SecondLook
<1>2. verdict' \in Verdicts
  BY DEF SecondLook, Keeping, Decide, thought, DecidedOK, Verdicts
<1>3. decision.kind # "none"
  BY DEF SecondLook, DecidedOK, Decided
<1>4. Goes \/ Ends
  BY <1>3, DecodedDecides DEF SecondLook, To, Keeping, Decide, Invalid, thought, Goes,
                              GoesUndecided, Ends
<1> QED BY <1>1, <1>2, <1>4, Decides

LEMMA RewriteDecides ==
  ASSUME ShapeOK, DecidedOK, Rewrite, UNCHANGED <<utterance, setup>>
  PROVE  DecidedOK'
<1>1. stage # "returned"
  BY DEF Rewrite
<1>2. verdict' \in Verdicts
  BY DEF Rewrite, Keeping, Decide, thought, DecidedOK, Verdicts
<1>3. decision.kind # "none"
  BY DEF Rewrite, DecidedOK, Decided
<1>4. Goes \/ Ends
  BY <1>3 DEF Rewrite, To, Return, Keeping, Decide, Plain, Action, thought, Goes,
              GoesUndecided, Ends
<1> QED BY <1>1, <1>2, <1>4, Decides

LEMMA CheckDecides ==
  ASSUME ShapeOK, DecidedOK, Check, UNCHANGED <<utterance, setup>>
  PROVE  DecidedOK'
<1>1. stage # "returned"
  BY DEF Check
<1>2. verdict' \in Verdicts
  BY DEF Check, Keeping, thought, DecidedOK, Verdicts
<1>3. decision.kind # "none"
  BY DEF Check, DecidedOK, Decided
<1>4. Goes \/ Ends
  BY <1>3 DEF Check, To, Return, Keeping, Invalid, Plain, thought, Goes, GoesUndecided,
              Ends
<1> QED BY <1>1, <1>2, <1>4, Decides

LEMMA ReadInsteadDecides ==
  ASSUME ShapeOK, DecidedOK, ReadInstead, UNCHANGED <<utterance, setup>>
  PROVE  DecidedOK'
<1>1. stage # "returned"
  BY DEF ReadInstead
<1>2. verdict' \in Verdicts
  BY DEF ReadInstead, Keeping, thought, DecidedOK, Verdicts
<1>3. decision.kind # "none"
  BY DEF ReadInstead, DecidedOK, Decided
<1>4. Goes \/ Ends
  BY <1>3 DEF ReadInstead, Return, Keeping, Invalid, Answers, Questions, To, thought,
              Goes, GoesUndecided, Ends
<1> QED BY <1>1, <1>2, <1>4, Decides

LEMMA ArgumentDecides ==
  ASSUME ShapeOK, DecidedOK, Argument, UNCHANGED <<utterance, setup>>
  PROVE  DecidedOK'
<1>1. stage # "returned"
  BY DEF Argument
<1>2. verdict' \in Verdicts
  BY DEF Argument, Decide, DecidedOK, Verdicts
<1>3. decision.kind # "none"
  BY DEF Argument, DecidedOK, Decided
<1>4. Goes \/ Ends
  BY <1>3, DecodedDecides DEF Argument, To, Decide, Repair, Goes, GoesUndecided, Ends
<1> QED BY <1>1, <1>2, <1>4, Decides

LEMMA ArgumentRepairedDecides ==
  ASSUME ShapeOK, DecidedOK, ArgumentRepaired, UNCHANGED <<utterance, setup>>
  PROVE  DecidedOK'
<1>1. stage # "returned"
  BY DEF ArgumentRepaired
<1>2. verdict' \in Verdicts
  BY DEF ArgumentRepaired, Keeping, thought, DecidedOK, Verdicts
<1>3. decision.kind # "none"
  BY DEF ArgumentRepaired, DecidedOK, Decided
<1>4. Goes \/ Ends
  BY <1>3 DEF ArgumentRepaired, To, Return, Keeping, Repair, thought, Goes,
              GoesUndecided, Ends
<1> QED BY <1>1, <1>2, <1>4, Decides

LEMMA ArguedDecides ==
  ASSUME ShapeOK, DecidedOK, Argued, UNCHANGED <<utterance, setup>>
  PROVE  DecidedOK'
<1>1. stage # "returned"
  BY DEF Argued
<1>2. verdict' \in Verdicts
  BY DEF Argued, Keeping, thought, DecidedOK, Verdicts
<1>3. decision.kind # "none"
  BY DEF Argued, DecidedOK, Decided
<1>4. Goes \/ Ends
  BY <1>3 DEF Argued, Return, Keeping, thought, Goes, GoesUndecided, Ends
<1> QED BY <1>1, <1>2, <1>4, Decides

LEMMA RecoverDecides ==
  ASSUME ShapeOK, DecidedOK, Recover, UNCHANGED <<utterance, setup>>
  PROVE  DecidedOK'
<1>1. stage # "returned"
  BY DEF Recover
<1>2. verdict' \in Verdicts
  BY DEF Recover, Keeping, thought, DecidedOK, Verdicts
<1>3. Goes \/ Ends
  BY DEF Recover, Return, Keeping, Plain, thought, Goes, GoesUndecided, Ends
<1> QED BY <1>1, <1>2, <1>3, Decides

LEMMA ModelFailsDecides ==
  ASSUME ShapeOK, DecidedOK, ModelFails, UNCHANGED <<utterance, setup>>
  PROVE  DecidedOK'
<1>1. stage # "returned"
  BY DEF ModelFails
<1>2. verdict' \in Verdicts
  BY DEF ModelFails, Keeping, thought, DecidedOK, Verdicts
<1>3. Goes \/ Ends
  BY DEF ModelFails, Keeping, ModelUnavailable, Return, Plain, thought, Goes,
         GoesUndecided, Ends
<1> QED BY <1>1, <1>2, <1>3, Decides

LEMMA CognitionInitDecides == CognitionInit => DecidedOK
BY DEF CognitionInit, DecidedOK, Decided, Verdicts, NoDecision

LEMMA CognitionStepDecides ==
  CognitionIInv /\ DecidedOK /\ [CognitionNext]_cognitionVars => DecidedOK'
<1> SUFFICES ASSUME CognitionIInv, DecidedOK, [CognitionNext]_cognitionVars PROVE DecidedOK'
  OBVIOUS
<1>1. CASE UNCHANGED cognitionVars
  BY <1>1 DEF cognitionVars, thought, DecidedOK, Decided
<1>2. CASE CognitionNext
  BY <1>2, ClassifyDecides, SourceDecides, GenerateDecides, RouteDecides,
     RepairDecodingDecides, CompoundDecides, RepairPlanDecides, ClarifiedDecides,
     SingleDecides, ResearchDecides, EffectsDecides, MapDecides,
     RepairReadingDecides, CompareDecides, ReconsiderDecides, SecondLookDecides,
     RewriteDecides, CheckDecides, ReadInsteadDecides, ArgumentDecides,
     ArgumentRepairedDecides, ArguedDecides, RecoverDecides, ModelFailsDecides
  DEF CognitionNext, CognitionIInv
<1> QED BY <1>1, <1>2

\* The variables of a decision have their types; and a request has an answer exactly when it
\* is over, since what is past the routing has decided something.
THEOREM CognitionTypeCorrect == CognitionSpec => []CognitionTypeOK
<1>1. CognitionIInv /\ DecidedOK => CognitionTypeOK
  <2> SUFFICES ASSUME CognitionIInv, DecidedOK PROVE CognitionTypeOK
    OBVIOUS
  <2>1. /\ utterance \in Utterances /\ setup \in Setups
        /\ verdict \in {"none", "ungrounded", "unsupported", "complete", "incomplete"}
    BY DEF DecidedOK, Verdicts
  <2>2. /\ repairing.left \in 0..2
        /\ stage \in FreeStages \cup {"effects", "map", "compare", "read", "argument",
                                      "decode", "plan", "reading"}
    BY DEF CognitionIInv, ShapeOK, ShapeAt
  <2>3. returned # NoDecision <=> stage = "returned"
    BY DEF DecidedOK, NoDecision
  <2> QED BY <2>1, <2>2, <2>3 DEF CognitionTypeOK, FreeStages
<1>2. CognitionIInv /\ DecidedOK /\ [CognitionNext]_cognitionVars
      => (CognitionIInv /\ DecidedOK)'
  BY CognitionStepHolds, CognitionStepDecides
<1>3. CognitionSpec => [](CognitionIInv /\ DecidedOK)
  BY <1>2, CognitionInitHolds, CognitionInitDecides, PTL DEF CognitionSpec
<1> QED BY <1>1, <1>3, PTL

-----------------------------------------------------------------------------
(* The three next to each other. A step of one of them leaves the variables of the
   others alone. The fairness of WaitingSpec is not that of TaskSpec: while a
   behaviour is about the audit chain, a request of the tasks table that could go on
   does not. So the safety of the tasks is taken from their steps alone.         *)

LEMMA StepsOfOneTable ==
  ASSUME [WaitingNext]_waitingVars
  PROVE  [Next]_vars /\ [TaskNext]_taskVars /\ [CognitionNext]_cognitionVars
<1>1. CASE InAudit(Next)
  BY <1>1 DEF InAudit
<1>2. CASE InTasks(TaskNext)
  BY <1>2 DEF InTasks
<1>3. CASE InDecision(CognitionNext)
  BY <1>3 DEF InDecision
<1>4. CASE UNCHANGED waitingVars
  BY <1>4 DEF waitingVars
<1> QED BY <1>1, <1>2, <1>3, <1>4 DEF WaitingNext

\* Whatever a behaviour is about, the audit chain, the tasks and the decision each behave
\* as they do by themselves.
THEOREM TablesRunApart ==
  WaitingSpec => Spec /\ TaskInit /\ [][TaskNext]_taskVars /\ CognitionSpec
<1>1. WaitingInit => Init /\ TaskInit /\ CognitionInit
  BY DEF WaitingInit
<1>2. [WaitingNext]_waitingVars => [Next]_vars
  BY StepsOfOneTable
<1>3. [WaitingNext]_waitingVars => [TaskNext]_taskVars
  BY StepsOfOneTable
<1>4. [WaitingNext]_waitingVars => [CognitionNext]_cognitionVars
  BY StepsOfOneTable
<1>5. WaitingInit /\ [][WaitingNext]_waitingVars => Spec
  BY <1>1, <1>2, PTL DEF Spec
<1>6. WaitingInit /\ [][WaitingNext]_waitingVars => TaskInit /\ [][TaskNext]_taskVars
  BY <1>1, <1>3, PTL
<1>7. WaitingInit /\ [][WaitingNext]_waitingVars => CognitionSpec
  BY <1>1, <1>4, PTL DEF CognitionSpec
<1>8. WaitingSpec => WaitingInit /\ [][WaitingNext]_waitingVars
  BY PTL DEF WaitingSpec
<1> QED BY <1>5, <1>6, <1>7, <1>8

LEMMA TasksInTables == WaitingSpec => []TaskIInv
<1>1. TaskIInv /\ [TaskNext]_taskVars => TaskIInv'
  BY TaskNextKeeps
<1>2. TaskInit /\ [][TaskNext]_taskVars => []TaskIInv
  BY <1>1, TaskStarts, PTL
<1> QED BY <1>2, TablesRunApart

\* The tables, what their requests carry, and the decision keep their types.
THEOREM TablesTypeCorrect == WaitingSpec => []TablesTypeOK
<1>1. TaskIInv => TaskTypeOK
  BY TaskStatesAre
<1>2. WaitingSpec => []AuditTypeOK
  BY TablesRunApart, AuditTypeCorrect
<1>3. WaitingSpec => []CognitionTypeOK
  BY TablesRunApart, CognitionTypeCorrect
<1>4. WaitingSpec => []TaskTypeOK
  BY <1>1, TasksInTables, PTL
<1>5. AuditTypeOK /\ TaskTypeOK /\ CognitionTypeOK => TablesTypeOK
  BY DEF TablesTypeOK
<1> QED BY <1>2, <1>3, <1>4, <1>5, PTL

\* In every behaviour of the run the chain verifies, its head is its last event and what
\* was corrected is on it; a key has one task; a decision costs what is bounded and a
\* change that it returns has been compared.
THEOREM TablesAreCorrect ==
  WaitingSpec => [](/\ ChainVerifies /\ HeadIsTip /\ CorrectionHasProvenance
                    /\ OneTaskPerKey /\ CallsAreBounded /\ WritesAreAccounted)
<1>1. TaskIInv => OneTaskPerKey
  BY TaskStatesAre
<1>2. WaitingSpec => []ChainVerifies /\ []HeadIsTip /\ []CorrectionHasProvenance
  BY TablesRunApart, TheChainVerifies, TheHeadIsTheTip, CorrectionsHaveProvenance
<1>3. WaitingSpec => []OneTaskPerKey
  BY <1>1, TasksInTables, PTL
<1>4. WaitingSpec => []CallsAreBounded /\ []WritesAreAccounted
  BY TablesRunApart, ADecisionIsBounded, ChangesAreAccounted
<1> QED BY <1>2, <1>3, <1>4, PTL

\* The run's chain implements the log that its readers know (AuditLog), and its tasks
\* complete a set in the step that makes any of it visible.
THEOREM TablesKeepTheLog == WaitingSpec => KeepsLog /\ SetsCompleteTogether
<1>1. WaitingSpec => KeepsLog
  BY TablesRunApart, ImplementsLog
<1>2. WaitingSpec => [][TaskNext]_taskVars
  BY TablesRunApart
<1>3. WaitingSpec => SetsCompleteTogether
  BY <1>2, TasksInTables, SetsStepTogether, PTL DEF SetsCompleteTogether
<1> QED BY <1>1, <1>3
===============================================================================
