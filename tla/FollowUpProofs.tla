---------------------------- MODULE FollowUpProofs ----------------------------
(* The conversation about a list: what "the second one" is, for any number of records
   and any limit on what a follow-up can refer to. Agrees is why: it relates the
   evidence of the last result to the list that the owner has.

   Every reference is resolved by taking records of lists, in some order, cutting and
   sorting them. FollowUpsTyped says that whatever is kept in between, as evidence, as
   its focus or as what a reference is of, are records that there are.           *)
EXTENDS FollowUps, FiniteSetTheorems, WellFoundedInduction, TLAPS

-----------------------------------------------------------------------------
(* The operators of FollowUps                                                *)

LEMMA LeastPlace ==
  ASSUME NEW S, S \subseteq Nat, S # {}
  PROVE  \E n \in S : \A m \in S : n <= m
<1>1. PICK n \in S : \A m \in S : ~ (<<m, n>> \in OpToRel(<, Nat))
  BY NatLessThanWellFounded, WFMin
<1>2. ASSUME NEW m \in S PROVE n <= m
  <2>1. ~ (m < n)
    BY <1>1, <1>2 DEF OpToRel
  <2> QED BY <2>1
<1> QED BY <1>2

\* f is what the recursive function in Only is to be, on the first m of the list
IsKept(f, list, records, m) ==
  f = [n \in 0..m |->
         IF n = 0 THEN <<>>
         ELSE IF list[n] \in records THEN Append(f[n - 1], list[n]) ELSE f[n - 1]]

LEMMA KeptExists ==
  ASSUME NEW list, NEW records, NEW m \in Nat
  PROVE  \E f : IsKept(f, list, records, m)
<1> DEFINE Bad == {n \in 0..m : ~ \E f : IsKept(f, list, records, n)}
<1>1. ASSUME Bad # {} PROVE FALSE
  <2>1. Bad \subseteq Nat
    OBVIOUS
  <2>2. PICK n \in Bad : \A k \in Bad : n <= k
    BY <1>1, <2>1, LeastPlace
  <2>3. CASE n = 0
    <3>1. IsKept([i \in 0..0 |-> <<>>], list, records, 0)
      BY DEF IsKept
    <3> QED BY <2>2, <2>3, <3>1
  <2>4. CASE n # 0
    <3>1. n \in Nat /\ n - 1 \in 0..m /\ n - 1 \notin Bad
      BY <2>2, <2>4
    <3>2. PICK g : IsKept(g, list, records, n - 1)
      BY <3>1
    <3> DEFINE step == IF list[n] \in records THEN Append(g[n - 1], list[n]) ELSE g[n - 1]
    <3> DEFINE f == [i \in 0..n |-> IF i = n THEN step ELSE g[i]]
    <3> HIDE DEF step
    <3>3. \A i \in 0..n : i - 1 \in 0..n => f[i - 1] = g[i - 1]
      BY <3>1
    <3>4. ASSUME NEW i \in 0..n
          PROVE  f[i] = IF i = 0 THEN <<>>
                        ELSE IF list[i] \in records THEN Append(f[i - 1], list[i]) ELSE f[i - 1]
      <4>1. CASE i = n
        BY <3>1, <3>3, <4>1, <2>4 DEF step
      <4>2. CASE i # n
        <5>1. i \in 0..(n - 1) /\ f[i] = g[i]
          BY <3>1, <4>2
        <5>2. g[i] = IF i = 0 THEN <<>>
                     ELSE IF list[i] \in records THEN Append(g[i - 1], list[i]) ELSE g[i - 1]
          BY <3>2, <5>1 DEF IsKept
        <5> QED BY <3>1, <3>3, <5>1, <5>2
      <4> QED BY <4>1, <4>2
    <3>5. IsKept(f, list, records, n)
      <4>1. f = [i \in 0..n |-> f[i]]
        OBVIOUS
      <4> HIDE DEF f
      <4> QED BY <3>4, <4>1 DEF IsKept
    <3> QED BY <2>2, <3>5
  <2> QED BY <2>3, <2>4
<1>2. m \in 0..m
  OBVIOUS
<1> QED BY <1>1, <1>2

\* Only gives a list again, of those it is asked for, and of all if it is asked for all
LEMMA OnlyIs ==
  ASSUME NEW S, NEW list \in Seq(S), NEW records
  PROVE  /\ Only(list, records) \in Seq(S \cap records)
         /\ (\A i \in 1..Len(list) : list[i] \in records) => Only(list, records) = list
<1> DEFINE N == Len(list)
<1>1. N \in Nat /\ list \in [1..N -> S]
  OBVIOUS
<1>2. \E f : IsKept(f, list, records, N)
  BY <1>1, KeptExists
<1>3. PICK v : Only(list, records) = v[N] /\ IsKept(v, list, records, N)
  BY <1>2 DEF Only, IsKept
<1>4. v[0] = <<>>
  BY <1>1, <1>3 DEF IsKept
<1>5. ASSUME NEW n \in 1..N
      PROVE  v[n] = IF list[n] \in records THEN Append(v[n - 1], list[n]) ELSE v[n - 1]
  <2>1. n \in 0..N /\ n # 0
    BY <1>1
  <2> QED BY <1>3, <2>1 DEF IsKept
<1>6. v[N] \in Seq(S \cap records)
  <2> DEFINE Bad == {n \in 0..N : v[n] \notin Seq(S \cap records)}
  <2>1. ASSUME Bad # {} PROVE FALSE
    <3>1. Bad \subseteq Nat
      BY <1>1
    <3>2. PICK n \in Bad : \A k \in Bad : n <= k
      BY <2>1, <3>1, LeastPlace
    <3>0. n # 0
      <4>1. <<>> \in Seq(S \cap records)
        OBVIOUS
      <4> QED BY <1>4, <3>2, <4>1
    <3>3. n \in 1..N /\ n - 1 \in 0..N /\ n - 1 \notin Bad
      BY <1>1, <3>0, <3>2
    <3>4. v[n - 1] \in Seq(S \cap records)
      BY <3>3
    <3>5. list[n] \in S
      BY <1>1, <3>3
    <3>6. CASE list[n] \in records
      <4>1. list[n] \in S \cap records /\ v[n] = Append(v[n - 1], list[n])
        BY <1>5, <3>3, <3>5, <3>6
      <4>2. \A T : \A q \in Seq(T), e \in T : Append(q, e) \in Seq(T)
        OBVIOUS
      <4>3. v[n] \in Seq(S \cap records)
        BY <3>4, <4>1, <4>2
      <4> QED BY <3>2, <4>3
    <3>7. CASE list[n] \notin records
      <4>1. v[n] = v[n - 1]
        BY <1>5, <3>3, <3>7
      <4> QED BY <3>2, <3>4, <4>1
    <3> QED BY <3>6, <3>7
  <2>2. N \in 0..N
    BY <1>1
  <2> QED BY <2>1, <2>2
<1>7. ASSUME \A i \in 1..N : list[i] \in records PROVE v[N] = list
  <2> DEFINE Bad == {n \in 0..N : v[n] # SubSeq(list, 1, n)}
  <2>1. ASSUME Bad # {} PROVE FALSE
    <3>1. Bad \subseteq Nat
      BY <1>1
    <3>2. PICK n \in Bad : \A k \in Bad : n <= k
      BY <2>1, <3>1, LeastPlace
    <3>3. n # 0
      <4>1. SubSeq(list, 1, 0) = <<>>
        OBVIOUS
      <4> QED BY <1>4, <3>2, <4>1
    <3>4. n \in 1..N /\ n - 1 \in 0..N /\ n - 1 \notin Bad
      BY <1>1, <3>2, <3>3
    <3>5. v[n] = Append(SubSeq(list, 1, n - 1), list[n])
      BY <1>5, <1>7, <3>4
    <3>6. SubSeq(list, 1, n) = Append(SubSeq(list, 1, n - 1), list[n])
      BY <1>1, <3>4
    <3> QED BY <3>2, <3>5, <3>6
  <2>2. v[N] = SubSeq(list, 1, N)
    BY <1>1, <2>1
  <2>3. SubSeq(list, 1, N) = list
    OBVIOUS
  <2> QED BY <2>2, <2>3
<1> QED BY <1>3, <1>6, <1>7

-----------------------------------------------------------------------------
(* A conversation about a list: the inductive invariant                      *)

IsList(list) == list \in Seq(Range(list))

\* what an ordinal within the limit finds in list, and "the last", is what stands there in
\* shown, the list that the owner has
Agrees(shown, list) ==
  \/ shown = <<>>
  \/ collection = "obligations" /\ closedNow # {}
  \/ /\ \A n \in 1..CandidateLimit :
          n \in DOMAIN list => n \in DOMAIN shown /\ shown[n].id = list[n].id
     /\ list # <<>> /\ Len(shown) <= CandidateLimit => Len(list) = Len(shown)

PriorIsList ==
  /\ prior = [list |-> prior.list, focus |-> prior.focus, by |-> prior.by]
  /\ IsList(prior.list)

FollowUpsIInv ==
  /\ known \in Nat
  /\ IsList(received) /\ PriorIsList
  /\ Agrees(received, prior.list)
  /\ OrdinalsNameWhatWasReceived

-----------------------------------------------------------------------------
(* Lists                                                                     *)

LEMMA IsListIs ==
  ASSUME NEW S, NEW list \in Seq(S)
  PROVE  IsList(list)
BY DEF IsList, Range

LEMMA OnlyIsList ==
  ASSUME NEW list, IsList(list), NEW records
  PROVE  IsList(Only(list, records))
BY OnlyIs, IsListIs DEF IsList

LEMMA OnlyAll ==
  ASSUME NEW list, IsList(list), NEW records, Range(list) \subseteq records
  PROVE  Only(list, records) = list
<1>1. \A i \in 1..Len(list) : list[i] \in records
  BY DEF IsList, Range
<1> QED BY <1>1, OnlyIs DEF IsList

LEMMA OnlyNone ==
  ASSUME NEW list, IsList(list)
  PROVE  Only(list, {}) = <<>>
<1>1. Only(list, {}) \in Seq(Range(list) \cap {})
  BY OnlyIs DEF IsList
<1> QED BY <1>1

LEMMA AllRecordsIsList ==
  ASSUME known \in Nat
  PROVE  IsList(AllRecords)
<1>1. AllRecords \in Seq({ShownAs(i) : i \in 1..known})
  BY DEF AllRecords
<1> QED BY <1>1, IsListIs

LEMMA SortedIsList ==
  ASSUME NEW list, IsList(list), NEW before
  PROVE  IsList(Sorted(list, before))
<1>1. Len(list) \in Nat /\ DOMAIN list = 1..Len(list)
  BY DEF IsList
<1>2. ASSUME NEW f, DOMAIN f = 1..Len(list), f = [n \in 1..Len(list) |-> f[n]]
      PROVE  IsList(f)
  <2>1. f \in Seq({f[n] : n \in 1..Len(list)})
    BY <1>1, <1>2
  <2> QED BY <2>1, IsListIs
<1> QED BY <1>1, <1>2 DEF Sorted

LEMMA Joined ==
  ASSUME NEW l, NEW m, IsList(l), IsList(m)
  PROVE  /\ IsList(l \o m) /\ Len(l \o m) = Len(l) + Len(m)
         /\ \A n \in 1..Len(l) : (l \o m)[n] = l[n]
<1>1. PICK S : S = Range(l) \cup Range(m)
  OBVIOUS
<1>2. l \in Seq(S) /\ m \in Seq(S)
  BY <1>1 DEF IsList
<1>3. /\ l \o m \in Seq(S) /\ Len(l \o m) = Len(l) + Len(m)
      /\ \A n \in 1..Len(l) : (l \o m)[n] = l[n]
  BY <1>2
<1> QED BY <1>3, IsListIs

LEMMA CompactIsList ==
  ASSUME NEW list, IsList(list)
  PROVE  IsList(Compact(list))
<1>1. \A records : IsList(Only(list, records))
  BY OnlyIsList
<1>2. IsList(Only(list, UrgentOf(list)) \o Only(list, Range(list) \ UrgentOf(list)))
  BY <1>1, Joined
<1> QED BY <1>2, SortedIsList DEF Compact

LEMMA CutIs ==
  ASSUME NEW list, IsList(list)
  PROVE  /\ IsList(Cut(list))
         /\ Len(list) <= CandidateLimit => Cut(list) = list
         /\ ~ Len(list) <= CandidateLimit => Len(Cut(list)) = CandidateLimit
         /\ \A n \in DOMAIN Cut(list) : n \in DOMAIN list /\ Cut(list)[n] = list[n]
<1>1. /\ Len(list) \in Nat /\ CandidateLimit \in Nat \ {0} /\ list \in Seq(Range(list))
      /\ list = [n \in 1..Len(list) |-> list[n]]
  BY FollowUpsAssumption DEF IsList
<1>2. CASE Len(list) <= CandidateLimit
  <2>1. Cut(list) = SubSeq(list, 1, Len(list))
    BY <1>1, <1>2 DEF Cut
  <2>2. Cut(list) = list
    BY <1>1, <2>1
  <2> QED BY <1>2, <2>2
<1>3. CASE ~ Len(list) <= CandidateLimit
  <2>1. Cut(list) = SubSeq(list, 1, CandidateLimit)
    BY <1>1, <1>3 DEF Cut
  <2>2. /\ SubSeq(list, 1, CandidateLimit) \in Seq(Range(list))
        /\ Len(SubSeq(list, 1, CandidateLimit)) = CandidateLimit
        /\ \A n \in 1..CandidateLimit : SubSeq(list, 1, CandidateLimit)[n] = list[n]
    BY <1>1, <1>3
  <2>3. IsList(Cut(list))
    BY <2>1, <2>2, IsListIs
  <2>4. DOMAIN Cut(list) = 1..CandidateLimit /\ Len(Cut(list)) = CandidateLimit
    BY <1>1, <2>1, <2>2
  <2>5. \A n \in DOMAIN Cut(list) : n \in DOMAIN list /\ Cut(list)[n] = list[n]
    BY <1>1, <1>3, <2>1, <2>2, <2>4
  <2> QED BY <1>3, <2>3, <2>4, <2>5
<1> QED BY <1>2, <1>3

LEMMA CandidatesAre ==
  ASSUME NEW list, IsList(list)
  PROVE  /\ IsList(Candidates(list))
         /\ Len(list) <= CandidateLimit => Candidates(list) = list
         /\ \A n \in 1..CandidateLimit :
              n \in DOMAIN Candidates(list) => n \in DOMAIN list /\ Candidates(list)[n] = list[n]
<1> DEFINE first == Cut(list)
<1> DEFINE late == {r \in Range(list) \ Range(first) :
                      collection = "tasks" /\ r.id \in DatedRecords}
<1> DEFINE tail == Only(Compact(list), late)
<1>1. Candidates(list) = first \o tail
  BY DEF Candidates
<1>2. IsList(first) /\ IsList(tail)
  BY CutIs, CompactIsList, OnlyIsList
<1>3. CandidateLimit \in Nat /\ Len(list) \in Nat
  BY FollowUpsAssumption DEF IsList
<1>4. CASE Len(list) <= CandidateLimit
  <2>1. first = list
    BY <1>4, CutIs
  <2>2. late = {}
    BY <2>1
  <2>3. tail = <<>>
    BY <2>2, CompactIsList, OnlyNone
  <2>4. \A S : \A l \in Seq(S) : l \o <<>> = l
    OBVIOUS
  <2>5. first \o tail = list
    BY <2>1, <2>3, <2>4 DEF IsList
  <2> QED BY <1>1, <1>4, <2>5 DEF IsList
<1>5. CASE ~ Len(list) <= CandidateLimit
  <2>1. /\ Len(first) = CandidateLimit
        /\ \A n \in DOMAIN first : n \in DOMAIN list /\ first[n] = list[n]
    BY <1>5, CutIs
  <2>2. DOMAIN first = 1..CandidateLimit
    BY <1>2, <2>1 DEF IsList
  <2> HIDE DEF first, tail
  <2>3. IsList(first \o tail) /\ \A n \in 1..CandidateLimit : (first \o tail)[n] = first[n]
    BY <1>2, <2>1, Joined
  <2> QED BY <1>1, <1>5, <2>1, <2>2, <2>3
<1> QED BY <1>4, <1>5

LEMMA AgreesWithCandidates ==
  ASSUME NEW shown, NEW list, IsList(shown), IsList(list), Agrees(shown, list)
  PROVE  /\ Agrees(shown, Candidates(list))
         /\ IsList(Cut(Candidates(list))) /\ Agrees(shown, Cut(Candidates(list)))
<1>1. /\ IsList(Candidates(list))
      /\ Len(list) <= CandidateLimit => Candidates(list) = list
      /\ \A n \in 1..CandidateLimit :
           n \in DOMAIN Candidates(list) => n \in DOMAIN list /\ Candidates(list)[n] = list[n]
  BY CandidatesAre
<1> DEFINE c == Candidates(list)
<1> HIDE DEF c
<1>2. IsList(c) /\ (Len(list) <= CandidateLimit => c = list)
  BY <1>1 DEF c
<1>3. \A n \in 1..CandidateLimit : n \in DOMAIN c => n \in DOMAIN list /\ c[n] = list[n]
  BY <1>1 DEF c
<1>4. /\ IsList(Cut(c)) /\ (Len(c) <= CandidateLimit => Cut(c) = c)
      /\ \A n \in DOMAIN Cut(c) : n \in DOMAIN c /\ Cut(c)[n] = c[n]
  BY <1>2, CutIs
<1>5. CASE shown = <<>> \/ (collection = "obligations" /\ closedNow # {})
  BY <1>4, <1>5 DEF Agrees, c
<1>6. CASE ~ (shown = <<>> \/ (collection = "obligations" /\ closedNow # {}))
  <2>1. /\ \A n \in 1..CandidateLimit :
             n \in DOMAIN list => n \in DOMAIN shown /\ shown[n].id = list[n].id
        /\ list # <<>> /\ Len(shown) <= CandidateLimit => Len(list) = Len(shown)
    BY <1>6 DEF Agrees
  <2>2. list = <<>> => c = <<>>
    <3>1. Len(<<>>) = 0 /\ 0 <= CandidateLimit
      BY FollowUpsAssumption
    <3> QED BY <1>2, <3>1
  <2>3. Agrees(shown, c)
    BY <1>2, <1>3, <2>1, <2>2 DEF Agrees
  <2>4. Agrees(shown, Cut(c))
    <3>1. \A n \in 1..CandidateLimit :
            n \in DOMAIN Cut(c) => n \in DOMAIN shown /\ shown[n].id = Cut(c)[n].id
      BY <1>3, <1>4, <2>1
    <3>2. ASSUME Cut(c) # <<>>, Len(shown) <= CandidateLimit PROVE Len(Cut(c)) = Len(shown)
      <4>1. CASE list = <<>>
        <5>1. c = <<>> /\ Len(c) <= CandidateLimit
          BY <2>2, <4>1, FollowUpsAssumption
        <5> QED BY <1>4, <3>2, <5>1
      <4>2. CASE list # <<>>
        BY <1>2, <1>4, <2>1, <3>2, <4>2
      <4> QED BY <4>1, <4>2
    <3> QED BY <3>1, <3>2 DEF Agrees
  <2> QED BY <1>4, <2>3, <2>4 DEF c
<1> QED BY <1>5, <1>6

-----------------------------------------------------------------------------
(* What a request does with the list                                         *)

LEMMA Refers ==
  ASSUME FollowUpsIInv, known' \in Nat, IsList(received'), Agrees(received, prior.list)',
         NEW list, NEW focus, NEW by, IsList(list),
         prior' = [list |-> list, focus |-> focus, by |-> by],
         OrdinalsNameWhatWasReceived'
  PROVE  FollowUpsIInv'
<1>1. /\ prior' = [list |-> prior'.list, focus |-> prior'.focus, by |-> prior'.by]
      /\ prior'.list = list
  OBVIOUS
<1>2. PriorIsList' /\ IsList(received)'
  BY <1>1 DEF PriorIsList, IsList
<1> QED BY <1>2 DEF FollowUpsIInv

LEMMA NothingReferred == reference' = NoReference => OrdinalsNameWhatWasReceived'
BY DEF NoReference, OrdinalsNameWhatWasReceived

\* it shows a list and hands it on
LEMMA ShowsKeeps ==
  ASSUME FollowUpsIInv, NEW list, IsList(list), NEW by,
         received' = list, prior' = [list |-> list, focus |-> NoFocus, by |-> by],
         reference' = NoReference, UNCHANGED known
  PROVE  FollowUpsIInv'
<1>1. prior'.list = list
  OBVIOUS
<1>2. Agrees(received, prior.list)'
  BY <1>1 DEF Agrees
<1>3. known' \in Nat /\ IsList(received')
  BY DEF FollowUpsIInv
<1> QED BY <1>2, <1>3, NothingReferred, Refers

LEMMA ListsKeeps ==
  ASSUME FollowUpsIInv, NEW list, IsList(list), Lists(list),
         collection = "obligations" => list = AllRecords
  PROVE  FollowUpsIInv'
<1>1. PICK by : prior' = [list |-> list, focus |-> NoFocus, by |-> by]
  BY DEF Lists
<1>2. known' \in Nat /\ reference' = NoReference /\ UNCHANGED <<known, collection, closedNow>>
  BY DEF Lists, ReadsRecords, FollowUpsIInv
<1>3. CASE collection # "obligations"
  <2>1. received' = list
    BY <1>3 DEF Lists, Displayed
  <2> QED BY <1>1, <1>2, <2>1, ShowsKeeps
<1>4. CASE collection = "obligations" /\ closedNow # {}
  <2>1. Agrees(received, prior.list)'
    BY <1>2, <1>4 DEF Agrees
  <2>2. IsList(received')
    BY <1>4, OnlyIsList DEF Lists, Displayed
  <2> QED BY <1>1, <1>2, <2>1, <2>2, NothingReferred, Refers
<1>5. CASE collection = "obligations" /\ closedNow = {}
  <2>1. Range(list) \subseteq OpenOf(list)
    <3>1. ASSUME NEW i \in 1..known PROVE ~ ShownAs(i).closed
      <4>1. ShownAs(i).closed <=> i \in closedNow
        BY DEF ShownAs
      <4> QED BY <1>5, <4>1
    <3>2. \A r \in Range(AllRecords) : ~ r.closed
      BY <3>1 DEF AllRecords, Range
    <3> QED BY <1>5, <3>2 DEF OpenOf
  <2>2. received' = list
    BY <1>5, <2>1, OnlyAll DEF Lists, Displayed
  <2> QED BY <1>1, <1>2, <2>2, ShowsKeeps
<1> QED BY <1>3, <1>4, <1>5

\* it hands on a list that it does not show
LEMMA HidesKeeps ==
  ASSUME FollowUpsIInv, NEW list, IsList(list), NEW focus, NEW by,
         received' = <<>>, prior' = [list |-> list, focus |-> focus, by |-> by],
         reference' = NoReference, UNCHANGED known
  PROVE  FollowUpsIInv'
<1>1. IsList(received') /\ Agrees(received, prior.list)' /\ known' \in Nat
  BY DEF IsList, Range, Agrees, FollowUpsIInv
<1> QED BY <1>1, NothingReferred, Refers

LEMMA UnshownKeeps ==
  ASSUME FollowUpsIInv, NEW list, IsList(list), NEW focus, Unshown(list, focus),
         reference' = NoReference, ReadsRecords
  PROVE  FollowUpsIInv'
BY HidesKeeps DEF Unshown, Result, ReadsRecords

\* it hands on nothing
LEMMA ForgetsKeeps ==
  ASSUME FollowUpsIInv, NEW focus, NEW by,
         prior' = [list |-> <<>>, focus |-> focus, by |-> by],
         UNCHANGED <<received, known>>, OrdinalsNameWhatWasReceived'
  PROVE  FollowUpsIInv'
<1>1. IsList(<<>>) /\ IsList(received') /\ known' \in Nat /\ prior'.list = <<>>
  BY DEF IsList, Range, FollowUpsIInv
<1>2. Agrees(received, prior.list)'
  BY <1>1 DEF Agrees
<1> QED BY <1>1, <1>2, Refers

LEMMA ScalarKeeps ==
  ASSUME FollowUpsIInv, NEW focus, Scalar(focus) \/ prior' = Bare,
         reference' = NoReference, UNCHANGED <<received, known>>
  PROVE  FollowUpsIInv'
<1>1. \E f : prior' = [list |-> <<>>, focus |-> f, by |-> "none"]
  BY DEF Scalar, Bare
<1> QED BY <1>1, NothingReferred, ForgetsKeeps

\* it hands on the candidates it was given
LEMMA HandsOnKeeps ==
  ASSUME FollowUpsIInv, NEW list, NEW focus, NEW by,
         IsList(list), Agrees(received, list),
         prior' = [list |-> list, focus |-> focus, by |-> by],
         UNCHANGED <<received, known, collection, closedNow>>, OrdinalsNameWhatWasReceived'
  PROVE  FollowUpsIInv'
<1>1. IsList(received') /\ known' \in Nat /\ prior'.list = list
  BY DEF FollowUpsIInv
<1>2. Agrees(received, prior.list)'
  BY <1>1 DEF Agrees
<1> QED BY <1>1, <1>2, Refers

LEMMA ResultKeeps ==
  ASSUME FollowUpsIInv, NEW focus, Result(Candidates(prior.list), focus),
         OrdinalsNameWhatWasReceived', UNCHANGED received, ReadsRecords
  PROVE  FollowUpsIInv'
<1>1. PICK c : c = Candidates(prior.list)
  OBVIOUS
<1>2. IsList(c) /\ Agrees(received, c)
  BY <1>1, CandidatesAre, AgreesWithCandidates DEF FollowUpsIInv, PriorIsList
<1>3. prior' = [list |-> c, focus |-> focus, by |-> "follow-up"]
  BY <1>1 DEF Result
<1> QED BY <1>2, <1>3, HandsOnKeeps DEF ReadsRecords

LEMMA BlockedKeeps ==
  ASSUME FollowUpsIInv, BlockedFollowUp, reference' = NoReference,
         UNCHANGED received, ReadsRecords
  PROVE  FollowUpsIInv'
<1>1. PICK c : c = Cut(Candidates(prior.list))
  OBVIOUS
<1>2. IsList(c) /\ Agrees(received, c)
  BY <1>1, AgreesWithCandidates DEF FollowUpsIInv, PriorIsList
<1>3. PICK by : prior' = [prior EXCEPT !.list = c, !.focus = NoFocus, !.by = by]
  BY <1>1 DEF BlockedFollowUp
<1>4. prior' = [list |-> c, focus |-> NoFocus, by |-> by]
  BY <1>3 DEF FollowUpsIInv, PriorIsList
<1> QED BY <1>2, <1>4, NothingReferred, HandsOnKeeps DEF ReadsRecords

\* "the second one" of the list the owner has
LEMMA OrdinalIsNamed ==
  ASSUME FollowUpsIInv, NEW n \in Ordinals, NEW c, c = Candidates(prior.list),
         prior.list # <<>>, PlaceOf(n, c) \in DOMAIN c,
         reference' = [ordinal |-> n, record |-> c[PlaceOf(n, c)].id, of |-> received],
         UNCHANGED collection, UNCHANGED closedNow \/ collection # "obligations"
  PROVE  OrdinalsNameWhatWasReceived'
<1>1. IsList(c) /\ Agrees(received, c) /\ IsList(received)
  BY CandidatesAre, AgreesWithCandidates DEF FollowUpsIInv, PriorIsList
<1>2. /\ reference'.ordinal = n /\ reference'.of = received
      /\ reference'.record = c[PlaceOf(n, c)].id
  OBVIOUS
<1>3. CASE received = <<>> \/ (collection = "obligations" /\ closedNow # {})
  BY <1>2, <1>3 DEF OrdinalsNameWhatWasReceived
<1>4. CASE ~ (received = <<>> \/ (collection = "obligations" /\ closedNow # {}))
  <2>1. /\ \A m \in 1..CandidateLimit :
             m \in DOMAIN c => m \in DOMAIN received /\ received[m].id = c[m].id
        /\ c # <<>> /\ Len(received) <= CandidateLimit => Len(c) = Len(received)
    BY <1>1, <1>4 DEF Agrees
  <2>2. ASSUME n \in 1..CandidateLimit
        PROVE  n \in DOMAIN received /\ received[n].id = reference'.record
    <3>1. PlaceOf(n, c) = n
      BY <2>2 DEF PlaceOf
    <3> QED BY <1>2, <2>1, <2>2, <3>1
  <2>3. ASSUME n = 0, Len(received) <= CandidateLimit
        PROVE  Last(received).id = reference'.record
    <3>1. PlaceOf(n, c) = Len(c)
      BY <2>3 DEF PlaceOf
    <3>2. Len(c) \in DOMAIN c /\ DOMAIN c = 1..Len(c) /\ Len(c) \in Nat
      BY <1>1, <3>1 DEF IsList
    <3>3. c # <<>>
      BY <3>2
    <3>4. Len(c) = Len(received) /\ Len(c) \in 1..CandidateLimit
      BY <2>1, <2>3, <3>2, <3>3, FollowUpsAssumption
    <3>5. received[Len(c)].id = c[Len(c)].id
      BY <2>1, <3>2, <3>4
    <3> QED BY <1>2, <3>1, <3>4, <3>5 DEF Last
  <2> QED BY <1>2, <2>2, <2>3 DEF OrdinalsNameWhatWasReceived
<1> QED BY <1>3, <1>4

-----------------------------------------------------------------------------
(* The steps                                                                 *)

LEMMA ReadTasksKeeps ==
  ASSUME FollowUpsIInv, NEW status, ReadTasks(status)
  PROVE  FollowUpsIInv'
<1>1. PICK l : l = Only(AllRecords, {r \in Range(AllRecords) :
                                   status = "all" \/ r.closed = (status = "completed")})
  OBVIOUS
<1>2. IsList(l)
  BY <1>1, AllRecordsIsList, OnlyIsList DEF FollowUpsIInv
<1> QED BY <1>1, <1>2, ListsKeeps DEF ReadTasks

LEMMA WithinIsList ==
  ASSUME known \in Nat, NEW window
  PROVE  IsList(Within(AllRecords, window))
BY AllRecordsIsList, OnlyIsList DEF Within

LEMMA ReadTasksDueKeeps ==
  ASSUME FollowUpsIInv, NEW completed, NEW window, ReadTasksDue(completed, window)
  PROVE  FollowUpsIInv'
<1> DEFINE asked == {r \in Range(AllRecords) : r.id \in DatedRecords /\ r.closed = completed}
<1>1. PICK w : w = Only(Within(AllRecords, window), asked)
  OBVIOUS
<1>2. IsList(w)
  BY <1>1, WithinIsList, OnlyIsList DEF FollowUpsIInv
<1>3. PICK l : l = Sorted(w, Earlier(w))
  OBVIOUS
<1>4. IsList(l)
  BY <1>2, <1>3, SortedIsList
<1>5. Lists(l) /\ collection = "tasks"
  BY <1>1, <1>3 DEF ReadTasksDue
<1> QED BY <1>4, <1>5, ListsKeeps

LEMMA ReadChoresKeeps ==
  ASSUME FollowUpsIInv, NEW completed, ReadChores(completed)
  PROVE  FollowUpsIInv'
<1>1. PICK l : l = Only(AllRecords, {r \in Range(AllRecords) : r.closed = completed})
  OBVIOUS
<1>2. IsList(l)
  BY <1>1, AllRecordsIsList, OnlyIsList DEF FollowUpsIInv
<1> QED BY <1>1, <1>2, ListsKeeps DEF ReadChores

LEMMA ReadObligationsKeeps ==
  ASSUME FollowUpsIInv, ReadObligations
  PROVE  FollowUpsIInv'
<1>1. PICK l : l = AllRecords
  OBVIOUS
<1>2. IsList(l)
  BY <1>1, AllRecordsIsList DEF FollowUpsIInv
<1> QED BY <1>1, <1>2, ListsKeeps DEF ReadObligations

LEMMA NeededIsList == known \in Nat => IsList(Needed)
BY AllRecordsIsList, OnlyIsList DEF Needed

LEMMA ReadGroceriesKeeps ==
  ASSUME FollowUpsIInv, ReadGroceries
  PROVE  FollowUpsIInv'
<1>1. PICK l : l = Needed
  OBVIOUS
<1>2. IsList(l)
  BY <1>1, NeededIsList DEF FollowUpsIInv
<1> QED BY <1>1, <1>2, ListsKeeps DEF ReadGroceries

LEMMA ReadEventsKeeps ==
  ASSUME FollowUpsIInv, ReadEvents
  PROVE  FollowUpsIInv'
<1>1. PICK l : l = AllRecords
  OBVIOUS
<1>2. IsList(l)
  BY <1>1, AllRecordsIsList DEF FollowUpsIInv
<1> QED BY <1>1, <1>2, ListsKeeps DEF ReadEvents

LEMMA ReadEventsWithinKeeps ==
  ASSUME FollowUpsIInv, NEW window, ReadEventsWithin(window)
  PROVE  FollowUpsIInv'
<1>1. PICK l : l = Within(AllRecords, window)
  OBVIOUS
<1>2. IsList(l)
  BY <1>1, WithinIsList DEF FollowUpsIInv
<1> QED BY <1>1, <1>2, ListsKeeps DEF ReadEventsWithin

LEMMA AskTaskOrdinalKeeps ==
  ASSUME FollowUpsIInv, NEW n, AskTaskOrdinal(n)
  PROVE  FollowUpsIInv'
<1>1. PICK l : l = AllRecords
  OBVIOUS
<1>2. IsList(l)
  BY <1>1, AllRecordsIsList DEF FollowUpsIInv
<1>3. reference' = NoReference /\ ReadsRecords
  BY DEF AskTaskOrdinal
<1>4. CASE BlockedFollowUp /\ UNCHANGED received
  BY <1>3, <1>4, BlockedKeeps
<1>5. CASE \E focus : Unshown(l, focus)
  BY <1>2, <1>3, <1>5, UnshownKeeps
<1> QED BY <1>1, <1>4, <1>5 DEF AskTaskOrdinal

LEMMA AskTaskPriorityKeeps ==
  ASSUME FollowUpsIInv, NEW latest, NEW window, AskTaskPriority(latest, window)
  PROVE  FollowUpsIInv'
<1>1. PICK l : l = Only(Within(AllRecords, window), UrgentOf(AllRecords))
  OBVIOUS
<1>2. IsList(l)
  BY <1>1, WithinIsList, OnlyIsList DEF FollowUpsIInv
<1>3. reference' = NoReference /\ ReadsRecords
  BY DEF AskTaskPriority
<1>4. CASE BlockedFollowUp /\ UNCHANGED received
  BY <1>3, <1>4, BlockedKeeps
<1>5. CASE \E focus : Unshown(l, focus)
  BY <1>2, <1>3, <1>5, UnshownKeeps
<1> QED BY <1>1, <1>4, <1>5 DEF AskTaskPriority

LEMMA AskObligationOrdinalKeeps ==
  ASSUME FollowUpsIInv, NEW n, AskObligationOrdinal(n)
  PROVE  FollowUpsIInv'
<1>1. PICK l : l = Displayed(AllRecords)
  OBVIOUS
<1>2. IsList(l)
  BY <1>1, AllRecordsIsList, OnlyIsList DEF FollowUpsIInv, Displayed
<1>3. reference' = NoReference /\ ReadsRecords
  BY DEF AskObligationOrdinal
<1>4. CASE BlockedFollowUp /\ UNCHANGED received
  BY <1>3, <1>4, BlockedKeeps
<1>5. CASE \E focus : Unshown(l, focus)
  BY <1>2, <1>3, <1>5, UnshownKeeps
<1> QED BY <1>1, <1>4, <1>5 DEF AskObligationOrdinal

LEMMA AskChoreOrdinalKeeps ==
  ASSUME FollowUpsIInv, AskChoreOrdinal
  PROVE  FollowUpsIInv'
<1>1. /\ reference' = NoReference /\ ReadsRecords /\ UNCHANGED received
      /\ BlockedFollowUp \/ prior' = Bare \/ \E focus : Scalar(focus)
  BY DEF AskChoreOrdinal
<1> QED BY <1>1, BlockedKeeps, ScalarKeeps DEF ReadsRecords

LEMMA AskObligationKeeps ==
  ASSUME FollowUpsIInv, NEW id, AskObligation(id)
  PROVE  FollowUpsIInv'
<1>1. /\ reference' = NoReference /\ ReadsRecords /\ UNCHANGED received
      /\ BlockedFollowUp \/ prior' = Bare \/ \E focus : Scalar(focus)
  BY DEF AskObligation
<1> QED BY <1>1, BlockedKeeps, ScalarKeeps DEF ReadsRecords

LEMMA AskOwedKeeps ==
  ASSUME FollowUpsIInv, AskOwed
  PROVE  FollowUpsIInv'
<1>1. /\ reference' = NoReference /\ ReadsRecords /\ UNCHANGED received
      /\ BlockedFollowUp \/ prior' = Bare \/ \E focus : Scalar(focus)
  BY DEF AskOwed
<1> QED BY <1>1, BlockedKeeps, ScalarKeeps DEF ReadsRecords

LEMMA AskPurchasedKeeps ==
  ASSUME FollowUpsIInv, NEW id, AskPurchased(id)
  PROVE  FollowUpsIInv'
<1>1. /\ reference' = NoReference /\ ReadsRecords /\ UNCHANGED received
      /\ BlockedFollowUp \/ prior' = Bare \/ \E focus : Scalar(focus)
  BY DEF AskPurchased
<1> QED BY <1>1, BlockedKeeps, ScalarKeeps DEF ReadsRecords

LEMMA AskGroceryOrderKeeps ==
  ASSUME FollowUpsIInv, AskGroceryOrder
  PROVE  FollowUpsIInv'
<1>1. /\ reference' = NoReference /\ ReadsRecords /\ UNCHANGED received
      /\ BlockedFollowUp \/ prior' = Bare \/ \E focus : Scalar(focus)
  BY DEF AskGroceryOrder
<1> QED BY <1>1, BlockedKeeps, ScalarKeeps DEF ReadsRecords

LEMMA AskEventPriorityKeeps ==
  ASSUME FollowUpsIInv, NEW latest, AskEventPriority(latest)
  PROVE  FollowUpsIInv'
<1>1. /\ reference' = NoReference /\ ReadsRecords /\ UNCHANGED received
      /\ BlockedFollowUp \/ prior' = Bare \/ \E focus : Scalar(focus)
  BY DEF AskEventPriority
<1> QED BY <1>1, BlockedKeeps, ScalarKeeps DEF ReadsRecords

LEMMA AskEventNextKeeps ==
  ASSUME FollowUpsIInv, AskEventNext
  PROVE  FollowUpsIInv'
<1>1. /\ reference' = NoReference /\ ReadsRecords /\ UNCHANGED received
      /\ BlockedFollowUp \/ prior' = Bare \/ \E focus : Scalar(focus)
  BY DEF AskEventNext
<1> QED BY <1>1, BlockedKeeps, ScalarKeeps DEF ReadsRecords

LEMMA ReadTasksDueThenKeeps ==
  ASSUME FollowUpsIInv, NEW window, ReadTasksDueThen(window)
  PROVE  FollowUpsIInv'
BY ReadTasksDueKeeps DEF ReadTasksDueThen

LEMMA ReadEventsThenKeeps ==
  ASSUME FollowUpsIInv, NEW window, ReadEventsThen(window)
  PROVE  FollowUpsIInv'
BY ReadEventsWithinKeeps DEF ReadEventsThen

LEMMA ListedGroceriesKeep ==
  ASSUME FollowUpsIInv, ReadMembership \/ ReadQuantity \/ ReadGroceriesAgain
  PROVE  FollowUpsIInv'
BY ReadGroceriesKeeps DEF ReadMembership, ReadQuantity, ReadGroceriesAgain

LEMMA ReadUniqueKeeps ==
  ASSUME FollowUpsIInv, ReadUnique
  PROVE  FollowUpsIInv'
<1>1. PICK c : c = Candidates(prior.list)
  OBVIOUS
<1>2. IsList(c)
  BY <1>1, CandidatesAre DEF FollowUpsIInv, PriorIsList
<1>3. /\ received' = c /\ prior' = [list |-> c, focus |-> NoFocus, by |-> "follow-up"]
      /\ reference' = NoReference /\ UNCHANGED known
  BY <1>1 DEF ReadUnique, Result, ReadsRecords
<1> QED BY <1>2, <1>3, ShowsKeeps

LEMMA ReadRemainingKeeps ==
  ASSUME FollowUpsIInv, ReadRemaining
  PROVE  FollowUpsIInv'
<1>1. PICK c : c = Candidates(prior.list)
  OBVIOUS
<1>2. IsList(c)
  BY <1>1, CandidatesAre DEF FollowUpsIInv, PriorIsList
<1>3. PICK l : l = Only(c, OpenOf(c))
  OBVIOUS
<1>4. IsList(l)
  BY <1>2, <1>3, OnlyIsList
<1>5. /\ received' = l /\ prior' = [list |-> l, focus |-> NoFocus, by |-> "follow-up"]
      /\ reference' = NoReference /\ UNCHANGED known
  BY <1>1, <1>3 DEF ReadRemaining, Result, ReadsRecords
<1> QED BY <1>4, <1>5, ShowsKeeps

LEMMA ReadAgainKeeps ==
  ASSUME FollowUpsIInv, ReadAgain
  PROVE  FollowUpsIInv'
<1>1. PICK c : c = Candidates(prior.list)
  OBVIOUS
<1>2. IsList(c)
  BY <1>1, CandidatesAre DEF FollowUpsIInv, PriorIsList
<1>3. PICK l : l = [i \in DOMAIN c |-> ShownAs(c[i].id)]
  OBVIOUS
<1>4. IsList(l)
  <2>1. l \in Seq({l[i] : i \in DOMAIN c}) /\ DOMAIN c = 1..Len(c) /\ Len(c) \in Nat
    BY <1>2, <1>3 DEF IsList
  <2> QED BY <2>1, IsListIs
<1>5. /\ received' = l /\ prior' = [list |-> l, focus |-> NoFocus, by |-> "follow-up"]
      /\ reference' = NoReference /\ UNCHANGED known
  BY <1>1, <1>3 DEF ReadAgain, Result, ReadsRecords
<1> QED BY <1>4, <1>5, ShowsKeeps

LEMMA ReadOrdinalKeeps ==
  ASSUME FollowUpsIInv, NEW n \in Ordinals, ReadOrdinal(n)
  PROVE  FollowUpsIInv'
<1>1. PICK c : c = Candidates(prior.list)
  OBVIOUS
<1>2. ReadsRecords /\ UNCHANGED received /\ prior.list # <<>>
  BY DEF ReadOrdinal
<1>3. CASE PlaceOf(n, c) \in DOMAIN c
  <2>1. reference' = [ordinal |-> n, record |-> c[PlaceOf(n, c)].id, of |-> received]
    BY <1>1, <1>3 DEF ReadOrdinal
  <2>2. \E focus : Result(Candidates(prior.list), focus)
    BY <1>1, <1>3 DEF ReadOrdinal
  <2>3. OrdinalsNameWhatWasReceived'
    BY <1>1, <1>2, <1>3, <2>1, OrdinalIsNamed DEF ReadsRecords
  <2> QED BY <1>2, <2>2, <2>3, ResultKeeps
<1>4. CASE PlaceOf(n, c) \notin DOMAIN c
  <2>1. BlockedFollowUp /\ reference' = NoReference
    BY <1>1, <1>4 DEF ReadOrdinal
  <2> QED BY <1>2, <2>1, BlockedKeeps
<1> QED BY <1>3, <1>4

LEMMA ReadNeighbourKeeps ==
  ASSUME FollowUpsIInv, NEW offset, ReadNeighbour(offset)
  PROVE  FollowUpsIInv'
<1>1. /\ reference' = NoReference /\ ReadsRecords /\ UNCHANGED received
      /\ BlockedFollowUp \/ \E focus : Result(Candidates(prior.list), focus)
  BY DEF ReadNeighbour
<1> QED BY <1>1, BlockedKeeps, ResultKeeps, NothingReferred

LEMMA ReadOtherKeeps ==
  ASSUME FollowUpsIInv, ReadOther
  PROVE  FollowUpsIInv'
<1>1. /\ reference' = NoReference /\ ReadsRecords /\ UNCHANGED received
      /\ BlockedFollowUp \/ \E focus : Result(Candidates(prior.list), focus)
  BY DEF ReadOther
<1> QED BY <1>1, BlockedKeeps, ResultKeeps, NothingReferred

LEMMA ReadTaskPriorityKeeps ==
  ASSUME FollowUpsIInv, NEW latest, ReadTaskPriority(latest)
  PROVE  FollowUpsIInv'
<1>1. /\ reference' = NoReference /\ ReadsRecords /\ UNCHANGED received
      /\ BlockedFollowUp \/ \E focus : Result(Candidates(prior.list), focus)
  BY DEF ReadTaskPriority
<1> QED BY <1>1, BlockedKeeps, ResultKeeps, NothingReferred

LEMMA ReadChorePriorityKeeps ==
  ASSUME FollowUpsIInv, ReadChorePriority
  PROVE  FollowUpsIInv'
<1>1. /\ reference' = NoReference /\ ReadsRecords /\ UNCHANGED received
      /\ BlockedFollowUp \/ \E focus : Result(Candidates(prior.list), focus)
  BY DEF ReadChorePriority
<1> QED BY <1>1, BlockedKeeps, ResultKeeps, NothingReferred


LEMMA EventFactsIsList ==
  ASSUME FollowUpsIInv
  PROVE  IsList(EventFacts)
<1>1. IsList(Compact(prior.list)) /\ IsList(Candidates(prior.list))
  BY CompactIsList, CandidatesAre DEF FollowUpsIInv, PriorIsList
<1>2. ASSUME NEW l, IsList(l) PROVE IsList(Unidentified(l))
  <2>1. /\ Unidentified(l) \in Seq({Unidentified(l)[i] : i \in DOMAIN l})
        /\ DOMAIN l = 1..Len(l) /\ Len(l) \in Nat
    BY <1>2 DEF IsList, Unidentified
  <2> QED BY <2>1, IsListIs
<1> QED BY <1>1, <1>2 DEF EventFacts

LEMMA AnswerEventKeeps ==
  ASSUME FollowUpsIInv, NEW event, AnswerEvent(event), reference' = NoReference, ReadsRecords
  PROVE  FollowUpsIInv'
<1>1. PICK l : l = EventFacts
  OBVIOUS
<1>2. IsList(l)
  BY <1>1, EventFactsIsList
<1> QED BY <1>1, <1>2, HidesKeeps DEF AnswerEvent, ReadsRecords

LEMMA ReadEventPriorityKeeps ==
  ASSUME FollowUpsIInv, NEW latest, ReadEventPriority(latest)
  PROVE  FollowUpsIInv'
BY AnswerEventKeeps DEF ReadEventPriority

LEMMA ReadEventNextKeeps ==
  ASSUME FollowUpsIInv, ReadEventNext
  PROVE  FollowUpsIInv'
<1>1. /\ reference' = NoReference /\ ReadsRecords
      /\ (BlockedFollowUp /\ UNCHANGED received) \/ \E event : AnswerEvent(event)
  BY DEF ReadEventNext
<1> QED BY <1>1, BlockedKeeps, AnswerEventKeeps

LEMMA ReadEventRelativeKeeps ==
  ASSUME FollowUpsIInv, NEW earlier, ReadEventRelative(earlier)
  PROVE  FollowUpsIInv'
<1>1. /\ reference' = NoReference /\ ReadsRecords /\ UNCHANGED received
      /\ BlockedFollowUp \/ prior' = Bare \/ \E focus : Scalar(focus)
  BY DEF ReadEventRelative
<1> QED BY <1>1, BlockedKeeps, ScalarKeeps DEF ReadsRecords

LEMMA ReadAmbiguousEventKeeps ==
  ASSUME FollowUpsIInv, ReadAmbiguousEvent
  PROVE  FollowUpsIInv'
<1>1. /\ reference' = NoReference /\ ReadsRecords /\ UNCHANGED received
      /\ BlockedFollowUp \/ prior' = Bare \/ \E focus : Scalar(focus)
  BY DEF ReadAmbiguousEvent
<1> QED BY <1>1, BlockedKeeps, ScalarKeeps DEF ReadsRecords

LEMMA ReadFocusKeeps ==
  ASSUME FollowUpsIInv, ReadFocus
  PROVE  FollowUpsIInv'
<1>1. /\ reference' = NoReference /\ ReadsRecords /\ UNCHANGED received
      /\ BlockedFollowUp \/ prior' = Bare \/ \E focus : Scalar(focus)
  BY DEF ReadFocus
<1> QED BY <1>1, BlockedKeeps, ScalarKeeps DEF ReadsRecords

LEMMA CompleteOrdinalKeeps ==
  ASSUME FollowUpsIInv, NEW n \in Ordinals, CompleteOrdinal(n)
  PROVE  FollowUpsIInv'
<1>1. PICK c : c = Candidates(prior.list)
  OBVIOUS
<1>2. /\ UNCHANGED <<collection, known, received>> /\ prior.list # <<>>
      /\ collection # "obligations"
  BY DEF CompleteOrdinal
<1>3. CASE PlaceOf(n, c) \in DOMAIN c /\ Completable(c[PlaceOf(n, c)].id)
  <2>1. /\ reference' = [ordinal |-> n, record |-> c[PlaceOf(n, c)].id, of |-> received]
        /\ prior' = Bare
    BY <1>1, <1>3 DEF CompleteOrdinal
  <2>2. OrdinalsNameWhatWasReceived'
    BY <1>1, <1>2, <1>3, <2>1, OrdinalIsNamed
  <2> QED BY <1>2, <2>1, <2>2, ForgetsKeeps DEF Bare
<1>4. CASE ~ (PlaceOf(n, c) \in DOMAIN c /\ Completable(c[PlaceOf(n, c)].id))
  <2>1. BlockedFollowUp /\ reference' = NoReference /\ UNCHANGED closedNow
    BY <1>1, <1>4 DEF CompleteOrdinal
  <2> QED BY <1>2, <2>1, BlockedKeeps DEF ReadsRecords
<1> QED BY <1>3, <1>4

LEMMA CompleteFocusKeeps ==
  ASSUME FollowUpsIInv, CompleteFocus
  PROVE  FollowUpsIInv'
BY ScalarKeeps DEF CompleteFocus

\* other conversations leave the obligations as they are
LEMMA OthersKeep ==
  ASSUME FollowUpsIInv, OthersCreate \/ OthersClose
  PROVE  FollowUpsIInv'
<1>1. /\ collection # "obligations" /\ known' \in Nat
      /\ UNCHANGED <<collection, received, prior, reference>>
  BY DEF OthersCreate, OthersClose, FollowUpsIInv
<1>2. IsList(received') /\ PriorIsList'
  BY <1>1 DEF FollowUpsIInv, PriorIsList
<1>3. Agrees(received, prior.list)'
  BY <1>1 DEF FollowUpsIInv, Agrees
<1>4. OrdinalsNameWhatWasReceived'
  BY <1>1 DEF FollowUpsIInv, OrdinalsNameWhatWasReceived
<1> QED BY <1>1, <1>2, <1>3, <1>4 DEF FollowUpsIInv

LEMMA StutteringKeeps ==
  ASSUME FollowUpsIInv, UNCHANGED followUpVars
  PROVE  FollowUpsIInv'
BY DEF followUpVars, FollowUpsIInv, PriorIsList, Agrees, OrdinalsNameWhatWasReceived

LEMMA InitIsFollowUpsIInv == FollowUpsInit => FollowUpsIInv
<1> SUFFICES ASSUME FollowUpsInit PROVE FollowUpsIInv
  OBVIOUS
<1>1. known \in Nat /\ received = <<>> /\ IsList(<<>>)
  BY FollowUpsAssumption DEF FollowUpsInit, IsList, Range
<1>2. prior.list = <<>> /\ prior = [list |-> prior.list, focus |-> prior.focus, by |-> prior.by]
  BY DEF FollowUpsInit, Bare
<1>3. OrdinalsNameWhatWasReceived
  BY DEF FollowUpsInit, NoReference, OrdinalsNameWhatWasReceived
<1> QED BY <1>1, <1>2, <1>3 DEF FollowUpsIInv, PriorIsList, Agrees

LEMMA FollowUpsStepKeeps ==
  ASSUME FollowUpsIInv, FollowUpsNext
  PROVE  FollowUpsIInv'
<1>1. CASE \/ ReadObligations \/ ReadEvents \/ AskChoreOrdinal \/ AskEventNext
           \/ \E status \in {"all", "open", "completed"} : ReadTasks(status)
           \/ \E completed \in BOOLEAN : ReadChores(completed)
           \/ \E completed \in BOOLEAN, window \in Windows : ReadTasksDue(completed, window)
           \/ \E window \in Windows :
                ReadEventsWithin(window) \/ ReadTasksDueThen(window) \/ ReadEventsThen(window)
  BY <1>1, ReadObligationsKeeps, ReadEventsKeeps, AskChoreOrdinalKeeps, AskEventNextKeeps,
     ReadTasksKeeps, ReadChoresKeeps, ReadTasksDueKeeps, ReadEventsWithinKeeps,
     ReadTasksDueThenKeeps, ReadEventsThenKeeps
<1>2. CASE \/ \E latest \in BOOLEAN : AskEventPriority(latest)
           \/ \E latest \in BOOLEAN, window \in Windows : AskTaskPriority(latest, window)
           \/ \E n \in Ordinals : AskTaskOrdinal(n) \/ AskObligationOrdinal(n)
  BY <1>2, AskEventPriorityKeeps, AskTaskPriorityKeeps, AskTaskOrdinalKeeps,
     AskObligationOrdinalKeeps
<1>3. CASE \/ ReadGroceries \/ ReadGroceriesAgain \/ ReadMembership \/ ReadQuantity \/ ReadUnique
           \/ AskOwed \/ AskGroceryOrder
           \/ \E id \in 1..known : AskObligation(id) \/ AskPurchased(id)
  BY <1>3, ReadGroceriesKeeps, ListedGroceriesKeep, ReadUniqueKeeps, AskOwedKeeps,
     AskGroceryOrderKeeps, AskObligationKeeps, AskPurchasedKeeps
<1>4. CASE \/ ReadRemaining \/ ReadAgain \/ ReadOther \/ CompleteFocus
           \/ ReadTaskFocus \/ ReadObligationFocus \/ ReadChoreFocus \/ ReadEventFocus
           \/ ReadChorePriority \/ ReadEventNext \/ ReadAmbiguousEvent
  BY <1>4, ReadRemainingKeeps, ReadAgainKeeps, ReadOtherKeeps, CompleteFocusKeeps,
     ReadFocusKeeps, ReadChorePriorityKeeps, ReadEventNextKeeps, ReadAmbiguousEventKeeps
     DEF ReadTaskFocus, ReadObligationFocus, ReadChoreFocus, ReadEventFocus
<1>5. CASE \/ \E latest \in BOOLEAN : ReadTaskPriority(latest) \/ ReadEventPriority(latest)
           \/ \E earlier \in BOOLEAN : ReadEventRelative(earlier)
           \/ \E n \in Ordinals : ReadOrdinal(n) \/ CompleteOrdinal(n)
           \/ \E offset \in {"next", "before", "after"} : ReadNeighbour(offset)
           \/ OthersCreate \/ OthersClose
  BY <1>5, ReadTaskPriorityKeeps, ReadEventPriorityKeeps, ReadEventRelativeKeeps,
     ReadOrdinalKeeps, CompleteOrdinalKeeps, ReadNeighbourKeeps, OthersKeep
<1> QED BY <1>1, <1>2, <1>3, <1>4, <1>5 DEF FollowUpsNext

\* Whatever is asked and whatever others do meanwhile, the evidence that a follow-up refers
\* to agrees, up to the limit, with the list that the owner received last: every resolver
\* hands on the list it shows, candidates cut from its beginning, or no list, or shows none.
THEOREM FollowUpsInvariance == FollowUpsSpec => []FollowUpsIInv
<1>1. FollowUpsIInv /\ [FollowUpsNext]_followUpVars => FollowUpsIInv'
  BY FollowUpsStepKeeps, StutteringKeeps
<1> QED BY <1>1, InitIsFollowUpsIInv, PTL DEF FollowUpsSpec

\* "Ordinals refer to the list the owner just received" (interaction_context.py:422), for
\* lists of any length and any limit, with the exceptions the property names.
THEOREM OrdinalsNameTheListReceived == FollowUpsSpec => []OrdinalsNameWhatWasReceived
<1>1. FollowUpsIInv => OrdinalsNameWhatWasReceived
  BY DEF FollowUpsIInv
<1> QED BY <1>1, FollowUpsInvariance, PTL

-----------------------------------------------------------------------------
(* Sorting                                                                   *)

\* before[t] is what comes before t: a strict order in which what is not ordered is equal
WeakOrder(list, before) ==
  \A r, s, t \in Range(list) :
    /\ r \notin before[r]
    /\ r \in before[s] /\ s \in before[t] => r \in before[t]
    /\ r \in before[t] => r \in before[s] \/ s \in before[t]

\* as in Sorted: the record at j precedes that at i, and where the one at i is put
Precedes(list, before, j, i) ==
  list[j] \in before[list[i]] \/ (j < i /\ list[i] \notin before[list[j]])
Preceding(list, before, i) == {j \in DOMAIN list : Precedes(list, before, j, i)}
PlaceIn(list, before, i) == Cardinality(Preceding(list, before, i)) + 1

\* of two places one precedes the other, and never both
LEMMA PrecedesOrders ==
  ASSUME NEW list, IsList(list), NEW before, WeakOrder(list, before)
  PROVE  /\ \A i \in DOMAIN list : ~ Precedes(list, before, i, i)
         /\ \A i, j \in DOMAIN list :
              i # j => Precedes(list, before, i, j) \/ Precedes(list, before, j, i)
         /\ \A i, j, k \in DOMAIN list :
              Precedes(list, before, k, j) /\ Precedes(list, before, j, i)
                => Precedes(list, before, k, i)
<1>1. DOMAIN list \subseteq Nat
  BY DEF IsList
<1>2. \A i \in DOMAIN list : list[i] \in Range(list)
  BY DEF Range
<1> DEFINE P(j, i) == list[j] \in before[list[i]]
<1>3. \A i, j, k \in DOMAIN list :
        /\ ~ P(i, i)
        /\ P(k, j) /\ P(j, i) => P(k, i)
        /\ P(k, i) => P(k, j) \/ P(j, i)
  BY <1>2 DEF WeakOrder
<1>4. \A j, i : Precedes(list, before, j, i) <=> P(j, i) \/ (j < i /\ ~ P(i, j))
  BY DEF Precedes
<1> HIDE DEF P
<1>5. \A i, j \in DOMAIN list :
        i # j => Precedes(list, before, i, j) \/ Precedes(list, before, j, i)
  BY <1>1, <1>4
<1>6. ASSUME NEW i \in DOMAIN list, NEW j \in DOMAIN list, NEW k \in DOMAIN list,
             Precedes(list, before, k, j), Precedes(list, before, j, i)
      PROVE  Precedes(list, before, k, i)
  BY <1>1, <1>3, <1>4, <1>6
<1>7. \A i \in DOMAIN list : ~ Precedes(list, before, i, i)
  BY <1>1, <1>3, <1>4
<1> QED BY <1>5, <1>6, <1>7

\* what precedes is put at an earlier place
LEMMA PlacesFollowOrder ==
  ASSUME NEW list, IsList(list), NEW before, WeakOrder(list, before),
         NEW i \in DOMAIN list, NEW j \in DOMAIN list, Precedes(list, before, j, i)
  PROVE  PlaceIn(list, before, j) < PlaceIn(list, before, i)
<1> DEFINE A == Preceding(list, before, j)
<1> DEFINE B == Preceding(list, before, i)
<1>1. A \subseteq B /\ j \in B /\ j \notin A
  BY PrecedesOrders DEF Preceding
<1>2. IsFiniteSet(DOMAIN list)
  BY FS_Interval DEF IsList
<1>3. IsFiniteSet(B)
  BY <1>2, FS_Subset DEF Preceding
<1> HIDE DEF A, B
<1>4. IsFiniteSet(A) /\ Cardinality(A) <= Cardinality(B) /\ Cardinality(A) # Cardinality(B)
  BY <1>1, <1>3, FS_Subset
<1>5. Cardinality(A) \in Nat /\ Cardinality(B) \in Nat
  BY <1>3, <1>4, FS_CardinalityType
<1>6. Cardinality(A) + 1 < Cardinality(B) + 1
  BY <1>4, <1>5
<1> QED BY <1>6 DEF A, B, PlaceIn

LEMMA PlaceIsInList ==
  ASSUME NEW list, IsList(list), NEW before, WeakOrder(list, before), NEW i \in DOMAIN list
  PROVE  PlaceIn(list, before, i) \in DOMAIN list
<1> DEFINE A == Preceding(list, before, i)
<1>1. Len(list) \in Nat /\ DOMAIN list = 1..Len(list)
  BY DEF IsList
<1>2. IsFiniteSet(DOMAIN list) /\ Cardinality(DOMAIN list) = Len(list)
  <2>1. \A n \in Nat : IsFiniteSet(1..n) /\ Cardinality(1..n) = IF 1 > n THEN 0 ELSE n - 1 + 1
    BY FS_Interval
  <2>2. IsFiniteSet(1..Len(list)) /\ Cardinality(1..Len(list)) = Len(list)
    BY <1>1, <2>1
  <2> QED BY <1>1, <2>2
<1>3. A \subseteq DOMAIN list /\ i \notin A
  BY PrecedesOrders DEF Preceding
<1> HIDE DEF A
<1>4. IsFiniteSet(A) /\ Cardinality(A) <= Len(list) /\ Cardinality(A) # Len(list)
  BY <1>2, <1>3, FS_Subset
<1>5. Cardinality(A) \in Nat
  BY <1>4, FS_CardinalityType
<1>6. Cardinality(A) + 1 \in 1..Len(list)
  BY <1>1, <1>4, <1>5
<1> QED BY <1>1, <1>6 DEF A, PlaceIn

\* What a context gives in an order, sorted() of compact_context_evidence, is each record of the
\* list again, once for each time it is in it, and in that order: what stands earlier
\* comes before what stands later, and equal records keep their places.
THEOREM SortingIsStable ==
  ASSUME NEW list, IsList(list), NEW before, WeakOrder(list, before)
  PROVE  \E p \in Bijection(DOMAIN list, DOMAIN list) :
           /\ Sorted(list, before) = [n \in DOMAIN list |-> list[p[n]]]
           /\ \A m, n \in DOMAIN list : m < n => Precedes(list, before, p[m], p[n])
<1> DEFINE D == DOMAIN list
<1> DEFINE place == [i \in D |-> PlaceIn(list, before, i)]
<1> DEFINE p == [n \in D |-> CHOOSE i \in D : PlaceIn(list, before, i) = n]
<1>1. D \subseteq Nat /\ IsFiniteSet(D)
  BY FS_Interval DEF IsList
<1>2. place \in [D -> D]
  BY PlaceIsInList
<1>3. \A i, j \in D : Precedes(list, before, j, i) => place[j] < place[i]
  BY PlacesFollowOrder
<1>4. Sorted(list, before) = [n \in D |-> list[p[n]]]
  BY DEF Sorted, PlaceIn, Preceding, Precedes
<1> HIDE DEF place, D
<1>5. \A i, j \in D : place[i] = place[j] => i = j
  <2>1. SUFFICES ASSUME NEW i \in D, NEW j \in D, i # j PROVE place[i] # place[j]
    OBVIOUS
  <2>2. Precedes(list, before, i, j) \/ Precedes(list, before, j, i)
    BY <2>1, PrecedesOrders DEF D
  <2>3. place[i] \in Nat /\ place[j] \in Nat
    BY <1>1, <1>2
  <2> QED BY <1>3, <2>2, <2>3
<1>6. place \in Surjection(D, D)
  <2>1. place \in Injection(D, D)
    BY <1>2, <1>5 DEF Injection, IsInjective
  <2> QED BY <1>1, <2>1, FS_Injection
<1>7. \A n \in D : p[n] \in D /\ place[p[n]] = n
  BY <1>6 DEF Surjection, place
<1>8. p \in [D -> D]
  <2>1. p = [n \in D |-> p[n]]
    OBVIOUS
  <2> HIDE DEF p
  <2> QED BY <1>7, <2>1
<1> HIDE DEF p
<1>9. p \in Bijection(D, D)
  <2>1. \A m, n \in D : p[m] = p[n] => m = n
    BY <1>7
  <2>2. \A i \in D : p[place[i]] = i
    BY <1>2, <1>5, <1>7
  <2>3. p \in Injection(D, D)
    BY <1>8, <2>1 DEF Injection, IsInjective
  <2>4. p \in Surjection(D, D)
    BY <1>2, <1>8, <2>2 DEF Surjection
  <2> QED BY <2>3, <2>4 DEF Bijection
<1>10. ASSUME NEW m \in D, NEW n \in D, m < n PROVE Precedes(list, before, p[m], p[n])
  <2>1. p[m] \in D /\ p[n] \in D /\ place[p[m]] = m /\ place[p[n]] = n /\ m # n
    BY <1>1, <1>7, <1>10
  <2>2. ASSUME Precedes(list, before, p[n], p[m]) PROVE FALSE
    <3>1. place[p[n]] < place[p[m]]
      BY <1>3, <2>1, <2>2
    <3>2. n < m /\ m \in Nat /\ n \in Nat
      BY <1>1, <2>1, <3>1
    <3> QED BY <1>10, <3>2
  <2> QED BY <2>1, <2>2, PrecedesOrders DEF D
<1> QED BY <1>4, <1>9, <1>10 DEF D

-----------------------------------------------------------------------------
(* The types of a conversation: each record that a list, the evidence or the last
   ordinal names is one of those there are.                                  *)

ShownOf(k) == [id : 1..k, closed : BOOLEAN, identified : BOOLEAN]
PriorOf(k) == [list : Seq(ShownOf(k)), focus : ShownOf(k) \cup {NoFocus},
                by : {"list", "follow-up", "question", "none"}]

FollowUpsTyped ==
  /\ collection \in Collections /\ known \in RecordIds /\ closedNow \subseteq 1..known
  /\ received \in Seq(ShownOf(known))
  /\ prior \in PriorOf(known)
  /\ reference.of \in Seq(ShownOf(known))

-----------------------------------------------------------------------------
(* What the operators return                                                 *)

LEMMA OnlyType ==
  ASSUME NEW S, NEW list \in Seq(S), NEW records
  PROVE  Only(list, records) \in Seq(S)
<1>1. Only(list, records) \in Seq(S \cap records)
  BY OnlyIs
<1>2. \A T : Seq(S \cap T) \subseteq Seq(S)
  OBVIOUS
<1> QED BY <1>1, <1>2

\* what is asked for and is in the list is found
LEMMA OnlyFinds ==
  ASSUME NEW S, NEW list \in Seq(S), NEW records, NEW i \in DOMAIN list, list[i] \in records
  PROVE  Only(list, records) # <<>>
<1> DEFINE N == Len(list)
<1>1. N \in Nat /\ i \in 1..N
  OBVIOUS
<1>2. \E f : IsKept(f, list, records, N)
  BY <1>1, KeptExists
<1>3. PICK v : Only(list, records) = v[N] /\ IsKept(v, list, records, N)
  BY <1>2 DEF Only, IsKept
<1>4. ASSUME NEW n \in 1..N
      PROVE  v[n] = IF list[n] \in records THEN Append(v[n - 1], list[n]) ELSE v[n - 1]
  <2>1. n \in 0..N /\ n # 0
    BY <1>1
  <2> QED BY <1>3, <2>1 DEF IsKept
<1>5. ASSUME NEW q, NEW e PROVE Append(q, e) # <<>>
  BY <1>5
<1> DEFINE Bad == {n \in i..N : v[n] = <<>>}
<1>6. ASSUME Bad # {} PROVE FALSE
  <2>1. Bad \subseteq Nat
    BY <1>1
  <2>2. PICK n \in Bad : \A k \in Bad : n <= k
    BY <1>6, <2>1, LeastPlace
  <2>3. n # i
    BY <1>1, <1>4, <1>5, <2>2
  <2>4. n - 1 \in i..N /\ n - 1 \notin Bad /\ n \in 1..N
    BY <1>1, <2>2, <2>3
  <2> QED BY <1>4, <1>5, <2>2, <2>4
<1> QED BY <1>1, <1>3, <1>6

LEMMA SortedType ==
  ASSUME NEW S, NEW list \in Seq(S), NEW before, WeakOrder(list, before)
  PROVE  Sorted(list, before) \in Seq(S) /\ Len(Sorted(list, before)) = Len(list)
<1>1. PICK p \in Bijection(DOMAIN list, DOMAIN list) :
        Sorted(list, before) = [n \in DOMAIN list |-> list[p[n]]]
  BY SortingIsStable, IsListIs
<1>2. DOMAIN list = 1..Len(list) /\ Len(list) \in Nat /\ \A n \in DOMAIN list : list[n] \in S
  OBVIOUS
<1>3. \A n \in DOMAIN list : p[n] \in DOMAIN list
  BY <1>1 DEF Bijection, Injection
<1>4. \A f : f = [n \in 1..Len(list) |-> f[n]] /\ (\A n \in 1..Len(list) : f[n] \in S)
        => f \in Seq(S) /\ Len(f) = Len(list)
  BY <1>2
<1> QED BY <1>1, <1>2, <1>3, <1>4

LEMMA TimesOrder ==
  ASSUME NEW list, \A r \in Range(list) : r.id \in RecordIds
  PROVE  WeakOrder(list, Earlier(list)) /\ WeakOrder(list, Sooner(list))
<1>1. /\ \A r \in Range(list) : TimeOf[r.id] \in Nat
      /\ Present \in Nat
  BY FollowUpsAssumption
<1>2. \A r, t \in Range(list) : r \in Earlier(list)[t] <=> TimeOf[r.id] < TimeOf[t.id]
  BY DEF Earlier
<1>3. \A r, t \in Range(list) :
        r \in Sooner(list)[t] <=> IF TimeOf[r.id] >= Present
                                 THEN TimeOf[t.id] < Present \/ TimeOf[r.id] < TimeOf[t.id]
                                 ELSE TimeOf[t.id] < TimeOf[r.id]
  BY DEF Sooner
<1>4. WeakOrder(list, Earlier(list))
  BY <1>1, <1>2 DEF WeakOrder
<1>5. WeakOrder(list, Sooner(list))
  BY <1>1, <1>3 DEF WeakOrder
<1> QED BY <1>4, <1>5

\* the records there may be have times
LEMMA ShownHaveTimes ==
  ASSUME NEW k \in RecordIds, NEW list \in Seq(ShownOf(k))
  PROVE  /\ \A r \in Range(list) : r.id \in RecordIds
         /\ \A i \in DOMAIN list : list[i] \in ShownOf(k) /\ TimeOf[list[i].id] \in Nat
<1>1. RecordIds \subseteq Nat /\ 1..k \subseteq RecordIds
  BY FollowUpsAssumption DEF RecordIds
<1>2. \A i \in DOMAIN list : list[i] \in ShownOf(k)
  OBVIOUS
<1>3. \A r \in ShownOf(k) : r.id \in RecordIds
  BY <1>1 DEF ShownOf
<1>4. \A id \in RecordIds : TimeOf[id] \in Nat
  BY FollowUpsAssumption
<1> QED BY <1>2, <1>3, <1>4 DEF Range

LEMMA ConcatType ==
  ASSUME NEW S, NEW l \in Seq(S), NEW m \in Seq(S)
  PROVE  l \o m \in Seq(S) /\ Len(l \o m) = Len(l) + Len(m)
OBVIOUS

LEMMA CompactType ==
  ASSUME NEW k \in RecordIds, NEW list \in Seq(ShownOf(k))
  PROVE  Compact(list) \in Seq(ShownOf(k))
<1>1. WeakOrder(list, Sooner(list))
  BY ShownHaveTimes, TimesOrder
<1>2. Sorted(list, Sooner(list)) \in Seq(ShownOf(k))
  BY <1>1, SortedType
<1>3. \A records : Only(list, records) \in Seq(ShownOf(k))
  BY OnlyType
<1>4. Only(list, UrgentOf(list)) \o Only(list, Range(list) \ UrgentOf(list)) \in Seq(ShownOf(k))
  BY <1>3, ConcatType
<1> QED BY <1>2, <1>4 DEF Compact

\* compacting loses no event
LEMMA CompactKeepsEvents ==
  ASSUME NEW k \in RecordIds, NEW list \in Seq(ShownOf(k)), collection = "events", list # <<>>
  PROVE  Compact(list) # <<>>
<1>1. WeakOrder(list, Sooner(list))
  BY ShownHaveTimes, TimesOrder
<1>2. Len(Sorted(list, Sooner(list))) = Len(list)
  BY <1>1, SortedType
<1>3. Len(list) # 0 /\ Len(<<>>) = 0
  OBVIOUS
<1> QED BY <1>2, <1>3 DEF Compact

LEMMA CutType ==
  ASSUME NEW S, NEW list \in Seq(S)
  PROVE  Cut(list) \in Seq(S) /\ (list # <<>> => Cut(list) # <<>>)
<1>1. CandidateLimit \in Nat \ {0} /\ Len(list) \in Nat
  BY FollowUpsAssumption
<1>2. \A m \in 0..Len(list) : SubSeq(list, 1, m) \in Seq(S) /\ Len(SubSeq(list, 1, m)) = m
  BY <1>1
<1>3. PICK m \in 0..Len(list) : Cut(list) = SubSeq(list, 1, m) /\ (list # <<>> => m # 0)
  BY <1>1 DEF Cut
<1>4. Len(<<>>) = 0
  OBVIOUS
<1> QED BY <1>2, <1>3, <1>4

LEMMA CandidatesType ==
  ASSUME NEW k \in RecordIds, NEW list \in Seq(ShownOf(k))
  PROVE  /\ Candidates(list) \in Seq(ShownOf(k))
         /\ list # <<>> => Candidates(list) # <<>>
<1> DEFINE first == Cut(list)
<1> DEFINE late == {r \in Range(list) \ Range(first) :
                      collection = "tasks" /\ r.id \in DatedRecords}
<1> DEFINE tail == Only(Compact(list), late)
<1>1. Candidates(list) = first \o tail
  BY DEF Candidates
<1>2. first \in Seq(ShownOf(k)) /\ (list # <<>> => first # <<>>)
  BY CutType
<1>3. tail \in Seq(ShownOf(k))
  BY CompactType, OnlyType
<1> HIDE DEF first, tail
<1>4. first \o tail \in Seq(ShownOf(k)) /\ Len(first \o tail) = Len(first) + Len(tail)
  BY <1>2, <1>3, ConcatType
<1>5. Len(tail) \in Nat /\ Len(first) \in Nat /\ (first # <<>> => Len(first) # 0) /\ Len(<<>>) = 0
  BY <1>2, <1>3
<1>6. first # <<>> => first \o tail # <<>>
  BY <1>4, <1>5
<1> QED BY <1>1, <1>2, <1>4, <1>6

\* of finitely many times there is a latest
LEMMA GreatestOf ==
  ASSUME NEW N \in Nat, N # 0, NEW t \in [1..N -> Nat]
  PROVE  \E i \in 1..N : \A j \in 1..N : t[i] >= t[j]
<1> DEFINE Has(n) == \E i \in 1..n : \A j \in 1..n : t[i] >= t[j]
<1> DEFINE Bad == {n \in 1..N : ~ Has(n)}
<1>1. Has(1)
  <2>1. \A j \in 1..1 : t[1] >= t[j]
    OBVIOUS
  <2>2. 1 \in 1..1
    OBVIOUS
  <2> QED BY <2>1, <2>2
<1>2. ASSUME NEW n \in 2..N, Has(n - 1) PROVE Has(n)
  <2>1. PICK i \in 1..(n - 1) : \A j \in 1..(n - 1) : t[i] >= t[j]
    BY <1>2
  <2>2. \A j \in 1..n : j = n \/ j \in 1..(n - 1)
    OBVIOUS
  <2>3. i \in 1..n /\ n \in 1..n /\ \A j \in 1..n : t[j] \in Nat
    OBVIOUS
  <2>4. CASE t[i] >= t[n]
    <3>1. \A j \in 1..n : t[i] >= t[j]
      BY <2>1, <2>2, <2>4
    <3> QED BY <2>3, <3>1
  <2>5. CASE ~ t[i] >= t[n]
    <3>1. \A j \in 1..n : t[n] >= t[j]
      <4>1. t[i] \in Nat /\ t[n] \in Nat /\ t[n] > t[i]
        BY <2>3, <2>5
      <4>2. ASSUME NEW j \in 1..n PROVE t[n] >= t[j]
        BY <2>1, <2>2, <2>3, <4>1
      <4> QED BY <4>2
    <3> QED BY <2>3, <3>1
  <2> QED BY <2>4, <2>5
<1> HIDE DEF Has
<1>3. ASSUME Bad # {} PROVE FALSE
  <2>1. Bad \subseteq Nat
    OBVIOUS
  <2>2. PICK n \in Bad : \A m \in Bad : n <= m
    BY <1>3, <2>1, LeastPlace
  <2>3. n \in 1..N /\ ~ Has(n)
    OBVIOUS
  <2>4. n \in 2..N
    BY <1>1, <2>3
  <2>5. n - 1 \in 1..N /\ ~ n <= n - 1
    BY <2>4
  <2>6. Has(n - 1)
    BY <2>2, <2>5
  <2> QED BY <1>2, <2>3, <2>4, <2>6
<1>4. Has(N)
  BY <1>3
<1> QED BY <1>4 DEF Has

\* of the records of a list one has the latest time
LEMMA LatestExists ==
  ASSUME NEW k \in RecordIds, NEW list \in Seq(ShownOf(k)), list # <<>>
  PROVE  \E i \in DOMAIN list : \A j \in DOMAIN list : TimeOf[list[i].id] >= TimeOf[list[j].id]
<1>1. Len(list) \in Nat /\ Len(list) # 0 /\ DOMAIN list = 1..Len(list)
  OBVIOUS
<1> DEFINE t == [i \in 1..Len(list) |-> TimeOf[list[i].id]]
<1>2. t \in [1..Len(list) -> Nat]
  BY <1>1, ShownHaveTimes
<1>3. \E i \in 1..Len(list) : \A j \in 1..Len(list) : t[i] >= t[j]
  <2> HIDE DEF t
  <2> QED BY <1>1, <1>2, GreatestOf
<1> QED BY <1>1, <1>3

\* Pick gives a record of the list
LEMMA PickType ==
  ASSUME NEW k \in RecordIds, NEW list \in Seq(ShownOf(k)), list # <<>>, NEW latest
  PROVE  Pick(list, latest) \in ShownOf(k)
<1> DEFINE times == {TimeOf[r.id] : r \in Range(list)}
<1> DEFINE sought == IF latest THEN Max(times) ELSE Min(times)
<1>1. times = {TimeOf[list[i].id] : i \in DOMAIN list}
  BY DEF Range
<1>2. times \subseteq Nat
  BY <1>1, ShownHaveTimes
<1>3. \E t \in times : \A u \in times : t >= u
  <2>1. PICK i \in DOMAIN list : \A j \in DOMAIN list : TimeOf[list[i].id] >= TimeOf[list[j].id]
    BY LatestExists
  <2> QED BY <1>1, <2>1
<1>4. \E t \in times : \A u \in times : t <= u
  <2>1. times # {}
    BY <1>3
  <2> QED BY <1>2, <2>1, LeastPlace
<1> HIDE DEF times
<1>5. Max(times) \in times
  BY <1>3 DEF Max
<1>6. Min(times) \in times
  BY <1>4 DEF Min
<1>7. sought \in times
  BY <1>5, <1>6
<1> DEFINE records == {r \in Range(list) : TimeOf[r.id] = sought}
<1>8. Pick(list, latest) = Only(list, records)[1]
  BY DEF Pick, times
<1> HIDE DEF sought
<1>9. PICK i \in DOMAIN list : TimeOf[list[i].id] = sought
  BY <1>1, <1>7
<1>10. list[i] \in records
  BY <1>9 DEF Range
<1> HIDE DEF records
<1>11. Only(list, records) # <<>> /\ Only(list, records) \in Seq(ShownOf(k))
  BY <1>10, OnlyFinds, OnlyType
<1>12. \A S : \A l \in Seq(S) : l # <<>> => l[1] \in S
  OBVIOUS
<1> QED BY <1>8, <1>11, <1>12

LEMMA UnidentifiedType ==
  ASSUME NEW k, NEW list \in Seq(ShownOf(k))
  PROVE  Unidentified(list) \in Seq(ShownOf(k)) /\ (list # <<>> => Unidentified(list) # <<>>)
<1>1. DOMAIN list = 1..Len(list) /\ Len(list) \in Nat /\ (list # <<>> => Len(list) # 0)
      /\ \A i \in DOMAIN list : list[i] \in ShownOf(k)
  OBVIOUS
<1>2. \A r \in ShownOf(k) : [r EXCEPT !.identified = FALSE] \in ShownOf(k)
  BY DEF ShownOf
<1>3. /\ Unidentified(list) = [i \in 1..Len(list) |-> Unidentified(list)[i]]
      /\ \A i \in 1..Len(list) : Unidentified(list)[i] \in ShownOf(k)
  BY <1>1, <1>2 DEF Unidentified
<1>4. \A f, n : f = [i \in 1..n |-> f[i]] /\ n \in Nat /\ (\A i \in 1..n : f[i] \in ShownOf(k))
        => f \in Seq(ShownOf(k)) /\ (n # 0 => f # <<>>)
  OBVIOUS
<1> QED BY <1>1, <1>3, <1>4

LEMMA ShownAsType ==
  ASSUME NEW k, NEW id \in 1..k
  PROVE  ShownAs(id) \in ShownOf(k)
<1>1. (id \in closedNow) \in BOOLEAN
  OBVIOUS
<1> QED BY <1>1 DEF ShownAs, ShownOf

LEMMA AllRecordsType ==
  ASSUME known \in RecordIds
  PROVE  /\ AllRecords \in Seq(ShownOf(known)) /\ AllRecords # <<>>
         /\ DOMAIN AllRecords = 1..known /\ Len(AllRecords) = known
<1>1. known \in Nat \ {0}
  BY FollowUpsAssumption DEF RecordIds
<1>2. PICK k : k = known
  OBVIOUS
<1>3. /\ AllRecords = [i \in 1..k |-> AllRecords[i]]
      /\ \A i \in 1..k : AllRecords[i] \in ShownOf(k)
  BY <1>2, ShownAsType DEF AllRecords
<1>4. \A f, n : f = [i \in 1..n |-> f[i]] /\ n \in Nat \ {0} /\ (\A i \in 1..n : f[i] \in ShownOf(k))
        => f \in Seq(ShownOf(k)) /\ f # <<>> /\ DOMAIN f = 1..n /\ Len(f) = n
  OBVIOUS
<1> QED BY <1>1, <1>2, <1>3, <1>4

\* the events that a question is about, where there are any
LEMMA EventFactsType ==
  ASSUME FollowUpsTyped
  PROVE  /\ EventFacts \in Seq(ShownOf(known))
         /\ collection = "events" /\ prior.list # <<>> => EventFacts # <<>>
<1>1. known \in RecordIds /\ prior.list \in Seq(ShownOf(known))
  BY DEF FollowUpsTyped, PriorOf
<1>2. PICK c : c = Compact(prior.list)
  OBVIOUS
<1>3. PICK d : d = Candidates(prior.list)
  OBVIOUS
<1>4. c \in Seq(ShownOf(known)) /\ (collection = "events" /\ prior.list # <<>> => c # <<>>)
  BY <1>1, <1>2, CompactType, CompactKeepsEvents
<1>5. d \in Seq(ShownOf(known)) /\ (prior.list # <<>> => d # <<>>)
  BY <1>1, <1>3, CandidatesType
<1>6. /\ Unidentified(c) \in Seq(ShownOf(known))
      /\ c # <<>> => Unidentified(c) # <<>>
  BY <1>4, UnidentifiedType
<1> QED BY <1>2, <1>3, <1>4, <1>5, <1>6 DEF EventFacts

-----------------------------------------------------------------------------
(* What a request leaves                                                     *)

LEMMA StepTyped ==
  ASSUME FollowUpsTyped, UNCHANGED <<collection, known>>, closedNow' \subseteq 1..known,
         received' \in Seq(ShownOf(known)), prior' \in PriorOf(known),
         reference'.of \in Seq(ShownOf(known))
  PROVE  FollowUpsTyped'
BY DEF FollowUpsTyped

LEMMA HandsOnType ==
  ASSUME FollowUpsTyped, NEW list \in Seq(ShownOf(known)),
         NEW focus \in ShownOf(known) \cup {NoFocus},
         NEW by \in {"list", "follow-up", "question", "none"},
         prior' = [list |-> list, focus |-> focus, by |-> by]
  PROVE  prior' \in PriorOf(known)
BY DEF PriorOf

LEMMA NoReferenceType ==
  ASSUME NEW k, reference' = NoReference
  PROVE  reference'.of \in Seq(ShownOf(k))
<1>1. reference'.of = <<>>
  BY DEF NoReference
<1> QED BY <1>1

LEMMA PriorType ==
  ASSUME FollowUpsTyped
  PROVE  /\ known \in RecordIds /\ prior.list \in Seq(ShownOf(known))
         /\ prior.focus \in ShownOf(known) \cup {NoFocus}
         /\ prior.focus # NoFocus => prior.focus.id \in 1..known
         /\ prior.by \in {"list", "follow-up", "question", "none"}
         /\ prior = [list |-> prior.list, focus |-> prior.focus, by |-> prior.by]
         /\ Candidates(prior.list) \in Seq(ShownOf(known))
         /\ prior.list # <<>> => Candidates(prior.list) # <<>>
<1>1. known \in RecordIds /\ prior.list \in Seq(ShownOf(known))
  BY DEF FollowUpsTyped, PriorOf
<1>2. /\ prior.focus \in ShownOf(known) \cup {NoFocus}
      /\ prior.by \in {"list", "follow-up", "question", "none"}
      /\ prior = [list |-> prior.list, focus |-> prior.focus, by |-> prior.by]
  BY DEF FollowUpsTyped, PriorOf
<1>3. prior.focus # NoFocus => prior.focus.id \in 1..known
  BY <1>2 DEF ShownOf
<1> QED BY <1>1, <1>2, <1>3, CandidatesType

LEMMA BlockedType ==
  ASSUME FollowUpsTyped, BlockedFollowUp
  PROVE  prior' \in PriorOf(known)
<1>1. PICK c : c = Cut(Candidates(prior.list))
  OBVIOUS
<1>2. c \in Seq(ShownOf(known))
  BY <1>1, PriorType, CutType
<1>3. PICK by : by = (IF prior.by = "none" THEN "none" ELSE "follow-up")
  OBVIOUS
<1>4. prior' = [prior EXCEPT !.list = c, !.focus = NoFocus, !.by = by]
  BY <1>1, <1>3 DEF BlockedFollowUp
<1>5. prior' = [list |-> c, focus |-> NoFocus, by |-> by]
  BY <1>4, PriorType
<1>6. by \in {"list", "follow-up", "question", "none"}
  BY <1>3
<1> QED BY <1>2, <1>5, <1>6, HandsOnType

LEMMA BareType ==
  ASSUME FollowUpsTyped, NEW focus \in ShownOf(known) \cup {NoFocus},
         Scalar(focus) \/ prior' = Bare
  PROVE  prior' \in PriorOf(known)
<1>1. /\ Scalar(focus) => prior' = [list |-> <<>>, focus |-> focus, by |-> "none"]
      /\ prior' = Bare => prior' = [list |-> <<>>, focus |-> NoFocus, by |-> "none"]
  BY DEF Scalar, Bare
<1>2. <<>> \in Seq(ShownOf(known))
  OBVIOUS
<1> QED BY <1>1, <1>2, HandsOnType

LEMMA ResultType ==
  ASSUME FollowUpsTyped, NEW list \in Seq(ShownOf(known)),
         NEW focus \in ShownOf(known) \cup {NoFocus}, Result(list, focus)
  PROVE  prior' \in PriorOf(known)
BY HandsOnType DEF Result

\* it answers a question and shows no list
AnswersOnly ==
  /\ reference' = NoReference /\ ReadsRecords /\ UNCHANGED received
  /\ \/ BlockedFollowUp \/ prior' = Bare
     \/ \E focus \in ShownOf(known) : Scalar(focus) \/ Result(Candidates(prior.list), focus)

LEMMA AnswersTyped ==
  ASSUME FollowUpsTyped, AnswersOnly
  PROVE  FollowUpsTyped'
<1>1. prior' \in PriorOf(known)
  <2>1. CASE BlockedFollowUp
    BY <2>1, BlockedType
  <2>2. CASE prior' = Bare
    BY <2>2, BareType
  <2>3. ASSUME NEW focus \in ShownOf(known), Scalar(focus) \/ Result(Candidates(prior.list), focus)
        PROVE  prior' \in PriorOf(known)
    <3>1. PICK c : c = Candidates(prior.list)
      OBVIOUS
    <3> QED BY <2>3, <3>1, BareType, ResultType, PriorType
  <2> QED BY <2>1, <2>2, <2>3 DEF AnswersOnly
<1>2. /\ UNCHANGED <<collection, known>> /\ closedNow' \subseteq 1..known
      /\ received' \in Seq(ShownOf(known)) /\ reference' = NoReference
  BY DEF AnswersOnly, ReadsRecords, FollowUpsTyped
<1> QED BY <1>1, <1>2, NoReferenceType, StepTyped

\* it hands on a list, which it shows or does not
LEMMA HandsOnTyped ==
  ASSUME FollowUpsTyped, NEW list \in Seq(ShownOf(known)),
         NEW shown \in Seq(ShownOf(known)),
         NEW focus \in ShownOf(known) \cup {NoFocus},
         NEW by \in {"list", "follow-up", "question", "none"},
         prior' = [list |-> list, focus |-> focus, by |-> by], received' = shown,
         reference' = NoReference, ReadsRecords
  PROVE  FollowUpsTyped'
<1>1. prior' \in PriorOf(known)
  BY HandsOnType
<1>2. /\ UNCHANGED <<collection, known>> /\ closedNow' \subseteq 1..known
      /\ received' \in Seq(ShownOf(known))
  BY DEF ReadsRecords, FollowUpsTyped
<1> QED BY <1>1, <1>2, NoReferenceType, StepTyped

LEMMA ListsTyped ==
  ASSUME FollowUpsTyped, NEW list \in Seq(ShownOf(known)), Lists(list)
  PROVE  FollowUpsTyped'
<1>1. PICK shown : shown = Displayed(list)
  OBVIOUS
<1>2. shown \in Seq(ShownOf(known))
  BY <1>1, OnlyType DEF Displayed
<1>3. PICK by : by = (IF collection = "events" THEN "list" ELSE "follow-up")
  OBVIOUS
<1>4. by \in {"list", "follow-up", "question", "none"} /\ NoFocus \in ShownOf(known) \cup {NoFocus}
  BY <1>3
<1>5. /\ received' = shown /\ prior' = [list |-> list, focus |-> NoFocus, by |-> by]
      /\ reference' = NoReference /\ ReadsRecords
  BY <1>1, <1>3 DEF Lists
<1> QED BY <1>2, <1>4, <1>5, HandsOnTyped

LEMMA UnshownTyped ==
  ASSUME FollowUpsTyped, NEW list \in Seq(ShownOf(known)), NEW focus \in ShownOf(known),
         Unshown(list, focus), reference' = NoReference, ReadsRecords
  PROVE  FollowUpsTyped'
<1>1. <<>> \in Seq(ShownOf(known))
  OBVIOUS
<1> QED BY <1>1, HandsOnTyped DEF Unshown, Result

-----------------------------------------------------------------------------
(* The steps                                                                 *)

LEMMA MembersAreShown ==
  ASSUME NEW S, NEW list \in Seq(S)
  PROVE  \A i \in DOMAIN list : list[i] \in S
OBVIOUS

\* lists of the records there are
LEMMA ListedType ==
  ASSUME FollowUpsTyped
  PROVE  /\ AllRecords \in Seq(ShownOf(known))
         /\ \A records : Only(AllRecords, records) \in Seq(ShownOf(known))
         /\ \A window : Within(AllRecords, window) \in Seq(ShownOf(known))
         /\ \A window, records : Only(Within(AllRecords, window), records) \in Seq(ShownOf(known))
         /\ Displayed(AllRecords) \in Seq(ShownOf(known))
         /\ Needed \in Seq(ShownOf(known))
<1>1. AllRecords \in Seq(ShownOf(known))
  BY AllRecordsType DEF FollowUpsTyped
<1>2. \A records : Only(AllRecords, records) \in Seq(ShownOf(known))
  BY <1>1, OnlyType
<1>3. \A window : Within(AllRecords, window) \in Seq(ShownOf(known))
  BY <1>2 DEF Within
<1>4. \A window, records : Only(Within(AllRecords, window), records) \in Seq(ShownOf(known))
  BY <1>3, OnlyType
<1> QED BY <1>1, <1>2, <1>3, <1>4 DEF Displayed, Needed

LEMMA ReadTasksTyped ==
  ASSUME FollowUpsTyped, NEW status, ReadTasks(status)
  PROVE  FollowUpsTyped'
BY ListedType, ListsTyped DEF ReadTasks

LEMMA ReadTasksDueTyped ==
  ASSUME FollowUpsTyped, NEW completed, NEW window, ReadTasksDue(completed, window)
  PROVE  FollowUpsTyped'
<1> DEFINE asked == {r \in Range(AllRecords) : r.id \in DatedRecords /\ r.closed = completed}
<1>1. PICK due : due = Only(Within(AllRecords, window), asked)
  OBVIOUS
<1>2. due \in Seq(ShownOf(known)) /\ known \in RecordIds
  BY <1>1, ListedType DEF FollowUpsTyped
<1>3. WeakOrder(due, Earlier(due))
  BY <1>2, ShownHaveTimes, TimesOrder
<1>4. Sorted(due, Earlier(due)) \in Seq(ShownOf(known))
  BY <1>2, <1>3, SortedType
<1> QED BY <1>1, <1>4, ListsTyped DEF ReadTasksDue

LEMMA ReadListTyped ==
  ASSUME FollowUpsTyped,
         \/ ReadObligations \/ ReadEvents \/ ReadGroceries
         \/ \E completed : ReadChores(completed)
         \/ \E window : ReadEventsWithin(window)
  PROVE  FollowUpsTyped'
<1>1. CASE ReadObligations \/ ReadEvents
  BY <1>1, ListedType, ListsTyped DEF ReadObligations, ReadEvents
<1>2. CASE ReadGroceries
  BY <1>2, ListedType, ListsTyped DEF ReadGroceries
<1>3. CASE \E completed : ReadChores(completed)
  BY <1>3, ListedType, ListsTyped DEF ReadChores
<1>4. CASE \E window : ReadEventsWithin(window)
  BY <1>4, ListedType, ListsTyped DEF ReadEventsWithin
<1> QED BY <1>1, <1>2, <1>3, <1>4

LEMMA ReadThenTyped ==
  ASSUME FollowUpsTyped,
         \/ \E window : ReadTasksDueThen(window) \/ ReadEventsThen(window)
         \/ ReadGroceriesAgain \/ ReadMembership \/ ReadQuantity
  PROVE  FollowUpsTyped'
BY ReadTasksDueTyped, ReadListTyped
   DEF ReadTasksDueThen, ReadEventsThen, ReadGroceriesAgain, ReadMembership, ReadQuantity

LEMMA AskTaskOrdinalTyped ==
  ASSUME FollowUpsTyped, NEW n, AskTaskOrdinal(n)
  PROVE  FollowUpsTyped'
<1>1. CASE BlockedFollowUp /\ UNCHANGED received
  BY <1>1, AnswersTyped DEF AskTaskOrdinal, AnswersOnly
<1>2. CASE ~ (BlockedFollowUp /\ UNCHANGED received)
  <2>1. PICK place : place = PlaceOf(n, AllRecords)
    OBVIOUS
  <2>2. place \in 1..known /\ Unshown(AllRecords, ShownAs(place))
    BY <1>2, <2>1 DEF AskTaskOrdinal
  <2>3. ShownAs(place) \in ShownOf(known)
    BY <2>2, ShownAsType
  <2>4. reference' = NoReference /\ ReadsRecords
    BY DEF AskTaskOrdinal
  <2> QED BY <2>2, <2>3, <2>4, ListedType, UnshownTyped
<1> QED BY <1>1, <1>2

LEMMA AskTaskPriorityTyped ==
  ASSUME FollowUpsTyped, NEW latest, NEW window, AskTaskPriority(latest, window)
  PROVE  FollowUpsTyped'
<1>1. PICK dated : dated = Only(Within(AllRecords, window), UrgentOf(AllRecords))
  OBVIOUS
<1>2. dated \in Seq(ShownOf(known)) /\ known \in RecordIds
  BY <1>1, ListedType DEF FollowUpsTyped
<1>3. CASE dated = <<>>
  BY <1>1, <1>3, AnswersTyped DEF AskTaskPriority, AnswersOnly
<1>4. CASE dated # <<>>
  <2>1. Pick(dated, latest) \in ShownOf(known)
    BY <1>2, <1>4, PickType
  <2>2. Unshown(dated, Pick(dated, latest)) /\ reference' = NoReference /\ ReadsRecords
    BY <1>1, <1>4 DEF AskTaskPriority
  <2> QED BY <1>2, <2>1, <2>2, UnshownTyped
<1> QED BY <1>3, <1>4

LEMMA AskObligationOrdinalTyped ==
  ASSUME FollowUpsTyped, NEW n, AskObligationOrdinal(n)
  PROVE  FollowUpsTyped'
<1>1. PICK outstanding : outstanding = Displayed(AllRecords)
  OBVIOUS
<1>2. PICK place : place = PlaceOf(n, outstanding)
  OBVIOUS
<1>3. outstanding \in Seq(ShownOf(known))
  BY <1>1, ListedType
<1>4. CASE place \in DOMAIN outstanding
  <2>1. outstanding[place] \in ShownOf(known)
    BY <1>3, <1>4
  <2>2. Unshown(outstanding, outstanding[place]) /\ reference' = NoReference /\ ReadsRecords
    BY <1>1, <1>2, <1>4 DEF AskObligationOrdinal
  <2> QED BY <1>3, <2>1, <2>2, UnshownTyped
<1>5. CASE place \notin DOMAIN outstanding
  BY <1>1, <1>2, <1>5, AnswersTyped DEF AskObligationOrdinal, AnswersOnly
<1> QED BY <1>4, <1>5

LEMMA AskTyped ==
  ASSUME FollowUpsTyped,
         \/ AskChoreOrdinal \/ AskOwed \/ AskGroceryOrder \/ ReadChorePriority
         \/ ReadAmbiguousEvent
         \/ \E id \in 1..known : AskObligation(id) \/ AskPurchased(id)
  PROVE  FollowUpsTyped'
<1>1. CASE AskChoreOrdinal \/ AskOwed \/ AskGroceryOrder
  BY <1>1, AnswersTyped DEF AskChoreOrdinal, AskOwed, AskGroceryOrder, AnswersOnly
<1>2. CASE ReadChorePriority \/ ReadAmbiguousEvent
  BY <1>2, AnswersTyped DEF ReadChorePriority, ReadAmbiguousEvent, AnswersOnly
<1>3. ASSUME NEW id \in 1..known, AskObligation(id) PROVE FollowUpsTyped'
  BY <1>3, AnswersTyped, ShownAsType DEF AskObligation, AnswersOnly
<1>4. ASSUME NEW id \in 1..known, AskPurchased(id) PROVE FollowUpsTyped'
  BY <1>4, AnswersTyped DEF AskPurchased, AnswersOnly
<1> QED BY <1>1, <1>2, <1>3, <1>4

LEMMA AskEventPriorityTyped ==
  ASSUME FollowUpsTyped, NEW latest, AskEventPriority(latest)
  PROVE  FollowUpsTyped'
<1>1. PICK l : l = AllRecords
  OBVIOUS
<1>2. l \in Seq(ShownOf(known)) /\ l # <<>> /\ known \in RecordIds
  BY <1>1, AllRecordsType DEF FollowUpsTyped
<1>3. Pick(l, latest) \in ShownOf(known)
  BY <1>2, PickType
<1> QED BY <1>1, <1>3, AnswersTyped DEF AskEventPriority, AnswersOnly

LEMMA AskEventNextTyped ==
  ASSUME FollowUpsTyped, AskEventNext
  PROVE  FollowUpsTyped'
<1>1. PICK upcoming : upcoming = Only(AllRecords, UpcomingOf(AllRecords))
  OBVIOUS
<1>2. upcoming \in Seq(ShownOf(known)) /\ known \in RecordIds
  BY <1>1, ListedType DEF FollowUpsTyped
<1>3. CASE upcoming = <<>>
  BY <1>1, <1>3, AnswersTyped DEF AskEventNext, AnswersOnly
<1>4. CASE upcoming # <<>>
  <2>1. Pick(upcoming, FALSE) \in ShownOf(known)
    BY <1>2, <1>4, PickType
  <2> QED BY <1>1, <1>4, <2>1, AnswersTyped DEF AskEventNext, AnswersOnly
<1> QED BY <1>3, <1>4

LEMMA ReadUniqueTyped ==
  ASSUME FollowUpsTyped, ReadUnique
  PROVE  FollowUpsTyped'
<1>1. PICK c : c = Candidates(prior.list)
  OBVIOUS
<1>2. c \in Seq(ShownOf(known))
  BY <1>1, PriorType
<1>3. /\ received' = c /\ prior' = [list |-> c, focus |-> NoFocus, by |-> "follow-up"]
      /\ reference' = NoReference /\ ReadsRecords
  BY <1>1 DEF ReadUnique, Result
<1> QED BY <1>2, <1>3, HandsOnTyped

LEMMA ReadRemainingTyped ==
  ASSUME FollowUpsTyped, ReadRemaining
  PROVE  FollowUpsTyped'
<1>1. PICK c : c = Candidates(prior.list)
  OBVIOUS
<1>2. PICK l : l = Only(c, OpenOf(c))
  OBVIOUS
<1>3. l \in Seq(ShownOf(known))
  BY <1>1, <1>2, PriorType, OnlyType
<1>4. /\ received' = l /\ prior' = [list |-> l, focus |-> NoFocus, by |-> "follow-up"]
      /\ reference' = NoReference /\ ReadsRecords
  BY <1>1, <1>2 DEF ReadRemaining, Result
<1> QED BY <1>3, <1>4, HandsOnTyped

LEMMA ReadAgainTyped ==
  ASSUME FollowUpsTyped, ReadAgain
  PROVE  FollowUpsTyped'
<1>1. PICK c : c = Candidates(prior.list)
  OBVIOUS
<1>2. PICK k : k = known
  OBVIOUS
<1>3. c \in Seq(ShownOf(k))
  BY <1>1, <1>2, PriorType
<1>4. PICK l : l = [i \in DOMAIN c |-> ShownAs(c[i].id)]
  OBVIOUS
<1>5. l \in Seq(ShownOf(k))
  <2>1. /\ DOMAIN c = 1..Len(c) /\ Len(c) \in Nat
        /\ \A i \in DOMAIN c : c[i] \in ShownOf(k)
    BY <1>3
  <2>2. \A i \in DOMAIN c : c[i].id \in 1..k
    BY <2>1 DEF ShownOf
  <2>3. \A i \in DOMAIN c : l[i] \in ShownOf(k)
    BY <1>4, <2>2, ShownAsType
  <2>4. \A f, n : f = [i \in 1..n |-> f[i]] /\ n \in Nat /\ (\A i \in 1..n : f[i] \in ShownOf(k))
          => f \in Seq(ShownOf(k))
    OBVIOUS
  <2> QED BY <1>4, <2>1, <2>3, <2>4
<1>6. /\ received' = l /\ prior' = [list |-> l, focus |-> NoFocus, by |-> "follow-up"]
      /\ reference' = NoReference /\ ReadsRecords
  BY <1>1, <1>4 DEF ReadAgain, Result
<1> QED BY <1>2, <1>5, <1>6, HandsOnTyped

\* the reference of an ordinal keeps the list that the owner received
LEMMA ReferenceType ==
  ASSUME FollowUpsTyped, NEW n, NEW record,
         reference' = [ordinal |-> n, record |-> record, of |-> received]
  PROVE  reference'.of \in Seq(ShownOf(known))
BY DEF FollowUpsTyped

LEMMA ReadOrdinalTyped ==
  ASSUME FollowUpsTyped, NEW n, ReadOrdinal(n)
  PROVE  FollowUpsTyped'
<1>1. PICK c : c = Candidates(prior.list)
  OBVIOUS
<1>2. PICK place : place = PlaceOf(n, c)
  OBVIOUS
<1>3. c \in Seq(ShownOf(known))
  BY <1>1, PriorType
<1>4. CASE place \in DOMAIN c
  <2>1. c[place] \in ShownOf(known)
    BY <1>3, <1>4
  <2>2. PICK focus \in ShownOf(known) \cup {NoFocus} : Result(c, focus)
    BY <1>1, <1>2, <1>4, <2>1 DEF ReadOrdinal
  <2>3. reference' = [ordinal |-> n, record |-> c[place].id, of |-> received]
    BY <1>1, <1>2, <1>4 DEF ReadOrdinal
  <2>4. prior' \in PriorOf(known) /\ reference'.of \in Seq(ShownOf(known))
    BY <1>3, <2>2, <2>3, ResultType, ReferenceType
  <2>5. /\ UNCHANGED <<collection, known>> /\ closedNow' \subseteq 1..known
        /\ received' \in Seq(ShownOf(known))
    BY DEF ReadOrdinal, ReadsRecords, FollowUpsTyped
  <2> QED BY <2>4, <2>5, StepTyped
<1>5. CASE place \notin DOMAIN c
  BY <1>1, <1>2, <1>5, AnswersTyped DEF ReadOrdinal, AnswersOnly
<1> QED BY <1>4, <1>5

LEMMA CompleteOrdinalTyped ==
  ASSUME FollowUpsTyped, NEW n, CompleteOrdinal(n)
  PROVE  FollowUpsTyped'
<1>1. PICK c : c = Candidates(prior.list)
  OBVIOUS
<1>2. PICK place : place = PlaceOf(n, c)
  OBVIOUS
<1>3. c \in Seq(ShownOf(known))
  BY <1>1, PriorType
<1>4. /\ UNCHANGED <<collection, known>> /\ received' \in Seq(ShownOf(known))
      /\ closedNow \subseteq 1..known
  BY DEF CompleteOrdinal, FollowUpsTyped
<1>5. CASE place \in DOMAIN c /\ Completable(c[place].id)
  <2>1. c[place] \in ShownOf(known)
    BY <1>3, <1>5
  <2>2. c[place].id \in 1..known
    BY <2>1 DEF ShownOf
  <2>3. /\ closedNow' = closedNow \cup {c[place].id} /\ prior' = Bare
        /\ reference' = [ordinal |-> n, record |-> c[place].id, of |-> received]
    BY <1>1, <1>2, <1>5 DEF CompleteOrdinal
  <2>4. prior' \in PriorOf(known) /\ reference'.of \in Seq(ShownOf(known))
    BY <2>3, BareType, ReferenceType
  <2>5. closedNow' \subseteq 1..known
    BY <1>4, <2>2, <2>3
  <2> QED BY <1>4, <2>4, <2>5, StepTyped
<1>6. CASE ~ (place \in DOMAIN c /\ Completable(c[place].id))
  <2>1. /\ BlockedFollowUp /\ reference' = NoReference /\ UNCHANGED closedNow
        /\ UNCHANGED received
    BY <1>1, <1>2, <1>6 DEF CompleteOrdinal
  <2>2. AnswersOnly
    BY <1>4, <2>1 DEF AnswersOnly, ReadsRecords
  <2> QED BY <2>2, AnswersTyped
<1> QED BY <1>5, <1>6

LEMMA ReadNeighbourTyped ==
  ASSUME FollowUpsTyped, NEW offset, ReadNeighbour(offset)
  PROVE  FollowUpsTyped'
<1>1. PICK c : c = Candidates(prior.list)
  OBVIOUS
<1>2. \A i \in DOMAIN c : c[i] \in ShownOf(known)
  <2>1. c \in Seq(ShownOf(known))
    BY <1>1, PriorType
  <2> QED BY <2>1, MembersAreShown
<1>3. BlockedFollowUp \/ \E i \in DOMAIN c : Result(c, c[i])
  BY <1>1 DEF ReadNeighbour
<1>4. reference' = NoReference /\ ReadsRecords /\ UNCHANGED received
  BY DEF ReadNeighbour
<1> QED BY <1>1, <1>2, <1>3, <1>4, AnswersTyped DEF AnswersOnly

LEMMA ReadOtherTyped ==
  ASSUME FollowUpsTyped, ReadOther
  PROVE  FollowUpsTyped'
<1>1. PICK c : c = Candidates(prior.list)
  OBVIOUS
<1>2. \A i \in DOMAIN c : c[i] \in ShownOf(known)
  <2>1. c \in Seq(ShownOf(known))
    BY <1>1, PriorType
  <2> QED BY <2>1, MembersAreShown
<1>3. BlockedFollowUp \/ \E i \in DOMAIN c : Result(c, c[i])
  BY <1>1 DEF ReadOther
<1>4. reference' = NoReference /\ ReadsRecords /\ UNCHANGED received
  BY DEF ReadOther
<1> QED BY <1>1, <1>2, <1>3, <1>4, AnswersTyped DEF AnswersOnly

LEMMA ReadTaskPriorityTyped ==
  ASSUME FollowUpsTyped, NEW latest, ReadTaskPriority(latest)
  PROVE  FollowUpsTyped'
<1>1. PICK c : c = Candidates(prior.list)
  OBVIOUS
<1>2. PICK dated : dated = Only(c, UrgentOf(c))
  OBVIOUS
<1>3. dated \in Seq(ShownOf(known)) /\ known \in RecordIds
  BY <1>1, <1>2, PriorType, OnlyType
<1>4. BlockedFollowUp \/ (dated # <<>> /\ Result(c, Pick(dated, latest)))
  BY <1>1, <1>2 DEF ReadTaskPriority
<1>5. dated # <<>> => Pick(dated, latest) \in ShownOf(known)
  BY <1>3, PickType
<1>6. reference' = NoReference /\ ReadsRecords /\ UNCHANGED received
  BY DEF ReadTaskPriority
<1> QED BY <1>1, <1>4, <1>5, <1>6, AnswersTyped DEF AnswersOnly

LEMMA AnswerEventTyped ==
  ASSUME FollowUpsTyped, NEW event \in ShownOf(known), AnswerEvent(event),
         reference' = NoReference, ReadsRecords
  PROVE  FollowUpsTyped'
<1>1. PICK l : l = EventFacts
  OBVIOUS
<1>2. l \in Seq(ShownOf(known)) /\ <<>> \in Seq(ShownOf(known))
  BY <1>1, EventFactsType
<1>3. prior' = [list |-> l, focus |-> event, by |-> "question"] /\ received' = <<>>
  BY <1>1 DEF AnswerEvent
<1> QED BY <1>2, <1>3, HandsOnTyped

LEMMA ReadEventPriorityTyped ==
  ASSUME FollowUpsTyped, NEW latest, ReadEventPriority(latest)
  PROVE  FollowUpsTyped'
<1>1. PICK l : l = EventFacts
  OBVIOUS
<1>2. l \in Seq(ShownOf(known)) /\ l # <<>> /\ known \in RecordIds
  BY <1>1, EventFactsType DEF ReadEventPriority, FollowUpsTyped
<1>3. Pick(l, latest) \in ShownOf(known)
  BY <1>2, PickType
<1> QED BY <1>1, <1>3, AnswerEventTyped DEF ReadEventPriority

LEMMA ReadEventNextTyped ==
  ASSUME FollowUpsTyped, ReadEventNext
  PROVE  FollowUpsTyped'
<1>1. PICK l : l = EventFacts
  OBVIOUS
<1>2. PICK upcoming : upcoming = Only(l, UpcomingOf(l))
  OBVIOUS
<1>3. upcoming \in Seq(ShownOf(known)) /\ known \in RecordIds
  BY <1>1, <1>2, EventFactsType, OnlyType DEF FollowUpsTyped
<1>4. reference' = NoReference /\ ReadsRecords
  BY DEF ReadEventNext
<1>5. CASE upcoming = <<>>
  <2>1. BlockedFollowUp /\ UNCHANGED received
    BY <1>1, <1>2, <1>5 DEF ReadEventNext
  <2> QED BY <1>4, <2>1, AnswersTyped DEF AnswersOnly
<1>6. CASE upcoming # <<>>
  <2>1. Pick(upcoming, FALSE) \in ShownOf(known)
    BY <1>3, <1>6, PickType
  <2>2. AnswerEvent(Pick(upcoming, FALSE))
    BY <1>1, <1>2, <1>6 DEF ReadEventNext
  <2> QED BY <1>4, <2>1, <2>2, AnswerEventTyped
<1> QED BY <1>5, <1>6

LEMMA ReadEventRelativeTyped ==
  ASSUME FollowUpsTyped, NEW earlier, ReadEventRelative(earlier)
  PROVE  FollowUpsTyped'
<1>1. BlockedFollowUp \/ \E id \in 1..known : Scalar(ShownAs(id))
  BY DEF ReadEventRelative
<1>2. reference' = NoReference /\ ReadsRecords /\ UNCHANGED received
  BY DEF ReadEventRelative
<1>3. \A id \in 1..known : ShownAs(id) \in ShownOf(known)
  BY ShownAsType
<1> QED BY <1>1, <1>2, <1>3, AnswersTyped DEF AnswersOnly

LEMMA ReadFocusTyped ==
  ASSUME FollowUpsTyped, ReadFocus
  PROVE  FollowUpsTyped'
<1>1. prior.focus.id \in 1..known
  BY PriorType DEF ReadFocus
<1>2. BlockedFollowUp \/ \E id \in 1..known : Scalar(ShownAs(id))
  BY <1>1 DEF ReadFocus, Named
<1>3. reference' = NoReference /\ ReadsRecords /\ UNCHANGED received
  BY DEF ReadFocus
<1>4. \A id \in 1..known : ShownAs(id) \in ShownOf(known)
  BY ShownAsType
<1> QED BY <1>2, <1>3, <1>4, AnswersTyped DEF AnswersOnly

LEMMA CompleteFocusTyped ==
  ASSUME FollowUpsTyped, CompleteFocus
  PROVE  FollowUpsTyped'
<1>1. prior.focus.id \in 1..known
  BY PriorType DEF CompleteFocus
<1>2. /\ closedNow' \subseteq 1..known /\ prior' = Bare /\ reference' = NoReference
      /\ UNCHANGED <<collection, known>> /\ received' \in Seq(ShownOf(known))
  BY <1>1 DEF CompleteFocus, FollowUpsTyped
<1> QED BY <1>2, BareType, NoReferenceType, StepTyped

\* others add records and close them, and remove none
LEMMA OtherTasksTyped ==
  ASSUME FollowUpsTyped, OthersCreate \/ OthersClose
  PROVE  FollowUpsTyped'
<1>1. CASE OthersClose
  <2>1. /\ UNCHANGED <<collection, known>> /\ closedNow' \subseteq 1..known
        /\ UNCHANGED <<received, prior, reference>>
    BY <1>1 DEF OthersClose, FollowUpsTyped
  <2> QED BY <2>1, StepTyped DEF FollowUpsTyped
<1>2. CASE OthersCreate
  <2>1. PICK k : k = known
    OBVIOUS
  <2>2. /\ k \in Nat /\ k < RecordsKept /\ RecordsKept \in Nat /\ k \in RecordIds
    BY <1>2, <2>1, FollowUpsAssumption DEF OthersCreate, FollowUpsTyped, RecordIds
  <2>3. k + 1 \in RecordIds /\ 1..k \subseteq 1..(k + 1)
    BY <2>2 DEF RecordIds
  <2>4. ShownOf(k) \subseteq ShownOf(k + 1)
    BY <2>3 DEF ShownOf
  <2>5. \A S, T : S \subseteq T => Seq(S) \subseteq Seq(T)
    OBVIOUS
  <2>6. Seq(ShownOf(k)) \subseteq Seq(ShownOf(k + 1))
    BY <2>4, <2>5
  <2>7. PriorOf(k) \subseteq PriorOf(k + 1)
    BY <2>4, <2>6 DEF PriorOf
  <2>8. known' = k + 1 /\ UNCHANGED <<collection, closedNow, received, prior, reference>>
    BY <1>2, <2>1 DEF OthersCreate
  <2> QED BY <2>1, <2>3, <2>6, <2>7, <2>8 DEF FollowUpsTyped
<1> QED BY <1>1, <1>2

LEMMA FollowUpsInitTyped == FollowUpsInit => FollowUpsTyped
<1> SUFFICES ASSUME FollowUpsInit PROVE FollowUpsTyped
  OBVIOUS
<1>1. known \in RecordIds /\ collection \in Collections /\ closedNow \subseteq 1..known
  BY FollowUpsAssumption DEF FollowUpsInit, RecordIds
<1>2. received = <<>> /\ reference.of = <<>> /\ <<>> \in Seq(ShownOf(known))
  BY DEF FollowUpsInit, NoReference
<1>3. prior \in PriorOf(known)
  BY <1>2 DEF FollowUpsInit, Bare, PriorOf
<1> QED BY <1>1, <1>2, <1>3 DEF FollowUpsTyped

LEMMA FollowUpsNextTyped ==
  ASSUME FollowUpsTyped, FollowUpsNext
  PROVE  FollowUpsTyped'
<1>1. CASE \/ ReadObligations \/ ReadEvents \/ AskChoreOrdinal \/ AskEventNext
           \/ \E status \in {"all", "open", "completed"} : ReadTasks(status)
           \/ \E completed \in BOOLEAN : ReadChores(completed)
           \/ \E completed \in BOOLEAN, window \in Windows : ReadTasksDue(completed, window)
           \/ \E window \in Windows :
                ReadEventsWithin(window) \/ ReadTasksDueThen(window) \/ ReadEventsThen(window)
  BY <1>1, ReadListTyped, AskTyped, AskEventNextTyped, ReadTasksTyped, ReadTasksDueTyped,
     ReadThenTyped
<1>2. CASE \/ \E latest \in BOOLEAN : AskEventPriority(latest)
           \/ \E latest \in BOOLEAN, window \in Windows : AskTaskPriority(latest, window)
           \/ \E n \in Ordinals : AskTaskOrdinal(n) \/ AskObligationOrdinal(n)
  BY <1>2, AskEventPriorityTyped, AskTaskPriorityTyped, AskTaskOrdinalTyped,
     AskObligationOrdinalTyped
<1>3. CASE \/ ReadGroceries \/ ReadGroceriesAgain \/ ReadMembership \/ ReadQuantity \/ ReadUnique
           \/ AskOwed \/ AskGroceryOrder
           \/ \E id \in 1..known : AskObligation(id) \/ AskPurchased(id)
  BY <1>3, ReadListTyped, ReadThenTyped, ReadUniqueTyped, AskTyped
<1>4. CASE \/ ReadRemaining \/ ReadAgain \/ ReadOther \/ CompleteFocus
           \/ ReadTaskFocus \/ ReadObligationFocus \/ ReadChoreFocus \/ ReadEventFocus
           \/ ReadChorePriority \/ ReadEventNext \/ ReadAmbiguousEvent
  BY <1>4, ReadRemainingTyped, ReadAgainTyped, ReadOtherTyped, CompleteFocusTyped,
     ReadFocusTyped, AskTyped, ReadEventNextTyped
     DEF ReadTaskFocus, ReadObligationFocus, ReadChoreFocus, ReadEventFocus
<1>5. CASE \/ \E latest \in BOOLEAN : ReadTaskPriority(latest) \/ ReadEventPriority(latest)
           \/ \E earlier \in BOOLEAN : ReadEventRelative(earlier)
           \/ \E n \in Ordinals : ReadOrdinal(n) \/ CompleteOrdinal(n)
           \/ \E offset \in {"next", "before", "after"} : ReadNeighbour(offset)
           \/ OthersCreate \/ OthersClose
  BY <1>5, ReadTaskPriorityTyped, ReadEventPriorityTyped, ReadEventRelativeTyped,
     ReadOrdinalTyped, CompleteOrdinalTyped, ReadNeighbourTyped, OtherTasksTyped
<1> QED BY <1>1, <1>2, <1>3, <1>4, <1>5 DEF FollowUpsNext

\* However the conversation goes and whatever others do meanwhile, each record that a list,
\* the evidence or a reference names is one of those there are, and so is each focus: no
\* resolver makes up a record, and none is asked for the first of an empty list.
THEOREM EvidenceIsOfRecords == FollowUpsSpec => []FollowUpsTyped
<1>1. FollowUpsTyped /\ [FollowUpsNext]_followUpVars => FollowUpsTyped'
  <2>1. FollowUpsTyped /\ UNCHANGED followUpVars => FollowUpsTyped'
    BY DEF FollowUpsTyped, followUpVars
  <2> QED BY <2>1, FollowUpsNextTyped
<1> QED BY <1>1, FollowUpsInitTyped, PTL DEF FollowUpsSpec

\* The variables of the conversation keep their types (FollowUpsTypeOK).
THEOREM FollowUpsTypeCorrect == FollowUpsSpec => []FollowUpsTypeOK
<1>1. FollowUpsTyped => FollowUpsTypeOK
  <2> SUFFICES ASSUME FollowUpsTyped PROVE FollowUpsTypeOK
    OBVIOUS
  <2>1. prior.focus.id \in 0..known
    <3>1. NoFocus.id = 0 /\ known \in Nat
      BY FollowUpsAssumption DEF NoFocus, FollowUpsTyped, RecordIds
    <3> QED BY <3>1, PriorType
  <2>2. \A S, list : list \in Seq(S) => Range(list) \subseteq S
    BY DEF Range
  <2>3. \A r \in ShownOf(known) : r.id \in 1..known
    BY DEF ShownOf
  <2>4. \A list \in {received, prior.list, reference.of} : list \in Seq(ShownOf(known))
    BY PriorType DEF FollowUpsTyped
  <2>5. \A list \in {received, prior.list, reference.of} : \A r \in Range(list) : r.id \in 1..known
    BY <2>2, <2>3, <2>4
  <2> QED BY <2>1, <2>5, PriorType DEF FollowUpsTyped, FollowUpsTypeOK
<1> QED BY <1>1, EvidenceIsOfRecords, PTL
===============================================================================
