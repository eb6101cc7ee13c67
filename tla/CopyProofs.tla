------------------------------ MODULE CopyProofs ------------------------------
(* The two components that write whole rows back from copies that may be older
   than what others have written since: the Packs and the personal memories.    *)
EXTENDS PackLifecycle, PersonalMemory, FiniteSetTheorems, TLAPS

-----------------------------------------------------------------------------
(* Nothing grants a Pack a permission that was not approved for it, for any number
   of managers, Packs and releases.

   A manager persists whole rows out of a copy that may be older than what others
   have written since. So the invariant asks of every copy what it asks of the
   rows (RowOK): a copy that was right when it was read stays right, because what
   was approved is never taken back, and may replace any newer row.            *)

Permissions == UNION {Declared[p][r] : p \in Packs, r \in Releases}
Bundles == Releases \cup {0}
Rows == [bundle : Bundles, status : {"absent", "discovered", "installed", "enabled"},
         grants : SUBSET Permissions]
\* the places of a manager that was made
ManagerPlaces == {"load", "candidates", "reconcile", "forget", "settle", "enable", "approved",
           "done", "dead"}
MadeManagers ==
  [at : ManagerPlaces, kind : {"turn", "view", "approve"}, pack : Packs, ours : Releases,
   named : SUBSET Permissions, row : Rows, pending : Bundles]

\* a row of p that holds what was granted, and all it declares once it is installed
GrantsWithin(granted, p, row) ==
  /\ row.grants \subseteq granted
  /\ row.status \in {"installed", "enabled"} => Declared[p][row.bundle] \subseteq row.grants
  /\ row.status # "absent" => row.bundle \in Releases
RowOK(p, row) == GrantsWithin(approved[p], p, row)

StoreType ==
  /\ release \in Releases
  /\ installed \in [Packs -> Rows]
  /\ candidate \in [Packs -> Bundles]
  /\ approved \in [Packs -> SUBSET Permissions]

PackIInv ==
  /\ StoreType
  /\ manager \in [Managers -> {NoManager} \cup MadeManagers]
  /\ \A p \in Packs : RowOK(p, installed[p])
  /\ \A m \in Managers : manager[m].at # "idle" =>
       /\ RowOK(manager[m].pack, manager[m].row)
       /\ manager[m].at = "enable" => manager[m].row.status = "installed"

-----------------------------------------------------------------------------
LEMMA Asked ==
  ASSUME NEW p \in Packs, NEW r \in Releases
  PROVE  Declared[p][r] \subseteq Permissions
BY DEF Permissions

LEMMA MadeManager ==
  ASSUME PackIInv, NEW m \in Managers, manager[m].at # "idle"
  PROVE  manager[m] \in MadeManagers
BY DEF PackIInv, NoManager

\* A manager that moves with its row and pack as they are, and writes no row.
LEMMA Moving ==
  ASSUME PackIInv, NEW m \in Managers, NEW new \in MadeManagers, StoreType',
         manager' = [manager EXCEPT ![m] = new], UNCHANGED <<installed, approved>>,
         RowOK(new.pack, new.row),
         new.at = "enable" => new.row.status = "installed"
  PROVE  PackIInv'
<1>1. \A n \in Managers : manager'[n] = IF n = m THEN new ELSE manager[n]
  BY DEF PackIInv
<1>2. manager' \in [Managers -> {NoManager} \cup MadeManagers]
  BY DEF PackIInv
<1>3. \A p, row : RowOK(p, row) => RowOK(p, row)'
  BY DEF RowOK, GrantsWithin
<1> QED BY <1>1, <1>2, <1>3 DEF PackIInv, RowOK, GrantsWithin

\* A manager that replaces the row of its Pack with its own, where what is approved
\* for the Pack may have grown.
LEMMA Persisting ==
  ASSUME PackIInv, NEW m \in Managers, manager[m].at # "idle",
         NEW p \in Packs, p = manager[m].pack,
         NEW row \in Rows, NEW to \in ManagerPlaces, Persists(m, row, to),
         NEW grown \in SUBSET Permissions,
         approved' = [approved EXCEPT ![p] = grown], approved[p] \subseteq grown,
         UNCHANGED <<release, candidate>>,
         GrantsWithin(grown, p, row),
         to = "enable" => row.status = "installed"
  PROVE  PackIInv'
<1>1. manager[m] \in MadeManagers
  BY MadeManager
<1>2. StoreType'
  BY DEF PackIInv, StoreType, Persists
<1>3. \A q \in Packs : approved[q] \subseteq approved'[q]
  BY DEF PackIInv, StoreType
<1>4. GrantsWithin(approved'[p], p, row)
  BY DEF PackIInv, StoreType, GrantsWithin
<1>5. /\ manager' \in [Managers -> {NoManager} \cup MadeManagers]
      /\ manager'[m].row = row /\ manager'[m].at = to /\ manager'[m].pack = p
      /\ \A n \in Managers \ {m} : manager'[n] = manager[n]
  <2>1. [manager[m] EXCEPT !.row = row, !.at = to] \in MadeManagers
    BY <1>1 DEF MadeManagers
  <2> QED BY <1>1, <2>1 DEF Persists, PackIInv, MadeManagers
<1>6. \A q \in Packs : RowOK(q, installed[q])'
  <2> TAKE q \in Packs
  <2>1. CASE q = p
    BY <1>4, <2>1 DEF Persists, PackIInv, StoreType, RowOK
  <2>2. CASE q # p
    BY <1>3, <2>2 DEF Persists, PackIInv, StoreType, RowOK, GrantsWithin
  <2> QED BY <2>1, <2>2
<1>7. ASSUME NEW n \in Managers, manager'[n].at # "idle"
      PROVE  /\ RowOK(manager[n].pack, manager[n].row)'
             /\ manager'[n].at = "enable" => manager'[n].row.status = "installed"
  <2>1. CASE n = m
    BY <1>4, <1>5, <2>1 DEF RowOK, GrantsWithin
  <2>2. CASE n # m
    <3>1. manager'[n] = manager[n]
      BY <1>5, <2>2
    <3>2. manager[n].pack \in Packs
      BY <1>7, <3>1, MadeManager DEF MadeManagers
    <3> QED BY <1>3, <1>7, <3>1, <3>2 DEF PackIInv, RowOK, GrantsWithin
  <2> QED BY <2>1, <2>2
<1> QED BY <1>2, <1>5, <1>6, <1>7 DEF PackIInv

-----------------------------------------------------------------------------
(* The steps                                                                 *)

LEMMA OpenManagerKeeps ==
  ASSUME PackAssumption, PackIInv, NEW m \in Managers, OpenManager(m)
  PROVE  PackIInv'
<1>1. PICK p \in Packs, kind \in {"turn", "view", "approve"} :
        \E named \in (IF kind = "approve" THEN {Declared[p][r] : r \in Releases} ELSE {{}}) :
          manager' = [manager EXCEPT ![m] =
            [at |-> "load", kind |-> kind, pack |-> p, ours |-> release, named |-> named,
             row |-> Absent, pending |-> 0]]
  BY DEF OpenManager
<1>7. PICK named \in (IF kind = "approve" THEN {Declared[p][r] : r \in Releases} ELSE {{}}) :
        manager' = [manager EXCEPT ![m] =
          [at |-> "load", kind |-> kind, pack |-> p, ours |-> release, named |-> named,
           row |-> Absent, pending |-> 0]]
  BY <1>1
<1>8. named \in SUBSET Permissions
  BY Asked
<1>2. [at |-> "load", kind |-> kind, pack |-> p, ours |-> release, named |-> named,
       row |-> Absent, pending |-> 0] \in MadeManagers
  BY <1>8 DEF MadeManagers, ManagerPlaces, Rows, Absent, Bundles, PackIInv, StoreType
<1>3. StoreType' /\ UNCHANGED <<installed, approved>>
  BY DEF OpenManager, PackIInv, StoreType
<1>4. RowOK(p, Absent)
  BY DEF RowOK, GrantsWithin, Absent
<1> DEFINE new == [at |-> "load", kind |-> kind, pack |-> p, ours |-> release,
                   named |-> named, row |-> Absent, pending |-> 0]
<1>5. new \in MadeManagers /\ RowOK(new.pack, new.row) /\ new.at # "enable"
  BY <1>2, <1>4
<1>6. manager' = [manager EXCEPT ![m] = new]
  BY <1>7
<1> HIDE DEF new
<1> QED BY <1>3, <1>5, <1>6, Moving

\* The steps of a made manager that write no row: it goes elsewhere, with the row
\* or the candidate of its Pack in hand.
LEMMA ReadingKeeps ==
  ASSUME PackIInv, NEW m \in Managers, manager[m].at # "idle", StoreType',
         NEW to \in ManagerPlaces \ {"enable"}, NEW row \in Rows, NEW pending \in Bundles,
         row \in {manager[m].row, installed[manager[m].pack]},
         manager' = [manager EXCEPT ![m].at = to, ![m].row = row, ![m].pending = pending],
         UNCHANGED <<installed, approved>>
  PROVE  PackIInv'
<1> DEFINE new == [manager[m] EXCEPT !.at = to, !.row = row, !.pending = pending]
<1>1. manager[m] \in MadeManagers
  BY MadeManager
<1>2. new \in MadeManagers /\ new.pack = manager[m].pack /\ new.row = row /\ new.at = to
  BY <1>1 DEF MadeManagers
<1>3. manager' = [manager EXCEPT ![m] = new]
  BY DEF PackIInv
<1>4. RowOK(new.pack, new.row)
  BY <1>1, <1>2 DEF PackIInv, MadeManagers
<1> HIDE DEF new
<1> QED BY <1>2, <1>3, <1>4, Moving

LEMMA GoingKeeps ==
  ASSUME PackIInv, NEW m \in Managers, manager[m].at # "idle",
         NEW to \in ManagerPlaces \ {"enable"}, Goes(m, to),
         UNCHANGED <<release, installed, candidate, approved>>
  PROVE  PackIInv'
<1>1. manager[m] \in MadeManagers
  BY MadeManager
<1>2. manager' = [manager EXCEPT ![m].at = to, ![m].row = manager[m].row,
                                 ![m].pending = manager[m].pending]
  BY <1>1 DEF Goes, PackIInv, MadeManagers
<1>3. StoreType'
  BY DEF PackIInv, StoreType
<1> DEFINE row == manager[m].row
           pending == manager[m].pending
<1>4. row \in Rows /\ row \in {manager[m].row, installed[manager[m].pack]} /\ pending \in Bundles
  BY <1>1 DEF MadeManagers
<1>5. manager' = [manager EXCEPT ![m].at = to, ![m].row = row, ![m].pending = pending]
  BY <1>2
<1> HIDE DEF row, pending
<1> QED BY <1>3, <1>4, <1>5, ReadingKeeps

LEMMA LoadRowsKeeps ==
  ASSUME PackIInv, NEW m \in Managers, LoadRows(m)
  PROVE  PackIInv'
<1>1. manager[m] \in MadeManagers
  BY MadeManager DEF LoadRows
<1>2. installed[manager[m].pack] \in Rows
  BY <1>1 DEF MadeManagers, PackIInv, StoreType
<1>3. manager' = [manager EXCEPT ![m].at = "candidates", ![m].row = installed[manager[m].pack],
                                 ![m].pending = manager[m].pending]
  BY <1>1 DEF LoadRows, PackIInv, MadeManagers
<1>4. StoreType'
  BY DEF LoadRows, PackIInv, StoreType
<1> DEFINE row == installed[manager[m].pack]
           pending == manager[m].pending
<1>5. /\ row \in Rows /\ row \in {manager[m].row, installed[manager[m].pack]}
      /\ pending \in Bundles /\ "candidates" \in ManagerPlaces \ {"enable"}
  BY <1>1, <1>2 DEF MadeManagers, ManagerPlaces, Bundles
<1>6. manager[m].at # "idle" /\ UNCHANGED <<installed, approved>>
  BY DEF LoadRows
<1>7. manager' = [manager EXCEPT ![m].at = "candidates", ![m].row = row, ![m].pending = pending]
  BY <1>3
<1> HIDE DEF row, pending
<1> QED BY <1>4, <1>5, <1>6, <1>7, ReadingKeeps

LEMMA LoadCandidatesKeeps ==
  ASSUME PackIInv, NEW m \in Managers, LoadCandidates(m)
  PROVE  PackIInv'
<1>1. manager[m] \in MadeManagers
  BY MadeManager DEF LoadCandidates
<1>2. candidate[manager[m].pack] \in Bundles
  BY <1>1 DEF MadeManagers, PackIInv, StoreType
<1>3. manager' = [manager EXCEPT ![m].at = "reconcile", ![m].row = manager[m].row,
                                 ![m].pending = candidate[manager[m].pack]]
  BY <1>1 DEF LoadCandidates, PackIInv, MadeManagers
<1>4. StoreType'
  BY DEF LoadCandidates, PackIInv, StoreType
<1> DEFINE row == manager[m].row
           pending == candidate[manager[m].pack]
<1>5. /\ row \in Rows /\ row \in {manager[m].row, installed[manager[m].pack]}
      /\ pending \in Bundles /\ "reconcile" \in ManagerPlaces \ {"enable"}
  BY <1>1, <1>2 DEF MadeManagers, ManagerPlaces, Bundles
<1>6. manager[m].at # "idle" /\ UNCHANGED <<installed, approved>>
  BY DEF LoadCandidates
<1>7. manager' = [manager EXCEPT ![m].at = "reconcile", ![m].row = row, ![m].pending = pending]
  BY <1>3
<1> HIDE DEF row, pending
<1> QED BY <1>4, <1>5, <1>6, <1>7, ReadingKeeps

LEMMA ProposeUpgradeKeeps ==
  ASSUME PackIInv, NEW m \in Managers, ProposeUpgrade(m)
  PROVE  PackIInv'
<1>1. manager[m] \in MadeManagers
  BY MadeManager DEF ProposeUpgrade
<1>2. manager' = [manager EXCEPT ![m].at = "settle", ![m].row = manager[m].row,
                                 ![m].pending = manager[m].ours]
  BY <1>1 DEF ProposeUpgrade, PackIInv, MadeManagers
<1>3. StoreType'
  BY <1>1 DEF ProposeUpgrade, PackIInv, StoreType, MadeManagers, Bundles
<1> DEFINE row == manager[m].row
           pending == manager[m].ours
<1>5. /\ row \in Rows /\ row \in {manager[m].row, installed[manager[m].pack]}
      /\ pending \in Bundles /\ "settle" \in ManagerPlaces \ {"enable"}
  BY <1>1, <1>2 DEF MadeManagers, ManagerPlaces, Bundles
<1>6. manager[m].at # "idle" /\ UNCHANGED <<installed, approved>>
  BY DEF ProposeUpgrade
<1>7. manager' = [manager EXCEPT ![m].at = "settle", ![m].row = row, ![m].pending = pending]
  BY <1>2
<1> HIDE DEF row, pending
<1> QED BY <1>3, <1>5, <1>6, <1>7, ReadingKeeps

LEMMA ForgetCandidateKeeps ==
  ASSUME PackIInv, NEW m \in Managers, ForgetCandidate(m)
  PROVE  PackIInv'
<1>1. manager[m] \in MadeManagers
  BY MadeManager DEF ForgetCandidate
<1>2. PICK to \in {"settle", "done"} :
        manager' = [manager EXCEPT ![m].at = to, ![m].row = manager[m].row, ![m].pending = 0]
  <2>1. CASE manager[m].at = "forget"
    BY <1>1, <2>1 DEF ForgetCandidate, PackIInv, MadeManagers
  <2>2. CASE manager[m].at # "forget"
    BY <1>1, <2>2 DEF ForgetCandidate, PackIInv, MadeManagers
  <2> QED BY <2>1, <2>2
<1>3. StoreType'
  BY <1>1 DEF ForgetCandidate, PackIInv, StoreType, MadeManagers, Bundles
<1> DEFINE row == manager[m].row
           pending == 0
<1>5. /\ row \in Rows /\ row \in {manager[m].row, installed[manager[m].pack]}
      /\ pending \in Bundles /\ to \in ManagerPlaces \ {"enable"}
  BY <1>1, <1>2 DEF MadeManagers, ManagerPlaces, Bundles
<1>6. manager[m].at # "idle" /\ UNCHANGED <<installed, approved>>
  BY DEF ForgetCandidate
<1>7. manager' = [manager EXCEPT ![m].at = to, ![m].row = row, ![m].pending = pending]
  BY <1>2
<1> HIDE DEF row, pending
<1> QED BY <1>3, <1>5, <1>6, <1>7, ReadingKeeps

\* A manager that writes a row for which nothing new is approved.
LEMMA RewritingKeeps ==
  ASSUME PackIInv, NEW m \in Managers, manager[m].at # "idle",
         NEW row \in Rows, NEW to \in ManagerPlaces \ {"enable"}, Persists(m, row, to),
         UNCHANGED <<release, candidate, approved>>,
         RowOK(manager[m].pack, row)
  PROVE  PackIInv'
<1>1. PICK p \in Packs : p = manager[m].pack
  BY MadeManager DEF MadeManagers
<1>2. PICK grown \in SUBSET Permissions : grown = approved[p]
  BY DEF PackIInv, StoreType
<1>3. approved' = [approved EXCEPT ![p] = grown]
  BY <1>2 DEF PackIInv, StoreType
<1>4. GrantsWithin(grown, p, row) /\ approved[p] \subseteq grown
  BY <1>1, <1>2 DEF RowOK
<1>5. to \in ManagerPlaces /\ to # "enable" /\ UNCHANGED <<release, candidate>>
  OBVIOUS
<1> QED BY <1>1, <1>3, <1>4, <1>5, Persisting

LEMMA DiscoverKeeps ==
  ASSUME PackIInv, NEW m \in Managers, Discover(m)
  PROVE  PackIInv'
<1> DEFINE row == [bundle |-> manager[m].ours, status |-> "discovered", grants |-> {}]
<1>1. manager[m] \in MadeManagers
  BY MadeManager DEF Discover
<1>2. row \in Rows /\ RowOK(manager[m].pack, row)
  BY <1>1 DEF MadeManagers, Rows, Bundles, RowOK, GrantsWithin
<1>3. Persists(m, row, "settle") /\ manager[m].at # "idle"
  BY DEF Discover
<1> HIDE DEF row
<1> QED BY <1>2, <1>3, RewritingKeeps DEF Discover, ManagerPlaces

LEMMA TakeOverKeeps ==
  ASSUME PackIInv, NEW m \in Managers, TakeOver(m)
  PROVE  PackIInv'
<1> DEFINE row == [bundle |-> manager[m].ours, status |-> manager[m].row.status,
                   grants |-> manager[m].row.grants
                                \cap Declared[manager[m].pack][manager[m].ours]]
<1>1. manager[m] \in MadeManagers
  BY MadeManager DEF TakeOver
<1>2. RowOK(manager[m].pack, manager[m].row)
  BY DEF PackIInv, TakeOver
<1>3. row \in Rows
  BY <1>1 DEF MadeManagers, Rows, Bundles
<1>4. Declared[manager[m].pack][manager[m].ours] \subseteq manager[m].row.grants
  BY DEF TakeOver, Expansion
<1>5. RowOK(manager[m].pack, row)
  BY <1>1, <1>2, <1>4 DEF MadeManagers, RowOK, GrantsWithin
<1>6. Persists(m, row, "forget") /\ manager[m].at # "idle"
  BY DEF TakeOver
<1> HIDE DEF row
<1> QED BY <1>3, <1>5, <1>6, RewritingKeeps DEF TakeOver, ManagerPlaces

LEMMA EnableKeeps ==
  ASSUME PackIInv, NEW m \in Managers, Enable(m)
  PROVE  PackIInv'
<1> DEFINE row == [manager[m].row EXCEPT !.status = "enabled"]
<1>1. manager[m].at # "idle"
  BY DEF Enable
<1>2. manager[m] \in MadeManagers
  BY <1>1, MadeManager
<1>3. RowOK(manager[m].pack, manager[m].row) /\ manager[m].row.status = "installed"
  BY <1>1 DEF PackIInv, Enable
<1>4. row \in Rows
  BY <1>2 DEF MadeManagers, Rows
<1>5. row.grants = manager[m].row.grants /\ row.bundle = manager[m].row.bundle
  BY <1>2 DEF MadeManagers, Rows
<1>6. RowOK(manager[m].pack, row)
  BY <1>3, <1>5 DEF RowOK, GrantsWithin
<1>7. Persists(m, row, "done")
  BY DEF Enable
<1> HIDE DEF row
<1> QED BY <1>1, <1>4, <1>6, <1>7, RewritingKeeps DEF Enable, ManagerPlaces

LEMMA InstallKeeps ==
  ASSUME PackIInv, NEW m \in Managers, Install(m)
  PROVE  PackIInv'
<1>1. manager[m] \in MadeManagers
  BY MadeManager DEF Install
<1>2. PICK p \in Packs, bundle \in Releases :
        p = manager[m].pack /\ bundle = manager[m].row.bundle
  BY <1>1 DEF Install, PackIInv, RowOK, GrantsWithin, MadeManagers
<1> DEFINE declared == Declared[p][bundle]
           row == [manager[m].row EXCEPT !.status = "installed", !.grants = declared]
           grown == approved[p] \cup declared
<1>3. declared \subseteq Permissions /\ grown \in SUBSET Permissions
  BY Asked DEF PackIInv, StoreType
<1>4. /\ row \in Rows /\ row.grants = declared /\ row.bundle = bundle
      /\ row.status = "installed"
  BY <1>1, <1>2, <1>3 DEF MadeManagers, Rows
<1>5. Persists(m, row, "enable") /\ approved' = [approved EXCEPT ![p] = grown]
  BY <1>2 DEF Install, PackIInv, StoreType
<1>6. declared \subseteq grown /\ approved[p] \subseteq grown /\ "enable" \in ManagerPlaces
  BY DEF ManagerPlaces
<1>7. UNCHANGED <<release, candidate>> /\ manager[m].at # "idle"
  BY DEF Install
<1>8. GrantsWithin(grown, p, row)
  BY <1>2, <1>4 DEF GrantsWithin
<1> HIDE DEF declared, row, grown
<1> QED BY <1>2, <1>3, <1>4, <1>5, <1>6, <1>7, <1>8, Persisting

LEMMA ApproveUpgradeKeeps ==
  ASSUME PackIInv, NEW m \in Managers, ApproveUpgrade(m)
  PROVE  PackIInv'
<1>1. manager[m] \in MadeManagers
  BY MadeManager DEF ApproveUpgrade
<1>2. PICK p \in Packs, bundle \in Releases :
        p = manager[m].pack /\ bundle = manager[m].pending
  BY <1>1 DEF ApproveUpgrade, Upgrades, MadeManagers, Bundles
<1> DEFINE declared == Declared[p][bundle]
           row == [bundle |-> bundle, status |-> manager[m].row.status, grants |-> declared]
           grown == approved[p] \cup declared
<1>3. declared \subseteq Permissions /\ grown \in SUBSET Permissions
  BY Asked DEF PackIInv, StoreType
<1>4. row \in Rows /\ row.grants = declared /\ row.bundle = bundle
  BY <1>1, <1>2, <1>3 DEF MadeManagers, Rows, Bundles
<1>5. manager[m].named = declared
  BY <1>2 DEF ApproveUpgrade, Upgrades, OwnerApproves, PermissionsShown
<1>6. Persists(m, row, "approved") /\ approved' = [approved EXCEPT ![p] = grown]
  BY <1>2, <1>5 DEF ApproveUpgrade, PackIInv, StoreType
<1>7. /\ approved[p] \subseteq grown /\ "approved" \in ManagerPlaces /\ "approved" # "enable"
  BY DEF ManagerPlaces
<1>9. GrantsWithin(grown, p, row)
  BY <1>2, <1>4 DEF GrantsWithin
<1>8. UNCHANGED <<release, candidate>> /\ manager[m].at # "idle"
  BY DEF ApproveUpgrade
<1> HIDE DEF row, grown
<1> QED BY <1>2, <1>3, <1>4, <1>6, <1>7, <1>8, <1>9, Persisting

-----------------------------------------------------------------------------
(* The theorems                                                              *)

LEMMA PackNextKeeps ==
  ASSUME PackAssumption, PackIInv, [PackNext]_packVars
  PROVE  PackIInv'
<1>1. CASE UNCHANGED packVars
  BY <1>1 DEF PackIInv, StoreType, RowOK, GrantsWithin, packVars
<1>2. CASE Deploy
  BY <1>2 DEF Deploy, PackIInv, StoreType, RowOK, GrantsWithin
<1>3. ASSUME NEW m \in Managers, Same(m)
      PROVE  PackIInv'
  BY <1>3, GoingKeeps DEF Same, ManagerPlaces
<1>4. ASSUME NEW m \in Managers, Settled(m)
      PROVE  PackIInv'
  BY <1>4, GoingKeeps DEF Settled, ManagerPlaces
<1>5. ASSUME NEW m \in Managers, Crash(m)
      PROVE  PackIInv'
  BY <1>5, GoingKeeps DEF Crash, ManagerPlaces
<1> QED
  BY <1>1, <1>2, <1>3, <1>4, <1>5, OpenManagerKeeps, LoadRowsKeeps, LoadCandidatesKeeps,
     DiscoverKeeps, ProposeUpgradeKeeps, TakeOverKeeps, ForgetCandidateKeeps,
     ApproveUpgradeKeeps, InstallKeeps, EnableKeeps
  DEF PackNext

\* The rows, and the copy that every manager holds, have only what was approved and
\* all that an installed Pack declares (PackManager, whose _persist writes the copy).
THEOREM PackInvariance == PackSpec => []PackIInv
<1>1. PackInit => PackIInv
  BY PackAssumption
  DEF PackInit, PackIInv, StoreType, Rows, Bundles, RowOK, GrantsWithin, Absent, NoManager
<1>2. PackIInv /\ [PackNext]_packVars => PackIInv'
  BY PackAssumption, PackNextKeeps
<1> QED BY <1>1, <1>2, PTL DEF PackSpec

\* The rows of pack_installations and pack_upgrade_candidates keep their types.
THEOREM PackTypeCorrect == PackSpec => []PackTypeOK
<1>1. PackIInv => PackTypeOK
  BY DEF PackIInv, StoreType, Rows, Bundles, PackTypeOK
<1> QED BY <1>1, PackInvariance, PTL

\* An enabled Pack holds what its bundle declares, and no Pack holds a permission
\* that was not approved for it, however the managers overwrite each other.
THEOREM NoAuthorityIsImplicit == PackSpec => []AuthorityIsApproved
<1>1. PackIInv => AuthorityIsApproved
  BY DEF PackIInv, RowOK, GrantsWithin, AuthorityIsApproved
<1> QED BY <1>1, PackInvariance, PTL

-----------------------------------------------------------------------------
(* A superseded memory leads to a current one, for any number of requests and
   memories.

   A save writes back a copy that may be old, so the order in which memories
   supersede each other has to be there not in the table alone but in the table
   and every copy taken together (Leads): a copy is a table that may come back. A
   correction adds one step to it, to a memory that nothing leads from, and a
   removal takes one away; so it never turns back on itself (NeverTurnsBack).    *)

MemoryIds == DOMAIN Remembered \cup Askers
AskerPlaces == {"idle", "load", "save", "remove", "done"}
AskerAnswers == {"none", "saved", "removed", "blocked", "raised"}

AskersShape ==
  \E W, C : asker \in [Askers -> [at : AskerPlaces, wish : W, copy : C, answer : AskerAnswers]]

\* a table, or a copy of it, that refers to its own rows only
Closed(M) ==
  /\ DOMAIN M \subseteq MemoryIds
  /\ M \in [DOMAIN M -> [fact : Facts, by : DOMAIN M \cup {NoMemory}]]
\* what has a row was there at first, or was made by a request that has ended
MadeBefore(M) == \A b \in Askers \cap DOMAIN M : asker[b].at = "done"

WishOK(a) ==
  asker[a].at \in {"load", "save"} =>
    \/ asker[a].wish.kind \in {"remember", "learn"} /\ asker[a].wish.fact \in Facts
    \/ asker[a].wish.kind = "correct"
MemoryCopyOK(a) ==
  asker[a].at = "save" => Closed(asker[a].copy) /\ MadeBefore(asker[a].copy)

\* x is superseded by y in the table or in a copy that is still to be saved
Leads(x, y) ==
  \/ x \in DOMAIN memories /\ memories[x].by = y
  \/ \E a \in Askers : /\ asker[a].at = "save"
                       /\ x \in DOMAIN asker[a].copy /\ asker[a].copy[x].by = y
NeverTurnsBack ==
  \A S \in (SUBSET MemoryIds) \ {{}} : \E m \in S : \A y \in S : ~Leads(m, y)

MemoryIInv ==
  /\ AskersShape
  /\ Closed(memories) /\ MadeBefore(memories)
  /\ \A a \in Askers : WishOK(a) /\ MemoryCopyOK(a)
  /\ NeverTurnsBack

-----------------------------------------------------------------------------
(* What a request becomes                                                    *)

Becomes(a, at, wish, copy, answer) ==
  /\ AskersShape'
  /\ asker'[a].at = at /\ asker'[a].wish = wish
  /\ asker'[a].copy = copy /\ asker'[a].answer = answer
  /\ \A b \in Askers \ {a} : asker'[b] = asker[b]

LEMMA RepliesBecomes ==
  ASSUME AskersShape, NEW a \in Askers, NEW answer \in AskerAnswers, Replies(a, answer)
  PROVE  Becomes(a, "done", asker[a].wish, "nothing", answer)
<1>1. PICK W, C : asker \in [Askers -> [at : AskerPlaces, wish : W, copy : C, answer : AskerAnswers]]
  BY DEF AskersShape
<1>2. asker' \in [Askers -> [at : AskerPlaces, wish : W, copy : C \cup {"nothing"}, answer : AskerAnswers]]
  BY <1>1 DEF Replies, AskerPlaces
<1> QED BY <1>1, <1>2 DEF Becomes, AskersShape, Replies

LEMMA AskBecomes ==
  ASSUME AskersShape, NEW a \in Askers, AskMemory(a)
  PROVE  \E w \in Wishes, at \in {"remove", "load"} :
           /\ at = "load" => w.kind # "remove"
           /\ Becomes(a, at, w, asker[a].copy, asker[a].answer)
<1>1. PICK W, C : asker \in [Askers -> [at : AskerPlaces, wish : W, copy : C, answer : AskerAnswers]]
  BY DEF AskersShape
<1>2. PICK w \in Wishes :
        asker' = [asker EXCEPT ![a].wish = w, ![a].at = IF w.kind = "remove" THEN "remove" ELSE "load"]
  BY DEF AskMemory
<1>3. PICK at \in {"remove", "load"} : at = IF w.kind = "remove" THEN "remove" ELSE "load"
  OBVIOUS
<1>4. asker' = [asker EXCEPT ![a].wish = w, ![a].at = at]
  BY <1>2, <1>3
<1>5. asker' \in [Askers -> [at : AskerPlaces, wish : W \cup {w}, copy : C, answer : AskerAnswers]]
  BY <1>1, <1>4 DEF AskerPlaces
<1> QED BY <1>1, <1>3, <1>4, <1>5 DEF Becomes, AskersShape

LEMMA LoadBecomes ==
  ASSUME AskersShape, NEW a \in Askers, LoadMemories(a)
  PROVE  Becomes(a, "save", asker[a].wish, memories, asker[a].answer)
<1>1. PICK W, C : asker \in [Askers -> [at : AskerPlaces, wish : W, copy : C, answer : AskerAnswers]]
  BY DEF AskersShape
<1>2. asker' \in [Askers -> [at : AskerPlaces, wish : W, copy : C \cup {memories}, answer : AskerAnswers]]
  BY <1>1 DEF LoadMemories, AskerPlaces
<1> QED BY <1>1, <1>2 DEF Becomes, AskersShape, LoadMemories

\* A request that moves on without an end of another kind leaves made what was made.
LEMMA MadeStays ==
  ASSUME NEW M, MadeBefore(M), NEW a \in Askers, asker[a].at # "done",
         \A b \in Askers \ {a} : asker'[b] = asker[b]
  PROVE  \A b \in Askers \cap DOMAIN M : asker'[b].at = "done"
BY DEF MadeBefore

\* Nothing new leads anywhere, or only to a memory that nothing leads from.
LEMMA NeverTurnsBackStays ==
  ASSUME NeverTurnsBack, \A x, y \in MemoryIds : Leads(x, y)' => Leads(x, y)
  PROVE  NeverTurnsBack'
BY DEF NeverTurnsBack

LEMMA NeverTurnsBackGrows ==
  ASSUME NeverTurnsBack, NEW a \in MemoryIds,
         \A x, y \in MemoryIds : Leads(x, y)' => Leads(x, y) \/ y = a,
         \A y \in MemoryIds : ~Leads(a, y)'
  PROVE  NeverTurnsBack'
<1> SUFFICES ASSUME NEW S \in (SUBSET MemoryIds) \ {{}}
             PROVE  \E m \in S : \A y \in S : ~Leads(m, y)'
  BY DEF NeverTurnsBack
<1>1. CASE a \in S
  BY <1>1
<1>2. CASE a \notin S
  BY <1>2 DEF NeverTurnsBack
<1> QED BY <1>1, <1>2

-----------------------------------------------------------------------------
(* The changed copy                                                          *)

\* What a request saves: its copy, with its own memory new and current in it, and
\* at most one current memory superseded by that one.
LEMMA ChangedIs ==
  ASSUME MemoryIInv, NEW a \in Askers, asker[a].at = "save",
         asker[a].wish.kind # "remember" =>
           Cardinality(Target(asker[a].copy, asker[a].wish)) = 1
  PROVE  LET copy == asker[a].copy
             new == Changed(copy, a, asker[a].wish)
         IN /\ a \notin DOMAIN copy
            /\ DOMAIN new = DOMAIN copy \cup {a}
            /\ new \in [DOMAIN new -> [fact : Facts, by : DOMAIN new \cup {NoMemory}]]
            /\ new[a].by = NoMemory
            /\ \A m \in DOMAIN copy : new[m].by \in {copy[m].by, a}
<1> DEFINE copy == asker[a].copy
           wish == asker[a].wish
           new == Changed(copy, a, wish)
<1>1. Closed(copy) /\ MadeBefore(copy) /\ a \notin DOMAIN copy
  BY DEF MemoryIInv, MemoryCopyOK, MadeBefore
<1>2. ASSUME NEW fact \in Facts
      PROVE  LET added == AddMemory(copy, a, fact) IN
             /\ DOMAIN added = DOMAIN copy \cup {a}
             /\ added \in [DOMAIN copy \cup {a} ->
                             [fact : Facts, by : DOMAIN copy \cup {NoMemory}]]
             /\ added[a].by = NoMemory
             /\ \A m \in DOMAIN copy : added[m] = copy[m]
  BY <1>1 DEF AddMemory, Memory, Closed
<1>3. CASE wish.kind = "remember"
  <2>1. wish.fact \in Facts
    BY <1>3 DEF MemoryIInv, WishOK
  <2> QED BY <1>1, <1>2, <1>3, <2>1 DEF Changed
<1>4. CASE wish.kind # "remember"
  <2>1. Target(copy, wish) # {}
    BY <1>4, FS_EmptySet
  <2>2. PICK old \in Target(copy, wish) : new = CorrectMemory(copy, a, old)
    BY <1>4, <2>1 DEF Changed
  <2>3. old \in DOMAIN copy
    BY <2>2 DEF Target, Correctable, Current
  <2>4. copy[old].fact \in Facts /\ old # a
    BY <1>1, <2>3 DEF Closed
  <2>5. PICK added : added = AddMemory(copy, a, copy[old].fact)
    OBVIOUS
  <2>6. new = [added EXCEPT ![old].by = a]
    BY <2>2, <2>5 DEF CorrectMemory
  <2>7. /\ DOMAIN added = DOMAIN copy \cup {a}
        /\ added \in [DOMAIN copy \cup {a} -> [fact : Facts, by : DOMAIN copy \cup {NoMemory}]]
        /\ added[a].by = NoMemory
        /\ \A m \in DOMAIN copy : added[m] = copy[m]
    BY <1>2, <2>4, <2>5
  <2>8. DOMAIN new = DOMAIN copy \cup {a}
    BY <2>6, <2>7
  <2>9. new \in [DOMAIN copy \cup {a} -> [fact : Facts, by : DOMAIN copy \cup {a, NoMemory}]]
    BY <2>3, <2>6, <2>7
  <2>10. new[a].by = NoMemory /\ \A m \in DOMAIN copy : new[m].by \in {copy[m].by, a}
    BY <2>3, <2>4, <2>6, <2>7
  <2> HIDE DEF new
  <2>11. new \in [DOMAIN new -> [fact : Facts, by : DOMAIN new \cup {NoMemory}]]
    <3>1. DOMAIN copy \cup {a, NoMemory} = DOMAIN new \cup {NoMemory}
      BY <2>8
    <3> QED BY <2>8, <2>9, <3>1
  <2> QED BY <1>1, <2>8, <2>10, <2>11 DEF new
<1> QED BY <1>3, <1>4

-----------------------------------------------------------------------------
(* The steps                                                                 *)

LEMMA AskMemoryKeeps ==
  ASSUME MemoryIInv, NEW a \in Askers, AskMemory(a)
  PROVE  MemoryIInv'
<1>1. PICK w \in Wishes, at \in {"remove", "load"} :
        /\ at = "load" => w.kind # "remove"
        /\ Becomes(a, at, w, asker[a].copy, asker[a].answer)
  BY AskBecomes DEF MemoryIInv
<1>2. asker[a].at = "idle" /\ memories' = memories
  BY DEF AskMemory
<1>3. \A b \in Askers : WishOK(b)' /\ MemoryCopyOK(b)'
  <2> TAKE b \in Askers
  <2>1. CASE b = a
    BY <1>1, <2>1 DEF Becomes, WishOK, MemoryCopyOK, Wishes
  <2>2. CASE b # a
    BY <1>1, <1>2, <2>2, MadeStays DEF Becomes, MemoryIInv, WishOK, MemoryCopyOK, MadeBefore, Closed
  <2> QED BY <2>1, <2>2
<1>4. \A x, y \in MemoryIds : Leads(x, y)' => Leads(x, y)
  BY <1>1, <1>2 DEF Becomes, Leads
<1>5. Closed(memories)' /\ MadeBefore(memories)'
  BY <1>1, <1>2 DEF Becomes, MemoryIInv, Closed, MadeBefore
<1> QED BY <1>1, <1>3, <1>4, <1>5, NeverTurnsBackStays DEF MemoryIInv, Becomes

LEMMA LoadMemoriesKeeps ==
  ASSUME MemoryIInv, NEW a \in Askers, LoadMemories(a)
  PROVE  MemoryIInv'
<1>1. Becomes(a, "save", asker[a].wish, memories, asker[a].answer)
  BY LoadBecomes DEF MemoryIInv
<1>2. asker[a].at = "load" /\ memories' = memories
  BY DEF LoadMemories
<1>3. Closed(memories)' /\ MadeBefore(memories)'
  BY <1>1, <1>2 DEF Becomes, MemoryIInv, Closed, MadeBefore
<1>4. \A b \in Askers : WishOK(b)' /\ MemoryCopyOK(b)'
  <2> TAKE b \in Askers
  <2>1. CASE b = a
    BY <1>1, <1>2, <1>3, <2>1 DEF Becomes, MemoryIInv, WishOK, MemoryCopyOK, Closed, MadeBefore
  <2>2. CASE b # a
    BY <1>1, <1>2, <2>2 DEF Becomes, MemoryIInv, WishOK, MemoryCopyOK, MadeBefore, Closed
  <2> QED BY <2>1, <2>2
<1>5. \A x, y \in MemoryIds : Leads(x, y)' => Leads(x, y)
  BY <1>1, <1>2 DEF Becomes, Leads
<1> QED BY <1>1, <1>3, <1>4, <1>5, NeverTurnsBackStays DEF MemoryIInv, Becomes

\* A request that ends and leaves the table as it is.
LEMMA AskerEndingKeeps ==
  ASSUME MemoryIInv, NEW a \in Askers, NEW answer \in AskerAnswers, Replies(a, answer),
         UNCHANGED memories
  PROVE  MemoryIInv'
<1>1. Becomes(a, "done", asker[a].wish, "nothing", answer)
  BY RepliesBecomes DEF MemoryIInv
<1>2. \A b \in Askers : asker[b].at = "done" => asker'[b].at = "done"
  BY <1>1 DEF Becomes
<1>3. Closed(memories)' /\ MadeBefore(memories)'
  BY <1>2 DEF MemoryIInv, Closed, MadeBefore
<1>4. \A b \in Askers : WishOK(b)' /\ MemoryCopyOK(b)'
  <2> TAKE b \in Askers
  <2>1. CASE b = a
    BY <1>1, <2>1 DEF Becomes, WishOK, MemoryCopyOK
  <2>2. CASE b # a
    BY <1>1, <1>2, <2>2 DEF Becomes, MemoryIInv, WishOK, MemoryCopyOK, MadeBefore, Closed
  <2> QED BY <2>1, <2>2
<1>5. \A x, y \in MemoryIds : Leads(x, y)' => Leads(x, y)
  BY <1>1 DEF Becomes, Leads
<1> QED BY <1>1, <1>3, <1>4, <1>5, NeverTurnsBackStays DEF MemoryIInv, Becomes

LEMMA RemoveMemoryKeeps ==
  ASSUME MemoryIInv, NEW a \in Askers, RemoveMemory(a)
  PROVE  MemoryIInv'
<1> DEFINE id == asker[a].wish.id
<1>1. CASE ~Deletable(id)
  <2>1. UNCHANGED memories /\ \E answer \in AskerAnswers : Replies(a, answer)
    BY <1>1 DEF RemoveMemory, AskerAnswers
  <2> QED BY <2>1, AskerEndingKeeps
<1>2. CASE Deletable(id)
  <2>1. /\ memories' = [m \in DOMAIN memories \ {id} |-> memories[m]]
        /\ Replies(a, "removed")
    BY <1>2 DEF RemoveMemory
  <2>2. Becomes(a, "done", asker[a].wish, "nothing", "removed")
    BY <2>1, RepliesBecomes DEF MemoryIInv, AskerAnswers
  <2>3. \A b \in Askers : asker[b].at = "done" => asker'[b].at = "done"
    BY <2>2 DEF Becomes
  <2>4. /\ DOMAIN memories' = DOMAIN memories \ {id}
        /\ \A m \in DOMAIN memories' : memories'[m] = memories[m]
    BY <2>1
  <2>5. \A m \in DOMAIN memories' : memories[m].by # id
    BY <1>2, <2>4 DEF Deletable, Referenced
  <2>6. Closed(memories)' /\ MadeBefore(memories)'
    <3>1. MadeBefore(memories)'
      BY <2>3, <2>4 DEF MemoryIInv, MadeBefore
    <3>2. memories' \in [DOMAIN memories' -> [fact : Facts, by : DOMAIN memories' \cup {NoMemory}]]
      <4>1. ASSUME NEW m \in DOMAIN memories'
            PROVE  memories'[m] \in [fact : Facts, by : DOMAIN memories' \cup {NoMemory}]
        <5>1. memories[m] \in [fact : Facts, by : DOMAIN memories \cup {NoMemory}]
          BY <2>4 DEF MemoryIInv, Closed
        <5>2. memories[m].by \in DOMAIN memories' \cup {NoMemory}
          BY <2>4, <2>5, <5>1
        <5> QED BY <2>4, <5>1, <5>2
      <4> QED BY <2>1, <2>4, <4>1
    <3> QED BY <2>4, <3>1, <3>2 DEF MemoryIInv, Closed
  <2>7. \A b \in Askers : WishOK(b)' /\ MemoryCopyOK(b)'
    <3> TAKE b \in Askers
    <3>1. CASE b = a
      BY <2>2, <3>1 DEF Becomes, WishOK, MemoryCopyOK
    <3>2. CASE b # a
      BY <2>2, <2>3, <3>2 DEF Becomes, MemoryIInv, WishOK, MemoryCopyOK, MadeBefore, Closed
    <3> QED BY <3>1, <3>2
  <2>8. \A x, y \in MemoryIds : Leads(x, y)' => Leads(x, y)
    BY <2>2, <2>4 DEF Becomes, Leads
  <2> QED BY <2>2, <2>6, <2>7, <2>8, NeverTurnsBackStays DEF MemoryIInv, Becomes
<1> QED BY <1>1, <1>2

LEMMA SaveMemoriesKeeps ==
  ASSUME MemoryAssumption, MemoryIInv, NEW a \in Askers, SaveMemories(a)
  PROVE  MemoryIInv'
<1>1. PICK copy : copy = asker[a].copy
  OBVIOUS
<1>2. PICK new : new = Changed(copy, a, asker[a].wish)
  OBVIOUS
<1>3. /\ a \notin DOMAIN copy
      /\ DOMAIN new = DOMAIN copy \cup {a}
      /\ new \in [DOMAIN new -> [fact : Facts, by : DOMAIN new \cup {NoMemory}]]
      /\ new[a].by = NoMemory
      /\ \A m \in DOMAIN copy : new[m].by \in {copy[m].by, a}
  BY <1>1, <1>2, ChangedIs DEF SaveMemories
<1>4. asker[a].at = "save" /\ memories' = Saved(memories, new) /\ Replies(a, "saved")
  BY <1>1, <1>2 DEF SaveMemories
<1>5. Closed(copy) /\ MadeBefore(copy)
  BY <1>1, <1>4 DEF MemoryIInv, MemoryCopyOK
<1>6. Becomes(a, "done", asker[a].wish, "nothing", "saved")
  BY <1>4, RepliesBecomes DEF MemoryIInv, AskerAnswers
<1>7. \A b \in Askers : asker[b].at = "done" \/ b = a => asker'[b].at = "done"
  BY <1>6 DEF Becomes
<1>8. /\ DOMAIN memories' = DOMAIN memories \cup DOMAIN copy \cup {a}
      /\ \A m \in DOMAIN new : memories'[m] = new[m]
      /\ \A m \in DOMAIN memories' \ DOMAIN new : memories'[m] = memories[m] /\ m \in DOMAIN memories
      /\ memories' \in [DOMAIN memories' -> {memories'[m] : m \in DOMAIN memories'}]
  BY <1>3, <1>4 DEF Saved
<1>9. MadeBefore(memories)'
  BY <1>5, <1>7, <1>8 DEF MemoryIInv, MadeBefore
<1>10. Closed(memories)'
  <2>1. DOMAIN memories' \subseteq MemoryIds
    BY <1>5, <1>8 DEF MemoryIInv, Closed, MemoryIds
  <2>2. ASSUME NEW m \in DOMAIN memories'
        PROVE  memories'[m] \in [fact : Facts, by : DOMAIN memories' \cup {NoMemory}]
    <3>1. CASE m \in DOMAIN new
      <4>1. new[m] \in [fact : Facts, by : DOMAIN new \cup {NoMemory}]
        BY <1>3, <3>1
      <4>2. DOMAIN new \subseteq DOMAIN memories'
        BY <1>3, <1>8
      <4> QED BY <1>8, <3>1, <4>1, <4>2
    <3>2. CASE m \notin DOMAIN new
      <4>1. memories[m] \in [fact : Facts, by : DOMAIN memories \cup {NoMemory}]
        BY <1>8, <3>2 DEF MemoryIInv, Closed
      <4> QED BY <1>8, <3>2, <4>1
    <3> QED BY <3>1, <3>2
  <2> QED BY <1>8, <2>1, <2>2 DEF Closed
<1>11. \A b \in Askers : WishOK(b)' /\ MemoryCopyOK(b)'
  <2> TAKE b \in Askers
  <2>1. CASE b = a
    BY <1>6, <2>1 DEF Becomes, WishOK, MemoryCopyOK
  <2>2. CASE b # a
    BY <1>6, <1>7, <2>2 DEF Becomes, MemoryIInv, WishOK, MemoryCopyOK, MadeBefore, Closed
  <2> QED BY <2>1, <2>2
<1>12. ASSUME NEW x \in MemoryIds, NEW y \in MemoryIds, Leads(x, y)'
       PROVE  (Leads(x, y) \/ y = a) /\ x # a
  <2>1. NoMemory \notin MemoryIds
    BY DEF MemoryAssumption, MemoryIds
  <2>2. CASE x \in DOMAIN memories' /\ memories'[x].by = y
    <3>1. x # a
      BY <1>3, <1>8, <2>1, <2>2
    <3>2. CASE x \in DOMAIN new
      BY <1>1, <1>3, <1>4, <1>8, <2>2, <3>1, <3>2 DEF Leads
    <3>3. CASE x \notin DOMAIN new
      BY <1>8, <2>2, <3>1, <3>3 DEF Leads
    <3> QED BY <3>1, <3>2, <3>3
  <2>3. CASE \E b \in Askers : /\ asker'[b].at = "save"
                               /\ x \in DOMAIN asker'[b].copy /\ asker'[b].copy[x].by = y
    <3>1. PICK b \in Askers : /\ asker'[b].at = "save"
                              /\ x \in DOMAIN asker'[b].copy /\ asker'[b].copy[x].by = y
      BY <2>3
    <3>2. asker'[b] = asker[b]
      BY <1>6, <3>1 DEF Becomes
    <3>3. MadeBefore(asker[b].copy)
      BY <3>1, <3>2 DEF MemoryIInv, MemoryCopyOK
    <3>4. x # a
      BY <1>4, <3>1, <3>2, <3>3 DEF MadeBefore
    <3> QED BY <3>1, <3>2, <3>4 DEF Leads
  <2>4. \/ x \in DOMAIN memories' /\ memories'[x].by = y
        \/ \E b \in Askers : /\ asker'[b].at = "save"
                            /\ x \in DOMAIN asker'[b].copy /\ asker'[b].copy[x].by = y
    BY <1>12 DEF Leads
  <2> QED BY <2>2, <2>3, <2>4
<1>13. NeverTurnsBack'
  <2>1. a \in MemoryIds
    BY DEF MemoryIds
  <2>2. \A x, y \in MemoryIds : Leads(x, y)' => Leads(x, y) \/ y = a
    BY <1>12
  <2>3. \A y \in MemoryIds : ~Leads(a, y)'
    BY <1>12, <2>1
  <2> QED BY <2>1, <2>2, <2>3, NeverTurnsBackGrows DEF MemoryIInv
<1> QED BY <1>6, <1>9, <1>10, <1>11, <1>13 DEF MemoryIInv, Becomes

LEMMA MemoryInitOK ==
  ASSUME MemoryAssumption, MemoryInit
  PROVE  MemoryIInv
<1>1. asker \in [Askers -> [at : AskerPlaces, wish : {[kind |-> "none"]}, copy : {"nothing"},
                            answer : AskerAnswers]]
  BY DEF MemoryInit, NoWish, AskerPlaces, AskerAnswers
<1>2. \A a \in Askers : asker[a].at = "idle"
  BY DEF MemoryInit, NoWish
<1>3. DOMAIN memories = DOMAIN Remembered
  BY DEF MemoryInit
<1>4. \A m \in DOMAIN memories : memories[m] = Memory(Remembered[m])
  BY DEF MemoryInit
<1>5. Closed(memories)
  BY <1>3, <1>4 DEF MemoryInit, Memory, Closed, MemoryIds, MemoryAssumption
<1>6. \A x, y \in MemoryIds : ~Leads(x, y)
  BY <1>2, <1>3, <1>4 DEF Leads, Memory, MemoryAssumption, MemoryIds
<1>7. MadeBefore(memories) /\ \A a \in Askers : WishOK(a) /\ MemoryCopyOK(a)
  BY <1>2, <1>3 DEF MadeBefore, WishOK, MemoryCopyOK, MemoryAssumption
<1> QED BY <1>1, <1>5, <1>6, <1>7 DEF MemoryIInv, AskersShape, NeverTurnsBack

LEMMA MemoryNextKeeps ==
  ASSUME MemoryAssumption, MemoryIInv, [MemoryNext]_memoryVars
  PROVE  MemoryIInv'
<1>1. CASE UNCHANGED memoryVars
  <2>1. UNCHANGED <<memories, asker>>
    BY <1>1 DEF memoryVars
  <2>2. AskersShape' /\ Closed(memories)' /\ MadeBefore(memories)'
    BY <2>1 DEF MemoryIInv, AskersShape, Closed, MadeBefore
  <2>3. \A a \in Askers : WishOK(a)' /\ MemoryCopyOK(a)'
    BY <2>1 DEF MemoryIInv, WishOK, MemoryCopyOK, Closed, MadeBefore
  <2>4. \A x, y \in MemoryIds : Leads(x, y)' => Leads(x, y)
    BY <2>1 DEF Leads
  <2> QED BY <2>2, <2>3, <2>4, NeverTurnsBackStays DEF MemoryIInv
<1>2. ASSUME NEW a \in Askers, Refuse(a) \/ SaveFails(a)
      PROVE  MemoryIInv'
  <2>1. UNCHANGED memories /\ \E answer \in AskerAnswers : Replies(a, answer)
    BY <1>2 DEF Refuse, SaveFails, AskerAnswers
  <2> QED BY <2>1, AskerEndingKeeps
<1> QED
  BY <1>1, <1>2, AskMemoryKeeps, LoadMemoriesKeeps, SaveMemoriesKeeps, RemoveMemoryKeeps
  DEF MemoryNext

-----------------------------------------------------------------------------
(* The theorems                                                              *)

\* The table and the copies that are to be saved refer to their own rows and,
\* taken together, never lead from a memory back to itself.
THEOREM MemoryInvariance == MemorySpec => []MemoryIInv
<1>1. MemoryInit => MemoryIInv
  BY MemoryAssumption, MemoryInitOK
<1>2. MemoryIInv /\ [MemoryNext]_memoryVars => MemoryIInv'
  BY MemoryAssumption, MemoryNextKeeps
<1> QED BY <1>1, <1>2, PTL DEF MemorySpec

\* The rows of personal_memories and the requests keep their types.
THEOREM MemoryTypeCorrect == MemorySpec => []MemoryTypeOK
<1>1. MemoryIInv => MemoryTypeOK
  BY DEF MemoryIInv, AskersShape, AskerPlaces, AskerAnswers, Closed, MemoryIds, MemoryTypeOK
<1> QED BY <1>1, MemoryInvariance, PTL

\* Whatever stale copies are saved over corrections and removals, a superseded
\* memory leads, correction by correction, to a current one.
THEOREM EveryCorrectionLeadsToCurrent == MemorySpec => []CorrectionsLeadToCurrent
<1>1. MemoryIInv => CorrectionsLeadToCurrent
  <2> SUFFICES ASSUME MemoryIInv PROVE CorrectionsLeadToCurrent
    OBVIOUS
  <2>1. \A m \in DOMAIN memories : memories[m].by \in DOMAIN memories \cup {NoMemory}
    BY DEF MemoryIInv, Closed
  <2>2. ASSUME NEW S \in (SUBSET DOMAIN memories) \ {{}}
        PROVE  \E m \in S : memories[m].by \notin S
    <3>1. S \in (SUBSET MemoryIds) \ {{}}
      BY DEF MemoryIInv, Closed
    <3>2. PICK m \in S : \A y \in S : ~Leads(m, y)
      BY <3>1 DEF MemoryIInv, NeverTurnsBack
    <3> QED BY <3>2 DEF Leads
  <2> QED BY <2>1, <2>2 DEF CorrectionsLeadToCurrent
<1> QED BY <1>1, MemoryInvariance, PTL
=============================================================================
