---------------------------- MODULE PackLifecycle ----------------------------
(* PackManager and PostgresPackStore of src/aegis/pack_lifecycle.py, as cli.py
   (_pack_state, _pack_enable) and interaction.py use them.

   Every request makes a PackManager, which reads the rows of all Packs once,
   reconciles them with the bundles its release declares and persists whole rows
   out of its own copy, a commit at a time. The rows of different Packs are
   independent, so a request here is about one Pack. disable and remove have no
   caller in src/ and are left out.                                            *)
EXTENDS Naturals, FiniteSets

CONSTANTS
  Packs,
  AutoEnabled,   \* the Packs the interaction enables by itself
  Releases,      \* 1..n: each declares a bundle of every Pack
  Declared,      \* the permissions a Pack declares in each release
  Managers,      \* requests, each with its PackManager
  Crashes        \* bound: how many requests die between two commits

ASSUME PackAssumption ==
  /\ AutoEnabled \subseteq Packs
  /\ Releases = 1..Cardinality(Releases) /\ 1 \in Releases
  /\ DOMAIN Declared = Packs /\ \A p \in Packs : DOMAIN Declared[p] = Releases
  /\ Crashes \in Nat

VARIABLES
  release,     \* the release that new requests run
  installed,   \* pack_installations: Absent, or bundle, status and grants
  candidate,   \* pack_upgrade_candidates: the release of the pending bundle, 0 for none
  approved,    \* what was ever approved for a Pack: by the owner, or at auto-enablement
  manager

packVars == <<release, installed, candidate, approved, manager>>

Absent == [bundle |-> 0, status |-> "absent", grants |-> {}]
NoManager == [at |-> "idle", kind |-> "none", row |-> Absent, pending |-> 0]

PackInit ==
  /\ release = 1
  /\ installed = [p \in Packs |-> Absent]
  /\ candidate = [p \in Packs |-> 0]
  /\ approved = [p \in Packs |-> {}]
  /\ manager = [m \in Managers |-> NoManager]

Goes(m, to) == manager' = [manager EXCEPT ![m].at = to]

\* a newer release is deployed
Deploy ==
  /\ release + 1 \in Releases
  /\ release' = release + 1
  /\ UNCHANGED <<installed, candidate, approved, manager>>

\* a turn of the conversation, a look at the Packs, or the owner's approval of a
\* Pack with the permissions the owner names
OpenManager(m) ==
  /\ manager[m].at = "idle"
  /\ \E p \in Packs, kind \in {"turn", "view", "approve"} :
       \E named \in (IF kind = "approve" THEN {Declared[p][r] : r \in Releases} ELSE {{}}) :
         manager' = [manager EXCEPT ![m] =
           [at |-> "load", kind |-> kind, pack |-> p, ours |-> release, named |-> named,
            row |-> Absent, pending |-> 0]]
  /\ UNCHANGED <<release, installed, candidate, approved>>

\* PackManager(): the rows, and in another statement the candidates
LoadRows(m) ==
  /\ manager[m].at = "load"
  /\ manager' = [manager EXCEPT ![m].at = "candidates", ![m].row = installed[manager[m].pack]]
  /\ UNCHANGED <<release, installed, candidate, approved>>

LoadCandidates(m) ==
  /\ manager[m].at = "candidates"
  /\ manager' = [manager EXCEPT ![m].at = "reconcile", ![m].pending = candidate[manager[m].pack]]
  /\ UNCHANGED <<release, installed, candidate, approved>>

\* _persist: the whole row, out of the manager's copy
Persists(m, row, to) ==
  /\ installed' = [installed EXCEPT ![manager[m].pack] = row]
  /\ manager' = [manager EXCEPT ![m].row = row, ![m].at = to]

-----------------------------------------------------------------------------
(* reconcile()                                                               *)

\* Fault: a changed bundle is taken over whatever it asks for.
AsksForNothing(m) == {}
\* the permissions of the declared bundle that nobody granted
Expansion(m) == Declared[manager[m].pack][manager[m].ours] \ manager[m].row.grants
Differs(m) == manager[m].row.bundle # manager[m].ours

Discover(m) ==
  /\ manager[m].at = "reconcile" /\ manager[m].row = Absent
  /\ Persists(m, [bundle |-> manager[m].ours, status |-> "discovered", grants |-> {}], "settle")
  /\ UNCHANGED <<release, candidate, approved>>

\* a bundle that asks for more is a candidate until it is approved
ProposeUpgrade(m) ==
  /\ manager[m].at = "reconcile" /\ manager[m].row # Absent
  /\ Differs(m) /\ Expansion(m) # {}
  /\ candidate' = [candidate EXCEPT ![manager[m].pack] = manager[m].ours]
  /\ manager' = [manager EXCEPT ![m].pending = manager[m].ours, ![m].at = "settle"]
  /\ UNCHANGED <<release, installed, approved>>

\* one that asks for no more replaces the row, and its grants shrink to what it declares
TakeOver(m) ==
  /\ manager[m].at = "reconcile" /\ manager[m].row # Absent
  /\ Differs(m) /\ Expansion(m) = {}
  /\ Persists(m, [bundle |-> manager[m].ours, status |-> manager[m].row.status,
                  grants |-> manager[m].row.grants
                               \cap Declared[manager[m].pack][manager[m].ours]], "forget")
  /\ UNCHANGED <<release, candidate, approved>>

Same(m) ==
  /\ manager[m].at = "reconcile" /\ manager[m].row # Absent /\ ~Differs(m)
  /\ Goes(m, "settle")
  /\ UNCHANGED <<release, installed, candidate, approved>>

\* delete_candidate(), in a transaction of its own
ForgetCandidate(m) ==
  /\ manager[m].at \in {"forget", "approved"}
  /\ candidate' = [candidate EXCEPT ![manager[m].pack] = 0]
  /\ manager' = [manager EXCEPT ![m].pending = 0,
                                ![m].at = IF @ = "forget" THEN "settle" ELSE "done"]
  /\ UNCHANGED <<release, installed, approved>>

-----------------------------------------------------------------------------
(* install(), enable(), approve_upgrade()                                    *)

\* the permissions the owner has to name: those of the pending bundle, if there is one
PermissionsShown(m) ==
  Declared[manager[m].pack][IF manager[m].pending # 0 THEN manager[m].pending
                            ELSE manager[m].row.bundle]
AutoEnables(m) == manager[m].kind = "turn" /\ manager[m].pack \in AutoEnabled
OwnerApproves(m) == manager[m].kind = "approve" /\ manager[m].named = PermissionsShown(m)
\* the pending upgrade is what the owner approves; without one, it is the Pack
Upgrades(m) == OwnerApproves(m) /\ manager[m].pending # 0
MayEnable(m) == AutoEnables(m) \/ (OwnerApproves(m) /\ manager[m].pending = 0)

\* a view ends here, a turn on a Pack it does not enable, and an approval that
\* does not name every declared permission or finds the Pack enabled
Settled(m) ==
  /\ manager[m].at = "settle" /\ ~Upgrades(m)
  /\ MayEnable(m) => manager[m].row.status = "enabled"
  /\ Goes(m, "done")
  /\ UNCHANGED <<release, installed, candidate, approved>>

ApproveUpgrade(m) ==
  LET bundle == manager[m].pending IN
  /\ manager[m].at = "settle" /\ Upgrades(m)
  /\ Persists(m, [bundle |-> bundle, status |-> manager[m].row.status,
                  grants |-> Declared[manager[m].pack][bundle]], "approved")
  /\ approved' = [approved EXCEPT ![manager[m].pack] = @ \cup manager[m].named]
  /\ UNCHANGED <<release, candidate>>

Install(m) ==
  LET declared == Declared[manager[m].pack][manager[m].row.bundle] IN
  /\ manager[m].at = "settle" /\ MayEnable(m) /\ manager[m].row.status = "discovered"
  /\ Persists(m, [manager[m].row EXCEPT !.status = "installed", !.grants = declared], "enable")
  /\ approved' = [approved EXCEPT ![manager[m].pack] = @ \cup declared]
  /\ UNCHANGED <<release, candidate>>

Enable(m) ==
  /\ \/ manager[m].at = "enable"
     \/ manager[m].at = "settle" /\ MayEnable(m) /\ manager[m].row.status = "installed"
  /\ Persists(m, [manager[m].row EXCEPT !.status = "enabled"], "done")
  /\ UNCHANGED <<release, candidate, approved>>

\* the process of the request dies between two of its commits
Crash(m) ==
  /\ manager[m].at \notin {"idle", "done", "dead"}
  /\ Cardinality({n \in Managers : manager[n].at = "dead"}) < Crashes
  /\ Goes(m, "dead")
  /\ UNCHANGED <<release, installed, candidate, approved>>

PackNext ==
  \/ Deploy
  \/ \E m \in Managers :
       \/ OpenManager(m) \/ LoadRows(m) \/ LoadCandidates(m)
       \/ Discover(m) \/ ProposeUpgrade(m) \/ TakeOver(m) \/ Same(m) \/ ForgetCandidate(m)
       \/ Settled(m) \/ ApproveUpgrade(m) \/ Install(m) \/ Enable(m) \/ Crash(m)

PackSpec == PackInit /\ [][PackNext]_packVars

-----------------------------------------------------------------------------
(* Properties                                                                *)

PackTypeOK ==
  /\ release \in Releases
  /\ \A p \in Packs :
       /\ installed[p].bundle \in Releases \cup {0}
       /\ installed[p].status \in {"absent", "discovered", "installed", "enabled"}
       /\ candidate[p] \in Releases \cup {0}

\* "Installation never grants authority implicitly" (pack_lifecycle.py:1): however
\* managers with old copies overwrite each other's rows, die between two commits
\* or run different releases, an enabled Pack holds every permission its bundle
\* declares, and a row never holds one that was not approved for that Pack.
AuthorityIsApproved ==
  \A p \in Packs :
    /\ installed[p].grants \subseteq approved[p]
    /\ installed[p].status = "enabled"
         => Declared[p][installed[p].bundle] \subseteq installed[p].grants
=============================================================================
