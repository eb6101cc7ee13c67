---------------------------- MODULE ReleaseSwitch ----------------------------
(* aegis owner upgrade and rollback, _owner_switch_release of src/aegis/cli.py:
   the drop-in of the service is rewritten for another release, systemd reloads it
   and restarts the service, and a probe decides. On any failure the old text is
   written back and the service restarted again, errors of that ignored.

   Three places name a release: the drop-in on disk, what systemd loaded from it,
   and the process that runs. The owner's command is one process: it can be
   interrupted between any two steps, and the next one starts from what it left.
   Writing the drop-in truncates it first, so it can be left empty; what the unit
   starts without it is outside the repository, any release or none.            *)
EXTENDS Naturals

CONSTANTS
  Versions,      \* the versioned releases on disk
  Startable,     \* those whose process comes up
  InstalledFirst,
  Down,          \* no process
  Blank,         \* an empty drop-in, or a text that was not read
  Switches       \* bound: commands the owner gives

ASSUME ReleaseAssumption ==
  /\ Startable \subseteq Versions /\ InstalledFirst \in Startable
  /\ {Down, Blank} \cap Versions = {} /\ Switches \in Nat

VARIABLES
  dropin,    \* the release that release.conf names
  loaded,    \* the release in the environment that systemd loaded
  serving,   \* the release of the process that answers
  order,     \* the command: where it is, its target, what it read, what went wrong
  switches

releaseVars == <<dropin, loaded, serving, order, switches>>

NoOrder == [at |-> "idle", target |-> Down, original |-> Blank, failed |-> FALSE, restored |-> TRUE]

ReleaseInit ==
  /\ dropin = InstalledFirst /\ loaded = InstalledFirst /\ serving = InstalledFirst
  /\ order = NoOrder
  /\ switches = 0

AtRest == order.at \in {"idle", "ready", "failed", "interrupted"}

\* _owner_release_target: another release than the one that systemd loaded, which
\* is what the status calls running
StartSwitch ==
  /\ AtRest /\ switches < Switches
  /\ switches' = switches + 1
  /\ \E target \in Versions \ {loaded} :
       order' = [NoOrder EXCEPT !.at = "read", !.target = target]
  /\ UNCHANGED <<dropin, loaded, serving>>

\* the text is read, or cannot be; one that is empty or that names the target already
\* is incomplete
ReadDropin ==
  /\ order.at = "read"
  /\ \/ order' = [order EXCEPT !.original = dropin,
                     !.at = IF dropin \in {Blank, order.target} THEN "restore" ELSE "write"]
     \/ order' = [order EXCEPT !.at = "restore"]
  /\ UNCHANGED <<dropin, loaded, serving, switches>>

\* write_text: the file is opened, which empties it, and then written
WriteDropin ==
  /\ order.at = "write"
  /\ \/ dropin' = order.target /\ order' = [order EXCEPT !.at = "reload"]
     \/ dropin' \in {dropin, Blank} /\ order' = [order EXCEPT !.at = "restore"]
  /\ UNCHANGED <<loaded, serving, switches>>

\* daemon-reload works, or returns an error, or times out with either effect
Reloads(done, refused, timeout) ==
  \/ loaded' = dropin /\ order' = done
  \/ loaded' = loaded /\ order' = refused
  \/ loaded' \in {loaded, dropin} /\ order' = timeout
ReloadUnit ==
  /\ order.at = "reload"
  /\ LET on == [order EXCEPT !.at = "restart"]
     IN Reloads(on, [on EXCEPT !.failed = TRUE], [order EXCEPT !.at = "restore"])
  /\ UNCHANGED <<dropin, serving, switches>>

\* a release that cannot come up is down by the time of the probe
Started ==
  CASE loaded = Blank -> Startable \cup {Down}
    [] loaded \in Startable -> {loaded}
    [] OTHER -> {Down}
\* restart works, or returns an error with the old process or none, or times out
Bounces(done, refused, timeout) ==
  \/ serving' \in Started /\ order' = done
  \/ serving' \in {serving, Down} /\ order' = refused
  \/ serving' \in {serving, Down} \cup Started /\ order' = timeout
RestartService ==
  /\ order.at = "restart"
  /\ LET on == [order EXCEPT !.at = "probe"]
     IN Bounces(on, [on EXCEPT !.failed = TRUE], [order EXCEPT !.at = "restore"])
  /\ UNCHANGED <<dropin, loaded, switches>>

\* Fault: a process that answers the probe is enough.
AnswersProbe == serving # Down
\* the probe of the service's port, and the return codes so far
Healthy == serving # Down /\ ~order.failed

ProbeService ==
  /\ order.at = "probe"
  /\ order' = [order EXCEPT !.at = IF Healthy THEN "ready" ELSE "restore"]
  /\ UNCHANGED <<dropin, loaded, serving, switches>>

\* the restoration: each of its steps may fail, and an exception ends it; without a
\* text that was read nothing is written
RestoreDropin ==
  /\ order.at = "restore"
  /\ \/ /\ dropin' = IF order.original = Blank THEN dropin ELSE order.original
        /\ order' = [order EXCEPT !.at = "reloadOld"]
     \/ /\ order.original # Blank
        /\ dropin' \in {dropin, Blank}
        /\ order' = [order EXCEPT !.at = "failed", !.restored = FALSE]
  /\ UNCHANGED <<loaded, serving, switches>>
ReloadOld ==
  /\ order.at = "reloadOld"
  /\ LET on == [order EXCEPT !.at = "restartOld"]
     IN Reloads(on, [on EXCEPT !.restored = FALSE],
                [order EXCEPT !.at = "failed", !.restored = FALSE])
  /\ UNCHANGED <<dropin, serving, switches>>
RestartOld ==
  /\ order.at = "restartOld"
  /\ LET end == [order EXCEPT !.at = "failed"]
         unrestored == [end EXCEPT !.restored = FALSE]
     IN Bounces(end, unrestored, unrestored)
  /\ UNCHANGED <<dropin, loaded, switches>>

\* the command is interrupted, perhaps with the drop-in just emptied
Interrupted ==
  /\ ~AtRest
  /\ order' = [NoOrder EXCEPT !.at = "interrupted"]
  /\ \/ UNCHANGED dropin
     \/ /\ order.at \in {"write", "restore"} /\ order.original # Blank
        /\ dropin' = Blank
  /\ UNCHANGED <<loaded, serving, switches>>

\* aegis owner restart
OwnerRestart ==
  /\ AtRest
  /\ serving' \in {serving, Down} \cup Started
  /\ order' = NoOrder
  /\ UNCHANGED <<dropin, loaded, switches>>

ReleaseNext ==
  \/ StartSwitch \/ ReadDropin \/ WriteDropin \/ ReloadUnit \/ RestartService \/ ProbeService
  \/ RestoreDropin \/ ReloadOld \/ RestartOld \/ Interrupted \/ OwnerRestart

ReleaseSpec == ReleaseInit /\ [][ReleaseNext]_releaseVars

-----------------------------------------------------------------------------
(* Properties                                                                *)

ReleaseTypeOK ==
  /\ dropin \in Versions \cup {Blank} /\ loaded \in Versions \cup {Blank}
  /\ order.original \in Versions \cup {Blank}
  /\ serving \in Startable \cup {Down} /\ order.target \in Versions \cup {Down}
  /\ order.failed \in BOOLEAN /\ order.restored \in BOOLEAN
  /\ switches \in 0..Switches

\* Whatever an interrupted or failed command left in the three places, a switch
\* that answers ready has put its target in all of them. One that answers failed, its
\* restoration gone through, has put back the text it had read, and made systemd and
\* the process follow the drop-in, also when there was nothing to put back.
SwitchAnswersTruth ==
  /\ order.at = "ready" => \A r \in {dropin, loaded, serving} : r = order.target
  /\ order.at = "failed" /\ order.restored =>
       /\ order.original # Blank => dropin = order.original
       /\ loaded = dropin
       /\ dropin # Blank => serving \in {dropin, Down}
=============================================================================
