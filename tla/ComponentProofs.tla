--------------------------- MODULE ComponentProofs ---------------------------
(* What is proved of the components around the kernel, a section for each: the
   inductive invariant of the component, a lemma for each of its actions, and the
   properties that follow for every value of its constants.                      *)
EXTENDS Gateway, ReleaseSwitch, Attachments, Conversations, ExternalEffects,
        DeveloperWorker, FinanceLedger, HouseholdStore, PreparedEffects, FiniteSetTheorems,
        WellFoundedInduction, TLAPS

-----------------------------------------------------------------------------
(* Gateway: a success means that the command ran.                             *)

Frames == [from : Commands, what : {"prompt", "marker", "echo", "output"}]
Shells == {"none", "starting", "ready", "typed", "submitted", "ran", "prompting"}
AfterRun == {"ran", "prompting"}

\* A terminal is opened for one command, once; a command ran when its shell is past it,
\* and a marker on the channel, or a success, is of a command that ran.
GatewayIInv ==
  /\ GatewayTypeOK
  /\ shell \in [Commands -> Shells]
  /\ ran \in [Commands -> {0, 1}]
  /\ outcome \in [Commands -> {"none", "look", "succeeded", "failed", "unknown"}]
  /\ frames \in Seq(Frames)
  /\ phase # "open" => command \in Commands
  /\ phase = "marker" => count < MaxReads
  /\ phase \notin {"open", "ready"} => MaxReads > 0
  /\ \A c \in Commands :
       /\ ran[c] = 1 <=> shell[c] \in AfterRun
       /\ c > command \/ (c = command /\ phase = "open") => shell[c] = "none"
       /\ outcome[c] = "succeeded" => ran[c] = 1
  /\ \A i \in 1..Len(frames) : frames[i].what = "marker" => ran[frames[i].from] = 1

\* what the channel needs of its events, by itself
FramesOK(fs, runs) ==
  /\ fs \in Seq(Frames)
  /\ \A i \in 1..Len(fs) : fs[i].what = "marker" => runs[fs[i].from] = 1

LEMMA EmittedOK ==
  ASSUME NEW runs, FramesOK(frames, runs), NEW e \in Frames, Emit(e),
         e.what = "marker" => runs[e.from] = 1
  PROVE  FramesOK(frames', runs)
BY DEF FramesOK, Emit

LEMMA ReceivedOK ==
  ASSUME NEW runs, FramesOK(frames, runs), Receive
  PROVE  FramesOK(frames', runs)
BY DEF FramesOK, Receive

LEMMA ShellKeeps ==
  ASSUME GatewayAssumption, GatewayIInv, NEW c \in Commands,
         ShellStarts(c) \/ ShellRuns(c) \/ ShellPrompts(c)
  PROVE  GatewayIInv'
<1>1. ran'[c] \in {0, 1} /\ \A d \in Commands : ran[d] = 1 => ran'[d] = 1
  BY DEF GatewayIInv, ShellStarts, ShellRuns, ShellPrompts, AfterRun
<1>2. PICK runs : runs = ran'
  OBVIOUS
<1>3. FramesOK(frames, runs)
  <2>1. ASSUME NEW i \in 1..Len(frames)
        PROVE  frames[i].from \in Commands
    <3>1. frames \in Seq(Frames)
      BY DEF GatewayIInv
    <3>2. frames[i] \in Frames
      BY <3>1
    <3> QED BY <3>2 DEF Frames
  <2> QED BY <1>1, <1>2, <2>1 DEF FramesOK, GatewayIInv
<1>4. FramesOK(frames', runs)
  <2>1. CASE ShellStarts(c) \/ ShellPrompts(c)
    <3>1. Frame(c, "prompt") \in Frames /\ Frame(c, "prompt").what # "marker"
      BY DEF Frame, Frames
    <3> QED BY <1>3, <2>1, <3>1, EmittedOK DEF ShellStarts, ShellPrompts
  <2>2. CASE ShellRuns(c)
    <3>1. PICK what \in {"marker", "output"} : Emit(Frame(c, what))
      BY <2>2 DEF ShellRuns
    <3>2. Frame(c, what) \in Frames /\ Frame(c, what).from = c
      BY DEF Frame, Frames
    <3>3. runs[c] = 1
      BY <1>2, <2>2 DEF ShellRuns, GatewayIInv, AfterRun
    <3> QED BY <1>3, <3>1, <3>2, <3>3, EmittedOK
  <2> QED BY <2>1, <2>2
<1>5. UNCHANGED <<opened, command, phase, count, outcome>>
  BY DEF ShellStarts, ShellRuns, ShellPrompts
<1>6. /\ shell' \in [Commands -> Shells] /\ ran' \in [Commands -> {0, 1}]
      /\ \A d \in Commands : ran'[d] = 1 <=> shell'[d] \in AfterRun
      /\ \A d \in Commands : shell[d] = "none" => shell'[d] = "none"
  BY DEF GatewayIInv, ShellStarts, ShellRuns, ShellPrompts, AfterRun, Shells
<1>7. GatewayTypeOK'
  BY <1>5, <1>6 DEF GatewayIInv, GatewayTypeOK, Shells
<1> QED BY <1>1, <1>2, <1>4, <1>5, <1>6, <1>7 DEF GatewayIInv, FramesOK

LEMMA ExecutorKeeps ==
  ASSUME GatewayAssumption, GatewayIInv,
         OpenTerminal \/ AwaitReady \/ Type \/ Enter
  PROVE  GatewayIInv'
<1>1. CASE OpenTerminal
  BY <1>1 DEF OpenTerminal, GatewayIInv, GatewayTypeOK, GatewayAssumption, Commands, Shells, AfterRun
<1>2. CASE AwaitReady
  <2>1. FramesOK(frames, ran)
    BY DEF FramesOK, GatewayIInv
  <2>2. FramesOK(frames', ran)
    BY <1>2, <2>1, ReceivedOK DEF AwaitReady
  <2> QED BY <1>2, <2>2
    DEF AwaitReady, Receive, GatewayIInv, GatewayTypeOK, GatewayAssumption, FramesOK
<1>3. CASE Type
  <2>1. FramesOK(frames, ran) /\ command \in Commands
    BY <1>3 DEF FramesOK, GatewayIInv, Type
  <2>2. Frame(command, "echo") \in Frames /\ Frame(command, "echo").what # "marker"
    BY <2>1 DEF Frame, Frames
  <2>3. FramesOK(frames', ran)
    <3>1. CASE UNCHANGED frames
      BY <2>1, <3>1 DEF FramesOK
    <3>2. CASE Emit(Frame(command, "echo"))
      BY <2>1, <2>2, <3>2, EmittedOK
    <3> QED BY <1>3, <3>1, <3>2 DEF Type
  <2> QED BY <1>3, <2>1, <2>3
    DEF Type, GatewayIInv, GatewayTypeOK, GatewayAssumption, FramesOK, Shells, AfterRun
<1>4. CASE Enter
  BY <1>4 DEF Enter, GatewayIInv, GatewayTypeOK, GatewayAssumption, Shells, AfterRun
<1> QED BY <1>1, <1>2, <1>3, <1>4

LEMMA AwaitMarkerKeeps ==
  ASSUME GatewayAssumption, GatewayIInv, AwaitMarker
  PROVE  GatewayIInv'
<1>1. FramesOK(frames, ran) /\ command \in Commands
  BY DEF FramesOK, GatewayIInv, AwaitMarker
<1>2. FramesOK(frames', ran)
  BY <1>1, ReceivedOK DEF AwaitMarker
<1>3. Confirms[command] # "receipt" /\ IsMarker(Head(frames), command) => ran[command] = 1
  BY <1>1 DEF IsMarker, FramesOK, AwaitMarker, Receive
<1>4. /\ outcome' \in [Commands -> {"none", "look", "succeeded", "failed", "unknown"}]
      /\ \A c \in Commands : outcome'[c] = "succeeded" => ran[c] = 1
  <2>1. PICK seen \in {"look", "succeeded", "failed", outcome[command]} :
          /\ outcome' = [outcome EXCEPT ![command] = seen]
          /\ seen = "succeeded" => ran[command] = 1
    <3> DEFINE seen == IsMarker(Head(frames), command)
               ends == seen \/ (Confirms[command] = "receipt" /\ Receipt(command)) \/ count + 1 = MaxReads
               new == CASE ~ends -> outcome[command]
                        [] ends /\ Confirms[command] = "receipt" -> "look"
                        [] ends /\ Confirms[command] = "marker" -> IF seen THEN "succeeded" ELSE "failed"
    <3>5. Confirms[command] \in {"marker", "receipt"} /\ ends \in BOOLEAN
      BY <1>1 DEF GatewayAssumption
    <3>1. outcome' = [outcome EXCEPT ![command] = new]
      BY DEF AwaitMarker
    <3>2. new \in {"look", "succeeded", "failed", outcome[command]}
      BY <3>5
    <3>3. new = "succeeded" => outcome[command] = "succeeded" \/ (Confirms[command] # "receipt" /\ seen)
      BY <3>5
    <3>4. new = "succeeded" => ran[command] = 1
      BY <1>1, <1>3, <3>3 DEF GatewayIInv
    <3> QED BY <3>1, <3>2, <3>4
  <2> QED BY <1>1, <2>1 DEF GatewayIInv
<1>5. count' = count + 1 /\ (phase' = "marker" => count' < MaxReads) /\ count' <= MaxReads
  BY DEF AwaitMarker, Receive, GatewayIInv, GatewayTypeOK, GatewayAssumption
<1> QED BY <1>1, <1>2, <1>4, <1>5 DEF AwaitMarker, GatewayIInv, GatewayTypeOK, FramesOK, GatewayAssumption

LEMMA EndingKeeps ==
  ASSUME GatewayAssumption, GatewayIInv, Close \/ Breaks \/ GivesUp
  PROVE  GatewayIInv'
<1>1. /\ command \in Commands /\ command' = command + 1 /\ phase' = "open"
      /\ UNCHANGED <<shell, ran, count>> /\ opened' \in {opened, {}} /\ frames' \in {frames, <<>>}
  BY DEF Close, Breaks, GivesUp, GatewayIInv
<1>2. /\ outcome' \in [Commands -> {"none", "look", "succeeded", "failed", "unknown"}]
      /\ \A c \in Commands : outcome'[c] = "succeeded" => ran[c] = 1
  BY <1>1 DEF Close, Breaks, GivesUp, GatewayIInv, Receipt
<1>3. command' \in 1..(LastCommand + 1)
  BY <1>1 DEF GatewayAssumption, Commands
<1>4. FramesOK(frames', ran)
  <2>1. FramesOK(frames, ran) /\ FramesOK(<<>>, ran)
    BY DEF FramesOK, GatewayIInv
  <2> QED BY <1>1, <2>1
<1>5. \A c \in Commands : c > command' \/ c = command' => shell[c] = "none"
  BY <1>1 DEF GatewayIInv, Commands, GatewayAssumption
<1> QED BY <1>1, <1>2, <1>3, <1>4, <1>5 DEF GatewayIInv, GatewayTypeOK, FramesOK

\* A command has one terminal and runs in it once at most (gateway_rpc.py, and the
\* terminal executors of reference_packs.py).
THEOREM GatewayInvariance == GatewaySpec => []GatewayIInv
<1>1. GatewayInit => GatewayIInv
  BY GatewayAssumption DEF GatewayInit, GatewayIInv, GatewayTypeOK, GatewayAssumption, Commands,
     Shells, AfterRun
<1>2. GatewayIInv /\ [GatewayNext]_gatewayVars => GatewayIInv'
  <2>1. CASE UNCHANGED gatewayVars
    BY <2>1 DEF gatewayVars, GatewayIInv, GatewayTypeOK
  <2> QED BY <2>1, GatewayAssumption, ShellKeeps, ExecutorKeeps, AwaitMarkerKeeps, EndingKeeps
        DEF GatewayNext
<1> QED BY <1>1, <1>2, PTL DEF GatewaySpec

\* Whatever events of other terminals are on the channel, a command that is reported to
\* have succeeded has run, once.
THEOREM GatewaySuccessMeansRan == GatewaySpec => []SuccessMeansRan
<1>1. GatewayIInv => SuccessMeansRan
  BY DEF GatewayIInv, SuccessMeansRan
<1> QED BY <1>1, GatewayInvariance, PTL

\* A terminal is opened for a command that was asked for, and reading one ends.
THEOREM GatewayTypeCorrect == GatewaySpec => []GatewayTypeOK
<1>1. GatewayIInv => GatewayTypeOK
  BY DEF GatewayIInv
<1> QED BY <1>1, GatewayInvariance, PTL

-----------------------------------------------------------------------------
(* ReleaseSwitch: the answer of a switch is the truth.                        *)

OrderPlaces == {"idle", "read", "write", "reload", "restart", "probe", "ready", "restore",
                "reloadOld", "restartOld", "failed", "interrupted"}

\* what the command has done by the time it is at each place, whatever it found
ReleaseIInv ==
  /\ ReleaseTypeOK
  /\ order \in [at : OrderPlaces, target : Versions \cup {Down}, original : Versions \cup {Blank},
                failed : BOOLEAN, restored : BOOLEAN]
  /\ order.at \notin {"idle", "interrupted"} => order.target \in Versions
  /\ order.at \in {"write", "reload", "restart", "probe", "ready"} => order.original # Blank
  /\ order.at \in {"read", "write", "reload"} => ~order.failed
  /\ order.at = "write" => dropin = order.original
  /\ order.at \in {"reload", "restart", "probe", "ready"} => dropin = order.target
  /\ order.at \in {"restart", "probe", "ready"} /\ ~order.failed => loaded = order.target
  /\ order.at = "probe" /\ ~order.failed => serving \in {order.target, Down}
  /\ order.at = "ready" => loaded = order.target /\ serving = order.target
  /\ order.at \in {"reloadOld", "restartOld", "failed"} /\ order.restored
     /\ order.original # Blank => dropin = order.original
  /\ order.at \in {"restartOld", "failed"} /\ order.restored => loaded = dropin
  /\ order.at = "failed" /\ order.restored /\ dropin # Blank => serving \in {dropin, Down}

\* a process that was started anew is one that starts, of what systemd loaded if that
\* names a release
LEMMA StartedIs ==
  ASSUME ReleaseAssumption
  PROVE  Started \subseteq Startable \cup {Down} /\ (loaded # Blank => Started \subseteq {loaded, Down})
BY DEF Started, ReleaseAssumption

LEMMA ReleaseNextKeeps ==
  ASSUME ReleaseAssumption, ReleaseIInv, [ReleaseNext]_releaseVars
  PROVE  ReleaseIInv'
<1> USE DEF ReleaseIInv, ReleaseTypeOK, OrderPlaces
<1>1. CASE UNCHANGED releaseVars
  BY <1>1 DEF releaseVars
<1>2. CASE StartSwitch
  <2>1. PICK target \in Versions :
          order' = [at |-> "read", target |-> target, original |-> Blank, failed |-> FALSE,
                    restored |-> TRUE]
    BY <1>2 DEF StartSwitch, NoOrder
  <2>2. switches' \in 0..Switches /\ UNCHANGED <<dropin, loaded, serving>>
    BY <1>2, ReleaseAssumption DEF StartSwitch, ReleaseAssumption
  <2> QED BY <2>1, <2>2
<1>3. CASE ReadDropin
  BY <1>3 DEF ReadDropin
<1>4. CASE WriteDropin
  BY <1>4 DEF WriteDropin
<1>5. CASE ReloadUnit
  <2>1. order.at = "reload" /\ UNCHANGED <<dropin, serving, switches>> /\ loaded' \in {loaded, dropin}
    BY <1>5 DEF ReloadUnit, Reloads
  <2>2. CASE loaded' = dropin /\ order' = [order EXCEPT !.at = "restart"]
    BY <2>1, <2>2
  <2>3. CASE order' = [order EXCEPT !.at = "restart", !.failed = TRUE]
    BY <2>1, <2>3
  <2>4. CASE order' = [order EXCEPT !.at = "restore"]
    BY <2>1, <2>4
  <2> QED BY <1>5, <2>1, <2>2, <2>3, <2>4 DEF ReloadUnit, Reloads
<1>6. CASE RestartService
  <2>1. /\ order.at = "restart" /\ UNCHANGED <<dropin, loaded, switches>>
        /\ serving' \in Startable \cup {Down} /\ serving' \in {serving, Down} \cup Started
    BY <1>6, ReleaseAssumption, StartedIs DEF RestartService, Bounces
  <2>2. CASE serving' \in Started /\ order' = [order EXCEPT !.at = "probe"]
    <3>1. ~order.failed => serving' \in {order.target, Down}
      BY <2>1, <2>2, ReleaseAssumption, StartedIs DEF ReleaseAssumption
    <3> QED BY <2>1, <2>2, <3>1
  <2>3. CASE order' = [order EXCEPT !.at = "probe", !.failed = TRUE]
    BY <2>1, <2>3
  <2>4. CASE order' = [order EXCEPT !.at = "restore"]
    BY <2>1, <2>4
  <2> QED BY <1>6, <2>1, <2>2, <2>3, <2>4 DEF RestartService, Bounces
<1>7. CASE ProbeService
  BY <1>7 DEF ProbeService, Healthy
<1>8. CASE RestoreDropin
  BY <1>8 DEF RestoreDropin
<1>9. CASE ReloadOld
  BY <1>9 DEF ReloadOld, Reloads
<1>10. CASE RestartOld
  <2>1. /\ order.at = "restartOld" /\ UNCHANGED <<dropin, loaded, switches>>
        /\ serving' \in Startable \cup {Down}
    BY <1>10, ReleaseAssumption, StartedIs DEF RestartOld, Bounces
  <2>2. CASE serving' \in Started /\ order' = [order EXCEPT !.at = "failed"]
    <3>1. order.restored /\ dropin # Blank => serving' \in {dropin, Down}
      BY <2>1, <2>2, ReleaseAssumption, StartedIs
    <3> QED BY <2>1, <2>2, <3>1
  <2>3. CASE order' = [order EXCEPT !.at = "failed", !.restored = FALSE]
    BY <2>1, <2>3
  <2> QED BY <1>10, <2>1, <2>2, <2>3 DEF RestartOld, Bounces
<1>11. CASE Interrupted
  BY <1>11 DEF Interrupted, NoOrder
<1>12. CASE OwnerRestart
  BY <1>12, ReleaseAssumption, StartedIs DEF OwnerRestart, NoOrder, ReleaseAssumption
<1> QED BY <1>1, <1>2, <1>3, <1>4, <1>5, <1>6, <1>7, <1>8, <1>9, <1>10, <1>11, <1>12 DEF ReleaseNext

\* What the command has written, loaded and started by the time it is at each place
\* (the switch of the installed release).
THEOREM ReleaseInvariance == ReleaseSpec => []ReleaseIInv
<1>1. ReleaseInit => ReleaseIInv
  BY ReleaseAssumption DEF ReleaseInit, ReleaseIInv, ReleaseTypeOK, NoOrder, OrderPlaces, ReleaseAssumption
<1>2. ReleaseIInv /\ [ReleaseNext]_releaseVars => ReleaseIInv'
  BY ReleaseAssumption, ReleaseNextKeeps
<1> QED BY <1>1, <1>2, PTL DEF ReleaseSpec

\* Whatever an interrupted or failed command left behind, a switch that answers ready
\* has put its target in the drop-in, in systemd and in the process, and one that
\* answers failed with its restoration gone through has put back the text it had read,
\* and made systemd and the process follow the drop-in.
THEOREM TheSwitchAnswersTruth == ReleaseSpec => []SwitchAnswersTruth
<1>1. ReleaseIInv => SwitchAnswersTruth
  BY DEF ReleaseIInv, SwitchAnswersTruth
<1> QED BY <1>1, ReleaseInvariance, PTL

\* The drop-in and systemd name a release or nothing, and what serves is one that starts.
THEOREM ReleaseTypeCorrect == ReleaseSpec => []ReleaseTypeOK
<1>1. ReleaseIInv => ReleaseTypeOK
  BY DEF ReleaseIInv
<1> QED BY <1>1, ReleaseInvariance, PTL

-----------------------------------------------------------------------------
(* Attachments: what an upload returned stays.                                *)

UploadPlaces == {"look", "stage", "insert", "place", "commit", "over"}

\* The uncommitted row belongs to the one upload that is placing or committing, which
\* holds it only while no row is committed; the committed row is of an upload that has
\* ended, so nobody takes its file away.
AttachmentsIInv ==
  /\ AttachmentsTypeOK
  /\ upload \in [Uploads -> [at : UploadPlaces, returned : Uploads \cup {"none"}]]
  /\ inserted # "none" => row = "none"
  /\ \A u \in Uploads :
       /\ upload[u].at \in {"place", "commit"} <=> inserted = u
       /\ upload[u].at = "commit" => u \in placed
       /\ u = row => upload[u].at = "over" /\ u \in placed \cup unheard
       /\ upload[u].returned # "none" => upload[u].returned = row

LEMMA AttachmentsNextKeeps ==
  ASSUME AttachmentAssumption, AttachmentsIInv, [AttachmentsNext]_attachmentVars
  PROVE  AttachmentsIInv'
<1> USE DEF AttachmentsIInv, AttachmentsTypeOK, UploadPlaces
<1>1. CASE UNCHANGED attachmentVars
  BY <1>1 DEF attachmentVars
<1>2. ASSUME NEW u \in Uploads, Look(u)
      PROVE  AttachmentsIInv'
  BY <1>2 DEF Look, ReturnRow, Step
<1>3. ASSUME NEW u \in Uploads, Stage(u)
      PROVE  AttachmentsIInv'
  BY <1>3 DEF Stage, Step
<1>4. ASSUME NEW u \in Uploads, InsertRow(u)
      PROVE  AttachmentsIInv'
  BY <1>4, AttachmentAssumption DEF InsertRow, ReturnRow, Step, AttachmentAssumption
<1>5. ASSUME NEW u \in Uploads, PlaceFile(u)
      PROVE  AttachmentsIInv'
  BY <1>5 DEF PlaceFile, Place, Step
<1>6. ASSUME NEW u \in Uploads, CommitRow(u)
      PROVE  AttachmentsIInv'
  BY <1>6, AttachmentAssumption DEF CommitRow, ReturnRow, AttachmentAssumption
<1>7. ASSUME NEW u \in Uploads, Fail(u)
      PROVE  AttachmentsIInv'
  BY <1>7, AttachmentAssumption DEF Fail, Step, AttachmentAssumption
<1>8. CASE Die
  BY <1>8, AttachmentAssumption DEF Die, AttachmentAssumption
<1> QED BY <1>1, <1>2, <1>3, <1>4, <1>5, <1>6, <1>7, <1>8 DEF AttachmentsNext

\* Who holds the row of a content, and whose file is there, while uploads of it overlap.
THEOREM AttachmentsInvariance == AttachmentsSpec => []AttachmentsIInv
<1>1. AttachmentsInit => AttachmentsIInv
  BY AttachmentAssumption DEF AttachmentsInit, AttachmentsIInv, AttachmentsTypeOK, UploadPlaces, AttachmentAssumption
<1>2. AttachmentsIInv /\ [AttachmentsNext]_attachmentVars => AttachmentsIInv'
  BY AttachmentAssumption, AttachmentsNextKeeps
<1> QED BY <1>1, <1>2, PTL DEF AttachmentsSpec

\* Every attachment that an upload returned is the one committed row of its content and
\* has its file, whatever other uploads of the same content do, fail or leave behind.
THEOREM AttachmentsStay == AttachmentsSpec => []AttachmentsAreKept
<1>1. AttachmentsIInv => AttachmentsAreKept
  BY DEF AttachmentsIInv, AttachmentsAreKept, AttachmentsTypeOK
<1> QED BY <1>1, AttachmentsInvariance, PTL

\* A row and a file are of an upload, and an upload returns a row of one or none.
THEOREM AttachmentsTypeCorrect == AttachmentsSpec => []AttachmentsTypeOK
<1>1. AttachmentsIInv => AttachmentsTypeOK
  BY DEF AttachmentsIInv
<1> QED BY <1>1, AttachmentsInvariance, PTL

-----------------------------------------------------------------------------
(* Conversations: a message is handed on once.                                *)

Answers == {"completed", "retryable", Unfinished}
HasRow(m, role) == RowOf(m, role) \in rows

\* A request that may hand its message on is the one that inserted the owner's row, and
\* nobody handed the message on before it; from there on the row is there, and an answer
\* that came from the boundary is given with the reply's row.
PostOK(p) ==
  /\ post[p].at \notin {"idle", "over"} => post[p].correlation \in Correlations
  /\ post[p].at \in {"hand", "boundary", "reply"} =>
       post[p].conversation \in Conversations /\ HasRow(Message(p), "owner")
  /\ post[p].at = "hand" => handed[Message(p)] = 0
  /\ post[p].at = "respond" /\ post[p].code \in Answers =>
       HasRow(Message(p), "owner") /\ HasRow(Message(p), "aegis")

ConversationsIInv ==
  /\ ConversationsTypeOK
  /\ \A m \in Messages : handed[m] <= 1 /\ (handed[m] = 1 => HasRow(m, "owner"))
  /\ \A p \in Posts : PostOK(p)
  /\ \A p, o \in Posts :
       post[p].at = "hand" /\ post[o].at = "hand" /\ Message(p) = Message(o) => p = o

PostPlaces == {"idle", "arrived", "append", "hand", "boundary", "reply", "respond", "over"}

\* One request goes on, to a place other than the hand-over; the counts stay.
LEMMA OnePostKeeps ==
  ASSUME ConversationsIInv, NEW p \in Posts, NEW new, post' = [post EXCEPT ![p] = new],
         ConversationsTypeOK', UNCHANGED handed, rows \subseteq rows',
         new.at # "hand", PostOK(p)'
  PROVE  ConversationsIInv'
<1>1. \A o \in Posts \ {p} : post'[o] = post[o]
  BY DEF ConversationsIInv, ConversationsTypeOK
<1>2. post'[p] = new
  BY DEF ConversationsIInv, ConversationsTypeOK
<1>3. \A o \in Posts : PostOK(o)'
  BY <1>1 DEF ConversationsIInv, PostOK, HasRow, Message
<1>4. \A m \in Messages : handed'[m] <= 1 /\ (handed'[m] = 1 => HasRow(m, "owner")')
  BY DEF ConversationsIInv, HasRow
<1>5. \A s, o \in Posts :
        post'[s].at = "hand" /\ post'[o].at = "hand" /\ Message(s)' = Message(o)' => s = o
  BY <1>1, <1>2 DEF ConversationsIInv, Message
<1> QED BY <1>3, <1>4, <1>5 DEF ConversationsIInv


PostRecords ==
  [at : PostPlaces, correlation : Correlations \cup {None}, kind : {"plain", "files", "project"},
   conversation : Conversations \cup {Elsewhere}, again : BOOLEAN, heard : BOOLEAN, code : Codes]

AllRows == Conversations \X Correlations \X {"owner", "aegis"}
Counts == [Messages -> Nat]
States == [Correlations -> {"unknown", Unfinished, "completed", "retryable"}]
Forms == [pending : Correlations \cup {None}, waits : Posts \cup {None},
          button : {"Send", "Retry", "Recheck status"}]
\* everything but the requests has its type
RestOK ==
  /\ rows \subseteq AllRows /\ handed \in Counts /\ canonical \in States /\ browser \in Forms
  /\ mishaps \in 0..Mishaps

LEMMA RestType ==
  ASSUME ConversationsIInv
  PROVE  RestOK
BY DEF ConversationsIInv, ConversationsTypeOK, RestOK, AllRows, Counts, States, Forms

LEMMA CountIs ==
  ASSUME ConversationsIInv, NEW m \in Messages
  PROVE  handed[m] \in {0, 1} /\ (handed[m] = 1 => HasRow(m, "owner"))
<1>1. handed[m] \in Nat
  BY RestType DEF RestOK, Counts
<1>2. handed[m] <= 1 /\ (handed[m] = 1 => HasRow(m, "owner"))
  BY DEF ConversationsIInv
<1> QED BY <1>1, <1>2

LEMMA FormIs ==
  ASSUME ConversationsIInv,
         browser' \in {browser, Keep("Retry"), Keep("Recheck status"), Forget}
  PROVE  browser' \in Forms
<1>1. browser \in Forms
  BY RestType DEF RestOK
<1>2. Forget \in Forms
  BY DEF Forms, Forget
<1>3. ASSUME NEW button \in {"Retry", "Recheck status"}
      PROVE  Keep(button) \in Forms
  BY <1>1 DEF Forms, Keep
<1> QED BY <1>1, <1>2, <1>3

LEMMA MishapIs ==
  ASSUME ConversationAssumption, ConversationsIInv, Mishap \/ UNCHANGED mishaps
  PROVE  mishaps' \in 0..Mishaps
<1>1. Mishaps \in Nat /\ mishaps \in 0..Mishaps
  BY RestType DEF ConversationAssumption, RestOK
<1> QED BY <1>1 DEF Mishap

LEMMA PostType ==
  ASSUME ConversationsIInv
  PROVE  post \in [Posts -> PostRecords]
BY DEF ConversationsIInv, ConversationsTypeOK, PostRecords, PostPlaces

\* the message of a request that is being served in a conversation of the owner's
LEMMA MessageIs ==
  ASSUME ConversationsIInv, NEW p \in Posts, post[p].conversation \in Conversations,
         post[p].at \notin {"idle", "over"}
  PROVE  Message(p) \in Messages /\ \A role \in {"owner", "aegis"} : RowOf(Message(p), role) \in AllRows
BY DEF ConversationsIInv, PostOK, Message, Messages, RowOf, AllRows

\* A request goes on to another place, for the same message.
LEMMA GoingOnKeeps ==
  ASSUME ConversationsIInv, NEW p \in Posts, NEW new \in PostRecords,
         post' = [post EXCEPT ![p] = new], new.correlation = post[p].correlation,
         new.conversation = post[p].conversation \/ new.at = "over",
         RestOK', UNCHANGED handed, rows \subseteq rows', new.at # "hand",
         post[p].at \notin {"idle", "over"} \/ new.at = "over",
         new.at \in {"boundary", "reply"} =>
           new.conversation \in Conversations /\ HasRow(Message(p), "owner")',
         new.at = "respond" /\ new.code \in Answers =>
           HasRow(Message(p), "owner")' /\ HasRow(Message(p), "aegis")'
  PROVE  ConversationsIInv'
<1>1. post'[p] = new
  BY PostType
<1>2. ConversationsTypeOK'
  BY PostType DEF RestOK, ConversationsTypeOK, PostRecords, PostPlaces, AllRows, Counts, States, Forms
<1>3. PostOK(p)'
  BY <1>1 DEF PostOK, ConversationsIInv
<1> QED BY <1>2, <1>3, OnePostKeeps

\* A request is answered without its message having been answered.
LEMMA TurningAwayKeeps ==
  ASSUME ConversationsIInv, NEW p \in Posts, NEW code \in Codes \ Answers, Respond(p, code),
         post[p].at \notin {"idle", "over"}, RestOK', UNCHANGED handed, rows \subseteq rows'
  PROVE  ConversationsIInv'
<1> DEFINE new == [post[p] EXCEPT !.at = "respond", !.code = code]
<1>1. post' = [post EXCEPT ![p] = new]
  BY PostType DEF Respond, PostRecords
<1>2. /\ new \in PostRecords /\ new.at = "respond" /\ new.code = code
      /\ new.correlation = post[p].correlation /\ new.conversation = post[p].conversation
  BY PostType DEF PostRecords, PostPlaces
<1> HIDE DEF new
<1> QED BY <1>1, <1>2, GoingOnKeeps

LEMMA TurnAwayKeeps ==
  ASSUME ConversationAssumption, ConversationsIInv, NEW p \in Posts,
         TurnAway(p) \/ PrepareMessage(p) \/ BoundaryRefuses(p)
  PROVE  ConversationsIInv'
<1>1. /\ post[p].at \in {"arrived", "boundary"}
      /\ UNCHANGED <<rows, handed, canonical, browser>> /\ mishaps' \in 0..Mishaps
  BY MishapIs DEF TurnAway, PrepareMessage, BoundaryRefuses
<1>2. RestOK'
  BY <1>1, RestType DEF RestOK
<1>3. CASE \E code \in {"identity_unavailable", "request_denied", "request_unavailable"} : Respond(p, code)
  <2>1. PICK code \in Codes \ Answers : Respond(p, code)
    BY <1>3 DEF Codes, Answers, Unfinished
  <2> QED BY <1>1, <1>2, <2>1, TurningAwayKeeps
<1>4. CASE Goto(p, "append")
  <2> DEFINE new == [post[p] EXCEPT !.at = "append"]
  <2>1. post' = [post EXCEPT ![p] = new] /\ new \in PostRecords /\ new.at = "append"
        /\ new.correlation = post[p].correlation /\ new.conversation = post[p].conversation
    BY <1>4, PostType DEF Goto, PostRecords, PostPlaces
  <2> HIDE DEF new
  <2> QED BY <1>1, <1>2, <2>1, GoingOnKeeps
<1> QED BY <1>3, <1>4 DEF TurnAway, PrepareMessage, BoundaryRefuses

LEMMA AppendOwnerKeeps ==
  ASSUME ConversationAssumption, ConversationsIInv, NEW p \in Posts, AppendOwner(p)
  PROVE  ConversationsIInv'
<1>1. /\ post[p].at = "append" /\ UNCHANGED <<handed, canonical, browser>> /\ mishaps' \in 0..Mishaps
      /\ rows' \in {rows, rows \cup {RowOf(Message(p), "owner")}}
      /\ rows' # rows => Inserts(p, "owner")
  BY MishapIs DEF AppendOwner, AddRow
<1>2. Inserts(p, "owner") =>
        /\ post[p].conversation \in Conversations /\ Message(p) \in Messages
        /\ RowOf(Message(p), "owner") \in AllRows \ rows
  BY <1>1, MessageIs DEF Inserts
<1>3. RestOK' /\ rows \subseteq rows'
  BY <1>1, <1>2, RestType DEF RestOK
<1>4. CASE \E code \in {"request_denied", "request_unavailable"} : Respond(p, code)
  <2>1. PICK code \in Codes \ Answers : Respond(p, code)
    BY <1>4 DEF Codes, Answers, Unfinished
  <2> QED BY <1>1, <1>3, <2>1, TurningAwayKeeps
<1>5. CASE Inserts(p, "owner") /\ AddRow(p, "owner") /\ Goto(p, "reply")
  <2> DEFINE new == [post[p] EXCEPT !.at = "reply"]
  <2>1. /\ post' = [post EXCEPT ![p] = new] /\ new \in PostRecords /\ new.at = "reply"
        /\ new.correlation = post[p].correlation /\ new.conversation = post[p].conversation
    BY <1>5, PostType DEF Goto, PostRecords, PostPlaces
  <2> HIDE DEF new
  <2>2. Message(p)' = Message(p)
    BY <2>1, PostType DEF Message
  <2>3. HasRow(Message(p), "owner")'
    BY <1>5, <2>2 DEF AddRow, HasRow, RowOf
  <2> QED BY <1>1, <1>2, <1>3, <1>5, <2>1, <2>3, GoingOnKeeps
<1>6. CASE Inserts(p, "owner") /\ AddRow(p, "owner") /\ Goto(p, "hand")
  <2> DEFINE m == Message(p)
  <2>1. m \in Messages /\ ~HasRow(m, "owner") /\ post[p].conversation \in Conversations
    BY <1>2, <1>6 DEF HasRow
  <2>2. handed[m] = 0
    BY <2>1, CountIs
  <2>3. \A o \in Posts : post[o].at = "hand" => Message(o) # m
    BY <2>1 DEF ConversationsIInv, PostOK
  <2>4. /\ \A o \in Posts \ {p} : post'[o] = post[o]
        /\ post'[p] = [post[p] EXCEPT !.at = "hand"]
        /\ post' \in [Posts -> PostRecords]
    BY <1>6, PostType DEF Goto, PostRecords, PostPlaces
  <2>5. /\ post'[p].at = "hand" /\ post'[p].correlation = post[p].correlation
        /\ post'[p].conversation = post[p].conversation
    BY <2>4, PostType DEF PostRecords
  <2>6. Message(p)' = m /\ \A o \in Posts \ {p} : Message(o)' = Message(o)
    BY <2>4, <2>5 DEF Message
  <2>7. ConversationsTypeOK'
    BY <1>3, <2>4 DEF ConversationsTypeOK, RestOK, PostRecords, PostPlaces, AllRows, Counts, States, Forms
  <2>8. HasRow(Message(p), "owner")'
    BY <1>6, <2>6 DEF AddRow, HasRow, RowOf
  <2>9. PostOK(p)'
    BY <1>1, <2>1, <2>2, <2>5, <2>6, <2>8 DEF PostOK, ConversationsIInv
  <2>10. \A o \in Posts \ {p} : PostOK(o)'
    BY <1>1, <1>3, <2>4, <2>6 DEF ConversationsIInv, PostOK, HasRow, RowOf
  <2>11. \A s, o \in Posts :
           post'[s].at = "hand" /\ post'[o].at = "hand" /\ Message(s)' = Message(o)' => s = o
    BY <2>3, <2>4, <2>6 DEF ConversationsIInv
  <2>12. \A c \in Messages : handed'[c] <= 1 /\ (handed'[c] = 1 => HasRow(c, "owner")')
    BY <1>1, <1>3 DEF ConversationsIInv, HasRow
  <2> QED BY <2>7, <2>9, <2>10, <2>11, <2>12 DEF ConversationsIInv
<1> QED BY <1>4, <1>5, <1>6 DEF AppendOwner

LEMMA HandOverKeeps ==
  ASSUME ConversationsIInv, NEW p \in Posts, HandOver(p)
  PROVE  ConversationsIInv'
<1> DEFINE m == Message(p)
<1>1. post[p].at = "hand" /\ post[p].conversation \in Conversations /\ m \in Messages
  BY MessageIs DEF HandOver, ConversationsIInv, PostOK
<1>2. /\ handed[m] = 0 /\ handed' = [handed EXCEPT ![m] = @ + 1]
      /\ HasRow(m, "owner") /\ UNCHANGED <<rows, canonical, browser, mishaps>>
  BY <1>1 DEF HandOver, ConversationsIInv, PostOK
<1>13. handed \in Counts
  BY RestType DEF RestOK
<1>3. handed' \in Counts /\ handed'[m] = 1 /\ \A c \in Messages \ {m} : handed'[c] = handed[c]
  BY <1>1, <1>2, <1>13 DEF Counts
<1> DEFINE new == [post[p] EXCEPT !.at = "boundary", !.heard = TRUE]
<1>11. /\ new \in PostRecords /\ new.at = "boundary" /\ new.correlation = post[p].correlation
       /\ new.conversation = post[p].conversation /\ post' = [post EXCEPT ![p] = new]
  BY PostType DEF HandOver, PostRecords, PostPlaces
<1> HIDE DEF new
<1>4. /\ \A o \in Posts \ {p} : post'[o] = post[o]
      /\ post'[p] = new /\ post' \in [Posts -> PostRecords]
  BY <1>11, PostType
<1>5. Message(p)' = m /\ \A o \in Posts \ {p} : Message(o)' = Message(o)
  BY <1>4, <1>11 DEF Message
<1>6. ConversationsTypeOK'
  <2>1. RestOK'
    BY <1>2, <1>3, RestType DEF RestOK
  <2> QED BY <1>4, <2>1 DEF RestOK, ConversationsTypeOK, PostRecords, PostPlaces, AllRows, Counts, States, Forms
<1>7. PostOK(p)'
  <2>1. post[p].correlation \in Correlations
    BY <1>1 DEF ConversationsIInv, PostOK
  <2>2. HasRow(Message(p), "owner")'
    BY <1>2, <1>5 DEF HasRow, RowOf
  <2> QED BY <1>1, <1>4, <1>11, <2>1, <2>2 DEF PostOK
<1>8. ASSUME NEW o \in Posts \ {p}
      PROVE  PostOK(o)'
  <2>1. post[o].at = "hand" => Message(o) \in Messages \ {m}
    BY <1>1, MessageIs DEF ConversationsIInv, PostOK
  <2>2. post[o].at = "hand" => handed'[Message(o)] = 0
    BY <1>3, <2>1 DEF ConversationsIInv, PostOK
  <2> QED BY <1>2, <1>4, <1>5, <2>2 DEF ConversationsIInv, PostOK, HasRow, RowOf
<1>9. \A s, o \in Posts :
        post'[s].at = "hand" /\ post'[o].at = "hand" /\ Message(s)' = Message(o)' => s = o
  BY <1>4, <1>5, <1>11 DEF ConversationsIInv
<1>10. \A c \in Messages : handed'[c] <= 1 /\ (handed'[c] = 1 => HasRow(c, "owner")')
  <2>1. ASSUME NEW c \in Messages \ {m}
        PROVE  handed'[c] <= 1 /\ (handed'[c] = 1 => HasRow(c, "owner")')
    <3>1. handed'[c] = handed[c] /\ rows' = rows
      BY <1>2, <1>3
    <3> QED BY <3>1, CountIs DEF HasRow
  <2>2. handed'[m] <= 1 /\ HasRow(m, "owner")'
    BY <1>2, <1>3, <1>5 DEF HasRow, RowOf
  <2> QED BY <2>1, <2>2, <1>5
<1> QED BY <1>6, <1>7, <1>8, <1>9, <1>10 DEF ConversationsIInv

LEMMA BoundaryWorksKeeps ==
  ASSUME ConversationAssumption, ConversationsIInv, NEW p \in Posts, BoundaryWorks(p)
  PROVE  ConversationsIInv'
<1>1. /\ post[p].at = "boundary" /\ UNCHANGED <<rows, handed, browser>> /\ mishaps' \in 0..Mishaps
      /\ HasRow(Message(p), "owner") /\ post[p].conversation \in Conversations
  BY MishapIs DEF BoundaryWorks, ConversationsIInv, PostOK
<1>4. post[p].correlation \in Correlations
  BY <1>1 DEF ConversationsIInv, PostOK
<1>5. PICK state \in Answers : canonical' = [canonical EXCEPT ![post[p].correlation] = state]
  BY DEF BoundaryWorks, Answers
<1>8. canonical' \in States
  BY <1>5, RestType DEF RestOK, States, Answers
<1>2. RestOK'
  BY <1>1, <1>8, RestType DEF RestOK
<1>3. PICK code \in Answers :
        \/ post' = [post EXCEPT ![p].at = "reply", ![p].code = code]
        \/ Respond(p, "request_unavailable")
  BY DEF BoundaryWorks, Answers
<1>6. CASE Respond(p, "request_unavailable")
  <2>1. "request_unavailable" \in Codes \ Answers
    BY DEF Codes, Answers, Unfinished
  <2> QED BY <1>1, <1>2, <1>6, <2>1, TurningAwayKeeps
<1>7. CASE post' = [post EXCEPT ![p].at = "reply", ![p].code = code]
  <2> DEFINE went == [post[p] EXCEPT !.at = "reply", !.code = code]
  <2>4. /\ went \in PostRecords /\ went.at = "reply" /\ went.correlation = post[p].correlation
        /\ went.conversation = post[p].conversation
    BY PostType DEF PostRecords, PostPlaces, Answers, Codes
  <2>5. post' = [post EXCEPT ![p] = went]
    BY <1>7, PostType DEF PostRecords
  <2> HIDE DEF went
  <2>1. PICK new \in PostRecords :
          /\ post' = [post EXCEPT ![p] = new] /\ new.at = "reply"
          /\ new.correlation = post[p].correlation /\ new.conversation = post[p].conversation
    BY <2>4, <2>5
  <2>6. Message(p)' = Message(p)
    BY <2>1, PostType DEF Message
  <2>2. HasRow(Message(p), "owner")'
    BY <1>1, <2>6 DEF HasRow, RowOf
  <2>3. post[p].at \notin {"idle", "over"}
    BY <1>1
  <2> QED BY <1>1, <1>2, <2>1, <2>2, <2>3, GoingOnKeeps
<1> QED BY <1>3, <1>6, <1>7

LEMMA AppendReplyKeeps ==
  ASSUME ConversationAssumption, ConversationsIInv, NEW p \in Posts, AppendReply(p)
  PROVE  ConversationsIInv'
<1>1. /\ post[p].at = "reply" /\ UNCHANGED <<handed, canonical, browser>> /\ mishaps' \in 0..Mishaps
      /\ rows' \in {rows, rows \cup {RowOf(Message(p), "aegis")}} /\ HasRow(Message(p), "owner")
      /\ post[p].conversation \in Conversations
  BY MishapIs DEF AppendReply, AddRow, ConversationsIInv, PostOK
<1>2. RowOf(Message(p), "aegis") \in AllRows
  BY <1>1, MessageIs
<1>3. RestOK' /\ rows \subseteq rows'
  BY <1>1, <1>2, RestType DEF RestOK
<1>4. CASE Respond(p, "conversation_unavailable")
  <2>1. "conversation_unavailable" \in Codes \ Answers
    BY DEF Codes, Answers, Unfinished
  <2> QED BY <1>1, <1>3, <1>4, <2>1, TurningAwayKeeps
<1>5. CASE AddRow(p, "aegis") /\ Respond(p, Reply(p))
  <2> DEFINE new == [post[p] EXCEPT !.at = "respond", !.code = Reply(p)]
  <2>1. Reply(p) \in Codes
    BY PostType DEF Reply, PostRecords, Codes
  <2>2. /\ post' = [post EXCEPT ![p] = new] /\ new \in PostRecords /\ new.at = "respond"
        /\ new.correlation = post[p].correlation /\ new.conversation = post[p].conversation
    BY <1>5, <2>1, PostType DEF Respond, PostRecords, PostPlaces
  <2> HIDE DEF new
  <2>3. Message(p)' = Message(p)
    BY <2>2, PostType DEF Message
  <2>4. HasRow(Message(p), "owner")' /\ HasRow(Message(p), "aegis")'
    BY <1>1, <1>5, <2>3 DEF AddRow, HasRow, RowOf
  <2> QED BY <1>1, <1>3, <2>2, <2>4, GoingOnKeeps
<1> QED BY <1>4, <1>5 DEF AppendReply

LEMMA ServerRestartsKeeps ==
  ASSUME ConversationAssumption, ConversationsIInv, ServerRestarts
  PROVE  ConversationsIInv'
<1>1. ASSUME NEW p \in Posts
      PROVE  post'[p] \in PostRecords /\ post'[p].at \in {"idle", "over"}
  <2>1. post[p] \in PostRecords /\ post'[p] = IF post[p].at = "idle" THEN post[p] ELSE Ended(p)
    BY PostType DEF ServerRestarts
  <2> QED BY <2>1 DEF Ended, NoPost, PostRecords, PostPlaces, Codes
<1>2. DOMAIN post' = Posts /\ UNCHANGED <<rows, handed, canonical, browser>> /\ mishaps' \in 0..Mishaps
      /\ post' = [p \in Posts |-> post'[p]]
  BY MishapIs DEF ServerRestarts
<1>4. RestOK'
  BY <1>2, RestType DEF RestOK
<1>3. ConversationsTypeOK'
  BY <1>1, <1>2, <1>4 DEF RestOK, ConversationsTypeOK, PostRecords, PostPlaces, AllRows, Counts, States, Forms
<1> QED BY <1>1, <1>2, <1>3 DEF ConversationsIInv, PostOK, HasRow, RowOf

LEMMA SubmitKeeps ==
  ASSUME ConversationsIInv, NEW p \in Posts, Submit(p)
  PROVE  ConversationsIInv'
<1>1. PICK kind \in {"plain", "files", "project"}, shown \in Conversations \cup {Elsewhere},
           q \in Correlations, again \in BOOLEAN :
        /\ post' = [post EXCEPT ![p] = [NoPost EXCEPT !.at = "arrived", !.correlation = q,
                      !.kind = kind, !.conversation = shown, !.again = again]]
        /\ browser' = [browser EXCEPT !.pending = q, !.waits = p]
  <2>1. browser.pending # None => browser.pending \in Correlations
    BY RestType DEF RestOK, Forms
  <2>2. (IF browser.pending = None THEN Fresh ELSE {browser.pending}) \subseteq Correlations
    BY <2>1 DEF Fresh
  <2>3. PICK kind \in {"plain", "files", "project"}, shown \in Conversations \cup {Elsewhere},
             q \in IF browser.pending = None THEN Fresh ELSE {browser.pending} :
          /\ post' = [post EXCEPT ![p] = [NoPost EXCEPT !.at = "arrived", !.correlation = q,
                        !.kind = kind, !.conversation = shown, !.again = browser.pending # None]]
          /\ browser' = [browser EXCEPT !.pending = q, !.waits = p]
    BY DEF Submit
  <2>4. PICK again \in BOOLEAN : again = (browser.pending # None)
    OBVIOUS
  <2> QED BY <2>2, <2>3, <2>4
<1> DEFINE new == [NoPost EXCEPT !.at = "arrived", !.correlation = q,
                      !.kind = kind, !.conversation = shown, !.again = again]
<1>2. new \in PostRecords /\ new.at = "arrived" /\ new.correlation = q
  BY DEF NoPost, PostRecords, PostPlaces, Codes
<1>3. UNCHANGED <<rows, handed, canonical, mishaps>>
  BY DEF Submit
<1>4. post' = [post EXCEPT ![p] = new]
  BY <1>1
<1> HIDE DEF new
<1>5. post'[p] = new
  BY <1>4, PostType
<1>9. browser' \in Forms
  BY <1>1, RestType DEF RestOK, Forms
<1>8. RestOK'
  BY <1>3, <1>9, RestType DEF RestOK
<1>6. ConversationsTypeOK'
  BY <1>2, <1>4, <1>8, PostType DEF RestOK, ConversationsTypeOK, PostRecords, PostPlaces, AllRows, Counts, States, Forms
<1>7. PostOK(p)'
  BY <1>2, <1>5 DEF PostOK
<1> QED BY <1>2, <1>3, <1>4, <1>6, <1>7, OnePostKeeps

LEMMA ShowAnswerKeeps ==
  ASSUME ConversationsIInv, NEW p \in Posts, ShowAnswer(p)
  PROVE  ConversationsIInv'
<1> DEFINE new == Ended(p)
<1>1. new \in PostRecords /\ new.at = "over" /\ new.correlation = post[p].correlation
  BY PostType DEF Ended, NoPost, PostRecords, PostPlaces, Codes
<1>2. post' = [post EXCEPT ![p] = new] /\ UNCHANGED <<rows, handed, canonical, mishaps>>
  BY DEF ShowAnswer
<1>3. browser' \in {browser, Keep("Retry"), Keep("Recheck status"), Forget}
  BY DEF ShowAnswer
<1>4. RestOK'
  BY <1>2, <1>3, RestType, FormIs DEF RestOK
<1> HIDE DEF new
<1> QED BY <1>1, <1>2, <1>4, GoingOnKeeps

LEMMA AskingKeeps ==
  ASSUME ConversationAssumption, ConversationsIInv, GiveUp \/ Recheck
  PROVE  ConversationsIInv'
<1>1. UNCHANGED <<rows, handed, canonical, post>> /\ mishaps' \in 0..Mishaps
  BY MishapIs DEF GiveUp, Recheck
<1>2. browser' \in {browser, Keep("Retry"), Keep("Recheck status"), Forget}
  BY DEF GiveUp, Recheck
<1>4. RestOK'
  BY <1>1, <1>2, RestType, FormIs DEF RestOK
<1>3. ConversationsTypeOK'
  BY <1>1, <1>4, PostType DEF RestOK, ConversationsTypeOK, PostRecords, PostPlaces, AllRows, Counts, States, Forms
<1> QED BY <1>1, <1>3 DEF ConversationsIInv, PostOK, HasRow, RowOf, Message

LEMMA ConversationsNextKeeps ==
  ASSUME ConversationAssumption, ConversationsIInv, [ConversationsNext]_conversationVars
  PROVE  ConversationsIInv'
<1>1. CASE UNCHANGED conversationVars
  BY <1>1 DEF conversationVars, ConversationsIInv, ConversationsTypeOK, PostOK, HasRow, RowOf, Message
<1> QED BY <1>1, TurnAwayKeeps, AppendOwnerKeeps, HandOverKeeps, BoundaryWorksKeeps, AppendReplyKeeps,
           ServerRestartsKeeps, SubmitKeeps, ShowAnswerKeeps, AskingKeeps DEF ConversationsNext

\* The insert of the owner's row lets one request through, and only that one hands the
\* message to the boundary.
THEOREM ConversationsInvariance == ConversationsSpec => []ConversationsIInv
<1>1. ConversationsInit => ConversationsIInv
  <2> SUFFICES ASSUME ConversationsInit PROVE ConversationsIInv
    OBVIOUS
  <2>1. NoPost \in PostRecords /\ NoPost.at = "idle"
    BY DEF NoPost, PostRecords, PostPlaces, Codes
  <2>2. \A p \in Posts : post[p] = NoPost
    BY DEF ConversationsInit
  <2>3. browser \in Forms
    BY DEF ConversationsInit, Forms
  <2>4. RestOK
    BY <2>3, ConversationAssumption DEF ConversationsInit, RestOK, AllRows, Counts, States, ConversationAssumption
  <2>5. ConversationsTypeOK
    BY <2>1, <2>4 DEF ConversationsInit, RestOK, ConversationsTypeOK, PostRecords, PostPlaces,
                      AllRows, Counts, States, Forms
  <2>6. \A m \in Messages : handed[m] = 0
    BY DEF ConversationsInit
  <2> QED BY <2>1, <2>2, <2>5, <2>6 DEF ConversationsIInv, PostOK
<1>2. ConversationsIInv /\ [ConversationsNext]_conversationVars => ConversationsIInv'
  BY ConversationAssumption, ConversationsNextKeeps
<1> QED BY <1>1, <1>2, PTL DEF ConversationsSpec

\* Whatever is sent again, times out or dies on the way, a message is handed to the
\* boundary at most once from each conversation, with the owner's row on record there,
\* and an answer that is shown has its row there: the insert of the owner's row, whose
\* key has the conversation in it, lets one request through.
THEOREM MessagesGoOnOnce == ConversationsSpec => []MessagesAreHandedOnOnce
<1>1. ConversationsIInv => MessagesAreHandedOnOnce
  BY DEF ConversationsIInv, PostOK, MessagesAreHandedOnOnce, Answers, HasRow
<1> QED BY <1>1, ConversationsInvariance, PTL

\* Rows are of messages that were sent, and a request keeps the name it came with.
THEOREM ConversationsTypeCorrect == ConversationsSpec => []ConversationsTypeOK
<1>1. ConversationsIInv => ConversationsTypeOK
  BY DEF ConversationsIInv
<1> QED BY <1>1, ConversationsInvariance, PTL

-----------------------------------------------------------------------------
(* ExternalEffects: the assurance is truthful.                                *)

AllAsks ==
  [kind : {"create", "update"}, title : EventTitles, ends : BOOLEAN]
    \cup [kind : {"cancel", "send", "sendRecorded"}] \cup [kind : {"control"}, to : {"on", "off"}]
Assurances == {"none", "not_attempted", "rejected", "accepted", "unknown", "verified"}
Effects ==
  [at : {"idle", "claimed", "observed", "completed", "failed", "dead"}, ask : AllAsks \cup {NoAsk},
   flying : BOOLEAN, observed : {"none", "succeeded", "failed"}, assurance : Assurances]

ProviderType ==
  /\ calendar \in [Ids -> EventTitles \cup {Gone}]
  /\ messages \in [EffectKeys -> Nat] /\ posted \in [EffectKeys -> Nat]
  /\ switch \in {"on", "off"}

\* One request took effect at most, none while it is still on its way; what is there
\* under a key was put there by that request; an event that is gone stays gone.
KeyOK(k) ==
  LET e == effect[k] IN
  /\ e.at # "idle" => e.ask \in AllAsks
  /\ posted[k] \in {0, 1}
  /\ e.flying => posted[k] = 0
  /\ e.at \in {"idle", "claimed"} => posted[k] = 0 /\ ~e.flying /\ e.assurance = "none"
  /\ e.assurance \in {"not_attempted", "rejected"} => e.observed # "succeeded"
  /\ \/ e.assurance = "not_attempted"
     \/ e.assurance = "rejected" /\ e.ask.kind = "cancel"
     => posted[k] = 0 /\ ~e.flying
  /\ e.assurance = "rejected" /\ e.ask.kind # "send" => ~e.flying
  /\ e.observed = "succeeded" => posted[k] = 1
  /\ calendar[k] # Gone \/ messages[k] > 0 => posted[k] = 1
  /\ e.at = "completed" /\ e.ask.kind \in {"create", "send", "sendRecorded"} => posted[k] = 1
  /\ e.assurance = "verified" /\ e.ask.kind = "cancel" => calendar[Existing] = Gone

ExternalIInv ==
  /\ ProviderType /\ effect \in [EffectKeys -> Effects] /\ others \in 0..Others
  /\ \A k \in EffectKeys : KeyOK(k)

\* The providers after a step of k, as far as other keys can tell.
OthersRest(k) ==
  \A o \in EffectKeys \ {k} :
    /\ effect'[o] = effect[o] /\ posted'[o] = posted[o] /\ messages'[o] = messages[o]
    /\ calendar'[o] = calendar[o]
GoneStays == calendar[Existing] = Gone => calendar'[Existing] = Gone

LEMMA KeyStepKeeps ==
  ASSUME ExternalIInv, NEW k \in EffectKeys, OthersRest(k), GoneStays,
         ProviderType', effect' \in [EffectKeys -> Effects], others' \in 0..Others, KeyOK(k)'
  PROVE  ExternalIInv'
<1>1. ASSUME NEW o \in EffectKeys \ {k}
      PROVE  KeyOK(o)'
  BY DEF ExternalIInv, KeyOK, OthersRest, GoneStays
<1> QED BY <1>1 DEF ExternalIInv

\* What a request that takes effect does.
LEMMA EffectIs ==
  ASSUME ExternalAssumption, ExternalIInv, NEW k \in EffectKeys, effect[k].ask \in AllAsks,
         TakesEffect(k), ~MustRefuse(k)
  PROVE  /\ ProviderType' /\ GoneStays
         /\ \A o \in EffectKeys \ {k} :
              posted'[o] = posted[o] /\ messages'[o] = messages[o] /\ calendar'[o] = calendar[o]
         /\ posted'[k] = posted[k] + 1
<1> DEFINE ask == effect[k].ask
<1>1. posted' \in [EffectKeys -> Nat] /\ posted'[k] = posted[k] + 1
      /\ \A o \in EffectKeys \ {k} : posted'[o] = posted[o]
  BY DEF TakesEffect, ExternalIInv, ProviderType
<1>2. k \in Ids /\ Existing \in Ids /\ k # Existing
  BY DEF Ids, ExternalAssumption
<1>3. CASE ask.kind = "create"
  <2>1. CreateEvent(k) /\ ask.title \in EventTitles
    BY <1>3 DEF TakesEffect, AllAsks
  <2> QED BY <1>1, <1>2, <2>1 DEF CreateEvent, ExternalIInv, ProviderType, GoneStays, Ids
<1>4. CASE ask.kind = "update"
  <2>1. UpdateEvent(k) /\ ask.title \in EventTitles /\ calendar[Existing] # Gone
    BY <1>4 DEF TakesEffect, AllAsks, MustRefuse
  <2> QED BY <1>1, <1>2, <2>1 DEF UpdateEvent, ExternalIInv, ProviderType, GoneStays, Ids, ExternalAssumption
<1>5. CASE ask.kind = "cancel"
  <2>1. DeleteEvent(k)
    BY <1>5 DEF TakesEffect
  <2> QED BY <1>1, <1>2, <2>1 DEF DeleteEvent, ExternalIInv, ProviderType, GoneStays, Ids, ExternalAssumption
<1>6. CASE ask.kind \in {"send", "sendRecorded"}
  <2>1. SendMessage(k)
    BY <1>6 DEF TakesEffect
  <2> QED BY <1>1, <1>2, <2>1 DEF SendMessage, ExternalIInv, ProviderType, GoneStays, Ids
<1>7. CASE ask.kind = "control"
  <2>1. CallService(k) /\ ask.to \in {"on", "off"}
    BY <1>7 DEF TakesEffect, AllAsks
  <2> QED BY <1>1, <1>2, <2>1 DEF CallService, ExternalIInv, ProviderType, GoneStays, Ids
<1> QED BY <1>3, <1>4, <1>5, <1>6, <1>7 DEF AllAsks

LEMMA QuietEffectKeeps ==
  ASSUME ExternalAssumption, ExternalIInv, NEW k \in EffectKeys,
         AskEffect(k) \/ RefusedHere(k) \/ Rejected(k) \/ RequestLost(k) \/ EffectFails(k)
  PROVE  ExternalIInv'
<1>1. UNCHANGED <<calendar, messages, switch, posted, others>> /\ effect[k] \in Effects /\ KeyOK(k)
      /\ ProviderType' /\ others' \in 0..Others
  BY DEF AskEffect, RefusedHere, Rejected, RequestLost, EffectFails, ExternalIInv, ProviderType
<1>2. PICK new \in Effects :
        /\ effect' = [effect EXCEPT ![k] = new]
        /\ \/ new.at = "claimed" /\ new.ask \in AllAsks /\ new.flying = effect[k].flying
              /\ new.assurance = effect[k].assurance /\ new.observed = effect[k].observed
              /\ effect[k].at = "idle"
           \/ new.at = "observed" /\ new.ask = effect[k].ask /\ new.observed = "failed"
              /\ effect[k].at = "claimed" /\ new.assurance \notin {"verified"}
              /\ (new.assurance = "not_attempted" \/ (new.assurance = "rejected" /\ new.ask.kind # "send")
                   => ~new.flying)
           \/ new.at = "failed" /\ effect[k].at # "idle" /\ new.ask = effect[k].ask
              /\ new.flying = effect[k].flying
              /\ new.assurance = effect[k].assurance /\ new.observed = effect[k].observed
  <2>1. CASE AskEffect(k)
    <3>1. PICK ask \in AllAsks : effect' = [effect EXCEPT ![k].ask = ask, ![k].at = "claimed"]
      BY <2>1 DEF AskEffect, AllAsks
    <3> DEFINE went == [effect[k] EXCEPT !.ask = ask, !.at = "claimed"]
    <3>2. went \in Effects /\ went.at = "claimed" /\ went.ask = ask /\ went.flying = effect[k].flying
          /\ went.assurance = effect[k].assurance /\ went.observed = effect[k].observed
      BY <1>1 DEF Effects
    <3>3. effect' = [effect EXCEPT ![k] = went]
      BY <3>1, <1>1 DEF Effects, ExternalIInv
    <3> HIDE DEF went
    <3> QED BY <2>1, <3>2, <3>3 DEF AskEffect
  <2>2. CASE RefusedHere(k) \/ Rejected(k) \/ RequestLost(k)
    <3>1. PICK assurance \in Assurances \ {"verified"}, flying \in BOOLEAN :
            /\ Observe(k, "failed", assurance, flying)
            /\ assurance = "not_attempted" \/ (assurance = "rejected" /\ effect[k].ask.kind # "send")
                 => ~flying
      <4>1. \A kind : HeldBack(kind) \subseteq Assurances \ {"verified"}
        BY DEF HeldBack, Assurances
      <4>2. CASE RefusedHere(k)
        BY <4>1, <4>2 DEF RefusedHere
      <4>3. CASE Rejected(k)
        BY <4>3 DEF Rejected, WithoutAnswer, Assurances
      <4>4. CASE RequestLost(k)
        <5>1. PICK flying \in BOOLEAN, assurance \in WithoutAnswer(effect[k].ask.kind) :
                Observe(k, "failed", assurance, flying)
          BY <4>4 DEF RequestLost
        <5>2. assurance = "unknown" \/ (assurance = "rejected" /\ effect[k].ask.kind = "send")
          BY DEF WithoutAnswer
        <5>3. assurance \in Assurances \ {"verified"}
          BY <5>2 DEF Assurances
        <5> QED BY <5>1, <5>2, <5>3
      <4> QED BY <2>2, <4>2, <4>3, <4>4
    <3> DEFINE went == [effect[k] EXCEPT !.at = "observed", !.observed = "failed",
                                         !.assurance = assurance, !.flying = flying]
    <3>2. went \in Effects /\ went.at = "observed" /\ went.ask = effect[k].ask /\ went.flying = flying
          /\ went.assurance = assurance /\ went.observed = "failed"
      BY <1>1 DEF Effects
    <3>3. effect' = [effect EXCEPT ![k] = went]
      BY <3>1, <1>1 DEF Observe, Effects, ExternalIInv
    <3>4. effect[k].at = "claimed"
      BY <2>2 DEF RefusedHere, Rejected, RequestLost
    <3> HIDE DEF went
    <3> QED BY <3>1, <3>2, <3>3, <3>4
  <2>3. CASE EffectFails(k)
    <3> DEFINE went == [effect[k] EXCEPT !.at = "failed"]
    <3>2. went \in Effects /\ went.at = "failed" /\ went.ask = effect[k].ask
          /\ went.flying = effect[k].flying
          /\ went.assurance = effect[k].assurance /\ went.observed = effect[k].observed
      BY <1>1 DEF Effects
    <3>3. effect' = [effect EXCEPT ![k] = went] /\ effect[k].at # "idle"
      BY <2>3, <1>1 DEF EffectFails, Effects, ExternalIInv
    <3> HIDE DEF went
    <3> QED BY <3>2, <3>3
  <2> QED BY <2>1, <2>2, <2>3
<1>3. /\ effect'[k] = new /\ effect' \in [EffectKeys -> Effects]
      /\ \A o \in EffectKeys \ {k} : effect'[o] = effect[o]
  BY <1>2 DEF ExternalIInv
<1>4. OthersRest(k) /\ GoneStays
  BY <1>1, <1>3 DEF OthersRest, GoneStays
<1>5. KeyOK(k)'
  BY <1>1, <1>2, <1>3 DEF KeyOK
<1> QED BY <1>1, <1>3, <1>4, <1>5, KeyStepKeeps

LEMMA AnsweredEffectKeeps ==
  ASSUME ExternalAssumption, ExternalIInv, NEW k \in EffectKeys, Answered(k) \/ AnswerLost(k)
  PROVE  ExternalIInv'
<1>1. /\ effect[k] \in Effects /\ KeyOK(k) /\ effect[k].at = "claimed" /\ effect[k].ask \in AllAsks
      /\ TakesEffect(k) /\ ~MustRefuse(k) /\ UNCHANGED others /\ others \in 0..Others
      /\ effect \in [EffectKeys -> Effects]
  BY DEF Answered, AnswerLost, ExternalIInv, KeyOK
<1>2. /\ ProviderType' /\ GoneStays /\ posted'[k] = posted[k] + 1 /\ posted[k] = 0
      /\ \A o \in EffectKeys \ {k} :
           posted'[o] = posted[o] /\ messages'[o] = messages[o] /\ calendar'[o] = calendar[o]
  BY <1>1, EffectIs DEF KeyOK
<1>3. PICK observed \in {"succeeded", "failed"}, assurance \in Assurances \ {"not_attempted"} :
        /\ Observe(k, observed, assurance, FALSE)
        /\ assurance = "verified" => effect[k].ask.kind = "send"
        /\ assurance = "rejected" => observed = "failed" /\ effect[k].ask.kind # "cancel"
  <2>1. CASE Answered(k)
    <3>1. effect[k].ask.kind \in {"create", "cancel", "update", "send", "control"}
      BY <1>1, <2>1 DEF Answered, AllAsks
    <3>2. Accepting(effect[k].ask.kind) \subseteq Assurances \ {"not_attempted", "rejected"}
          /\ ("verified" \in Accepting(effect[k].ask.kind) => effect[k].ask.kind = "send")
      BY <3>1 DEF Accepting, Assurances
    <3> QED BY <2>1, <3>2 DEF Answered
  <2>2. CASE AnswerLost(k)
    <3>1. PICK assurance \in WithoutAnswer(effect[k].ask.kind) \cup Unreadable(effect[k].ask.kind) :
            Observe(k, "failed", assurance, FALSE)
      BY <2>2 DEF AnswerLost
    <3>2. assurance = "unknown" \/ (assurance = "rejected" /\ effect[k].ask.kind # "cancel")
      BY DEF WithoutAnswer, Unreadable
    <3>3. assurance \in Assurances \ {"not_attempted", "verified"}
      BY <3>2 DEF Assurances
    <3> QED BY <3>1, <3>2, <3>3
  <2> QED BY <2>1, <2>2
<1> DEFINE went == [effect[k] EXCEPT !.at = "observed", !.observed = observed,
                                     !.assurance = assurance, !.flying = FALSE]
<1>4. went \in Effects /\ went.at = "observed" /\ went.ask = effect[k].ask /\ ~went.flying
      /\ went.assurance = assurance /\ went.observed = observed
  BY <1>1 DEF Effects
<1>5. effect' = [effect EXCEPT ![k] = went]
  BY <1>1, <1>3 DEF Observe, Effects
<1> HIDE DEF went
<1>6. PICK new \in Effects :
        /\ effect' = [effect EXCEPT ![k] = new] /\ new.at = "observed" /\ new.ask = effect[k].ask
        /\ ~new.flying /\ new.assurance = assurance /\ new.observed = observed
  BY <1>4, <1>5
<1>7. /\ effect'[k] = new /\ effect' \in [EffectKeys -> Effects]
      /\ \A o \in EffectKeys \ {k} : effect'[o] = effect[o]
  BY <1>1, <1>6
<1>8. OthersRest(k) /\ others' \in 0..Others
  BY <1>1, <1>2, <1>7 DEF OthersRest
<1>9. KeyOK(k)'
  BY <1>1, <1>2, <1>3, <1>6, <1>7 DEF KeyOK
<1> QED BY <1>2, <1>7, <1>8, <1>9, KeyStepKeeps

LEMMA LateEffectKeeps ==
  ASSUME ExternalAssumption, ExternalIInv, NEW k \in EffectKeys, ArrivesLate(k) \/ Dies(k)
  PROVE  ExternalIInv'
<1>1. /\ effect[k] \in Effects /\ KeyOK(k) /\ UNCHANGED others /\ others \in 0..Others
      /\ effect \in [EffectKeys -> Effects] /\ ProviderType
  BY DEF ArrivesLate, Dies, ExternalIInv
<1>2. effect[k].at # "idle" /\ effect[k].ask \in AllAsks /\ posted[k] = 0
  BY <1>1 DEF ArrivesLate, Dies, KeyOK
<1>3. PICK new \in Effects :
        /\ effect' = [effect EXCEPT ![k] = new] /\ new.ask = effect[k].ask /\ ~new.flying
        /\ new.assurance = effect[k].assurance /\ new.observed = effect[k].observed
        /\ new.at = "dead" \/ (new.at = effect[k].at /\ new.at \notin {"idle", "claimed"})
  <2>1. CASE ArrivesLate(k)
    <3> DEFINE went == [effect[k] EXCEPT !.flying = FALSE]
    <3>1. went \in Effects /\ went.ask = effect[k].ask /\ ~went.flying
          /\ went.assurance = effect[k].assurance /\ went.observed = effect[k].observed
          /\ went.at = effect[k].at
      BY <1>1 DEF Effects
    <3>2. effect' = [effect EXCEPT ![k] = went] /\ effect[k].at \notin {"idle", "claimed"}
      BY <1>1, <2>1 DEF ArrivesLate, Effects, KeyOK
    <3> HIDE DEF went
    <3> QED BY <3>1, <3>2
  <2>2. CASE Dies(k)
    <3> DEFINE went == [effect[k] EXCEPT !.at = "dead"]
    <3>1. went \in Effects /\ went.ask = effect[k].ask /\ went.flying = effect[k].flying
          /\ went.assurance = effect[k].assurance /\ went.observed = effect[k].observed
          /\ went.at = "dead"
      BY <1>1 DEF Effects
    <3>2. effect' = [effect EXCEPT ![k] = went] /\ ~effect[k].flying
      BY <1>1, <2>2 DEF Dies, Effects, KeyOK
    <3> HIDE DEF went
    <3> QED BY <3>1, <3>2
  <2> QED BY <2>1, <2>2
<1>4. /\ effect'[k] = new /\ effect' \in [EffectKeys -> Effects]
      /\ \A o \in EffectKeys \ {k} : effect'[o] = effect[o]
  BY <1>1, <1>3
<1>5. /\ effect[k].assurance # "not_attempted" /\ effect[k].observed # "succeeded"
      /\ effect[k].assurance = "rejected" => effect[k].ask.kind = "send"
  BY <1>1, <1>2 DEF KeyOK, ArrivesLate, Dies
<1>6. /\ ProviderType' /\ GoneStays /\ posted'[k] \in {0, 1}
      /\ \A o \in EffectKeys \ {k} :
           posted'[o] = posted[o] /\ messages'[o] = messages[o] /\ calendar'[o] = calendar[o]
      /\ posted'[k] = 0 => calendar'[k] = calendar[k] /\ messages'[k] = messages[k]
  <2>1. CASE TakesEffect(k) /\ ~MustRefuse(k)
    BY <1>2, <2>1, EffectIs
  <2>2. CASE UNCHANGED provider
    BY <1>1, <1>2, <2>2 DEF provider, ProviderType, GoneStays
  <2> QED BY <2>1, <2>2 DEF ArrivesLate, Dies
<1>7. OthersRest(k) /\ others' \in 0..Others
  BY <1>1, <1>4, <1>6 DEF OthersRest
<1>8. KeyOK(k)'
  BY <1>1, <1>2, <1>3, <1>4, <1>5, <1>6 DEF KeyOK, GoneStays
<1> QED BY <1>4, <1>6, <1>7, <1>8, KeyStepKeeps

LEMMA ConcludedEffectKeeps ==
  ASSUME ExternalAssumption, ExternalIInv, NEW k \in EffectKeys, VerifyEffect(k) \/ Reconcile(k)
  PROVE  ExternalIInv'
<1>1. /\ effect[k] \in Effects /\ KeyOK(k) /\ UNCHANGED <<calendar, messages, switch, posted, others>>
      /\ others \in 0..Others /\ effect \in [EffectKeys -> Effects] /\ ProviderType
      /\ effect[k].at # "idle" /\ effect[k].ask \in AllAsks
  BY DEF VerifyEffect, Reconcile, ExternalIInv, KeyOK
<1>2. PICK new \in Effects :
        /\ effect' = [effect EXCEPT ![k] = new] /\ new.ask = effect[k].ask
        /\ new.flying = effect[k].flying /\ new.observed = effect[k].observed
        /\ new.at \in {"completed", "failed"}
        /\ new.at = "completed" => effect[k].observed = "succeeded" \/ (ReadBack(k) /\ Reconcilable(k))
        /\ \/ new.assurance = effect[k].assurance
           \/ new.assurance = "accepted"
           \/ new.assurance = "verified" /\ ReadBack(k)
  <2> DEFINE at == IF ReadBack(k) THEN "completed" ELSE "failed"
             held == CASE ~ReadBack(k) -> effect[k].assurance
                       [] effect[k].ask.kind = "send" -> "accepted"
                       [] effect[k].ask.kind = "control" -> effect[k].assurance
                       [] OTHER -> "verified"
             went == [effect[k] EXCEPT !.at = at, !.assurance = held]
             done == [effect[k] EXCEPT !.at = "completed", !.assurance = "verified"]
  <2>1. CASE VerifyEffect(k)
    <3>1. held \in Assurances /\ (held \in {effect[k].assurance, "accepted"}
                                  \/ (held = "verified" /\ ReadBack(k)))
      BY <1>1 DEF Effects, Assurances
    <3>2. at \in {"completed", "failed"}
      OBVIOUS
    <3> HIDE DEF held, at
    <3>3. went \in Effects /\ went.ask = effect[k].ask /\ went.flying = effect[k].flying
          /\ went.observed = effect[k].observed /\ went.at = at /\ went.assurance = held
      BY <1>1, <3>1, <3>2 DEF Effects
    <3>4. effect' = [effect EXCEPT ![k] = went]
      <4>1. effect' = [effect EXCEPT ![k].at = at, ![k].assurance = held]
        BY <2>1 DEF VerifyEffect, held, at
      <4> QED BY <1>1, <4>1 DEF Effects
    <3>5. effect[k].observed = "succeeded"
      BY <2>1 DEF VerifyEffect
    <3> HIDE DEF went
    <3> QED BY <3>1, <3>2, <3>3, <3>4, <3>5
  <2>2. CASE Reconcile(k)
    <3>1. done \in Effects /\ done.ask = effect[k].ask /\ done.flying = effect[k].flying
          /\ done.observed = effect[k].observed /\ done.at = "completed" /\ done.assurance = "verified"
      BY <1>1 DEF Effects, Assurances
    <3>2. effect' = [effect EXCEPT ![k] = done] /\ ReadBack(k) /\ Reconcilable(k)
      BY <1>1, <2>2 DEF Reconcile, Effects
    <3> HIDE DEF done
    <3> QED BY <3>1, <3>2
  <2> QED BY <2>1, <2>2
<1>3. /\ effect'[k] = new /\ effect' \in [EffectKeys -> Effects]
      /\ \A o \in EffectKeys \ {k} : effect'[o] = effect[o]
  BY <1>1, <1>2
<1>4. ReadBack(k) /\ effect[k].ask.kind = "cancel" => calendar[Existing] = Gone
  BY DEF ReadBack, CancelMatches
<1>5. ReadBack(k) /\ effect[k].ask.kind \in {"create", "sendRecorded"} => posted[k] = 1
  BY <1>1 DEF ReadBack, CreateMatches, FoundByKey, SameCalendarEvent, SendMatches, KeyOK
<1>6. OthersRest(k) /\ others' \in 0..Others /\ GoneStays /\ ProviderType'
  BY <1>1, <1>3 DEF OthersRest, GoneStays, ProviderType
<1>7. new.at = "completed" /\ effect[k].ask.kind \in {"create", "send", "sendRecorded"} => posted[k] = 1
  BY <1>1, <1>2, <1>5 DEF KeyOK, Reconcilable
<1>8. effect[k].at \notin {"idle", "claimed"}
  BY DEF VerifyEffect, Reconcile
<1>9. KeyOK(k)'
  BY <1>1, <1>2, <1>3, <1>4, <1>7, <1>8 DEF KeyOK
<1> QED BY <1>3, <1>6, <1>9, KeyStepKeeps

LEMMA SomebodyElseKeeps ==
  ASSUME ExternalAssumption, ExternalIInv, SomebodyElse
  PROVE  ExternalIInv'
<1>1. UNCHANGED <<messages, posted, effect>> /\ others' \in 0..Others
  BY DEF SomebodyElse, ExternalIInv, ExternalAssumption
<1>2. /\ switch' \in {"on", "off"} /\ calendar' \in [Ids -> EventTitles \cup {Gone}]
      /\ \A i \in Ids : calendar[i] = Gone => calendar'[i] = Gone
  BY DEF SomebodyElse, ExternalIInv, ProviderType
<1>3. ProviderType' /\ GoneStays
  BY <1>1, <1>2 DEF ExternalIInv, ProviderType, GoneStays, Ids
<1>4. ASSUME NEW k \in EffectKeys
      PROVE  KeyOK(k)'
  BY <1>1, <1>2, <1>3 DEF ExternalIInv, KeyOK, GoneStays, Ids
<1> QED BY <1>1, <1>3, <1>4 DEF ExternalIInv

LEMMA ExternalInitOK ==
  ASSUME ExternalAssumption, ExternalInit
  PROVE  ExternalIInv
<1>1. \A k \in EffectKeys : k # Existing /\ k \in Ids
  BY DEF ExternalAssumption, Ids
<1>2. ProviderType /\ others \in 0..Others
  BY DEF ExternalAssumption, ExternalInit, ProviderType
<1>3. effect \in [EffectKeys -> Effects]
  BY DEF ExternalInit, Effects, Assurances
<1>4. \A k \in EffectKeys : KeyOK(k)
  BY <1>1 DEF ExternalInit, KeyOK
<1> QED BY <1>2, <1>3, <1>4 DEF ExternalIInv

\* A request takes effect at most once, and none while it is still on its way: what each
\* action has observed fits what its provider did.
THEOREM ExternalInvariance == ExternalSpec => []ExternalIInv
<1>1. ExternalInit => ExternalIInv
  BY ExternalAssumption, ExternalInitOK
<1>2. ExternalIInv /\ [ExternalNext]_externalVars => ExternalIInv'
  <2>1. CASE UNCHANGED externalVars
    BY <2>1 DEF externalVars, ExternalIInv, ProviderType, KeyOK
  <2> QED BY <2>1, ExternalAssumption, QuietEffectKeeps, AnsweredEffectKeeps, LateEffectKeeps,
             ConcludedEffectKeeps, SomebodyElseKeeps DEF ExternalNext
<1> QED BY <1>1, <1>2, PTL DEF ExternalSpec

\* What the assurance of an action says of the outside world is so (ExternalEffectAssurance):
\* what was not attempted and a cancellation that was rejected took no effect and never
\* will, a creation or change that was rejected is not on its way, a completed creation
\* or message was made by this very action, once, and a verified cancellation has no
\* event left. (A rejected message may have been sent: WithoutAnswer.)
THEOREM AssuranceIsSo == ExternalSpec => []AssuranceIsTruthful
<1>1. ExternalIInv => AssuranceIsTruthful
  BY DEF ExternalIInv, KeyOK, AssuranceIsTruthful
<1> QED BY <1>1, ExternalInvariance, PTL

\* The providers hold events and messages that were asked for, and an action ends with
\* one of the assurances of external_effect.
THEOREM ExternalTypeCorrect == ExternalSpec => []ExternalTypeOK
<1>1. ExternalIInv => ExternalTypeOK
  <2> SUFFICES ASSUME ExternalIInv PROVE ExternalTypeOK
    OBVIOUS
  <2>1. ProviderType /\ effect \in [EffectKeys -> Effects] /\ others \in 0..Others
    BY DEF ExternalIInv
  <2>2. \A e \in Effects :
          /\ e.at \in {"idle", "claimed", "observed", "completed", "failed", "dead"}
          /\ e.assurance \in Assurances
    BY DEF Effects
  <2>3. \A k \in EffectKeys : effect[k] \in Effects
    BY <2>1
  <2> QED BY <2>1, <2>2, <2>3 DEF ExternalTypeOK, ProviderType, Assurances
<1> QED BY <1>1, ExternalInvariance, PTL

-----------------------------------------------------------------------------
(* DeveloperWorker: an application is exact.                                  *)

Trees == [SourceFiles -> (1..(OwnerSteps + 1)) \cup Jobs]
Proposed == [base : 1..Tip, changed : SUBSET SourceFiles]
Proposals == {NoProposal} \cup Proposed
JobRows ==
  [kind : {"none", "inspect", "modify"}, result : Proposals,
   state : {"none", "running", "approval_required", "completed", "failed", "interrupted"}]
Workers ==
  [at : {"idle", "ended", "inspect", "status", "copy", "codex"}]
    \cup [at : {"base"}, changed : SUBSET SourceFiles] \cup [at : {"persist"}, made : Proposed]
RestingApprovals == [at : {"idle", "modified", "failed", "refused", "raised", "dead"}]
Stages == {"take", "status", "head", "before", "write", "restore", "completing", "failing"}
Applying ==
  [at : Stages, job : Jobs, exact : BOOLEAN, alone : BOOLEAN, proposal : Proposals,
   before : Trees \cup {<<>>}, left : SUBSET SourceFiles]

\* What an approval r that nobody disturbed may count on: from git status on the working
\* tree is HEAD, from git rev-parse on HEAD is the revision the proposal was made for, what
\* it keeps as before is that revision, and what it leaves is that revision as approved.
Undisturbed(r) ==
  /\ r.at \in {"head", "before"} => worktree = revisions[Tip]
  /\ r.at = "before" => r.proposal.base = Tip
  /\ r.at = "write" => r.before = revisions[r.proposal.base]
  /\ r.at = "completing" =>
       \A f \in SourceFiles :
         worktree[f] = IF f \in r.proposal.changed THEN r.job ELSE revisions[r.proposal.base][f]
ApprovalOK(r) ==
  /\ r.at \in {"status", "head", "before", "write", "completing"} => r.proposal \in Proposed
  /\ r.at \in {"write", "restore"} => r.before \in Trees
  /\ r \in Applying /\ r.alone => Undisturbed(r)

DeveloperRows ==
  /\ job \in [Jobs -> JobRows] /\ proposals \in [Jobs -> Proposals]
  /\ worker \in [Jobs -> Workers]
  /\ \A j \in Jobs : job[j].state = "none" => worker[j] = [at |-> "idle"]
RepositoryOK ==
  /\ revisions \in Seq(Trees) /\ worktree \in Trees
  /\ ownerSteps \in 0..OwnerSteps /\ Tip \in 1..(ownerSteps + 1)
DeveloperIInv ==
  /\ RepositoryOK /\ DeveloperRows
  /\ approval \in [Approvals -> RestingApprovals \cup Applying]
  /\ \A a \in Approvals : ApprovalOK(approval[a])

LEMMA MadeIs ==
  /\ NoProposal \notin Proposed
  /\ \A p \in Proposed : p.base \in 1..Tip /\ p.changed \subseteq SourceFiles
<1>1. \A p \in Proposed : DOMAIN p = {"base", "changed"} /\ p.base \in 1..Tip /\ p.changed \subseteq SourceFiles
  BY DEF Proposed
<1>2. DOMAIN NoProposal = {"base"}
  BY DEF NoProposal
<1> QED BY <1>1, <1>2

\* A job and its worker go on; no approval is touched.
LEMMA WorkerKeeps ==
  ASSUME DeveloperAssumption, DeveloperIInv, NEW j \in Jobs,
         CreateJob(j) \/ Inspected(j) \/ WorkerStatus(j) \/ WorkerCopies(j)
         \/ WorkerChanges(j) \/ WorkerBase(j) \/ WorkerPersists(j)
  PROVE  DeveloperIInv'
<1>1. UNCHANGED <<revisions, worktree, approval, ownerSteps>>
  BY DEF CreateJob, Inspected, WorkerStatus, WorkerCopies, WorkerChanges, WorkerBase, WorkerPersists
<1>2. Proposed' = Proposed /\ Proposals' = Proposals /\ JobRows' = JobRows /\ Workers' = Workers
      /\ Applying' = Applying /\ Tip' = Tip
  BY <1>1 DEF Proposed, Proposals, JobRows, Workers, Applying, Tip
<1>3. /\ job[j] \in JobRows /\ worker[j] \in Workers /\ NoProposal \in Proposals
      /\ Tip \in 1..(ownerSteps + 1)
  BY DEF DeveloperIInv, DeveloperRows, Proposals, RepositoryOK
<1> DEFINE RowsWith(entry, work) ==
      /\ job' = [job EXCEPT ![j] = entry] /\ worker' = [worker EXCEPT ![j] = work]
<1>4. ASSUME NEW entry \in JobRows, entry.state # "none", NEW work \in Workers, RowsWith(entry, work)
      PROVE  /\ job' \in [Jobs -> JobRows] /\ worker' \in [Jobs -> Workers]
             /\ \A i \in Jobs : job'[i].state = "none" => worker'[i] = [at |-> "idle"]
  BY <1>4 DEF DeveloperIInv, DeveloperRows
<1>5. \E entry \in JobRows, work \in Workers : entry.state # "none" /\ RowsWith(entry, work)
  <2>1. CASE CreateJob(j)
    <3>1. worker[j] = [at |-> "idle"]
      BY <2>1 DEF CreateJob, DeveloperIInv, DeveloperRows
    <3>2. PICK entry \in JobRows : job' = [job EXCEPT ![j] = entry] /\ entry.state # "none"
      <4>1. CASE job' = [job EXCEPT ![j].kind = "inspect", ![j].state = "running"]
        <5>1. [job[j] EXCEPT !.kind = "inspect", !.state = "running"] \in JobRows
          BY <1>3 DEF JobRows
        <5>2. [job[j] EXCEPT !.kind = "inspect", !.state = "running"].state # "none"
          BY <1>3 DEF JobRows
        <5>3. job' = [job EXCEPT ![j] = [job[j] EXCEPT !.kind = "inspect", !.state = "running"]]
          BY <1>3, <4>1 DEF JobRows, DeveloperIInv, DeveloperRows
        <5> QED BY <5>1, <5>2, <5>3
      <4>2. CASE job' = [job EXCEPT ![j].kind = "modify", ![j].state = "approval_required"]
        <5>1. [job[j] EXCEPT !.kind = "modify", !.state = "approval_required"] \in JobRows
          BY <1>3 DEF JobRows
        <5>2. [job[j] EXCEPT !.kind = "modify", !.state = "approval_required"].state # "none"
          BY <1>3 DEF JobRows
        <5>3. job' = [job EXCEPT ![j] = [job[j] EXCEPT !.kind = "modify", !.state = "approval_required"]]
          BY <1>3, <4>2 DEF JobRows, DeveloperIInv, DeveloperRows
        <5> QED BY <5>1, <5>2, <5>3
      <4> QED BY <2>1, <4>1, <4>2 DEF CreateJob
    <3>3. PICK at \in {"inspect", "status", "ended"} : worker' = [worker EXCEPT ![j].at = at]
      BY <2>1 DEF CreateJob
    <3>4. [at |-> at] \in Workers
      BY DEF Workers
    <3>5. worker' = [worker EXCEPT ![j] = [at |-> at]]
      <4>1. [[at |-> "idle"] EXCEPT !.at = at] = [at |-> at]
        OBVIOUS
      <4>2. worker' = [worker EXCEPT ![j] = [worker[j] EXCEPT !.at = at]]
        BY <3>3
      <4> QED BY <3>1, <4>1, <4>2
    <3> QED BY <3>2, <3>4, <3>5
  <2>2. CASE Inspected(j) \/ WorkerPersists(j) \/ (WorkerStatus(j) /\ Dirty)
             \/ (WorkerChanges(j) /\ WorkerEnds(j, "failed", NoProposal))
    <3>1. PICK state \in {"completed", "failed", "approval_required"}, result \in Proposals :
            WorkerEnds(j, state, result)
      <4>1. ASSUME worker[j].at = "persist"
            PROVE  worker[j].made \in Proposals
        BY <1>3, <4>1 DEF Workers, Proposals
      <4> QED BY <1>3, <2>2, <4>1 DEF Inspected, WorkerPersists, WorkerStatus
    <3>2. [at |-> "ended"] \in Workers
      BY DEF Workers
    <3> DEFINE entry == [job[j] EXCEPT !.state = state, !.result = result]
    <3>3. entry \in JobRows /\ entry.state # "none"
      BY <1>3 DEF JobRows
    <3>4. RowsWith(entry, [at |-> "ended"])
      BY <1>3, <3>1 DEF WorkerEnds, Updates, JobRows, DeveloperIInv, DeveloperRows
    <3> HIDE DEF entry
    <3> QED BY <3>2, <3>3, <3>4
  <2>3. CASE (WorkerStatus(j) /\ ~Dirty) \/ WorkerCopies(j) \/ WorkerBase(j)
             \/ (WorkerChanges(j) /\ UNCHANGED job)
    <3>1. job' = [job EXCEPT ![j] = job[j]]
      BY <2>3 DEF WorkerStatus, WorkerCopies, WorkerBase, DeveloperIInv, DeveloperRows
    <3>2. job[j].state # "none"
      <4>1. worker[j].at # "idle"
        BY <2>3 DEF WorkerStatus, WorkerCopies, WorkerBase, WorkerChanges
      <4> QED BY <4>1 DEF DeveloperIInv, DeveloperRows
    <3>3. \E work \in Workers : worker' = [worker EXCEPT ![j] = work]
      <4>1. CASE WorkerStatus(j) /\ ~Dirty
        <5>1. worker[j] = [at |-> "status"]
          BY <1>3, <4>1 DEF WorkerStatus, Workers
        <5>2. worker' = [worker EXCEPT ![j] = [at |-> "copy"]]
          BY <4>1, <5>1 DEF WorkerStatus
        <5>3. [at |-> "copy"] \in Workers
          BY DEF Workers
        <5> QED BY <5>2, <5>3
      <4>2. CASE WorkerCopies(j)
        <5>1. [at |-> "codex"] \in Workers
          BY DEF Workers
        <5> QED BY <4>2, <5>1 DEF WorkerCopies
      <4>3. CASE WorkerBase(j)
        <5>1. worker[j].changed \subseteq SourceFiles
          BY <1>3, <4>3 DEF WorkerBase, Workers
        <5>2. [at |-> "persist", made |-> [base |-> Tip, changed |-> worker[j].changed]] \in Workers
          BY <1>3, <5>1 DEF Workers, Proposed, RepositoryOK
        <5> QED BY <4>3, <5>2 DEF WorkerBase
      <4>4. CASE WorkerChanges(j) /\ UNCHANGED job
        <5>1. CASE WorkerEnds(j, "failed", NoProposal)
          <6>1. [at |-> "ended"] \in Workers
            BY DEF Workers
          <6> QED BY <5>1, <6>1 DEF WorkerEnds
        <5>2. ASSUME NEW changed \in SUBSET SourceFiles
              PROVE  [at |-> "base", changed |-> changed] \in Workers
          BY DEF Workers
        <5> QED BY <4>4, <5>1, <5>2 DEF WorkerChanges
      <4> QED BY <2>3, <4>1, <4>2, <4>3, <4>4
    <3> QED BY <1>3, <3>1, <3>2, <3>3
  <2> QED BY <2>1, <2>2, <2>3 DEF WorkerStatus, WorkerChanges
<1>6. proposals' \in [Jobs -> Proposals]
  <2>1. CASE WorkerBase(j)
    <3>1. worker[j].changed \subseteq SourceFiles
      BY <1>3, <2>1 DEF WorkerBase, Workers
    <3>2. [base |-> Tip, changed |-> worker[j].changed] \in Proposals
      BY <1>3, <3>1 DEF Proposed, Proposals, RepositoryOK
    <3> QED BY <2>1, <3>2 DEF WorkerBase, DeveloperIInv, DeveloperRows
  <2>2. CASE UNCHANGED proposals
    BY <2>2 DEF DeveloperIInv, DeveloperRows
  <2> QED BY <2>1, <2>2
        DEF CreateJob, Inspected, WorkerStatus, WorkerCopies, WorkerChanges, WorkerPersists
<1>7. DeveloperRows'
  BY <1>2, <1>4, <1>5, <1>6 DEF DeveloperRows
<1>8. RepositoryOK'
  BY <1>1 DEF DeveloperIInv, RepositoryOK, Tip, Trees
<1>9. ASSUME NEW a \in Approvals
      PROVE  ApprovalOK(approval[a])'
  BY <1>1, <1>2 DEF DeveloperIInv, ApprovalOK, Undisturbed, Tip
<1> QED BY <1>1, <1>2, <1>7, <1>8, <1>9 DEF DeveloperIInv

LEMMA InProgressIs ==
  ASSUME DeveloperIInv, NEW a \in Approvals
  PROVE  /\ InProgress(a) => approval[a] \in Applying
         /\ ~InProgress(a) => approval[a] \in RestingApprovals
         /\ approval[a] \in Applying => approval[a].at \in Stages
         /\ approval[a] \in RestingApprovals => approval[a].at \notin Stages
<1>1. approval[a] \in RestingApprovals \cup Applying
  BY DEF DeveloperIInv
<1>2. \A r \in RestingApprovals : r.at \in {"idle", "modified", "failed", "refused", "raised", "dead"}
  BY DEF RestingApprovals
<1>3. \A r \in Applying : r.at \in Stages
  BY DEF Applying
<1> QED BY <1>1, <1>2, <1>3 DEF InProgress, Stages

\* Somebody touches the working tree: the others know nothing any more.
LEMMA DisturbedIs ==
  ASSUME DeveloperIInv, NEW by
  PROVE  /\ Disturbed(by) \in [Approvals -> RestingApprovals \cup Applying]
         /\ \A a \in Approvals :
              /\ Disturbed(by)[a].at = approval[a].at
              /\ approval[a].at \in Stages =>
                   /\ Disturbed(by)[a].proposal = approval[a].proposal
                   /\ Disturbed(by)[a].before = approval[a].before
              /\ a # by /\ Disturbed(by)[a] \in Applying => ~Disturbed(by)[a].alone
              /\ a = by => Disturbed(by)[a] = approval[a]
<1>1. ASSUME NEW a \in Approvals, InProgress(a), a # by
      PROVE  /\ Disturbed(by)[a] \in Applying /\ Disturbed(by)[a].at = approval[a].at
             /\ Disturbed(by)[a].proposal = approval[a].proposal /\ ~Disturbed(by)[a].alone
             /\ Disturbed(by)[a].before = approval[a].before
  <2>1. approval[a] \in Applying /\ Disturbed(by)[a] = [approval[a] EXCEPT !.alone = FALSE]
    BY <1>1, InProgressIs DEF Disturbed
  <2> QED BY <2>1 DEF Applying
<1>2. ASSUME NEW a \in Approvals, ~(InProgress(a) /\ a # by)
      PROVE  Disturbed(by)[a] = approval[a] /\ approval[a] \in RestingApprovals \cup Applying
  BY <1>2 DEF Disturbed, DeveloperIInv
<1>3. ASSUME NEW a \in Approvals, ~InProgress(a)
      PROVE  approval[a] \notin Applying
  BY <1>3, InProgressIs
<1>4. \A a \in Approvals : Disturbed(by)[a] \in RestingApprovals \cup Applying
  BY <1>1, <1>2
<1>5. Disturbed(by) \in [Approvals -> RestingApprovals \cup Applying]
  BY <1>4 DEF Disturbed
<1> QED BY <1>1, <1>2, <1>3, <1>5

\* What was recorded of a revision stays so while the history grows.
LEMMA HistoryGrows ==
  ASSUME DeveloperIInv, Tip <= Tip', Tip' \in Nat
  PROVE  /\ Proposed \subseteq Proposed' /\ Proposals \subseteq Proposals' /\ JobRows \subseteq JobRows'
         /\ Workers \subseteq Workers' /\ Applying \subseteq Applying'
<1>1. 1..Tip \subseteq 1..Tip'
  BY DEF DeveloperIInv, RepositoryOK
<1>2. Proposed \subseteq Proposed'
  BY <1>1 DEF Proposed
<1>3. Proposals \subseteq Proposals'
  BY <1>2 DEF Proposals
<1> QED BY <1>2, <1>3 DEF JobRows, Workers, Applying

LEMMA OwnerKeeps ==
  ASSUME DeveloperAssumption, DeveloperIInv, OwnerEdits \/ OwnerDiscards \/ OwnerCommits
  PROVE  DeveloperIInv'
<1>1. /\ RepositoryOK /\ DeveloperRows /\ OwnerSteps \in Nat
      /\ \A i \in 1..Tip : revisions[i] \in Trees
  BY DEF DeveloperIInv, RepositoryOK, DeveloperAssumption, Tip
<1>2. /\ approval' = Disturbed("owner") /\ ownerSteps' = ownerSteps + 1 /\ ownerSteps < OwnerSteps
      /\ UNCHANGED <<job, proposals, worker>>
  BY DEF OwnerEdits, OwnerDiscards, OwnerCommits, OwnerLeaves
<1>3. worktree' \in Trees /\ revisions' \in {revisions, Append(revisions, worktree)}
  <2>1. Tip + 1 \in 1..(OwnerSteps + 1)
    BY <1>1, <1>2 DEF RepositoryOK
  <2>2. ASSUME NEW f \in SourceFiles
        PROVE  [worktree EXCEPT ![f] = Tip + 1] \in Trees
    BY <1>1, <2>1 DEF RepositoryOK, Trees
  <2>3. revisions[Tip] \in Trees
    BY <1>1 DEF RepositoryOK
  <2> QED BY <1>1, <2>2, <2>3 DEF OwnerEdits, OwnerDiscards, OwnerCommits, OwnerLeaves, RepositoryOK
<1>4. revisions' \in Seq(Trees) /\ Tip' \in {Tip, Tip + 1}
  BY <1>1, <1>3 DEF RepositoryOK, Tip
<1>5. RepositoryOK'
  <2>1. Trees' = Trees
    BY DEF Trees
  <2> QED BY <1>1, <1>2, <1>3, <1>4, <2>1 DEF RepositoryOK
<1>6. /\ Proposed \subseteq Proposed' /\ Proposals \subseteq Proposals' /\ JobRows \subseteq JobRows'
      /\ Workers \subseteq Workers' /\ Applying \subseteq Applying'
  BY <1>1, <1>4, HistoryGrows DEF RepositoryOK
<1>7. DeveloperRows'
  BY <1>1, <1>2, <1>6 DEF DeveloperRows
<1>8. approval' \in [Approvals -> RestingApprovals \cup Applying']
  <2>1. approval' \in [Approvals -> RestingApprovals \cup Applying]
    BY <1>2, DisturbedIs
  <2> QED BY <1>6, <2>1
<1>9. ASSUME NEW a \in Approvals
      PROVE  ApprovalOK(approval[a])'
  <2>1. a # "owner"
    BY DEF DeveloperAssumption
  <2>2. /\ approval'[a].at = approval[a].at /\ ApprovalOK(approval[a])
        /\ approval[a].at \in Stages => approval'[a].proposal = approval[a].proposal
                                       /\ approval'[a].before = approval[a].before
    BY <1>2, DisturbedIs DEF DeveloperIInv
  <2>3. approval'[a] \in Applying' => ~approval'[a].alone
    <3>1. approval'[a] \in RestingApprovals \cup Applying
      BY <1>2, DisturbedIs
    <3>2. ASSUME approval'[a] \in RestingApprovals, approval'[a] \in Applying'
          PROVE  FALSE
      BY <3>2 DEF RestingApprovals, Applying, Stages
    <3> QED BY <1>2, <2>1, <3>1, <3>2, DisturbedIs
  <2> QED BY <1>6, <2>2, <2>3 DEF ApprovalOK, Trees, Stages
<1>10. RestingApprovals' = RestingApprovals
  BY DEF RestingApprovals
<1> QED BY <1>5, <1>7, <1>8, <1>9, <1>10 DEF DeveloperIInv

LEMMA JobsKeep ==
  ASSUME DeveloperAssumption, DeveloperIInv, ListJobs \/ Restart
  PROVE  DeveloperIInv'
<1>1. UNCHANGED <<revisions, worktree, ownerSteps>>
  BY DEF ListJobs, Restart
<1>2. Proposed' = Proposed /\ Proposals' = Proposals /\ JobRows' = JobRows /\ Workers' = Workers
      /\ Applying' = Applying /\ Tip' = Tip /\ RestingApprovals' = RestingApprovals
  BY <1>1 DEF Proposed, Proposals, JobRows, Workers, Applying, Tip, RestingApprovals
<1>3. RepositoryOK'
  BY <1>1 DEF DeveloperIInv, RepositoryOK, Tip, Trees
<1>4. DeveloperRows'
  <2>1. CASE ListJobs
    <3>1. \A j \in Jobs : [job[j] EXCEPT !.state = "interrupted"] \in JobRows
      BY DEF DeveloperIInv, DeveloperRows, JobRows
    <3>2. job' \in [Jobs -> JobRows]
      BY <2>1, <3>1 DEF ListJobs, DeveloperIInv, DeveloperRows
    <3>3. \A j \in Jobs : job'[j].state = "none" => job[j].state = "none"
      BY <2>1 DEF ListJobs, DeveloperIInv, DeveloperRows, JobRows
    <3> QED BY <1>2, <2>1, <3>2, <3>3 DEF ListJobs, DeveloperIInv, DeveloperRows
  <2>2. CASE Restart
    <3>1. [at |-> "ended"] \in Workers /\ NoProposal \in Proposals
      BY DEF Workers, Proposals
    <3>2. worker' \in [Jobs -> Workers] /\ proposals' \in [Jobs -> Proposals]
      BY <2>2, <3>1 DEF Restart, DeveloperIInv, DeveloperRows
    <3>3. \A j \in Jobs : worker[j] = [at |-> "idle"] => worker'[j] = [at |-> "idle"]
      BY <2>2 DEF Restart
    <3> QED BY <1>2, <2>2, <3>2, <3>3 DEF Restart, DeveloperIInv, DeveloperRows
  <2> QED BY <2>1, <2>2
<1>5. ASSUME NEW a \in Approvals
      PROVE  approval'[a] = approval[a] \/ approval'[a] = [at |-> "dead"]
  BY <1>5 DEF ListJobs, Restart
<1>6. [at |-> "dead"] \in RestingApprovals /\ [at |-> "dead"] \notin Applying
  BY DEF RestingApprovals, Applying, Stages
<1>7. approval' \in [Approvals -> RestingApprovals \cup Applying]
  BY <1>5, <1>6 DEF ListJobs, Restart, DeveloperIInv
<1>8. ASSUME NEW a \in Approvals
      PROVE  ApprovalOK(approval[a])'
  BY <1>1, <1>2, <1>5, <1>6 DEF ApprovalOK, Undisturbed, DeveloperIInv, Tip
<1> QED BY <1>2, <1>3, <1>4, <1>7, <1>8 DEF DeveloperIInv

\* One approval goes on and leaves the repository alone.
LEMMA ApprovalStepKeeps ==
  ASSUME DeveloperIInv, NEW a \in Approvals, NEW new \in RestingApprovals \cup Applying,
         approval' = [approval EXCEPT ![a] = new], ApprovalOK(new),
         UNCHANGED <<revisions, worktree, ownerSteps>>, DeveloperRows'
  PROVE  DeveloperIInv'
<1>2. Proposed' = Proposed /\ Proposals' = Proposals /\ Applying' = Applying /\ Tip' = Tip /\ RestingApprovals' = RestingApprovals
  BY DEF Proposed, Proposals, Applying, Tip, RestingApprovals
<1>3. RepositoryOK'
  BY DEF DeveloperIInv, RepositoryOK, Tip, Trees
<1>4. approval' \in [Approvals -> RestingApprovals \cup Applying]
  BY DEF DeveloperIInv
<1>5. \A b \in Approvals : approval'[b] = new \/ approval'[b] = approval[b]
  BY DEF DeveloperIInv
<1>6. ASSUME NEW b \in Approvals
      PROVE  ApprovalOK(approval[b])'
  BY <1>2, <1>5 DEF ApprovalOK, Undisturbed, DeveloperIInv, Tip
<1> QED BY <1>2, <1>3, <1>4, <1>6 DEF DeveloperIInv

LEMMA EndIs ==
  ASSUME NEW answer \in {"idle", "modified", "failed", "refused", "raised", "dead"}
  PROVE  /\ [at |-> answer] \in RestingApprovals /\ [at |-> answer] \notin Applying
         /\ ApprovalOK([at |-> answer])
BY DEF RestingApprovals, Applying, Stages, ApprovalOK

\* An approval that is going on goes to another stage.
LEMMA StageIs ==
  ASSUME DeveloperIInv, NEW a \in Approvals, approval[a].at \in Stages, NEW at \in Stages
  PROVE  /\ approval[a] \in Applying /\ [approval[a] EXCEPT !.at = at] \in Applying
         /\ [approval[a] EXCEPT !.at = at].at = at
         /\ [approval[a] EXCEPT !.at = at].alone = approval[a].alone
         /\ [approval[a] EXCEPT !.at = at].job = approval[a].job
         /\ [approval[a] EXCEPT !.at = at].before = approval[a].before
         /\ [approval[a] EXCEPT !.at = at].proposal = approval[a].proposal
<1>1. approval[a] \in Applying
  BY InProgressIs DEF DeveloperIInv
<1> QED BY <1>1 DEF Applying

LEMMA LookingKeeps ==
  ASSUME DeveloperIInv, NEW a \in Approvals, ApprovalLooks(a) \/ ApprovalTakes(a)
  PROVE  DeveloperIInv'
<1>1. CASE ApprovalLooks(a)
  <2>1. PICK j \in Jobs, exact \in BOOLEAN :
          IF job[j].state # "approval_required" THEN ApprovalEnds(a, "refused")
          ELSE approval' = [approval EXCEPT ![a] =
                 [at |-> "take", job |-> j, exact |-> exact, alone |-> TRUE,
                  proposal |-> job[j].result, before |-> <<>>, left |-> {}]]
    BY <1>1 DEF ApprovalLooks
  <2>2. PICK new : new = [at |-> "take", job |-> j, exact |-> exact, alone |-> TRUE,
                          proposal |-> job[j].result, before |-> <<>>, left |-> {}]
    OBVIOUS
  <2>3. new \in Applying /\ ApprovalOK(new)
    BY <2>2 DEF Applying, Stages, ApprovalOK, Undisturbed, DeveloperIInv, DeveloperRows, JobRows
  <2>4. UNCHANGED <<revisions, worktree, ownerSteps>> /\ DeveloperRows'
    BY <1>1 DEF ApprovalLooks, DeveloperIInv, DeveloperRows, JobRows, Workers, Proposals, Proposed, Tip
  <2>5. [at |-> "refused"] \in RestingApprovals /\ ApprovalOK([at |-> "refused"])
    BY EndIs
  <2> QED BY <2>1, <2>2, <2>3, <2>4, <2>5, ApprovalStepKeeps DEF ApprovalEnds
<1>2. CASE ApprovalTakes(a)
  <2>1. approval[a] \in Applying
    BY <1>2, InProgressIs DEF ApprovalTakes, Stages, DeveloperIInv
  <2>2. approval[a].job \in Jobs /\ approval[a].proposal \in Proposals
    BY <2>1 DEF Applying
  <2>3. PICK found \in Proposals, at \in {"status", "failing"} :
          /\ approval' = [approval EXCEPT ![a].at = at, ![a].proposal = found]
          /\ proposals' = [proposals EXCEPT ![approval[a].job] = found]
          /\ at = "status" => found # NoProposal
    BY <1>2, <2>2 DEF ApprovalTakes, DeveloperIInv, DeveloperRows
  <2> DEFINE new == [approval[a] EXCEPT !.at = at, !.proposal = found]
  <2>4. new \in Applying /\ new.at = at /\ new.proposal = found
    BY <2>1 DEF Applying, Stages
  <2>5. approval' = [approval EXCEPT ![a] = new]
    BY <2>1, <2>3 DEF Applying, DeveloperIInv
  <2> HIDE DEF new
  <2>6. ApprovalOK(new)
    BY <2>3, <2>4 DEF ApprovalOK, Undisturbed, Proposals
  <2>7. UNCHANGED <<revisions, worktree, ownerSteps>> /\ DeveloperRows'
    BY <1>2, <2>2, <2>3
    DEF ApprovalTakes, DeveloperIInv, DeveloperRows, JobRows, Workers, Proposals, Proposed, Tip
  <2> QED BY <2>4, <2>5, <2>6, <2>7, ApprovalStepKeeps
<1> QED BY <1>1, <1>2

LEMMA CheckingKeeps ==
  ASSUME DeveloperIInv, NEW a \in Approvals, ApprovalStatus(a) \/ ApprovalHead(a) \/ ReadsBefore(a)
  PROVE  DeveloperIInv'
<1>1. UNCHANGED <<revisions, worktree, ownerSteps>> /\ DeveloperRows'
  BY DEF ApprovalStatus, ApprovalHead, ReadsBefore, DeveloperIInv, DeveloperRows, JobRows,
         Workers, Proposals, Proposed, Tip
<1>2. /\ approval[a].at \in Stages /\ approval[a] \in Applying /\ ApprovalOK(approval[a])
      /\ approval \in [Approvals -> RestingApprovals \cup Applying]
  BY InProgressIs DEF ApprovalStatus, ApprovalHead, ReadsBefore, Stages, DeveloperIInv
<1>3. CASE ApprovalStatus(a) \/ ApprovalHead(a)
  <2>1. PICK at \in Stages :
          /\ ApprovalGoes(a, at)
          /\ \/ at = "failing"
             \/ at = "head" /\ approval[a].at = "status" /\ ~Dirty
             \/ at = "before" /\ approval[a].at = "head" /\ SameRevision(approval[a].proposal)
    BY <1>3 DEF ApprovalStatus, ApprovalHead, Stages
  <2> DEFINE new == [approval[a] EXCEPT !.at = at]
  <2>2. /\ new \in Applying /\ new.at = at /\ new.alone = approval[a].alone
        /\ new.proposal = approval[a].proposal
    BY <1>2, StageIs
  <2>3. approval' = [approval EXCEPT ![a] = new]
    BY <1>2, <2>1 DEF ApprovalGoes
  <2> HIDE DEF new
  <2>4. ApprovalOK(new)
    BY <1>2, <2>1, <2>2 DEF ApprovalOK, Undisturbed, Dirty, SameRevision
  <2> QED BY <1>1, <2>2, <2>3, <2>4, ApprovalStepKeeps
<1>4. CASE ReadsBefore(a)
  <2>1. approval[a].proposal \in Proposed /\ approval[a].proposal.changed \subseteq SourceFiles
        /\ worktree \in Trees
    BY <1>2, <1>4, MadeIs DEF ReadsBefore, ApprovalOK, DeveloperIInv, RepositoryOK
  <2> DEFINE new == [approval[a] EXCEPT !.at = "write", !.before = worktree,
                                        !.left = approval[a].proposal.changed]
  <2>2. /\ new \in Applying /\ new.at = "write" /\ new.alone = approval[a].alone
        /\ new.proposal = approval[a].proposal /\ new.before = worktree
    BY <1>2, <2>1 DEF Applying, Stages
  <2>3. approval' = [approval EXCEPT ![a] = new]
    BY <1>2, <1>4 DEF ReadsBefore, Applying
  <2> HIDE DEF new
  <2>4. ApprovalOK(new)
    BY <1>2, <1>4, <2>1, <2>2 DEF ApprovalOK, Undisturbed, ReadsBefore
  <2> QED BY <1>1, <2>2, <2>3, <2>4, ApprovalStepKeeps
<1> QED BY <1>3, <1>4

\* One file is written, by an approval that applies or restores.
LEMMA WritingKeeps ==
  ASSUME DeveloperIInv, NEW a \in Approvals, AppliesFile(a) \/ RestoresFile(a)
  PROVE  DeveloperIInv'
<1>1. /\ UNCHANGED <<revisions, ownerSteps, job, proposals, worker>>
      /\ approval[a].at \in Stages /\ approval[a] \in Applying /\ ApprovalOK(approval[a])
      /\ approval[a].before \in Trees \cup {<<>>} /\ approval[a].job \in Jobs
      /\ approval[a].left \subseteq SourceFiles
  BY InProgressIs DEF AppliesFile, RestoresFile, Stages, DeveloperIInv, Applying
<1>2. Proposed' = Proposed /\ Proposals' = Proposals /\ Applying' = Applying /\ Tip' = Tip /\ RestingApprovals' = RestingApprovals
      /\ Workers' = Workers /\ JobRows' = JobRows
  BY <1>1 DEF Proposed, Proposals, Applying, Tip, RestingApprovals, Workers, JobRows
<1>3. DeveloperRows'
  BY <1>1, <1>2 DEF DeveloperIInv, DeveloperRows
<1>4. worktree' \in Trees
  <2>1. CASE AppliesFile(a)
    BY <1>1, <2>1 DEF AppliesFile, DeveloperIInv, RepositoryOK, Trees
  <2>2. CASE RestoresFile(a)
    <3>1. PICK f \in SourceFiles : worktree' = [worktree EXCEPT ![f] = approval[a].before[f]]
      BY <1>1, <2>2 DEF RestoresFile
    <3>2. approval[a].before \in Trees
      BY <1>1, <2>2 DEF ApprovalOK, RestoresFile
    <3> QED BY <3>1, <3>2 DEF DeveloperIInv, RepositoryOK, Trees
  <2> QED BY <2>1, <2>2
<1>5. RepositoryOK'
  BY <1>1, <1>2, <1>4 DEF DeveloperIInv, RepositoryOK, Trees
<1>6. PICK at \in {approval[a].at, "failing"}, left \in SUBSET SourceFiles :
        approval' = [Disturbed(a) EXCEPT ![a] = [approval[a] EXCEPT !.left = left, !.at = at]]
  <2>1. Disturbed(a)[a] = approval[a] /\ DOMAIN Disturbed(a) = Approvals
    BY DisturbedIs
  <2>2. CASE AppliesFile(a)
    <3>1. PICK f \in SourceFiles : approval' = [Disturbed(a) EXCEPT ![a].left = @ \ {f}]
      BY <1>1, <2>2 DEF AppliesFile
    <3>2. [approval[a] EXCEPT !.left = @ \ {f}]
            = [approval[a] EXCEPT !.left = approval[a].left \ {f}, !.at = approval[a].at]
      BY <1>1 DEF Applying
    <3>3. approval' = [Disturbed(a) EXCEPT ![a] = [approval[a] EXCEPT !.left = @ \ {f}]]
      BY <2>1, <3>1
    <3> QED BY <1>1, <3>2, <3>3
  <2>3. CASE RestoresFile(a)
    <3>1. PICK f \in SourceFiles :
            approval' = [Disturbed(a) EXCEPT ![a].left = @ \ {f},
                           ![a].at = IF approval[a].left = {f} THEN "failing" ELSE @]
      BY <1>1, <2>3 DEF RestoresFile
    <3>2. approval' = [Disturbed(a) EXCEPT ![a] =
                         [approval[a] EXCEPT !.left = approval[a].left \ {f},
                            !.at = IF approval[a].left = {f} THEN "failing" ELSE approval[a].at]]
      BY <1>1, <2>1, <3>1 DEF Applying
    <3> QED BY <1>1, <3>2
  <2> QED BY <2>2, <2>3
<1> DEFINE new == [approval[a] EXCEPT !.left = left, !.at = at]
<1>7. /\ new \in Applying /\ new.at = at /\ new.alone = approval[a].alone
      /\ new.proposal = approval[a].proposal /\ new.before = approval[a].before
  BY <1>1, <1>6 DEF Applying, Stages
<1>8. approval' = [Disturbed(a) EXCEPT ![a] = new]
  BY <1>1, <1>6, DisturbedIs DEF Applying
<1> HIDE DEF new
<1>9. /\ approval'[a] = new /\ \A b \in Approvals \ {a} : approval'[b] = Disturbed(a)[b]
      /\ approval' \in [Approvals -> RestingApprovals \cup Applying]
  BY <1>7, <1>8, DisturbedIs
<1>10. ApprovalOK(approval[a])'
  <2>1. approval[a].at \in {"write", "restore"} /\ at \in {"write", "restore", "failing"}
    BY <1>6 DEF AppliesFile, RestoresFile
  <2>2. Trees' = Trees
    BY DEF Trees
  <2>3. at = "write" => approval[a].at = "write"
    BY <1>6, <2>1
  <2> QED BY <1>1, <1>2, <1>7, <1>9, <2>1, <2>2, <2>3 DEF ApprovalOK, Undisturbed
<1>11. ASSUME NEW b \in Approvals \ {a}
       PROVE  ApprovalOK(approval[b])'
  <2>1. /\ approval'[b].at = approval[b].at /\ ApprovalOK(approval[b])
        /\ approval[b].at \in Stages => approval'[b].proposal = approval[b].proposal
                                       /\ approval'[b].before = approval[b].before
        /\ approval'[b] \in Applying => ~approval'[b].alone
    BY <1>9, DisturbedIs DEF DeveloperIInv
  <2>2. Trees' = Trees
    BY DEF Trees
  <2> QED BY <1>2, <2>1, <2>2 DEF ApprovalOK, Stages
<1> QED BY <1>2, <1>3, <1>5, <1>9, <1>10, <1>11 DEF DeveloperIInv

LEMMA ConcludingKeeps ==
  ASSUME DeveloperIInv, NEW a \in Approvals, WriteRaises(a) \/ ReadsAfter(a) \/ ApprovalAnswers(a)
  PROVE  DeveloperIInv'
<1>1. /\ UNCHANGED <<revisions, worktree, ownerSteps, worker>>
      /\ approval[a].at \in Stages /\ approval[a] \in Applying /\ ApprovalOK(approval[a])
      /\ approval[a].job \in Jobs /\ approval \in [Approvals -> RestingApprovals \cup Applying]
  BY InProgressIs DEF WriteRaises, ReadsAfter, ApprovalAnswers, Stages, DeveloperIInv, Applying
<1>2. NoProposal \in Proposals
  BY DEF Proposals
<1>3. CASE WriteRaises(a)
  <2>1. DeveloperRows'
    BY <1>1, <1>3 DEF WriteRaises, DeveloperIInv, DeveloperRows, JobRows, Workers, Proposals, Proposed, Tip
  <2> QED BY <1>1, <1>3, <2>1, EndIs, ApprovalStepKeeps DEF WriteRaises, ApprovalEnds
<1>4. CASE ReadsAfter(a) /\ Exact(a)
  <2>1. DeveloperRows'
    BY <1>1, <1>2, <1>4 DEF ReadsAfter, DeveloperIInv, DeveloperRows, JobRows, Workers, Proposals, Proposed, Tip
  <2> DEFINE new == [approval[a] EXCEPT !.at = "completing"]
  <2>2. /\ new \in Applying /\ new.at = "completing" /\ new.alone = approval[a].alone
        /\ new.proposal = approval[a].proposal /\ new.job = approval[a].job
    BY <1>1, StageIs DEF Stages
  <2>3. approval' = [approval EXCEPT ![a] = new]
    BY <1>1, <1>4 DEF ReadsAfter, ApprovalGoes
  <2> HIDE DEF new
  <2>4. /\ \A f \in approval[a].proposal.changed : worktree[f] = approval[a].job
        /\ \A f \in SourceFiles \ approval[a].proposal.changed : worktree[f] = approval[a].before[f]
    BY <1>4 DEF Exact
  <2>5. ApprovalOK(new)
    BY <1>1, <1>4, <2>2, <2>4 DEF ApprovalOK, Undisturbed, ReadsAfter
  <2> QED BY <1>1, <2>1, <2>2, <2>3, <2>5, ApprovalStepKeeps
<1>5. CASE ReadsAfter(a) /\ ~Exact(a)
  <2>1. DeveloperRows'
    BY <1>1, <1>5 DEF ReadsAfter, DeveloperIInv, DeveloperRows, JobRows, Workers, Proposals, Proposed, Tip
  <2> DEFINE new == [approval[a] EXCEPT !.at = "restore", !.left = SourceFiles]
  <2>2. /\ new \in Applying /\ new.at = "restore" /\ new.before = approval[a].before
    BY <1>1 DEF Applying, Stages
  <2>3. approval' = [approval EXCEPT ![a] = new]
    BY <1>1, <1>5 DEF ReadsAfter, Applying
  <2> HIDE DEF new
  <2>4. ApprovalOK(new)
    BY <1>1, <1>5, <2>2 DEF ApprovalOK, Undisturbed, ReadsAfter
  <2> QED BY <1>1, <2>1, <2>2, <2>3, <2>4, ApprovalStepKeeps
<1>6. CASE ApprovalAnswers(a)
  <2>1. PICK state \in {"completed", "failed"}, answer \in {"modified", "failed"} :
          Updates(approval[a].job, state, NoProposal) /\ ApprovalEnds(a, answer)
    BY <1>6 DEF ApprovalAnswers
  <2> DEFINE entry == [job[approval[a].job] EXCEPT !.state = state, !.result = NoProposal]
  <2>2. entry \in JobRows /\ entry.state = state
    BY <1>1, <1>2 DEF DeveloperIInv, DeveloperRows, JobRows
  <2>3. job' = [job EXCEPT ![approval[a].job] = entry]
    BY <1>1, <2>1 DEF Updates, DeveloperIInv, DeveloperRows, JobRows
  <2> HIDE DEF entry
  <2>4. DeveloperRows'
    <3>1. job' \in [Jobs -> JobRows] /\ \A j \in Jobs : job'[j].state = "none" => job[j].state = "none"
      BY <2>2, <2>3 DEF DeveloperIInv, DeveloperRows
    <3>2. JobRows' = JobRows /\ Workers' = Workers /\ Proposals' = Proposals
      BY <1>1 DEF JobRows, Workers, Proposals, Proposed, Tip
    <3> QED BY <1>1, <1>6, <3>1, <3>2 DEF ApprovalAnswers, DeveloperIInv, DeveloperRows
  <2>5. UNCHANGED <<revisions, worktree, ownerSteps>>
    BY <1>1
  <2> QED BY <2>1, <2>4, <2>5, EndIs, ApprovalStepKeeps DEF ApprovalEnds
<1> QED BY <1>3, <1>4, <1>5, <1>6

LEMMA DeveloperInitOK ==
  ASSUME DeveloperAssumption, DeveloperInit
  PROVE  DeveloperIInv
<1> DEFINE first == [f \in SourceFiles |-> 1]
<1>1. first \in Trees
  BY DEF Trees, DeveloperAssumption
<1> HIDE DEF first
<1>2. revisions = <<first>> /\ worktree = first
  BY DEF DeveloperInit, first
<1>3. RepositoryOK
  BY <1>1, <1>2 DEF DeveloperInit, RepositoryOK, DeveloperAssumption, Tip
<1>4. DeveloperRows
  BY DEF DeveloperInit, DeveloperRows, JobRows, Workers, Proposals
<1>5. [at |-> "idle"] \in RestingApprovals /\ ApprovalOK([at |-> "idle"])
  BY EndIs
<1> QED BY <1>3, <1>4, <1>5 DEF DeveloperInit, DeveloperIInv

\* Jobs, proposals and approvals stay what developer_jobs.py stores of them, for any
\* number of requests, owner's commits and restarts.
THEOREM DeveloperInvariance == DeveloperSpec => []DeveloperIInv
<1>1. DeveloperInit => DeveloperIInv
  BY DeveloperAssumption, DeveloperInitOK
<1>2. DeveloperIInv /\ [DeveloperNext]_developerVars => DeveloperIInv'
  <2>1. CASE UNCHANGED developerVars
    <3>1. UNCHANGED <<revisions, worktree, job, proposals, worker, approval, ownerSteps>>
      BY <2>1 DEF developerVars
    <3> QED BY <3>1 DEF DeveloperIInv, RepositoryOK, DeveloperRows, ApprovalOK, Undisturbed,
               Trees, Proposed, Proposals, JobRows, Workers, Applying, Tip
  <2> QED BY <2>1, DeveloperAssumption, WorkerKeeps, OwnerKeeps, JobsKeep, LookingKeeps,
             CheckingKeeps, WritingKeeps, ConcludingKeeps DEF DeveloperNext
<1> QED BY <1>1, <1>2, PTL DEF DeveloperSpec

\* An application that nobody disturbed leaves the revision its proposal was made for with
\* the approved files changed and nothing else, whatever came between the proposal and
\* its approval and whatever an earlier application left behind (developer.py:464).
THEOREM ApplicationsAreExact == DeveloperSpec => []AppliesExactly
<1>1. DeveloperIInv => AppliesExactly
  <2> SUFFICES ASSUME DeveloperIInv, NEW a \in Approvals, approval[a].at = "completing",
                      approval[a].alone
               PROVE  \A f \in SourceFiles :
                        worktree[f] = IF f \in approval[a].proposal.changed THEN approval[a].job
                                      ELSE revisions[approval[a].proposal.base][f]
    BY DEF AppliesExactly
  <2>1. approval[a] \in Applying /\ ApprovalOK(approval[a])
    BY InProgressIs DEF DeveloperIInv, Stages
  <2> QED BY <2>1 DEF ApprovalOK, Undisturbed
<1> QED BY <1>1, DeveloperInvariance, PTL

\* Every content in the repository is a revision's or a job's (DeveloperTypeOK).
THEOREM DeveloperTypeCorrect == DeveloperSpec => []DeveloperTypeOK
<1>1. DeveloperAssumption /\ DeveloperIInv => DeveloperTypeOK
  <2> SUFFICES ASSUME DeveloperAssumption, DeveloperIInv
               PROVE  DeveloperTypeOK
    OBVIOUS
  <2>1. /\ revisions \in Seq(Trees) /\ worktree \in Trees /\ Tip \in 1..(OwnerSteps + 1)
    BY DEF DeveloperIInv, RepositoryOK, DeveloperAssumption
  <2>2. \A i \in 1..Tip : revisions[i] \in Trees
    BY <2>1 DEF Tip
  <2>3. \A p \in Proposals : p.base \in 0..Tip
    <3>1. NoProposal.base \in 0..Tip
      BY <2>1 DEF NoProposal
    <3>2. 1..Tip \subseteq 0..Tip
      BY <2>1
    <3> QED BY <3>1, <3>2, MadeIs DEF Proposals
  <2>4. ASSUME NEW j \in Jobs
        PROVE  /\ job[j].kind \in {"none", "inspect", "modify"}
               /\ job[j].state \in {"none", "running", "approval_required", "completed", "failed", "interrupted"}
               /\ proposals[j] \in Proposals /\ job[j].result \in Proposals
    BY DEF DeveloperIInv, DeveloperRows, JobRows
  <2> QED BY <2>1, <2>2, <2>3, <2>4 DEF DeveloperTypeOK, Trees
<1> QED BY <1>1, DeveloperAssumption, DeveloperInvariance, PTL

-----------------------------------------------------------------------------
(* FinanceLedger: the ledger holds what its sources say.                      *)

IsTransaction(t) ==
  /\ DOMAIN t = {"id", "provider", "status", "source"}
  /\ t.status \in {"pending", "posted"} /\ t.source \in SourceNames
  /\ \E from \in SourceNames : \E says :
       \/ t.provider # NoProviderId /\ t.id = <<from, <<"provider", t.provider>>>>
       \/ t.provider = NoProviderId /\ t.id = <<from, <<from, says>>>>
IsUpload(u) ==
  u = [export |-> u.export, source |-> u.source] /\ u.export \in Exports /\ u.source \in SourceNames

\* t is what the row i of the upload u stands for
StandsFor(t, u, i) ==
  IF u.export[i].provider # NoProviderId THEN t.provider = u.export[i].provider
  ELSE t.id = <<u.source, Identity(u, i)>>

\* A snapshot, or a copy of it, that holds what its sources say: no two transactions have
\* an id or a provider's id in common, and every accepted row has a transaction.
Holds(book) ==
  /\ \A t \in book.transactions : IsTransaction(t)
  /\ \A t, o \in book.transactions :
       t.id = o.id \/ (t.provider = o.provider /\ t.provider # NoProviderId) => t = o
  /\ \A s \in book.sources :
       /\ IsUpload(s.upload) /\ s = SourceOf(s.upload)
       /\ \A i \in Accepted(s.upload) :
            /\ \E t \in book.transactions : StandsFor(t, s.upload, i)
            /\ \A t \in book.transactions :
                 t.status = "pending" /\ t.provider = s.upload.export[i].provider
                   /\ t.provider # NoProviderId /\ s.upload.export[i].status = "posted"
                   => s.upload.source = t.id[1]

ImporterOK(r) ==
  /\ DOMAIN r = {"at", "upload", "copy"}
  /\ r.at \in {"idle", "merge", "save", "known", "imported", "refused", "failed"}
  /\ r.at = "merge" => IsUpload(r.upload)
  /\ Holds(r.copy)

FinanceIInv ==
  /\ Holds(snapshot) /\ outages \in 0..Outages
  /\ importer = [i \in Imports |-> importer[i]]
  /\ \A i \in Imports : ImporterOK(importer[i])

\* Identities of rows.
LEMMA IdentityIs ==
  ASSUME FinanceAssumption, NEW u, IsUpload(u), NEW i \in DOMAIN u.export
  PROVE  /\ u.export[i].provider # NoProviderId => Identity(u, i) = <<"provider", u.export[i].provider>>
         /\ u.export[i].provider = NoProviderId => Identity(u, i) = <<u.source, u.export[i].says>>
         /\ u.source # "provider"
BY DEF Identity, IsUpload, FinanceAssumption

LEMMA SameIdentity ==
  ASSUME FinanceAssumption, NEW u, IsUpload(u), NEW i \in DOMAIN u.export, NEW j \in DOMAIN u.export,
         Identity(u, i) = Identity(u, j)
  PROVE  u.export[i].provider = u.export[j].provider
BY IdentityIs

\* Two accepted rows of an upload have two identities.
LEMMA AcceptedOnce ==
  ASSUME FinanceAssumption, NEW u, IsUpload(u), NEW i \in Accepted(u), NEW j \in Accepted(u),
         Identity(u, i) = Identity(u, j)
  PROVE  i = j
<1>1. PICK n \in Nat : DOMAIN u.export = 1..n
  <2>1. u.export \in Seq(ExportedRows)
    BY DEF IsUpload, FinanceAssumption
  <2> QED BY <2>1
<1>2. ASSUME NEW k \in Accepted(u), NEW l \in Accepted(u), k < l
      PROVE  Identity(u, k) # Identity(u, l)
  <2>1. u.export[k].readable /\ u.export[l].readable /\ ~Seen(u, l)
    BY DEF Accepted, RejectedRow, Duplicate
  <2>2. k \in 1..(l - 1)
    BY <1>1, <1>2 DEF Accepted
  <2> QED BY <2>1, <2>2 DEF Seen
<1>3. i \in 1..n /\ j \in 1..n
  BY <1>1 DEF Accepted
<1> QED BY <1>2, <1>3

\* Every row of an upload without rejected rows is accepted, or an earlier one like it is.
LEMMA LeastNumber ==
  ASSUME NEW S, S \subseteq Nat, S # {}
  PROVE  \E n \in S : \A m \in S : n <= m
<1>1. PICK n \in S : \A m \in S : ~ (<<m, n>> \in OpToRel(<, Nat))
  BY NatLessThanWellFounded, WFMin
<1>2. ASSUME NEW m \in S PROVE n <= m
  <2>1. ~ (m < n)
    BY <1>1, <1>2 DEF OpToRel
  <2> QED BY <2>1
<1> QED BY <1>2

LEMMA AcceptedLike ==
  ASSUME FinanceAssumption, NEW u, IsUpload(u), \A i \in DOMAIN u.export : ~RejectedRow(u, i),
         NEW i \in DOMAIN u.export
  PROVE  \E j \in Accepted(u) : Identity(u, j) = Identity(u, i)
<1>1. PICK n \in Nat : DOMAIN u.export = 1..n
  <2>1. u.export \in Seq(ExportedRows)
    BY DEF IsUpload, FinanceAssumption
  <2> QED BY <2>1
<1> DEFINE Like == {j \in 1..n : Identity(u, j) = Identity(u, i)}
<1>2. i \in Like /\ Like \subseteq Nat
  BY <1>1
<1> HIDE DEF Like
<1>3. PICK j \in Like : \A k \in Like : j <= k
  BY <1>2, LeastNumber
<1> USE DEF Like
<1>4. ~Seen(u, j)
  BY <1>1, <1>3 DEF Seen
<1> QED BY <1>1, <1>3, <1>4 DEF Accepted, Duplicate

\* A transaction is known by its provider's id, or by its source and what is said.
LEMMA TransactionIs ==
  ASSUME FinanceAssumption, NEW t, IsTransaction(t), NEW u, IsUpload(u), NEW i \in DOMAIN u.export,
         t.id = <<u.source, Identity(u, i)>>
  PROVE  t.provider = u.export[i].provider /\ t.id[1] = u.source /\ StandsFor(t, u, i)
<1>1. u.source \in SourceNames
  BY DEF IsUpload
<1>2. PICK from \in SourceNames : \E says :
        \/ t.provider # NoProviderId /\ t.id = <<from, <<"provider", t.provider>>>>
        \/ t.provider = NoProviderId /\ t.id = <<from, <<from, says>>>>
  BY DEF IsTransaction
<1>3. from = u.source /\ from # "provider"
  BY <1>2, IdentityIs
<1> QED BY <1>2, <1>3, IdentityIs DEF StandsFor

\* The transaction an accepted row makes.
LEMMA ItemIs ==
  ASSUME FinanceAssumption, NEW u, IsUpload(u), NEW i \in Accepted(u)
  PROVE  LET t == TransactionOf(u, i) IN
         /\ IsTransaction(t) /\ StandsFor(t, u, i) /\ t.source = u.source
         /\ t.id = <<u.source, Identity(u, i)>>
         /\ t.provider = u.export[i].provider /\ t.status = u.export[i].status
<1> DEFINE t == TransactionOf(u, i)
<1>1. i \in DOMAIN u.export /\ u.source \in SourceNames /\ u.export \in Exports
  BY DEF Accepted, IsUpload
<1>2. u.export[i].status \in {"pending", "posted"}
  <2>1. u.export[i] \in Range(u.export)
    BY <1>1 DEF Range
  <2>2. u.export[i].status \in {"pending", "posted", "other"}
    BY <1>1, <2>1 DEF FinanceAssumption
  <2> QED BY <2>2 DEF Accepted, RejectedRow, Duplicate
<1>3. /\ t.id = <<u.source, Identity(u, i)>> /\ t.source = u.source
      /\ t.provider = u.export[i].provider /\ t.status = u.export[i].status
      /\ DOMAIN t = {"id", "provider", "status", "source"}
  BY DEF TransactionOf
<1> HIDE DEF t
<1>4. \E from \in SourceNames : \E says :
        \/ t.provider # NoProviderId /\ t.id = <<from, <<"provider", t.provider>>>>
        \/ t.provider = NoProviderId /\ t.id = <<from, <<from, says>>>>
  <2>1. CASE u.export[i].provider # NoProviderId
    BY <1>1, <1>3, <2>1, IdentityIs
  <2>2. CASE u.export[i].provider = NoProviderId
    <3>1. t.id = <<u.source, <<u.source, u.export[i].says>>>>
      BY <1>1, <1>3, <2>2, IdentityIs
    <3> QED BY <1>1, <1>3, <2>2, <3>1
  <2> QED BY <2>1, <2>2
<1>5. IsTransaction(t)
  BY <1>1, <1>2, <1>3, <1>4 DEF IsTransaction
<1> QED BY <1>3, <1>5 DEF StandsFor, t

\* t as a source posts it
PostedFrom(t, from) == [t EXCEPT !.status = "posted", !.source = from]

\* What is in a merged book: what was there and is not posted, what is posted, what is new.
LEMMA MergedHas ==
  ASSUME FinanceAssumption, NEW book, Holds(book), NEW u, IsUpload(u)
  PROVE  LET items == {TransactionOf(u, i) : i \in Accepted(u)}
             Post(t) == \E p \in PostedBy(book, items) : p[1] = t
         IN \A t : t \in Merged(book, u).transactions <=>
              \/ t \in book.transactions /\ ~Post(t)
              \/ \E o \in book.transactions : Post(o) /\ t = PostedFrom(o, u.source)
              \/ \E i \in Accepted(u) : t = TransactionOf(u, i) /\ NewTo(book, t)
<1> DEFINE items == {TransactionOf(u, i) : i \in Accepted(u)}
           posts == PostedBy(book, items)
<1>1. \A p \in posts : p[1] \in book.transactions /\ p[2] \in items
  BY DEF PostedBy
<1>2. \A p \in posts : p[2].source = u.source
  BY <1>1, ItemIs
<1>3. Merged(book, u).transactions =
        (book.transactions \ {p[1] : p \in posts})
          \cup {PostedFrom(p[1], p[2].source) : p \in posts}
          \cup {item \in items : NewTo(book, item)}
  BY DEF Merged, PostedFrom
<1>4. {PostedFrom(p[1], p[2].source) : p \in posts} = {PostedFrom(p[1], u.source) : p \in posts}
  BY <1>2
<1> HIDE DEF posts
<1>5. ASSUME NEW t
      PROVE  t \in {PostedFrom(p[1], u.source) : p \in posts} <=>
               \E o \in book.transactions : (\E p \in posts : p[1] = o) /\ t = PostedFrom(o, u.source)
  BY <1>1
<1> QED BY <1>3, <1>4, <1>5 DEF posts

LEMMA PostedFromIs ==
  ASSUME NEW t, IsTransaction(t), NEW from \in SourceNames
  PROVE  LET o == PostedFrom(t, from) IN
         IsTransaction(o) /\ o.id = t.id /\ o.provider = t.provider /\ o.status = "posted"
<1> DEFINE o == PostedFrom(t, from)
<1>1. DOMAIN t = {"id", "provider", "status", "source"}
  BY DEF IsTransaction
<1>2. /\ DOMAIN o = {"id", "provider", "status", "source"} /\ o.id = t.id
      /\ o.provider = t.provider /\ o.status = "posted" /\ o.source = from
  BY <1>1 DEF PostedFrom
<1> HIDE DEF o
<1>4. IsTransaction(o)
  BY <1>2 DEF IsTransaction
<1> QED BY <1>2, <1>4 DEF o

\* An upload is merged: the copy goes on to hold what its sources say.
LEMMA MergedHolds ==
  ASSUME FinanceAssumption, NEW book, Holds(book), NEW u, IsUpload(u)
  PROVE  Holds(Merged(book, u))
<1> DEFINE items == {TransactionOf(u, i) : i \in Accepted(u)}
           Post(t) == \E p \in PostedBy(book, items) : p[1] = t
           Stays(t, o) ==
             o \in book.transactions /\ ((t = o /\ ~Post(o)) \/ (Post(o) /\ t = PostedFrom(o, u.source)))
           Brought(t, i) == i \in Accepted(u) /\ t = TransactionOf(u, i) /\ NewTo(book, t)
           T == Merged(book, u).transactions
<1>12. \A t : t \in T <=>
         \/ t \in book.transactions /\ ~Post(t)
         \/ \E o \in book.transactions : Post(o) /\ t = PostedFrom(o, u.source)
         \/ \E i \in Accepted(u) : t = TransactionOf(u, i) /\ NewTo(book, t)
  BY MergedHas
<1> HIDE DEF T, Post
<1>1. ASSUME NEW t \in T
      PROVE  (\E o : Stays(t, o)) \/ (\E i : Brought(t, i))
  BY <1>12
<1>2. \A t : (\E o : Stays(t, o)) \/ (\E i : Brought(t, i)) => t \in T
  BY <1>12
<1>3. u.source \in SourceNames
  BY DEF IsUpload
<1>4. ASSUME NEW t, NEW o, Stays(t, o)
      PROVE  IsTransaction(t) /\ t.id = o.id /\ t.provider = o.provider
             /\ (t.status = "pending" => t = o /\ ~Post(o))
  BY <1>3, <1>4, PostedFromIs DEF Holds
<1>5. ASSUME NEW t, NEW i, Brought(t, i)
      PROVE  /\ IsTransaction(t) /\ StandsFor(t, u, i) /\ t.id = <<u.source, Identity(u, i)>>
             /\ t.provider = u.export[i].provider /\ t.status = u.export[i].status
             /\ \A o \in book.transactions :
                  t.id # o.id /\ (t.provider # NoProviderId => t.provider # o.provider)
  BY <1>5, ItemIs DEF NewTo, ProviderIds
<1>6. \A t \in T : IsTransaction(t)
  BY <1>1, <1>4, <1>5
<1>7. ASSUME NEW t \in T, NEW o \in T,
             t.id = o.id \/ (t.provider = o.provider /\ t.provider # NoProviderId)
      PROVE  t = o
  <2>1. ASSUME NEW a, NEW b, Stays(t, a), Stays(o, b)
        PROVE  t = o
    <3>1. a = b
      BY <1>4, <1>7, <2>1 DEF Holds
    <3> QED BY <2>1, <3>1
  <2>2. ASSUME NEW i, NEW j, Brought(t, i), Brought(o, j)
        PROVE  t = o
    <3>1. Identity(u, i) = Identity(u, j)
      <4>1. CASE t.id = o.id
        BY <1>5, <2>2, <4>1
      <4>2. CASE t.provider = o.provider /\ t.provider # NoProviderId
        <5>1. i \in DOMAIN u.export /\ j \in DOMAIN u.export
          BY <2>2 DEF Accepted
        <5> QED BY <1>5, <2>2, <4>2, <5>1, IdentityIs
      <4> QED BY <1>7, <4>1, <4>2
    <3>2. i = j
      BY <2>2, <3>1, AcceptedOnce
    <3> QED BY <2>2, <3>2
  <2>3. ASSUME NEW a, NEW j, (Stays(t, a) /\ Brought(o, j)) \/ (Stays(o, a) /\ Brought(t, j))
        PROVE  FALSE
    <3>1. CASE Stays(t, a) /\ Brought(o, j)
      <4>1. t.id = a.id /\ t.provider = a.provider /\ a \in book.transactions
        BY <1>4, <3>1
      <4>2. o.id # a.id /\ (o.provider # NoProviderId => o.provider # a.provider)
        BY <1>5, <3>1, <4>1
      <4> QED BY <1>7, <4>1, <4>2
    <3>2. CASE Stays(o, a) /\ Brought(t, j)
      <4>1. o.id = a.id /\ o.provider = a.provider /\ a \in book.transactions
        BY <1>4, <3>2
      <4>2. t.id # a.id /\ (t.provider # NoProviderId => t.provider # a.provider)
        BY <1>5, <3>2, <4>1
      <4> QED BY <1>7, <4>1, <4>2
    <3> QED BY <2>3, <3>1, <3>2
  <2> QED BY <1>1, <2>1, <2>2, <2>3
<1>8. ASSUME NEW o \in book.transactions
      PROVE  \E t \in T : t.id = o.id /\ t.provider = o.provider
  <2>1. CASE Post(o)
    BY <1>2, <1>4, <2>1
  <2>2. CASE ~Post(o)
    BY <1>2, <1>4, <2>2
  <2> QED BY <2>1, <2>2
<1>9. ASSUME NEW s \in book.sources, NEW i \in Accepted(s.upload)
      PROVE  /\ \E t \in T : StandsFor(t, s.upload, i)
             /\ \A t \in T :
                  t.status = "pending" /\ t.provider = s.upload.export[i].provider
                    /\ t.provider # NoProviderId /\ s.upload.export[i].status = "posted"
                    => s.upload.source = t.id[1]
  <2>1. PICK o \in book.transactions : StandsFor(o, s.upload, i)
    BY <1>9 DEF Holds
  <2>2. \E t \in T : StandsFor(t, s.upload, i)
    BY <1>8, <2>1 DEF StandsFor
  <2>3. ASSUME NEW t \in T, t.status = "pending", t.provider = s.upload.export[i].provider,
               t.provider # NoProviderId, s.upload.export[i].status = "posted"
        PROVE  s.upload.source = t.id[1]
    <3>1. o.provider = t.provider
      BY <2>1, <2>3 DEF StandsFor
    <3>2. ~ \E j : Brought(t, j)
      BY <1>5, <2>3, <3>1
    <3>3. t \in book.transactions
      BY <1>1, <1>4, <2>3, <3>2
    <3> QED BY <1>9, <2>3, <3>3 DEF Holds
  <2> QED BY <2>2, <2>3
<1>10. ASSUME NEW i \in Accepted(u)
       PROVE  /\ \E t \in T : StandsFor(t, u, i)
              /\ \A t \in T :
                   t.status = "pending" /\ t.provider = u.export[i].provider
                     /\ t.provider # NoProviderId /\ u.export[i].status = "posted"
                     => u.source = t.id[1]
  <2> DEFINE item == TransactionOf(u, i)
  <2>1. /\ i \in DOMAIN u.export /\ item \in items /\ item.provider = u.export[i].provider
        /\ item.status = u.export[i].status /\ item.id = <<u.source, Identity(u, i)>>
        /\ StandsFor(item, u, i)
    BY ItemIs DEF Accepted
  <2> HIDE DEF item
  <2>2. \E t \in T : StandsFor(t, u, i)
    <3>1. CASE NewTo(book, item)
      <4>1. Brought(item, i)
        BY <3>1 DEF item
      <4> QED BY <1>2, <2>1, <4>1
    <3>2. CASE \E o \in book.transactions : o.id = item.id
      <4>1. PICK o \in book.transactions : o.id = item.id
        BY <3>2
      <4>2. PICK t \in T : t.id = o.id
        BY <1>8
      <4>3. StandsFor(t, u, i)
        BY <1>6, <2>1, <4>1, <4>2, TransactionIs
      <4> QED BY <4>3
    <3>3. CASE item.provider # NoProviderId /\ \E o \in book.transactions : o.provider = item.provider
      BY <1>8, <2>1, <3>3 DEF StandsFor
    <3> QED BY <3>1, <3>2, <3>3 DEF NewTo, ProviderIds
  <2>3. ASSUME NEW t \in T, t.status = "pending", t.provider = u.export[i].provider,
               t.provider # NoProviderId, u.export[i].status = "posted"
        PROVE  u.source = t.id[1]
    <3>1. ASSUME NEW j, Brought(t, j)
          PROVE  u.source = t.id[1]
      BY <1>5, <3>1
    <3>2. ASSUME NEW o, Stays(t, o)
          PROVE  u.source = t.id[1]
      <4>1. t = o /\ o \in book.transactions /\ ~Post(o)
        BY <1>4, <2>3, <3>2
      <4>2. item.provider \in ProviderIds(book)
        BY <2>1, <2>3, <4>1 DEF ProviderIds
      <4>3. \E a \in book.transactions : a.id = item.id
        <5>1. SUFFICES ASSUME item.id \notin {a.id : a \in book.transactions}
                       PROVE  FALSE
          OBVIOUS
        <5>2. <<o, item>> \in PostedBy(book, items)
          BY <2>1, <2>3, <4>1, <4>2, <5>1 DEF PostedBy
        <5> QED BY <4>1, <5>2 DEF Post
      <4>4. PICK a \in book.transactions : a.id = item.id
        BY <4>3
      <4>5. a.provider = u.export[i].provider /\ a.id[1] = u.source
        BY <2>1, <4>4, TransactionIs DEF Holds
      <4>6. a = o
        BY <2>3, <4>1, <4>4, <4>5 DEF Holds
      <4> QED BY <4>1, <4>5, <4>6
    <3> QED BY <1>1, <3>1, <3>2
  <2> QED BY <2>2, <2>3
<1>11. Merged(book, u).sources = book.sources \cup {SourceOf(u)} /\ SourceOf(u).upload = u
  BY DEF Merged, SourceOf
<1> QED BY <1>6, <1>7, <1>9, <1>10, <1>11 DEF Holds, T

LEMMA NothingHolds == Holds(NoSnapshot)
BY DEF Holds, NoSnapshot

\* One request goes on; the snapshot stays, or becomes its copy.
LEMMA ImporterKeeps ==
  ASSUME FinanceIInv, NEW i \in Imports, NEW new, ImporterOK(new), importer' = [importer EXCEPT ![i] = new],
         snapshot' \in {snapshot, importer[i].copy}, outages' \in 0..Outages
  PROVE  FinanceIInv'
<1>1. importer' = [j \in Imports |-> importer'[j]] /\ \A j \in Imports : ImporterOK(importer'[j])
  BY DEF FinanceIInv
<1>2. Holds(snapshot')
  BY DEF FinanceIInv, ImporterOK
<1>3. FinanceIInv' <=>
        /\ Holds(snapshot') /\ outages' \in 0..Outages
        /\ importer' = [j \in Imports |-> importer'[j]] /\ \A j \in Imports : ImporterOK(importer'[j])
  BY DEF FinanceIInv, ImporterOK, Holds, IsTransaction, IsUpload
<1> QED BY <1>1, <1>2, <1>3

LEMMA FinanceNextKeeps ==
  ASSUME FinanceAssumption, FinanceIInv, [FinanceNext]_financeVars
  PROVE  FinanceIInv'
<1>1. CASE UNCHANGED financeVars
  BY <1>1 DEF financeVars, FinanceIInv
<1>2. ASSUME NEW i \in Imports
      PROVE  ImporterOK(importer[i]) /\ importer = [j \in Imports |-> importer[j]]
  BY DEF FinanceIInv
<1>3. ASSUME NEW i \in Imports, NEW at \in {"known", "imported", "refused", "failed"}, ImportEnds(i, at),
             snapshot' \in {snapshot, importer[i].copy}, outages' \in 0..Outages
      PROVE  FinanceIInv'
  <2> DEFINE new == [importer[i] EXCEPT !.at = at, !.copy = NoSnapshot]
  <2>1. DOMAIN new = {"at", "upload", "copy"} /\ new.at = at /\ new.copy = NoSnapshot
    BY <1>2 DEF ImporterOK
  <2>2. importer' = [importer EXCEPT ![i] = new]
    BY <1>2, <1>3 DEF ImportEnds
  <2> HIDE DEF new
  <2>3. ImporterOK(new)
    BY <2>1, NothingHolds DEF ImporterOK
  <2> QED BY <1>3, <2>2, <2>3, ImporterKeeps
<1>4. outages \in 0..Outages /\ Outages \in Nat
  BY DEF FinanceIInv, FinanceAssumption
<1>5. ASSUME NEW i \in Imports, LoadSnapshot(i)
      PROVE  FinanceIInv'
  <2>1. CASE ImportEnds(i, "refused")
    BY <1>3, <1>4, <1>5, <2>1 DEF LoadSnapshot
  <2>2. ASSUME NEW e \in Exports, NEW s \in SourceNames,
               importer' = [importer EXCEPT ![i] =
                 [at |-> "merge", upload |-> [export |-> e, source |-> s], copy |-> snapshot]]
        PROVE  FinanceIInv'
    <3>1. ImporterOK([at |-> "merge", upload |-> [export |-> e, source |-> s], copy |-> snapshot])
      BY DEF ImporterOK, IsUpload, FinanceIInv
    <3> QED BY <1>4, <1>5, <2>2, <3>1, ImporterKeeps DEF LoadSnapshot
  <2> QED BY <1>5, <2>1, <2>2 DEF LoadSnapshot
<1>6. ASSUME NEW i \in Imports, MergeUpload(i)
      PROVE  FinanceIInv'
  <2>1. CASE ImportEnds(i, "known")
    BY <1>3, <1>4, <1>6, <2>1 DEF MergeUpload
  <2>2. CASE importer' = [importer EXCEPT ![i].at = "save",
                            ![i].copy = Merged(importer[i].copy, importer[i].upload)]
    <3> DEFINE new == [importer[i] EXCEPT !.at = "save",
                                          !.copy = Merged(importer[i].copy, importer[i].upload)]
    <3>1. /\ DOMAIN new = {"at", "upload", "copy"} /\ new.at = "save"
          /\ new.copy = Merged(importer[i].copy, importer[i].upload)
      BY <1>2 DEF ImporterOK
    <3>2. importer' = [importer EXCEPT ![i] = new]
      BY <1>2, <2>2 DEF ImporterOK
    <3> HIDE DEF new
    <3>3. Holds(Merged(importer[i].copy, importer[i].upload))
      BY <1>2, <1>6, MergedHolds DEF ImporterOK, MergeUpload
    <3>4. ImporterOK(new)
      BY <3>1, <3>3 DEF ImporterOK
    <3> QED BY <1>4, <1>6, <3>2, <3>4, ImporterKeeps DEF MergeUpload
  <2> QED BY <1>6, <2>1, <2>2 DEF MergeUpload
<1>7. ASSUME NEW i \in Imports, SaveSnapshot(i) \/ ImportFails(i)
      PROVE  FinanceIInv'
  <2>1. CASE SaveSnapshot(i)
    <3>1. snapshot' \in {snapshot, importer[i].copy} /\ outages' \in 0..Outages /\ ImportEnds(i, "imported")
      BY <1>4, <2>1 DEF SaveSnapshot
    <3> QED BY <1>3, <3>1
  <2>2. CASE ImportFails(i)
    <3>1. snapshot' \in {snapshot, importer[i].copy} /\ outages' \in 0..Outages
      BY <1>4, <2>2 DEF ImportFails
    <3> QED BY <1>3, <2>2, <3>1 DEF ImportFails
  <2> QED BY <1>7, <2>1, <2>2
<1> QED BY <1>1, <1>5, <1>6, <1>7 DEF FinanceNext

\* However imports overlap and fail, the snapshot holds what its sources say: it is one
\* copy or another, whole, and each of them was merged out of such a snapshot.
THEOREM FinanceInvariance == FinanceSpec => []FinanceIInv
<1>1. FinanceInit => FinanceIInv
  <2>1. \A u : ImporterOK([at |-> "idle", upload |-> u, copy |-> NoSnapshot])
    BY NothingHolds DEF ImporterOK
  <2> QED BY <2>1, FinanceAssumption, NothingHolds DEF FinanceInit, FinanceIInv, FinanceAssumption
<1>2. FinanceIInv /\ [FinanceNext]_financeVars => FinanceIInv'
  BY FinanceAssumption, FinanceNextKeeps
<1> QED BY <1>1, <1>2, PTL DEF FinanceSpec

\* Every row of a source that is called complete stands for exactly one transaction, and
\* none is pending that another source posted (finance.py:457-548).
THEOREM TheLedgerHoldsItsSources == FinanceSpec => []SourcesAreHeld
<1>1. ASSUME FinanceAssumption, FinanceIInv, NEW s \in snapshot.sources, s.complete,
             NEW i \in DOMAIN s.upload.export
      PROVE  Cardinality({t \in snapshot.transactions : StandsFor(t, s.upload, i)}) = 1
  <2>1. /\ Holds(snapshot) /\ IsUpload(s.upload)
        /\ \A j \in DOMAIN s.upload.export : ~RejectedRow(s.upload, j)
    BY <1>1 DEF FinanceIInv, Holds, SourceOf
  <2>2. PICK j \in Accepted(s.upload) : Identity(s.upload, j) = Identity(s.upload, i)
    BY <1>1, <2>1, AcceptedLike
  <2>3. j \in DOMAIN s.upload.export
    BY DEF Accepted
  <2>4. s.upload.export[i].provider = s.upload.export[j].provider
    BY <1>1, <2>1, <2>2, <2>3, SameIdentity
  <2>5. PICK t \in snapshot.transactions : StandsFor(t, s.upload, j)
    BY <1>1, <2>1 DEF Holds
  <2>6. StandsFor(t, s.upload, i)
    BY <2>2, <2>4, <2>5 DEF StandsFor
  <2>7. \A o \in snapshot.transactions : StandsFor(o, s.upload, i) => o = t
    BY <2>1, <2>6 DEF StandsFor, Holds
  <2>8. {o \in snapshot.transactions : StandsFor(o, s.upload, i)} = {t}
    BY <2>6, <2>7
  <2> QED BY <2>8, FS_Singleton
<1>2. FinanceAssumption /\ FinanceIInv => SourcesAreHeld
  <2> SUFFICES ASSUME FinanceAssumption, FinanceIInv, NEW s \in snapshot.sources
               PROVE  /\ s.complete => \A i \in DOMAIN s.upload.export :
                           Cardinality({t \in snapshot.transactions : StandsFor(t, s.upload, i)}) = 1
                      /\ \A t \in snapshot.transactions, i \in Accepted(s.upload) :
                           t.status = "pending" /\ s.upload.export[i].provider = t.provider
                             /\ s.upload.export[i].provider # NoProviderId
                             /\ s.upload.export[i].status = "posted" => s.upload.source = t.id[1]
    BY DEF SourcesAreHeld, StandsFor
  <2> QED BY <1>1 DEF FinanceIInv, Holds
<1> QED BY <1>2, FinanceAssumption, FinanceInvariance, PTL

\* The snapshot holds pending and posted transactions of uploads only, whatever the
\* status that a row says.
THEOREM FinanceTypeCorrect == FinanceSpec => []FinanceTypeOK
<1>1. FinanceIInv => FinanceTypeOK
  <2> SUFFICES ASSUME FinanceIInv PROVE FinanceTypeOK
    OBVIOUS
  <2>1. \A t \in snapshot.transactions : t.status \in {"pending", "posted"} /\ t.source \in SourceNames
    BY DEF FinanceIInv, Holds, IsTransaction
  <2>2. ASSUME NEW s \in snapshot.sources
        PROVE  s.upload.export \in Exports /\ s.complete \in BOOLEAN
    <3>1. IsUpload(s.upload) /\ s = SourceOf(s.upload)
      BY DEF FinanceIInv, Holds
    <3>2. \A u : SourceOf(u).complete \in BOOLEAN
      BY DEF SourceOf
    <3> QED BY <3>1, <3>2 DEF IsUpload
  <2>3. \A i \in Imports : importer[i].at \in {"idle", "merge", "save", "known", "imported",
                                               "refused", "failed"}
    BY DEF FinanceIInv, ImporterOK
  <2> QED BY <2>1, <2>2, <2>3 DEF FinanceTypeOK, FinanceIInv
<1> QED BY <1>1, FinanceInvariance, PTL

-----------------------------------------------------------------------------
(* HouseholdStore: the ledgers account for the rows.                          *)

Early == {"idle", "look", "load", "save"}
Late == {"verify", "compare", "done"}

\* A payload whose ledgers are in step with its rows, be it the row of the table or a copy
\* that a request is about to write back.
InStep(s) ==
  /\ DOMAIN s = {"groceries", "items", "groceryLedger", "pantry", "chores", "choreLedger",
                 "events", "eventLedger"}
  /\ s.groceries \in Seq(Foods)
  /\ IsFiniteSet(DOMAIN s.groceryLedger)
  /\ \A f \in Foods :
       Cardinality(Listed(s, f)) =
         Cardinality({i \in DOMAIN Legacy : Legacy[i] = f})
         + Cardinality({k \in DOMAIN s.groceryLedger : s.groceryLedger[k] = f})
  /\ DOMAIN s.items = {<<s.groceries[i], i>> : i \in DOMAIN s.groceries}
  /\ Accounted(s.choreLedger, s.chores) /\ Accounted(s.eventLedger, s.events)

\* of the requests, those that have saved nothing yet have no chore and no event in s
NothingSaved(requests, s) ==
  \A c \in Callers : requests[c].at \in Early => c \notin DOMAIN s.chores \cup DOMAIN s.events

RequestOK(r) ==
  /\ DOMAIN r = {"at", "op", "looked", "copy", "shown", "verdict"}
  /\ r.at \in Early \cup Late
  /\ r.at \in {"look", "load", "save"} => r.op.kind \in OperationKinds
  /\ r.op.kind = "AddGrocery" => r.op.food \in Foods
  /\ r.at = "save" => InStep(r.copy) /\ ~ReadsOnly(r.op)

HouseholdIInv ==
  /\ InStep(space) /\ NothingSaved(caller, space)
  /\ caller = [c \in Callers |-> caller[c]]
  /\ \A c \in Callers :
       RequestOK(caller[c]) /\ (caller[c].at = "save" => NothingSaved(caller, caller[c].copy))

-----------------------------------------------------------------------------
\* A new row under a new key.
LEMMA OneMoreRow ==
  ASSUME NEW ledger, NEW things, NEW key, NEW id, NEW thing, Accounted(ledger, things),
         key \notin DOMAIN ledger, id \notin DOMAIN things
  PROVE  Accounted(With(ledger, key, id), With(things, id, thing))
<1> DEFINE more == With(ledger, key, id)
<1>1. /\ DOMAIN more = DOMAIN ledger \cup {key} /\ more[key] = id
      /\ \A k \in DOMAIN ledger : more[k] = ledger[k]
      /\ DOMAIN With(things, id, thing) = DOMAIN things \cup {id}
  BY DEF With
<1> HIDE DEF more
<1>2. \A k \in DOMAIN ledger : ledger[k] \in DOMAIN things
  BY DEF Accounted
<1>3. {k \in DOMAIN more : more[k] = id} = {key}
  BY <1>1, <1>2
<1>4. Cardinality({k \in DOMAIN more : more[k] = id}) = 1
  BY <1>3, FS_Singleton
<1>5. ASSUME NEW i \in DOMAIN things
      PROVE  Cardinality({k \in DOMAIN more : more[k] = i}) = 1
  <2>1. {k \in DOMAIN more : more[k] = i} = {k \in DOMAIN ledger : ledger[k] = i}
    BY <1>1
  <2> QED BY <2>1 DEF Accounted
<1>6. \A k \in DOMAIN more : more[k] \in DOMAIN things \cup {id}
  BY <1>1, <1>2
<1> QED BY <1>1, <1>4, <1>5, <1>6 DEF Accounted, more

\* A new grocery under a new key.
LEMMA OneMoreGrocery ==
  ASSUME HouseholdAssumption, NEW s, InStep(s), NEW op, op.food \in Foods
  PROVE  InStep(AddGrocery(s, op))
<1>1. CASE Replayed(s.groceryLedger, op.key)
  BY <1>1 DEF AddGrocery
<1>2. CASE ~Replayed(s.groceryLedger, op.key)
  <2> DEFINE list == Append(s.groceries, op.food)
             more == With(s.groceryLedger, op.key, op.food)
             items == [id \in DOMAIN Migrated(list) |->
                         IF id \in DOMAIN s.items THEN s.items[id] ELSE Migrated(list)[id]]
             t == [s EXCEPT !.groceries = list, !.items = items, !.groceryLedger = more]
  <2>1. AddGrocery(s, op) = t
    BY <1>2 DEF AddGrocery
  <2>2. /\ DOMAIN t = DOMAIN s /\ t.groceries = list /\ t.items = items /\ t.groceryLedger = more
        /\ t.chores = s.chores /\ t.choreLedger = s.choreLedger
        /\ t.events = s.events /\ t.eventLedger = s.eventLedger
    BY DEF InStep
  <2>3. DOMAIN items = {<<list[i], i>> : i \in DOMAIN list}
    BY DEF Migrated
  <2>4. /\ DOMAIN more = DOMAIN s.groceryLedger \cup {op.key} /\ more[op.key] = op.food
        /\ \A k \in DOMAIN s.groceryLedger : more[k] = s.groceryLedger[k]
        /\ op.key \notin DOMAIN s.groceryLedger
    BY <1>2 DEF Replayed, With
  <2>5. PICK n \in Nat : n = Len(s.groceries) /\ DOMAIN s.groceries = 1..n
    BY DEF InStep
  <2>6. /\ list \in Seq(Foods) /\ DOMAIN list = 1..(n + 1) /\ list[n + 1] = op.food
        /\ \A i \in 1..n : list[i] = s.groceries[i]
    BY <2>5 DEF InStep
  <2> HIDE DEF list, more, items, t
  <2>7. ASSUME NEW f \in Foods
        PROVE  Cardinality(Listed(t, f)) =
                 Cardinality({i \in DOMAIN Legacy : Legacy[i] = f})
                 + Cardinality({k \in DOMAIN t.groceryLedger : t.groceryLedger[k] = f})
    <3> DEFINE old == Listed(s, f)
               keys == {k \in DOMAIN s.groceryLedger : s.groceryLedger[k] = f}
    <3>1. old \subseteq 1..n /\ IsFiniteSet(1..n)
      <4>1. old \subseteq 1..n
        BY <2>5 DEF Listed
      <4>2. IsFiniteSet(1..n)
        BY FS_Interval
      <4> QED BY <4>1, <4>2
    <3>2. IsFiniteSet(old) /\ IsFiniteSet(keys)
      BY <3>1, FS_Subset DEF InStep
    <3>3. /\ Cardinality(old) = Cardinality({i \in DOMAIN Legacy : Legacy[i] = f}) + Cardinality(keys)
          /\ Cardinality(old) \in Nat /\ Cardinality(keys) \in Nat
      BY <3>2, FS_CardinalityType DEF InStep
    <3>4. CASE f # op.food
      <4>1. Listed(t, f) = old /\ {k \in DOMAIN t.groceryLedger : t.groceryLedger[k] = f} = keys
        BY <2>2, <2>4, <2>5, <2>6, <3>4 DEF Listed
      <4> QED BY <3>3, <4>1
    <3>5. CASE f = op.food
      <4>1. Listed(t, f) = old \cup {n + 1} /\ n + 1 \notin old
        BY <2>2, <2>5, <2>6, <3>5 DEF Listed
      <4>2. {k \in DOMAIN t.groceryLedger : t.groceryLedger[k] = f} = keys \cup {op.key}
            /\ op.key \notin keys
        BY <2>2, <2>4, <3>5
      <4>3. Cardinality(Listed(t, f)) = Cardinality(old) + 1
        BY <3>2, <4>1, FS_AddElement
      <4>4. Cardinality({k \in DOMAIN t.groceryLedger : t.groceryLedger[k] = f}) = Cardinality(keys) + 1
        BY <3>2, <4>2, FS_AddElement
      <4>5. Cardinality({i \in DOMAIN Legacy : Legacy[i] = f}) \in Nat
        <5>1. Legacy \in Seq(Foods)
          BY DEF HouseholdAssumption
        <5>2. PICK m \in Nat : DOMAIN Legacy = 1..m
          BY <5>1
        <5>3. IsFiniteSet({i \in DOMAIN Legacy : Legacy[i] = f})
          BY <5>2, FS_Interval, FS_Subset
        <5> QED BY <5>3, FS_CardinalityType
      <4> QED BY <3>3, <4>3, <4>4, <4>5
    <3> QED BY <3>4, <3>5
  <2>8. IsFiniteSet(DOMAIN t.groceryLedger)
    BY <2>2, <2>4, FS_AddElement DEF InStep
  <2> QED BY <2>1, <2>2, <2>3, <2>6, <2>7, <2>8 DEF InStep
<1> QED BY <1>1, <1>2

\* Every operation on a copy in step leaves it in step, and adds rows of its own request only.
LEMMA AppliedInStep ==
  ASSUME HouseholdAssumption, NEW s, InStep(s), NEW op, op.kind \in OperationKinds, ~ReadsOnly(op),
         op.kind = "AddGrocery" => op.food \in Foods, NEW looked, NEW c,
         c \notin DOMAIN s.chores \cup DOMAIN s.events
  PROVE  LET t == Applied(s, op, looked, c) IN
         /\ InStep(t)
         /\ DOMAIN t.chores \cup DOMAIN t.events \subseteq DOMAIN s.chores \cup DOMAIN s.events \cup {c}
<1> DEFINE t == Applied(s, op, looked, c)
           SameLists(u) == /\ u.groceries = s.groceries /\ u.groceryLedger = s.groceryLedger
                           /\ DOMAIN u = DOMAIN s /\ DOMAIN u.items = DOMAIN s.items
           SameRows(u) == /\ DOMAIN u.chores = DOMAIN s.chores /\ u.choreLedger = s.choreLedger
                          /\ u.events = s.events /\ u.eventLedger = s.eventLedger
<1>1. DOMAIN s = {"groceries", "items", "groceryLedger", "pantry", "chores", "choreLedger",
                  "events", "eventLedger"}
  BY DEF InStep
<1>2. ASSUME NEW u, SameLists(u), Accounted(u.choreLedger, u.chores), Accounted(u.eventLedger, u.events)
      PROVE  InStep(u)
  <2>1. \A f \in Foods : Listed(u, f) = Listed(s, f)
    BY <1>2 DEF Listed
  <2> QED BY <1>2, <2>1 DEF InStep
<1>3. ASSUME NEW u, SameLists(u), SameRows(u)
      PROVE  InStep(u) /\ DOMAIN u.chores \cup DOMAIN u.events \subseteq DOMAIN s.chores \cup DOMAIN s.events \cup {c}
  <2>1. Accounted(u.choreLedger, u.chores) /\ Accounted(u.eventLedger, u.events)
    BY <1>3 DEF InStep, Accounted
  <2> QED BY <1>2, <1>3, <2>1
<1>4. CASE op.kind = "AddGrocery"
  <2>1. t = AddGrocery(s, op)
    BY <1>4 DEF Applied
  <2>2. t.chores = s.chores /\ t.events = s.events
    BY <1>1, <2>1 DEF AddGrocery
  <2> QED BY <1>4, <2>1, <2>2, OneMoreGrocery
<1>5. CASE op.kind \in {"SetGrocery", "RemoveGroceries"}
  <2>1. PICK ids, to : t = SetGroceries(s, ids, to)
    BY <1>5 DEF Applied
  <2>2. SameLists(t) /\ SameRows(t)
    BY <1>1, <2>1 DEF SetGroceries
  <2> QED BY <1>3, <2>2
<1>6. CASE op.kind \in {"AddPantry", "UpdatePantry", "ConsumePantry"}
  <2>1. PICK food, quantity, version : t = PutPantry(s, food, quantity, version)
    BY <1>6 DEF Applied, UpdatePantry, ConsumePantry
  <2>2. SameLists(t) /\ SameRows(t)
    BY <1>1, <2>1 DEF PutPantry
  <2> QED BY <1>3, <2>2
<1>7. CASE op.kind = "CompleteChore"
  <2>1. t = CompleteChore(s, looked)
    BY <1>7 DEF Applied
  <2>2. SameLists(t) /\ SameRows(t)
    BY <1>1, <2>1 DEF CompleteChore
  <2> QED BY <1>3, <2>2
<1>8. CASE op.kind = "AddChore"
  <2>1. t = AddChore(s, op, c)
    BY <1>8 DEF Applied
  <2>2. CASE Replayed(s.choreLedger, op.key)
    BY <2>1, <2>2 DEF AddChore
  <2>3. CASE ~Replayed(s.choreLedger, op.key)
    <3>1. PICK added : added = [title |-> op.title, completed |-> FALSE]
      OBVIOUS
    <3>2. t = [s EXCEPT !.chores = With(s.chores, c, added), !.choreLedger = With(s.choreLedger, op.key, c)]
      BY <2>1, <2>3, <3>1 DEF AddChore
    <3>3. /\ SameLists(t) /\ t.events = s.events /\ t.eventLedger = s.eventLedger
          /\ t.chores = With(s.chores, c, added) /\ t.choreLedger = With(s.choreLedger, op.key, c)
      BY <1>1, <3>2
    <3>4. Accounted(t.choreLedger, t.chores) /\ Accounted(t.eventLedger, t.events)
      BY <2>3, <3>3, OneMoreRow DEF InStep, Replayed
    <3>5. DOMAIN t.chores = DOMAIN s.chores \cup {c}
      BY <3>3 DEF With
    <3> QED BY <1>2, <3>3, <3>4, <3>5
  <2> QED BY <2>2, <2>3
<1>9. CASE op.kind = "AddEvent"
  <2>1. t = AddEvent(s, op, c)
    BY <1>9 DEF Applied
  <2>2. CASE Replayed(s.eventLedger, op.key)
    BY <2>1, <2>2 DEF AddEvent
  <2>3. CASE ~Replayed(s.eventLedger, op.key)
    <3>1. t = [s EXCEPT !.events = With(s.events, c, op.title), !.eventLedger = With(s.eventLedger, op.key, c)]
      BY <2>1, <2>3 DEF AddEvent
    <3>2. /\ SameLists(t) /\ t.chores = s.chores /\ t.choreLedger = s.choreLedger
          /\ t.events = With(s.events, c, op.title) /\ t.eventLedger = With(s.eventLedger, op.key, c)
      BY <1>1, <3>1
    <3>3. Accounted(t.choreLedger, t.chores) /\ Accounted(t.eventLedger, t.events)
      BY <2>3, <3>2, OneMoreRow DEF InStep, Replayed
    <3>4. DOMAIN t.events = DOMAIN s.events \cup {c}
      BY <3>2 DEF With
    <3> QED BY <1>2, <3>2, <3>3, <3>4
  <2> QED BY <2>2, <2>3
<1> QED BY <1>4, <1>5, <1>6, <1>7, <1>8, <1>9 DEF OperationKinds, ReadsOnly

LEMMA AskedFood ==
  ASSUME NEW c, NEW s, NEW op \in Groundable(c, s), op.kind = "AddGrocery"
  PROVE  op.food \in Foods
BY DEF Groundable

\* One request goes on; the table stays.
LEMMA RequestGoesOn ==
  ASSUME HouseholdIInv, NEW c \in Callers, NEW new, RequestOK(new), caller' = [caller EXCEPT ![c] = new],
         UNCHANGED space, new.at \in Early => caller[c].at \in Early,
         new.at = "save" => NothingSaved(caller, new.copy)
  PROVE  HouseholdIInv'
<1>1. caller' = [d \in Callers |-> caller'[d]] /\ caller'[c] = new
      /\ \A d \in Callers \ {c} : caller'[d] = caller[d]
  BY DEF HouseholdIInv
<1>2. \A d \in Callers : caller'[d].at \in Early => caller[d].at \in Early
  BY <1>1
<1>3. \A s : NothingSaved(caller, s) => NothingSaved(caller', s)
  BY <1>2 DEF NothingSaved
<1>4. ASSUME NEW d \in Callers
      PROVE  RequestOK(caller'[d]) /\ (caller'[d].at = "save" => NothingSaved(caller', caller'[d].copy))
  BY <1>1, <1>3 DEF HouseholdIInv
<1>5. InStep(space)' /\ NothingSaved(caller', space')
  BY <1>3 DEF HouseholdIInv
<1> QED BY <1>1, <1>4, <1>5 DEF HouseholdIInv

LEMMA RequestIs ==
  ASSUME HouseholdIInv, NEW c \in Callers
  PROVE  /\ RequestOK(caller[c]) /\ DOMAIN caller = Callers
         /\ DOMAIN caller[c] = {"at", "op", "looked", "copy", "shown", "verdict"}
BY DEF HouseholdIInv, RequestOK

LEMMA AskingHouseholdKeeps ==
  ASSUME HouseholdAssumption, HouseholdIInv, NEW c \in Callers,
         Ground(c) \/ LookUp(c) \/ ListRecords(c) \/ Load(c)
  PROVE  HouseholdIInv'
<1>1. CASE Ground(c)
  <2>1. PICK op \in Groundable(c, space), at \in {"look", "load"} :
          /\ op.kind \in OperationKinds
          /\ caller' = [caller EXCEPT ![c].op = op, ![c].at = at]
    BY <1>1 DEF Ground, HouseholdAssumption
  <2> DEFINE new == [caller[c] EXCEPT !.op = op, !.at = at]
  <2>2. /\ DOMAIN new = {"at", "op", "looked", "copy", "shown", "verdict"}
        /\ new.op = op /\ new.at = at
    BY RequestIs
  <2>3. caller' = [caller EXCEPT ![c] = new]
    BY <2>1, RequestIs
  <2> HIDE DEF new
  <2>4. RequestOK(new)
    BY <2>1, <2>2, AskedFood DEF RequestOK, Early
  <2> QED BY <1>1, <2>2, <2>3, <2>4, RequestGoesOn DEF Ground, Early
<1>2. CASE LookUp(c) /\ Fails(c)
  <2> DEFINE new == [caller[c] EXCEPT !.at = "done", !.verdict = "failed", !.copy = "nothing",
                                      !.looked = "nothing"]
  <2>1. /\ DOMAIN new = {"at", "op", "looked", "copy", "shown", "verdict"}
        /\ new.op = caller[c].op /\ new.at \in {"compare", "done"}
    BY RequestIs
  <2>2. caller' = [caller EXCEPT ![c] = new]
    BY <1>2, RequestIs DEF Fails
  <2> HIDE DEF new
  <2>3. RequestOK(new)
    BY <2>1, RequestIs DEF RequestOK, Late
  <2> QED BY <1>2, <2>1, <2>2, <2>3, RequestGoesOn DEF LookUp, Early
<1>3. CASE LookUp(c) /\ ~Fails(c)
  <2>1. PICK shown : caller' = [caller EXCEPT ![c].at = "verify", ![c].shown = shown]
                     \/ caller' = [caller EXCEPT ![c].at = "load", ![c].looked = shown]
    BY <1>3 DEF LookUp
  <2>2. CASE caller' = [caller EXCEPT ![c].at = "verify", ![c].shown = shown]
    <3> DEFINE new == [caller[c] EXCEPT !.at = "verify", !.shown = shown]
    <3>1. /\ DOMAIN new = {"at", "op", "looked", "copy", "shown", "verdict"}
          /\ new.op = caller[c].op /\ new.at = "verify"
      BY RequestIs
    <3>2. caller' = [caller EXCEPT ![c] = new]
      BY <2>2, RequestIs
    <3> HIDE DEF new
    <3>3. RequestOK(new)
      BY <3>1, RequestIs DEF RequestOK, Late
    <3> QED BY <1>3, <3>1, <3>2, <3>3, RequestGoesOn DEF LookUp, Early
  <2>3. CASE caller' = [caller EXCEPT ![c].at = "load", ![c].looked = shown]
    <3> DEFINE new == [caller[c] EXCEPT !.at = "load", !.looked = shown]
    <3>1. /\ DOMAIN new = {"at", "op", "looked", "copy", "shown", "verdict"}
          /\ new.op = caller[c].op /\ new.at = "load"
      BY RequestIs
    <3>2. caller' = [caller EXCEPT ![c] = new]
      BY <2>3, RequestIs
    <3> HIDE DEF new
    <3>3. RequestOK(new)
      BY <1>3, <3>1, RequestIs DEF RequestOK, Early, LookUp
    <3> QED BY <1>3, <3>1, <3>2, <3>3, RequestGoesOn DEF LookUp, Early
  <2> QED BY <2>1, <2>2, <2>3
<1>4. CASE ListRecords(c)
  <2> DEFINE shown == Contents(space, caller[c].op)
             new == [caller[c] EXCEPT !.at = "verify", !.shown = shown]
  <2>1. /\ DOMAIN new = {"at", "op", "looked", "copy", "shown", "verdict"}
        /\ new.op = caller[c].op /\ new.at = "verify"
    BY RequestIs
  <2>2. caller' = [caller EXCEPT ![c] = new]
    BY <1>4, RequestIs DEF ListRecords
  <2> HIDE DEF new
  <2>3. RequestOK(new)
    BY <2>1, RequestIs DEF RequestOK, Late
  <2> QED BY <1>4, <2>1, <2>2, <2>3, RequestGoesOn DEF ListRecords, Early
<1>5. CASE Load(c)
  <2> DEFINE new == [caller[c] EXCEPT !.at = "save", !.copy = space]
  <2>1. /\ DOMAIN new = {"at", "op", "looked", "copy", "shown", "verdict"}
        /\ new.op = caller[c].op /\ new.at = "save" /\ new.copy = space
    BY RequestIs
  <2>2. caller' = [caller EXCEPT ![c] = new]
    BY <1>5, RequestIs DEF Load
  <2> HIDE DEF new
  <2>3. RequestOK(new) /\ NothingSaved(caller, new.copy)
    BY <1>5, <2>1, RequestIs DEF RequestOK, Early, Load, HouseholdIInv
  <2> QED BY <1>5, <2>1, <2>2, <2>3, RequestGoesOn DEF Load, Early
<1> QED BY <1>1, <1>2, <1>3, <1>4, <1>5

LEMMA SaveKeeps ==
  ASSUME HouseholdAssumption, HouseholdIInv, NEW c \in Callers, Save(c)
  PROVE  HouseholdIInv'
<1>1. caller[c].at = "save" /\ RequestOK(caller[c]) /\ NothingSaved(caller, caller[c].copy)
  BY RequestIs DEF Save, HouseholdIInv
<1>2. CASE Fails(c) /\ UNCHANGED space
  <2> DEFINE new == [caller[c] EXCEPT !.at = "done", !.verdict = "failed", !.copy = "nothing",
                                      !.looked = "nothing"]
  <2>1. /\ DOMAIN new = {"at", "op", "looked", "copy", "shown", "verdict"}
        /\ new.op = caller[c].op /\ new.at \in {"compare", "done"}
    BY RequestIs
  <2>2. caller' = [caller EXCEPT ![c] = new]
    BY <1>2, RequestIs DEF Fails
  <2> HIDE DEF new
  <2>3. RequestOK(new)
    BY <2>1, RequestIs DEF RequestOK, Late
  <2> QED BY <1>2, <2>1, <2>2, <2>3, RequestGoesOn DEF Early
<1>3. CASE space' = Applied(caller[c].copy, caller[c].op, caller[c].looked, c)
           /\ \E shown : caller' = [caller EXCEPT ![c].at = "verify", ![c].copy = "nothing", ![c].shown = shown]
  <2>1. PICK shown : caller' = [caller EXCEPT ![c].at = "verify", ![c].copy = "nothing", ![c].shown = shown]
    BY <1>3
  <2> DEFINE new == [caller[c] EXCEPT !.at = "verify", !.copy = "nothing", !.shown = shown]
  <2>2. /\ DOMAIN new = {"at", "op", "looked", "copy", "shown", "verdict"}
        /\ new.op = caller[c].op /\ new.at = "verify"
    BY RequestIs
  <2>3. caller' = [caller EXCEPT ![c] = new]
    BY <2>1, RequestIs
  <2> HIDE DEF new
  <2>4. RequestOK(new)
    BY <2>2, RequestIs DEF RequestOK, Late
  <2>5. /\ caller' = [d \in Callers |-> caller'[d]] /\ caller'[c] = new
        /\ \A d \in Callers \ {c} : caller'[d] = caller[d]
    BY <2>3 DEF HouseholdIInv
  <2>6. \A d \in Callers : caller'[d].at \in Early => caller[d].at \in Early /\ d # c
    BY <2>2, <2>5 DEF Early
  <2>7. \A s : NothingSaved(caller, s) => NothingSaved(caller', s)
    BY <2>6 DEF NothingSaved
  <2>8. /\ InStep(space')
        /\ DOMAIN space'.chores \cup DOMAIN space'.events
             \subseteq DOMAIN caller[c].copy.chores \cup DOMAIN caller[c].copy.events \cup {c}
    <3>1. c \notin DOMAIN caller[c].copy.chores \cup DOMAIN caller[c].copy.events
      BY <1>1 DEF NothingSaved, Early
    <3> QED BY <1>1, <1>3, <3>1, AppliedInStep DEF RequestOK
  <2>9. NothingSaved(caller', space')
    BY <1>1, <2>6, <2>8 DEF NothingSaved
  <2>10. ASSUME NEW d \in Callers
         PROVE  RequestOK(caller'[d]) /\ (caller'[d].at = "save" => NothingSaved(caller', caller'[d].copy))
    BY <2>2, <2>4, <2>5, <2>7 DEF HouseholdIInv
  <2> QED BY <2>5, <2>8, <2>9, <2>10 DEF HouseholdIInv
<1> QED BY <1>1, <1>2, <1>3 DEF Save

LEMMA RequestLooks ==
  ASSUME HouseholdIInv, NEW c \in Callers, NEW new, new.at \in {"compare", "done"},
         DOMAIN new = {"at", "op", "looked", "copy", "shown", "verdict"}, new.op = caller[c].op
  PROVE  RequestOK(new) /\ new.at \notin Early /\ new.at # "save"
BY RequestIs DEF RequestOK, Late, Early

LEMMA VerifyingHouseholdKeeps ==
  ASSUME HouseholdIInv, NEW c \in Callers, VerifyRecorded(c) \/ VerifyHousehold(c)
  PROVE  HouseholdIInv'
<1>1. CASE VerifyRecorded(c)
  <2> DEFINE new == [caller[c] EXCEPT !.at = "compare", !.looked = Recorded(space, caller[c].shown)]
  <2>1. /\ DOMAIN new = {"at", "op", "looked", "copy", "shown", "verdict"}
        /\ new.op = caller[c].op /\ new.at \in {"compare", "done"}
    BY RequestIs
  <2>2. caller' = [caller EXCEPT ![c] = new] /\ UNCHANGED space
    BY <1>1, RequestIs DEF VerifyRecorded
  <2> HIDE DEF new
  <2>3. RequestOK(new) /\ new.at \notin Early /\ new.at # "save"
    BY <2>1, RequestLooks
  <2> QED BY <2>2, <2>3, RequestGoesOn
<1>2. CASE VerifyHousehold(c)
  <2>1. PICK verdict :
          caller' = [caller EXCEPT ![c].at = "done", ![c].looked = "nothing", ![c].verdict = verdict]
    BY <1>2 DEF VerifyHousehold
  <2> DEFINE new == [caller[c] EXCEPT !.at = "done", !.looked = "nothing", !.verdict = verdict]
  <2>2. /\ DOMAIN new = {"at", "op", "looked", "copy", "shown", "verdict"}
        /\ new.op = caller[c].op /\ new.at \in {"compare", "done"}
    BY RequestIs
  <2>3. caller' = [caller EXCEPT ![c] = new] /\ UNCHANGED space
    BY <1>2, <2>1, RequestIs DEF VerifyHousehold
  <2> HIDE DEF new
  <2>4. RequestOK(new) /\ new.at \notin Early /\ new.at # "save"
    BY <2>2, RequestLooks
  <2> QED BY <2>3, <2>4, RequestGoesOn
<1> QED BY <1>1, <1>2

LEMMA HouseholdInitOK ==
  ASSUME HouseholdAssumption, HouseholdInit
  PROVE  HouseholdIInv
<1>1. /\ space.groceries = Legacy /\ DOMAIN space.groceryLedger = {} /\ DOMAIN space.chores = {}
      /\ DOMAIN space.choreLedger = {} /\ DOMAIN space.events = {} /\ DOMAIN space.eventLedger = {}
      /\ DOMAIN space.items = {<<Legacy[i], i>> : i \in DOMAIN Legacy}
      /\ DOMAIN space = {"groceries", "items", "groceryLedger", "pantry", "chores", "choreLedger",
                         "events", "eventLedger"}
  BY DEF HouseholdInit, NewSpace, Empty, Migrated
<1>2. Accounted(space.choreLedger, space.chores) /\ Accounted(space.eventLedger, space.events)
  BY <1>1 DEF Accounted
<1>3. ASSUME NEW f \in Foods
      PROVE  Cardinality(Listed(space, f)) =
               Cardinality({i \in DOMAIN Legacy : Legacy[i] = f})
               + Cardinality({k \in DOMAIN space.groceryLedger : space.groceryLedger[k] = f})
  <2>1. {k \in DOMAIN space.groceryLedger : space.groceryLedger[k] = f} = {}
    BY <1>1
  <2>2. Listed(space, f) = {i \in DOMAIN Legacy : Legacy[i] = f}
    BY <1>1 DEF Listed
  <2>3. Cardinality({i \in DOMAIN Legacy : Legacy[i] = f}) \in Nat
    <3>1. Legacy \in Seq(Foods)
      BY DEF HouseholdAssumption
    <3>2. PICK m \in Nat : DOMAIN Legacy = 1..m
      BY <3>1
    <3>3. IsFiniteSet({i \in DOMAIN Legacy : Legacy[i] = f})
      BY <3>2, FS_Interval, FS_Subset
    <3> QED BY <3>3, FS_CardinalityType
  <2>4. Cardinality({k \in DOMAIN space.groceryLedger : space.groceryLedger[k] = f}) = 0
    BY <2>1, FS_EmptySet
  <2> QED BY <2>2, <2>3, <2>4
<1>4. IsFiniteSet(DOMAIN space.groceryLedger)
  BY <1>1, FS_EmptySet
<1>5. InStep(space)
  BY <1>1, <1>2, <1>3, <1>4 DEF InStep, HouseholdAssumption
<1>6. NothingSaved(caller, space)
  BY <1>1 DEF NothingSaved
<1>7. RequestOK(Resting)
  <2>1. Resting.op.kind = "none"
    BY DEF Resting, NoOperation
  <2> QED BY <2>1 DEF RequestOK, Resting, Early
<1>8. \A c \in Callers : caller[c] = Resting /\ caller[c].at # "save"
  BY DEF HouseholdInit, Resting
<1> QED BY <1>5, <1>6, <1>7, <1>8 DEF HouseholdInit, HouseholdIInv

\* A copy that is written back takes others' changes away, but the ledgers of every copy
\* are in step with its rows, so whichever is written last leaves them in step.
THEOREM HouseholdInvariance == HouseholdSpec => []HouseholdIInv
<1>1. HouseholdInit => HouseholdIInv
  BY HouseholdAssumption, HouseholdInitOK
<1>2. HouseholdIInv /\ [HouseholdNext]_householdVars => HouseholdIInv'
  <2>1. CASE UNCHANGED householdVars
    BY <2>1 DEF householdVars, HouseholdIInv
  <2> QED BY <2>1, HouseholdAssumption, AskingHouseholdKeeps, SaveKeeps, VerifyingHouseholdKeeps
        DEF HouseholdNext
<1> QED BY <1>1, <1>2, PTL DEF HouseholdSpec

\* Whatever copies overwrite each other, each grocery beyond the legacy ones, each chore
\* and each event is there for exactly one key of its ledger, and no key points to a row
\* that is gone (household.py would raise a KeyError at its next replay).
THEOREM TheLedgersAccount == HouseholdSpec => []LedgersAccountForRows
<1>1. HouseholdIInv => LedgersAccountForRows
  BY DEF HouseholdIInv, InStep, LedgersAccountForRows
<1> QED BY <1>1, HouseholdInvariance, PTL

\* What a payload holds besides its lists, and what a request knows that is on its way.
Quantities == Nat \cup {Unknown}
Stocked(s) ==
  /\ DOMAIN s.groceryLedger \subseteq Keys /\ DOMAIN s.pantry \subseteq Foods
  /\ \A f \in DOMAIN s.pantry : s.pantry[f].quantity \in Quantities
  /\ DOMAIN s.chores \subseteq Callers /\ DOMAIN s.events \subseteq Callers
OperationOK(op) ==
  /\ op.kind = "AddGrocery" => op.key \in Keys
  /\ op.kind \in {"AddPantry", "UpdatePantry", "ConsumePantry"} => op.food \in Foods
  /\ op.kind = "AddPantry" => op.quantity \in Quantities
  /\ op.kind = "UpdatePantry" => op.quantity \in Quantities \cup {Kept}
  /\ op.kind = "ConsumePantry" => op.amount \in Nat
Knows(r) ==
  /\ r.verdict \in {"none", "verified", "failed"}
  /\ r.at \in {"look", "load", "save"} => OperationOK(r.op)
  /\ r.at \in {"load", "save"} /\ r.op.kind = "UpdatePantry" => r.looked \in Quantities
  /\ r.at = "save" => Stocked(r.copy)
HouseholdStocked == Stocked(space) /\ \A c \in Callers : Knows(caller[c])

LEMMA AskedOperation ==
  ASSUME HouseholdAssumption, NEW c \in Callers, Stocked(space), NEW op \in Groundable(c, space)
  PROVE  OperationOK(op)
<1>1. KeyOf[c] \in Keys
  BY DEF Keys
<1>2. CASE op \in [kind : {"AddGrocery"}, food : Foods, key : {KeyOf[c]}]
  BY <1>1, <1>2 DEF OperationOK
<1>3. CASE op \in [kind : {"AddPantry"}, food : Foods, quantity : {Portion, Unknown}]
  BY <1>3 DEF OperationOK, HouseholdAssumption, Quantities
<1>4. CASE \E f \in DOMAIN space.pantry, q \in {Portion, Kept} :
             op = [kind |-> "UpdatePantry", food |-> f, quantity |-> q,
                   expected |-> space.pantry[f].version]
  BY <1>4 DEF OperationOK, HouseholdAssumption, Quantities, Stocked
<1>5. CASE \E f \in DOMAIN space.pantry :
             op = [kind |-> "ConsumePantry", food |-> f, amount |-> Portion,
                   expected |-> space.pantry[f].version]
  BY <1>5 DEF OperationOK, HouseholdAssumption, Stocked
<1>6. CASE op.kind \notin {"AddGrocery", "AddPantry", "UpdatePantry", "ConsumePantry"}
  BY <1>6 DEF OperationOK
<1> QED BY <1>2, <1>3, <1>4, <1>5, <1>6 DEF Groundable

\* One request goes on.
LEMMA KnowingGoesOn ==
  ASSUME HouseholdIInv, HouseholdStocked, NEW c \in Callers, Stocked(space'), NEW new, Knows(new),
         caller' = [caller EXCEPT ![c] = new]
  PROVE  HouseholdStocked'
<1>1. caller'[c] = new /\ \A d \in Callers \ {c} : caller'[d] = caller[d]
  BY RequestIs
<1> QED BY <1>1 DEF HouseholdStocked

LEMMA RequestEnds ==
  ASSUME HouseholdIInv, HouseholdStocked, NEW c \in Callers, Stocked(space'),
         NEW new, caller' = [caller EXCEPT ![c] = new], new.at \notin {"look", "load", "save"},
         new.verdict \in {"none", "verified", "failed"}
  PROVE  HouseholdStocked'
BY KnowingGoesOn DEF Knows

LEMMA FailsStocked ==
  ASSUME HouseholdIInv, HouseholdStocked, NEW c \in Callers, Fails(c), UNCHANGED space
  PROVE  HouseholdStocked'
<1> DEFINE new == [caller[c] EXCEPT !.at = "done", !.verdict = "failed", !.copy = "nothing",
                                    !.looked = "nothing"]
<1>1. new.at = "done" /\ new.verdict = "failed"
  BY RequestIs
<1>2. caller' = [caller EXCEPT ![c] = new]
  BY RequestIs DEF Fails
<1> HIDE DEF new
<1> QED BY <1>1, <1>2, RequestEnds DEF HouseholdStocked

LEMMA AskingStocked ==
  ASSUME HouseholdAssumption, HouseholdIInv, HouseholdStocked, NEW c \in Callers,
         Ground(c) \/ LookUp(c) \/ ListRecords(c) \/ Load(c)
  PROVE  HouseholdStocked'
<1>1. UNCHANGED space /\ Stocked(space')
  BY DEF Ground, LookUp, ListRecords, Load, HouseholdStocked
<1>2. /\ DOMAIN caller[c] = {"at", "op", "looked", "copy", "shown", "verdict"}
      /\ Knows(caller[c]) /\ DOMAIN caller = Callers
  BY RequestIs DEF HouseholdStocked
<1>3. CASE Ground(c)
  <2>1. PICK op \in Groundable(c, space) :
          caller' = [caller EXCEPT ![c].op = op, ![c].at = IF LooksUp(op) THEN "look" ELSE "load"]
    BY <1>3 DEF Ground
  <2> DEFINE at == IF LooksUp(op) THEN "look" ELSE "load"
             new == [caller[c] EXCEPT !.op = op, !.at = at]
  <2>2. new.op = op /\ new.at = at /\ new.verdict = caller[c].verdict
    BY <1>2
  <2>3. caller' = [caller EXCEPT ![c] = new]
    BY <2>1, <1>2
  <2>4. at \in {"look", "load"} /\ (op.kind = "UpdatePantry" => at = "look")
    BY DEF LooksUp
  <2>5. OperationOK(op)
    BY AskedOperation DEF HouseholdStocked
  <2> HIDE DEF new, at
  <2>6. Knows(new)
    BY <1>2, <2>2, <2>4, <2>5 DEF Knows
  <2> QED BY <1>1, <2>3, <2>6, KnowingGoesOn
<1>4. CASE LookUp(c)
  <2>1. CASE Fails(c)
    BY <1>1, <2>1, FailsStocked
  <2>2. CASE \E shown : caller' = [caller EXCEPT ![c].at = "verify", ![c].shown = shown]
    <3>1. PICK shown : caller' = [caller EXCEPT ![c].at = "verify", ![c].shown = shown]
      BY <2>2
    <3> DEFINE new == [caller[c] EXCEPT !.at = "verify", !.shown = shown]
    <3>2. new.at = "verify" /\ new.verdict = caller[c].verdict
      BY <1>2
    <3>3. caller' = [caller EXCEPT ![c] = new]
      BY <1>2, <3>1
    <3> HIDE DEF new
    <3> QED BY <1>1, <1>2, <3>2, <3>3, RequestEnds DEF Knows
  <2>3. CASE \E looked : /\ caller[c].op.kind = "UpdatePantry" => looked \in Quantities
                         /\ caller' = [caller EXCEPT ![c].at = "load", ![c].looked = looked]
    <3>1. PICK looked : /\ caller[c].op.kind = "UpdatePantry" => looked \in Quantities
                        /\ caller' = [caller EXCEPT ![c].at = "load", ![c].looked = looked]
      BY <2>3
    <3> DEFINE new == [caller[c] EXCEPT !.at = "load", !.looked = looked]
    <3>2. new.at = "load" /\ new.looked = looked /\ new.op = caller[c].op /\ new.verdict = caller[c].verdict
      BY <1>2
    <3>3. caller' = [caller EXCEPT ![c] = new]
      BY <1>2, <3>1
    <3> HIDE DEF new
    <3>4. Knows(new)
      BY <1>2, <1>4, <3>1, <3>2 DEF Knows, LookUp
    <3> QED BY <1>1, <3>3, <3>4, KnowingGoesOn
  <2>4. ASSUME NEW x, x \in DOMAIN space.pantry
        PROVE  space.pantry[x].quantity \in Quantities
    BY <2>4 DEF HouseholdStocked, Stocked
  <2> QED BY <1>4, <2>1, <2>2, <2>3, <2>4 DEF LookUp
<1>5. CASE ListRecords(c)
  <2> DEFINE shown == Contents(space, caller[c].op)
             new == [caller[c] EXCEPT !.at = "verify", !.shown = shown]
  <2>1. new.at = "verify" /\ new.verdict = caller[c].verdict
    BY <1>2
  <2>2. caller' = [caller EXCEPT ![c] = new]
    BY <1>2, <1>5 DEF ListRecords
  <2> HIDE DEF new
  <2> QED BY <1>1, <1>2, <2>1, <2>2, RequestEnds DEF Knows
<1>6. CASE Load(c)
  <2> DEFINE new == [caller[c] EXCEPT !.at = "save", !.copy = space]
  <2>1. /\ new.at = "save" /\ new.copy = space /\ new.op = caller[c].op
        /\ new.looked = caller[c].looked /\ new.verdict = caller[c].verdict
    BY <1>2
  <2>2. caller' = [caller EXCEPT ![c] = new]
    BY <1>2, <1>6 DEF Load
  <2> HIDE DEF new
  <2>3. Knows(new)
    BY <1>2, <1>6, <2>1 DEF Knows, Load, HouseholdStocked
  <2> QED BY <1>1, <2>2, <2>3, KnowingGoesOn
<1> QED BY <1>3, <1>4, <1>5, <1>6

LEMMA PutPantryStocked ==
  ASSUME NEW s, InStep(s), Stocked(s), NEW food \in Foods, NEW quantity \in Quantities, NEW version
  PROVE  Stocked(PutPantry(s, food, quantity, version))
<1> DEFINE stock == [quantity |-> quantity, version |-> version]
           p == With(s.pantry, food, stock)
           t == PutPantry(s, food, quantity, version)
<1>1. /\ t.pantry = p /\ t.groceryLedger = s.groceryLedger
      /\ t.chores = s.chores /\ t.events = s.events
  BY DEF PutPantry, InStep
<1>2. DOMAIN p = DOMAIN s.pantry \cup {food} /\ p[food].quantity = quantity
  BY DEF With
<1>3. \A f \in DOMAIN s.pantry : f # food => p[f] = s.pantry[f]
  BY DEF With
<1> HIDE DEF p, t
<1>4. \A f \in DOMAIN p : p[f].quantity \in Quantities
  BY <1>2, <1>3 DEF Stocked
<1>5. Stocked(t)
  BY <1>1, <1>2, <1>4 DEF Stocked
<1> QED BY <1>5 DEF t

LEMMA AppliedStocked ==
  ASSUME HouseholdAssumption, NEW s, InStep(s), Stocked(s), NEW op, op.kind \in OperationKinds,
         ~ReadsOnly(op), OperationOK(op), NEW looked, op.kind = "UpdatePantry" => looked \in Quantities,
         NEW c \in Callers, Accepts(s, op, looked)
  PROVE  Stocked(Applied(s, op, looked, c))
<1> DEFINE t == Applied(s, op, looked, c)
<1>1. DOMAIN s = {"groceries", "items", "groceryLedger", "pantry", "chores", "choreLedger",
                  "events", "eventLedger"}
  BY DEF InStep
<1>2. CASE op.kind = "AddGrocery"
  <2>1. t = AddGrocery(s, op)
    BY <1>2 DEF Applied
  <2>2. CASE Replayed(s.groceryLedger, op.key)
    BY <2>1, <2>2 DEF AddGrocery
  <2>3. CASE ~Replayed(s.groceryLedger, op.key)
    <3>1. /\ t.groceryLedger = With(s.groceryLedger, op.key, op.food) /\ t.pantry = s.pantry
          /\ t.chores = s.chores /\ t.events = s.events
      BY <1>1, <2>1, <2>3 DEF AddGrocery
    <3>2. DOMAIN t.groceryLedger = DOMAIN s.groceryLedger \cup {op.key}
      BY <3>1 DEF With
    <3> HIDE DEF t
    <3>3. Stocked(t)
      BY <1>2, <3>1, <3>2 DEF Stocked, OperationOK
    <3> QED BY <3>3 DEF t
  <2> QED BY <2>2, <2>3
<1>3. CASE op.kind \in {"SetGrocery", "RemoveGroceries"}
  <2>1. PICK ids, to : t = SetGroceries(s, ids, to)
    BY <1>3 DEF Applied
  <2>2. t.groceryLedger = s.groceryLedger /\ t.pantry = s.pantry /\ t.chores = s.chores /\ t.events = s.events
    BY <1>1, <2>1 DEF SetGroceries
  <2> QED BY <2>2 DEF Stocked
<1>4. CASE op.kind = "AddPantry"
  <2>1. t = PutPantry(s, op.food, op.quantity, 0)
    BY <1>4 DEF Applied
  <2> QED BY <1>4, <2>1, PutPantryStocked DEF OperationOK
<1>5. CASE op.kind = "UpdatePantry"
  <2> DEFINE quantity == IF op.quantity = Kept THEN looked ELSE op.quantity
  <2>1. t = PutPantry(s, op.food, quantity, s.pantry[op.food].version + 1)
    BY <1>5 DEF Applied, UpdatePantry
  <2>2. quantity \in Quantities
    BY <1>5 DEF OperationOK
  <2> HIDE DEF quantity
  <2> QED BY <1>5, <2>1, <2>2, PutPantryStocked DEF OperationOK
<1>6. CASE op.kind = "ConsumePantry"
  <2> DEFINE has == s.pantry[op.food].quantity
             quantity == Remaining(has, op.amount)
  <2>1. t = PutPantry(s, op.food, quantity, s.pantry[op.food].version + 1)
    BY <1>6 DEF Applied, ConsumePantry
  <2>2. VersionMatches(s, op) /\ has # Unknown
    BY <1>6 DEF Accepts
  <2>3. has \in Nat /\ op.amount \in Nat
    BY <1>6, <2>2 DEF Stocked, VersionMatches, Quantities, OperationOK
  <2>4. quantity \in Quantities
    BY <2>3 DEF Remaining, Quantities
  <2> HIDE DEF quantity
  <2> QED BY <1>6, <2>1, <2>4, PutPantryStocked DEF OperationOK
<1>7. CASE op.kind = "AddChore"
  <2>1. t = AddChore(s, op, c)
    BY <1>7 DEF Applied
  <2>2. CASE Replayed(s.choreLedger, op.key)
    BY <2>1, <2>2 DEF AddChore
  <2>3. CASE ~Replayed(s.choreLedger, op.key)
    <3>1. PICK added : t.chores = With(s.chores, c, added)
      BY <1>1, <2>1, <2>3 DEF AddChore
    <3>2. t.groceryLedger = s.groceryLedger /\ t.pantry = s.pantry /\ t.events = s.events
      BY <1>1, <2>1, <2>3 DEF AddChore
    <3>3. DOMAIN t.chores = DOMAIN s.chores \cup {c}
      BY <3>1 DEF With
    <3> HIDE DEF t
    <3>4. Stocked(t)
      BY <3>2, <3>3 DEF Stocked
    <3> QED BY <3>4 DEF t
  <2> QED BY <2>2, <2>3
<1>8. CASE op.kind = "CompleteChore"
  <2>1. t = CompleteChore(s, looked)
    BY <1>8 DEF Applied
  <2>2. /\ t.groceryLedger = s.groceryLedger /\ t.pantry = s.pantry
        /\ DOMAIN t.chores = DOMAIN s.chores /\ t.events = s.events
    BY <1>1, <2>1 DEF CompleteChore
  <2> QED BY <2>2 DEF Stocked
<1>9. CASE op.kind = "AddEvent"
  <2>1. t = AddEvent(s, op, c)
    BY <1>9 DEF Applied
  <2>2. CASE Replayed(s.eventLedger, op.key)
    BY <2>1, <2>2 DEF AddEvent
  <2>3. CASE ~Replayed(s.eventLedger, op.key)
    <3>1. /\ t.events = With(s.events, c, op.title) /\ t.groceryLedger = s.groceryLedger
          /\ t.pantry = s.pantry /\ t.chores = s.chores
      BY <1>1, <2>1, <2>3 DEF AddEvent
    <3>2. DOMAIN t.events = DOMAIN s.events \cup {c}
      BY <3>1 DEF With
    <3> HIDE DEF t
    <3>3. Stocked(t)
      BY <3>1, <3>2 DEF Stocked
    <3> QED BY <3>3 DEF t
  <2> QED BY <2>2, <2>3
<1> QED BY <1>2, <1>3, <1>4, <1>5, <1>6, <1>7, <1>8, <1>9 DEF OperationKinds, ReadsOnly

LEMMA SaveStocked ==
  ASSUME HouseholdAssumption, HouseholdIInv, HouseholdStocked, NEW c \in Callers, Save(c)
  PROVE  HouseholdStocked'
<1>1. /\ caller[c].at = "save" /\ RequestOK(caller[c]) /\ Knows(caller[c])
      /\ DOMAIN caller[c] = {"at", "op", "looked", "copy", "shown", "verdict"} /\ DOMAIN caller = Callers
  BY RequestIs DEF Save, HouseholdStocked
<1>2. CASE Fails(c) /\ UNCHANGED space
  BY <1>2, FailsStocked
<1>3. CASE /\ Accepts(caller[c].copy, caller[c].op, caller[c].looked)
           /\ space' = Applied(caller[c].copy, caller[c].op, caller[c].looked, c)
           /\ \E shown : caller' = [caller EXCEPT ![c].at = "verify", ![c].copy = "nothing", ![c].shown = shown]
  <2>1. PICK shown : caller' = [caller EXCEPT ![c].at = "verify", ![c].copy = "nothing", ![c].shown = shown]
    BY <1>3
  <2> DEFINE new == [caller[c] EXCEPT !.at = "verify", !.copy = "nothing", !.shown = shown]
  <2>2. new.at = "verify" /\ new.verdict = caller[c].verdict
    BY <1>1
  <2>3. caller' = [caller EXCEPT ![c] = new]
    BY <1>1, <2>1
  <2>4. Stocked(space')
    BY <1>1, <1>3, AppliedStocked DEF RequestOK, Knows
  <2> HIDE DEF new
  <2> QED BY <1>1, <2>2, <2>3, <2>4, RequestEnds DEF Knows
<1> QED BY <1>2, <1>3 DEF Save

LEMMA VerifyingStocked ==
  ASSUME HouseholdIInv, HouseholdStocked, NEW c \in Callers, VerifyRecorded(c) \/ VerifyHousehold(c)
  PROVE  HouseholdStocked'
<1>1. /\ DOMAIN caller[c] = {"at", "op", "looked", "copy", "shown", "verdict"}
      /\ Knows(caller[c]) /\ DOMAIN caller = Callers
  BY RequestIs DEF HouseholdStocked
<1>2. UNCHANGED space /\ Stocked(space')
  BY DEF VerifyRecorded, VerifyHousehold, HouseholdStocked
<1>3. CASE VerifyRecorded(c)
  <2> DEFINE new == [caller[c] EXCEPT !.at = "compare", !.looked = Recorded(space, caller[c].shown)]
  <2>1. new.at = "compare" /\ new.verdict = caller[c].verdict
    BY <1>1
  <2>2. caller' = [caller EXCEPT ![c] = new]
    BY <1>1, <1>3 DEF VerifyRecorded
  <2> HIDE DEF new
  <2> QED BY <1>1, <1>2, <2>1, <2>2, RequestEnds DEF Knows
<1>4. CASE VerifyHousehold(c)
  <2>1. PICK verdict \in {"verified", "failed"} :
          caller' = [caller EXCEPT ![c].at = "done", ![c].looked = "nothing", ![c].verdict = verdict]
    BY <1>4 DEF VerifyHousehold
  <2> DEFINE new == [caller[c] EXCEPT !.at = "done", !.looked = "nothing", !.verdict = verdict]
  <2>2. new.at = "done" /\ new.verdict = verdict
    BY <1>1
  <2>3. caller' = [caller EXCEPT ![c] = new]
    BY <1>1, <2>1
  <2> HIDE DEF new
  <2> QED BY <1>2, <2>1, <2>2, <2>3, RequestEnds
<1> QED BY <1>3, <1>4

LEMMA StartsStocked ==
  ASSUME HouseholdAssumption, HouseholdInit
  PROVE  HouseholdStocked
<1>1. /\ DOMAIN space.groceryLedger = {} /\ DOMAIN space.chores = {} /\ DOMAIN space.events = {}
      /\ space.pantry = [f \in DOMAIN Stock |-> [quantity |-> Stock[f], version |-> 0]]
  BY DEF HouseholdInit, NewSpace, Empty
<1>2. \A f \in DOMAIN space.pantry : space.pantry[f].quantity = Stock[f] /\ f \in DOMAIN Stock
  BY <1>1
<1>3. Stocked(space)
  BY <1>1, <1>2 DEF Stocked, HouseholdAssumption, Quantities
<1>4. \A c \in Callers : caller[c] = Resting
  BY DEF HouseholdInit
<1>5. Knows(Resting)
  BY DEF Knows, Resting
<1> QED BY <1>3, <1>4, <1>5 DEF HouseholdStocked

\* The table, and every copy that is about to be written over it, names foods, keys and
\* requests that exist, and counts what is in the pantry or says that nobody did.
THEOREM HouseholdTypeCorrect == HouseholdSpec => []HouseholdTypeOK
<1>1. HouseholdInit => HouseholdStocked
  BY HouseholdAssumption, StartsStocked
<1>2. HouseholdIInv /\ HouseholdStocked /\ [HouseholdNext]_householdVars => HouseholdStocked'
  <2>1. CASE UNCHANGED householdVars
    BY <2>1 DEF householdVars, HouseholdStocked
  <2> QED BY <2>1, HouseholdAssumption, AskingStocked, SaveStocked, VerifyingStocked DEF HouseholdNext
<1>3. HouseholdIInv /\ HouseholdStocked => HouseholdTypeOK
  <2>1. ASSUME NEW s, InStep(s), Stocked(s)
        PROVE  SpaceTypeOK(s)
    <3>1. s.groceries \in Seq(Foods) /\ DOMAIN s.items = {<<s.groceries[i], i>> : i \in DOMAIN s.groceries}
      BY <2>1 DEF InStep
    <3>2. \A i \in DOMAIN s.groceries : s.groceries[i] \in Foods /\ i \in Nat
      BY <3>1
    <3> QED BY <2>1, <3>1, <3>2 DEF Stocked, SpaceTypeOK, Quantities
  <2> QED BY <2>1 DEF HouseholdIInv, HouseholdStocked, HouseholdTypeOK, RequestOK, Knows, Early, Late
<1> QED BY <1>1, <1>2, <1>3, HouseholdInvariance, PTL DEF HouseholdSpec

-----------------------------------------------------------------------------
(* PreparedEffects: what was verified is what was promised.                   *)

\* What the proof needs of the kinds: appends and copies read the notes, every other
\* write and every comparison of two reads reads sources, an export of a document is
\* not frozen.
KindOK(k) ==
  /\ DOMAIN k = {"does", "reads", "frozen", "files", "check"}
  /\ k.frozen \in BOOLEAN /\ k.files \in {0, 1, 2}
  /\ \/ /\ k.does = "write" /\ k.check = "promise" /\ k.files \in {1, 2}
        /\ k.reads \in Seq(Sources) /\ (k.frozen => k.reads # <<"document">>)
     \/ /\ k.does \in {"append", "copy"} /\ k.check = "promise" /\ k.files = 1
        /\ k.reads = <<Notes>> /\ ~k.frozen
     \/ /\ k.does = "show" /\ k.check = "again" /\ ~k.frozen
        /\ k.reads \in Seq(Sources) /\ k.reads # <<"document">>
     \/ /\ k.does = "show" /\ k.check \in {"shape", "reread"} /\ ~k.frozen
        /\ k.reads \in Seq(Sources \cup {Notes})

LEMMA KindsAreOK ==
  ASSUME NEW k \in AllKinds
  PROVE  KindOK(k)
<1>1. /\ "tasks" \in Sources /\ "household" \in Sources /\ "registry" \in Sources
      /\ "provider" \in Sources /\ "document" \in Sources /\ "clock" \in Sources
      /\ Notes = "notes"
  BY DEF Sources, Notes
<1>2. ASSUME NEW reads \in Seq(Sources), reads # <<"document">>
      PROVE  /\ KindOK(Report(reads)) /\ KindOK(Frozen(reads)) /\ KindOK(Page(reads))
             /\ KindOK(ShownAgain(reads)) /\ KindOK(Shape(reads)) /\ KindOK(Reread(reads))
  <2>1. reads \in Seq(Sources \cup {Notes})
    OBVIOUS
  <2> QED BY <1>2, <2>1 DEF KindOK, Report, Frozen, Page, ShownAgain, Shape, Reread, Kind
<1>3. KindOK(Report(<<"document">>))
  BY <1>1 DEF KindOK, Report, Kind
<1>4. KindOK(Shape(<<Notes>>))
  BY <1>1 DEF KindOK, Shape, Kind
<1>5. /\ <<>> \in Seq(Sources) /\ <<"tasks">> \in Seq(Sources) /\ <<"household">> \in Seq(Sources)
      /\ <<"registry">> \in Seq(Sources) /\ <<"provider">> \in Seq(Sources)
      /\ <<"tasks", "household", "clock">> \in Seq(Sources) /\ <<"registry", "provider">> \in Seq(Sources)
      /\ <<"provider", "tasks">> \in Seq(Sources)
  BY <1>1
<1>6. /\ <<>> # <<"document">> /\ <<"tasks">> # <<"document">> /\ <<"household">> # <<"document">>
      /\ <<"registry">> # <<"document">> /\ <<"provider">> # <<"document">>
      /\ <<"tasks", "household", "clock">> # <<"document">>
      /\ <<"registry", "provider">> # <<"document">>
      /\ <<"provider", "tasks">> # <<"document">>
  <2>1. \A a, b, c : <<a, b>> # <<"document">> /\ <<a, b, c>> # <<"document">>
    BY Len(<<"document">>) = 1
  <2> QED BY <2>1
<1>7. CASE k \in CanonicalReports \cup Snapshots \cup {CalendarCommunicationDraft}
  BY <1>2, <1>5, <1>6, <1>7
  DEF CanonicalReports, Snapshots, CalendarCommunicationDraft, TaskWorkspace, TodayWorkspace,
      ChoresWorkspace, ObligationsWorkspace, GroceryWorkspace, DeviceSnapshotWorkspace,
      CalendarSnapshotWorkspace, CalendarTaskAttentionWorkspace
<1>8. CASE k \in Registries \cup Documents
  BY <1>2, <1>3, <1>5, <1>6, <1>8
  DEF Registries, Documents, HomelabWorkspace, HomelabHealthWorkspace, NetworkInventoryWorkspace,
      NetworkProbeWorkspace, DocumentWorkspace, DocumentSummaryWorkspace, DocumentSearchWorkspace
<1>9. CASE k \in {PublicHolidayWorkspace} \cup PublicEvidence \cup {ResearchWorkspace} \cup CommunicationDraft
  BY <1>2, <1>5, <1>6, <1>9
  DEF PublicHolidayWorkspace, PublicEvidence, ResearchWorkspace, CommunicationDraft,
      WeatherWorkspace, AirQualityWorkspace
<1>10. CASE k \in WorkspaceFiles
  <2>1. KindOK(WorkspaceArtifact)
    BY <1>5, <1>6 DEF WorkspaceArtifact, KindOK, Kind
  <2>2. KindOK(WorkspaceArtifactAppend) /\ KindOK(WorkspaceArtifactCopy)
    BY DEF WorkspaceArtifactAppend, WorkspaceArtifactCopy, KindOK, Kind
  <2> QED BY <1>10, <2>1, <2>2 DEF WorkspaceFiles
<1>11. CASE k \in ShownReplies
  BY <1>2, <1>4, <1>5, <1>6, <1>11
  DEF ShownReplies, CapabilityNeeds, HomelabHealth, HomelabInventory, HomelabServicesHealth,
      DeviceResearch, FinanceSummary, FinanceSpending, HomelabResearch, CalendarEvents,
      CalendarConflicts, CalendarAgenda, CalendarTaskAttention, Communications, DeviceStates,
      DocumentsShown, Weather, WeatherForecast, PublicHoliday, AirQuality,
      WorkspaceArtifactsList, WorkspaceArtifactsSearch, WorkspaceArtifactRead
<1> QED BY <1>7, <1>8, <1>9, <1>10, <1>11 DEF AllKinds

\* A vector v of versions, read from the sources, of all of them so far; content made of
\* all of them; what was read later than c.
Upto(v, reads, sources) ==
  /\ v \in Seq(Nat) /\ Len(v) <= Len(reads)
  /\ \A i \in 1..Len(v) : v[i] <= sources[reads[i]]
Whole(c, reads, sources) == c = <<c[1]>> /\ Upto(c[1], reads, sources) /\ Len(c[1]) = Len(reads)
Later(v, c) == \A i \in 1..Len(v) : c[1][i] <= v[i]

Decided(a) == a.verdict \in {"verified", "mismatch"}
Composed(a) == a.at \in {"write", "verify", "again"} \/ Decided(a)
Promised(a) == a.at \in {"approval", "execute"} \/ Composed(a)

\* Each request appends to the notes once, and what it writes ends with itself: a value
\* that the notes once had they never have again after the next write.
HasAppended(a) == a.kind.does = "append" /\ a.next = 2
Was(v, actions) ==
  v = <<0>> \/ \E o \in Requests : HasAppended(actions[o]) /\ v = actions[o].content
EndsWith(v, r) == Len(v) > 0 /\ v[Len(v)] = r

\* what is written was read no earlier than what was promised
WriteOK(a, sources) ==
  /\ Upto(a.read, a.kind.reads, sources)
  /\ Promised(a) /\ a.promised # NoPromise => Whole(a.promised, a.kind.reads, sources)
  /\ Promised(a) /\ a.kind.frozen => a.content = a.promised /\ a.promised # NoPromise
  /\ a.at = "execute" /\ a.promised # NoPromise => Later(a.read, a.promised)
  /\ Composed(a) =>
       /\ Whole(a.content, a.kind.reads, sources)
       /\ a.promised # NoPromise => Later(a.content[1], a.promised)
       /\ a.kind.reads = <<"document">> => a.content[1][1] # 0
  /\ a.verdict = "verified" => a.promised # NoPromise

\* the notes are no longer what the promise was made of
AppendOK(r, a, notes, actions) ==
  /\ a.read = <<>> \/ (a.read = <<a.read[1]>> /\ a.read[1] \in Seq({0} \cup Requests))
  /\ a.at = "prepare" /\ a.read # <<>> => Was(a.read[1], actions)
  /\ Promised(a) =>
       \E p \in Seq({0} \cup Requests) :
         Was(p, actions) /\ a.promised = Append(p, r) /\ (a.next = 2 => notes # p)
  /\ Composed(a) => a.content \in Seq({0} \cup Requests) /\ EndsWith(a.content, r)
  /\ a.next = 2 => Composed(a)

\* as long as the notes are what was promised, that is what is copied
CopyOK(a, notes, actions) ==
  /\ a.read = <<>> \/ (a.read = <<a.read[1]>> /\ Was(a.read[1], actions))
  /\ Promised(a) => Was(a.promised, actions)
  /\ a.at = "execute" /\ a.read # <<>> /\ notes = a.promised => a.read[1] = a.promised
  /\ Composed(a) /\ notes = a.promised => a.content = a.promised

\* the evidence was read before what it is compared with
ShowOK(a, sources) ==
  /\ Upto(a.read, a.kind.reads, sources)
  /\ Composed(a) => Whole(a.content, a.kind.reads, sources) /\ Later(a.read, a.content)
  /\ a.verdict = "mismatch" => Len(a.read) = Len(a.kind.reads) /\ <<a.read>> # a.content

FilesOK(r, a, files) ==
  /\ a.at \in {"write", "verify"} => \A i \in 1..(a.next - 1) : files[<<r, i>>] = a.content

StageOK(a) ==
  /\ DOMAIN a = {"at", "kind", "read", "promised", "content", "next", "verdict"}
  /\ a.at \in {"idle", "prepare", "approval", "execute", "write", "verify", "again", "done"}
  /\ a.verdict \in {"none", "verified", "mismatch", "failed"}
  /\ a.verdict = "none" <=> a.at # "done"
  /\ a.at \in {"idle", "approval"} => a.read = <<>>
  /\ a.at \notin {"write", "verify", "done"} => a.next = 1
  /\ a.at = "write" => a.next \in 1..a.kind.files /\ a.kind.check = "promise"
  /\ a.at \in {"prepare", "approval"} => a.kind.check = "promise"
  /\ a.at = "again" => a.kind.check \in {"again", "reread"}
  /\ a.at = "verify" => a.kind.check \in {"promise", "shape"}
  /\ a.kind.check = "promise" /\ (a.at = "verify" \/ Decided(a)) => a.next = a.kind.files + 1
  /\ a.kind.check = "promise" /\ a.verdict = "verified" => a.content = a.promised
  /\ a.kind.check = "promise" /\ a.verdict = "mismatch" =>
       ~a.kind.frozen /\ (a.kind.does # "append" => a.content # a.promised)
  /\ a.verdict = "mismatch" => a.kind.check \in {"promise", "again"}

RequestKept(r, a, sources, files, actions) ==
  /\ StageOK(a)
  /\ a.at = "idle" => a.kind = NoKind
  /\ a.at # "idle" =>
       /\ KindOK(a.kind)
       /\ a.kind.does = "write" => WriteOK(a, sources) /\ FilesOK(r, a, files)
       /\ a.kind.does = "append" => AppendOK(r, a, files[NotesFile], actions)
       /\ a.kind.does = "copy" => CopyOK(a, files[NotesFile], actions) /\ FilesOK(r, a, files)
       /\ a.kind.check = "again" => ShowOK(a, sources)

PreparedIInv ==
  /\ source \in [Sources -> Nat]
  /\ DOMAIN file = Paths /\ DOMAIN action = Requests
  /\ file[NotesFile] \in Seq({0} \cup Requests) /\ Was(file[NotesFile], action)
  /\ \A r \in Requests : RequestKept(r, action[r], source, file, action)

LEMMA WasGrows ==
  ASSUME NEW now, NEW then,
         \A o \in Requests : HasAppended(now[o]) => HasAppended(then[o]) /\ then[o].content = now[o].content,
         NEW v, Was(v, now)
  PROVE  Was(v, then)
BY DEF Was

LEMMA KeptLater ==
  ASSUME NEW now, NEW then, \A v : Was(v, now) => Was(v, then),
         NEW r, NEW a, NEW sources, NEW files, RequestKept(r, a, sources, files, now)
  PROVE  RequestKept(r, a, sources, files, then)
<1>1. a.at # "idle" /\ a.kind.does = "append" => AppendOK(r, a, files[NotesFile], then)
  BY DEF RequestKept, AppendOK
<1>2. a.at # "idle" /\ a.kind.does = "copy" => CopyOK(a, files[NotesFile], then)
  BY DEF RequestKept, CopyOK
<1> QED BY <1>1, <1>2 DEF RequestKept

\* One request goes on, and the sources and the files stay.
LEMMA OneRequestMoves ==
  ASSUME PreparedIInv, NEW r \in Requests, NEW b, action' = [action EXCEPT ![r] = b],
         UNCHANGED <<source, file>>, RequestKept(r, b, source, file, action),
         HasAppended(action[r]) => HasAppended(b) /\ b.content = action[r].content
  PROVE  PreparedIInv'
<1>1. /\ DOMAIN action = Requests /\ DOMAIN action' = Requests /\ action'[r] = b
      /\ \A o \in Requests \ {r} : action'[o] = action[o]
  BY DEF PreparedIInv
<1>2. \A v : Was(v, action) => Was(v, action')
  <2>1. \A o \in Requests :
          HasAppended(action[o]) => HasAppended(action'[o]) /\ action'[o].content = action[o].content
    BY <1>1
  <2> QED BY <2>1, WasGrows
<1>3. \A o \in Requests : RequestKept(o, action'[o], source, file, action)
  BY <1>1 DEF PreparedIInv
<1>4. ASSUME NEW o \in Requests
      PROVE  RequestKept(o, action'[o], source, file, action')
  <2>1. RequestKept(o, action'[o], source, file, action)
    BY <1>3
  <2> DEFINE now == action  then == action'  a == action'[o]
  <2>2. RequestKept(o, a, source, file, now)
    BY <2>1
  <2>3. \A v : Was(v, now) => Was(v, then)
    BY <1>2
  <2> HIDE DEF now, then, a
  <2>4. RequestKept(o, a, source, file, then)
    BY <2>2, <2>3, KeptLater, Zenon
  <2> QED BY <2>4 DEF a, then
<1> QED BY <1>1, <1>2, <1>4 DEF PreparedIInv

LEMMA PlacesDiffer ==
  ASSUME NEW r \in Requests, NEW i \in {1, 2}
  PROVE  /\ <<r, i>> \in Paths /\ NotesFile \in Paths /\ <<r, i>> # NotesFile
         /\ r # 0 /\ <<0>> # <<>>
BY PreparedAssumption DEF Paths, NotesFile, Notes

LEMMA AskPreparedKeeps ==
  ASSUME PreparedIInv, NEW r \in Requests, AskPrepared(r)
  PROVE  PreparedIInv'
<1>1. PICK kind \in AllKinds :
        action' = [action EXCEPT ![r].kind = kind,
                                 ![r].at = IF kind.does = "show" THEN "execute" ELSE "prepare"]
  BY PreparedAssumption DEF AskPrepared
<1>2. KindOK(kind)
  BY KindsAreOK
<1>3. PICK at \in {"prepare", "execute"} :
        at = IF kind.does = "show" THEN "execute" ELSE "prepare"
  OBVIOUS
<1> DEFINE b == [action[r] EXCEPT !.kind = kind, !.at = at]
<1>4. StageOK(action[r]) /\ action[r].at = "idle" /\ action[r].read = <<>> /\ action[r].next = 1
      /\ action[r].verdict = "none" /\ action[r].kind.does = "none"
  BY DEF AskPrepared, PreparedIInv, RequestKept, StageOK, NoKind
<1>5. /\ DOMAIN b = DOMAIN action[r] /\ b.at = at /\ b.kind = kind /\ b.read = <<>> /\ b.next = 1
      /\ b.promised = action[r].promised /\ b.content = action[r].content /\ b.verdict = "none"
  BY <1>4 DEF StageOK
<1>6. action' = [action EXCEPT ![r] = b]
  BY <1>1, <1>3, <1>4 DEF StageOK, PreparedIInv
<1> HIDE DEF b
<1>7. StageOK(b)
  BY <1>2, <1>3, <1>4, <1>5 DEF StageOK, KindOK, Decided
<1>8. ~Composed(b) /\ (b.kind.does # "show" => ~Promised(b))
  BY <1>3, <1>5 DEF Composed, Promised, Decided
<1>9. \A reads : Upto(b.read, reads, source) /\ Later(b.read, b.content)
  BY <1>5 DEF Upto, Later
<1>10. RequestKept(r, b, source, file, action)
  <2>1. b.kind.does = "write" => WriteOK(b, source) /\ FilesOK(r, b, file)
    BY <1>3, <1>5, <1>8, <1>9 DEF WriteOK, FilesOK
  <2>2. b.kind.does = "append" => AppendOK(r, b, file[NotesFile], action)
    BY <1>5, <1>8 DEF AppendOK
  <2>3. b.kind.does = "copy" => CopyOK(b, file[NotesFile], action) /\ FilesOK(r, b, file)
    BY <1>3, <1>5, <1>8 DEF CopyOK, FilesOK
  <2>4. ShowOK(b, source)
    BY <1>5, <1>8, <1>9 DEF ShowOK
  <2> QED BY <1>2, <1>3, <1>5, <1>7, <2>1, <2>2, <2>3, <2>4 DEF RequestKept
<1> QED BY <1>4, <1>6, <1>10, OneRequestMoves DEF AskPrepared, HasAppended

\* What an action is, by what its kind does.
LEMMA ActionIs ==
  ASSUME PreparedIInv, NEW r \in Requests
  PROVE  LET a == action[r] IN
         /\ StageOK(a) /\ RequestKept(r, a, source, file, action)
         /\ a.at = "idle" => a.kind = NoKind
         /\ a.kind.does = "append" \/ a.kind.check # "none" => a.at # "idle"
         /\ a.at # "idle" =>
              /\ KindOK(a.kind)
              /\ a.kind.does = "write" => WriteOK(a, source) /\ FilesOK(r, a, file)
              /\ a.kind.does = "append" => AppendOK(r, a, file[NotesFile], action)
              /\ a.kind.does = "copy" => CopyOK(a, file[NotesFile], action) /\ FilesOK(r, a, file)
              /\ a.kind.check = "again" => ShowOK(a, source)
BY DEF PreparedIInv, RequestKept, NoKind

\* What a request composes of what it read.
LEMMA ContentIs ==
  ASSUME NEW r \in Requests, NEW values, KindOK(action[r].kind)
  PROVE  LET k == action[r].kind IN
         /\ k.does = "append" => Content(r, values) = Append(values[1], r)
         /\ k.does = "copy" => Content(r, values) = values[1]
         /\ k.does \in {"write", "show"} /\ k.reads # <<"document">> => Content(r, values) = <<values>>
         /\ k.does \in {"write", "show"} /\ Content(r, values) # NoPromise =>
              Content(r, values) = <<values>> /\ (k.reads = <<"document">> => values[1] # 0)
<1> DEFINE k == action[r].kind
<1>1. k.does \in {"append", "copy"} => k.reads = <<Notes>> /\ <<Notes>> # <<"document">>
  BY DEF KindOK, Notes
<1>2. k.does = "append" => Content(r, values) = Append(values[1], r)
  BY <1>1 DEF Content
<1>3. k.does = "copy" => Content(r, values) = values[1]
  BY <1>1 DEF Content
<1>4. CASE k.does \in {"write", "show"} /\ k.reads # <<"document">>
  BY <1>4 DEF Content
<1>5. CASE k.does \in {"write", "show"} /\ k.reads = <<"document">>
  <2>1. CASE values[1] = 0
    BY <1>5, <2>1 DEF Content
  <2>2. CASE values[1] # 0
    BY <1>5, <2>2 DEF Content
  <2> QED BY <1>5, <2>1, <2>2
<1>6. CASE k.does \notin {"write", "show"}
  BY <1>2, <1>3, <1>6
<1> QED BY <1>2, <1>3, <1>4, <1>5, <1>6

LEMMA DocumentContent ==
  ASSUME NEW r \in Requests, NEW values, KindOK(action[r].kind), action[r].kind.does = "write",
         action[r].kind.reads = <<"document">>, values[1] # 0
  PROVE  Content(r, values) = <<values>>
BY DEF Content

LEMMA SameVector ==
  ASSUME NEW u \in Seq(Nat), NEW v \in Seq(Nat), Len(u) = Len(v), \A i \in 1..Len(v) : u[i] = v[i]
  PROVE  u = v
OBVIOUS

LEMMA AppendsDiffer ==
  ASSUME NEW r \in Requests, NEW s \in Seq({0} \cup Requests), NEW t \in Seq({0} \cup Requests),
         Append(s, r) = Append(t, r)
  PROVE  s = t
<1>1. Len(Append(s, r)) = Len(s) + 1 /\ Len(Append(t, r)) = Len(t) + 1 /\ Len(s) \in Nat /\ Len(t) \in Nat
  OBVIOUS
<1>2. Len(s) = Len(t)
  BY <1>1
<1>3. \A i \in 1..Len(s) : Append(s, r)[i] = s[i] /\ Append(t, r)[i] = t[i]
  BY <1>2
<1> QED BY <1>2, <1>3

\* A request that fails has done nothing that matters any more.
LEMMA RequestFails ==
  ASSUME PreparedIInv, NEW r \in Requests, action[r].at \in {"prepare", "execute", "again", "write"},
         Finish(r, "failed"), UNCHANGED <<source, file>>
  PROVE  PreparedIInv'
<1> DEFINE a == action[r]  b == [a EXCEPT !.at = "done", !.verdict = "failed"]
<1>1. /\ DOMAIN b = DOMAIN a /\ b.at = "done" /\ b.verdict = "failed" /\ b.kind = a.kind
      /\ b.read = a.read /\ b.promised = a.promised /\ b.content = a.content /\ b.next = a.next
  BY ActionIs DEF StageOK
<1>2. action' = [action EXCEPT ![r] = b]
  BY ActionIs DEF Finish, StageOK, PreparedIInv
<1>3. a.at # "idle" /\ StageOK(a) /\ KindOK(a.kind)
  BY ActionIs
<1> HIDE DEF b
<1>4. StageOK(b)
  BY <1>1, <1>3 DEF StageOK, Decided
<1>5. ~Composed(b) /\ ~Promised(b)
  BY <1>1 DEF Composed, Promised, Decided
<1>6. a.kind.does = "append" => a.next = 1
  BY <1>3 DEF StageOK, KindOK
<1>7. b.kind.does = "write" => WriteOK(b, source) /\ FilesOK(r, b, file)
  BY <1>1, <1>3, <1>5, ActionIs DEF WriteOK, FilesOK
<1>8. b.kind.does = "append" => AppendOK(r, b, file[NotesFile], action)
  BY <1>1, <1>3, <1>5, <1>6, ActionIs DEF AppendOK
<1>9. b.kind.does = "copy" => CopyOK(b, file[NotesFile], action) /\ FilesOK(r, b, file)
  BY <1>1, <1>3, <1>5, ActionIs DEF CopyOK, FilesOK
<1>10. b.kind.check = "again" => ShowOK(b, source)
  BY <1>1, <1>3, <1>5, ActionIs DEF ShowOK
<1>11. RequestKept(r, b, source, file, action)
  BY <1>1, <1>3, <1>4, <1>7, <1>8, <1>9, <1>10 DEF RequestKept
<1> QED BY <1>1, <1>2, <1>6, <1>11, OneRequestMoves DEF HasAppended

LEMMA ApproveKeeps ==
  ASSUME PreparedIInv, NEW r \in Requests, Approve(r)
  PROVE  PreparedIInv'
<1> DEFINE a == action[r]  b == [a EXCEPT !.at = "execute"]
<1>1. /\ DOMAIN b = DOMAIN a /\ b.at = "execute" /\ b.verdict = a.verdict /\ b.kind = a.kind
      /\ b.read = a.read /\ b.promised = a.promised /\ b.content = a.content /\ b.next = a.next
  BY ActionIs DEF StageOK
<1>2. action' = [action EXCEPT ![r] = b]
  BY ActionIs DEF Approve, StageOK, PreparedIInv
<1>3. a.at = "approval" /\ StageOK(a) /\ KindOK(a.kind) /\ a.read = <<>> /\ a.verdict = "none" /\ a.next = 1
  BY ActionIs DEF Approve, StageOK
<1> HIDE DEF b
<1>4. StageOK(b)
  BY <1>1, <1>3 DEF StageOK, Decided
<1>5. ~Composed(b) /\ ~Composed(a) /\ Promised(b) /\ Promised(a)
  BY <1>1, <1>3 DEF Composed, Promised, Decided
<1>6. \A c : Later(b.read, c)
  BY <1>1, <1>3 DEF Later
<1>7. b.kind.does = "write" => WriteOK(b, source) /\ FilesOK(r, b, file)
  BY <1>1, <1>3, <1>5, <1>6, ActionIs DEF WriteOK, FilesOK
<1>8. b.kind.does = "append" => AppendOK(r, b, file[NotesFile], action)
  BY <1>1, <1>3, <1>5, ActionIs DEF AppendOK
<1>9. b.kind.does = "copy" => CopyOK(b, file[NotesFile], action) /\ FilesOK(r, b, file)
  BY <1>1, <1>3, <1>5, ActionIs DEF CopyOK, FilesOK
<1>10. b.kind.check # "again"
  BY <1>1, <1>3 DEF StageOK
<1>11. RequestKept(r, b, source, file, action)
  BY <1>1, <1>3, <1>4, <1>7, <1>8, <1>9, <1>10 DEF RequestKept
<1> QED BY <1>1, <1>2, <1>3, <1>11, OneRequestMoves DEF HasAppended, Approve

LEMMA UptoGrows ==
  ASSUME NEW sources \in [Sources -> Nat], NEW reads \in Seq(Sources), NEW v, Upto(v, reads, sources),
         Len(v) # Len(reads), NEW w, w = Append(v, sources[reads[Len(v) + 1]])
  PROVE  /\ reads[Len(v) + 1] \in Sources /\ Upto(w, reads, sources)
         /\ \A c : Whole(c, reads, sources) /\ Later(v, c) => Later(w, c)
<1>1. v \in Seq(Nat) /\ Len(v) + 1 \in 1..Len(reads)
  BY DEF Upto
<1>2. reads[Len(v) + 1] \in Sources /\ sources[reads[Len(v) + 1]] \in Nat
  BY <1>1
<1>3. w \in Seq(Nat) /\ Len(w) = Len(v) + 1
  BY <1>1, <1>2
<1>4. \A i \in 1..Len(w) : w[i] = IF i = Len(v) + 1 THEN sources[reads[i]] ELSE v[i]
  BY <1>1, <1>2
<1>5. Upto(w, reads, sources)
  BY <1>1, <1>2, <1>3, <1>4 DEF Upto
<1>6. ASSUME NEW c, Whole(c, reads, sources), Later(v, c)
      PROVE  Later(w, c)
  BY <1>1, <1>3, <1>4, <1>6 DEF Whole, Upto, Later
<1> QED BY <1>2, <1>5, <1>6

LEMMA ReadKeeps ==
  ASSUME PreparedIInv, NEW r \in Requests, Read(r)
  PROVE  PreparedIInv'
<1> DEFINE a == action[r]
           v == Append(a.read, Value(a.kind.reads[Len(a.read) + 1]))
           b == [a EXCEPT !.read = v]
<1>1. /\ DOMAIN b = DOMAIN a /\ b.at = a.at /\ b.verdict = a.verdict /\ b.kind = a.kind
      /\ b.read = v /\ b.promised = a.promised /\ b.content = a.content /\ b.next = a.next
  BY ActionIs DEF StageOK
<1>2. action' = [action EXCEPT ![r] = b]
  BY ActionIs DEF Read, StageOK, PreparedIInv
<1>3. /\ a.at \in {"prepare", "execute", "again"} /\ Len(a.read) # Len(a.kind.reads)
      /\ StageOK(a) /\ KindOK(a.kind) /\ a.verdict = "none" /\ a.next = 1
      /\ ~(a.at = "execute" /\ a.kind.frozen)
  BY ActionIs DEF Read, HasRead, StageOK
<1>4. a.kind.check = "again" \/ a.kind.does = "write" =>
        /\ a.kind.reads \in Seq(Sources)
        /\ Upto(v, a.kind.reads, source)
        /\ \A c : Whole(c, a.kind.reads, source) /\ Later(a.read, c) => Later(v, c)
  <2> SUFFICES ASSUME a.kind.check = "again" \/ a.kind.does = "write"
               PROVE  /\ a.kind.reads \in Seq(Sources) /\ Upto(v, a.kind.reads, source)
                      /\ \A c : Whole(c, a.kind.reads, source) /\ Later(a.read, c) => Later(v, c)
    OBVIOUS
  <2>1. a.kind.reads \in Seq(Sources) /\ source \in [Sources -> Nat]
    BY <1>3 DEF KindOK, PreparedIInv
  <2>2. Upto(a.read, a.kind.reads, source)
    BY <1>3, ActionIs DEF WriteOK, ShowOK
  <2>3. a.kind.reads[Len(a.read) + 1] \in Sources
    BY <1>3, <2>1, <2>2, UptoGrows
  <2>4. v = Append(a.read, source[a.kind.reads[Len(a.read) + 1]])
    BY <2>3 DEF Value, Sources, Notes
  <2> HIDE DEF v
  <2> QED BY <1>3, <2>1, <2>2, <2>4, UptoGrows
<1>5. a.kind.does \in {"append", "copy"} => a.read = <<>> /\ v = <<file[NotesFile]>>
  <2> SUFFICES ASSUME a.kind.does \in {"append", "copy"}
               PROVE  a.read = <<>> /\ v = <<file[NotesFile]>>
    OBVIOUS
  <2>1. a.kind.reads = <<Notes>>
    BY <1>3 DEF KindOK
  <2>2. a.read = <<>>
    BY <1>3, <2>1, ActionIs DEF AppendOK, CopyOK
  <2> QED BY <2>1, <2>2 DEF Value
<1> HIDE DEF b, v
<1>6. StageOK(b)
  BY <1>1, <1>3 DEF StageOK, Decided
<1>7. (Composed(b) <=> Composed(a)) /\ (Promised(b) <=> Promised(a))
  BY <1>1 DEF Composed, Promised, Decided
<1>8. b.kind.does = "write" => WriteOK(b, source) /\ FilesOK(r, b, file)
  <2> SUFFICES ASSUME b.kind.does = "write"
               PROVE  WriteOK(b, source) /\ FilesOK(r, b, file)
    OBVIOUS
  <2>1. WriteOK(a, source)
    BY <1>1, <1>3, ActionIs
  <2>2. b.at = "execute" /\ b.promised # NoPromise => Later(b.read, b.promised)
    BY <1>1, <1>4, <2>1 DEF WriteOK, Promised
  <2> QED BY <1>1, <1>3, <1>4, <1>7, <2>1, <2>2 DEF WriteOK, FilesOK
<1>9. b.kind.does = "append" => AppendOK(r, b, file[NotesFile], action)
  <2> SUFFICES ASSUME b.kind.does = "append"
               PROVE  AppendOK(r, b, file[NotesFile], action)
    OBVIOUS
  <2>1. AppendOK(r, a, file[NotesFile], action)
    BY <1>1, <1>3, ActionIs
  <2>2. b.read = <<file[NotesFile]>> /\ b.read = <<b.read[1]>> /\ b.read[1] = file[NotesFile]
    BY <1>1, <1>5
  <2> QED BY <1>1, <1>3, <1>7, <2>1, <2>2 DEF AppendOK, PreparedIInv
<1>10. b.kind.does = "copy" => CopyOK(b, file[NotesFile], action) /\ FilesOK(r, b, file)
  <2> SUFFICES ASSUME b.kind.does = "copy"
               PROVE  CopyOK(b, file[NotesFile], action) /\ FilesOK(r, b, file)
    OBVIOUS
  <2>1. CopyOK(a, file[NotesFile], action)
    BY <1>1, <1>3, ActionIs
  <2>2. b.read = <<file[NotesFile]>> /\ b.read = <<b.read[1]>> /\ b.read[1] = file[NotesFile]
    BY <1>1, <1>5
  <2> QED BY <1>1, <1>3, <1>7, <2>1, <2>2 DEF CopyOK, PreparedIInv, FilesOK
<1>11. b.kind.check = "again" => ShowOK(b, source)
  <2> SUFFICES ASSUME b.kind.check = "again"
               PROVE  ShowOK(b, source)
    OBVIOUS
  <2>1. ShowOK(a, source)
    BY <1>1, <1>3, ActionIs
  <2> QED BY <1>1, <1>3, <1>4, <1>7, <2>1 DEF ShowOK
<1>12. RequestKept(r, b, source, file, action)
  BY <1>1, <1>3, <1>6, <1>8, <1>9, <1>10, <1>11 DEF RequestKept
<1> QED BY <1>1, <1>2, <1>12, OneRequestMoves DEF HasAppended, Read

LEMMA PrepareKeeps ==
  ASSUME PreparedIInv, NEW r \in Requests, Prepare(r)
  PROVE  PreparedIInv'
<1> DEFINE a == action[r]
           p == Content(r, a.read)
           content == IF a.kind.frozen THEN p ELSE <<>>
           b == [a EXCEPT !.at = "approval", !.read = <<>>, !.promised = p, !.content = content]
<1>1. /\ DOMAIN b = DOMAIN a /\ b.at = "approval" /\ b.verdict = a.verdict /\ b.kind = a.kind
      /\ b.read = <<>> /\ b.promised = p /\ b.content = content /\ b.next = a.next
  BY ActionIs DEF StageOK
<1>2. action' = [action EXCEPT ![r] = b]
  BY ActionIs DEF Prepare, StageOK, PreparedIInv
<1>3. /\ a.at = "prepare" /\ Len(a.read) = Len(a.kind.reads) /\ a.kind.check = "promise"
      /\ StageOK(a) /\ KindOK(a.kind) /\ a.verdict = "none" /\ a.next = 1
  BY ActionIs DEF Prepare, HasRead, StageOK
<1>4. /\ a.kind.does = "append" => p = Append(a.read[1], r)
      /\ a.kind.does = "copy" => p = a.read[1]
      /\ a.kind.does = "write" /\ a.kind.reads # <<"document">> => p = <<a.read>>
      /\ a.kind.does = "write" /\ p # NoPromise => p = <<a.read>>
  BY <1>3, ContentIs
<1>5. a.kind.does \in {"append", "copy"} => a.read # <<>>
  <2> SUFFICES ASSUME a.kind.does \in {"append", "copy"}
               PROVE  a.read # <<>>
    OBVIOUS
  <2>1. Len(a.kind.reads) = 1 /\ Len(<<>>) = 0
    BY <1>3 DEF KindOK
  <2>2. Len(a.read) = 1
    BY <1>3, <2>1
  <2>3. Len(a.read) # Len(<<>>)
    BY <2>1, <2>2
  <2> QED BY <2>3, Zenon
<1>6. a.kind.frozen => a.kind.does = "write" /\ a.kind.reads # <<"document">> /\ content = p
  BY <1>3 DEF KindOK
<1> HIDE DEF b, content, p
<1>7. StageOK(b)
  BY <1>1, <1>3 DEF StageOK, Decided
<1>8. ~Composed(b) /\ Promised(b)
  BY <1>1, <1>3 DEF Composed, Promised, Decided
<1>9. b.kind.does = "write" => WriteOK(b, source) /\ FilesOK(r, b, file)
  <2> SUFFICES ASSUME b.kind.does = "write"
               PROVE  WriteOK(b, source) /\ FilesOK(r, b, file)
    OBVIOUS
  <2>1. Upto(a.read, a.kind.reads, source) /\ a.kind.reads \in Seq(Sources)
    BY <1>1, <1>3, ActionIs DEF WriteOK, KindOK
  <2>2. Whole(<<a.read>>, a.kind.reads, source)
    BY <1>3, <2>1 DEF Whole
  <2>3. Upto(<<>>, a.kind.reads, source)
    BY <2>1 DEF Upto
  <2>4. <<a.read>> # NoPromise
    BY DEF NoPromise
  <2> QED BY <1>1, <1>3, <1>4, <1>6, <1>8, <2>2, <2>3, <2>4 DEF WriteOK, FilesOK
<1>10. b.kind.does = "append" => AppendOK(r, b, file[NotesFile], action)
  <2> SUFFICES ASSUME b.kind.does = "append"
               PROVE  AppendOK(r, b, file[NotesFile], action)
    OBVIOUS
  <2>1. Was(a.read[1], action) /\ a.read[1] \in Seq({0} \cup Requests)
    BY <1>1, <1>3, <1>5, ActionIs DEF AppendOK
  <2> QED BY <1>1, <1>3, <1>4, <1>8, <2>1 DEF AppendOK
<1>11. b.kind.does = "copy" => CopyOK(b, file[NotesFile], action) /\ FilesOK(r, b, file)
  <2> SUFFICES ASSUME b.kind.does = "copy"
               PROVE  CopyOK(b, file[NotesFile], action) /\ FilesOK(r, b, file)
    OBVIOUS
  <2>1. Was(a.read[1], action)
    BY <1>1, <1>3, <1>5, ActionIs DEF CopyOK
  <2> QED BY <1>1, <1>3, <1>4, <1>8, <2>1 DEF CopyOK, FilesOK
<1>12. RequestKept(r, b, source, file, action)
  BY <1>1, <1>3, <1>7, <1>9, <1>10, <1>11 DEF RequestKept
<1>13. UNCHANGED <<source, file>> /\ ~HasAppended(action[r])
  BY <1>3 DEF Prepare, HasAppended
<1> QED BY <1>2, <1>12, <1>13, OneRequestMoves

LEMMA AppendEnds ==
  ASSUME NEW r \in Requests, NEW p \in Seq({0} \cup Requests)
  PROVE  Append(p, r) \in Seq({0} \cup Requests) /\ EndsWith(Append(p, r), r) /\ Append(p, r) # <<>>
<1>1. Append(p, r) \in Seq({0} \cup Requests) /\ Len(Append(p, r)) = Len(p) + 1 /\ Len(p) \in Nat
      /\ Append(p, r)[Len(p) + 1] = r
  OBVIOUS
<1>2. \A s : s = <<>> => Len(s) = 0
  OBVIOUS
<1> QED BY <1>1, <1>2 DEF EndsWith

LEMMA ComposeKeeps ==
  ASSUME PreparedIInv, NEW r \in Requests, Compose(r)
  PROVE  PreparedIInv'
<1> DEFINE a == action[r]  c == Made(r)
<1>1. /\ a.at = "execute" /\ (a.kind.frozen \/ Len(a.read) = Len(a.kind.reads))
      /\ StageOK(a) /\ KindOK(a.kind) /\ a.verdict = "none" /\ a.next = 1
      /\ UNCHANGED <<source, file>>
  BY ActionIs DEF Compose, HasRead, StageOK
<1>2. CASE c = NoPromise
  BY <1>1, <1>2, RequestFails DEF Compose
<1>3. CASE c # NoPromise
  <2>1. PICK at \in {"write", "again", "verify"} :
          /\ at = "write" <=> a.kind.check = "promise"
          /\ at = "again" <=> a.kind.check \in {"again", "reread"}
          /\ at = "verify" <=> a.kind.check = "shape"
          /\ action' = [action EXCEPT ![r].content = c, ![r].read = <<>>, ![r].at = at]
    <3>1. action' = [action EXCEPT ![r].content = c, ![r].read = <<>>,
            ![r].at = CASE action[r].kind.check = "promise" -> "write"
                        [] action[r].kind.check \in {"again", "reread"} -> "again"
                        [] action[r].kind.check = "shape" -> "verify"]
      BY <1>3 DEF Compose
    <3>2. CASE a.kind.check = "promise"
      <4>1. action' = [action EXCEPT ![r].content = c, ![r].read = <<>>, ![r].at = "write"]
        BY <3>1, <3>2
      <4> HIDE DEF c
      <4> QED BY <3>2, <4>1
    <3>3. CASE a.kind.check \in {"again", "reread"}
      <4>1. action' = [action EXCEPT ![r].content = c, ![r].read = <<>>, ![r].at = "again"]
        BY <3>1, <3>3
      <4> HIDE DEF c
      <4> QED BY <3>3, <4>1
    <3>4. CASE a.kind.check = "shape"
      <4>1. action' = [action EXCEPT ![r].content = c, ![r].read = <<>>, ![r].at = "verify"]
        BY <3>1, <3>4
      <4> HIDE DEF c
      <4> QED BY <3>4, <4>1
    <3> QED BY <1>1, <3>2, <3>3, <3>4 DEF KindOK
  <2> DEFINE b == [a EXCEPT !.content = c, !.read = <<>>, !.at = at]
  <2>2. /\ DOMAIN b = DOMAIN a /\ b.at = at /\ b.verdict = a.verdict /\ b.kind = a.kind
        /\ b.read = <<>> /\ b.promised = a.promised /\ b.content = c /\ b.next = a.next
    BY <1>1 DEF StageOK
  <2>3. action' = [action EXCEPT ![r] = b]
    BY <1>1, <2>1 DEF StageOK, PreparedIInv
  <2>4. /\ a.kind.frozen => c = a.content
        /\ ~a.kind.frozen => c = Content(r, a.read)
    BY DEF Made
  <2>5. /\ a.kind.does = "append" => c = Append(a.read[1], r) /\ a.read # <<>>
        /\ a.kind.does = "copy" => c = a.read[1] /\ a.read # <<>>
        /\ a.kind.does \in {"write", "show"} /\ ~a.kind.frozen =>
             c = <<a.read>> /\ (a.kind.reads = <<"document">> => a.read[1] # 0)
    <3>1. a.kind.does \in {"append", "copy"} => ~a.kind.frozen /\ Len(a.kind.reads) = 1 /\ Len(<<>>) = 0
      BY <1>1 DEF KindOK
    <3>2. a.kind.does \in {"append", "copy"} => Len(a.read) = 1
      BY <1>1, <3>1
    <3>3. a.kind.does \in {"append", "copy"} => a.read # <<>>
      <4>1. \A s : s = <<>> => Len(s) = 0
        OBVIOUS
      <4> HIDE DEF a
      <4> QED BY <3>2, <4>1
    <3> HIDE DEF a, c
    <3> QED BY <1>1, <1>3, <2>4, <3>1, <3>3, ContentIs DEF a
  <2> HIDE DEF b, c
  <2>6. StageOK(b)
    BY <1>1, <2>1, <2>2 DEF StageOK, Decided, KindOK
  <2>7. Composed(b) /\ Promised(b) /\ Promised(a) /\ ~Composed(a)
    BY <1>1, <2>1, <2>2 DEF Composed, Promised, Decided
  <2>8. b.kind.does = "write" => WriteOK(b, source) /\ FilesOK(r, b, file)
    <3> SUFFICES ASSUME b.kind.does = "write"
                 PROVE  WriteOK(b, source) /\ FilesOK(r, b, file)
      OBVIOUS
    <3>1. WriteOK(a, source) /\ a.kind.reads \in Seq(Sources) /\ source \in [Sources -> Nat]
      BY <1>1, <2>2, ActionIs DEF KindOK, PreparedIInv
    <3>2. /\ Whole(c, a.kind.reads, source)
          /\ a.promised # NoPromise => Later(c[1], a.promised)
          /\ a.kind.reads = <<"document">> => c[1][1] # 0
      <4>1. CASE a.kind.frozen
        <5>1. c = a.promised /\ a.promised # NoPromise /\ Whole(c, a.kind.reads, source)
          BY <2>4, <2>7, <3>1, <4>1 DEF WriteOK
        <5>2. Later(c[1], c)
          BY <5>1 DEF Whole, Upto, Later
        <5>3. a.kind.reads # <<"document">>
          BY <1>1, <4>1 DEF KindOK
        <5> QED BY <5>1, <5>2, <5>3
      <4>2. CASE ~a.kind.frozen
        <5>1. c = <<a.read>> /\ c[1] = a.read /\ (a.kind.reads = <<"document">> => a.read[1] # 0)
          BY <2>2, <2>5, <4>2
        <5>2. Whole(c, a.kind.reads, source)
          BY <1>1, <3>1, <4>2, <5>1 DEF WriteOK, Whole
        <5> QED BY <1>1, <3>1, <5>1, <5>2 DEF WriteOK
      <4> QED BY <4>1, <4>2
    <3>3. Upto(<<>>, a.kind.reads, source)
      BY <3>1 DEF Upto
    <3>4. a.kind.frozen => c = a.promised /\ a.promised # NoPromise
      BY <2>4, <2>7, <3>1 DEF WriteOK
    <3>5. b.at # "execute" /\ b.verdict = "none" /\ \A i \in 1..(b.next - 1) : FALSE
      BY <1>1, <2>1, <2>2
    <3>6. FilesOK(r, b, file)
      BY <3>5 DEF FilesOK
    <3>7. a.promised # NoPromise => Whole(a.promised, a.kind.reads, source)
      BY <2>7, <3>1 DEF WriteOK
    <3> HIDE DEF a
    <3> QED BY <2>2, <3>2, <3>3, <3>4, <3>5, <3>6, <3>7 DEF WriteOK
  <2>9. b.kind.does = "append" => AppendOK(r, b, file[NotesFile], action)
    <3> SUFFICES ASSUME b.kind.does = "append"
                 PROVE  AppendOK(r, b, file[NotesFile], action)
      OBVIOUS
    <3>1. AppendOK(r, a, file[NotesFile], action) /\ a.read[1] \in Seq({0} \cup Requests)
      BY <1>1, <2>2, <2>5, ActionIs DEF AppendOK
    <3>2. c \in Seq({0} \cup Requests) /\ EndsWith(c, r)
      BY <2>2, <2>5, <3>1, AppendEnds
    <3>3. b.at # "prepare"
      BY <2>1, <2>2
    <3> QED BY <1>1, <2>2, <2>7, <3>1, <3>2, <3>3 DEF AppendOK
  <2>10. b.kind.does = "copy" => CopyOK(b, file[NotesFile], action) /\ FilesOK(r, b, file)
    <3> SUFFICES ASSUME b.kind.does = "copy"
                 PROVE  CopyOK(b, file[NotesFile], action) /\ FilesOK(r, b, file)
      OBVIOUS
    <3>1. CopyOK(a, file[NotesFile], action)
      BY <1>1, <2>2, ActionIs
    <3>2. b.at # "execute" /\ \A i \in 1..(b.next - 1) : FALSE
      BY <1>1, <2>1, <2>2
    <3> QED BY <1>1, <2>2, <2>5, <2>7, <3>1, <3>2 DEF CopyOK, FilesOK
  <2>11. b.kind.check = "again" => ShowOK(b, source)
    <3> SUFFICES ASSUME b.kind.check = "again"
                 PROVE  ShowOK(b, source)
      OBVIOUS
    <3>1. ShowOK(a, source) /\ a.kind.does = "show" /\ ~a.kind.frozen
      BY <1>1, <2>2, ActionIs DEF KindOK
    <3>2. c = <<a.read>> /\ c[1] = a.read
      BY <2>5, <3>1
    <3>3. Whole(c, a.kind.reads, source)
      BY <1>1, <3>1, <3>2 DEF ShowOK, Whole
    <3>4. Upto(<<>>, a.kind.reads, source) /\ Later(<<>>, c)
      BY <1>1, <3>1 DEF Upto, Later, KindOK
    <3> QED BY <1>1, <2>2, <3>3, <3>4 DEF ShowOK
  <2>12. RequestKept(r, b, source, file, action)
    BY <1>1, <2>1, <2>2, <2>6, <2>8, <2>9, <2>10, <2>11 DEF RequestKept
  <2>13. ~HasAppended(action[r])
    BY <1>1 DEF HasAppended
  <2> QED BY <1>1, <2>3, <2>12, <2>13, OneRequestMoves
<1> QED BY <1>2, <1>3

\* Every value the notes had ends with the request that appended it.
LEMMA WasEnds ==
  ASSUME PreparedIInv, NEW v, Was(v, action)
  PROVE  \/ v = <<0>>
         \/ \E o \in Requests : /\ HasAppended(action[o]) /\ v = action[o].content
                                /\ v \in Seq({0} \cup Requests) /\ EndsWith(v, o)
<1>1. ASSUME NEW o \in Requests, HasAppended(action[o])
      PROVE  action[o].content \in Seq({0} \cup Requests) /\ EndsWith(action[o].content, o)
  BY <1>1, ActionIs DEF HasAppended, AppendOK
<1> QED BY <1>1 DEF Was

LEMMA NeverAgain ==
  ASSUME PreparedIInv, NEW v, Was(v, action), NEW r \in Requests, ~HasAppended(action[r]),
         NEW w, EndsWith(w, r)
  PROVE  w # v
<1> SUFFICES ASSUME w = v
             PROVE  FALSE
  OBVIOUS
<1>1. CASE v = <<0>>
  <2>1. v[Len(v)] = 0
    BY <1>1
  <2> QED BY <2>1, PlacesDiffer DEF EndsWith
<1>2. CASE v # <<0>>
  BY <1>2, WasEnds DEF EndsWith
<1> QED BY <1>1, <1>2

LEMMA WriteFileKeeps ==
  ASSUME PreparedIInv, NEW r \in Requests, WriteFile(r)
  PROVE  PreparedIInv'
<1> DEFINE a == action[r]  i == a.next
<1>1. /\ a.at = "write" /\ StageOK(a) /\ KindOK(a.kind) /\ a.verdict = "none"
      /\ i \in 1..a.kind.files /\ a.kind.files \in {1, 2} /\ a.kind.check = "promise"
      /\ Composed(a) /\ Promised(a) /\ UNCHANGED source
      /\ file' = [file EXCEPT ![Path(r, a.kind, i)] = a.content]
  BY ActionIs DEF WriteFile, StageOK, KindOK, Composed, Promised
<1>2. PICK at \in {"verify", "write"} :
        /\ at = "verify" <=> i = a.kind.files
        /\ action' = [action EXCEPT ![r].next = i + 1, ![r].at = at]
  BY DEF WriteFile
<1> DEFINE b == [a EXCEPT !.next = i + 1, !.at = at]
<1>3. /\ DOMAIN b = DOMAIN a /\ b.at = at /\ b.verdict = a.verdict /\ b.kind = a.kind
      /\ b.read = a.read /\ b.promised = a.promised /\ b.content = a.content /\ b.next = i + 1
  BY <1>1 DEF StageOK
<1>4. /\ action' = [action EXCEPT ![r] = b]
      /\ DOMAIN action = Requests /\ DOMAIN action' = Requests /\ action'[r] = b
      /\ \A o \in Requests \ {r} : action'[o] = action[o]
  BY <1>1, <1>2 DEF StageOK, PreparedIInv
<1> HIDE DEF b
<1>5. /\ StageOK(b) /\ Composed(b) /\ Promised(b) /\ b.kind.check = "promise"
      /\ b.at # "prepare" /\ b.at # "execute" /\ b.at # "idle"
  BY <1>1, <1>2, <1>3 DEF StageOK, Composed, Promised, Decided
<1>6. ~HasAppended(a)
  BY <1>1 DEF HasAppended, KindOK
<1>7. \A v : Was(v, action) => Was(v, action')
  <2>1. \A o \in Requests :
          HasAppended(action[o]) => HasAppended(action'[o]) /\ action'[o].content = action[o].content
    BY <1>4, <1>6
  <2> QED BY <2>1, WasGrows
<1>8. b.kind.does = "write" => WriteOK(b, source)
  <2> SUFFICES ASSUME b.kind.does = "write"
               PROVE  WriteOK(b, source)
    OBVIOUS
  <2>1. WriteOK(a, source)
    BY <1>1, <1>3, ActionIs
  <2> QED BY <1>1, <1>3, <1>5, <2>1 DEF WriteOK
<1>9. b.kind.check # "again" /\ b.kind.does # "show"
  BY <1>1, <1>3 DEF KindOK
<1>10. CASE a.kind.does = "append"
  <2>1. i = 1 /\ a.kind.files = 1 /\ b.next = 2
    BY <1>1, <1>3, <1>10 DEF KindOK
  <2>2. AppendOK(r, a, file[NotesFile], action)
    BY <1>1, <1>10, ActionIs
  <2>3. a.content \in Seq({0} \cup Requests) /\ EndsWith(a.content, r)
    BY <1>1, <2>2 DEF AppendOK
  <2>4. file' = [file EXCEPT ![NotesFile] = a.content] /\ NotesFile \in DOMAIN file
    BY <1>1, <1>10, PlacesDiffer DEF Path, PreparedIInv
  <2>5. file'[NotesFile] = a.content /\ DOMAIN file' = Paths
        /\ \A o \in Requests, j \in {1, 2} : file'[<<o, j>>] = file[<<o, j>>]
    BY <2>4, PlacesDiffer DEF PreparedIInv
  <2>6. \A v : Was(v, action) => file'[NotesFile] # v
    BY <1>6, <2>3, <2>5, NeverAgain
  <2>7. Was(file'[NotesFile], action')
    BY <1>3, <1>4, <1>10, <2>1, <2>5 DEF Was, HasAppended
  <2>8. ASSUME NEW o \in Requests
        PROVE  RequestKept(o, action'[o], source, file', action)
    <3>1. CASE o = r
      <4>1. AppendOK(r, b, file'[NotesFile], action)
        BY <1>1, <1>3, <1>5, <2>2, <2>6 DEF AppendOK
      <4> QED BY <1>1, <1>3, <1>4, <1>5, <1>9, <1>10, <3>1, <4>1 DEF RequestKept
    <3>2. CASE o # r
      <4> DEFINE d == action[o]
      <4>1. action'[o] = d
        BY <1>4, <3>2
      <4>2. CASE d.at = "idle"
        BY <4>1, <4>2, ActionIs DEF RequestKept
      <4>3. CASE d.at # "idle"
        <5>1. StageOK(d) /\ KindOK(d.kind)
          BY <4>3, ActionIs
        <5>2. d.kind.does \in {"write", "copy"} => FilesOK(o, d, file')
          <6> SUFFICES ASSUME d.kind.does \in {"write", "copy"}, d.at \in {"write", "verify"},
                              NEW j \in 1..(d.next - 1)
                       PROVE  file'[<<o, j>>] = d.content
            BY DEF FilesOK
          <6>1. file[<<o, j>>] = d.content
            BY <4>3, ActionIs DEF FilesOK
          <6>2. j \in {1, 2}
            BY <5>1 DEF StageOK, KindOK
          <6> QED BY <2>5, <6>1, <6>2
        <5>3. d.kind.does = "append" => AppendOK(o, d, file'[NotesFile], action)
          <6> SUFFICES ASSUME d.kind.does = "append"
                       PROVE  AppendOK(o, d, file'[NotesFile], action)
            OBVIOUS
          <6>1. AppendOK(o, d, file[NotesFile], action)
            BY <4>3, ActionIs
          <6> HIDE DEF d
          <6> QED BY <2>6, <6>1 DEF AppendOK
        <5>4. d.kind.does = "copy" => CopyOK(d, file'[NotesFile], action)
          <6> SUFFICES ASSUME d.kind.does = "copy"
                       PROVE  CopyOK(d, file'[NotesFile], action)
            OBVIOUS
          <6>1. CopyOK(d, file[NotesFile], action)
            BY <4>3, ActionIs
          <6>2. d.at = "execute" \/ Composed(d) => file'[NotesFile] # d.promised
            BY <2>6, <6>1 DEF CopyOK, Promised
          <6> HIDE DEF d
          <6> QED BY <6>1, <6>2 DEF CopyOK
        <5> QED BY <4>1, <4>3, <5>1, <5>2, <5>3, <5>4, ActionIs DEF RequestKept
      <4> QED BY <4>2, <4>3
    <3> QED BY <3>1, <3>2
  <2>9. ASSUME NEW o \in Requests
        PROVE  RequestKept(o, action'[o], source, file', action')
    <3> DEFINE now == action  then == action'  d == action'[o]  files == file'
    <3>1. RequestKept(o, d, source, files, now)
      BY <2>8
    <3>2. \A v : Was(v, now) => Was(v, then)
      BY <1>7
    <3> HIDE DEF now, then, d, files
    <3>3. RequestKept(o, d, source, files, then)
      BY <3>1, <3>2, KeptLater, Zenon
    <3> QED BY <3>3 DEF d, then, files
  <2> QED BY <1>1, <1>4, <2>3, <2>5, <2>7, <2>9 DEF PreparedIInv
<1>11. CASE a.kind.does # "append"
  <2>1. /\ file' = [file EXCEPT ![<<r, i>>] = a.content] /\ i \in {1, 2}
        /\ <<r, i>> \in DOMAIN file
    <3>1. i \in {1, 2}
      BY <1>1
    <3>2. Path(r, a.kind, i) = <<r, i>>
      BY <1>11 DEF Path
    <3>3. file' = [file EXCEPT ![<<r, i>>] = a.content]
      BY <1>1, <3>2
    <3>4. <<r, i>> \in DOMAIN file
      BY <3>1, PlacesDiffer DEF PreparedIInv
    <3> QED BY <3>1, <3>3, <3>4
  <2>2. file'[NotesFile] = file[NotesFile] /\ DOMAIN file' = Paths
        /\ file'[<<r, i>>] = a.content
        /\ \A o \in Requests, j \in {1, 2} : o # r \/ j # i => file'[<<o, j>>] = file[<<o, j>>]
    BY <2>1, PlacesDiffer DEF PreparedIInv
  <2>3. ASSUME NEW o \in Requests
        PROVE  RequestKept(o, action'[o], source, file', action)
    <3>1. CASE o = r
      <4>1. FilesOK(r, b, file')
        <5>1. FilesOK(r, a, file)
          BY <1>1, <1>11, ActionIs DEF KindOK
        <5>2. ASSUME NEW j \in 1..i
              PROVE  file'[<<r, j>>] = a.content
          <6>1. CASE j = i
            BY <2>2, <6>1
          <6>2. CASE j # i
            <7>1. j \in 1..(i - 1) /\ j \in {1, 2}
              BY <1>1, <6>2
            <7>2. file[<<r, j>>] = a.content
              BY <1>1, <5>1, <7>1 DEF FilesOK
            <7> QED BY <2>2, <6>2, <7>1, <7>2
          <6> QED BY <6>1, <6>2
        <5>3. 1..(b.next - 1) = 1..i
          BY <1>1, <1>3
        <5> QED BY <1>3, <5>2, <5>3 DEF FilesOK
      <4>2. b.kind.does = "copy" => CopyOK(b, file'[NotesFile], action)
        <5> SUFFICES ASSUME b.kind.does = "copy"
                     PROVE  CopyOK(b, file'[NotesFile], action)
          OBVIOUS
        <5>1. CopyOK(a, file[NotesFile], action)
          BY <1>1, <1>3, ActionIs
        <5> QED BY <1>1, <1>3, <1>5, <2>2, <5>1 DEF CopyOK
      <4> QED BY <1>1, <1>3, <1>4, <1>5, <1>8, <1>9, <1>11, <3>1, <4>1, <4>2 DEF RequestKept
    <3>2. CASE o # r
      <4> DEFINE d == action[o]
      <4>1. action'[o] = d
        BY <1>4, <3>2
      <4>2. CASE d.at = "idle"
        BY <4>1, <4>2, ActionIs DEF RequestKept
      <4>3. CASE d.at # "idle"
        <5>1. StageOK(d) /\ KindOK(d.kind)
          BY <4>3, ActionIs
        <5>2. d.kind.does \in {"write", "copy"} => FilesOK(o, d, file')
          <6> SUFFICES ASSUME d.kind.does \in {"write", "copy"}, d.at \in {"write", "verify"},
                              NEW j \in 1..(d.next - 1)
                       PROVE  file'[<<o, j>>] = d.content
            BY DEF FilesOK
          <6>1. file[<<o, j>>] = d.content
            BY <4>3, ActionIs DEF FilesOK
          <6>2. j \in {1, 2}
            BY <5>1 DEF StageOK, KindOK
          <6> QED BY <2>2, <3>2, <6>1, <6>2
        <5> QED BY <2>2, <4>1, <4>3, <5>1, <5>2, ActionIs DEF RequestKept
      <4> QED BY <4>2, <4>3
    <3> QED BY <3>1, <3>2
  <2>4. ASSUME NEW o \in Requests
        PROVE  RequestKept(o, action'[o], source, file', action')
    <3> DEFINE now == action  then == action'  d == action'[o]  files == file'
    <3>1. RequestKept(o, d, source, files, now)
      BY <2>3
    <3>2. \A v : Was(v, now) => Was(v, then)
      BY <1>7
    <3> HIDE DEF now, then, d, files
    <3>3. RequestKept(o, d, source, files, then)
      BY <3>1, <3>2, KeptLater, Zenon
    <3> QED BY <3>3 DEF d, then, files
  <2>5. Was(file'[NotesFile], action') /\ file'[NotesFile] \in Seq({0} \cup Requests)
    BY <1>7, <2>2 DEF PreparedIInv
  <2> QED BY <1>1, <1>4, <2>2, <2>4, <2>5 DEF PreparedIInv
<1> QED BY <1>10, <1>11

\* What a promised write finds when it compares the files with the promise.
LEMMA FilesFound ==
  ASSUME PreparedIInv, NEW r \in Requests, action[r].at = "verify", action[r].kind.check = "promise"
  PROVE  LET a == action[r] IN
         /\ FilesMatch(r) => a.promised # NoPromise /\ a.content = a.promised
         /\ ~FilesMatch(r) => ~a.kind.frozen /\ (a.kind.does # "append" => a.content # a.promised)
<1> DEFINE a == action[r]
<1>1. /\ StageOK(a) /\ KindOK(a.kind) /\ Composed(a) /\ Promised(a) /\ a.at # "idle"
      /\ a.next = a.kind.files + 1 /\ a.kind.files \in {1, 2}
  BY ActionIs DEF StageOK, KindOK, Composed, Promised
<1>2. CASE a.kind.does = "append"
  <2>1. AppendOK(r, a, file[NotesFile], action) /\ a.kind.files = 1 /\ ~a.kind.frozen
    BY <1>1, <1>2, ActionIs DEF KindOK
  <2>2. PICK p \in Seq({0} \cup Requests) : a.promised = Append(p, r)
    BY <1>1, <2>1 DEF AppendOK
  <2>3. EndsWith(a.promised, r)
    BY <2>2, AppendEnds
  <2>4. ASSUME FilesMatch(r)
        PROVE  a.promised # NoPromise /\ a.content = a.promised
    <3>1. a.promised # NoPromise /\ file[NotesFile] = a.promised
      BY <1>2, <2>1, <2>4 DEF FilesMatch, Path
    <3>2. file[NotesFile] # <<0>>
      <4>1. \A s : s = <<0>> => s[Len(s)] = 0
        OBVIOUS
      <4> HIDE DEF a
      <4> QED BY <2>3, <3>1, <4>1, PlacesDiffer DEF EndsWith
    <3>3. PICK o \in Requests : file[NotesFile] = action[o].content /\ EndsWith(file[NotesFile], o)
      BY <3>2, WasEnds DEF PreparedIInv
    <3>4. o = r
      BY <2>3, <3>1, <3>3 DEF EndsWith
    <3> QED BY <3>1, <3>3, <3>4
  <2> QED BY <1>2, <2>1, <2>4
<1>3. CASE a.kind.does # "append"
  <2>1. a.kind.does \in {"write", "copy"} /\ FilesOK(r, a, file)
    BY <1>1, <1>3, ActionIs DEF KindOK
  <2>2. \A i \in 1..a.kind.files : file[Path(r, a.kind, i)] = a.content
    <3>1. 1..(a.next - 1) = 1..a.kind.files
      BY <1>1
    <3> QED BY <1>3, <2>1, <3>1 DEF FilesOK, Path
  <2>3. FilesMatch(r) <=> a.promised # NoPromise /\ a.content = a.promised
    <3>1. 1 \in 1..a.kind.files
      BY <1>1
    <3> QED BY <2>2, <3>1 DEF FilesMatch
  <2>4. a.kind.does = "copy" => a.promised # NoPromise /\ ~a.kind.frozen
    <3> SUFFICES ASSUME a.kind.does = "copy"
                 PROVE  a.promised # NoPromise /\ ~a.kind.frozen
      OBVIOUS
    <3>1. Was(a.promised, action) /\ ~a.kind.frozen
      BY <1>1, ActionIs DEF CopyOK, KindOK
    <3>2. Len(a.promised) > 0
      <4>1. Len(<<0>>) > 0
        OBVIOUS
      <4> QED BY <3>1, <4>1, WasEnds DEF EndsWith
    <3>3. \A s : Len(s) > 0 => s # <<>>
      OBVIOUS
    <3> HIDE DEF a
    <3> QED BY <3>1, <3>2, <3>3 DEF NoPromise
  <2>5. a.kind.does = "write" => /\ a.content # NoPromise
                                 /\ a.kind.frozen => a.content = a.promised /\ a.promised # NoPromise
    <3> SUFFICES ASSUME a.kind.does = "write"
                 PROVE  /\ a.content # NoPromise
                        /\ a.kind.frozen => a.content = a.promised /\ a.promised # NoPromise
      OBVIOUS
    <3>1. WriteOK(a, source)
      BY <1>1, ActionIs
    <3>2. a.content = <<a.content[1]>>
      BY <1>1, <3>1 DEF WriteOK, Whole
    <3>3. \A c : <<c>> # <<>>
      OBVIOUS
    <3> HIDE DEF a
    <3> QED BY <1>1, <3>1, <3>2, <3>3 DEF WriteOK, NoPromise
  <2> QED BY <2>1, <2>3, <2>4, <2>5
<1> QED BY <1>2, <1>3

LEMMA VerifyPreparedKeeps ==
  ASSUME PreparedIInv, NEW r \in Requests, VerifyPrepared(r)
  PROVE  PreparedIInv'
<1> DEFINE a == action[r]
<1>1. /\ a.at \in {"verify", "again"} /\ (a.at = "again" => Len(a.read) = Len(a.kind.reads))
      /\ StageOK(a) /\ KindOK(a.kind) /\ a.verdict = "none" /\ Composed(a) /\ Promised(a)
      /\ UNCHANGED <<source, file>>
  BY ActionIs DEF VerifyPrepared, HasRead, StageOK, Composed, Promised
<1>2. PICK verdict \in {"verified", "mismatch"} :
        /\ Finish(r, verdict)
        /\ a.kind.check = "promise" => (verdict = "verified" <=> FilesMatch(r))
        /\ a.kind.check = "again" => (verdict = "verified" <=> <<a.read>> = a.content)
        /\ a.kind.check \in {"shape", "reread"} => verdict = "verified"
  <2>1. Finish(r, IF CASE action[r].kind.check = "promise" -> FilesMatch(r)
                       [] action[r].kind.check = "again" -> <<action[r].read>> = action[r].content
                       [] action[r].kind.check \in {"shape", "reread"} -> TRUE
                    THEN "verified" ELSE "mismatch")
    BY DEF VerifyPrepared
  <2>2. CASE a.kind.check = "promise"
    <3>1. Finish(r, IF FilesMatch(r) THEN "verified" ELSE "mismatch")
      BY <2>1, <2>2
    <3> QED BY <2>2, <3>1
  <2>3. CASE a.kind.check = "again"
    <3>1. Finish(r, IF <<a.read>> = a.content THEN "verified" ELSE "mismatch")
      BY <2>1, <2>3
    <3> QED BY <2>3, <3>1
  <2>4. CASE a.kind.check \in {"shape", "reread"}
    <3>1. Finish(r, "verified")
      BY <2>1, <2>4
    <3> QED BY <2>4, <3>1
  <2> QED BY <1>1, <2>2, <2>3, <2>4 DEF KindOK
<1> DEFINE b == [a EXCEPT !.at = "done", !.verdict = verdict]
<1>3. /\ DOMAIN b = DOMAIN a /\ b.at = "done" /\ b.verdict = verdict /\ b.kind = a.kind
      /\ b.read = a.read /\ b.promised = a.promised /\ b.content = a.content /\ b.next = a.next
  BY <1>1 DEF StageOK
<1>4. action' = [action EXCEPT ![r] = b]
  BY <1>1, <1>2 DEF Finish, StageOK, PreparedIInv
<1> HIDE DEF b
<1>5. Composed(b) /\ Promised(b)
  BY <1>2, <1>3 DEF Composed, Promised, Decided
<1>6. a.kind.check = "promise" =>
        /\ a.at = "verify" /\ a.next = a.kind.files + 1
        /\ verdict = "verified" => a.promised # NoPromise /\ a.content = a.promised
        /\ verdict = "mismatch" => ~a.kind.frozen /\ (a.kind.does # "append" => a.content # a.promised)
  <2> SUFFICES ASSUME a.kind.check = "promise"
               PROVE  /\ a.at = "verify" /\ a.next = a.kind.files + 1
                      /\ verdict = "verified" => a.promised # NoPromise /\ a.content = a.promised
                      /\ verdict = "mismatch" =>
                           ~a.kind.frozen /\ (a.kind.does # "append" => a.content # a.promised)
    OBVIOUS
  <2>1. a.at = "verify" /\ a.next = a.kind.files + 1
    BY <1>1 DEF StageOK
  <2> QED BY <1>2, <2>1, FilesFound
<1>7. StageOK(b)
  BY <1>1, <1>2, <1>3, <1>6 DEF StageOK, KindOK
<1>8. b.kind.does = "write" => WriteOK(b, source) /\ FilesOK(r, b, file)
  <2> SUFFICES ASSUME b.kind.does = "write"
               PROVE  WriteOK(b, source) /\ FilesOK(r, b, file)
    OBVIOUS
  <2>1. WriteOK(a, source) /\ a.kind.check = "promise"
    BY <1>1, <1>3, ActionIs DEF KindOK
  <2> HIDE DEF a
  <2> QED BY <1>1, <1>3, <1>5, <1>6, <2>1 DEF WriteOK, FilesOK
<1>9. b.kind.does = "append" => AppendOK(r, b, file[NotesFile], action)
  <2> SUFFICES ASSUME b.kind.does = "append"
               PROVE  AppendOK(r, b, file[NotesFile], action)
    OBVIOUS
  <2>1. AppendOK(r, a, file[NotesFile], action)
    BY <1>1, <1>3, ActionIs
  <2> HIDE DEF a
  <2> QED BY <1>1, <1>3, <1>5, <2>1 DEF AppendOK
<1>10. b.kind.does = "copy" => CopyOK(b, file[NotesFile], action) /\ FilesOK(r, b, file)
  <2> SUFFICES ASSUME b.kind.does = "copy"
               PROVE  CopyOK(b, file[NotesFile], action) /\ FilesOK(r, b, file)
    OBVIOUS
  <2>1. CopyOK(a, file[NotesFile], action)
    BY <1>1, <1>3, ActionIs
  <2> HIDE DEF a
  <2> QED BY <1>1, <1>3, <1>5, <2>1 DEF CopyOK, FilesOK
<1>11. b.kind.check = "again" => ShowOK(b, source)
  <2> SUFFICES ASSUME b.kind.check = "again"
               PROVE  ShowOK(b, source)
    OBVIOUS
  <2>1. ShowOK(a, source) /\ a.at = "again"
    BY <1>1, <1>3, ActionIs DEF StageOK
  <2> HIDE DEF a
  <2> QED BY <1>1, <1>2, <1>3, <1>5, <2>1 DEF ShowOK
<1>12. RequestKept(r, b, source, file, action)
  BY <1>1, <1>3, <1>7, <1>8, <1>9, <1>10, <1>11 DEF RequestKept
<1>13. HasAppended(a) => HasAppended(b) /\ b.content = a.content
  BY <1>3 DEF HasAppended
<1> QED BY <1>1, <1>4, <1>12, <1>13, OneRequestMoves

LEMMA DriftKeeps ==
  ASSUME PreparedIInv, Drift
  PROVE  PreparedIInv'
<1>1. PICK s \in Sources : source' = [source EXCEPT ![s] = @ + 1]
  BY DEF Drift
<1>2. UNCHANGED <<file, action>>
  BY DEF Drift
<1>3. source' \in [Sources -> Nat] /\ \A o \in Sources : source[o] <= source'[o]
  BY <1>1 DEF PreparedIInv
<1>4. ASSUME NEW v, NEW reads \in Seq(Sources), Upto(v, reads, source)
      PROVE  Upto(v, reads, source')
  <2>1. ASSUME NEW i \in 1..Len(v)
        PROVE  v[i] <= source'[reads[i]]
    <3>1. v[i] \in Nat /\ i \in 1..Len(reads) /\ v[i] <= source[reads[i]]
      BY <1>4 DEF Upto
    <3>2. reads[i] \in Sources
      BY <3>1
    <3>3. source[reads[i]] \in Nat /\ source'[reads[i]] \in Nat /\ source[reads[i]] <= source'[reads[i]]
      BY <1>3, <3>2 DEF PreparedIInv
    <3> QED BY <3>1, <3>3
  <2> QED BY <1>4, <2>1 DEF Upto
<1>5. ASSUME NEW c, NEW reads \in Seq(Sources), Whole(c, reads, source)
      PROVE  Whole(c, reads, source')
  BY <1>4, <1>5 DEF Whole
<1>6. ASSUME NEW r \in Requests
      PROVE  RequestKept(r, action[r], source', file, action)
  <2> DEFINE a == action[r]
  <2>1. a.at # "idle" /\ a.kind.does = "write" => WriteOK(a, source')
    <3> SUFFICES ASSUME a.at # "idle", a.kind.does = "write"
                 PROVE  WriteOK(a, source')
      OBVIOUS
    <3>1. WriteOK(a, source) /\ a.kind.reads \in Seq(Sources)
      BY ActionIs DEF KindOK
    <3> HIDE DEF a
    <3> QED BY <1>4, <1>5, <3>1 DEF WriteOK
  <2>2. a.at # "idle" /\ a.kind.check = "again" => ShowOK(a, source')
    <3> SUFFICES ASSUME a.at # "idle", a.kind.check = "again"
                 PROVE  ShowOK(a, source')
      OBVIOUS
    <3>1. ShowOK(a, source) /\ a.kind.reads \in Seq(Sources)
      BY ActionIs DEF KindOK
    <3> HIDE DEF a
    <3> QED BY <1>4, <1>5, <3>1 DEF ShowOK
  <2> QED BY <2>1, <2>2, ActionIs DEF RequestKept
<1> QED BY <1>2, <1>3, <1>6 DEF PreparedIInv

\* Whatever drifts and whoever writes, a request is where its promise and its reads put it.
THEOREM PreparedInvariance == PreparedSpec => []PreparedIInv
<1>1. PreparedInit => PreparedIInv
  <2> SUFFICES ASSUME PreparedInit
               PROVE  PreparedIInv
    OBVIOUS
  <2>1. source \in [Sources -> Nat] /\ DOMAIN file = Paths /\ DOMAIN action = Requests
    BY DEF PreparedInit
  <2>2. file[NotesFile] = <<0>>
    BY DEF PreparedInit, Paths
  <2>3. <<0>> \in Seq({0} \cup Requests)
    OBVIOUS
  <2>4. ASSUME NEW r \in Requests
        PROVE  RequestKept(r, action[r], source, file, action)
    <3>1. action[r] = [at |-> "idle", kind |-> NoKind, read |-> <<>>, promised |-> NoPromise,
                       content |-> <<>>, next |-> 1, verdict |-> "none"]
      BY DEF PreparedInit
    <3> QED BY <3>1 DEF RequestKept, StageOK, NoKind, Decided
  <2> QED BY <2>1, <2>2, <2>3, <2>4 DEF PreparedIInv, Was
<1>2. PreparedIInv /\ [PreparedNext]_effectVars => PreparedIInv'
  <2> SUFFICES ASSUME PreparedIInv, [PreparedNext]_effectVars
               PROVE  PreparedIInv'
    OBVIOUS
  <2>1. CASE UNCHANGED effectVars
    <3>1. source' = source /\ file' = file /\ action' = action
      BY <2>1 DEF effectVars
    <3>2. \A r \in Requests : RequestKept(r, action'[r], source', file', action')
      BY <3>1, Zenon DEF PreparedIInv
    <3>3. Was(file'[NotesFile], action')
      BY <3>1, Zenon DEF PreparedIInv
    <3> QED BY <3>1, <3>2, <3>3 DEF PreparedIInv
  <2>2. CASE Drift
    BY <2>2, DriftKeeps
  <2>3. ASSUME NEW r \in Requests,
               \/ AskPrepared(r) \/ Read(r) \/ SourceFails(r) \/ Prepare(r) \/ Approve(r) \/ Compose(r)
               \/ WriteFile(r) \/ WriteFails(r) \/ VerifyPrepared(r)
        PROVE  PreparedIInv'
    <3>1. SourceFails(r) \/ WriteFails(r) => PreparedIInv'
      BY RequestFails DEF SourceFails, WriteFails
    <3> QED BY <2>3, <3>1, AskPreparedKeeps, ReadKeeps, PrepareKeeps, ApproveKeeps, ComposeKeeps,
               WriteFileKeeps, VerifyPreparedKeeps
  <2> QED BY <2>1, <2>2, <2>3 DEF PreparedNext
<1> QED BY <1>1, <1>2, PTL DEF PreparedSpec

\* A verified action wrote what it had promised, every file of it, however long its approval
\* took and whoever else wrote to the same file in between.
THEOREM VerifiedMeansPromised == PreparedSpec => []VerifiedAsPromised
<1>1. PreparedIInv => VerifiedAsPromised
  <2> SUFFICES ASSUME PreparedIInv, NEW r \in Requests, action[r].verdict = "verified",
                      action[r].kind.check = "promise"
               PROVE  /\ action[r].promised # NoPromise
                      /\ action[r].content = action[r].promised
                      /\ action[r].next = action[r].kind.files + 1
    BY DEF VerifiedAsPromised
  <2> DEFINE a == action[r]
  <2>1. a.at # "idle" /\ StageOK(a) /\ KindOK(a.kind) /\ Promised(a)
    BY ActionIs DEF StageOK, Promised, Composed, Decided
  <2>2. a.content = a.promised /\ a.next = a.kind.files + 1
    BY <2>1 DEF StageOK, Decided
  <2>3. a.promised # NoPromise
    <3>1. CASE a.kind.does = "write"
      BY <2>1, <3>1, ActionIs DEF WriteOK
    <3>2. CASE a.kind.does = "append"
      <4>1. PICK p \in Seq({0} \cup Requests) : a.promised = Append(p, r)
        BY <2>1, <3>2, ActionIs DEF AppendOK
      <4> QED BY <4>1, AppendEnds DEF NoPromise
    <3>3. CASE a.kind.does = "copy"
      <4>1. Was(a.promised, action)
        BY <2>1, <3>3, ActionIs DEF CopyOK
      <4>2. \A s : s = <<>> => Len(s) = 0
        OBVIOUS
      <4>3. Len(<<0>>) > 0
        OBVIOUS
      <4>4. Len(a.promised) > 0
        BY <4>1, <4>3, WasEnds DEF EndsWith
      <4> HIDE DEF a
      <4> QED BY <4>2, <4>4 DEF NoPromise
    <3> QED BY <2>1, <3>1, <3>2, <3>3 DEF KindOK
  <2> QED BY <2>2, <2>3
<1> QED BY <1>1, PreparedInvariance, PTL

\* A mismatch is never of content that was frozen with its promise, and elsewhere what was
\* read did change: made now, the content would not be what was promised or shown. For
\* the Today report, which reads the clock, the change may be of the time alone.
THEOREM MismatchesHaveReasons == PreparedSpec => []MismatchMeansChange
<1>1. PreparedIInv => MismatchMeansChange
  <2> SUFFICES ASSUME PreparedIInv, NEW r \in Requests, action[r].verdict = "mismatch"
               PROVE  /\ ~action[r].kind.frozen
                      /\ action[r].kind.check = "promise" => Now(r) # action[r].promised
                      /\ action[r].kind.check = "again" => Now(r) # action[r].content
    BY DEF MismatchMeansChange
  <2> DEFINE a == action[r]
             reads == a.kind.reads
             now == [i \in DOMAIN reads |-> Value(reads[i])]
  <2>1. a.at # "idle" /\ StageOK(a) /\ KindOK(a.kind) /\ Promised(a) /\ Composed(a)
    BY ActionIs DEF StageOK, Promised, Composed, Decided
  <2>2. Now(r) = Content(r, now)
    BY DEF Now
  <2>3. ~a.kind.frozen
    BY <2>1 DEF StageOK, KindOK
  <2>4. a.kind.does \in {"append", "copy"} => now[1] = file[NotesFile]
    <3> SUFFICES ASSUME a.kind.does \in {"append", "copy"}
                 PROVE  now[1] = file[NotesFile]
      OBVIOUS
    <3>1. reads = <<Notes>>
      BY <2>1 DEF KindOK
    <3> QED BY <3>1 DEF Value
  <2>5. a.kind.does = "write" \/ a.kind.check = "again" =>
          /\ reads \in Seq(Sources)
          /\ \A i \in 1..Len(reads) : now[i] = source[reads[i]] /\ source[reads[i]] \in Nat
    <3> SUFFICES ASSUME a.kind.does = "write" \/ a.kind.check = "again"
                 PROVE  /\ reads \in Seq(Sources)
                        /\ \A i \in 1..Len(reads) : now[i] = source[reads[i]] /\ source[reads[i]] \in Nat
      OBVIOUS
    <3>1. reads \in Seq(Sources) /\ source \in [Sources -> Nat]
      BY <2>1 DEF KindOK, PreparedIInv
    <3>2. ASSUME NEW i \in 1..Len(reads)
          PROVE  now[i] = source[reads[i]] /\ source[reads[i]] \in Nat
      <4>1. i \in DOMAIN reads /\ reads[i] \in Sources
        BY <3>1
      <4> QED BY <3>1, <4>1 DEF Value, Sources, Notes
    <3> QED BY <3>1, <3>2
  <2> HIDE DEF now
  <2>6. CASE a.kind.does = "append"
    <3>1. PICK p \in Seq({0} \cup Requests) : a.promised = Append(p, r) /\ file[NotesFile] # p
      <4>1. a.next = 2
        BY <2>1, <2>6 DEF KindOK, StageOK, Decided
      <4> QED BY <2>1, <2>6, <4>1, ActionIs DEF AppendOK
    <3>2. Now(r) = Append(file[NotesFile], r)
      BY <2>1, <2>2, <2>4, <2>6, ContentIs
    <3>3. \A s, t \in Seq({0} \cup Requests) : Append(s, r) = Append(t, r) => s = t
      BY AppendsDiffer
    <3>4. file[NotesFile] \in Seq({0} \cup Requests)
      BY DEF PreparedIInv
    <3>5. Now(r) # a.promised
      BY <3>1, <3>2, <3>3, <3>4
    <3>6. a.kind.check = "promise"
      BY <2>1, <2>6 DEF KindOK
    <3> QED BY <2>3, <3>5, <3>6
  <2>7. CASE a.kind.does = "copy"
    <3>1. Now(r) = file[NotesFile]
      BY <2>1, <2>2, <2>4, <2>7, ContentIs
    <3>2. a.content # a.promised /\ a.kind.check = "promise"
      BY <2>1, <2>7 DEF KindOK, StageOK, Decided
    <3> QED BY <2>1, <2>3, <2>7, <3>1, <3>2, ActionIs DEF CopyOK
  <2>8. CASE a.kind.does = "write"
    <3> SUFFICES ASSUME Now(r) = a.promised
                 PROVE  FALSE
      BY <2>1, <2>3, <2>8 DEF KindOK
    <3>1. WriteOK(a, source) /\ a.content # a.promised
      BY <2>1, <2>8, ActionIs DEF KindOK, StageOK
    <3>2. Whole(a.content, reads, source) /\ (reads = <<"document">> => a.content[1][1] # 0)
      BY <2>1, <3>1 DEF WriteOK
    <3>3. a.promised # NoPromise
      <4>1. CASE reads = <<"document">>
        <5>1. Len(a.content[1]) = 1 /\ a.content[1][1] \in Nat /\ a.content[1][1] <= now[1] /\ now[1] \in Nat
          BY <2>5, <2>8, <3>2, <4>1 DEF Whole, Upto
        <5>2. now[1] # 0
          BY <3>2, <4>1, <5>1
        <5>3. Now(r) = <<now>>
          BY <2>1, <2>2, <2>8, <4>1, <5>2, DocumentContent
        <5> QED BY <5>3 DEF NoPromise
      <4>2. CASE reads # <<"document">>
        <5>1. Now(r) = <<now>>
          BY <2>1, <2>2, <2>8, <4>2, ContentIs
        <5> QED BY <5>1 DEF NoPromise
      <4> QED BY <4>1, <4>2
    <3>4. a.promised = <<now>>
      BY <2>1, <2>2, <2>8, <3>3, ContentIs
    <3>5. Whole(a.promised, reads, source) /\ Later(a.content[1], a.promised)
      BY <2>1, <3>1, <3>3 DEF WriteOK
    <3>6. a.content[1] = now
      <4>1. a.promised[1] = now /\ now \in Seq(Nat) /\ Len(now) = Len(reads)
        BY <3>4, <3>5 DEF Whole, Upto
      <4>2. a.content[1] \in Seq(Nat) /\ Len(a.content[1]) = Len(reads)
        BY <3>2 DEF Whole, Upto
      <4>3. ASSUME NEW i \in 1..Len(reads)
            PROVE  a.content[1][i] = now[i]
        <5>1. a.content[1][i] <= source[reads[i]] /\ now[i] <= a.content[1][i]
          BY <3>2, <3>5, <4>1, <4>2 DEF Whole, Upto, Later
        <5>2. a.content[1][i] \in Nat
          BY <4>2
        <5>3. now[i] = source[reads[i]] /\ source[reads[i]] \in Nat
          BY <2>5, <2>8
        <5> QED BY <5>1, <5>2, <5>3
      <4> QED BY <4>1, <4>2, <4>3, SameVector
    <3>7. a.content = <<now>>
      BY <3>2, <3>6 DEF Whole
    <3> QED BY <3>1, <3>4, <3>7
  <2>9. CASE a.kind.check = "again"
    <3> SUFFICES ASSUME Now(r) = a.content
                 PROVE  FALSE
      BY <2>3, <2>9
    <3>1. ShowOK(a, source) /\ a.kind.does = "show" /\ reads # <<"document">>
      BY <2>1, <2>9, ActionIs DEF KindOK
    <3>2. /\ Whole(a.content, reads, source) /\ Later(a.read, a.content) /\ Upto(a.read, reads, source)
          /\ Len(a.read) = Len(reads) /\ <<a.read>> # a.content
      BY <2>1, <3>1 DEF ShowOK
    <3>3. a.content = <<now>> /\ a.content[1] = now
      BY <2>1, <2>2, <3>1, ContentIs
    <3>4. a.read = now
      <4>1. now \in Seq(Nat) /\ Len(now) = Len(reads) /\ a.read \in Seq(Nat)
        BY <3>2, <3>3 DEF Whole, Upto
      <4>2. ASSUME NEW i \in 1..Len(reads)
            PROVE  a.read[i] = now[i]
        <5>1. a.read[i] <= source[reads[i]] /\ now[i] <= a.read[i]
          BY <3>2, <3>3 DEF Upto, Later
        <5>2. a.read[i] \in Nat /\ now[i] = source[reads[i]] /\ source[reads[i]] \in Nat
          BY <2>5, <2>9, <3>2, <4>1
        <5> QED BY <5>1, <5>2
      <4> QED BY <3>2, <4>1, <4>2, SameVector
    <3> QED BY <3>2, <3>3, <3>4
  <2>10. CASE a.kind.check \in {"shape", "reread"}
    BY <2>1, <2>10 DEF StageOK
  <2> QED BY <2>1, <2>6, <2>7, <2>8, <2>9, <2>10 DEF KindOK
<1> QED BY <1>1, PreparedInvariance, PTL

\* A vector of what was read, never longer than what there is to read.
ReadValues == Nat \cup Seq({0} \cup Requests)
VectorOK(a) ==
  /\ DOMAIN a = {"at", "kind", "read", "promised", "content", "next", "verdict"}
  /\ a.kind.reads \in Seq(Sources \cup {Notes})
  /\ a.read \in Seq(ReadValues) /\ Len(a.read) <= Len(a.kind.reads)
PreparedTyped ==
  /\ \A s \in Sources : source[s] \in 0..(1 + Drifts)
  /\ DOMAIN action = Requests
  /\ \A r \in Requests : VectorOK(action[r])

\* one request moves on
LEMMA VectorsTyped ==
  ASSUME PreparedTyped, NEW r \in Requests, UNCHANGED source, NEW a, VectorOK(a),
         action' = [action EXCEPT ![r] = a]
  PROVE  PreparedTyped'
BY DEF PreparedTyped

LEMMA KindReads ==
  ASSUME NEW k \in AllKinds
  PROVE  k.reads \in Seq(Sources \cup {Notes})
<1>1. \A l \in Seq(Sources) : l \in Seq(Sources \cup {Notes})
  OBVIOUS
<1>2. <<Notes>> \in Seq(Sources \cup {Notes})
  OBVIOUS
<1> QED BY <1>1, <1>2, KindsAreOK DEF KindOK

LEMMA ValueTyped ==
  ASSUME PreparedIInv, NEW s \in Sources \cup {Notes}
  PROVE  Value(s) \in ReadValues
BY DEF PreparedIInv, Value, ReadValues

LEMMA LongerVector ==
  ASSUME NEW S, NEW v \in Seq(S), NEW x \in S
  PROVE  Append(v, x) \in Seq(S) /\ Len(Append(v, x)) = Len(v) + 1 /\ Len(v) \in Nat
OBVIOUS

LEMMA AskPreparedTyped ==
  ASSUME PreparedAssumption, PreparedIInv, PreparedTyped, NEW r \in Requests, AskPrepared(r)
  PROVE  PreparedTyped'
<1>1. PICK kind \in AskedKinds :
        action' = [action EXCEPT ![r].kind = kind,
                                 ![r].at = IF kind.does = "show" THEN "execute" ELSE "prepare"]
  BY DEF AskPrepared
<1>2. kind.reads \in Seq(Sources \cup {Notes})
  BY KindReads DEF PreparedAssumption
<1>3. action[r].at = "idle" /\ action[r].read = <<>>
  BY DEF AskPrepared, PreparedIInv, RequestKept, StageOK
<1> DEFINE a == [action[r] EXCEPT !.kind = kind,
                                  !.at = IF kind.does = "show" THEN "execute" ELSE "prepare"]
<1>4. action' = [action EXCEPT ![r] = a]
  BY <1>1
<1>5. a.kind = kind /\ a.read = <<>> /\ DOMAIN a = DOMAIN action[r]
  BY <1>3 DEF PreparedTyped, VectorOK
<1>6. VectorOK(a)
  <2>1. <<>> \in Seq(ReadValues) /\ Len(<<>>) = 0 /\ Len(kind.reads) \in Nat
    BY <1>2
  <2> HIDE DEF a
  <2> QED BY <1>2, <1>5, <2>1 DEF PreparedTyped, VectorOK
<1>7. UNCHANGED source
  BY DEF AskPrepared
<1> HIDE DEF a
<1> QED BY <1>4, <1>6, <1>7, VectorsTyped

LEMMA ReadTyped ==
  ASSUME PreparedAssumption, PreparedIInv, PreparedTyped, NEW r \in Requests, Read(r)
  PROVE  PreparedTyped'
<1> DEFINE v == action[r].read
           reads == action[r].kind.reads
           a == [action[r] EXCEPT !.read = Append(v, Value(reads[Len(v) + 1]))]
<1>1. action' = [action EXCEPT ![r] = a] /\ UNCHANGED source
  BY DEF Read
<1>2. /\ VectorOK(action[r]) /\ reads \in Seq(Sources \cup {Notes}) /\ v \in Seq(ReadValues)
      /\ Len(v) <= Len(reads) /\ Len(v) # Len(reads)
  BY DEF PreparedTyped, VectorOK, Read, HasRead
<1>3. Len(v) + 1 \in 1..Len(reads) /\ Len(v) + 1 <= Len(reads)
  <2>1. Len(v) \in Nat /\ Len(reads) \in Nat
    BY <1>2
  <2> HIDE DEF v, reads
  <2> QED BY <1>2, <2>1
<1>4. reads[Len(v) + 1] \in Sources \cup {Notes}
  BY <1>2, <1>3
<1>5. Value(reads[Len(v) + 1]) \in ReadValues
  BY <1>4, ValueTyped
<1>6. /\ Append(v, Value(reads[Len(v) + 1])) \in Seq(ReadValues)
      /\ Len(Append(v, Value(reads[Len(v) + 1]))) = Len(v) + 1
  BY <1>2, <1>5, LongerVector
<1>7. /\ DOMAIN a = DOMAIN action[r] /\ a.kind = action[r].kind
      /\ a.read = Append(v, Value(reads[Len(v) + 1]))
  BY <1>2 DEF VectorOK
<1>8. VectorOK(a)
  BY <1>2, <1>3, <1>6, <1>7 DEF VectorOK
<1> HIDE DEF a
<1> QED BY <1>1, <1>8, VectorsTyped

\* what leaves the vector alone, or starts a new one
LEMMA StepsOnTyped ==
  ASSUME PreparedTyped, NEW r \in Requests, UNCHANGED source,
         NEW a, action' = [action EXCEPT ![r] = a], DOMAIN a = DOMAIN action[r],
         a.kind = action[r].kind, a.read \in {action[r].read, <<>>}
  PROVE  PreparedTyped'
<1>1. VectorOK(action[r])
  BY DEF PreparedTyped
<1>2. <<>> \in Seq(ReadValues) /\ Len(<<>>) = 0 /\ Len(action[r].kind.reads) \in Nat
  BY <1>1 DEF VectorOK
<1>3. /\ a.read \in Seq(ReadValues)
      /\ Len(a.read) <= Len(action[r].kind.reads)
  <2>1. CASE a.read = <<>>
    BY <1>2, <2>1
  <2>2. CASE a.read = action[r].read
    BY <1>1, <2>2 DEF VectorOK
  <2> QED BY <2>1, <2>2
<1>4. VectorOK(a)
  BY <1>1, <1>3 DEF VectorOK
<1> QED BY <1>4, VectorsTyped

LEMMA OthersTyped ==
  ASSUME PreparedTyped, NEW r \in Requests,
         \/ SourceFails(r) \/ Prepare(r) \/ Approve(r) \/ Compose(r)
         \/ WriteFile(r) \/ WriteFails(r) \/ VerifyPrepared(r)
  PROVE  PreparedTyped'
<1> DEFINE now == action[r]
<1>1. UNCHANGED source
  BY DEF SourceFails, Prepare, Approve, Compose, WriteFile, WriteFails, VerifyPrepared
<1>2. DOMAIN now = {"at", "kind", "read", "promised", "content", "next", "verdict"}
  BY DEF PreparedTyped, VectorOK
<1>3. ASSUME NEW verdict, Finish(r, verdict)
      PROVE  PreparedTyped'
  <2>1. action' = [action EXCEPT ![r] = [now EXCEPT !.at = "done", !.verdict = verdict]]
    BY <1>3 DEF Finish
  <2> QED BY <1>1, <1>2, <2>1, StepsOnTyped
<1>4. CASE SourceFails(r) \/ WriteFails(r) \/ VerifyPrepared(r)
  BY <1>3, <1>4 DEF SourceFails, WriteFails, VerifyPrepared
<1>5. CASE Prepare(r)
  <2>1. PICK p, c : action' = [action EXCEPT ![r] = [now EXCEPT !.at = "approval", !.read = <<>>,
                                                       !.promised = p, !.content = c]]
    BY <1>5 DEF Prepare
  <2> QED BY <1>1, <1>2, <2>1, StepsOnTyped
<1>6. CASE Approve(r)
  <2>1. action' = [action EXCEPT ![r] = [now EXCEPT !.at = "execute"]]
    BY <1>6 DEF Approve
  <2> QED BY <1>1, <1>2, <2>1, StepsOnTyped
<1>7. CASE Compose(r)
  <2>1. CASE Finish(r, "failed")
    BY <1>3, <2>1
  <2>2. CASE ~Finish(r, "failed")
    <3> DEFINE at == CASE action[r].kind.check = "promise" -> "write"
                       [] action[r].kind.check \in {"again", "reread"} -> "again"
                       [] action[r].kind.check = "shape" -> "verify"
    <3>1. action' = [action EXCEPT ![r].content = Made(r), ![r].read = <<>>, ![r].at = at]
      BY <1>7, <2>2, Zenon DEF Compose
    <3> HIDE DEF at
    <3>2. action' = [action EXCEPT ![r] = [now EXCEPT !.content = Made(r), !.read = <<>>, !.at = at]]
      BY <3>1
    <3> QED BY <1>1, <1>2, <3>2, StepsOnTyped
  <2> QED BY <2>1, <2>2
<1>8. CASE WriteFile(r)
  <2>1. PICK n, at : action' = [action EXCEPT ![r] = [now EXCEPT !.next = n, !.at = at]]
    BY <1>8 DEF WriteFile
  <2> QED BY <1>1, <1>2, <2>1, StepsOnTyped
<1> QED BY <1>4, <1>5, <1>6, <1>7, <1>8

\* What was read for a request is no longer than what its kind reads, and a source changes
\* no more often than it may.
THEOREM PreparedTypeCorrect == PreparedSpec => []PreparedTypeOK
<1>1. PreparedInit => PreparedTyped
  <2> SUFFICES ASSUME PreparedInit PROVE PreparedTyped
    OBVIOUS
  <2>1. \A s \in Sources : source[s] \in 0..(1 + Drifts)
    BY PreparedAssumption DEF PreparedInit, PreparedAssumption
  <2>2. \A r \in Requests :
          action[r] = [at |-> "idle", kind |-> NoKind, read |-> <<>>, promised |-> NoPromise,
                       content |-> <<>>, next |-> 1, verdict |-> "none"]
    BY DEF PreparedInit
  <2>3. /\ NoKind.reads = <<>> /\ <<>> \in Seq(Sources \cup {Notes}) /\ <<>> \in Seq(ReadValues)
        /\ Len(<<>>) <= Len(<<>>)
    BY DEF NoKind
  <2>4. ASSUME NEW r \in Requests
        PROVE  VectorOK(action[r])
    <3>1. /\ DOMAIN action[r] = {"at", "kind", "read", "promised", "content", "next", "verdict"}
          /\ action[r].kind.reads = <<>> /\ action[r].read = <<>>
      BY <2>2, <2>3
    <3> QED BY <2>3, <3>1 DEF VectorOK
  <2>5. DOMAIN action = Requests
    BY DEF PreparedInit
  <2> QED BY <2>1, <2>4, <2>5 DEF PreparedTyped
<1>2. PreparedIInv /\ PreparedTyped /\ [PreparedNext]_effectVars => PreparedTyped'
  <2> SUFFICES ASSUME PreparedIInv, PreparedTyped, [PreparedNext]_effectVars
               PROVE  PreparedTyped'
    OBVIOUS
  <2>1. CASE UNCHANGED effectVars
    BY <2>1 DEF effectVars, PreparedTyped
  <2>2. CASE Drift
    <3>1. PICK s \in Sources : source[s] < 1 + Drifts /\ source' = [source EXCEPT ![s] = source[s] + 1]
      BY <2>2 DEF Drift
    <3>2. \A o \in Sources : source'[o] \in 0..(1 + Drifts)
      BY <3>1, PreparedAssumption DEF PreparedTyped, PreparedAssumption, PreparedIInv
    <3>3. action' = action
      BY <2>2 DEF Drift
    <3> QED BY <3>2, <3>3 DEF PreparedTyped
  <2>3. ASSUME NEW r \in Requests,
               \/ AskPrepared(r) \/ Read(r) \/ SourceFails(r) \/ Prepare(r) \/ Approve(r) \/ Compose(r)
               \/ WriteFile(r) \/ WriteFails(r) \/ VerifyPrepared(r)
        PROVE  PreparedTyped'
    BY <2>3, PreparedAssumption, AskPreparedTyped, ReadTyped, OthersTyped
  <2> QED BY <2>1, <2>2, <2>3 DEF PreparedNext
<1>3. PreparedIInv /\ PreparedTyped => PreparedTypeOK
  BY DEF PreparedIInv, PreparedTyped, PreparedTypeOK, VectorOK, RequestKept, StageOK
<1> QED BY <1>1, <1>2, <1>3, PreparedInvariance, PTL DEF PreparedSpec
===============================================================================
